--------------------------- MODULE FailoverProofs ---------------------------
(***************************************************************************)
(* One client, and a failover: the first leader crashes or is stopped at   *)
(* any moment of any request, server 1 takes over, and followers and the   *)
(* old leader fail and rejoin, for every number of servers, requests and   *)
(* retries, with and without the reply cache.                              *)
(*                                                                         *)
(* The hypotheses are the ones under which the code keeps its promise.  It *)
(* breaks when a second request is under way (run                          *)
(* replication_reorder), when a Replicate to a live follower times out, or *)
(* when a server leads that rejoined with a torn copy of the state.        *)
(***************************************************************************)
EXTENDS ReplicationProofs

W == CHOOSE w \in Worker : TRUE

\* One worker, which waits for its answer; no Replicate to a live follower times
\* out; the second leader does not fail.
OneClient ==
  /\ Worker = {W}
  /\ MaxCancels = 0 /\ MaxLate = 0 /\ ~Deadlines
  /\ 1 \notin Mortal /\ N > 1

D == done[W]
C == Current(W)

\* Leadership goes from server 0 to server 1, once.
TookOver == view[1] = 1
Leader == IF TookOver THEN 1 ELSE 0

Leadership ==
  /\ \A s \in Server : view[s] \in {0, 1}
  /\ \A s, t \in Server : Up(s) \/ Up(t) \/ s = t
  /\ \A s \in Server : pulled[s] # NoPull => proc[s] = "starting" /\ Up(pulled[s].peer)
  /\ 0 \in failed /\ ~TookOver => proc[0] \in {"draining", "down"}
  /\ TookOver /\ Up(0) => view[0] = 1
  /\ proc[0] \in {"starting", "joining"} => \A s \in Server : Up(s) => view[s] = 1
  /\ proc[0] = "joining" => view[0] = 1

\* At most one handler, of the request the worker is at, and Replicates only of
\* that handler, or of one that was lost with the first leader.
OneAtATime ==
  /\ cancelled = {} /\ late = {} /\ gaveUp = {}
  /\ \A h \in handlers :
       /\ h.req = C /\ h.try = tries[W] /\ tries[W] > 0 /\ Alive(h.at)
       /\ h.at = Leader \/ (h.at = 0 /\ h.pc = "wait" /\ repl = {})
       /\ \A g \in handlers : g = h
  /\ \A m \in repl :
       /\ m.req = C /\ m.try = tries[W] /\ tries[W] > 0 /\ m.awaited
       /\ m.from = Leader /\ m.to # Leader
       /\ \A k \in repl : k.to = m.to => k = m
  /\ repl # {} => \/ \E h \in handlers : h.pc = "wait" /\ h.at = Leader
                  \/ ~TookOver /\ proc[0] = "down"

\* The current request at server 1: not there, its increment but not its cache
\* entry, both.
Before1 == counters[1] = D /\ (C \in Request => cache[1][C] = 0)
Half1 == C \in Request /\ counters[1] = D + 1 /\ cache[1][C] = 0
After1 == C \in Request /\ counters[1] = D + 1 /\ (dedup => cache[1][C] = D + 1)
Owed1 == \E m \in repl : m.to = 1

\* With the cache, or before the failover, request i has the value i.
Exact == dedup \/ ~TookOver

ExactValues ==
  Exact =>
    /\ \A r \in Request : acked[r] = IF r[2] <= D THEN r[2] ELSE 0
    /\ \A h \in handlers : h.val = IF h.pc \in {"store", "wait"} THEN D + 1 ELSE 0
    /\ \A m \in repl : m.val = D + 1
    /\ \A m \in repl : m.to = 1 => IF m.pc = "counter" THEN Before1 ELSE Half1
    /\ \A h \in handlers :
         /\ h.pc = "lookup" => Before1 \/ (h.at = 1 /\ After1)
         /\ h.pc = "apply" => Before1
         /\ h.pc = "store" => IF h.at = 0 THEN Before1 ELSE Half1
         /\ h.pc = "wait" => After1 \/ Owed1
    /\ handlers = {} => Before1 \/ Owed1 \/ (After1 /\ (TookOver \/ ~Alive(0)))

Applied == \E h \in handlers : h.pc \in {"store", "wait"}

FirstLeaderCounts ==
  /\ ~TookOver /\ Alive(0) => counters[0] = IF Applied THEN D + 1 ELSE D
  /\ \A h \in handlers : h.at = 0 /\ h.pc # "wait" => cache[0][C] = 0

\* Without the cache a retry may be counted again: the counter only covers.
InexactCovers ==
  ~Exact =>
    /\ (IF Applied THEN D + 1 ELSE D) <= counters[1]
    /\ \A h \in handlers : h.val <= counters[1]
    /\ \A r \in Request : acked[r] <= counters[1] /\ (r[2] <= D => acked[r] # 0)

CacheExact == dedup => \A s \in Server, r \in Request : cache[s][r] \in {0, r[2]}

Sequential ==
  OneAtATime /\ ExactValues /\ FirstLeaderCounts /\ InexactCovers /\ CacheExact

FInv == Leadership /\ Sequential

-----------------------------------------------------------------------------
(* Leadership                                                              *)

LEMMA ServersZeroOne ==
  ASSUME OneClient
  PROVE  /\ 0 \in Server /\ 1 \in Server /\ LeaderOf(0) = 0 /\ LeaderOf(1) = 1
         /\ W \in Worker /\ \A w \in Worker : w = W
  <1>1. 0 \in Server /\ 1 \in Server /\ LeaderOf(0) = 0
    BY NAssumption, FirstLeader DEF OneClient, Server
  <1>2. LeaderOf(1) = 1
    BY NAssumption DEF OneClient, LeaderOf
  <1> QED
    BY <1>1, <1>2 DEF OneClient

LEMMA Basics ==
  ASSUME OneClient, IInv, Leadership
  PROVE  /\ TypeInv /\ TypeOK
         /\ Up(1) /\ proc[1] = "up" /\ 1 \notin failed
         /\ TookOver \/ view[1] = 0
         /\ 0 \notin failed => ~TookOver /\ proc[0] = "up"
         /\ D \in Nat /\ D <= Rounds /\ D + 1 \in Nat /\ tries[W] \in Nat
         /\ C = <<W, D + 1>> /\ C[1] = W /\ C[2] = D + 1
         /\ C \in Request <=> D < Rounds
  <1>t. TypeInv /\ TypeOK
    BY DEF IInv, TypeInv
  <1>1. Up(1) /\ proc[1] = "up" /\ 1 \notin failed
    BY <1>t, ServersZeroOne DEF OneClient, TypeInv, ProcessesSound, Up
  <1>2. TookOver \/ view[1] = 0
    BY ServersZeroOne DEF Leadership, TookOver
  <1>3. 0 \notin failed => ~TookOver /\ proc[0] = "up"
    BY <1>t, ServersZeroOne DEF IInv, OneLeader, FirstLeaderStands, TookOver, TypeInv, ProcessesSound
  <1>4. D \in Nat /\ D <= Rounds /\ D + 1 \in Nat /\ tries[W] \in Nat
    BY <1>t, ServersZeroOne, BoundsAssumption DEF TypeOK, D
  <1>5. C = <<W, D + 1>> /\ C[1] = W /\ C[2] = D + 1
    BY DEF C, Current, D
  <1>6. C \in Request <=> D < Rounds
    <2>1. <<W, D + 1>> \in Request <=> D + 1 \in 1 .. Rounds
      BY ServersZeroOne DEF Request
    <2> QED
      BY <1>4, <1>5, <2>1, BoundsAssumption
  <1> QED
    BY <1>t, <1>1, <1>2, <1>3, <1>4, <1>5, <1>6

\* Only the leader of the time leads.
LEMMA LeadsIsLeader ==
  ASSUME OneClient, Leadership, NEW s \in Server, Leads(s)
  PROVE  s = Leader /\ Up(s)
  BY ServersZeroOne DEF Leadership, Leads, Leader, TookOver

LEMMA LeadershipInit == OneClient /\ Init => Leadership
  BY ServersZeroOne DEF Init, Leadership, TookOver, Up

LEMMA LeadershipLife ==
  ASSUME OneClient, IInv, Leadership, NEW s \in Server, LifeStep(s)
  PROVE  Leadership'
  <1>0. /\ TypeInv /\ TypeOK /\ Up(1) /\ proc[1] = "up" /\ 1 \notin failed
        /\ TookOver \/ view[1] = 0
        /\ 0 \notin failed => ~TookOver /\ proc[0] = "up"
    BY Basics
  <1>z. 0 \in Server /\ 1 \in Server /\ LeaderOf(0) = 0 /\ LeaderOf(1) = 1
    BY ServersZeroOne
  <1>v. \A t \in Server : view[t] \in {0, 1} /\ (~Up(LeaderOf(view[t])) => view[t] = 0)
    BY <1>0, <1>z DEF Leadership
  <1>f. proc \in [Server -> {"up", "draining", "down", "starting", "joining"}] /\ view \in [Server -> Nat]
    BY <1>0 DEF TypeOK
  <1>m. ASSUME MayFail(s)
        PROVE  /\ s # 1 /\ \A t \in Server : proc[t] = "up" /\ pulled[t] = NoPull
               /\ ~(s = 0 /\ TookOver) /\ ~(0 \in failed /\ ~TookOver)
    BY <1>0, <1>m, <1>z DEF MayFail, OneClient, Leadership, Up
  <1>1. CASE Crash(s)
    <2>1. /\ s # 1 /\ \A t \in Server : proc[t] = "up" /\ pulled[t] = NoPull
          /\ ~(s = 0 /\ TookOver) /\ ~(0 \in failed /\ ~TookOver)
      BY <1>1, <1>m DEF Crash
    <2>2. /\ \A t \in Server : proc'[t] = IF t = s THEN "down" ELSE "up"
          /\ \A t \in Server : view'[t] = IF t = s THEN 0 ELSE view[t]
          /\ failed' = failed \cup {s} /\ pulled' = pulled
      BY <1>1, <1>f, <2>1 DEF Crash
    <2> QED
      BY <1>v, <1>z, <2>1, <2>2 DEF Leadership, TookOver, Up
  <1>2. CASE Stop(s)
    <2>1. /\ s # 1 /\ \A t \in Server : proc[t] = "up" /\ pulled[t] = NoPull
          /\ ~(s = 0 /\ TookOver) /\ ~(0 \in failed /\ ~TookOver)
      BY <1>2, <1>m DEF Stop
    <2>2. /\ \A t \in Server : proc'[t] = IF t = s THEN "draining" ELSE "up"
          /\ view' = view
          /\ failed' = failed \cup {s} /\ pulled' = pulled
      BY <1>2, <1>f, <2>1 DEF Stop
    <2> QED
      BY <1>v, <1>z, <2>1, <2>2 DEF Leadership, TookOver, Up
  <1>3. CASE Exit(s)
    <2>1. proc[s] = "draining" /\ s # 1 /\ \A t \in Server \ {s} : proc[t] = "up"
      BY <1>0, <1>3 DEF Exit, Leadership, Up
    <2>2. /\ \A t \in Server : proc'[t] = IF t = s THEN "down" ELSE "up"
          /\ \A t \in Server : view'[t] = IF t = s THEN 0 ELSE view[t]
          /\ failed' = failed /\ pulled' = pulled
      BY <1>3, <1>f, <2>1 DEF Exit
    <2>3. \A t \in Server : pulled[t] = NoPull
      BY <2>1 DEF Leadership
    <2>4. 0 \in failed /\ ~TookOver => s = 0
      BY <1>z, <2>1 DEF Leadership
    <2>5. TookOver /\ s # 0 => view[0] = 1
      BY <1>z, <2>1 DEF Leadership, Up
    <2> QED
      BY <1>v, <1>z, <2>1, <2>2, <2>3, <2>4, <2>5 DEF Leadership, TookOver, Up
  <1>4. CASE Elect(s)
    <2>1. Up(s) /\ ~Up(0) /\ s # 0
      BY <1>4, <1>v, <1>z DEF Elect
    <2>2. /\ \A t \in Server : view'[t] = IF t = s THEN 1 ELSE view[t]
          /\ UNCHANGED <<proc, pulled, failed>>
      BY <1>4, <1>f, <1>v DEF Elect
    <2> QED
      BY <1>v, <1>z, <2>1, <2>2 DEF Leadership, TookOver, Up
  <1>5. CASE Restart(s)
    <2>1. proc[s] = "down" /\ s # 1 /\ \A t \in Server \ {s} : proc[t] = "up"
      BY <1>0, <1>5 DEF Restart, Leadership, Up
    <2>2. /\ \A t \in Server : proc'[t] = IF t = s THEN "starting" ELSE "up"
          /\ UNCHANGED <<view, pulled, failed>>
      BY <1>5, <1>f, <2>1 DEF Restart
    <2>3. PICK l \in Server : Up(l) /\ \A t \in Server : Up(t) => LeaderOf(view[t]) = l
      BY <1>5 DEF Restart, Agreed
    <2>4. s = 0 => \A t \in Server : Up(t) => view[t] = 1
      BY <1>v, <1>z, <2>1, <2>3 DEF Up
    <2>5. s = 0 => TookOver
      BY <1>0, <1>z, <2>4 DEF TookOver
    <2>6. 0 \in failed /\ ~TookOver => s = 0
      BY <1>z, <2>1 DEF Leadership
    <2>7. \A t \in Server : pulled[t] = NoPull
      BY <2>1 DEF Leadership
    <2> QED
      BY <1>v, <1>z, <2>1, <2>2, <2>4, <2>5, <2>6, <2>7 DEF Leadership, TookOver, Up
  <1>6. ASSUME NEW p \in Server, TransferCounters(s, p) PROVE Leadership'
    <2>1. proc[s] = "starting" /\ Up(p) /\ UNCHANGED <<proc, view, failed>>
      BY <1>6 DEF TransferCounters
    <2>2. \A t \in Server : pulled'[t] # NoPull => proc[t] = "starting" /\ Up(pulled'[t].peer)
      BY <1>0, <1>6, <2>1 DEF TransferCounters, Leadership, TypeOK
    <2> QED
      BY <2>1, <2>2 DEF Leadership, TookOver, Up
  <1>7. CASE TransferCache(s)
    <2>1. /\ proc[s] = "starting" /\ s # 1 /\ pulled[s].peer \in Server /\ Up(pulled[s].peer)
          /\ \A t \in Server \ {s} : proc[t] = "up"
      BY <1>0, <1>7 DEF TransferCache, Leadership, TypeInv, ProcessesSound, Up
    <2>2. /\ \A t \in Server : proc'[t] = IF t = s THEN "joining" ELSE "up"
          /\ \A t \in Server : view'[t] = IF t = s THEN view[pulled[s].peer] ELSE view[t]
          /\ \A t \in Server : pulled'[t] = IF t = s THEN NoPull ELSE pulled[t]
          /\ failed' = failed
      BY <1>0, <1>7, <1>f, <2>1 DEF TransferCache, TypeOK
    <2>3. s = 0 => TookOver /\ view[pulled[s].peer] = 1
      BY <1>0, <1>z, <2>1 DEF Leadership, TookOver
    <2>4. 0 \in failed /\ ~TookOver => s = 0
      BY <1>z, <2>1 DEF Leadership
    <2>5. \A t \in Server \ {s} : pulled[t] = NoPull
      BY <2>1 DEF Leadership
    <2>6. s # 0 /\ TookOver => view[0] = 1
      BY <1>z, <2>1 DEF Leadership, Up
    <2> QED
      BY <1>v, <1>z, <2>1, <2>2, <2>3, <2>4, <2>5, <2>6 DEF Leadership, TookOver, Up
  <1>8. CASE Join(s)
    <2>1. /\ proc[s] = "joining" /\ s # 1 /\ UNCHANGED <<view, pulled, failed>>
          /\ \A t \in Server \ {s} : proc[t] = "up"
      BY <1>0, <1>8 DEF Join, Leadership, Up
    <2>2. \A t \in Server : proc'[t] = "up"
      BY <1>8, <1>f, <2>1 DEF Join
    <2>3. \A t \in Server : pulled[t] = NoPull
      BY <2>1 DEF Leadership
    <2>4. s = 0 => TookOver /\ view[0] = 1
      BY <1>0, <1>z, <2>1 DEF Leadership, TookOver
    <2>5. ~(0 \in failed /\ ~TookOver)
      BY <1>z, <2>1, <2>4 DEF Leadership
    <2>6. TookOver => view[0] = 1
      BY <1>z, <2>1, <2>4 DEF Leadership, Up
    <2> QED
      BY <1>v, <1>z, <2>1, <2>2, <2>3, <2>5, <2>6 DEF Leadership, TookOver, Up
  <1> QED
    BY <1>1, <1>2, <1>3, <1>4, <1>5, <1>6, <1>7, <1>8 DEF LifeStep

LEMMA LeadershipStep ==
  ASSUME OneClient, IInv, Leadership, [Next]_vars
  PROVE  Leadership'
  <1>1. CASE UNCHANGED serverVars
    BY <1>1 DEF Leadership, TookOver, Up, serverVars
  <1>2. ASSUME NEW s \in Server, LifeStep(s) PROVE Leadership'
    BY <1>2, LeadershipLife
  <1>3. UNCHANGED serverVars \/ \E s \in Server : LifeStep(s)
    BY DEF Next, GiveUp, Cancel, Begin, HandlerStep, CacheHit, CacheMiss, Apply, StoreAndSend,
           Reply, ReplicateStep, ReplicateCounter, ReplicateCache, FailReplicate,
           TimeOutReplicate, vars
  <1> QED
    BY <1>1, <1>2, <1>3

-----------------------------------------------------------------------------
(* One request at a time                                                   *)

LEMMA SequentialSteps ==
  ASSUME OneClient, OneAtATime, Next
  PROVE  \/ \E s \in Server : Begin(W, s)
         \/ \E h \in handlers : HandlerStep(h)
         \/ \E m \in repl : ReplicateStep(m)
         \/ \E s \in Server : LifeStep(s)
  <1>1. Cardinality(cancelled) = 0 /\ Cardinality(late) = 0
    BY FS_EmptySet DEF OneAtATime
  <1>2. \A w \in Worker : ~GiveUp(w) /\ ~Cancel(w)
    BY <1>1 DEF GiveUp, Cancel, OneClient
  <1>3. \A m \in repl : ~TimeOutReplicate(m)
    BY <1>1 DEF TimeOutReplicate, OneClient
  <1>4. \A w \in Worker : w = W
    BY ServersZeroOne
  <1> QED
    BY <1>2, <1>3, <1>4 DEF Next

\* The state of things while a handler runs.
LEMMA TheHandler ==
  ASSUME OneClient, IInv, FInv, NEW h \in handlers
  PROVE  /\ handlers = {h}
         /\ h \in Handler /\ h.req = C /\ h.req[1] = W /\ C \in Request /\ h.val \in Nat
         /\ h.try = tries[W] /\ tries[W] > 0
         /\ h.at \in {0, 1} /\ h.at \in Server /\ Alive(h.at)
         /\ h.pc \in {"lookup", "apply", "store", "wait"}
         /\ h.pc # "wait" => h.at = Leader /\ repl = {}
         /\ Awaited(h)
  <1>1. handlers = {h} /\ h.req = C /\ Alive(h.at) /\ h.try = tries[W] /\ tries[W] > 0
    BY DEF FInv, Sequential, OneAtATime
  <1>2. h \in Handler /\ h.req \in Request /\ h.val \in Nat /\ h.at \in Server
        /\ h.pc \in {"lookup", "apply", "store", "wait"}
    BY Basics, HandlerFields DEF FInv, Sequential, TypeOK, Handler
  <1>3. h.at \in {0, 1} /\ (h.pc # "wait" => h.at = Leader)
    BY DEF FInv, Sequential, OneAtATime, Leader
  <1>4. h.pc # "wait" => repl = {}
    BY <1>1, <1>3 DEF FInv, Sequential, OneAtATime, Leader, Alive
  <1>5. h.req[1] = W
    BY <1>1, Basics DEF FInv, Sequential
  <1>6. Awaited(h)
    BY <1>1, <1>5 DEF FInv, Sequential, OneAtATime, Awaited, C
  <1> QED
    BY <1>1, <1>2, <1>3, <1>4, <1>5, <1>6

LEMMA TheMessage ==
  ASSUME OneClient, IInv, FInv, NEW m \in repl
  PROVE  /\ m \in Message /\ m.req = C /\ C \in Request /\ m.val \in Nat /\ m.to \in Server
         /\ m.pc \in {"counter", "cache"}
         /\ m.from = Leader /\ m.to # Leader /\ m.awaited
         /\ dedup \/ m.pc = "counter"
         /\ \A h \in handlers : h.pc = "wait"
         /\ m.to = 1 => ~TookOver
         /\ m.to = 0 => TookOver
         /\ Exact => m.val = D + 1
  <1>1. m \in Message /\ m.req \in Request /\ m.val \in Nat /\ m.to \in Server
        /\ m.pc \in {"counter", "cache"}
    BY Basics, MessageFields DEF FInv, Sequential, TypeOK, Message
  <1>2. m.req = C /\ m.from = Leader /\ m.to # Leader /\ m.awaited
    BY DEF FInv, Sequential, OneAtATime
  <1>3. \A h \in handlers : h.pc = "wait"
    BY TheHandler
  <1>4. dedup \/ m.pc = "counter"
    BY DEF IInv, NoCacheIfOff
  <1>5. Exact => m.val = D + 1
    BY DEF FInv, Sequential, ExactValues
  <1> QED
    BY <1>1, <1>2, <1>3, <1>4, <1>5 DEF Leader

\* What the invariant says about values rests on the worker, the handler, server
\* 1 and the messages to it.
LEMMA ValuesKept ==
  ASSUME OneClient, IInv, FInv,
         UNCHANGED <<dedup, done, acked, handlers>>, TookOver' = TookOver,
         counters'[1] = counters[1], cache'[1] = cache[1],
         \A k \in repl' : \E m \in repl : k.val = m.val,
         \A m \in repl : m.to = 1 => m \in repl',
         \A m \in repl' : m.to = 1 => m \in repl,
         TookOver \/ (Alive(0)' => Alive(0))
  PROVE  ExactValues' /\ InexactCovers'
  <1>1. /\ D' = D /\ C' = C /\ Exact' = Exact /\ Applied' = Applied
        /\ Before1' = Before1 /\ Half1' = Half1 /\ After1' = After1 /\ Owed1' = Owed1
    BY DEF D, C, Current, Exact, Applied, Before1, Half1, After1, Owed1
  <1>2. ASSUME Exact PROVE ExactValues'
    <2>1. /\ \A r \in Request : acked[r] = IF r[2] <= D THEN r[2] ELSE 0
          /\ \A h \in handlers : h.val = IF h.pc \in {"store", "wait"} THEN D + 1 ELSE 0
          /\ \A m \in repl : m.val = D + 1
          /\ \A m \in repl : m.to = 1 => IF m.pc = "counter" THEN Before1 ELSE Half1
          /\ \A h \in handlers :
               /\ h.pc = "lookup" => Before1 \/ (h.at = 1 /\ After1)
               /\ h.pc = "apply" => Before1
               /\ h.pc = "store" => IF h.at = 0 THEN Before1 ELSE Half1
               /\ h.pc = "wait" => After1 \/ Owed1
          /\ handlers = {} => Before1 \/ Owed1 \/ (After1 /\ (TookOver \/ ~Alive(0)))
      BY <1>2 DEF FInv, Sequential, ExactValues
    <2> HIDE DEF Before1, After1, Half1, Owed1, D, C
    <2> QED
      BY <1>1, <2>1 DEF ExactValues
  <1>3. InexactCovers'
    BY <1>1 DEF FInv, Sequential, InexactCovers
  <1> QED
    BY <1>1, <1>2, <1>3 DEF ExactValues

-----------------------------------------------------------------------------
(* The steps of the worker and its handler                                 *)

LEMMA SequentialBegin ==
  ASSUME OneClient, IInv, FInv, NEW s \in Server, Begin(W, s)
  PROVE  Sequential'
  <1>t. /\ TypeInv /\ TypeOK /\ W \in Worker /\ Leads(s) /\ s = Leader /\ Up(s)
        /\ D \in Nat /\ tries[W] \in Nat /\ tries[W] + 1 > 0 /\ C = <<W, D + 1>>
        /\ C[1] = W /\ C[2] = D + 1
    BY Basics, ServersZeroOne, LeadsIsLeader DEF FInv, Begin
  <1>1. /\ done[W] < Rounds /\ ~Waiting(W) /\ C \in Request
        /\ UNCHANGED <<serverVars, stateVars, repl, late, done, acked, gaveUp, cancelled>>
        /\ tries'[W] = tries[W] + 1
    BY <1>t, BeginFrame DEF C, TypeOK
  <1>2. handlers = {}
    BY <1>1, TheHandler DEF Waiting
  <1>3. repl = {}
    BY <1>2, <1>t DEF FInv, Sequential, OneAtATime, Leader, Up
  <1>4. PICK g \in Handler :
          /\ handlers' = {g}
          /\ g.req = C /\ g.try = tries[W] + 1 /\ g.at = s /\ g.pc = "lookup" /\ g.val = 0
    BY <1>t, <1>2, BeginHandlers DEF C
  <1>5. /\ D' = D /\ C' = C /\ Exact' = Exact /\ TookOver' = TookOver /\ Leader' = Leader
        /\ Alive(s) /\ Alive(s)' /\ Alive(0)' = Alive(0)
        /\ Before1' = Before1 /\ After1' = After1
        /\ ~Applied /\ ~Applied' /\ ~Owed1
    BY <1>t, <1>1, <1>2, <1>3, <1>4 DEF D, C, Current, Exact, TookOver, Leader, Alive, Up,
       Before1, After1, Applied, Owed1, serverVars, stateVars
  <1>6. OneAtATime'
    <2>1. g.req = C' /\ g.try = tries'[W] /\ tries'[W] > 0 /\ Alive(g.at)' /\ g.at = Leader'
      BY <1>t, <1>1, <1>4, <1>5
    <2>2. cancelled' = {} /\ late' = {} /\ gaveUp' = {} /\ repl' = {}
      BY <1>1, <1>3 DEF FInv, Sequential, OneAtATime
    <2> QED
      BY <1>4, <2>1, <2>2 DEF OneAtATime
  <1>7. ExactValues'
    <2>1. ASSUME Exact PROVE Before1 \/ (s = 1 /\ After1)
      BY <1>t, <1>2, <1>5, <2>1 DEF FInv, Sequential, ExactValues, Leader, Alive, Up
    <2>2. ASSUME Exact PROVE \A r \in Request : acked'[r] = IF r[2] <= D THEN r[2] ELSE 0
      BY <1>1, <2>2 DEF FInv, Sequential, ExactValues
    <2>3. repl' = {}
      BY <1>1, <1>3
    <2> HIDE DEF Before1, After1
    <2> QED
      BY <1>4, <1>5, <2>1, <2>2, <2>3 DEF ExactValues
  <1>8. FirstLeaderCounts'
    <2>1. ASSUME s = 0 PROVE cache[0][C] = 0
      <3>1. FirstLeaderStands
        BY <1>t, <2>1, FirstLeader DEF FInv, Leadership, Leader, Up, FirstLeaderStands
      <3>2. C \notin Retried
        BY DEF FInv, Sequential, OneAtATime, Retried
      <3>3. tries[W] = 0
        BY <1>t, <1>1, <1>2, <3>1, <3>2 DEF IInv, OneHandlerUnlessRetried, HandlerPresent, C
      <3>4. NotBegun(C)
        BY <1>t, <3>3 DEF NotBegun, D
      <3> QED
        BY <1>1, <3>4, FirstLeader DEF IInv, RequestsInOrder, NoTrace
    <2>2. UNCHANGED <<counters, cache>>
      BY <1>1 DEF stateVars
    <2> QED
      BY <1>4, <1>5, <2>1, <2>2 DEF FInv, Sequential, FirstLeaderCounts
  <1>9. InexactCovers'
    BY <1>1, <1>4, <1>5, Basics, ServersZeroOne
       DEF FInv, Sequential, InexactCovers, stateVars, TypeOK
  <1>10. CacheExact'
    BY <1>1 DEF FInv, Sequential, CacheExact, serverVars, stateVars
  <1> QED
    BY <1>6, <1>7, <1>8, <1>9, <1>10 DEF Sequential

\* The answer: the current request is counted, and server 1 has it.
LEMMA SequentialAnswer ==
  ASSUME OneClient, IInv, IInv', FInv, NEW h \in handlers, NEW v \in Nat,
         Answer(h, v), UNCHANGED <<serverVars, stateVars, repl, late>>, repl = {},
         Exact => v = D + 1 /\ After1,
         ~Exact => v <= counters[1] /\ v # 0 /\ D + 1 <= counters[1],
         ~TookOver /\ Alive(0) => counters[0] = D + 1
  PROVE  Sequential'
  <1>t. /\ TypeInv /\ TypeOK /\ W \in Worker /\ 1 \in Server
        /\ D \in Nat /\ D + 1 \in Nat /\ C = <<W, D + 1>> /\ C[1] = W /\ C[2] = D + 1
    BY Basics, ServersZeroOne DEF FInv
  <1>h. handlers = {h} /\ h.req = C /\ h.req[1] = W /\ C \in Request /\ Awaited(h)
    BY TheHandler
  <1>1. /\ handlers' = {} /\ repl' = {} /\ gaveUp' = {} /\ cancelled' = {} /\ late' = {}
    BY <1>h DEF Answer, FInv, Sequential, OneAtATime
  <1>2. acked' = [acked EXCEPT ![C] = v] /\ done' = [done EXCEPT ![W] = D + 1]
        /\ tries' = [tries EXCEPT ![W] = 0]
    BY <1>h DEF Answer, NextRequest, D
  <1>3. \A r \in Request : acked'[r] = IF r = C THEN v ELSE acked[r]
    BY <1>2, <1>t DEF TypeOK
  <1>4. D' = D + 1 /\ tries'[W] = 0 /\ done'[W] = D + 1
    BY <1>2, <1>t DEF TypeOK, D
  <1>5. \A r \in Request : r = C \/ r[2] # D + 1
    BY <1>t, ServersZeroOne DEF Request
  <1>r. \A r \in Request : r[2] \in Nat /\ r[2] >= 1
    BY BoundsAssumption DEF Request
  <1>6. Exact' = Exact /\ TookOver' = TookOver /\ Alive(0)' = Alive(0) /\ ~Applied'
        /\ counters' = counters /\ cache' = cache
    BY <1>1 DEF Exact, TookOver, Alive, Applied, serverVars, stateVars
  <1>7. OneAtATime'
    BY <1>1 DEF OneAtATime
  <1>8. ExactValues'
    <2>1. ASSUME Exact PROVE \A r \in Request : acked'[r] = IF r[2] <= D + 1 THEN r[2] ELSE 0
      <3>1. \A r \in Request : acked[r] = IF r[2] <= D THEN r[2] ELSE 0
        BY <2>1 DEF FInv, Sequential, ExactValues
      <3>2. v = C[2]
        BY <2>1, <1>t
      <3>3. ASSUME NEW r \in Request PROVE acked'[r] = IF r[2] <= D + 1 THEN r[2] ELSE 0
        <4>1. CASE r = C
          BY <1>3, <1>t, <3>2, <4>1
        <4>2. CASE r # C
          BY <1>3, <1>5, <1>r, <1>t, <3>1, <4>2
        <4> QED
          BY <4>1, <4>2
      <3> QED
        BY <3>3
    <2>2. C' \in Request => cache'[1][C'] = 0
      <3>1. PICK c : c = C'
        OBVIOUS
      <3>2. c[1] = W /\ c[2] = done'[W] + 1
        BY <3>1 DEF C, Current
      <3>3. c \in Request => NotBegun(c)'
        BY <3>2, <1>4 DEF NotBegun
      <3> QED
        BY <3>1, <3>3, <1>t DEF IInv, RequestsInOrder, NoTrace
    <2>3. ASSUME Exact PROVE Before1'
      BY <2>2, <2>3, <1>4, <1>6 DEF Before1, After1
    <2> HIDE DEF Before1, After1
    <2> QED
      BY <1>1, <1>4, <1>6, <2>1, <2>3 DEF ExactValues
  <1>9. FirstLeaderCounts'
    BY <1>1, <1>4, <1>6 DEF FirstLeaderCounts
  <1>10. InexactCovers'
    <2>1. ASSUME ~Exact
          PROVE  \A r \in Request : acked'[r] <= counters[1] /\ (r[2] <= D + 1 => acked'[r] # 0)
      <3>1. \A r \in Request : acked[r] <= counters[1] /\ (r[2] <= D => acked[r] # 0)
        BY <2>1 DEF FInv, Sequential, InexactCovers
      <3> QED
        BY <1>3, <1>5, <1>r, <1>t, <2>1, <3>1
    <2> QED
      BY <1>1, <1>4, <1>6, <2>1 DEF InexactCovers
  <1>11. CacheExact'
    BY DEF FInv, Sequential, CacheExact, serverVars, stateVars
  <1> QED
    BY <1>7, <1>8, <1>9, <1>10, <1>11 DEF Sequential

\* What the worker is answered, from the cache or by its handler.
LEMMA AnswerValue ==
  ASSUME OneClient, IInv, FInv, NEW h \in handlers, CacheHit(h) \/ Reply(h)
  PROVE  \E v \in Nat :
           /\ Answer(h, v) /\ UNCHANGED <<serverVars, stateVars, repl, late>> /\ repl = {}
           /\ Exact => v = D + 1 /\ After1
           /\ ~Exact => v <= counters[1] /\ v # 0 /\ D + 1 <= counters[1]
           /\ ~TookOver /\ Alive(0) => counters[0] = D + 1
  <1>t. TypeOK /\ D \in Nat /\ D + 1 \in Nat /\ D + 1 # 0 /\ 1 \in Server
    BY Basics, ServersZeroOne DEF FInv
  <1>1. CASE CacheHit(h)
    <2>h. /\ handlers = {h} /\ h.req = C /\ C \in Request /\ h.at \in {0, 1} /\ h.at \in Server
          /\ h.pc = "lookup" /\ h.at = Leader /\ repl = {}
      BY <1>1, TheHandler DEF CacheHit, At
    <2>1. dedup /\ cache[h.at][C] # 0 /\ Exact
      BY <1>1, <2>h DEF CacheHit, Exact
    <2>2. h.at = 1 /\ TookOver
      BY <2>h, <2>1 DEF FInv, Sequential, FirstLeaderCounts, Leader
    <2>3. After1
      BY <2>h, <2>1, <2>2 DEF FInv, Sequential, ExactValues, Before1
    <2>4. cache[h.at][h.req] = D + 1
      BY <2>h, <2>1, <2>2, <2>3 DEF After1
    <2>5. Answer(h, D + 1) /\ UNCHANGED <<serverVars, stateVars, repl, late>>
      BY <1>1, <2>4 DEF CacheHit
    <2> QED
      BY <1>t, <2>h, <2>1, <2>2, <2>3, <2>5
  <1>2. CASE Reply(h)
    <2>h. /\ handlers = {h} /\ h.req = C /\ h.try = tries[W] /\ h.pc = "wait" /\ h.val \in Nat
      BY <1>2, TheHandler DEF Reply, At
    <2>1. repl = {}
      BY <1>2, <2>h DEF Reply, Replicated, FInv, Sequential, OneAtATime
    <2>2. Applied
      BY <2>h DEF Applied
    <2>3. h.val # 0
      BY <2>h DEF IInv, ValueFromApply
    <2>4. Exact => h.val = D + 1 /\ After1
      BY <2>h, <2>1 DEF FInv, Sequential, ExactValues, Owed1
    <2>5. ~Exact => h.val <= counters[1] /\ h.val # 0 /\ D + 1 <= counters[1]
      BY <2>2, <2>3 DEF FInv, Sequential, InexactCovers
    <2>6. ~TookOver /\ Alive(0) => counters[0] = D + 1
      BY <2>2 DEF FInv, Sequential, FirstLeaderCounts
    <2>7. Answer(h, h.val) /\ UNCHANGED <<serverVars, stateVars, repl, late>>
      BY <1>2 DEF Reply
    <2> QED
      BY <2>h, <2>1, <2>4, <2>5, <2>6, <2>7
  <1> QED
    BY <1>1, <1>2

\* The frame of the steps that leave the handler running.
LEMMA HandlerMoves ==
  ASSUME OneClient, IInv, FInv, NEW h \in handlers,
         NEW pc \in {"lookup", "apply", "store", "wait"}, NEW val \in Nat, Goto(h, pc, val),
         UNCHANGED <<serverVars, late, clientVars>>
  PROVE  /\ \E g \in Handler :
              /\ handlers' = {g}
              /\ g.req = C /\ g.try = tries[W] /\ g.at = h.at /\ g.pc = pc /\ g.val = val
         /\ D' = D /\ C' = C /\ tries' = tries /\ acked' = acked /\ dedup' = dedup
         /\ TookOver' = TookOver /\ Exact' = Exact /\ Leader' = Leader
         /\ Alive(0)' = Alive(0)
         /\ Applied' <=> pc \in {"store", "wait"}
         /\ cancelled' = {} /\ late' = {} /\ gaveUp' = {}
         /\ \A s \in Server : Alive(s)' = Alive(s)
  <1>1. PICK g \in Handler :
          /\ handlers' = {g}
          /\ g.req = C /\ g.try = tries[W] /\ g.at = h.at /\ g.pc = pc /\ g.val = val
    BY TheHandler, GotoFrame
  <1>2. /\ D' = D /\ C' = C /\ tries' = tries /\ acked' = acked /\ dedup' = dedup
        /\ TookOver' = TookOver /\ Exact' = Exact /\ Leader' = Leader
        /\ Alive(0)' = Alive(0) /\ \A s \in Server : Alive(s)' = Alive(s)
    BY DEF D, C, Current, TookOver, Exact, Leader, Alive, serverVars, clientVars
  <1>3. Applied' <=> pc \in {"store", "wait"}
    BY <1>1 DEF Applied
  <1>4. cancelled' = {} /\ late' = {} /\ gaveUp' = {}
    BY DEF clientVars, FInv, Sequential, OneAtATime
  <1> QED
    BY <1>1, <1>2, <1>3, <1>4

LEMMA SequentialMiss ==
  ASSUME OneClient, IInv, FInv, NEW h \in handlers, CacheMiss(h)
  PROVE  Sequential'
  <1>h. /\ handlers = {h} /\ h.req = C /\ C \in Request /\ h.at \in {0, 1} /\ h.at \in Server
        /\ h.pc = "lookup" /\ h.at = Leader /\ repl = {} /\ tries[W] > 0 /\ Alive(h.at)
    BY TheHandler DEF CacheMiss, At
  <1>t. D \in Nat /\ D + 1 # 0 /\ counters[1] \in Nat
    BY Basics, ServersZeroOne DEF FInv, TypeOK
  <1>u. UNCHANGED <<serverVars, stateVars, repl, late, clientVars>> /\ Goto(h, "apply", 0)
        /\ (dedup => cache[h.at][C] = 0)
    BY <1>h DEF CacheMiss
  <1>1. PICK g \in Handler :
          handlers' = {g} /\ g.req = C /\ g.try = tries[W] /\ g.at = h.at /\ g.pc = "apply" /\ g.val = 0
    BY <1>u, HandlerMoves
  <1>2. /\ D' = D /\ C' = C /\ tries' = tries /\ acked' = acked /\ dedup' = dedup
        /\ TookOver' = TookOver /\ Exact' = Exact /\ Leader' = Leader
        /\ Alive(0)' = Alive(0) /\ ~Applied'
        /\ cancelled' = {} /\ late' = {} /\ gaveUp' = {}
        /\ \A s \in Server : Alive(s)' = Alive(s)
    BY <1>u, HandlerMoves
  <1>3. repl' = {} /\ counters' = counters /\ cache' = cache /\ Before1' = Before1
    BY <1>h, <1>u, <1>2 DEF stateVars, Before1
  <1>4. OneAtATime'
    <2>1. Alive(g.at)'
      BY <1>h, <1>1, <1>2
    <2> QED
      BY <1>h, <1>1, <1>2, <1>3, <2>1 DEF OneAtATime
  <1>5. ~Applied
    BY <1>h DEF Applied
  <1>6. Exact => Before1
    BY <1>h, <1>u, <1>t DEF FInv, Sequential, ExactValues, Exact, Leader, After1
  <1>7. ExactValues'
    <2>1. Exact => \A r \in Request : acked[r] = IF r[2] <= D THEN r[2] ELSE 0
      BY DEF FInv, Sequential, ExactValues
    <2> HIDE DEF Before1
    <2> QED
      BY <1>1, <1>2, <1>3, <1>6, <2>1 DEF ExactValues
  <1>8. FirstLeaderCounts'
    BY <1>h, <1>1, <1>2, <1>3, <1>5 DEF FInv, Sequential, FirstLeaderCounts
  <1>9. InexactCovers'
    BY <1>t, <1>1, <1>2, <1>3, <1>5 DEF FInv, Sequential, InexactCovers
  <1>10. CacheExact'
    BY <1>2, <1>3 DEF FInv, Sequential, CacheExact
  <1> QED
    BY <1>4, <1>7, <1>8, <1>9, <1>10 DEF Sequential

LEMMA SequentialApply ==
  ASSUME OneClient, IInv, FInv, NEW h \in handlers, Apply(h)
  PROVE  Sequential'
  <1>t. /\ D \in Nat /\ D + 1 \in Nat /\ counters \in [Server -> Nat] /\ 0 \in Server /\ 1 \in Server
        /\ acked \in [Request -> Nat]
    BY Basics, ServersZeroOne DEF FInv, TypeOK
  <1>h. /\ handlers = {h} /\ h.req = C /\ C \in Request /\ h.at \in {0, 1} /\ h.at \in Server
        /\ h.pc = "apply" /\ h.at = Leader /\ repl = {} /\ tries[W] > 0 /\ Alive(h.at)
    BY TheHandler DEF Apply, At
  <1>v. PICK v \in Nat : v = counters[h.at] + 1
    BY <1>t, <1>h
  <1>u. UNCHANGED <<serverVars, cache, repl, late, clientVars>> /\ Goto(h, "store", v)
        /\ counters' = [counters EXCEPT ![h.at] = v]
    BY <1>v DEF Apply
  <1>1. PICK g \in Handler :
          handlers' = {g} /\ g.req = C /\ g.try = tries[W] /\ g.at = h.at /\ g.pc = "store" /\ g.val = v
    BY <1>u, HandlerMoves
  <1>2. /\ D' = D /\ C' = C /\ tries' = tries /\ acked' = acked /\ dedup' = dedup
        /\ TookOver' = TookOver /\ Exact' = Exact /\ Leader' = Leader
        /\ Alive(0)' = Alive(0) /\ Applied'
        /\ cancelled' = {} /\ late' = {} /\ gaveUp' = {}
        /\ \A s \in Server : Alive(s)' = Alive(s)
    BY <1>u, HandlerMoves
  <1>3. repl' = {} /\ cache' = cache /\ \A s \in Server : counters'[s] = IF s = h.at THEN v ELSE counters[s]
    BY <1>h, <1>t, <1>u
  <1>4. OneAtATime'
    <2>1. Alive(g.at)'
      BY <1>h, <1>1, <1>2
    <2> QED
      BY <1>h, <1>1, <1>2, <1>3, <2>1 DEF OneAtATime
  <1>5. ~Applied
    BY <1>h DEF Applied
  <1>6. Exact => Before1
    BY <1>h DEF FInv, Sequential, ExactValues
  <1>7. h.at = 0 => ~TookOver /\ Exact /\ v = D + 1 /\ cache[0][C] = 0
    BY <1>h, <1>v, <1>5 DEF FInv, Sequential, FirstLeaderCounts, Leader, Exact
  <1>8. h.at = 1 /\ Exact => v = D + 1
    BY <1>v, <1>6 DEF Before1
  <1>9. ExactValues'
    <2>1. Exact => \A r \in Request : acked[r] = IF r[2] <= D THEN r[2] ELSE 0
      BY DEF FInv, Sequential, ExactValues
    <2>2. Exact /\ h.at = 0 => Before1'
      BY <1>2, <1>3, <1>6, <1>t DEF Before1
    <2>3. Exact /\ h.at = 1 => Half1'
      BY <1>2, <1>3, <1>6, <1>8, <1>t, <1>h DEF Before1, Half1
    <2>4. Exact => g.val = D + 1
      BY <1>1, <1>7, <1>8, <1>h
    <2> HIDE DEF Before1, Half1
    <2> QED
      BY <1>1, <1>2, <1>3, <1>h, <2>1, <2>2, <2>3, <2>4 DEF ExactValues
  <1>10. FirstLeaderCounts'
    <2>1. ~TookOver => h.at = 0
      BY <1>h DEF Leader
    <2> QED
      BY <1>1, <1>2, <1>3, <1>7, <1>t, <2>1 DEF FirstLeaderCounts
  <1>11. InexactCovers'
    <2>1. ASSUME ~Exact PROVE h.at = 1 /\ D + 1 <= v /\ counters'[1] = v
                              /\ \A r \in Request : acked[r] <= v /\ (r[2] <= D => acked[r] # 0)
      <3>1. h.at = 1
        BY <1>h, <1>7, <2>1
      <3>2. D <= counters[1] /\ \A r \in Request : acked[r] <= counters[1] /\ (r[2] <= D => acked[r] # 0)
        BY <1>5, <2>1 DEF FInv, Sequential, InexactCovers
      <3>3. \A r \in Request : acked[r] \in Nat /\ counters[1] \in Nat
        BY <1>t
      <3> QED
        BY <1>3, <1>t, <1>v, <3>1, <3>2, <3>3
    <2> QED
      BY <1>1, <1>2, <2>1, <1>v DEF InexactCovers
  <1>12. CacheExact'
    BY <1>2, <1>3 DEF FInv, Sequential, CacheExact
  <1> QED
    BY <1>4, <1>9, <1>10, <1>11, <1>12 DEF Sequential

LEMMA SequentialStore ==
  ASSUME OneClient, IInv, FInv, NEW h \in handlers, StoreAndSend(h)
  PROVE  Sequential'
  <1>t. /\ D \in Nat /\ D + 1 \in Nat /\ cache \in [Server -> [Request -> Nat]]
        /\ 0 \in Server /\ 1 \in Server /\ C[2] = D + 1
    BY Basics, ServersZeroOne DEF FInv, TypeOK
  <1>h. /\ handlers = {h} /\ h.req = C /\ C \in Request /\ h.at \in {0, 1} /\ h.at \in Server
        /\ h.pc = "store" /\ h.at = Leader /\ repl = {} /\ tries[W] > 0 /\ Alive(h.at)
        /\ h.val \in Nat /\ h.try = tries[W]
    BY TheHandler DEF StoreAndSend, At
  <1>u. UNCHANGED <<serverVars, counters, late, clientVars>> /\ Goto(h, "wait", h.val)
    BY DEF StoreAndSend
  <1>1. PICK g \in Handler : handlers' = {g} /\ g.req = C /\ g.try = tries[W] /\ g.at = h.at
                             /\ g.pc = "wait" /\ g.val = h.val
    BY <1>h, <1>u, HandlerMoves
  <1>2. /\ D' = D /\ C' = C /\ tries' = tries /\ acked' = acked /\ dedup' = dedup
        /\ TookOver' = TookOver /\ Exact' = Exact /\ Leader' = Leader
        /\ Alive(0)' = Alive(0) /\ Applied'
        /\ cancelled' = {} /\ late' = {} /\ gaveUp' = {}
        /\ \A s \in Server : Alive(s)' = Alive(s)
    BY <1>h, <1>u, HandlerMoves
  <1>3. counters' = counters
    BY <1>u
  <1>c. \A s \in Server, r \in Request :
          cache'[s][r] = IF dedup /\ s = h.at /\ r = C THEN h.val ELSE cache[s][r]
    <2>1. CASE dedup
      <3>1. cache' = [cache EXCEPT ![h.at][C] = h.val]
        BY <1>h, <2>1 DEF StoreAndSend, CacheSet
      <3> QED
        BY <1>t, <2>1, <3>1
    <2>2. CASE ~dedup
      BY <2>2 DEF StoreAndSend
    <2> QED
      BY <2>1, <2>2
  <1>m. /\ \A m \in repl' :
             /\ m.req = C /\ m.try = tries[W] /\ m.awaited /\ m.from = h.at /\ m.to # h.at
             /\ m.pc = "counter" /\ m.val = h.val
             /\ \A k \in repl' : k.to = m.to => k = m
        /\ h.at = 0 => \E m \in repl' : m.to = 1
    <2> DEFINE M(p) == [req |-> h.req, try |-> h.try, from |-> h.at, to |-> p, pc |-> "counter",
                        val |-> h.val, awaited |-> TRUE]
    <2>1. repl' = {M(p) : p \in Server \ {h.at}}
      BY <1>h DEF StoreAndSend, SendAll
    <2>2. \A p : M(p).req = h.req /\ M(p).try = h.try /\ M(p).from = h.at /\ M(p).to = p
                /\ M(p).pc = "counter" /\ M(p).val = h.val /\ M(p).awaited
      OBVIOUS
    <2> HIDE DEF M
    <2>3. ASSUME NEW m \in repl'
          PROVE  /\ m.req = C /\ m.try = tries[W] /\ m.awaited /\ m.from = h.at /\ m.to # h.at
                 /\ m.pc = "counter" /\ m.val = h.val
                 /\ m = M(m.to)
      BY <1>h, <2>1, <2>2
    <2>4. \A m, k \in repl' : k.to = m.to => k = m
      BY <2>3
    <2>5. h.at = 0 => \E m \in repl' : m.to = 1
      <3>1. h.at = 0 => M(1) \in repl'
        BY <1>t, <2>1
      <3> QED
        BY <2>2, <3>1
    <2> QED
      BY <2>3, <2>4, <2>5
  <1>4. OneAtATime'
    <2>1. Alive(g.at)'
      BY <1>h, <1>1, <1>2
    <2> QED
      BY <1>h, <1>1, <1>2, <1>m, <2>1 DEF OneAtATime
  <1>5. Applied
    BY <1>h DEF Applied
  <1>6. Exact => h.val = D + 1 /\ (IF h.at = 0 THEN Before1 ELSE Half1)
    BY <1>h DEF FInv, Sequential, ExactValues
  <1>7. ExactValues'
    <2>1. Exact => \A r \in Request : acked[r] = IF r[2] <= D THEN r[2] ELSE 0
      BY DEF FInv, Sequential, ExactValues
    <2>2. Exact /\ h.at = 0 => Before1' /\ Owed1'
      BY <1>2, <1>3, <1>6, <1>c, <1>m, <1>t DEF Before1, Owed1
    <2>3. Exact /\ h.at = 1 => After1'
      BY <1>2, <1>3, <1>6, <1>c, <1>h, <1>t DEF After1, Half1
    <2>4. Exact => g.val = D + 1
      BY <1>1, <1>6
    <2> HIDE DEF Before1, Half1, After1, Owed1
    <2> QED
      BY <1>1, <1>2, <1>6, <1>h, <1>m, <2>1, <2>2, <2>3, <2>4 DEF ExactValues
  <1>8. FirstLeaderCounts'
    BY <1>1, <1>2, <1>3, <1>5 DEF FInv, Sequential, FirstLeaderCounts
  <1>9. InexactCovers'
    BY <1>1, <1>2, <1>3, <1>5, <1>h DEF FInv, Sequential, InexactCovers
  <1>10. CacheExact'
    <2>1. dedup => h.val = C[2]
      BY <1>6, <1>t DEF Exact
    <2> QED
      BY <1>2, <1>c, <2>1 DEF FInv, Sequential, CacheExact
  <1> QED
    BY <1>4, <1>7, <1>8, <1>9, <1>10 DEF Sequential

LEMMA SequentialHandler ==
  ASSUME OneClient, IInv, IInv', FInv, NEW h \in handlers, HandlerStep(h)
  PROVE  Sequential'
  BY AnswerValue, SequentialAnswer, SequentialMiss, SequentialApply, SequentialStore
     DEF HandlerStep

-----------------------------------------------------------------------------
(* The steps of the followers                                              *)

LEMMA ReplicateTogether ==
  ASSUME OneClient, IInv, FInv, NEW m \in repl, ReplicateStep(m)
  PROVE  /\ OneAtATime'
         /\ \A k \in repl' : k \in repl \/ (k.to = m.to /\ k.val = m.val)
         /\ \A k \in repl : k.to # m.to => k \in repl'
         /\ \A k \in repl' : k.to = m.to => ReplicateCounter(m) /\ dedup /\ k.pc = "cache"
         /\ D' = D /\ C' = C /\ tries' = tries /\ acked' = acked /\ dedup' = dedup
         /\ TookOver' = TookOver /\ Exact' = Exact /\ Leader' = Leader
         /\ Alive(0)' = Alive(0) /\ Applied' = Applied /\ handlers' = handlers
  <1>m. m \in Message /\ m.pc \in {"counter", "cache"} /\ m.awaited
    BY TheMessage
  <1>1. /\ UNCHANGED <<serverVars, handlers, clientVars, late>>
        /\ \/ repl' = repl \ {m}
           \/ /\ ReplicateCounter(m) /\ dedup
              /\ repl' = (repl \ {m}) \cup {[m EXCEPT !.pc = "cache"]}
    BY DEF ReplicateStep, ReplicateCounter, ReplicateCache, FailReplicate
  <1>2. \A k \in repl : k.to = m.to => k = m
    BY DEF FInv, Sequential, OneAtATime
  <1>3. /\ D' = D /\ C' = C /\ tries' = tries /\ acked' = acked /\ dedup' = dedup
        /\ TookOver' = TookOver /\ Exact' = Exact /\ Leader' = Leader
        /\ Alive(0)' = Alive(0) /\ Applied' = Applied /\ handlers' = handlers
        /\ proc' = proc /\ UNCHANGED <<cancelled, late, gaveUp>>
    BY <1>1 DEF D, C, Current, TookOver, Exact, Leader, Alive, Applied, serverVars, clientVars
  <1>4. PICK c : c = [m EXCEPT !.pc = "cache"]
    OBVIOUS
  <1>5. /\ c.req = m.req /\ c.try = m.try /\ c.from = m.from /\ c.to = m.to /\ c.val = m.val
        /\ c.awaited = m.awaited /\ c.pc = "cache"
    BY <1>m, <1>4 DEF Message
  <1>6. /\ \A k \in repl' : k \in repl \/ (k.to = m.to /\ k.val = m.val)
        /\ \A k \in repl : k.to # m.to => k \in repl'
        /\ \A k \in repl' : k.to = m.to => ReplicateCounter(m) /\ dedup /\ k.pc = "cache"
    BY <1>1, <1>2, <1>4, <1>5
  <1>7. OneAtATime'
    <2>1. /\ \A k \in repl : /\ k.req = C /\ k.try = tries[W] /\ tries[W] > 0 /\ k.awaited
                             /\ k.from = Leader /\ k.to # Leader
                             /\ \A j \in repl : j.to = k.to => j = k
          /\ \/ \E h \in handlers : h.pc = "wait" /\ h.at = Leader
             \/ ~TookOver /\ proc[0] = "down"
      BY DEF FInv, Sequential, OneAtATime
    <2>2. \A k \in repl' : /\ k.req = C /\ k.try = tries[W] /\ tries[W] > 0 /\ k.awaited
                           /\ k.from = Leader /\ k.to # Leader
                           /\ \A j \in repl' : j.to = k.to => j = k
      <3>1. \A k \in repl' : (k \in repl /\ k # m) \/ k = c
        BY <1>1, <1>4
      <3>2. /\ c.req = C /\ c.try = tries[W] /\ tries[W] > 0 /\ c.awaited
            /\ c.from = Leader /\ c.to # Leader
        BY <1>5, <1>m, <2>1
      <3>3. \A k \in repl : k # m => k.to # c.to
        BY <1>2, <1>5
      <3> QED
        BY <2>1, <3>1, <3>2, <3>3
    <2>3. \A h \in handlers :
            /\ h.req = C /\ h.try = tries[W] /\ tries[W] > 0 /\ Alive(h.at)'
            /\ h.at = Leader
            /\ \A g \in handlers : g = h
      BY <1>3 DEF FInv, Sequential, OneAtATime, Alive
    <2>4. cancelled' = {} /\ late' = {} /\ gaveUp' = {}
      BY <1>3 DEF FInv, Sequential, OneAtATime
    <2> QED
      BY <1>3, <2>1, <2>2, <2>3, <2>4 DEF OneAtATime
  <1> QED
    BY <1>3, <1>6, <1>7

\* A Replicate to server 1, from the first leader.
LEMMA SequentialReplicateOne ==
  ASSUME OneClient, IInv, FInv, NEW m \in repl, ReplicateStep(m), m.to = 1
  PROVE  Sequential'
  <1>t. /\ D \in Nat /\ D + 1 \in Nat /\ C[2] = D + 1 /\ 0 \in Server /\ 1 \in Server
        /\ counters \in [Server -> Nat] /\ cache \in [Server -> [Request -> Nat]] /\ Up(1)
        /\ TypeInv
    BY Basics, ServersZeroOne DEF FInv, TypeOK
  <1>m. /\ m.req = C /\ C \in Request /\ m.from = Leader /\ m.awaited
        /\ m.pc \in {"counter", "cache"} /\ (dedup \/ m.pc = "counter")
        /\ ~TookOver /\ Exact /\ m.val = D + 1 /\ Leader = 0
    BY TheMessage DEF Exact, Leader
  <1>1. /\ OneAtATime'
        /\ \A k \in repl' : k \in repl \/ (k.to = m.to /\ k.val = m.val)
        /\ \A k \in repl' : k.to = m.to => ReplicateCounter(m) /\ dedup /\ k.pc = "cache"
        /\ D' = D /\ C' = C /\ tries' = tries /\ acked' = acked /\ dedup' = dedup
        /\ TookOver' = TookOver /\ Exact' = Exact /\ Leader' = Leader
        /\ Alive(0)' = Alive(0) /\ Applied' = Applied /\ handlers' = handlers
    BY ReplicateTogether
  <1>2. IF m.pc = "counter" THEN Before1 ELSE Half1
    BY <1>m DEF FInv, Sequential, ExactValues
  <1>3. \A s \in Server \ {1} : counters'[s] = counters[s] /\ cache'[s] = cache[s]
    <2>1. \A s \in Server \ {m.to} : counters'[s] = counters[s] /\ cache'[s] = cache[s]
      BY <1>t, ReplicateFrame
    <2> QED
      BY <2>1
  <1>4. \A h \in handlers : h.pc = "wait" /\ h.at = 0 /\ Alive(0)
    <2>1. \A h \in handlers : h.pc = "wait" /\ Alive(h.at) /\ (h.at = Leader \/ h.at = 0)
      BY TheMessage DEF FInv, Sequential, OneAtATime
    <2> QED
      BY <1>m, <2>1
  <1>5. handlers = {} => ~Alive(0)
    BY DEF FInv, Sequential, OneAtATime, Alive
  <1>6. \/ Before1' /\ ~Owed1' /\ ~Alive(0)
        \/ Half1' /\ Owed1'
        \/ After1' /\ ~Owed1'
    <2>1. CASE ReplicateCounter(m)
      <3>1. m.pc = "counter" /\ counters' = [counters EXCEPT ![1] = m.val] /\ cache' = cache
        BY <2>1 DEF ReplicateCounter
      <3>2. counters'[1] = D + 1 /\ cache'[1][C] = 0
        BY <1>2, <1>m, <1>t, <3>1 DEF Before1
      <3>3. CASE dedup
        <4>1. PICK c : c = [m EXCEPT !.pc = "cache"] /\ c \in repl'
          BY <2>1, <3>3 DEF ReplicateCounter
        <4>2. c.to = 1
          BY <4>1, TheMessage DEF Message
        <4> QED
          BY <1>1, <1>m, <3>2, <4>1, <4>2 DEF Half1, Owed1
      <3>4. CASE ~dedup
        BY <1>1, <1>m, <3>2, <3>4 DEF After1, Owed1
      <3> QED
        BY <3>3, <3>4
    <2>2. CASE ReplicateCache(m)
      <3>1. m.pc = "cache" /\ cache' = [cache EXCEPT ![1][C] = D + 1] /\ counters' = counters
        BY <1>m, <2>2 DEF ReplicateCache, CacheSet
      <3>2. counters'[1] = D + 1 /\ cache'[1][C] = D + 1
        BY <1>2, <1>m, <1>t, <3>1 DEF Half1
      <3>3. ~ReplicateCounter(m)
        BY <3>1 DEF ReplicateCounter
      <3> QED
        BY <1>1, <1>m, <3>2, <3>3 DEF After1, Owed1
    <2>3. CASE FailReplicate(m)
      <3>1. m.pc = "counter" /\ proc[0] = "down" /\ UNCHANGED <<counters, cache>> /\ repl' = repl \ {m}
        BY <1>m, <1>t, <2>3 DEF FailReplicate, stateVars
      <3>2. ~Owed1'
        BY <3>1 DEF FInv, Sequential, OneAtATime, Owed1
      <3>3. ~Alive(0)
        BY <3>1 DEF Alive
      <3> QED
        BY <1>1, <1>2, <3>1, <3>2, <3>3 DEF Before1
    <2> QED
      BY <2>1, <2>2, <2>3 DEF ReplicateStep
  <1>7. ExactValues'
    <2>1. /\ \A r \in Request : acked[r] = IF r[2] <= D THEN r[2] ELSE 0
          /\ \A h \in handlers : h.val = IF h.pc \in {"store", "wait"} THEN D + 1 ELSE 0
          /\ \A k \in repl : k.val = D + 1
      BY <1>m DEF FInv, Sequential, ExactValues
    <2>2. \A k \in repl' : k.val = D + 1
      BY <1>1, <1>m, <2>1
    <2>3. \A k \in repl' : k.to = 1 => k.pc = "cache" /\ Owed1'
      BY <1>1 DEF Owed1
    <2>4. \A k \in repl' : k.to = 1 => Half1'
      BY <1>6, <2>3
    <2>5. \A h \in handlers : h.pc = "wait" => After1' \/ Owed1'
      BY <1>4, <1>6
    <2>6. handlers = {} => Before1' \/ Owed1' \/ (After1' /\ ~Alive(0))
      BY <1>5, <1>6
    <2> HIDE DEF Before1, Half1, After1, Owed1
    <2> QED
      BY <1>1, <1>4, <2>1, <2>2, <2>3, <2>4, <2>5, <2>6 DEF ExactValues
  <1>8. FirstLeaderCounts'
    BY <1>1, <1>3, <1>4, <1>t DEF FInv, Sequential, FirstLeaderCounts
  <1>9. InexactCovers'
    BY <1>1, <1>m DEF InexactCovers
  <1>10. CacheExact'
    <2>a. \A s \in Server, r \in Request :
            cache'[s][r] = IF ReplicateCache(m) /\ s = m.to /\ r = m.req THEN m.val ELSE cache[s][r]
      BY <1>t, ReplicateFrame
    <2>1. \A s \in Server, r \in Request : cache'[s][r] = cache[s][r] \/ (r = C /\ cache'[s][r] = D + 1)
      BY <1>m, <2>a
    <2> QED
      BY <1>1, <1>t, <2>1 DEF FInv, Sequential, CacheExact
  <1> QED
    BY <1>1, <1>7, <1>8, <1>9, <1>10 DEF Sequential

LEMMA SequentialReplicate ==
  ASSUME OneClient, IInv, FInv, NEW m \in repl, ReplicateStep(m)
  PROVE  Sequential'
  <1>1. CASE m.to = 1
    BY <1>1, SequentialReplicateOne
  <1>2. CASE m.to # 1
    <2>t. /\ C[2] = D + 1 /\ 0 \in Server /\ 1 \in Server /\ TypeInv
      BY Basics, ServersZeroOne DEF FInv
    <2>m. /\ m.req = C /\ C \in Request /\ m.to \in Server /\ (m.to = 0 => TookOver)
          /\ (dedup => m.val = D + 1) /\ \A h \in handlers : h.pc = "wait"
      BY TheMessage DEF Exact
    <2>1. /\ OneAtATime'
          /\ \A k \in repl' : k \in repl \/ (k.to = m.to /\ k.val = m.val)
          /\ \A k \in repl : k.to # m.to => k \in repl'
          /\ D' = D /\ C' = C /\ tries' = tries /\ acked' = acked /\ dedup' = dedup
          /\ TookOver' = TookOver /\ Exact' = Exact /\ Leader' = Leader
          /\ Alive(0)' = Alive(0) /\ Applied' = Applied /\ handlers' = handlers
      BY ReplicateTogether
    <2>2. \A s \in Server \ {m.to} : counters'[s] = counters[s] /\ cache'[s] = cache[s]
      BY <2>t, ReplicateFrame
    <2>3. UNCHANGED <<dedup, done, acked, handlers>>
      BY <2>t, ReplicateFrame DEF serverVars, clientVars
    <2>4. ExactValues' /\ InexactCovers'
      <3>1. counters'[1] = counters[1] /\ cache'[1] = cache[1]
        BY <1>2, <2>2, <2>t
      <3>2. /\ \A k \in repl' : \E j \in repl : k.val = j.val
            /\ \A k \in repl : k.to = 1 => k \in repl'
            /\ \A k \in repl' : k.to = 1 => k \in repl
        BY <1>2, <2>1
      <3> QED
        BY <2>1, <2>3, <3>1, <3>2, ValuesKept
    <2>5. FirstLeaderCounts'
      BY <2>1, <2>2, <2>m, <2>t DEF FInv, Sequential, FirstLeaderCounts
    <2>6. CacheExact'
      <3>1. dedup => \A s \in Server, r \in Request :
                       cache'[s][r] \in {cache[s][r], IF r = C THEN D + 1 ELSE 0}
        <4>a. \A s \in Server, r \in Request :
                cache'[s][r] = IF ReplicateCache(m) /\ s = m.to /\ r = m.req THEN m.val ELSE cache[s][r]
          BY <2>t, ReplicateFrame
        <4>1. \A s \in Server, r \in Request : cache'[s][r] = cache[s][r] \/ (r = C /\ cache'[s][r] = m.val)
          BY <2>m, <4>a
        <4> QED
          BY <2>m, <4>1
      <3> QED
        BY <2>1, <2>t, <3>1 DEF FInv, Sequential, CacheExact
    <2> QED
      BY <2>1, <2>4, <2>5, <2>6 DEF Sequential
  <1> QED
    BY <1>1, <1>2

-----------------------------------------------------------------------------
(* Failure, election and rejoining                                         *)

\* What a server's life leaves alone.
LEMMA LifeTogether ==
  ASSUME OneClient, IInv, FInv, NEW s \in Server, LifeStep(s)
  PROVE  /\ UNCHANGED <<dedup, clientVars, late>>
         /\ D' = D /\ C' = C /\ tries' = tries /\ acked' = acked
         /\ cancelled' = {} /\ late' = {} /\ gaveUp' = {}
         /\ counters'[1] = counters[1] /\ cache'[1] = cache[1]
         /\ Before1' = Before1 /\ Half1' = Half1 /\ After1' = After1
  <1>t. TypeOK /\ TypeInv /\ 1 \in Server /\ proc[1] = "up" /\ 1 \notin Mortal
    BY Basics, ServersZeroOne DEF FInv, OneClient
  <1>1. UNCHANGED <<dedup, clientVars, late>>
    BY DEF LifeStep, Crash, Stop, Exit, Elect, Restart, Join, TransferCounters, TransferCache
  <1>2. /\ D' = D /\ C' = C /\ tries' = tries /\ acked' = acked
        /\ cancelled' = {} /\ late' = {} /\ gaveUp' = {}
    BY <1>1 DEF D, C, Current, clientVars, FInv, Sequential, OneAtATime
  <1>3. counters'[1] = counters[1] /\ cache'[1] = cache[1]
    BY <1>t DEF LifeStep, Crash, Stop, Exit, Elect, Restart, Join, TransferCounters, TransferCache,
                MayFail, Up, stateVars, TypeOK
  <1>4. Before1' = Before1 /\ Half1' = Half1 /\ After1' = After1
    BY <1>1, <1>2, <1>3 DEF Before1, Half1, After1
  <1> QED
    BY <1>1, <1>2, <1>3, <1>4

\* The first leader crashes: its handler is lost, not what it has sent.
LEMMA SequentialCrash ==
  ASSUME OneClient, IInv, FInv, Crash(0)
  PROVE  Sequential'
  <1>t. /\ TypeOK /\ 0 \in Server /\ 1 \in Server
        /\ ~TookOver /\ Leader = 0 /\ Exact /\ Alive(0) /\ LifeStep(0)
    BY Basics, ServersZeroOne
       DEF FInv, Crash, MayFail, Leader, Exact, Alive, Up, LifeStep
  <1>1. /\ UNCHANGED <<dedup, clientVars, late>>
        /\ D' = D /\ C' = C /\ tries' = tries /\ acked' = acked
        /\ cancelled' = {} /\ late' = {} /\ gaveUp' = {}
        /\ Before1' = Before1 /\ Half1' = Half1 /\ After1' = After1
    BY <1>t, LifeTogether
  <1>2. handlers' = {}
    BY <1>t DEF Crash, FInv, Sequential, OneAtATime
  <1>3. repl' = repl
    BY <1>t DEF Crash, FInv, Sequential, OneAtATime
  <1>4. ~Alive(0)' /\ proc'[0] = "down" /\ ~TookOver' /\ Leader' = 0 /\ Exact' /\ Owed1' = Owed1
    BY <1>3, <1>t DEF Crash, TypeOK, Alive, TookOver, Leader, Exact, Owed1
  <1>5. OneAtATime'
    BY <1>1, <1>2, <1>3, <1>4, <1>t DEF FInv, Sequential, OneAtATime
  <1>6. Before1 \/ Owed1 \/ After1
    <2>1. CASE handlers = {}
      BY <1>t, <2>1 DEF FInv, Sequential, ExactValues
    <2>2. ASSUME NEW h \in handlers PROVE Before1 \/ Owed1 \/ After1
      <3>1. h.pc \in {"lookup", "apply", "store", "wait"} /\ (h.pc = "wait" \/ h.at = 0)
        BY <1>t, TheHandler
      <3> QED
        BY <1>t, <3>1 DEF FInv, Sequential, ExactValues
    <2> QED
      BY <2>1, <2>2
  <1>7. ExactValues'
    <2>1. /\ \A r \in Request : acked[r] = IF r[2] <= D THEN r[2] ELSE 0
          /\ \A m \in repl : m.val = D + 1
          /\ \A m \in repl : m.to = 1 => IF m.pc = "counter" THEN Before1 ELSE Half1
      BY <1>t DEF FInv, Sequential, ExactValues
    <2> HIDE DEF Before1, Half1, After1, Owed1
    <2> QED
      BY <1>1, <1>2, <1>3, <1>4, <1>6, <2>1 DEF ExactValues
  <1>8. FirstLeaderCounts' /\ InexactCovers'
    BY <1>2, <1>4 DEF FirstLeaderCounts, InexactCovers
  <1>9. CacheExact'
    <2>1. \A u \in Server, r \in Request : cache'[u][r] \in {cache[u][r], 0}
      BY <1>t DEF Crash, TypeOK
    <2> QED
      BY <1>1, <2>1 DEF FInv, Sequential, CacheExact
  <1> QED
    BY <1>5, <1>7, <1>8, <1>9 DEF Sequential

\* Server 1 takes over: what the first leader sent has arrived or was lost.
LEMMA SequentialElect ==
  ASSUME OneClient, IInv, FInv, Elect(1)
  PROVE  Sequential'
  <1>t. /\ TypeOK /\ 0 \in Server /\ 1 \in Server /\ Up(1) /\ LifeStep(1)
        /\ LeaderOf(1) = 1 /\ LeaderOf(0) = 0 /\ view[1] \in {0, 1}
        /\ D \in Nat /\ counters[1] \in Nat
    BY Basics, ServersZeroOne DEF FInv, Leadership, LifeStep, TypeOK
  <1>0. view[1] = 0 /\ ~TookOver /\ Leader = 0 /\ Exact /\ ~Up(0)
    BY <1>t DEF Elect, TookOver, Leader, Exact
  <1>1. /\ UNCHANGED <<dedup, clientVars, late>>
        /\ D' = D /\ C' = C /\ tries' = tries /\ acked' = acked
        /\ cancelled' = {} /\ late' = {} /\ gaveUp' = {}
        /\ Before1' = Before1 /\ After1' = After1
    BY <1>t, LifeTogether
  <1>2. UNCHANGED <<proc, counters, cache, handlers, repl>> /\ TookOver' /\ Leader' = 1
        /\ (Exact' <=> dedup)
    <2>1. UNCHANGED <<dedup, proc, counters, cache, handlers, repl>> /\ view'[1] = 1
      BY <1>0, <1>t DEF Elect, TypeOK, stateVars
    <2> QED
      BY <2>1 DEF TookOver, Leader, Exact
  <1>3. repl = {}
    BY <1>0 DEF Elect, Settled, FInv, Sequential, OneAtATime
  <1>4. \A h \in handlers :
          /\ h.at = 0 /\ h.pc = "wait" /\ h.req = C /\ h.try = tries[W] /\ tries[W] > 0 /\ Alive(h.at)
          /\ h.val = D + 1 /\ After1
          /\ \A g \in handlers : g = h
    BY <1>0, <1>3 DEF Elect, Settled, FInv, Sequential, OneAtATime, ExactValues, Owed1
  <1>5. OneAtATime'
    BY <1>1, <1>2, <1>3, <1>4 DEF OneAtATime, Alive
  <1>6. handlers = {} => Before1 \/ After1
    BY <1>0, <1>3 DEF FInv, Sequential, ExactValues, Owed1
  <1>7. \A r \in Request : acked[r] = IF r[2] <= D THEN r[2] ELSE 0
    BY <1>0 DEF FInv, Sequential, ExactValues
  <1>8. ExactValues'
    <2> HIDE DEF Before1, After1
    <2> QED
      BY <1>1, <1>2, <1>3, <1>4, <1>6, <1>7 DEF ExactValues
  <1>9. FirstLeaderCounts'
    BY <1>2, <1>4 DEF FirstLeaderCounts
  <1>10. InexactCovers'
    <2>1. (After1 => counters[1] = D + 1) /\ (Before1 => counters[1] = D)
      BY DEF After1, Before1
    <2>2. Applied' = Applied /\ (Applied => After1)
      BY <1>2, <1>4 DEF Applied
    <2>3. \A h \in handlers : h.val <= counters[1]
      BY <1>4, <1>t, <2>1
    <2>4. D <= counters[1] /\ (Applied => D + 1 <= counters[1])
      BY <1>4, <1>6, <1>t, <2>1, <2>2
    <2>5. \A r \in Request : r[2] \in Nat /\ r[2] >= 1
      BY BoundsAssumption DEF Request
    <2>6. \A r \in Request : acked[r] <= counters[1] /\ (r[2] <= D => acked[r] # 0)
      BY <1>7, <1>t, <2>4, <2>5
    <2> HIDE DEF Applied
    <2> QED
      BY <1>1, <1>2, <2>2, <2>3, <2>4, <2>6 DEF InexactCovers
  <1>11. CacheExact'
    BY <1>1, <1>2 DEF FInv, Sequential, CacheExact
  <1> QED
    BY <1>5, <1>8, <1>9, <1>10, <1>11 DEF Sequential

\* A server's life as far as it does not touch the handler: the rest of the
\* invariant rests on server 1, which lives.
LEMMA SequentialQuiet ==
  ASSUME OneClient, IInv, FInv, NEW s \in Server, LifeStep(s),
         handlers' = handlers, TookOver' = TookOver,
         repl' = repl \/ repl' = {m \in repl : m.to # s}, s # 1 \/ repl' = repl,
         \A h \in handlers : Alive(h.at)',
         TookOver \/ (Alive(0)' => Alive(0)),
         ~TookOver /\ Alive(0)' => counters'[0] = counters[0],
         \A h \in handlers : h.at = 0 => cache'[0] = cache[0],
         repl # {} /\ ~TookOver /\ proc[0] = "down" => proc'[0] = "down",
         \A u \in Server, r \in Request :
           cache'[u][r] = 0 \/ \E p \in Server : cache'[u][r] = cache[p][r]
  PROVE  Sequential'
  <1>1. /\ UNCHANGED <<dedup, clientVars, late>>
        /\ D' = D /\ C' = C /\ tries' = tries /\ acked' = acked
        /\ cancelled' = {} /\ late' = {} /\ gaveUp' = {}
        /\ counters'[1] = counters[1] /\ cache'[1] = cache[1]
    BY LifeTogether
  <1>2. repl' \subseteq repl /\ \A m \in repl : m.to = 1 => m \in repl'
    OBVIOUS
  <1>3. Leader' = Leader /\ Applied' = Applied /\ UNCHANGED <<done, acked>>
    BY <1>1 DEF Leader, Applied, clientVars
  <1>4. OneAtATime'
    BY <1>1, <1>2, <1>3 DEF FInv, Sequential, OneAtATime
  <1>5. ExactValues' /\ InexactCovers'
    BY <1>1, <1>2, <1>3, ValuesKept
  <1>6. FirstLeaderCounts'
    BY <1>1, <1>3 DEF FInv, Sequential, FirstLeaderCounts
  <1>7. CacheExact'
    BY <1>1 DEF FInv, Sequential, CacheExact
  <1> QED
    BY <1>4, <1>5, <1>6, <1>7 DEF Sequential

LEMMA SequentialLife ==
  ASSUME OneClient, IInv, FInv, NEW s \in Server, LifeStep(s)
  PROVE  Sequential'
  <1>t. /\ TypeOK /\ 0 \in Server /\ 1 \in Server /\ proc[1] = "up" /\ 1 \notin Mortal
    BY Basics, ServersZeroOne DEF FInv, OneClient
  <1>h. \A h \in handlers : h.at \in {0, 1} /\ Alive(h.at)
    BY TheHandler
  <1>p. proc \in [Server -> {"up", "draining", "down", "starting", "joining"}] /\ view \in [Server -> Nat]
        /\ counters \in [Server -> Nat] /\ cache \in [Server -> [Request -> Nat]]
    BY <1>t DEF TypeOK
  <1>1. CASE Crash(s)
    <2>1. CASE s = 0
      BY <1>1, <2>1, SequentialCrash
    <2>2. CASE s # 0
      <3>1. s # 1
        BY <1>1, <1>t DEF Crash, MayFail
      <3>2. handlers' = handlers /\ repl' = {m \in repl : m.to # s}
        BY <1>1, <1>h, <2>2, <3>1 DEF Crash
      <3>3. proc'[0] = proc[0] /\ proc'[1] = proc[1] /\ view'[1] = view[1]
            /\ counters'[0] = counters[0] /\ cache'[0] = cache[0]
        BY <1>1, <1>p, <1>t, <2>2, <3>1 DEF Crash
      <3>4. \A u \in Server, r \in Request : cache'[u][r] = 0 \/ cache'[u][r] = cache[u][r]
        BY <1>1, <1>p DEF Crash
      <3>5. TookOver' = TookOver /\ Alive(0)' = Alive(0) /\ Alive(1)' = Alive(1)
        BY <3>3 DEF TookOver, Alive
      <3> QED
        BY <1>h, <3>1, <3>2, <3>3, <3>4, <3>5, SequentialQuiet
    <2> QED
      BY <2>1, <2>2
  <1>2. CASE Stop(s)
    <2>1. UNCHANGED <<view, counters, cache, handlers, repl>> /\ Up(s)
          /\ proc' = [proc EXCEPT ![s] = "draining"]
      BY <1>2 DEF Stop, stateVars, MayFail
    <2>2. \A u \in Server : Alive(u)' = Alive(u) /\ (proc[u] = "down" => proc'[u] = "down")
      BY <1>p, <2>1 DEF Alive, Up
    <2>3. TookOver' = TookOver
      BY <2>1 DEF TookOver
    <2> QED
      BY <1>h, <1>t, <2>1, <2>2, <2>3, SequentialQuiet
  <1>3. CASE Exit(s)
    <2>1. UNCHANGED <<handlers, repl>> /\ proc[s] = "draining" /\ s # 1
          /\ (\A h \in handlers : h.at # s)
          /\ proc' = [proc EXCEPT ![s] = "down"]
      BY <1>3, <1>t DEF Exit
    <2>2. /\ \A u \in Server \ {s} : proc'[u] = proc[u] /\ view'[u] = view[u]
                                     /\ counters'[u] = counters[u] /\ cache'[u] = cache[u]
          /\ proc'[s] = "down"
      BY <1>3, <1>p DEF Exit
    <2>3. \A u \in Server, r \in Request : cache'[u][r] = 0 \/ cache'[u][r] = cache[u][r]
      BY <1>3, <1>p DEF Exit
    <2>4. TookOver' = TookOver
      BY <1>t, <2>1, <2>2 DEF TookOver
    <2>5. \A u \in Server : Alive(u)' => Alive(u) /\ u # s
      BY <2>2 DEF Alive
    <2>a. \A h \in handlers : h.at \in Server \ {s} /\ Alive(h.at)
      BY <1>h, <1>t, <2>1
    <2>6. \A h \in handlers : Alive(h.at)' /\ (h.at = 0 => cache'[0] = cache[0])
      BY <2>2, <2>a DEF Alive
    <2>7. Alive(0)' => Alive(0) /\ counters'[0] = counters[0]
      BY <1>t, <2>2, <2>5
    <2>8. proc[0] = "down" => proc'[0] = "down"
      BY <1>t, <2>2
    <2> QED
      BY <2>1, <2>3, <2>4, <2>6, <2>7, <2>8, SequentialQuiet
  <1>4. CASE Elect(s)
    <2>1. CASE s = 1
      BY <1>4, <2>1, SequentialElect
    <2>2. CASE s # 1
      <3>1. UNCHANGED <<proc, counters, cache, handlers, repl>>
        BY <1>4 DEF Elect, stateVars
      <3>2. view'[1] = view[1]
        BY <1>4, <1>p, <1>t, <2>2 DEF Elect
      <3>3. TookOver' = TookOver /\ \A u \in Server : Alive(u)' = Alive(u)
        BY <3>1, <3>2 DEF TookOver, Alive
      <3> QED
        BY <1>h, <1>t, <3>1, <3>3, SequentialQuiet
    <2> QED
      BY <2>1, <2>2
  <1>5. CASE Restart(s)
    <2>1. UNCHANGED <<view, counters, cache, handlers, repl>> /\ proc[s] = "down" /\ Settled
          /\ proc' = [proc EXCEPT ![s] = "starting"]
      BY <1>5 DEF Restart, stateVars
    <2>2. \A u \in Server : Alive(u)' = Alive(u)
      BY <1>p, <2>1 DEF Alive
    <2>3. TookOver' = TookOver
      BY <2>1 DEF TookOver
    <2>4. repl # {} /\ ~TookOver => proc[0] # "down"
      BY <2>1 DEF Settled, FInv, Sequential, OneAtATime, Leader, Up
    <2> QED
      BY <1>h, <1>t, <2>1, <2>2, <2>3, <2>4, SequentialQuiet
  <1>6. ASSUME NEW p \in Server, TransferCounters(s, p) PROVE Sequential'
    <2>1. UNCHANGED <<proc, view, counters, cache, handlers, repl>>
      BY <1>6 DEF TransferCounters, stateVars
    <2>2. TookOver' = TookOver /\ \A u \in Server : Alive(u)' = Alive(u)
      BY <2>1 DEF TookOver, Alive
    <2> QED
      BY <1>h, <1>t, <2>1, <2>2, SequentialQuiet
  <1>7. CASE TransferCache(s)
    <2>1. UNCHANGED <<handlers, repl>> /\ proc[s] = "starting" /\ s # 1
          /\ pulled[s].peer \in Server /\ pulled[s] # NoPull
      BY <1>7, <1>t DEF TransferCache, IInv, ProcessesSound
    <2>2. /\ \A u \in Server \ {s} : proc'[u] = proc[u] /\ view'[u] = view[u]
                                     /\ counters'[u] = counters[u] /\ cache'[u] = cache[u]
      BY <1>7, <1>p DEF TransferCache
    <2>3. \A u \in Server : cache'[u] = cache[u] \/ cache'[u] = cache[pulled[s].peer]
      BY <1>7, <1>p DEF TransferCache
    <2>4. TookOver' = TookOver
      BY <1>t, <2>1, <2>2 DEF TookOver
    <2>5. s = 0 => TookOver
      BY <1>t, <2>1 DEF FInv, Leadership, TookOver, Up
    <2>6. \A h \in handlers : h.at # s
      BY <1>h, <2>1 DEF Alive
    <2>7. \A h \in handlers : Alive(h.at)' /\ (h.at = 0 => cache'[0] = cache[0])
      BY <1>h, <1>t, <2>2, <2>6 DEF Alive
    <2>8. s # 0 => proc'[0] = proc[0] /\ counters'[0] = counters[0] /\ (Alive(0)' => Alive(0))
      BY <1>t, <2>2 DEF Alive
    <2>9. proc[0] = "down" => s # 0
      BY <2>1
    <2>10. \A u \in Server, r \in Request : \E p \in Server : cache'[u][r] = cache[p][r]
      BY <2>1, <2>3
    <2> QED
      BY <2>1, <2>4, <2>5, <2>7, <2>8, <2>9, <2>10, SequentialQuiet
  <1>8. CASE Join(s)
    <2>1. UNCHANGED <<view, counters, cache, handlers, repl>> /\ proc[s] = "joining"
          /\ proc' = [proc EXCEPT ![s] = "up"]
      BY <1>8 DEF Join, stateVars
    <2>2. \A u \in Server : u # s => Alive(u)' = Alive(u)
      BY <1>p, <2>1 DEF Alive
    <2>3. TookOver' = TookOver
      BY <2>1 DEF TookOver
    <2>4. s = 0 => TookOver
      BY <1>t, <2>1 DEF FInv, Leadership, TookOver, Up
    <2>5. \A h \in handlers : Alive(h.at)'
      BY <1>h, <1>p, <1>t, <2>1 DEF Alive
    <2>6. proc[0] = "down" => proc'[0] = "down"
      BY <1>p, <1>t, <2>1
    <2> QED
      BY <1>h, <1>t, <2>1, <2>2, <2>3, <2>4, <2>5, <2>6, SequentialQuiet
  <1> QED
    BY <1>1, <1>2, <1>3, <1>4, <1>5, <1>6, <1>7, <1>8 DEF LifeStep

-----------------------------------------------------------------------------
(* The theorems                                                            *)

LEMMA FInvInit == OneClient /\ Init => FInv
  <1> SUFFICES ASSUME OneClient, Init PROVE FInv
    OBVIOUS
  <1>0. 0 \in Server /\ 1 \in Server /\ W \in Worker /\ N > 1
    BY ServersZeroOne DEF OneClient
  <1>1. D = 0 /\ ~TookOver /\ ~Applied
    BY <1>0 DEF Init, D, TookOver, Applied
  <1>2. \A r \in Request : r[2] > 0 /\ r[2] \in Nat
    BY BoundsAssumption DEF Request
  <1>3. OneAtATime
    BY DEF Init, OneAtATime
  <1>4. Before1
    BY <1>0, <1>1 DEF Init, Before1
  <1>5. ExactValues
    BY <1>1, <1>2, <1>4 DEF Init, ExactValues
  <1>6. FirstLeaderCounts /\ InexactCovers
    BY <1>0, <1>1 DEF Init, FirstLeaderCounts, InexactCovers, Exact
  <1>7. CacheExact
    BY DEF Init, CacheExact
  <1> QED
    BY <1>3, <1>5, <1>6, <1>7, LeadershipInit DEF FInv, Sequential

LEMMA FInvStep == OneClient /\ IInv /\ IInv' /\ FInv /\ [Next]_vars => FInv'
  <1> SUFFICES ASSUME OneClient, IInv, IInv', FInv, [Next]_vars PROVE FInv'
    OBVIOUS
  <1>1. Leadership'
    BY LeadershipStep DEF FInv
  <1>2. CASE UNCHANGED vars
    <2>1. /\ D' = D /\ C' = C /\ Exact' = Exact /\ Applied' = Applied /\ TookOver' = TookOver
          /\ Leader' = Leader /\ Alive(0)' = Alive(0)
          /\ UNCHANGED <<dedup, done, acked, handlers, repl, counters, cache>>
      BY <1>2 DEF vars, serverVars, stateVars, clientVars, D, C, Current, Exact, Applied,
                  TookOver, Leader, Alive
    <2>2. ExactValues' /\ InexactCovers'
      BY <2>1, ValuesKept
    <2>3. OneAtATime'
      BY <1>2 DEF FInv, Sequential, OneAtATime, vars, serverVars, clientVars, C, Current,
                  TookOver, Leader, Alive
    <2>4. FirstLeaderCounts' /\ CacheExact'
      BY <2>1 DEF FInv, Sequential, FirstLeaderCounts, CacheExact
    <2> QED
      BY <1>1, <2>2, <2>3, <2>4 DEF FInv, Sequential
  <1>3. CASE Next
    <2>1. Sequential'
      BY <1>3, SequentialSteps, SequentialBegin, SequentialHandler, SequentialReplicate,
         SequentialLife DEF FInv, Sequential
    <2> QED
      BY <1>1, <2>1 DEF FInv
  <1> QED
    BY <1>2, <1>3

LEMMA FailoverInvariance ==
  ASSUME OneClient
  PROVE  Spec => [](IInv /\ FInv)
  <1>1. Init => FInv
    BY FInvInit
  <1>2. IInv /\ IInv' /\ FInv /\ [Next]_vars => FInv'
    BY FInvStep
  <1> QED
    BY <1>1, <1>2, Invariance, PTL DEF Spec

\* What the leader of the time has counted.
LEMMA LeaderCount ==
  ASSUME OneClient, IInv, FInv, NEW s \in Server, Leads(s)
  PROVE  /\ D <= counters[s] /\ \A r \in Request : acked[r] <= counters[s]
         /\ dedup => counters[s] = D \/ (counters[s] = D + 1 /\ tries[W] > 0)
  <1>t. /\ D \in Nat /\ tries[W] \in Nat /\ 1 \in Server /\ s = Leader /\ Up(s)
        /\ counters[1] \in Nat /\ C[1] = W /\ C[2] = D + 1
    BY Basics, ServersZeroOne, LeadsIsLeader DEF FInv, TypeOK
  <1>r. \A r \in Request : r[2] \in Nat
    BY BoundsAssumption DEF Request
  <1>h. \A h \in handlers : tries[W] > 0 /\ h.pc \in {"lookup", "apply", "store", "wait"}
    BY TheHandler
  <1>1. CASE ~TookOver
    <2>1. s = 0 /\ Alive(0) /\ Exact
      BY <1>t, <1>1 DEF Leader, Alive, Up, Exact
    <2>2. counters[0] = IF Applied THEN D + 1 ELSE D
      BY <1>1, <2>1 DEF FInv, Sequential, FirstLeaderCounts
    <2>3. Applied => tries[W] > 0
      BY <1>h DEF Applied
    <2>4. \A r \in Request : acked[r] = IF r[2] <= D THEN r[2] ELSE 0
      BY <2>1 DEF FInv, Sequential, ExactValues
    <2> QED
      BY <1>r, <1>t, <2>1, <2>2, <2>3, <2>4
  <1>2. CASE TookOver /\ Exact
    <2>1. s = 1 /\ ~Owed1
      BY <1>t, <1>2 DEF Leader, FInv, Sequential, OneAtATime, Owed1
    <2>2. \A r \in Request : acked[r] = IF r[2] <= D THEN r[2] ELSE 0
      BY <1>2 DEF FInv, Sequential, ExactValues
    <2>3. Before1 \/ Half1 \/ After1
      <3>1. CASE handlers = {}
        BY <1>2, <2>1, <3>1 DEF FInv, Sequential, ExactValues
      <3>2. ASSUME NEW h \in handlers PROVE Before1 \/ Half1 \/ After1
        BY <1>2, <1>h, <2>1 DEF FInv, Sequential, ExactValues
      <3> QED
        BY <3>1, <3>2
    <2>4. counters[1] = D \/ (counters[1] = D + 1 /\ (handlers # {} \/ (After1 /\ dedup)))
      BY <1>2, <2>1, <2>3 DEF Before1, Half1, After1, Exact, FInv, Sequential, ExactValues
    <2>5. After1 /\ dedup => tries[W] > 0
      <3>1. After1 /\ dedup => C \in Request /\ cache[1][C] # 0
        BY <1>t DEF After1
      <3>2. After1 /\ dedup => ~NotBegun(C)
        BY <1>t, <3>1 DEF IInv, RequestsInOrder, NoTrace
      <3> QED
        BY <1>t, <3>2 DEF NotBegun, D
    <2> QED
      BY <1>h, <1>r, <1>t, <2>1, <2>2, <2>4, <2>5
  <1>3. CASE TookOver /\ ~Exact
    <2>1. s = 1 /\ ~dedup
      BY <1>t, <1>3 DEF Leader, Exact
    <2>2. D <= counters[1] /\ \A r \in Request : acked[r] <= counters[1]
      BY <1>3, <1>t DEF FInv, Sequential, InexactCovers
    <2> QED
      BY <2>1, <2>2
  <1> QED
    BY <1>1, <1>2, <1>3

LEMMA AckedCount ==
  ASSUME OneClient, IInv, FInv
  PROVE  IsFiniteSet(Acked) /\ Cardinality(Acked) = D /\ C \notin Acked
  <1>t. D \in Nat /\ D <= Rounds /\ C[2] = D + 1 /\ W \in Worker /\ \A w \in Worker : w = W
    BY Basics, ServersZeroOne DEF FInv
  <1>1. \A r \in Request : r[2] \in 1 .. Rounds /\ r[1] = W /\ r = <<W, r[2]>>
    BY <1>t DEF Request
  <1>2. \A r \in Request : acked[r] # 0 <=> r[2] <= D
    <2>1. \A r \in Request : r[2] > D => acked[r] = 0
      BY <1>1 DEF IInv, RequestsInOrder, D
    <2>2. \A r \in Request : r[2] <= D => acked[r] # 0
      BY <1>1, BoundsAssumption DEF FInv, Sequential, ExactValues, InexactCovers
    <2> QED
      BY <1>1, <1>t, <2>1, <2>2, BoundsAssumption
  <1>3. C \notin Acked
    BY <1>2, <1>t DEF Acked
  <1> DEFINE f == [i \in 1 .. D |-> <<W, i>>]
  <1>4. \A i \in 1 .. D : <<W, i>> \in Acked
    <2>1. \A i \in 1 .. D : <<W, i>> \in Request
      BY <1>t, BoundsAssumption DEF Request
    <2>2. \A i \in 1 .. D : <<W, i>>[2] = i /\ i <= D
      BY <1>t
    <2> QED
      BY <1>2, <2>1, <2>2 DEF Acked
  <1>5. \A r \in Acked : r[2] \in 1 .. D /\ r = <<W, r[2]>>
    BY <1>1, <1>2, <1>t, BoundsAssumption DEF Acked
  <1>6. f \in Injection(1 .. D, Acked) /\ f \in Surjection(1 .. D, Acked)
    <2>1. f \in [1 .. D -> Acked]
      BY <1>4
    <2>2. \A i, j \in 1 .. D : f[i] = f[j] => i = j
      OBVIOUS
    <2>3. \A r \in Acked : \E i \in 1 .. D : f[i] = r
      BY <1>5
    <2> HIDE DEF f
    <2> QED
      BY <2>1, <2>2, <2>3 DEF Injection, IsInjective, Surjection
  <1>7. ExistsBijection(1 .. D, Acked)
    BY <1>6 DEF ExistsBijection, Bijection
  <1> HIDE DEF f
  <1>8. IsFiniteSet(Acked)
    BY <1>7, <1>t, FS_NatBijection
  <1>9. Cardinality(Acked) = D
    BY <1>7, <1>8, <1>t, FS_CountingElements
  <1> QED
    BY <1>3, <1>8, <1>9

\* The worker of a client that does not give up, its connection not closed under
\* it, sees each of its requests counted exactly once by whoever leads: counted
\* if answered, and with the reply cache never counted twice (IncrCounter, the
\* cache lookup of a retry at the new leader).
THEOREM CountedOnce ==
  ASSUME OneClient
  PROVE  Spec => []ExactlyOnce
  <1>1. IInv /\ FInv => ExactlyOnce
    <2> SUFFICES ASSUME IInv, FInv, NEW s \in Server, Leads(s)
                 PROVE  /\ Cardinality(Acked) <= counters[s]
                        /\ dedup => counters[s] <= Cardinality(Attempted)
      BY DEF ExactlyOnce
    <2>1. /\ D <= counters[s]
          /\ dedup => counters[s] = D \/ (counters[s] = D + 1 /\ tries[W] > 0)
      BY LeaderCount
    <2>2. IsFiniteSet(Acked) /\ Cardinality(Acked) = D /\ C \notin Acked
      BY AckedCount
    <2>3. D \in Nat /\ W \in Worker /\ \A w \in Worker : w = W
      BY Basics, ServersZeroOne DEF FInv
    <2>4. gaveUp = {}
      BY DEF FInv, Sequential, OneAtATime
    <2>5. Attempted = IF tries[W] > 0 THEN Acked \cup {C} ELSE Acked
      <3>1. {Current(w) : w \in {v \in Worker : tries[v] > 0}} = IF tries[W] > 0 THEN {C} ELSE {}
        BY <2>3 DEF C
      <3> QED
        BY <2>4, <3>1 DEF Attempted
    <2>6. Cardinality(Acked \cup {C}) = D + 1
      BY <2>2, FS_AddElement
    <2> QED
      BY <2>1, <2>2, <2>3, <2>5, <2>6
  <1> QED
    BY <1>1, FailoverInvariance, PTL

\* What the worker was answered is still there when it reads from the new leader
\* (GetCounter), with or without the reply cache.
THEOREM ReadsCover ==
  ASSUME OneClient
  PROVE  Spec => []ReadsCoverAcked
  <1>1. IInv /\ FInv => ReadsCoverAcked
    <2> SUFFICES ASSUME IInv, FInv, NEW s \in Server, Leads(s), NEW r \in Request
                 PROVE  counters[s] >= acked[r]
      BY DEF ReadsCoverAcked, GetCounter
    <2>1. acked[r] <= counters[s]
      BY LeaderCount
    <2>2. acked[r] \in Nat /\ counters[s] \in Nat
      BY Basics DEF FInv, TypeOK
    <2> QED
      BY <2>1, <2>2
  <1> QED
    BY <1>1, FailoverInvariance, PTL

\* No two servers ever disagree on the answer to a request, in spite of torn
\* state transfers and of retries at the new leader (ReplyCache.set in
\* IncrCounter, Replicate and the rejoin).
THEOREM CachesAgree ==
  ASSUME OneClient
  PROVE  Spec => []CacheAgrees
  <1>1. IInv /\ FInv => CacheAgrees
    <2> SUFFICES ASSUME IInv, FInv, NEW s \in Server, NEW t \in Server, NEW r \in Request,
                        cache[s][r] # 0, cache[t][r] # 0
                 PROVE  cache[s][r] = cache[t][r]
      BY DEF CacheAgrees
    <2>1. dedup
      BY DEF IInv, NoCacheIfOff
    <2> QED
      BY <2>1 DEF FInv, Sequential, CacheExact
  <1> QED
    BY <1>1, FailoverInvariance, PTL
=============================================================================
