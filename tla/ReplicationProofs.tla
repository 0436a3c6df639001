------------------------- MODULE ReplicationProofs -------------------------
(***************************************************************************)
(* Theorems about module Replication, for every number of servers, workers *)
(* and requests and every bound, with and without the reply cache, while   *)
(* the first leader stands: followers crash, stop and rejoin, Replicates   *)
(* time out and are applied late, handlers outlive their calls.            *)
(***************************************************************************)
EXTENDS Replication, FiniteSetTheorems, NaturalsInduction, TLAPS

\* The leader of view 0 has not failed.
FirstLeaderStands == LeaderOf(0) \notin failed

-----------------------------------------------------------------------------
(* The inductive invariant                                                 *)

\* The history of failures, the pull, and the answers given are what they seem.
ProcessesSound ==
  /\ \A s \in Server : proc[s] # "up" => s \in failed
  /\ \A s \in Server : pulled[s] # NoPull => pulled[s].peer \in Server
  /\ failed \subseteq Mortal
AckedBounded == \E n \in Nat : \A r \in Request : acked[r] <= n

\* While the first leader stands nobody else leads.
OneLeader ==
  FirstLeaderStands =>
    /\ \A s \in Server : view[s] = 0
    /\ \A h \in handlers : h.at = 0
    /\ \A m \in repl : m.from = 0 /\ m.to # 0

\* Its counter is the largest value anywhere.
NothingAhead ==
  FirstLeaderStands =>
    /\ \A s \in Server : counters[s] <= counters[0] /\ pulled[s].val <= counters[0]
    /\ \A h \in handlers : h.val <= counters[0]
    /\ \A m \in repl : m.val <= counters[0]
    /\ \A r \in Request :
         acked[r] <= counters[0] /\ floor[r] <= counters[0] /\ cache[0][r] <= counters[0]

\* A handler has a value from Apply on.
ValueFromApply ==
  \A h \in handlers : h.val = 0 <=> h.pc \in {"lookup", "apply"}

\* Request r has, or had, the value v, at a handler, in the cache of the first
\* leader, or as an answer.
Claims(r, v) ==
  \/ cache[0][r] = v
  \/ acked[r] = v
  \/ \E h \in handlers : h.req = r /\ h.val = v

\* A value belongs to one request, and is larger than the answers that had been
\* given when the request began.
ValuesOwned ==
  FirstLeaderStands =>
    \A r \in Request, v \in Nat \ {0} : Claims(r, v) =>
      /\ floor[r] < v
      /\ \A q \in Request : Claims(q, v) => q = r

\* A request whose worker has not come to it has left no trace.
NotBegun(r) ==
  \/ r[2] > done[r[1]] + 1
  \/ r[2] = done[r[1]] + 1 /\ tries[r[1]] = 0

NoTrace(r) ==
  /\ \A h \in handlers : h.req # r
  /\ \A m \in repl : m.req # r
  /\ \A s \in Server : cache[s][r] = 0
  /\ floor[r] = 0
  /\ r \notin Retried

RequestsInOrder ==
  \A r \in Request :
    /\ NotBegun(r) => NoTrace(r)
    /\ r[2] > done[r[1]] => acked[r] = 0 /\ r \notin gaveUp
    /\ r[2] <= done[r[1]] => floor[r] = 0
    /\ r \in gaveUp => acked[r] = 0

\* One handler executes a request that was not retried, and whatever is cached,
\* sent or answered for it comes from that handler.
OneHandler(r) ==
  /\ \A h \in handlers : h.req = r =>
       /\ \A g \in handlers : g.req = r => g = h
       /\ acked[r] = 0
       /\ h.pc # "wait" => (\A m \in repl : m.req # r) /\ (\A s \in Server : cache[s][r] = 0)
       /\ h.pc = "wait" /\ dedup =>
            /\ h.val = cache[0][r]
            /\ \A s \in Server \ failed :
                 \/ cache[s][r] = h.val
                 \/ <<r, s>> \in late
                 \/ \E m \in repl : m.req = r /\ m.try = h.try /\ m.to = s /\ m.awaited
  /\ dedup =>
       /\ \A s \in Server : cache[s][r] \in {0, cache[0][r]}
       /\ \A m \in repl : m.req = r => m.val = cache[0][r]
       /\ acked[r] # 0 =>
            /\ acked[r] = cache[0][r]
            /\ \A s \in Server \ failed : cache[s][r] = acked[r] \/ <<r, s>> \in late

\* A request its worker waits for, and that was not retried, has its handler.
HandlerPresent ==
  \A w \in Worker : done[w] < Rounds /\ tries[w] > 0 /\ Current(w) \notin Retried =>
    \E h \in handlers : h.req = Current(w)

OneHandlerUnlessRetried ==
  FirstLeaderStands => (\A r \in Request \ Retried : OneHandler(r)) /\ HandlerPresent

\* Without deduplication nothing is ever cached.
NoCacheIfOff ==
  ~dedup => (\A m \in repl : m.pc = "counter") /\ (\A s \in Server, r \in Request : cache[s][r] = 0)

\* A value is given out for an attempt that reached a leader.
NotApplied == {h \in handlers : h.pc \in {"lookup", "apply"}}
IssuedBeforeApplied ==
  /\ IsFiniteSet(handlers)
  /\ FirstLeaderStands => counters[0] + Cardinality(NotApplied) <= issued

IInv ==
  /\ TypeOK /\ AckedBounded /\ ProcessesSound
  /\ OneLeader /\ NothingAhead /\ ValueFromApply /\ ValuesOwned
  /\ RequestsInOrder /\ OneHandlerUnlessRetried /\ NoCacheIfOff /\ IssuedBeforeApplied

-----------------------------------------------------------------------------
(* Facts about the operators                                               *)

LEMMA FirstLeader == LeaderOf(0) = 0 /\ 0 \in Server
  BY NAssumption DEF LeaderOf, Server

\* A bounded non-empty set of numbers has a largest one, and Max returns it.
LEMMA MaxOfBounded ==
  ASSUME NEW S \in SUBSET Nat, S # {}, NEW n \in Nat, \A x \in S : x <= n
  PROVE  /\ Max(S) \in S
         /\ \A x \in S : x <= Max(S)
  <1> DEFINE Bounds == {b \in Nat : \A x \in S : x <= b}
             Less == OpToRel(<, Nat)
  <1>1. \E b \in Bounds : \A c \in Bounds : ~ (<<c, b>> \in Less)
    <2>1. Bounds \subseteq Nat /\ Bounds # {}
      OBVIOUS
    <2> QED
      BY <2>1, NatLessThanWellFounded, WFMin
  <1>2. PICK b \in Bounds : \A c \in Bounds : ~ (<<c, b>> \in Less)
    BY <1>1
  <1>3. \A c \in Bounds : ~ (c < b)
    BY <1>2 DEF OpToRel
  <1>4. b \in S
    <2> SUFFICES ASSUME b \notin S PROVE FALSE
      OBVIOUS
    <2>1. PICK x \in S : TRUE
      OBVIOUS
    <2>2. \A y \in S : y <= b - 1
      OBVIOUS
    <2>3. b - 1 \in Nat
      BY <2>1, <2>2
    <2> QED
      BY <1>3, <2>2, <2>3
  <1>5. \E x \in S : \A y \in S : x >= y
    BY <1>4
  <1> QED
    BY <1>5 DEF Max

LEMMA HandlerFields ==
  ASSUME NEW h \in Handler
  PROVE  /\ h.req \in Request /\ h.req[1] \in Worker /\ h.req[2] \in 1 .. Rounds
         /\ h.try \in Nat /\ h.at \in Server /\ h.val \in Nat
         /\ h.pc \in {"lookup", "apply", "store", "wait"}
  BY DEF Handler, Request

LEMMA MessageFields ==
  ASSUME NEW m \in Message
  PROVE  /\ m.req \in Request /\ m.req[1] \in Worker /\ m.req[2] \in 1 .. Rounds
         /\ m.try \in Nat /\ m.from \in Server /\ m.to \in Server /\ m.val \in Nat
         /\ m.pc \in {"counter", "cache"} /\ m.awaited \in BOOLEAN
  BY DEF Message, Request

\* The request a worker is at is one of its requests.
LEMMA CurrentType ==
  ASSUME TypeOK, NEW w \in Worker, done[w] < Rounds
  PROVE  /\ Current(w) \in Request
         /\ Current(w)[1] = w /\ Current(w)[2] = done[w] + 1
  BY BoundsAssumption DEF TypeOK, Current, Request

-----------------------------------------------------------------------------
(* Type correctness                                                        *)

TypeInv == TypeOK /\ AckedBounded /\ ProcessesSound

LEMMA TypeInit == Init => TypeInv
  <1> SUFFICES ASSUME Init PROVE TypeInv
    OBVIOUS
  <1>1. TypeOK
    BY NAssumption, BoundsAssumption DEF Init, TypeOK, NoPull
  <1>2. AckedBounded
    BY DEF Init, AckedBounded
  <1>3. ProcessesSound
    BY DEF Init, ProcessesSound
  <1> QED
    BY <1>1, <1>2, <1>3 DEF TypeInv

\* NextRequest, for the request its worker is at.
LEMMA TypeNextRequest ==
  ASSUME TypeOK, NEW w \in Worker, done[w] < Rounds, NextRequest(w)
  PROVE  /\ done' \in [Worker -> 0 .. Rounds]
         /\ tries' \in [Worker -> Nat]
         /\ floor' \in [Request -> Nat]
  <1>1. done[w] + 1 \in 0 .. Rounds
    BY BoundsAssumption DEF TypeOK
  <1>2. done' \in [Worker -> 0 .. Rounds]
    BY <1>1 DEF TypeOK, NextRequest
  <1>3. tries' \in [Worker -> Nat] /\ floor' \in [Request -> Nat]
    BY DEF TypeOK, NextRequest
  <1> QED
    BY <1>2, <1>3

LEMMA TypeWorker ==
  ASSUME TypeInv, NEW w \in Worker, GiveUp(w) \/ Cancel(w) \/ \E s \in Server : Begin(w, s)
  PROVE  TypeInv'
  <1> USE DEF TypeInv
  <1>1. CASE GiveUp(w)
    <2>1. done[w] < Rounds /\ NextRequest(w) /\ Current(w) \in Request
      BY <1>1, CurrentType DEF GiveUp
    <2>2. gaveUp' \subseteq Request
      BY <1>1, <2>1 DEF GiveUp, TypeOK
    <2>3. TypeOK'
      BY <1>1, <2>1, <2>2, TypeNextRequest DEF GiveUp, TypeOK, serverVars, stateVars
    <2>4. AckedBounded' /\ ProcessesSound'
      BY <1>1 DEF GiveUp, AckedBounded, ProcessesSound, serverVars
    <2> QED
      BY <2>3, <2>4
  <1>2. CASE Cancel(w)
    <2>1. \E h \in handlers : h.req = Current(w)
      BY <1>2, HandlerFields DEF Cancel, Waiting, Awaited, TypeOK
    <2>2. Current(w) \in Request /\ tries[w] \in Nat
      BY <2>1, HandlerFields DEF TypeOK
    <2>3. cancelled' \subseteq Request \X Nat
      BY <1>2, <2>2 DEF Cancel, TypeOK
    <2>4. TypeOK'
      BY <1>2, <2>3 DEF Cancel, TypeOK, serverVars, stateVars
    <2>5. AckedBounded' /\ ProcessesSound'
      BY <1>2 DEF Cancel, AckedBounded, ProcessesSound, serverVars
    <2> QED
      BY <2>4, <2>5
  <1>3. ASSUME NEW s \in Server, Begin(w, s) PROVE TypeInv'
    <2> DEFINE r == Current(w)
               h == [req |-> r, try |-> tries[w] + 1, at |-> s, pc |-> "lookup", val |-> 0]
               answers == {acked[q] : q \in Request}
    <2>1. done[w] < Rounds /\ r \in Request
      BY <1>3, CurrentType DEF Begin, Ready
    <2>2. h \in Handler
      BY <2>1 DEF Handler, TypeOK
    <2>3. Max(answers) \in Nat
      <3>1. answers \in SUBSET Nat /\ answers # {}
        BY <2>1 DEF TypeOK
      <3>2. PICK n \in Nat : \A q \in Request : acked[q] <= n
        BY DEF AckedBounded
      <3>3. \A x \in answers : x <= n
        BY <3>2
      <3> HIDE DEF answers
      <3> QED
        BY <3>1, <3>3, MaxOfBounded
    <2>4. /\ tries' = [tries EXCEPT ![w] = @ + 1]
          /\ handlers' = handlers \cup {h}
          /\ floor' = IF tries[w] > 0 THEN floor ELSE [floor EXCEPT ![r] = Max(answers)]
          /\ issued' = issued + 1
          /\ UNCHANGED <<serverVars, stateVars, repl, late, done, acked, gaveUp, cancelled>>
      BY <1>3 DEF Begin
    <2> HIDE DEF r, h, answers
    <2>5. TypeOK'
      BY <2>1, <2>2, <2>3, <2>4 DEF TypeOK, serverVars, stateVars
    <2>6. AckedBounded' /\ ProcessesSound'
      BY <2>4 DEF AckedBounded, ProcessesSound, serverVars
    <2> QED
      BY <2>5, <2>6
  <1> QED
    BY <1>1, <1>2, <1>3

\* A handler that moves on keeps its request, its attempt and its server.
LEMMA GotoType ==
  ASSUME NEW h \in Handler, NEW pc \in {"lookup", "apply", "store", "wait"}, NEW val \in Nat
  PROVE  LET g == [h EXCEPT !.pc = pc, !.val = val]
         IN  /\ g \in Handler
             /\ g.req = h.req /\ g.try = h.try /\ g.at = h.at /\ g.pc = pc /\ g.val = val
  BY DEF Handler

\* What the return of a handler changes.
LEMMA TypeAnswer ==
  ASSUME TypeInv, NEW h \in handlers, NEW val \in Nat, Answer(h, val),
         UNCHANGED <<serverVars, stateVars, repl, late>>
  PROVE  TypeInv'
  <1> USE DEF TypeInv
  <1>0. h \in Handler /\ h.req \in Request /\ h.req[1] \in Worker
    BY HandlerFields DEF TypeOK
  <1>1. ProcessesSound'
    BY DEF ProcessesSound, serverVars
  <1>2. CASE Awaited(h)
    <2>1. acked' = [acked EXCEPT ![h.req] = val] /\ NextRequest(h.req[1])
      BY <1>2 DEF Answer
    <2>2. done[h.req[1]] < Rounds
      BY <1>2, <1>0, BoundsAssumption DEF Awaited, Current, Request, TypeOK
    <2>3. /\ done' \in [Worker -> 0 .. Rounds] /\ tries' \in [Worker -> Nat]
          /\ floor' \in [Request -> Nat]
      BY <1>0, <2>1, <2>2, TypeNextRequest
    <2>4. TypeOK'
      BY <1>0, <2>1, <2>3 DEF TypeOK, Answer, serverVars, stateVars
    <2>5. AckedBounded'
      <3>1. PICK n \in Nat : \A r \in Request : acked[r] <= n
        BY DEF AckedBounded
      <3>2. \A r \in Request : acked'[r] <= n + val
        BY <2>1, <3>1 DEF TypeOK
      <3> QED
        BY <3>2 DEF AckedBounded
    <2> QED
      BY <1>1, <2>4, <2>5
  <1>3. CASE ~Awaited(h)
    <2>1. UNCHANGED <<acked, done, tries, floor>>
      BY <1>3 DEF Answer
    <2>2. TypeOK'
      BY <2>1 DEF TypeOK, Answer, serverVars, stateVars
    <2>3. AckedBounded'
      BY <2>1 DEF AckedBounded
    <2> QED
      BY <1>1, <2>2, <2>3
  <1> QED
    BY <1>2, <1>3

LEMMA TypeHandler ==
  ASSUME TypeInv, NEW h \in handlers, HandlerStep(h)
  PROVE  TypeInv'
  <1> USE DEF TypeInv
  <1>0. h \in Handler /\ h.req \in Request /\ h.at \in Server /\ h.val \in Nat
    BY HandlerFields DEF TypeOK
  <1> DEFINE Moved(pc, val) == [h EXCEPT !.pc = pc, !.val = val]
  <1>m. \A pc \in {"lookup", "apply", "store", "wait"}, val \in Nat : Moved(pc, val) \in Handler
    BY <1>0, GotoType
  <1> HIDE DEF Moved
  <1>1. CASE CacheHit(h)
    <2>1. cache[h.at][h.req] \in Nat
      BY <1>0 DEF TypeOK
    <2>2. Answer(h, cache[h.at][h.req]) /\ UNCHANGED <<serverVars, stateVars, repl, late>>
      BY <1>1 DEF CacheHit
    <2> QED
      BY <2>1, <2>2, TypeAnswer
  <1>2. CASE CacheMiss(h)
    <2>1. TypeOK'
      BY <1>2, <1>m DEF CacheMiss, Goto, Moved, TypeOK, serverVars, stateVars, clientVars
    <2> QED
      BY <1>2, <2>1 DEF CacheMiss, AckedBounded, ProcessesSound, serverVars, clientVars
  <1>3. CASE Apply(h)
    <2>1. counters[h.at] + 1 \in Nat /\ counters' \in [Server -> Nat]
      BY <1>0, <1>3 DEF Apply, TypeOK
    <2>2. handlers' \subseteq Handler
      BY <1>3, <1>m, <2>1 DEF Apply, Goto, Moved, TypeOK
    <2>3. TypeOK'
      BY <1>3, <2>1, <2>2 DEF Apply, TypeOK, serverVars, clientVars
    <2> QED
      BY <1>3, <2>3 DEF Apply, AckedBounded, ProcessesSound, serverVars, clientVars
  <1>4. CASE StoreAndSend(h)
    <2>1. repl' \subseteq Message
      <3>1. \A p \in Server :
              [req |-> h.req, try |-> h.try, from |-> h.at, to |-> p, pc |-> "counter",
               val |-> h.val, awaited |-> TRUE] \in Message
        BY <1>0, HandlerFields DEF Message
      <3> QED
        BY <1>4, <3>1 DEF StoreAndSend, SendAll, TypeOK
    <2>2. cache' \in [Server -> [Request -> Nat]]
      <3>1. CASE dedup
        <4>1. cache' = [cache EXCEPT ![h.at][h.req] = h.val]
          BY <1>4, <3>1 DEF StoreAndSend, CacheSet
        <4> QED
          BY <1>0, <4>1 DEF TypeOK
      <3>2. CASE ~dedup
        BY <1>4, <3>2 DEF StoreAndSend, TypeOK
      <3> QED
        BY <3>1, <3>2
    <2>3. TypeOK'
      BY <1>0, <1>4, <1>m, <2>1, <2>2 DEF StoreAndSend, Goto, Moved, TypeOK, serverVars, clientVars
    <2> QED
      BY <1>4, <2>3 DEF StoreAndSend, AckedBounded, ProcessesSound, serverVars, clientVars
  <1>5. CASE Reply(h)
    BY <1>0, <1>5, TypeAnswer DEF Reply
  <1> QED
    BY <1>1, <1>2, <1>3, <1>4, <1>5 DEF HandlerStep

LEMMA TypeReplicate ==
  ASSUME TypeInv, NEW m \in repl, ReplicateStep(m) \/ TimeOutReplicate(m)
  PROVE  TypeInv'
  <1> USE DEF TypeInv
  <1>0. m \in Message /\ m.req \in Request /\ m.to \in Server /\ m.val \in Nat
    BY MessageFields DEF TypeOK
  <1>m. [m EXCEPT !.pc = "cache"] \in Message /\ [m EXCEPT !.awaited = FALSE] \in Message
    BY <1>0 DEF Message
  <1>1. CASE ReplicateCounter(m)
    <2>1. TypeOK'
      BY <1>0, <1>1, <1>m DEF ReplicateCounter, TypeOK, serverVars, clientVars
    <2> QED
      BY <1>1, <2>1 DEF ReplicateCounter, AckedBounded, ProcessesSound, serverVars, clientVars
  <1>2. CASE ReplicateCache(m)
    <2>1. TypeOK'
      BY <1>0, <1>2 DEF ReplicateCache, CacheSet, TypeOK, serverVars, clientVars
    <2> QED
      BY <1>2, <2>1 DEF ReplicateCache, AckedBounded, ProcessesSound, serverVars, clientVars
  <1>3. CASE FailReplicate(m)
    <2>1. TypeOK'
      BY <1>3 DEF FailReplicate, TypeOK, serverVars, stateVars, clientVars
    <2> QED
      BY <1>3, <2>1 DEF FailReplicate, AckedBounded, ProcessesSound, serverVars, clientVars
  <1>4. CASE TimeOutReplicate(m)
    <2>1. TypeOK'
      <3>1. repl' \subseteq Message
        BY <1>4, <1>m DEF TimeOutReplicate, TypeOK
      <3>2. late' \subseteq Request \X Server
        BY <1>0, <1>4 DEF TimeOutReplicate, TypeOK
      <3> QED
        BY <1>4, <3>1, <3>2 DEF TimeOutReplicate, TypeOK, serverVars, stateVars, clientVars
    <2> QED
      BY <1>4, <2>1 DEF TimeOutReplicate, AckedBounded, ProcessesSound, serverVars, clientVars
  <1> QED
    BY <1>1, <1>2, <1>3, <1>4 DEF ReplicateStep

\* The server forgets everything.
LEMMA TypeReset ==
  ASSUME TypeOK, NEW s \in Server,
         view' = [view EXCEPT ![s] = 0], counters' = [counters EXCEPT ![s] = 0],
         cache' = [cache EXCEPT ![s] = [r \in Request |-> 0]]
  PROVE  /\ view' \in [Server -> Nat]
         /\ counters' \in [Server -> Nat]
         /\ cache' \in [Server -> [Request -> Nat]]
  BY DEF TypeOK

LEMMA TypeLife ==
  ASSUME TypeInv, NEW s \in Server, LifeStep(s)
  PROVE  TypeInv'
  <1> USE DEF TypeInv
  <1>1. CASE Crash(s)
    <2>1. s \in Mortal /\ failed' \subseteq Server /\ repl' \subseteq Message
      BY <1>1 DEF Crash, MayFail, TypeOK
    <2>2. TypeOK'
      BY <1>1, <2>1, TypeReset DEF Crash, TypeOK, clientVars
    <2>3. ProcessesSound'
      BY <1>1, <2>1 DEF Crash, ProcessesSound, TypeOK
    <2> QED
      BY <1>1, <2>2, <2>3 DEF Crash, AckedBounded, clientVars
  <1>2. CASE Stop(s)
    <2>1. s \in Mortal /\ failed' \subseteq Server
      BY <1>2 DEF Stop, MayFail, TypeOK
    <2>2. TypeOK'
      BY <1>2, <2>1 DEF Stop, TypeOK, stateVars, clientVars
    <2>3. ProcessesSound'
      BY <1>2, <2>1 DEF Stop, ProcessesSound, TypeOK
    <2> QED
      BY <1>2, <2>2, <2>3 DEF Stop, AckedBounded, clientVars
  <1>3. CASE Exit(s)
    <2>1. TypeOK'
      BY <1>3, TypeReset DEF Exit, TypeOK, clientVars
    <2>2. ProcessesSound'
      BY <1>3 DEF Exit, ProcessesSound, TypeOK
    <2> QED
      BY <1>3, <2>1, <2>2 DEF Exit, AckedBounded, clientVars
  <1>4. CASE Elect(s)
    <2>1. TypeOK'
      BY <1>4 DEF Elect, TypeOK, stateVars, clientVars
    <2> QED
      BY <1>4, <2>1 DEF Elect, AckedBounded, ProcessesSound, clientVars
  <1>5. CASE Restart(s)
    <2>1. TypeOK'
      BY <1>5 DEF Restart, TypeOK, stateVars, clientVars
    <2>2. ProcessesSound'
      BY <1>5 DEF Restart, ProcessesSound, TypeOK
    <2> QED
      BY <1>5, <2>1, <2>2 DEF Restart, AckedBounded, clientVars
  <1>8. CASE Join(s)
    <2>1. TypeOK'
      BY <1>8 DEF Join, TypeOK, stateVars, clientVars
    <2>2. ProcessesSound'
      BY <1>8 DEF Join, ProcessesSound, TypeOK
    <2> QED
      BY <1>8, <2>1, <2>2 DEF Join, AckedBounded, clientVars
  <1>6. ASSUME NEW p \in Server, TransferCounters(s, p) PROVE TypeInv'
    <2> DEFINE pull == [peer |-> p, val |-> counters[p]]
    <2>1. pull \in [peer : 0 .. N, val : Nat] /\ pull.peer \in Server
      BY NAssumption DEF TypeOK, Server
    <2>2. pulled' = [pulled EXCEPT ![s] = pull]
      BY <1>6 DEF TransferCounters
    <2> HIDE DEF pull
    <2>3. TypeOK'
      BY <1>6, <2>1, <2>2 DEF TransferCounters, TypeOK, stateVars, clientVars
    <2>4. ProcessesSound'
      BY <1>6, <2>1, <2>2 DEF TransferCounters, ProcessesSound, TypeOK
    <2> QED
      BY <1>6, <2>3, <2>4 DEF TransferCounters, AckedBounded, clientVars
  <1>7. CASE TransferCache(s)
    <2>1. pulled[s].peer \in Server /\ pulled[s].val \in Nat
      BY <1>7 DEF TransferCache, ProcessesSound, TypeOK
    <2>2. NoPull \in [peer : 0 .. N, val : Nat]
      BY NAssumption DEF NoPull
    <2>3. cache' \in [Server -> [Request -> Nat]] /\ view' \in [Server -> Nat]
      BY <1>7, <2>1 DEF TransferCache, TypeOK
    <2>4. TypeOK'
      BY <1>7, <2>1, <2>2, <2>3 DEF TransferCache, TypeOK, clientVars
    <2>5. ProcessesSound'
      BY <1>7, <2>2 DEF TransferCache, ProcessesSound, TypeOK
    <2> QED
      BY <1>7, <2>4, <2>5 DEF TransferCache, AckedBounded, clientVars
  <1> QED
    BY <1>1, <1>2, <1>3, <1>4, <1>5, <1>6, <1>7, <1>8 DEF LifeStep

LEMMA TypeStep == TypeInv /\ [Next]_vars => TypeInv'
  <1> SUFFICES ASSUME TypeInv, [Next]_vars PROVE TypeInv'
    OBVIOUS
  <1>1. CASE UNCHANGED vars
    <2>1. TypeOK'
      BY <1>1 DEF TypeInv, TypeOK, vars, serverVars, stateVars, clientVars
    <2> QED
      BY <1>1, <2>1 DEF TypeInv, AckedBounded, ProcessesSound, vars, serverVars, clientVars
  <1>2. CASE Next
    BY <1>2, TypeWorker, TypeHandler, TypeReplicate, TypeLife DEF Next
  <1> QED
    BY <1>1, <1>2

\* No step of a worker, a handler, a follower or a process leaves the types that
\* TypeOK declares, whatever the number of servers and workers.
THEOREM TypeCorrect == Spec => []TypeOK
  <1>1. TypeInv => TypeOK
    BY DEF TypeInv
  <1> QED
    BY <1>1, TypeInit, TypeStep, PTL DEF Spec

-----------------------------------------------------------------------------
(* While the first leader stands                                           *)

LEMMA FailedGrows == [Next]_vars => failed \subseteq failed'
  <1> SUFFICES ASSUME [Next]_vars PROVE failed \subseteq failed'
    OBVIOUS
  <1>1. ASSUME NEW w \in Worker, GiveUp(w) \/ Cancel(w) \/ \E s \in Server : Begin(w, s)
        PROVE  failed' = failed
    BY <1>1 DEF GiveUp, Cancel, Begin, serverVars
  <1>2. ASSUME NEW h \in handlers, HandlerStep(h) PROVE failed' = failed
    BY <1>2 DEF HandlerStep, CacheHit, CacheMiss, Apply, StoreAndSend, Reply, serverVars
  <1>3. ASSUME NEW m \in repl, ReplicateStep(m) \/ TimeOutReplicate(m) PROVE failed' = failed
    BY <1>3 DEF ReplicateStep, ReplicateCounter, ReplicateCache, FailReplicate,
                TimeOutReplicate, serverVars
  <1>4. ASSUME NEW s \in Server, LifeStep(s) PROVE failed \subseteq failed'
    BY <1>4 DEF LifeStep, Crash, Stop, Exit, Elect, Restart, Join, TransferCounters, TransferCache
  <1>5. CASE UNCHANGED vars
    BY <1>5 DEF vars, serverVars
  <1> QED
    BY <1>1, <1>2, <1>3, <1>4, <1>5 DEF Next

LEMMA StoodBefore == [Next]_vars /\ FirstLeaderStands' => FirstLeaderStands
  BY FailedGrows DEF FirstLeaderStands, LeaderOf

LEMMA StandingIsUp ==
  ASSUME TypeInv, FirstLeaderStands
  PROVE  proc[0] = "up" /\ 0 \notin failed
  BY FirstLeader DEF TypeInv, ProcessesSound, FirstLeaderStands

\* Nobody but the first leader leads while it stands.
LEMMA LeadsIsFirst ==
  ASSUME TypeInv, OneLeader, FirstLeaderStands, NEW s \in Server, Leads(s)
  PROVE  s = 0
  BY FirstLeader DEF Leads, OneLeader

LEMMA OneLeaderInit == Init => OneLeader
  BY DEF Init, OneLeader

LEMMA OneLeaderStep ==
  ASSUME TypeInv, OneLeader, [Next]_vars
  PROVE  OneLeader'
  <1> SUFFICES ASSUME FirstLeaderStands'
               PROVE  /\ \A s \in Server : view'[s] = 0
                      /\ \A h \in handlers' : h.at = 0
                      /\ \A m \in repl' : m.from = 0 /\ m.to # 0
    BY DEF OneLeader
  <1>0. /\ FirstLeaderStands /\ proc[0] = "up" /\ 0 \notin failed /\ 0 \notin failed'
        /\ \A s \in Server : view[s] = 0
        /\ \A h \in handlers : h.at = 0
        /\ \A m \in repl : m.from = 0 /\ m.to # 0
    BY StoodBefore, StandingIsUp, FirstLeader DEF OneLeader, FirstLeaderStands
  <1>t. TypeOK /\ handlers \subseteq Handler /\ repl \subseteq Message
    BY DEF TypeInv, TypeOK
  <1>1. ASSUME NEW w \in Worker, GiveUp(w) \/ Cancel(w)
        PROVE  UNCHANGED <<view, handlers, repl>>
    BY <1>1 DEF GiveUp, Cancel, serverVars
  <1>2. ASSUME NEW w \in Worker, NEW s \in Server, Begin(w, s)
        PROVE  UNCHANGED <<view, repl>> /\ \A h \in handlers' : h.at = 0
    <2>1. s = 0
      BY <1>0, <1>2, LeadsIsFirst DEF Begin
    <2> QED
      BY <1>0, <1>2, <2>1 DEF Begin, serverVars
  <1>3. ASSUME NEW h \in handlers, HandlerStep(h)
        PROVE  /\ UNCHANGED view
               /\ \A g \in handlers' : g.at = 0
               /\ \A m \in repl' : m.from = 0 /\ m.to # 0
    <2>1. CASE CacheHit(h) \/ Reply(h)
      BY <1>0, <2>1 DEF CacheHit, Reply, Answer, serverVars
    <2>2. CASE CacheMiss(h) \/ Apply(h)
      BY <1>0, <1>t, <2>2 DEF CacheMiss, Apply, Goto, serverVars, Handler
    <2>3. CASE StoreAndSend(h)
      <3>1. \A g \in handlers' : g.at = 0
        BY <1>0, <1>t, <2>3 DEF StoreAndSend, Goto, Handler
      <3>2. \A m \in repl' : m.from = 0 /\ m.to # 0
        BY <1>0, <2>3 DEF StoreAndSend, SendAll
      <3> QED
        BY <2>3, <3>1, <3>2 DEF StoreAndSend, serverVars
    <2> QED
      BY <1>3, <2>1, <2>2, <2>3 DEF HandlerStep
  <1>4. ASSUME NEW m \in repl, ReplicateStep(m) \/ TimeOutReplicate(m)
        PROVE  UNCHANGED <<view, handlers>> /\ \A n \in repl' : n.from = 0 /\ n.to # 0
    <2>1. m \in Message
      BY <1>t
    <2>2. /\ [m EXCEPT !.pc = "cache"].from = 0 /\ [m EXCEPT !.pc = "cache"].to # 0
          /\ [m EXCEPT !.awaited = FALSE].from = 0 /\ [m EXCEPT !.awaited = FALSE].to # 0
      BY <1>0, <2>1 DEF Message
    <2> QED
      BY <1>0, <1>4, <2>2 DEF ReplicateStep, ReplicateCounter, ReplicateCache, FailReplicate,
                              TimeOutReplicate, serverVars
  <1>5. ASSUME NEW s \in Server, LifeStep(s)
        PROVE  /\ handlers' \subseteq handlers /\ repl' \subseteq repl
               /\ \A t \in Server : view'[t] = 0
    <2>1. CASE Crash(s)
      BY <1>0, <1>t, <2>1 DEF Crash, TypeOK
    <2>2. CASE Exit(s)
      BY <1>0, <1>t, <2>2 DEF Exit, TypeOK
    <2>3. ~Elect(s)
      BY <1>0, FirstLeader DEF Elect, Up
    <2>4. CASE Stop(s) \/ Restart(s) \/ Join(s) \/ \E p \in Server : TransferCounters(s, p)
      BY <1>0, <2>4 DEF Stop, Restart, Join, TransferCounters
    <2>5. CASE TransferCache(s)
      <3>1. pulled[s].peer \in Server
        BY <2>5 DEF TransferCache, TypeInv, ProcessesSound
      <3> QED
        BY <1>0, <1>t, <2>5, <3>1 DEF TransferCache, TypeOK
    <2> QED
      BY <1>5, <2>1, <2>2, <2>3, <2>4, <2>5 DEF LifeStep
  <1>6. CASE UNCHANGED vars
    BY <1>0, <1>6 DEF vars, serverVars
  <1> QED
    BY <1>0, <1>1, <1>2, <1>3, <1>4, <1>5, <1>6 DEF Next

\* What the invariants say while the first leader stands, before the step and
\* after it.
LEMMA Standing ==
  ASSUME TypeInv, OneLeader, [Next]_vars, FirstLeaderStands'
  PROVE  /\ FirstLeaderStands /\ proc[0] = "up" /\ 0 \in Server
         /\ 0 \notin failed /\ 0 \notin failed'
         /\ \A h \in handlers : h \in Handler /\ h.at = 0
         /\ \A m \in repl : m \in Message /\ m.from = 0 /\ m.to # 0
  BY StoodBefore, StandingIsUp, FirstLeader DEF OneLeader, FirstLeaderStands, TypeInv, TypeOK

\* Failure and rejoining of the others leave the first leader, its handlers and
\* the workers alone; a server that rejoins takes what a peer has.
LEMMA LifeFrame ==
  ASSUME TypeInv, OneLeader, FirstLeaderStands, 0 \notin failed', NEW s \in Server, LifeStep(s)
  PROVE  /\ s # 0 \/ UNCHANGED <<counters, cache, pulled>>
         /\ s \in failed' \/ UNCHANGED <<counters, cache, repl>>
         /\ UNCHANGED <<dedup, handlers, late, clientVars>>
         /\ repl' \subseteq repl
         /\ \A m \in repl \ repl' : m.to = s
         /\ \A t \in Server \ {s} : counters'[t] = counters[t] /\ cache'[t] = cache[t]
                                     /\ pulled'[t] = pulled[t]
         /\ counters'[s] \in {counters[s], 0, pulled[s].val}
         /\ pulled'[s].val \in {0, pulled[s].val} \/ \E p \in Server : pulled'[s].val = counters[p]
         /\ \/ cache'[s] = cache[s]
            \/ \A r \in Request : cache'[s][r] = 0
            \/ dedup /\ \E p \in Server : cache'[s] = cache[p]
  <1>0. /\ proc[0] = "up" /\ 0 \in Server
        /\ \A h \in handlers : h.at = 0
        /\ \A t \in Server : proc[t] # "up" => t \in failed
    BY StandingIsUp, FirstLeader DEF TypeInv, ProcessesSound, OneLeader
  <1>t. TypeOK
    BY DEF TypeInv
  <1>1. CASE Crash(s)
    <2>1. s \in failed' /\ s # 0
      BY <1>1 DEF Crash
    <2>2. handlers' = handlers
      BY <1>0, <1>1, <2>1 DEF Crash
    <2>3. \A r \in Request : cache'[s][r] = 0
      BY <1>1, <1>t DEF Crash, TypeOK
    <2> QED
      BY <1>1, <1>t, <2>1, <2>2, <2>3 DEF Crash, TypeOK
  <1>2. CASE Stop(s)
    BY <1>2, <1>t DEF Stop, TypeOK, stateVars
  <1>3. CASE Exit(s)
    <2>1. s \in failed' /\ s # 0
      BY <1>0, <1>3 DEF Exit
    <2>2. \A r \in Request : cache'[s][r] = 0
      BY <1>3, <1>t DEF Exit, TypeOK
    <2> QED
      BY <1>3, <1>t, <2>1, <2>2 DEF Exit, TypeOK
  <1>4. CASE Elect(s) \/ Restart(s) \/ Join(s)
    BY <1>4, <1>t DEF Elect, Restart, Join, TypeOK, stateVars
  <1>5. ASSUME NEW p \in Server, TransferCounters(s, p)
        PROVE  /\ s # 0
               /\ UNCHANGED <<counters, cache, dedup, handlers, late, clientVars, repl>>
               /\ pulled'[s].val = counters[p]
               /\ \A t \in Server \ {s} : pulled'[t] = pulled[t]
    BY <1>0, <1>5, <1>t DEF TransferCounters, TypeOK, stateVars
  <1>6. CASE TransferCache(s)
    <2>1. s # 0 /\ s \in failed'
      BY <1>0, <1>6 DEF TransferCache
    <2>2. pulled[s].peer \in Server /\ pulled'[s].val = 0
      BY <1>6, <1>t DEF TransferCache, TypeInv, ProcessesSound, TypeOK, NoPull
    <2>3. cache'[s] = cache[s] \/ (dedup /\ \E p \in Server : cache'[s] = cache[p])
      BY <1>6, <1>t, <2>2 DEF TransferCache, TypeOK
    <2> QED
      BY <1>6, <1>t, <2>1, <2>2, <2>3 DEF TransferCache, TypeOK
  <1> QED
    BY <1>1, <1>2, <1>3, <1>4, <1>5, <1>6, <1>t DEF LifeStep, TypeOK

\* What the return of a handler changes for the workers.
LEMMA AnswerFrame ==
  ASSUME TypeInv, NEW h \in handlers, NEW val \in Nat, Answer(h, val)
  PROVE  /\ handlers' = handlers \ {h}
         /\ UNCHANGED <<gaveUp, cancelled, issued>>
         /\ \A r \in Request \ {h.req} : acked'[r] = acked[r] /\ floor'[r] = floor[r]
         /\ \/ acked'[h.req] = val /\ floor'[h.req] = 0
            \/ acked'[h.req] = acked[h.req] /\ floor'[h.req] = floor[h.req]
  <1>0. h.req \in Request /\ h.req = <<h.req[1], h.req[2]>>
    BY DEF TypeInv, TypeOK, Handler, Request
  <1>1. CASE Awaited(h)
    <2>1. Current(h.req[1]) = h.req
      BY <1>1 DEF Awaited
    <2> QED
      BY <1>0, <1>1, <2>1 DEF Answer, NextRequest, TypeInv, TypeOK
  <1>2. CASE ~Awaited(h)
    BY <1>2 DEF Answer
  <1> QED
    BY <1>1, <1>2

\* What a worker's own steps change for the first leader.
LEMMA WorkerFrame ==
  ASSUME TypeInv, NEW w \in Worker, GiveUp(w) \/ Cancel(w)
  PROVE  /\ UNCHANGED <<serverVars, stateVars, handlers, repl, late, acked, issued>>
         /\ \A r \in Request : floor'[r] \in {floor[r], 0}
  BY DEF GiveUp, Cancel, NextRequest, TypeInv, TypeOK

LEMMA BeginFrame ==
  ASSUME TypeInv, NEW w \in Worker, NEW s \in Server, Begin(w, s)
  PROVE  /\ done[w] < Rounds /\ ~Waiting(w) /\ Current(w) \in Request
         /\ UNCHANGED <<serverVars, stateVars, repl, late, done, acked, gaveUp, cancelled>>
         /\ tries' = [tries EXCEPT ![w] = tries[w] + 1] /\ issued' = issued + 1
         /\ handlers' = handlers \cup
              {[req |-> Current(w), try |-> tries[w] + 1, at |-> s, pc |-> "lookup", val |-> 0]}
  <1>1. done[w] < Rounds /\ ~Waiting(w) /\ Current(w) \in Request
    BY CurrentType DEF Begin, Ready, TypeInv
  <1> QED
    BY <1>1 DEF Begin

\* The handler that Begin adds, by its fields.
LEMMA BeginHandlers ==
  ASSUME TypeInv, NEW w \in Worker, NEW s \in Server, Begin(w, s)
  PROVE  \E g \in Handler :
           /\ handlers' = handlers \cup {g}
           /\ g.req = Current(w) /\ g.try = tries[w] + 1 /\ g.at = s /\ g.pc = "lookup" /\ g.val = 0
  <1> DEFINE g == [req |-> Current(w), try |-> tries[w] + 1, at |-> s, pc |-> "lookup", val |-> 0]
  <1>1. handlers' = handlers \cup {g} /\ Current(w) \in Request /\ tries[w] + 1 \in Nat
    BY BeginFrame DEF TypeInv, TypeOK
  <1>2. g \in Handler
    BY <1>1 DEF Handler
  <1>3. g.req = Current(w) /\ g.try = tries[w] + 1 /\ g.at = s /\ g.pc = "lookup" /\ g.val = 0
    OBVIOUS
  <1> HIDE DEF g
  <1> QED
    BY <1>1, <1>2, <1>3

\* A request that begins takes the largest answer so far as its floor.
LEMMA BeginFloor ==
  ASSUME TypeInv, NEW w \in Worker, NEW s \in Server, Begin(w, s)
  PROVE  /\ \A r \in Request : r # Current(w) => floor'[r] = floor[r]
         /\ tries[w] > 0 => floor' = floor
         /\ tries[w] = 0 => \E q \in Request : floor'[Current(w)] = acked[q]
  <1> DEFINE answers == {acked[q] : q \in Request}
  <1>1. Current(w) \in Request /\ tries[w] \in Nat
    BY CurrentType DEF Begin, Ready, TypeInv, TypeOK
  <1>2. Max(answers) \in answers
    <2>1. answers \in SUBSET Nat /\ answers # {}
      BY <1>1 DEF TypeInv, TypeOK
    <2>2. PICK n \in Nat : \A q \in Request : acked[q] <= n
      BY DEF TypeInv, AckedBounded
    <2>3. \A x \in answers : x <= n
      BY <2>2
    <2> HIDE DEF answers
    <2> QED
      BY <2>1, <2>3, MaxOfBounded
  <1>3. PICK q \in Request : Max(answers) = acked[q]
    BY <1>2
  <1>4. floor' = IF tries[w] > 0 THEN floor ELSE [floor EXCEPT ![Current(w)] = acked[q]]
    BY <1>3 DEF Begin
  <1> QED
    BY <1>1, <1>4 DEF TypeInv, TypeOK

\* A handler that moves on is replaced by one that differs in pc and val only.
LEMMA GotoFrame ==
  ASSUME NEW h \in Handler, NEW pc \in {"lookup", "apply", "store", "wait"}, NEW val \in Nat,
         Goto(h, pc, val)
  PROVE  \E g \in Handler :
           /\ handlers' = (handlers \ {h}) \cup {g}
           /\ g.req = h.req /\ g.try = h.try /\ g.at = h.at /\ g.pc = pc /\ g.val = val
  <1> DEFINE g == [h EXCEPT !.pc = pc, !.val = val]
  <1>1. handlers' = (handlers \ {h}) \cup {g}
    BY DEF Goto
  <1>2. /\ g \in Handler
        /\ g.req = h.req /\ g.try = h.try /\ g.at = h.at /\ g.pc = pc /\ g.val = val
    BY DEF Handler
  <1> HIDE DEF g
  <1> QED
    BY <1>1, <1>2

\* What the handling of a Replicate changes: nothing but the server it is sent to.
LEMMA ReplicateFrame ==
  ASSUME TypeInv, NEW m \in repl, ReplicateStep(m) \/ TimeOutReplicate(m)
  PROVE  /\ UNCHANGED <<serverVars, handlers, clientVars>>
         /\ \A s \in Server \ {m.to} : counters'[s] = counters[s] /\ cache'[s] = cache[s]
         /\ \A s \in Server : counters'[s] \in {counters[s], m.val}
         /\ \A s \in Server, r \in Request :
              cache'[s][r] = IF ReplicateCache(m) /\ s = m.to /\ r = m.req THEN m.val ELSE cache[s][r]
         /\ late \subseteq late'
         /\ repl \ {m} \subseteq repl'
         /\ \A k \in repl' \ (repl \ {m}) :
              /\ k.req = m.req /\ k.try = m.try /\ k.from = m.from /\ k.to = m.to /\ k.val = m.val
              /\ k.pc = m.pc \/ (dedup /\ k.pc = "cache")
              /\ k.awaited = m.awaited \/ <<m.req, m.to>> \in late'
         /\ \/ \E k \in repl' : k.req = m.req /\ k.try = m.try /\ k.to = m.to /\ k.awaited = m.awaited
            \/ ~Up(m.to) \/ proc[m.from] = "down" \/ ~m.awaited
            \/ <<m.req, m.to>> \in late'
            \/ ReplicateCache(m)
            \/ ~dedup
  <1>t. /\ m \in Message /\ m.req \in Request /\ m.to \in Server /\ m.val \in Nat
        /\ counters \in [Server -> Nat] /\ cache \in [Server -> [Request -> Nat]]
    BY MessageFields DEF TypeInv, TypeOK
  <1> DEFINE c == [m EXCEPT !.pc = "cache"]
             a == [m EXCEPT !.awaited = FALSE]
  <1>c. /\ c.req = m.req /\ c.try = m.try /\ c.from = m.from /\ c.to = m.to /\ c.val = m.val
        /\ c.awaited = m.awaited /\ c.pc = "cache"
    BY <1>t DEF Message
  <1>a. /\ a.req = m.req /\ a.try = m.try /\ a.from = m.from /\ a.to = m.to /\ a.val = m.val
        /\ a.pc = m.pc
    BY <1>t DEF Message
  <1>1. CASE ReplicateCounter(m)
    <2>1. /\ counters' = [counters EXCEPT ![m.to] = m.val]
          /\ repl' = (repl \ {m}) \cup (IF dedup THEN {c} ELSE {})
          /\ UNCHANGED <<serverVars, cache, handlers, late, clientVars>>
          /\ m.pc = "counter"
      BY <1>1 DEF ReplicateCounter
    <2>2. ~ReplicateCache(m)
      BY <2>1 DEF ReplicateCache
    <2> HIDE DEF c
    <2> QED
      BY <1>t, <1>c, <2>1, <2>2
  <1>2. CASE ReplicateCache(m)
    <2>1. /\ cache' = [cache EXCEPT ![m.to][m.req] = m.val]
          /\ repl' = repl \ {m}
          /\ UNCHANGED <<serverVars, counters, handlers, late, clientVars>>
      BY <1>2 DEF ReplicateCache, CacheSet
    <2>2. \A s \in Server, r \in Request :
            cache'[s][r] = IF s = m.to /\ r = m.req THEN m.val ELSE cache[s][r]
      BY <1>t, <2>1
    <2>3. \A s \in Server \ {m.to} : cache'[s] = cache[s]
      BY <1>t, <2>1
    <2> QED
      BY <1>2, <1>t, <2>1, <2>2, <2>3
  <1>3. CASE FailReplicate(m)
    <2>1. ~ReplicateCache(m)
      BY <1>3 DEF FailReplicate, ReplicateCache
    <2> QED
      BY <1>3, <2>1 DEF FailReplicate, stateVars
  <1>4. CASE TimeOutReplicate(m) /\ ~ReplicateCache(m)
    <2>1. /\ repl' = (repl \ {m}) \cup {a}
          /\ late' = late \cup {<<m.req, m.to>>}
          /\ UNCHANGED <<serverVars, stateVars, handlers, clientVars>>
      BY <1>4 DEF TimeOutReplicate
    <2>2. late \subseteq late' /\ <<m.req, m.to>> \in late'
      BY <2>1
    <2>3. UNCHANGED <<counters, cache>> /\ repl \ {m} \subseteq repl'
      BY <2>1 DEF stateVars
    <2> HIDE DEF a
    <2>4. \A k \in repl' \ (repl \ {m}) :
            /\ k.req = m.req /\ k.try = m.try /\ k.from = m.from /\ k.to = m.to /\ k.val = m.val
            /\ k.pc = m.pc
      BY <1>a, <2>1
    <2>5. \A s \in Server, r \in Request :
            cache'[s][r] = IF ReplicateCache(m) /\ s = m.to /\ r = m.req THEN m.val ELSE cache[s][r]
      BY <1>4, <2>3
    <2>6. UNCHANGED <<serverVars, handlers, clientVars>>
      BY <2>1
    <2> QED
      BY <2>2, <2>3, <2>4, <2>5, <2>6
  <1> QED
    BY <1>1, <1>2, <1>3, <1>4 DEF ReplicateStep

-----------------------------------------------------------------------------
(* Nothing is ahead of the first leader                                    *)

LEMMA NothingAheadInit == Init => NothingAhead
  BY FirstLeader DEF Init, NothingAhead, NoPull

LEMMA NothingAheadStep ==
  ASSUME TypeInv, OneLeader, NothingAhead, [Next]_vars
  PROVE  NothingAhead'
  <1> DEFINE
        Servers == \A s \in Server : counters[s] <= counters[0] /\ pulled[s].val <= counters[0]
        Handlers == \A h \in handlers : h.val <= counters[0]
        Messages == \A m \in repl : m.val <= counters[0]
        Requests == \A r \in Request :
          acked[r] <= counters[0] /\ floor[r] <= counters[0] /\ cache[0][r] <= counters[0]
  <1> SUFFICES ASSUME FirstLeaderStands'
               PROVE  Servers' /\ Handlers' /\ Messages' /\ Requests'
    BY DEF NothingAhead
  <1>0. /\ FirstLeaderStands /\ proc[0] = "up" /\ 0 \in Server
        /\ 0 \notin failed /\ 0 \notin failed'
        /\ \A h \in handlers : h \in Handler /\ h.at = 0
        /\ \A m \in repl : m \in Message /\ m.from = 0 /\ m.to # 0
    BY Standing
  <1>i. Servers /\ Handlers /\ Messages /\ Requests
    BY <1>0 DEF NothingAhead
  <1>t. TypeOK
    BY DEF TypeInv
  <1>n. /\ counters[0] \in Nat
        /\ \A s \in Server : counters[s] \in Nat /\ pulled[s].val \in Nat
        /\ \A r \in Request : acked[r] \in Nat /\ floor[r] \in Nat /\ cache[0][r] \in Nat
    BY <1>0, <1>t DEF TypeOK
  <1>1. ASSUME NEW w \in Worker, GiveUp(w) \/ Cancel(w)
        PROVE  Servers' /\ Handlers' /\ Messages' /\ Requests'
    BY <1>1, <1>i, <1>n, WorkerFrame DEF serverVars, stateVars
  <1>2. ASSUME NEW w \in Worker, NEW s \in Server, Begin(w, s)
        PROVE  Servers' /\ Handlers' /\ Messages' /\ Requests'
    <2>1. Requests'
      <3>1. UNCHANGED <<counters, cache, acked>>
        BY <1>0, <1>2, BeginFrame DEF stateVars
      <3>2. \A r \in Request : floor'[r] = floor[r] \/ \E q \in Request : floor'[r] = acked[q]
        BY <1>2, <1>t, BeginFloor DEF TypeOK
      <3> QED
        BY <1>i, <3>1, <3>2
    <2>2. Servers' /\ Messages'
      BY <1>0, <1>i, <1>2, BeginFrame DEF serverVars, stateVars
    <2>3. Handlers'
      <3>1. \A h \in handlers' : h \in handlers \/ h.val = 0
        BY <1>0, <1>2, BeginHandlers
      <3>2. UNCHANGED counters
        BY <1>0, <1>2, BeginFrame DEF stateVars
      <3> QED
        BY <1>i, <1>n, <3>1, <3>2
    <2> QED
      BY <2>1, <2>2, <2>3
  <1>3. ASSUME NEW h \in handlers, HandlerStep(h)
        PROVE  Servers' /\ Handlers' /\ Messages' /\ Requests'
    <2>0. /\ h \in Handler /\ h.req \in Request /\ h.at = 0 /\ h.val \in Nat
          /\ h.val <= counters[0]
      BY <1>0, <1>i, HandlerFields
    <2>1. ASSUME NEW val \in Nat, Answer(h, val), val <= counters[0],
                 UNCHANGED <<serverVars, stateVars, repl, late>>
          PROVE  Servers' /\ Handlers' /\ Messages' /\ Requests'
      <3>1. \A r \in Request : acked'[r] \in {acked[r], val} /\ floor'[r] \in {floor[r], 0}
        BY <2>1, AnswerFrame
      <3>2. handlers' = handlers \ {h}
        BY <2>1, AnswerFrame
      <3> QED
        BY <1>i, <1>n, <2>1, <3>1, <3>2 DEF serverVars, stateVars
    <2>2. CASE CacheHit(h)
      <3>1. cache[0][h.req] \in Nat /\ cache[0][h.req] <= counters[0]
        BY <1>i, <1>n, <2>0
      <3> QED
        BY <2>0, <2>1, <2>2, <3>1 DEF CacheHit
    <2>3. CASE Reply(h)
      BY <2>0, <2>1, <2>3 DEF Reply
    <2>4. CASE CacheMiss(h)
      <3>1. \A g \in handlers' : g \in handlers \/ g.val = 0
        BY <2>0, <2>4, GotoFrame DEF CacheMiss
      <3> QED
        BY <1>i, <1>n, <2>4, <3>1 DEF CacheMiss, serverVars, stateVars, clientVars
    <2>5. CASE Apply(h)
      <3>1. counters'[0] = counters[0] + 1 /\ \A s \in Server \ {0} : counters'[s] = counters[s]
        BY <1>0, <1>t, <2>0, <2>5 DEF Apply, TypeOK
      <3>2. \A g \in handlers' : g \in handlers \/ g.val = counters[0] + 1
        <4>1. counters[0] + 1 \in Nat /\ Goto(h, "store", counters[0] + 1)
          BY <1>n, <2>0, <2>5 DEF Apply
        <4> QED
          BY <2>0, <4>1, GotoFrame
      <3>3. UNCHANGED <<pulled, repl, acked, floor, cache>>
        BY <2>5 DEF Apply, serverVars, clientVars
      <3>4. \A k \in Nat : k <= counters[0] => k <= counters[0] + 1
        BY <1>n
      <3>5. Servers'
        BY <1>i, <1>n, <3>1, <3>3, <3>4
      <3>6. Handlers'
        BY <1>0, <1>i, <1>n, <3>1, <3>2, <3>4, HandlerFields
      <3>7. Messages'
        BY <1>0, <1>i, <1>n, <3>1, <3>3, <3>4, MessageFields
      <3>8. Requests'
        BY <1>i, <1>n, <3>1, <3>3, <3>4
      <3> QED
        BY <3>5, <3>6, <3>7, <3>8
    <2>6. CASE StoreAndSend(h)
      <3>1. \A g \in handlers' : g \in handlers \/ g.val = h.val
        BY <2>0, <2>6, GotoFrame DEF StoreAndSend
      <3>2. \A m \in repl' : m \in repl \/ m.val = h.val
        BY <2>6 DEF StoreAndSend, SendAll
      <3>3. \A r \in Request : cache'[0][r] \in {cache[0][r], h.val}
        BY <1>0, <1>t, <2>0, <2>6 DEF StoreAndSend, CacheSet, TypeOK
      <3>4. UNCHANGED <<counters, pulled, acked, floor>>
        BY <2>6 DEF StoreAndSend, serverVars, clientVars
      <3> QED
        BY <1>i, <1>n, <2>0, <3>1, <3>2, <3>3, <3>4
    <2> QED
      BY <1>3, <2>2, <2>3, <2>4, <2>5, <2>6 DEF HandlerStep
  <1>4. ASSUME NEW m \in repl, ReplicateStep(m) \/ TimeOutReplicate(m)
        PROVE  Servers' /\ Handlers' /\ Messages' /\ Requests'
    <2>0. m \in Message /\ m.to \in Server /\ m.to # 0 /\ m.val \in Nat /\ m.val <= counters[0]
      BY <1>0, <1>i, MessageFields
    <2>1. \A k \in repl' : k \in repl \/ k.val = m.val
      BY <1>4, <2>0, ReplicateFrame
    <2>a. \A s \in Server \ {m.to} : counters'[s] = counters[s] /\ cache'[s] = cache[s]
      BY <1>0, <1>4, ReplicateFrame
    <2>b. counters'[0] = counters[0] /\ cache'[0] = cache[0]
      BY <2>0, <2>a, FirstLeader
    <2>2. \A s \in Server : counters'[s] \in {counters[s], m.val}
      BY <1>4, <2>0, ReplicateFrame
    <2>3. UNCHANGED <<pulled, handlers, acked, floor>>
      BY <1>4, <2>0, ReplicateFrame DEF serverVars, clientVars
    <2> QED
      BY <2>b, <1>i, <1>n, <2>0, <2>1, <2>2, <2>3
  <1>5. ASSUME NEW s \in Server, LifeStep(s)
        PROVE  Servers' /\ Handlers' /\ Messages' /\ Requests'
    <2>1. /\ counters'[0] = counters[0] /\ cache'[0] = cache[0] /\ repl' \subseteq repl
          /\ UNCHANGED <<handlers, clientVars>>
          /\ \A t \in Server : counters'[t] \in {counters[t], 0, pulled[t].val}
          /\ \A t \in Server : \/ pulled'[t].val \in {0, pulled[t].val}
                               \/ \E p \in Server : pulled'[t].val = counters[p]
      BY <1>0, <1>5, LifeFrame
    <2> QED
      BY <1>i, <1>n, <2>1 DEF clientVars
  <1>6. CASE UNCHANGED vars
    BY <1>i, <1>6 DEF vars, serverVars, stateVars, clientVars
  <1> QED
    BY <1>1, <1>2, <1>3, <1>4, <1>5, <1>6 DEF Next

-----------------------------------------------------------------------------
(* Every value has one owner                                               *)

LEMMA ValueFromApplyInit == Init => ValueFromApply
  BY DEF Init, ValueFromApply

LEMMA ValueFromApplyStep ==
  ASSUME TypeInv, ValueFromApply, [Next]_vars
  PROVE  ValueFromApply'
  <1> SUFFICES ASSUME NEW g \in handlers', g \notin handlers
               PROVE  g.val = 0 <=> g.pc \in {"lookup", "apply"}
    BY DEF ValueFromApply
  <1>1. ASSUME NEW w \in Worker, GiveUp(w) \/ Cancel(w) PROVE FALSE
    BY <1>1, WorkerFrame
  <1>2. ASSUME NEW w \in Worker, NEW s \in Server, Begin(w, s)
        PROVE  g.val = 0 /\ g.pc = "lookup"
    BY <1>2, BeginHandlers
  <1>3. ASSUME NEW h \in handlers, HandlerStep(h)
        PROVE  g.val = 0 <=> g.pc \in {"lookup", "apply"}
    <2>0. h \in Handler /\ h.at \in Server /\ h.val \in Nat /\ counters[h.at] \in Nat
      BY HandlerFields DEF TypeInv, TypeOK
    <2>1. ~CacheHit(h) /\ ~Reply(h)
      BY DEF CacheHit, Reply, Answer
    <2>2. CASE CacheMiss(h)
      BY <2>0, <2>2, GotoFrame DEF CacheMiss
    <2>3. CASE Apply(h)
      <3>1. counters[h.at] + 1 \in Nat /\ counters[h.at] + 1 # 0
        BY <2>0
      <3> QED
        BY <2>0, <2>3, <3>1, GotoFrame DEF Apply
    <2>4. CASE StoreAndSend(h)
      <3>1. h.val # 0
        BY <2>4 DEF StoreAndSend, At, ValueFromApply
      <3> QED
        BY <2>0, <2>4, <3>1, GotoFrame DEF StoreAndSend
    <2> QED
      BY <1>3, <2>1, <2>2, <2>3, <2>4 DEF HandlerStep
  <1>4. ASSUME NEW m \in repl, ReplicateStep(m) \/ TimeOutReplicate(m) PROVE FALSE
    BY <1>4 DEF ReplicateStep, ReplicateCounter, ReplicateCache, FailReplicate, TimeOutReplicate
  <1>5. ASSUME NEW s \in Server, LifeStep(s) PROVE FALSE
    BY <1>5 DEF LifeStep, Crash, Stop, Exit, Elect, Restart, Join, TransferCounters, TransferCache
  <1>6. CASE UNCHANGED vars
    BY <1>6 DEF vars
  <1> QED
    BY <1>1, <1>2, <1>3, <1>4, <1>5, <1>6 DEF Next

LEMMA ValuesOwnedInit == Init => ValuesOwned
  BY FirstLeader DEF Init, ValuesOwned, Claims

\* Values that only move, and floors that only fall, keep their owners.
LEMMA ValuesOwnedKept ==
  ASSUME TypeInv, ValuesOwned, FirstLeaderStands,
         \A r \in Request, v \in Nat \ {0} : Claims(r, v)' => Claims(r, v),
         \A r \in Request : floor'[r] \in {floor[r], 0}
  PROVE  ValuesOwned'
  <1>1. \A r \in Request, v \in Nat \ {0} : floor[r] < v => floor'[r] < v
    BY DEF TypeInv, TypeOK
  <1> QED
    BY <1>1 DEF ValuesOwned

LEMMA ValuesOwnedStep ==
  ASSUME TypeInv, OneLeader, NothingAhead, RequestsInOrder, ValuesOwned, [Next]_vars
  PROVE  ValuesOwned'
  <1> DEFINE Keeps == \A r \in Request, v \in Nat \ {0} : Claims(r, v)' => Claims(r, v)
             Falls == \A r \in Request : floor'[r] \in {floor[r], 0}
  <1> SUFFICES ASSUME FirstLeaderStands' PROVE ValuesOwned'
    BY DEF ValuesOwned
  <1>0. /\ FirstLeaderStands /\ proc[0] = "up" /\ 0 \in Server
        /\ 0 \notin failed /\ 0 \notin failed'
        /\ \A h \in handlers : h \in Handler /\ h.at = 0
        /\ \A m \in repl : m \in Message /\ m.from = 0 /\ m.to # 0
    BY Standing
  <1>t. TypeOK
    BY DEF TypeInv
  <1>1. ASSUME NEW w \in Worker, GiveUp(w) \/ Cancel(w) PROVE Keeps /\ Falls
    BY <1>1, WorkerFrame DEF Claims, stateVars
  <1>2. ASSUME NEW w \in Worker, NEW s \in Server, Begin(w, s) PROVE ValuesOwned'
    <2> DEFINE c == Current(w)
    <2>0. c \in Request /\ c[1] = w /\ c[2] = done[w] + 1 /\ tries[w] \in Nat /\ done[w] \in Nat
      BY <1>2, <1>t, CurrentType, BoundsAssumption DEF Begin, Ready, TypeOK
    <2>1. Keeps
      <3>1. \A h \in handlers' : h \in handlers \/ h.val = 0
        BY <1>2, BeginHandlers
      <3>2. UNCHANGED <<cache, acked>>
        BY <1>2, BeginFrame DEF stateVars
      <3> QED
        BY <3>1, <3>2 DEF Claims
    <2>2. CASE tries[w] > 0
      <3>1. Falls
        BY <1>2, <2>2, BeginFloor
      <3> QED
        BY <1>0, <2>1, <3>1, ValuesOwnedKept
    <2>3. CASE tries[w] = 0
      <3>1. NoTrace(c) /\ acked[c] = 0
        BY <2>0, <2>3 DEF RequestsInOrder, NotBegun
      <3>2. \A v \in Nat \ {0} : ~Claims(c, v)
        BY <1>0, <3>1 DEF NoTrace, Claims
      <3>3. \A r \in Request : r # c => floor'[r] = floor[r]
        BY <1>2, BeginFloor
      <3> HIDE DEF c
      <3> QED
        BY <1>0, <2>1, <3>2, <3>3 DEF ValuesOwned
    <2> QED
      BY <2>0, <2>2, <2>3
  <1>3. ASSUME NEW h \in handlers, HandlerStep(h) PROVE ValuesOwned'
    <2>0. h \in Handler /\ h.req \in Request /\ h.at = 0 /\ h.val \in Nat
      BY <1>0, HandlerFields
    <2>1. ASSUME NEW val \in Nat, Answer(h, val), Claims(h.req, val),
                 UNCHANGED <<serverVars, stateVars, repl, late>>
          PROVE  Keeps /\ Falls
      <3>1. \A r \in Request : acked'[r] = acked[r] \/ (r = h.req /\ acked'[r] = val)
        BY <2>1, AnswerFrame
      <3>2. handlers' \subseteq handlers /\ Falls
        BY <2>1, AnswerFrame
      <3>3. UNCHANGED cache
        BY <2>1 DEF stateVars
      <3> QED
        BY <2>1, <3>1, <3>2, <3>3 DEF Claims
    <2>2. CASE CacheHit(h)
      <3>1. cache[0][h.req] \in Nat /\ Claims(h.req, cache[0][h.req])
        BY <1>0, <1>t, <2>0 DEF TypeOK, Claims
      <3> QED
        BY <1>0, <2>0, <2>1, <2>2, <3>1, ValuesOwnedKept DEF CacheHit
    <2>3. CASE Reply(h)
      <3>1. Claims(h.req, h.val)
        BY DEF Claims
      <3> QED
        BY <1>0, <2>0, <2>1, <2>3, <3>1, ValuesOwnedKept DEF Reply
    <2>4. CASE CacheMiss(h)
      <3>1. \A g \in handlers' : g \in handlers \/ g.val = 0
        BY <2>0, <2>4, GotoFrame DEF CacheMiss
      <3>2. UNCHANGED <<cache, acked, floor>>
        BY <2>4 DEF CacheMiss, stateVars, clientVars
      <3>3. Keeps /\ Falls
        BY <3>1, <3>2 DEF Claims
      <3> QED
        BY <1>0, <3>3, ValuesOwnedKept
    <2>5. CASE Apply(h)
      <3> DEFINE new == counters[0] + 1
      <3>1. new \in Nat \ {0} /\ Goto(h, "store", new)
        BY <1>0, <1>t, <2>0, <2>5 DEF Apply, TypeOK
      <3>2. \A g \in handlers' : g \in handlers \/ (g.req = h.req /\ g.val = new)
        BY <2>0, <3>1, GotoFrame
      <3>3. UNCHANGED <<cache, acked, floor>>
        BY <2>5 DEF Apply, clientVars
      <3>4. \A r \in Request, v \in Nat \ {0} :
              Claims(r, v)' => Claims(r, v) \/ (r = h.req /\ v = new)
        BY <3>2, <3>3 DEF Claims
      <3>5. \A r \in Request : floor[r] < new /\ ~Claims(r, new)
        <4>1. \A k \in Nat : k <= counters[0] => k < new
          BY <1>0, <1>t DEF TypeOK
        <4>2. \A g \in handlers : g.val \in Nat
          BY <1>0, HandlerFields
        <4>3. \A r \in Request : acked[r] \in Nat /\ floor[r] \in Nat /\ cache[0][r] \in Nat
          BY <1>0, <1>t DEF TypeOK
        <4>4. ~(new < new)
          BY <3>1
        <4> HIDE DEF new
        <4> QED
          BY <1>0, <4>1, <4>2, <4>3, <4>4 DEF NothingAhead, Claims
      <3> HIDE DEF new
      <3> QED
        BY <1>0, <2>0, <3>1, <3>3, <3>4, <3>5 DEF ValuesOwned
    <2>6. CASE StoreAndSend(h)
      <3>1. \A g \in handlers' : g \in handlers \/ (g.req = h.req /\ g.val = h.val)
        BY <2>0, <2>6, GotoFrame DEF StoreAndSend
      <3>2. \A r \in Request : cache'[0][r] = cache[0][r] \/ (r = h.req /\ cache'[0][r] = h.val)
        BY <1>0, <1>t, <2>0, <2>6 DEF StoreAndSend, CacheSet, TypeOK
      <3>3. UNCHANGED <<acked, floor>>
        BY <2>6 DEF StoreAndSend, clientVars
      <3>4. Keeps /\ Falls
        BY <3>1, <3>2, <3>3 DEF Claims
      <3> QED
        BY <1>0, <3>4, ValuesOwnedKept
    <2> QED
      BY <1>3, <2>2, <2>3, <2>4, <2>5, <2>6 DEF HandlerStep
  <1>4. ASSUME NEW m \in repl, ReplicateStep(m) \/ TimeOutReplicate(m) PROVE Keeps /\ Falls
    <2>0. m.to # 0
      BY <1>0 DEF OneLeader
    <2>1. \A s \in Server \ {m.to} : cache'[s] = cache[s]
      BY <1>0, <1>4, ReplicateFrame
    <2>2. cache'[0] = cache[0] /\ UNCHANGED <<handlers, clientVars>>
      BY <1>0, <1>4, <2>0, <2>1, FirstLeader, ReplicateFrame
    <2> QED
      BY <2>2 DEF Claims, clientVars
  <1>5. ASSUME NEW s \in Server, LifeStep(s) PROVE Keeps /\ Falls
    <2>1. cache'[0] = cache[0] /\ UNCHANGED <<handlers, clientVars>>
      BY <1>0, <1>5, LifeFrame
    <2> QED
      BY <2>1 DEF Claims, clientVars
  <1>6. ASSUME UNCHANGED vars PROVE Keeps /\ Falls
    BY <1>6 DEF Claims, vars, stateVars, clientVars
  <1> QED
    BY <1>0, <1>1, <1>2, <1>3, <1>4, <1>5, <1>6, ValuesOwnedKept DEF Next

-----------------------------------------------------------------------------
(* Requests begin in order                                                 *)

LEMMA RequestsInOrderInit == Init => RequestsInOrder
  <1> SUFFICES ASSUME Init PROVE RequestsInOrder
    OBVIOUS
  <1>1. Retried = {}
    BY DEF Init, Retried
  <1> QED
    BY <1>1 DEF Init, RequestsInOrder, NoTrace

\* A request leaves its first trace when it begins.
LEMMA NoTraceKept ==
  ASSUME TypeInv, [Next]_vars, NEW r \in Request, NoTrace(r),
         \A w \in Worker, s \in Server : Begin(w, s) => Current(w) # r
  PROVE  NoTrace(r)'
  <1> USE DEF NoTrace
  <1>t. TypeOK
    BY DEF TypeInv
  <1>1. ASSUME NEW w \in Worker, GiveUp(w) PROVE NoTrace(r)'
    BY <1>1, <1>t DEF GiveUp, NextRequest, Retried, TypeOK, stateVars
  <1>2. ASSUME NEW w \in Worker, Cancel(w) PROVE NoTrace(r)'
    <2>1. Current(w) # r
      BY <1>2, <1>t, HandlerFields DEF Cancel, Waiting, Awaited, TypeOK
    <2>2. r \notin Retried'
      BY <1>2, <2>1 DEF Cancel, Retried
    <2> QED
      BY <1>2, <2>2 DEF Cancel, stateVars
  <1>3. ASSUME NEW w \in Worker, NEW s \in Server, Begin(w, s) PROVE NoTrace(r)'
    <2>1. Current(w) # r /\ floor'[r] = floor[r]
      BY <1>3, BeginFloor
    <2>2. \A h \in handlers' : h.req # r
      BY <1>3, <2>1, BeginHandlers
    <2>3. UNCHANGED <<repl, cache, cancelled>>
      BY <1>3, BeginFrame DEF stateVars
    <2> QED
      BY <2>1, <2>2, <2>3 DEF Retried
  <1>4. ASSUME NEW h \in handlers, HandlerStep(h) PROVE NoTrace(r)'
    <2>0. h \in Handler /\ h.req \in Request /\ h.req # r /\ h.at \in Server /\ h.val \in Nat
      BY <1>t, HandlerFields DEF TypeOK
    <2>1. ASSUME NEW val \in Nat, Answer(h, val), UNCHANGED <<serverVars, stateVars, repl, late>>
          PROVE  NoTrace(r)'
      <3>1. handlers' \subseteq handlers /\ floor'[r] = floor[r] /\ UNCHANGED cancelled
        BY <2>0, <2>1, AnswerFrame
      <3> QED
        BY <2>1, <3>1 DEF Retried, stateVars
    <2>2. CASE CacheHit(h)
      <3>1. cache[h.at][h.req] \in Nat
        BY <1>t, <2>0 DEF TypeOK
      <3> QED
        BY <2>1, <2>2, <3>1 DEF CacheHit
    <2>3. CASE Reply(h)
      BY <2>0, <2>1, <2>3 DEF Reply
    <2>4. CASE CacheMiss(h)
      BY <2>0, <2>4, GotoFrame DEF CacheMiss, Retried, stateVars, clientVars
    <2>5. CASE Apply(h)
      <3>1. counters[h.at] + 1 \in Nat
        BY <1>t, <2>0 DEF TypeOK
      <3>2. \A g \in handlers' : g.req # r
        BY <2>0, <2>5, <3>1, GotoFrame DEF Apply
      <3> QED
        BY <2>5, <3>2 DEF Apply, Retried, clientVars
    <2>6. CASE StoreAndSend(h)
      <3>1. \A g \in handlers' : g.req # r
        BY <2>0, <2>6, GotoFrame DEF StoreAndSend
      <3>2. \A m \in repl' : m.req # r
        BY <2>0, <2>6 DEF StoreAndSend, SendAll
      <3>3. \A s \in Server : cache'[s][r] = 0
        <4>1. CASE dedup
          <5>1. cache' = [cache EXCEPT ![h.at][h.req] = h.val]
            BY <2>6, <4>1 DEF StoreAndSend, CacheSet
          <5> QED
            BY <1>t, <2>0, <5>1 DEF TypeOK
        <4>2. CASE ~dedup
          BY <2>6, <4>2 DEF StoreAndSend
        <4> QED
          BY <4>1, <4>2
      <3> QED
        BY <2>6, <3>1, <3>2, <3>3 DEF StoreAndSend, Retried, clientVars
    <2> QED
      BY <1>4, <2>2, <2>3, <2>4, <2>5, <2>6 DEF HandlerStep
  <1>5. ASSUME NEW m \in repl, ReplicateStep(m) \/ TimeOutReplicate(m) PROVE NoTrace(r)'
    <2>0. m \in Message /\ m.req \in Request /\ m.req # r /\ m.to \in Server /\ m.val \in Nat
      BY <1>t, MessageFields DEF TypeOK
    <2>1. [m EXCEPT !.pc = "cache"].req = m.req /\ [m EXCEPT !.awaited = FALSE].req = m.req
      BY <2>0 DEF Message
    <2>2. \A k \in repl' : k.req # r
      BY <1>5, <2>0, <2>1 DEF ReplicateStep, ReplicateCounter, ReplicateCache, FailReplicate,
                              TimeOutReplicate
    <2>3. \A s \in Server : cache'[s][r] = 0
      <3>1. CASE UNCHANGED cache
        BY <3>1
      <3>2. CASE ReplicateCache(m)
        <4>1. cache' = [cache EXCEPT ![m.to][m.req] = m.val]
          BY <3>2 DEF ReplicateCache, CacheSet
        <4> QED
          BY <1>t, <2>0, <4>1 DEF TypeOK
      <3> QED
        BY <1>5, <3>1, <3>2 DEF ReplicateStep, ReplicateCounter, FailReplicate, TimeOutReplicate,
                                stateVars
    <2>4. UNCHANGED <<handlers, clientVars>>
      BY <1>5 DEF ReplicateStep, ReplicateCounter, ReplicateCache, FailReplicate, TimeOutReplicate
    <2> QED
      BY <2>2, <2>3, <2>4 DEF Retried, clientVars
  <1>6. ASSUME NEW s \in Server, LifeStep(s) PROVE NoTrace(r)'
    <2>1. handlers' \subseteq handlers /\ repl' \subseteq repl /\ UNCHANGED clientVars
      BY <1>6 DEF LifeStep, Crash, Stop, Exit, Elect, Restart, Join, TransferCounters, TransferCache
    <2>2. \A t \in Server : cache'[t][r] = 0
      <3>1. CASE UNCHANGED cache
        BY <3>1
      <3>2. CASE cache' = [cache EXCEPT ![s] = [q \in Request |-> 0]]
        BY <1>t, <3>2 DEF TypeOK
      <3>3. CASE TransferCache(s)
        <4>1. pulled[s].peer \in Server
          BY <3>3 DEF TransferCache, TypeInv, ProcessesSound
        <4>2. cache' = [cache EXCEPT ![s] = IF dedup THEN cache[pulled[s].peer] ELSE cache[s]]
          BY <3>3 DEF TransferCache
        <4> QED
          BY <1>t, <4>1, <4>2 DEF TypeOK
      <3> QED
        BY <1>6, <3>1, <3>2, <3>3 DEF LifeStep, Crash, Stop, Exit, Elect, Restart, Join,
                                      TransferCounters, stateVars
    <2> QED
      BY <2>1, <2>2 DEF Retried, clientVars
  <1>7. CASE UNCHANGED vars
    BY <1>7 DEF vars, stateVars, clientVars, Retried
  <1> QED
    BY <1>1, <1>2, <1>3, <1>4, <1>5, <1>6, <1>7 DEF Next

\* The steps that change where the workers are.
LEMMA ClientFrame ==
  ASSUME TypeInv, [Next]_vars
  PROVE  \/ UNCHANGED <<done, tries, acked, gaveUp, floor, issued>>
         \/ \E w \in Worker, s \in Server : Begin(w, s)
         \/ \E w \in Worker : GiveUp(w)
         \/ \E h \in handlers, val \in Nat :
              /\ Awaited(h) /\ acked' = [acked EXCEPT ![h.req] = val]
              /\ NextRequest(h.req[1]) /\ UNCHANGED gaveUp /\ UNCHANGED issued
              /\ \/ h.pc = "wait" /\ val = h.val
                 \/ val # 0 /\ val = cache[h.at][h.req]
  <1>1. ASSUME NEW w \in Worker, Cancel(w) PROVE UNCHANGED <<done, tries, acked, gaveUp, floor, issued>>
    BY <1>1 DEF Cancel
  <1>2. ASSUME NEW h \in handlers, HandlerStep(h)
        PROVE  \/ UNCHANGED <<done, tries, acked, gaveUp, floor, issued>>
               \/ \E val \in Nat :
                    /\ Awaited(h) /\ acked' = [acked EXCEPT ![h.req] = val]
                    /\ NextRequest(h.req[1]) /\ UNCHANGED gaveUp /\ UNCHANGED issued
                    /\ \/ h.pc = "wait" /\ val = h.val
                       \/ val # 0 /\ val = cache[h.at][h.req]
    <2>0. h.val \in Nat /\ cache[h.at][h.req] \in Nat
      BY HandlerFields DEF TypeInv, TypeOK
    <2>1. CASE CacheHit(h)
      BY <2>0, <2>1 DEF CacheHit, Answer
    <2>2. CASE Reply(h)
      BY <2>0, <2>2 DEF Reply, At, Answer
    <2>3. CASE CacheMiss(h) \/ Apply(h) \/ StoreAndSend(h)
      BY <2>3 DEF CacheMiss, Apply, StoreAndSend, clientVars
    <2> QED
      BY <1>2, <2>1, <2>2, <2>3 DEF HandlerStep
  <1>3. ASSUME NEW m \in repl, ReplicateStep(m) \/ TimeOutReplicate(m)
        PROVE  UNCHANGED <<done, tries, acked, gaveUp, floor, issued>>
    BY <1>3 DEF ReplicateStep, ReplicateCounter, ReplicateCache, FailReplicate,
                TimeOutReplicate, clientVars
  <1>4. ASSUME NEW s \in Server, LifeStep(s)
        PROVE  UNCHANGED <<done, tries, acked, gaveUp, floor, issued>>
    BY <1>4 DEF LifeStep, Crash, Stop, Exit, Elect, Restart, Join, TransferCounters, TransferCache,
                clientVars
  <1>5. CASE UNCHANGED vars
    BY <1>5 DEF vars, clientVars
  <1> QED
    BY <1>1, <1>2, <1>3, <1>4, <1>5 DEF Next

\* What the end of a worker's request changes.
LEMMA NextRequestFrame ==
  ASSUME TypeInv, NEW w \in Worker, done[w] < Rounds, NextRequest(w)
  PROVE  /\ done'[w] = done[w] + 1 /\ tries'[w] = 0
         /\ \A u \in Worker \ {w} : done'[u] = done[u] /\ tries'[u] = tries[u]
         /\ \A r \in Request : floor'[r] = IF r = Current(w) THEN 0 ELSE floor[r]
  BY CurrentType DEF NextRequest, TypeInv, TypeOK

\* An awaited handler is about the request its worker is at.
LEMMA AwaitedCurrent ==
  ASSUME TypeInv, NEW h \in handlers, Awaited(h)
  PROVE  /\ h.req \in Request /\ h.req[1] \in Worker /\ Current(h.req[1]) = h.req
         /\ done[h.req[1]] < Rounds /\ h.req[2] = done[h.req[1]] + 1
  <1>1. h.req \in Request /\ h.req[1] \in Worker /\ h.req[2] \in 1 .. Rounds
    BY HandlerFields DEF TypeInv, TypeOK
  <1>2. h.req = <<h.req[1], done[h.req[1]] + 1>>
    BY DEF Awaited, Current
  <1>3. h.req[2] = done[h.req[1]] + 1
    BY <1>2
  <1> QED
    BY <1>1, <1>2, <1>3, BoundsAssumption DEF TypeInv, TypeOK, Current

LEMMA RequestsInOrderStep ==
  ASSUME TypeInv, RequestsInOrder, [Next]_vars
  PROVE  RequestsInOrder'
  <1> SUFFICES ASSUME NEW r \in Request
               PROVE  /\ NotBegun(r)' => NotBegun(r)
                      /\ NotBegun(r)' => \A w \in Worker, s \in Server : Begin(w, s) => Current(w) # r
                      /\ r[2] > done'[r[1]] => acked'[r] = 0 /\ r \notin gaveUp'
                      /\ r[2] <= done'[r[1]] => floor'[r] = 0
                      /\ r \in gaveUp' => acked'[r] = 0
    BY NoTraceKept DEF RequestsInOrder
  <1>r. r[1] \in Worker /\ r[2] \in 1 .. Rounds /\ r = <<r[1], r[2]>>
    BY DEF Request
  <1>n. /\ \A w \in Worker : done[w] \in Nat /\ tries[w] \in Nat
        /\ r[2] \in Nat /\ acked[r] \in Nat /\ floor[r] \in Nat
    BY <1>r, BoundsAssumption DEF TypeInv, TypeOK
  <1>i. /\ r[2] > done[r[1]] => acked[r] = 0 /\ r \notin gaveUp
        /\ r[2] <= done[r[1]] => floor[r] = 0
        /\ r \in gaveUp => acked[r] = 0
    BY DEF RequestsInOrder
  <1>b. ASSUME NEW w \in Worker, NEW s \in Server, Begin(w, s)
        PROVE  /\ UNCHANGED <<done, acked, gaveUp>>
               /\ tries'[w] = tries[w] + 1 /\ \A u \in Worker \ {w} : tries'[u] = tries[u]
               /\ Current(w)[1] = w /\ Current(w)[2] = done[w] + 1
               /\ r # Current(w) => floor'[r] = floor[r]
               /\ ~(NotBegun(r)' /\ r = Current(w))
    <2>1. UNCHANGED <<done, acked, gaveUp>> /\ tries' = [tries EXCEPT ![w] = tries[w] + 1]
      BY <1>b, BeginFrame
    <2>2. tries'[w] = tries[w] + 1 /\ \A u \in Worker \ {w} : tries'[u] = tries[u]
      BY <2>1 DEF TypeInv, TypeOK
    <2>3. Current(w)[1] = w /\ Current(w)[2] = done[w] + 1
      BY <1>b, CurrentType DEF Begin, Ready, TypeInv
    <2>4. r # Current(w) => floor'[r] = floor[r]
      BY <1>b, BeginFloor
    <2>5. ASSUME NotBegun(r)', r = Current(w) PROVE FALSE
      BY <1>n, <2>1, <2>2, <2>3, <2>5 DEF NotBegun
    <2> QED
      BY <2>1, <2>2, <2>3, <2>4, <2>5
  <1>0. NotBegun(r)' => \A w \in Worker, s \in Server : Begin(w, s) => Current(w) # r
    BY <1>b
  <1>1. CASE UNCHANGED <<done, tries, acked, gaveUp, floor>>
    BY <1>0, <1>1, <1>i DEF NotBegun
  <1>2. ASSUME NEW w \in Worker, NEW s \in Server, Begin(w, s)
        PROVE  /\ NotBegun(r)' => NotBegun(r)
               /\ r[2] > done'[r[1]] => acked'[r] = 0 /\ r \notin gaveUp'
               /\ r[2] <= done'[r[1]] => floor'[r] = 0
               /\ r \in gaveUp' => acked'[r] = 0
    <2>1. NotBegun(r)' => NotBegun(r)
      BY <1>2, <1>b, <1>n, <1>r DEF NotBegun
    <2>2. r[2] <= done'[r[1]] => floor'[r] = 0
      BY <1>2, <1>b, <1>i, <1>n, <1>r
    <2> QED
      BY <1>2, <1>b, <1>i, <2>1, <2>2
  <1>n2. ASSUME NEW w \in Worker, done[w] < Rounds, NextRequest(w)
         PROVE  /\ NotBegun(r)' => NotBegun(r)
                /\ r[2] > done'[r[1]] => r[2] > done[r[1]] /\ r # Current(w)
                /\ r[2] <= done'[r[1]] => floor'[r] = 0
    <2>1. /\ done'[w] = done[w] + 1 /\ tries'[w] = 0
          /\ \A u \in Worker \ {w} : done'[u] = done[u] /\ tries'[u] = tries[u]
          /\ floor'[r] = IF r = Current(w) THEN 0 ELSE floor[r]
      BY <1>n2, NextRequestFrame
    <2>2. r = Current(w) <=> r[1] = w /\ r[2] = done[w] + 1
      BY <1>r DEF Current
    <2>3. CASE r[1] = w
      BY <1>i, <1>n, <2>1, <2>2, <2>3 DEF NotBegun
    <2>4. CASE r[1] # w
      BY <1>i, <1>n, <1>r, <2>1, <2>2, <2>4 DEF NotBegun
    <2> QED
      BY <2>3, <2>4
  <1>3. ASSUME NEW w \in Worker, GiveUp(w)
        PROVE  /\ NotBegun(r)' => NotBegun(r)
               /\ r[2] > done'[r[1]] => acked'[r] = 0 /\ r \notin gaveUp'
               /\ r[2] <= done'[r[1]] => floor'[r] = 0
               /\ r \in gaveUp' => acked'[r] = 0
    <2>1. done[w] < Rounds /\ NextRequest(w) /\ acked' = acked
      BY <1>3 DEF GiveUp
    <2>2. r \in gaveUp' => r \in gaveUp \/ r = Current(w)
      BY <1>3 DEF GiveUp
    <2>3. r = Current(w) => r[2] > done[r[1]]
      BY <1>n DEF Current
    <2> QED
      BY <1>i, <1>n2, <2>1, <2>2, <2>3
  <1>4. ASSUME NEW h \in handlers, NEW val \in Nat, Awaited(h),
               acked' = [acked EXCEPT ![h.req] = val], NextRequest(h.req[1]), UNCHANGED gaveUp
        PROVE  /\ NotBegun(r)' => NotBegun(r)
               /\ r[2] > done'[r[1]] => acked'[r] = 0 /\ r \notin gaveUp'
               /\ r[2] <= done'[r[1]] => floor'[r] = 0
               /\ r \in gaveUp' => acked'[r] = 0
    <2> DEFINE w == h.req[1]
    <2>1. w \in Worker /\ done[w] < Rounds /\ h.req = Current(w) /\ h.req \in Request
      BY <1>4, AwaitedCurrent
    <2>2. r # Current(w) => acked'[r] = acked[r]
      BY <1>4, <2>1 DEF TypeInv, TypeOK
    <2>3. r = Current(w) => r[2] > done[r[1]]
      BY <1>n, <2>1 DEF Current
    <2>4. NextRequest(w)
      BY <1>4
    <2> HIDE DEF w
    <2> QED
      BY <1>4, <1>i, <1>n2, <2>1, <2>2, <2>3, <2>4
  <1> QED
    BY <1>0, <1>1, <1>2, <1>3, <1>4, ClientFrame

-----------------------------------------------------------------------------
(* One handler executes a request that was not retried                     *)

LEMMA NoCacheIfOffInit == Init => NoCacheIfOff
  BY DEF Init, NoCacheIfOff

LEMMA NoCacheIfOffStep ==
  ASSUME TypeInv, NoCacheIfOff, [Next]_vars
  PROVE  NoCacheIfOff'
  <1>t. TypeOK
    BY DEF TypeInv
  <1>d. dedup' = dedup
    BY DEF Next, GiveUp, Cancel, Begin, HandlerStep, CacheHit, CacheMiss, Apply, StoreAndSend,
           Reply, ReplicateStep, ReplicateCounter, ReplicateCache, FailReplicate,
           TimeOutReplicate, LifeStep, Crash, Stop, Exit, Elect, Restart, Join, TransferCounters,
           TransferCache, vars, serverVars
  <1> SUFFICES ASSUME ~dedup
               PROVE  /\ \A m \in repl' : m.pc = "counter"
                      /\ \A s \in Server, r \in Request : cache'[s][r] = 0
    BY <1>d DEF NoCacheIfOff
  <1>i. /\ \A m \in repl : m.pc = "counter"
        /\ \A s \in Server, r \in Request : cache[s][r] = 0
    BY DEF NoCacheIfOff
  <1>1. ASSUME NEW w \in Worker, GiveUp(w) \/ Cancel(w) \/ \E s \in Server : Begin(w, s)
        PROVE  UNCHANGED <<repl, cache>>
    BY <1>1 DEF GiveUp, Cancel, Begin, stateVars
  <1>2. ASSUME NEW h \in handlers, HandlerStep(h)
        PROVE  UNCHANGED cache /\ \A m \in repl' : m.pc = "counter"
    BY <1>2, <1>i DEF HandlerStep, CacheHit, CacheMiss, Apply, StoreAndSend, SendAll, Reply, stateVars
  <1>3. ASSUME NEW m \in repl, ReplicateStep(m) \/ TimeOutReplicate(m)
        PROVE  UNCHANGED cache /\ \A k \in repl' : k.pc = "counter"
    <2>1. m.pc = "counter" /\ [m EXCEPT !.awaited = FALSE].pc = "counter"
      BY <1>i, <1>t DEF TypeOK, Message
    <2> QED
      BY <1>3, <1>i, <2>1 DEF ReplicateStep, ReplicateCounter, ReplicateCache, FailReplicate,
                TimeOutReplicate, stateVars
  <1>4. ASSUME NEW s \in Server, LifeStep(s)
        PROVE  /\ repl' \subseteq repl
               /\ \A t \in Server, r \in Request : cache'[t][r] = 0
    <2>1. repl' \subseteq repl
      BY <1>4 DEF LifeStep, Crash, Stop, Exit, Elect, Restart, Join, TransferCounters, TransferCache
    <2>2. CASE cache' = [cache EXCEPT ![s] = [r \in Request |-> 0]]
      BY <1>i, <1>t, <2>1, <2>2 DEF TypeOK
    <2>3. CASE cache' = [cache EXCEPT ![s] = cache[s]]
      BY <1>i, <1>t, <2>1, <2>3 DEF TypeOK
    <2>4. CASE UNCHANGED cache
      BY <1>i, <2>1, <2>4
    <2>5. \/ cache' = [cache EXCEPT ![s] = [r \in Request |-> 0]]
          \/ cache' = [cache EXCEPT ![s] = cache[s]]
          \/ UNCHANGED cache
      BY <1>4 DEF LifeStep, Crash, Stop, Exit, Elect, Restart, Join, TransferCounters, TransferCache,
                  stateVars
    <2> QED
      BY <2>2, <2>3, <2>4, <2>5
  <1>5. CASE UNCHANGED vars
    BY <1>5, <1>i DEF vars, stateVars
  <1> QED
    BY <1>i, <1>1, <1>2, <1>3, <1>4, <1>5 DEF Next

\* A retried request stays one.
LEMMA RetriedGrows == [Next]_vars => cancelled \subseteq cancelled' /\ Retried \subseteq Retried'
  <1> SUFFICES ASSUME [Next]_vars PROVE cancelled \subseteq cancelled'
    BY DEF Retried
  <1>1. ASSUME NEW h \in handlers, HandlerStep(h) PROVE cancelled' = cancelled
    BY <1>1 DEF HandlerStep, CacheHit, CacheMiss, Apply, StoreAndSend, Reply, Answer, clientVars
  <1> QED
    BY <1>1 DEF Next, GiveUp, Cancel, Begin, ReplicateStep, ReplicateCounter, ReplicateCache,
                FailReplicate, TimeOutReplicate, LifeStep, Crash, Stop, Exit, Elect, Restart, Join,
                TransferCounters, TransferCache, vars, clientVars

\* A handler of the request its worker is at, not retried, is waited for.
LEMMA UnretriedAwaited ==
  ASSUME TypeInv, NEW h \in handlers, h.req = Current(h.req[1]), h.req \notin Retried
  PROVE  Awaited(h)
  <1>1. \A c \in cancelled : c[1] # h.req
    BY DEF Retried
  <1>2. <<h.req, h.try>>[1] = h.req
    OBVIOUS
  <1> QED
    BY <1>1, <1>2 DEF Awaited

\* A step that leaves r's handlers, messages, entries and answer alone.
LEMMA OneHandlerUntouched ==
  ASSUME NEW r \in Request, OneHandler(r), dedup' = dedup, 0 \in Server,
         failed \subseteq failed', late \subseteq late', acked'[r] = acked[r],
         \A s \in Server : cache'[s][r] = cache[s][r],
         \A h \in handlers' : h.req = r => h \in handlers,
         \A m \in repl' : m.req = r => m \in repl,
         \A m \in repl : m.req = r => m \in repl'
  PROVE  OneHandler(r)'
  BY DEF OneHandler

\* Facts that all the cases below start from.
OneHandlerHyp ==
  /\ TypeInv /\ OneLeader /\ ValueFromApply /\ RequestsInOrder /\ NoCacheIfOff
  /\ OneHandlerUnlessRetried

LEMMA OneHandlerBegin ==
  ASSUME OneHandlerHyp, [Next]_vars, FirstLeaderStands', NEW r \in Request \ Retried,
         NEW w \in Worker, NEW s \in Server, Begin(w, s)
  PROVE  OneHandler(r)'
  <1>0. FirstLeaderStands /\ 0 \in Server /\ TypeInv /\ OneHandler(r)
    BY Standing DEF OneHandlerHyp, OneHandlerUnlessRetried
  <1>1. UNCHANGED <<dedup, failed, cache, repl, late, acked>>
    BY <1>0, BeginFrame DEF serverVars, stateVars
  <1>2. PICK g \in Handler : handlers' = handlers \cup {g} /\ g.req = Current(w) /\ g.pc = "lookup"
    BY <1>0, BeginHandlers
  <1>3. CASE r # Current(w)
    BY <1>0, <1>1, <1>2, <1>3, OneHandlerUntouched
  <1>4. CASE r = Current(w)
    <2>1. done[w] < Rounds /\ ~Waiting(w) /\ r[1] = w /\ r[2] = done[w] + 1
      BY <1>0, <1>4, BeginFrame, CurrentType DEF TypeInv
    <2>2. \A h \in handlers : h.req = r => Waiting(w)
      BY <1>0, <1>4, <2>1, UnretriedAwaited DEF Waiting
    <2>3. ~(tries[w] > 0)
      BY <1>0, <1>4, <2>1, <2>2 DEF OneHandlerHyp, OneHandlerUnlessRetried, HandlerPresent
    <2>4. tries[w] = 0 /\ done[w] \in Nat
      BY <1>0, <2>3, BoundsAssumption DEF TypeInv, TypeOK
    <2>5. NoTrace(r) /\ acked[r] = 0
      BY <2>1, <2>4 DEF OneHandlerHyp, RequestsInOrder, NotBegun
    <2> QED
      BY <1>0, <1>1, <1>2, <2>5 DEF NoTrace, OneHandler
  <1> QED
    BY <1>3, <1>4

LEMMA OneHandlerHandler ==
  ASSUME OneHandlerHyp, [Next]_vars, FirstLeaderStands', NEW r \in Request \ Retried,
         NEW h \in handlers, HandlerStep(h)
  PROVE  OneHandler(r)'
  <1>0. /\ FirstLeaderStands /\ proc[0] = "up" /\ 0 \in Server /\ TypeInv /\ TypeOK /\ OneHandler(r)
        /\ h \in Handler /\ h.at = 0 /\ h.req \in Request /\ h.val \in Nat
        /\ counters[0] \in Nat /\ cache[0][h.req] \in Nat /\ acked[r] \in Nat
    BY Standing, HandlerFields DEF OneHandlerHyp, OneHandlerUnlessRetried, TypeInv, TypeOK
  <1>1. ASSUME NEW val \in Nat, Answer(h, val), UNCHANGED <<serverVars, stateVars, repl, late>>,
               h.req # r
        PROVE  OneHandler(r)'
    <2>1. handlers' = handlers \ {h} /\ acked'[r] = acked[r]
      BY <1>0, <1>1, AnswerFrame
    <2>2. UNCHANGED <<dedup, failed, cache, repl, late>>
      BY <1>1 DEF serverVars, stateVars
    <2> QED
      BY <1>0, <2>1, <2>2, OneHandlerUntouched
  <1>2. CASE CacheHit(h)
    <2>1. h.req # r
      BY <1>0, <1>2 DEF CacheHit, At, OneHandler
    <2> QED
      BY <1>0, <1>1, <1>2, <2>1 DEF CacheHit
  <1>3. CASE CacheMiss(h)
    <2>1. PICK g \in Handler : handlers' = (handlers \ {h}) \cup {g} /\ g.req = h.req /\ g.pc = "apply"
      BY <1>0, <1>3, GotoFrame DEF CacheMiss
    <2>2. UNCHANGED <<dedup, failed, cache, repl, late, acked>> /\ h.pc = "lookup"
      BY <1>3 DEF CacheMiss, At, serverVars, stateVars, clientVars
    <2>3. CASE h.req # r
      BY <1>0, <2>1, <2>2, <2>3, OneHandlerUntouched
    <2>4. CASE h.req = r
      BY <1>0, <2>1, <2>2, <2>4 DEF OneHandler
    <2> QED
      BY <2>3, <2>4
  <1>4. CASE Apply(h)
    <2>0. counters[0] + 1 \in Nat /\ Goto(h, "store", counters[0] + 1)
      BY <1>0, <1>4 DEF Apply
    <2>1. PICK g \in Handler : handlers' = (handlers \ {h}) \cup {g} /\ g.req = h.req /\ g.pc = "store"
      BY <1>0, <2>0, GotoFrame
    <2>2. UNCHANGED <<dedup, failed, cache, repl, late, acked>> /\ h.pc = "apply"
      BY <1>4 DEF Apply, At, serverVars, clientVars
    <2>3. CASE h.req # r
      BY <1>0, <2>1, <2>2, <2>3, OneHandlerUntouched
    <2>4. CASE h.req = r
      BY <1>0, <2>1, <2>2, <2>4 DEF OneHandler
    <2> QED
      BY <2>3, <2>4
  <1>5. CASE StoreAndSend(h)
    <2>1. PICK g \in Handler :
            /\ handlers' = (handlers \ {h}) \cup {g} /\ g.req = h.req /\ g.try = h.try
            /\ g.pc = "wait" /\ g.val = h.val
      BY <1>0, <1>5, GotoFrame DEF StoreAndSend
    <2>2. UNCHANGED <<dedup, failed, late, acked>> /\ h.pc = "store"
      BY <1>5 DEF StoreAndSend, At, serverVars, clientVars
    <2>3. \A s \in Server, q \in Request :
            cache'[s][q] = IF dedup /\ s = 0 /\ q = h.req THEN h.val ELSE cache[s][q]
      <3>1. CASE dedup
        <4>1. cache' = [cache EXCEPT ![0][h.req] = h.val]
          BY <1>0, <1>5, <3>1 DEF StoreAndSend, CacheSet
        <4> QED
          BY <1>0, <3>1, <4>1 DEF TypeOK
      <3>2. CASE ~dedup
        BY <1>5, <3>2 DEF StoreAndSend
      <3> QED
        BY <3>1, <3>2
    <2>4. /\ repl \subseteq repl'
          /\ \A m \in repl' : m \in repl \/ (m.req = h.req /\ m.val = h.val)
          /\ \A s \in Server \ {0} : \E m \in repl' :
               m.req = h.req /\ m.try = h.try /\ m.to = s /\ m.awaited
      <3> DEFINE new(p) == [req |-> h.req, try |-> h.try, from |-> h.at, to |-> p,
                            pc |-> "counter", val |-> h.val, awaited |-> TRUE]
      <3>1. repl' = repl \cup {new(p) : p \in Server \ {0}}
        BY <1>0, <1>5 DEF StoreAndSend, SendAll
      <3>2. \A p \in Server : /\ new(p).req = h.req /\ new(p).try = h.try /\ new(p).to = p
                              /\ new(p).val = h.val /\ new(p).awaited
        OBVIOUS
      <3> HIDE DEF new
      <3> QED
        BY <3>1, <3>2
    <2>5. CASE h.req # r
      BY <1>0, <2>1, <2>2, <2>3, <2>4, <2>5, OneHandlerUntouched
    <2>6. CASE h.req = r
      <3>1. /\ \A q \in handlers : q.req = r => q = h
            /\ acked[r] = 0 /\ \A m \in repl : m.req # r
            /\ \A s \in Server : cache[s][r] = 0
        BY <1>0, <2>2, <2>6 DEF OneHandler
      <3>2. \A q \in handlers' : q.req = r => q = g
        BY <2>1, <3>1
      <3>3. dedup => /\ cache'[0][r] = h.val
                     /\ \A s \in Server : cache'[s][r] \in {0, cache'[0][r]}
                     /\ \A m \in repl' : m.req = r => m.val = h.val
        BY <1>0, <2>3, <2>4, <2>6, <3>1
      <3>4. \A s \in Server : s = 0 \/ \E m \in repl' :
               m.req = r /\ m.try = g.try /\ m.to = s /\ m.awaited
        BY <2>1, <2>4, <2>6
      <3> QED
        BY <1>0, <2>1, <2>2, <3>1, <3>2, <3>3, <3>4 DEF OneHandler
    <2> QED
      BY <2>5, <2>6
  <1>6. CASE Reply(h)
    <2>1. CASE h.req # r
      BY <1>0, <1>1, <1>6, <2>1 DEF Reply
    <2>2. CASE h.req = r
      <3>1. UNCHANGED <<dedup, failed, cache, repl, late>> /\ h.pc = "wait" /\ Replicated(h)
        BY <1>6 DEF Reply, At, serverVars, stateVars
      <3>2. handlers' = handlers \ {h} /\ acked'[r] \in {acked[r], h.val}
        BY <1>0, <1>6, <2>2, AnswerFrame DEF Reply
      <3>3. /\ \A q \in handlers' : q.req # r
            /\ acked[r] = 0
        BY <1>0, <2>2, <3>2 DEF OneHandler
      <3>4. dedup => /\ h.val = cache[0][r]
                     /\ \A s \in Server \ failed : cache[s][r] = h.val \/ <<r, s>> \in late
        BY <1>0, <2>2, <3>1 DEF OneHandler, Replicated
      <3> QED
        BY <1>0, <3>1, <3>2, <3>3, <3>4 DEF OneHandler
    <2> QED
      BY <2>1, <2>2
  <1> QED
    BY <1>2, <1>3, <1>4, <1>5, <1>6 DEF HandlerStep

LEMMA OneHandlerReplicate ==
  ASSUME OneHandlerHyp, [Next]_vars, FirstLeaderStands', NEW r \in Request \ Retried,
         NEW m \in repl, ReplicateStep(m) \/ TimeOutReplicate(m)
  PROVE  OneHandler(r)'
  <1>0. /\ FirstLeaderStands /\ proc[0] = "up" /\ 0 \in Server /\ TypeInv /\ OneHandler(r)
        /\ m \in Message /\ m.from = 0 /\ m.to # 0 /\ m.to \in Server /\ m.req \in Request
    BY Standing, MessageFields DEF OneHandlerHyp, OneHandlerUnlessRetried
  <1>1. UNCHANGED <<dedup, failed, handlers, acked>> /\ late \subseteq late'
    BY <1>0, ReplicateFrame DEF serverVars, clientVars
  <1>2. \A s \in Server, q \in Request :
          cache'[s][q] = IF ReplicateCache(m) /\ s = m.to /\ q = m.req THEN m.val ELSE cache[s][q]
    BY <1>0, ReplicateFrame
  <1>3. /\ repl \ {m} \subseteq repl'
        /\ \A k \in repl' \ (repl \ {m}) : k.req = m.req /\ k.val = m.val
    BY <1>0, ReplicateFrame
  <1>4. CASE m.req # r
    BY <1>0, <1>1, <1>2, <1>3, <1>4, OneHandlerUntouched
  <1>5. CASE m.req = r
    <2>1. dedup => m.val = cache[0][r]
      BY <1>0, <1>5 DEF OneHandler
    <2>2. ReplicateCache(m) => dedup
      BY DEF OneHandlerHyp, NoCacheIfOff, ReplicateCache
    <2>3. \A s \in Server : cache'[s][r] = cache[s][r] \/ (dedup /\ s = m.to /\ cache'[s][r] = cache[0][r])
      BY <1>2, <2>1, <2>2
    <2>4. cache'[0][r] = cache[0][r]
      BY <1>0, <2>3
    <2>5. \A k \in repl' : k.req = r => k \in repl \/ k.val = m.val
      BY <1>3
    <2>6. \A h \in handlers : h.req = r => h.pc = "wait" /\ acked[r] = 0
      BY <1>0, <1>5 DEF OneHandler
    <2>7. ASSUME NEW h \in handlers, h.req = r, dedup, NEW s \in Server \ failed
          PROVE  \/ cache'[s][r] = h.val
                 \/ <<r, s>> \in late'
                 \/ \E k \in repl' : k.req = r /\ k.try = h.try /\ k.to = s /\ k.awaited
      <3>1. h.val = cache[0][r]
        BY <1>0, <2>6, <2>7 DEF OneHandler
      <3>2. \/ cache[s][r] = h.val
            \/ <<r, s>> \in late
            \/ \E k \in repl : k.req = r /\ k.try = h.try /\ k.to = s /\ k.awaited
        BY <1>0, <2>6, <2>7 DEF OneHandler
      <3>3. ASSUME s = m.to, m.try = h.try, m.awaited
            PROVE  \/ cache'[s][r] = h.val
                   \/ <<r, s>> \in late'
                   \/ \E k \in repl' : k.req = r /\ k.try = h.try /\ k.to = s /\ k.awaited
        <4>1. Up(m.to) /\ proc[m.from] # "down"
          BY <1>0, <2>7, <3>3 DEF TypeInv, ProcessesSound, Up
        <4>2. \/ \E k \in repl' : k.req = m.req /\ k.try = m.try /\ k.to = m.to /\ k.awaited = m.awaited
              \/ <<m.req, m.to>> \in late'
              \/ ReplicateCache(m)
          BY <1>0, <2>7, <3>3, <4>1, ReplicateFrame
        <4>3. ReplicateCache(m) => cache'[s][r] = h.val
          BY <1>2, <1>5, <2>1, <2>7, <3>1, <3>3
        <4> QED
          BY <1>5, <3>3, <4>2, <4>3
      <3> QED
        BY <1>1, <1>3, <1>5, <2>3, <3>1, <3>2, <3>3
    <2>8. acked[r] # 0 /\ dedup =>
            /\ acked[r] = cache[0][r]
            /\ \A s \in Server \ failed : cache'[s][r] = acked[r] \/ <<r, s>> \in late'
      BY <1>0, <1>1, <2>3 DEF OneHandler
    <2>9. dedup => /\ \A s \in Server : cache'[s][r] \in {0, cache[0][r]}
                   /\ \A k \in repl' : k.req = r => k.val = cache[0][r]
      BY <1>0, <2>1, <2>3, <2>5 DEF OneHandler
    <2>10. \A h \in handlers : h.req = r =>
             /\ \A g \in handlers : g.req = r => g = h
             /\ dedup => h.val = cache[0][r]
      BY <1>0, <2>6 DEF OneHandler
    <2> QED
      BY <1>1, <2>4, <2>6, <2>7, <2>8, <2>9, <2>10 DEF OneHandler
  <1> QED
    BY <1>4, <1>5

LEMMA OneHandlerLife ==
  ASSUME OneHandlerHyp, [Next]_vars, FirstLeaderStands', NEW r \in Request \ Retried,
         NEW s \in Server, LifeStep(s)
  PROVE  OneHandler(r)'
  <1>0. FirstLeaderStands /\ 0 \in Server /\ 0 \notin failed' /\ TypeInv /\ OneLeader /\ OneHandler(r)
    BY Standing DEF OneHandlerHyp, OneHandlerUnlessRetried
  <1>1. UNCHANGED <<dedup, handlers, late, acked>> /\ failed \subseteq failed' /\ repl' \subseteq repl
    BY <1>0, LifeFrame, FailedGrows DEF clientVars
  <1>2. /\ s \in failed' \/ UNCHANGED <<cache, repl>>
        /\ \A m \in repl \ repl' : m.to = s
        /\ \A t \in Server \ {s} : cache'[t][r] = cache[t][r]
        /\ s # 0 \/ UNCHANGED cache
    BY <1>0, LifeFrame
  <1>3. \/ cache'[s][r] = cache[s][r]
        \/ cache'[s][r] = 0
        \/ dedup /\ \E p \in Server : cache'[s][r] = cache[p][r]
    BY <1>0, LifeFrame
  <1>4. /\ cache'[0][r] = cache[0][r]
        /\ \A t \in Server \ failed' : cache'[t][r] = cache[t][r]
        /\ \A m \in repl : m.to \notin failed' => m \in repl'
    BY <1>0, <1>2
  <1>5. dedup => \A t \in Server : cache'[t][r] \in {0, cache[0][r]}
    BY <1>0, <1>2, <1>3 DEF OneHandler
  <1>6. (\A t \in Server : cache[t][r] = 0) => (\A t \in Server : cache'[t][r] = 0)
    BY <1>2, <1>3
  <1>7. ASSUME NEW h \in handlers, h.req = r, h.pc = "wait", dedup, NEW t \in Server \ failed'
        PROVE  \/ cache'[t][r] = h.val
               \/ <<r, t>> \in late
               \/ \E m \in repl' : m.req = r /\ m.try = h.try /\ m.to = t /\ m.awaited
    BY <1>0, <1>1, <1>4, <1>7 DEF OneHandler
  <1>8. ASSUME NEW h \in handlers, h.req = r
        PROVE  /\ \A g \in handlers : g.req = r => g = h
               /\ acked[r] = 0
               /\ h.pc # "wait" =>
                    (\A m \in repl' : m.req # r) /\ (\A t \in Server : cache'[t][r] = 0)
               /\ h.pc = "wait" /\ dedup => h.val = cache'[0][r]
    BY <1>0, <1>1, <1>4, <1>6, <1>8 DEF OneHandler
  <1>9. dedup =>
          /\ \A m \in repl' : m.req = r => m.val = cache[0][r]
          /\ acked[r] # 0 =>
               /\ acked[r] = cache[0][r]
               /\ \A t \in Server \ failed' : cache'[t][r] = acked[r] \/ <<r, t>> \in late
    BY <1>0, <1>1, <1>4 DEF OneHandler
  <1> QED
    BY <1>1, <1>4, <1>5, <1>7, <1>8, <1>9 DEF OneHandler

LEMMA HandlerPresentStep ==
  ASSUME TypeInv, OneLeader, HandlerPresent, [Next]_vars, FirstLeaderStands'
  PROVE  HandlerPresent'
  <1> SUFFICES ASSUME NEW w \in Worker, done'[w] < Rounds, tries'[w] > 0, Current(w)' \notin Retried'
               PROVE  \E h \in handlers' : h.req = Current(w)'
    BY DEF HandlerPresent
  <1>0. FirstLeaderStands /\ 0 \notin failed' /\ \A h \in handlers : h \in Handler
    BY Standing
  <1>r. Retried \subseteq Retried'
    BY RetriedGrows
  <1>t. TypeOK
    BY DEF TypeInv
  <1>k. ASSUME done'[w] = done[w], tries'[w] = tries[w],
               \A h \in handlers : h.req = Current(w) => \E g \in handlers' : g.req = h.req
        PROVE  \E h \in handlers' : h.req = Current(w)'
    BY <1>k, <1>r DEF HandlerPresent, Current
  <1>1. ASSUME NEW u \in Worker, GiveUp(u) PROVE \E h \in handlers' : h.req = Current(w)'
    <2>1. done[u] < Rounds /\ NextRequest(u) /\ UNCHANGED handlers
      BY <1>1 DEF GiveUp
    <2>2. u # w
      BY <2>1, NextRequestFrame
    <2> QED
      BY <1>k, <2>1, <2>2, NextRequestFrame
  <1>2. ASSUME NEW u \in Worker, Cancel(u) PROVE \E h \in handlers' : h.req = Current(w)'
    BY <1>2, <1>k DEF Cancel
  <1>3. ASSUME NEW u \in Worker, NEW s \in Server, Begin(u, s)
        PROVE  \E h \in handlers' : h.req = Current(w)'
    <2>1. UNCHANGED done /\ \A v \in Worker \ {u} : tries'[v] = tries[v]
      BY <1>3, <1>t, BeginFrame DEF TypeOK
    <2>2. PICK g \in Handler : handlers' = handlers \cup {g} /\ g.req = Current(u)
      BY <1>3, BeginHandlers
    <2>3. Current(w)' = Current(w)
      BY <2>1 DEF Current
    <2> QED
      BY <1>k, <2>1, <2>2, <2>3
  <1>4. ASSUME NEW h \in handlers, HandlerStep(h) PROVE \E g \in handlers' : g.req = Current(w)'
    <2>0. /\ h \in Handler /\ h.req \in Request /\ h.val \in Nat /\ counters[h.at] + 1 \in Nat
          /\ cache[h.at][h.req] \in Nat
      BY <1>t, HandlerFields DEF TypeOK
    <2>1. ASSUME NEW val \in Nat, Answer(h, val)
          PROVE  \E g \in handlers' : g.req = Current(w)'
      <3>1. handlers' = handlers \ {h}
        BY <2>1 DEF Answer
      <3>2. CASE Awaited(h)
        <4>1. /\ h.req[1] \in Worker /\ done[h.req[1]] < Rounds /\ NextRequest(h.req[1])
              /\ Current(h.req[1]) = h.req
          BY <2>1, <3>2, AwaitedCurrent DEF Answer
        <4>2. h.req[1] # w
          BY <4>1, NextRequestFrame
        <4>3. h.req # Current(w)
          BY <4>2 DEF Current
        <4> QED
          BY <1>k, <3>1, <4>1, <4>2, <4>3, NextRequestFrame
      <3>3. CASE ~Awaited(h)
        <4>1. UNCHANGED <<done, tries>>
          BY <2>1, <3>3 DEF Answer
        <4>2. Current(w) \notin Retried
          BY <1>r, <4>1 DEF Current
        <4>3. h.req # Current(w)
          <5> SUFFICES ASSUME h.req = Current(w) PROVE FALSE
            OBVIOUS
          <5>1. h.req[1] = w
            BY DEF Current
          <5> QED
            BY <3>3, <4>2, <5>1, UnretriedAwaited
        <4> QED
          BY <1>k, <3>1, <4>1, <4>3
      <3> QED
        BY <3>2, <3>3
    <2>2. CASE CacheHit(h)
      BY <2>0, <2>1, <2>2 DEF CacheHit
    <2>3. CASE Reply(h)
      BY <2>0, <2>1, <2>3 DEF Reply
    <2>4. ASSUME NEW pc \in {"lookup", "apply", "store", "wait"}, NEW val \in Nat,
                 Goto(h, pc, val), UNCHANGED clientVars
          PROVE  \E g \in handlers' : g.req = Current(w)'
      <3>1. UNCHANGED <<done, tries>>
        BY <2>4 DEF clientVars
      <3>2. PICK g \in Handler : handlers' = (handlers \ {h}) \cup {g} /\ g.req = h.req
        BY <2>0, <2>4, GotoFrame
      <3> QED
        BY <1>k, <3>1, <3>2
    <2>5. CASE CacheMiss(h) \/ Apply(h) \/ StoreAndSend(h)
      BY <2>0, <2>4, <2>5 DEF CacheMiss, Apply, StoreAndSend
    <2> QED
      BY <1>4, <2>2, <2>3, <2>5 DEF HandlerStep
  <1>5. ASSUME NEW m \in repl, ReplicateStep(m) \/ TimeOutReplicate(m)
        PROVE  UNCHANGED <<handlers, done, tries>>
    BY <1>5 DEF ReplicateStep, ReplicateCounter, ReplicateCache, FailReplicate,
                TimeOutReplicate, clientVars
  <1>6. ASSUME NEW s \in Server, LifeStep(s) PROVE UNCHANGED <<handlers, done, tries>>
    BY <1>0, <1>6, LifeFrame DEF clientVars
  <1>7. CASE UNCHANGED vars
    BY <1>7, <1>k DEF vars, clientVars
  <1> QED
    BY <1>k, <1>1, <1>2, <1>3, <1>4, <1>5, <1>6, <1>7 DEF Next

LEMMA OneHandlerInit == Init => OneHandlerUnlessRetried
  <1> SUFFICES ASSUME Init PROVE OneHandlerUnlessRetried
    OBVIOUS
  <1>1. \A r \in Request : OneHandler(r)
    BY FirstLeader DEF Init, OneHandler
  <1>2. \A w \in Worker : ~(tries[w] > 0)
    BY DEF Init
  <1> QED
    BY <1>1, <1>2 DEF OneHandlerUnlessRetried, HandlerPresent

LEMMA OneHandlerStep ==
  ASSUME OneHandlerHyp, [Next]_vars
  PROVE  OneHandlerUnlessRetried'
  <1> SUFFICES ASSUME FirstLeaderStands'
               PROVE  (\A r \in Request \ Retried' : OneHandler(r)') /\ HandlerPresent'
    BY DEF OneHandlerUnlessRetried
  <1>0. FirstLeaderStands /\ 0 \in Server /\ TypeInv /\ OneLeader /\ HandlerPresent
    BY Standing DEF OneHandlerHyp, OneHandlerUnlessRetried
  <1>1. HandlerPresent'
    BY <1>0, HandlerPresentStep
  <1>2. ASSUME NEW r \in Request \ Retried' PROVE OneHandler(r)'
    <2>1. r \in Request \ Retried
      BY RetriedGrows
    <2>2. OneHandler(r)
      BY <1>0, <2>1 DEF OneHandlerHyp, OneHandlerUnlessRetried
    <2>3. ASSUME NEW w \in Worker, GiveUp(w) \/ Cancel(w) PROVE OneHandler(r)'
      <3>1. UNCHANGED <<dedup, failed, late, acked, cache, handlers, repl>>
        BY <1>0, <2>3, WorkerFrame DEF serverVars, stateVars
      <3> QED
        BY <1>0, <2>2, <3>1, OneHandlerUntouched
    <2>4. CASE UNCHANGED vars
      <3>1. UNCHANGED <<dedup, failed, late, acked, cache, handlers, repl>>
        BY <2>4 DEF vars, serverVars, stateVars, clientVars
      <3> QED
        BY <1>0, <2>2, <3>1, OneHandlerUntouched
    <2> QED
      BY <2>1, <2>3, <2>4, OneHandlerBegin, OneHandlerHandler, OneHandlerReplicate, OneHandlerLife
         DEF Next
  <1> QED
    BY <1>1, <1>2

-----------------------------------------------------------------------------
(* No value without an attempt                                             *)

LEMMA IssuedInit == Init => IssuedBeforeApplied
  <1> SUFFICES ASSUME Init PROVE IssuedBeforeApplied
    OBVIOUS
  <1>1. handlers = {} /\ NotApplied = {} /\ counters[0] = 0 /\ issued = 0
    BY FirstLeader DEF Init, NotApplied
  <1> QED
    BY <1>1, FS_EmptySet DEF IssuedBeforeApplied

\* Another element makes a finite set larger by one at most.
LEMMA AddOne ==
  ASSUME NEW S, IsFiniteSet(S), NEW x
  PROVE  /\ IsFiniteSet(S \cup {x})
         /\ Cardinality(S \cup {x}) \in Nat
         /\ Cardinality(S \cup {x}) <= Cardinality(S) + 1
  <1>1. Cardinality(S) \in Nat
    BY FS_CardinalityType
  <1>2. IsFiniteSet(S \cup {x})
    BY FS_AddElement
  <1>3. Cardinality(S \cup {x}) = IF x \in S THEN Cardinality(S) ELSE Cardinality(S) + 1
    BY FS_AddElement
  <1> QED
    BY <1>1, <1>2, <1>3

\* The handlers stay finitely many, and each step that could break the bound is
\* one that adds an attempt (Begin) or turns one into a value (Apply).
LEMMA IssuedStep ==
  ASSUME TypeInv, OneLeader, IssuedBeforeApplied, [Next]_vars
  PROVE  IssuedBeforeApplied'
  <1>t. TypeOK
    BY DEF TypeInv
  <1>f. IsFiniteSet(handlers) /\ IsFiniteSet(NotApplied) /\ Cardinality(NotApplied) \in Nat
    <2>1. NotApplied \subseteq handlers
      BY DEF NotApplied
    <2> QED
      BY <2>1, FS_Subset, FS_CardinalityType DEF IssuedBeforeApplied
  <1>n. counters[0] \in Nat /\ issued \in Nat /\ 0 \in Server
    BY <1>t, FirstLeader DEF TypeOK
  <1> DEFINE Bound == FirstLeaderStands => counters[0] + Cardinality(NotApplied) <= issued
  <1>i. Bound
    BY DEF IssuedBeforeApplied
  <1>s. ASSUME handlers' \subseteq handlers, FirstLeaderStands' => FirstLeaderStands,
               FirstLeaderStands' => counters'[0] = counters[0], issued' = issued
        PROVE  IssuedBeforeApplied'
    <2>1. NotApplied' \subseteq NotApplied
      BY <1>s DEF NotApplied
    <2>2. IsFiniteSet(handlers') /\ Cardinality(NotApplied') <= Cardinality(NotApplied)
          /\ Cardinality(NotApplied') \in Nat
      BY <1>f, <1>s, <2>1, FS_Subset, FS_CardinalityType
    <2>3. FirstLeaderStands' => counters'[0] + Cardinality(NotApplied') <= issued'
      BY <1>i, <1>f, <1>n, <1>s, <2>2
    <2> QED
      BY <2>2, <2>3 DEF IssuedBeforeApplied
  <1>b. FirstLeaderStands' => FirstLeaderStands
    BY StoodBefore
  <1>1. ASSUME NEW w \in Worker, GiveUp(w) \/ Cancel(w) PROVE IssuedBeforeApplied'
    BY <1>1, <1>b, <1>s, WorkerFrame DEF stateVars
  <1>2. ASSUME NEW w \in Worker, NEW s \in Server, Begin(w, s) PROVE IssuedBeforeApplied'
    <2>1. PICK g \in Handler : handlers' = handlers \cup {g} /\ g.pc = "lookup"
      BY <1>2, BeginHandlers
    <2>2. UNCHANGED counters /\ issued' = issued + 1
      BY <1>2, BeginFrame DEF stateVars
    <2>3. NotApplied' = NotApplied \cup {g}
      BY <2>1 DEF NotApplied
    <2>4. IsFiniteSet(handlers') /\ Cardinality(NotApplied') \in Nat
          /\ Cardinality(NotApplied') <= Cardinality(NotApplied) + 1
      <3>1. IsFiniteSet(handlers \cup {g})
        BY <1>f, AddOne
      <3>2. /\ Cardinality(NotApplied \cup {g}) \in Nat
            /\ Cardinality(NotApplied \cup {g}) <= Cardinality(NotApplied) + 1
        BY <1>f, AddOne
      <3> QED
        BY <2>1, <2>3, <3>1, <3>2
    <2>5. FirstLeaderStands' => counters'[0] + Cardinality(NotApplied') <= issued'
      BY <1>b, <1>f, <1>i, <1>n, <2>2, <2>4
    <2> QED
      BY <2>4, <2>5 DEF IssuedBeforeApplied
  <1>3. ASSUME NEW h \in handlers, HandlerStep(h) PROVE IssuedBeforeApplied'
    <2>0. h \in Handler /\ h.val \in Nat /\ h.at \in Server /\ counters[h.at] + 1 \in Nat
          /\ (FirstLeaderStands => h.at = 0)
      BY <1>t, HandlerFields DEF TypeOK, OneLeader
    <2>1. CASE CacheHit(h) \/ Reply(h)
      BY <1>b, <1>s, <2>1 DEF CacheHit, Reply, Answer, stateVars
    <2>2. ASSUME NEW pc \in {"lookup", "apply", "store", "wait"}, NEW val \in Nat, Goto(h, pc, val)
          PROVE  IsFiniteSet(handlers')
      <3>1. PICK g \in Handler : handlers' = (handlers \ {h}) \cup {g}
        BY <2>0, <2>2, GotoFrame
      <3>2. IsFiniteSet(handlers \ {h})
        BY <1>f, FS_RemoveElement
      <3>3. IsFiniteSet((handlers \ {h}) \cup {g})
        BY <3>2, AddOne
      <3> QED
        BY <3>1, <3>3
    <2>3. CASE CacheMiss(h)
      <3>1. PICK g \in Handler : handlers' = (handlers \ {h}) \cup {g} /\ g.pc = "apply"
        BY <2>0, <2>3, GotoFrame DEF CacheMiss
      <3>2. NotApplied' = (NotApplied \ {h}) \cup {g} /\ h \in NotApplied
        BY <2>3, <3>1 DEF CacheMiss, At, NotApplied
      <3>3. /\ IsFiniteSet(NotApplied \ {h})
            /\ Cardinality(NotApplied \ {h}) = Cardinality(NotApplied) - 1
            /\ Cardinality(NotApplied \ {h}) \in Nat
        BY <1>f, <3>2, FS_RemoveElement, FS_CardinalityType
      <3>4. Cardinality(NotApplied') <= Cardinality(NotApplied) /\ Cardinality(NotApplied') \in Nat
        <4> DEFINE rest == NotApplied \ {h}
        <4>1. /\ Cardinality(rest \cup {g}) \in Nat
              /\ Cardinality(rest \cup {g}) <= Cardinality(rest) + 1
          BY <3>3, AddOne
        <4> QED
          BY <1>f, <3>2, <3>3, <4>1
      <3>5. UNCHANGED <<counters, issued>>
        BY <2>3 DEF CacheMiss, stateVars, clientVars
      <3>6. FirstLeaderStands' => counters'[0] + Cardinality(NotApplied') <= issued'
        BY <1>b, <1>f, <1>i, <1>n, <3>4, <3>5
      <3> QED
        BY <2>2, <2>3, <3>6 DEF CacheMiss, IssuedBeforeApplied
    <2>4. CASE Apply(h)
      <3>1. PICK g \in Handler : handlers' = (handlers \ {h}) \cup {g} /\ g.pc = "store"
        BY <2>0, <2>4, GotoFrame DEF Apply
      <3>2. NotApplied' = NotApplied \ {h} /\ h \in NotApplied
        BY <2>4, <3>1 DEF Apply, At, NotApplied
      <3>3. Cardinality(NotApplied') = Cardinality(NotApplied) - 1
        BY <1>f, <3>2, FS_RemoveElement
      <3>4. UNCHANGED issued /\ (FirstLeaderStands => counters'[0] = counters[0] + 1)
        BY <1>n, <1>t, <2>0, <2>4 DEF Apply, TypeOK, clientVars
      <3>5. FirstLeaderStands' => counters'[0] + Cardinality(NotApplied') <= issued'
        BY <1>b, <1>f, <1>i, <1>n, <3>3, <3>4
      <3> QED
        BY <2>0, <2>2, <2>4, <3>5 DEF Apply, IssuedBeforeApplied
    <2>5. CASE StoreAndSend(h)
      <3>1. PICK g \in Handler : handlers' = (handlers \ {h}) \cup {g} /\ g.pc = "wait"
        BY <2>0, <2>5, GotoFrame DEF StoreAndSend
      <3>2. NotApplied' = NotApplied
        BY <2>5, <3>1 DEF StoreAndSend, At, NotApplied
      <3>3. UNCHANGED <<counters, issued>>
        BY <2>5 DEF StoreAndSend, clientVars
      <3>4. FirstLeaderStands' => counters'[0] + Cardinality(NotApplied') <= issued'
        BY <1>b, <1>i, <3>2, <3>3
      <3> QED
        BY <2>0, <2>2, <2>5, <3>4 DEF StoreAndSend, IssuedBeforeApplied
    <2> QED
      BY <1>3, <2>1, <2>3, <2>4, <2>5 DEF HandlerStep
  <1>4. ASSUME NEW m \in repl, ReplicateStep(m) \/ TimeOutReplicate(m) PROVE IssuedBeforeApplied'
    <2>1. UNCHANGED <<handlers, issued>>
      BY <1>4 DEF ReplicateStep, ReplicateCounter, ReplicateCache, FailReplicate,
                  TimeOutReplicate, clientVars
    <2>a. \A s \in Server \ {m.to} : counters'[s] = counters[s]
      BY <1>4, ReplicateFrame
    <2>2. FirstLeaderStands' => counters'[0] = counters[0]
      BY <1>b, <2>a, FirstLeader DEF OneLeader
    <2> QED
      BY <1>b, <1>s, <2>1, <2>2
  <1>5. ASSUME NEW s \in Server, LifeStep(s) PROVE IssuedBeforeApplied'
    <2>1. handlers' \subseteq handlers /\ UNCHANGED clientVars
      BY <1>5 DEF LifeStep, Crash, Stop, Exit, Elect, Restart, Join, TransferCounters, TransferCache
    <2>2. ASSUME FirstLeaderStands' PROVE counters'[0] = counters[0]
      BY <1>5, <1>b, <1>n, <2>2, LifeFrame, Standing
    <2> QED
      BY <1>b, <1>s, <2>1, <2>2 DEF clientVars
  <1>6. CASE UNCHANGED vars
    BY <1>6, <1>b, <1>s DEF vars, stateVars, clientVars
  <1> QED
    BY <1>1, <1>2, <1>3, <1>4, <1>5, <1>6 DEF Next

-----------------------------------------------------------------------------
(* What follows                                                            *)

LEMMA IInvInit == Init => IInv
  BY TypeInit, OneLeaderInit, NothingAheadInit, ValueFromApplyInit, ValuesOwnedInit,
     RequestsInOrderInit, OneHandlerInit, NoCacheIfOffInit, IssuedInit DEF IInv, TypeInv

LEMMA IInvStep == IInv /\ [Next]_vars => IInv'
  <1> SUFFICES ASSUME IInv, [Next]_vars PROVE IInv'
    OBVIOUS
  <1>1. TypeInv /\ OneHandlerHyp
    BY DEF IInv, TypeInv, OneHandlerHyp
  <1>2. TypeInv'
    BY <1>1, TypeStep
  <1>3. OneLeader' /\ NothingAhead' /\ ValueFromApply'
    BY <1>1, OneLeaderStep, NothingAheadStep, ValueFromApplyStep DEF IInv
  <1>4. ValuesOwned' /\ RequestsInOrder' /\ NoCacheIfOff'
    BY <1>1, ValuesOwnedStep, RequestsInOrderStep, NoCacheIfOffStep DEF IInv
  <1>5. OneHandlerUnlessRetried' /\ IssuedBeforeApplied'
    BY <1>1, OneHandlerStep, IssuedStep DEF IInv
  <1> QED
    BY <1>2, <1>3, <1>4, <1>5 DEF IInv, TypeInv

\* The inductive invariant holds, whoever fails.
THEOREM Invariance == Spec => []IInv
  BY IInvInit, IInvStep, PTL DEF Spec

\* No two requests are answered with the same value while the first leader
\* stands: Apply takes each value once, under the leader's lock, and the cache
\* hands it out again only for the request that has it.
THEOREM RepliesDistinct == Spec => [](FirstLeaderStands => DistinctReplies)
  <1>1. IInv => (FirstLeaderStands => DistinctReplies)
    <2> SUFFICES ASSUME IInv, FirstLeaderStands, NEW q \in Acked, NEW r \in Acked,
                        acked[q] = acked[r]
                 PROVE  q = r
      BY DEF DistinctReplies
    <2>1. q \in Request /\ r \in Request /\ acked[r] \in Nat \ {0}
      BY DEF IInv, TypeOK, Acked
    <2>2. Claims(q, acked[r]) /\ Claims(r, acked[r])
      BY DEF Claims
    <2> QED
      BY <2>1, <2>2 DEF IInv, ValuesOwned
  <1> QED
    BY <1>1, Invariance, PTL

\* Whatever the order in which Replicates arrive, and whatever a follower pulled
\* when it rejoined, its counter is not ahead of the first leader's.
THEOREM FollowersBehind == Spec => [](FirstLeaderStands => FollowerNeverAhead)
  <1>1. IInv => (FirstLeaderStands => FollowerNeverAhead)
    BY LeadsIsFirst DEF IInv, TypeInv, FollowerNeverAhead, NothingAhead
  <1> QED
    BY <1>1, Invariance, PTL

\* When IncrCounter answers, the cache entry is at every server that never
\* failed, save where a Replicate timed out: replicateToAll has waited for them.
THEOREM AnswersReplicated == Spec => [](FirstLeaderStands => AckedAtSurvivors)
  <1>1. IInv => (FirstLeaderStands => AckedAtSurvivors)
    <2> SUFFICES ASSUME IInv, FirstLeaderStands, dedup, NEW r \in Acked \ Retried,
                        NEW s \in Server \ failed, <<r, s>> \notin late
                 PROVE  cache[s][r] = acked[r]
      BY DEF AckedAtSurvivors
    <2>1. r \in Request \ Retried /\ acked[r] # 0
      BY DEF Acked
    <2>2. OneHandler(r)
      BY <2>1 DEF IInv, OneHandlerUnlessRetried
    <2> QED
      BY <2>1, <2>2 DEF OneHandler
  <1> QED
    BY <1>1, Invariance, PTL

\* A cache entry of a request that was not retried keeps its value as long as its
\* process lives: a late Replicate brings the value that is there, StoreAndSend
\* comes once, and a state transfer writes to a process that does not serve yet.
THEOREM EntriesStable == Spec /\ []FirstLeaderStands => CacheEntriesStable
  <1> DEFINE Stable == \A s \in Server, r \in Request \ Retried :
       cache[s][r] # 0 /\ Alive(s) /\ proc'[s] # "down" => cache'[s][r] = cache[s][r]
  <1>1. ASSUME IInv, FirstLeaderStands, FirstLeaderStands', [Next]_vars
        PROVE  [Stable]_vars
    <2> SUFFICES ASSUME NEW s \in Server, NEW r \in Request \ Retried,
                        cache[s][r] # 0, Alive(s), proc'[s] # "down", Next
                 PROVE  cache'[s][r] = cache[s][r]
      BY <1>1
    <2>0. TypeInv /\ OneLeader /\ TypeOK /\ OneHandler(r) /\ dedup
      BY <1>1 DEF IInv, TypeInv, OneHandlerUnlessRetried, NoCacheIfOff
    <2>1. /\ 0 \in Server /\ 0 \notin failed'
          /\ \A h \in handlers : h \in Handler /\ h.at = 0
          /\ \A m \in repl : m \in Message /\ m.to # 0
      BY <1>1, <2>0, Standing
    <2>2. ASSUME NEW w \in Worker, GiveUp(w) \/ Cancel(w) \/ \E t \in Server : Begin(w, t)
          PROVE  UNCHANGED cache
      BY <2>2 DEF GiveUp, Cancel, Begin, stateVars
    <2>3. ASSUME NEW h \in handlers, HandlerStep(h) PROVE cache'[s][r] = cache[s][r]
      <3>1. CASE StoreAndSend(h)
        <4>1. h.req # r /\ h.req \in Request /\ h.at = 0
          BY <2>0, <2>1, <3>1, HandlerFields DEF StoreAndSend, At, OneHandler
        <4>2. cache' = [cache EXCEPT ![0][h.req] = h.val]
          BY <2>0, <3>1, <4>1 DEF StoreAndSend, CacheSet
        <4> QED
          BY <2>0, <2>1, <4>1, <4>2 DEF TypeOK
      <3>2. CASE CacheHit(h) \/ CacheMiss(h) \/ Apply(h) \/ Reply(h)
        BY <3>2 DEF CacheHit, CacheMiss, Apply, Reply, stateVars
      <3> QED
        BY <2>3, <3>1, <3>2 DEF HandlerStep
    <2>4. ASSUME NEW m \in repl, ReplicateStep(m) \/ TimeOutReplicate(m)
          PROVE  cache'[s][r] = cache[s][r]
      <3>0. TypeInv
        BY <2>0
      <3>1. \A u \in Server, q \in Request :
              cache'[u][q] = IF ReplicateCache(m) /\ u = m.to /\ q = m.req THEN m.val ELSE cache[u][q]
        BY <2>4, <3>0, ReplicateFrame
      <3>2. r = m.req => m.val = cache[s][r]
        BY <2>0 DEF OneHandler
      <3> QED
        BY <3>1, <3>2
    <2>5. ASSUME NEW t \in Server, LifeStep(t) PROVE cache'[s][r] = cache[s][r]
      <3>1. CASE t # s
        <4>1. \A u \in Server \ {t} : cache'[u] = cache[u]
          BY <1>1, <2>0, <2>1, <2>5, LifeFrame
        <4> QED
          BY <3>1, <4>1
      <3>2. CASE t = s
        <4>1. ~Crash(s) /\ ~Exit(s) /\ ~TransferCache(s)
          BY <2>0 DEF Crash, Exit, TransferCache, Alive, TypeOK
        <4>2. UNCHANGED cache
          BY <2>5, <3>2, <4>1 DEF LifeStep, Stop, Elect, Restart, Join, TransferCounters, stateVars
        <4> QED
          BY <4>2
      <3> QED
        BY <3>1, <3>2
    <2> QED
      BY <2>2, <2>3, <2>4, <2>5 DEF Next
  <1> QED
    BY <1>1, Invariance, PTL DEF Spec, CacheEntriesStable
=============================================================================
