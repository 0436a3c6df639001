----------------------------- MODULE Replication -----------------------------
(***************************************************************************)
(* The replicated counter: IncrCounter and GetCounter (state.go), the      *)
(* reply cache (cache.go), synchronous replication and state transfer      *)
(* (replication.go), under workers that retry a request, with its id,      *)
(* until it is answered (cmd/loadgen, internal/client).  The handler of an  *)
(* attempt the worker no longer waits for goes on all the same: neither    *)
(* IncrCounter nor replicateToAll looks at the request's context.          *)
(*                                                                         *)
(* A step is one critical section of Server.mu or ReplyCache.mu, so the    *)
(* goroutines of a server interleave between them.  There is one counter:  *)
(* the code treats each counter name by itself.  Elections appear only as  *)
(* their outcome, Elect; module Election models how they come about.       *)
(***************************************************************************)
EXTENDS Naturals, FiniteSets, FiniteSetsExt

CONSTANTS
  N,           \* number of servers
  Worker,      \* goroutines that issue requests
  Rounds,      \* requests per worker, one after the other
  MaxTries,    \* bound: attempts at one request that reach a serving leader
  MaxCancels,  \* bound: attempts whose connection another call closes
  MaxLate,     \* bound: Replicate RPCs to a live follower that time out
  Deadlines,   \* TRUE: a call may come to its deadline
  DedupModes,  \* the values of the -dedup flag to look at
  Mortal,      \* servers that may fail, each at most once
  Restarts     \* TRUE: a failed server may be started again

ASSUME NAssumption == N \in Nat \ {0}
ASSUME BoundsAssumption ==
  Rounds \in Nat /\ MaxTries \in Nat /\ MaxCancels \in Nat /\ MaxLate \in Nat
ASSUME FlagsAssumption ==
  DedupModes \subseteq BOOLEAN /\ Deadlines \in BOOLEAN /\ Restarts \in BOOLEAN
ASSUME MortalAssumption == Mortal \subseteq 0 .. N - 1

Server == 0 .. N - 1
LeaderOf(v) == v % N

\* (clientID, requestID): every request of every worker has its own.
Request == Worker \X (1 .. Rounds)

VARIABLES
  dedup,     \* the -dedup flag, the same for all servers; it never changes
  proc,      \* "up", "draining" (GracefulStop), "down", "starting" (PullState has
             \* no answer yet) or "joining" (the answer is complete, on its way)
  view,      \* the view a server has committed; it decides the leader it knows
  counters,
  cache,     \* cache[s][r]: the NewValue in r's cached response; 0: no entry
  handlers,  \* goroutines in IncrCounter, past the leader check
  repl,      \* Replicate RPCs, from being sent to the handler's return
  pulled,    \* pulled[s]: the first half of the TransferState answer to s
  done,      \* done[w]: how many requests worker w is through with
  tries,     \* tries[w]: attempts at the current request
  acked,     \* acked[r]: the value r was answered with; 0: none
  gaveUp,    \* requests whose worker stopped waiting after an attempt
  cancelled, \* the attempts <<request, try>> whose connection was closed
  failed,    \* servers that have failed at some time
  late,      \* history: <<r, s>> if a Replicate of request r to s timed out
  floor,     \* history: floor[r], the largest answer before a pending r began
  issued     \* history: how many attempts reached a leader

serverVars == <<dedup, proc, view, pulled, failed>>
stateVars == <<counters, cache>>
clientVars == <<done, tries, acked, gaveUp, cancelled, floor, issued>>
vars == <<serverVars, stateVars, handlers, repl, late, clientVars>>

Handler == [req : Request, try : Nat, at : Server,
            pc : {"lookup", "apply", "store", "wait"}, val : Nat]
Message == [req : Request, try : Nat, from : Server, to : Server,
            pc : {"counter", "cache"}, val : Nat,
            awaited : BOOLEAN]  \* FALSE: timed out at the leader, not yet applied
NoPull == [peer |-> N, val |-> 0]

Up(s) == proc[s] = "up"
Leads(s) == Up(s) /\ LeaderOf(view[s]) = s

Init ==
  /\ dedup \in DedupModes
  /\ proc = [s \in Server |-> "up"]
  /\ view = [s \in Server |-> 0]
  /\ counters = [s \in Server |-> 0]
  /\ cache = [s \in Server |-> [r \in Request |-> 0]]
  /\ handlers = {} /\ repl = {}
  /\ pulled = [s \in Server |-> NoPull]
  /\ done = [w \in Worker |-> 0]
  /\ tries = [w \in Worker |-> 0]
  /\ acked = [r \in Request |-> 0]
  /\ gaveUp = {} /\ cancelled = {} /\ failed = {} /\ late = {}
  /\ floor = [r \in Request |-> 0]
  /\ issued = 0

-----------------------------------------------------------------------------
(* Workers.  How a worker finds the leader (redirects, dead peers) is the  *)
(* interceptor's business; here an attempt counts once a leader takes it.  *)

Current(w) == <<w, done[w] + 1>>
Awaited(h) == h.req = Current(h.req[1]) /\ <<h.req, h.try>> \notin cancelled
Waiting(w) == \E h \in handlers : h.req[1] = w /\ Awaited(h)
\* Mutant: the loop over a worker's requests has no end.
ReadyForever(w) == ~Waiting(w)

Ready(w) == done[w] < Rounds /\ ~Waiting(w)

\* A new request, or a retry of one whose attempt was lost, passes the leader
\* check of IncrCounter at s; any other server redirects it.
Begin(w, s) ==
  /\ Ready(w) /\ tries[w] < MaxTries
  /\ Leads(s)
  /\ tries' = [tries EXCEPT ![w] = @ + 1]
  /\ handlers' = handlers \cup
       {[req |-> Current(w), try |-> tries[w] + 1, at |-> s, pc |-> "lookup", val |-> 0]}
  /\ floor' = IF tries[w] > 0 THEN floor
              ELSE [floor EXCEPT ![Current(w)] = Max({acked[r] : r \in Request})]
  /\ issued' = issued + 1
  /\ UNCHANGED <<serverVars, stateVars, repl, late, done, acked, gaveUp, cancelled>>

NextRequest(w) ==
  /\ done' = [done EXCEPT ![w] = @ + 1]
  /\ tries' = [tries EXCEPT ![w] = 0]
  /\ floor' = [floor EXCEPT ![Current(w)] = 0]

\* The call's deadline: the worker counts a failure and goes on to its next
\* request, while the handler, if there is one, goes on as well.
GiveUp(w) ==
  /\ Deadlines /\ done[w] < Rounds
  /\ gaveUp' = gaveUp \cup (IF tries[w] > 0 THEN {Current(w)} ELSE {})
  /\ NextRequest(w)
  /\ UNCHANGED <<serverVars, stateVars, handlers, repl, late, acked, cancelled, issued>>

\* Another call's rebind closes the connection: w sleeps and tries again, while
\* the handler goes on.
Cancel(w) ==
  /\ Waiting(w) /\ Cardinality(cancelled) < MaxCancels /\ tries[w] < MaxTries
  /\ cancelled' = cancelled \cup {<<Current(w), tries[w]>>}
  /\ UNCHANGED <<serverVars, stateVars, handlers, repl, late, done, tries, acked, gaveUp,
                 floor, issued>>

-----------------------------------------------------------------------------
(* IncrCounter at the leader                                               *)

Alive(s) == proc[s] \in {"up", "draining"}
At(h, pc) == Alive(h.at) /\ h.pc = pc
Goto(h, pc, val) == handlers' = (handlers \ {h}) \cup {[h EXCEPT !.pc = pc, !.val = val]}

\* The handler returns; its answer counts if the worker still waits for it.
Answer(h, val) ==
  /\ handlers' = handlers \ {h}
  /\ IF Awaited(h)
     THEN acked' = [acked EXCEPT ![h.req] = val] /\ NextRequest(h.req[1])
     ELSE UNCHANGED <<acked, done, tries, floor>>
  /\ UNCHANGED <<gaveUp, cancelled, issued>>

\* cache.get finds the request: the cached response is the answer.
CacheHit(h) ==
  /\ At(h, "lookup") /\ dedup /\ cache[h.at][h.req] # 0
  /\ Answer(h, cache[h.at][h.req])
  /\ UNCHANGED <<serverVars, stateVars, repl, late>>

\* Mutant: the request is executed without a look at the cache.
MissAlways(h) ==
  /\ At(h, "lookup")
  /\ Goto(h, "apply", 0)
  /\ UNCHANGED <<serverVars, stateVars, repl, late, clientVars>>

CacheMiss(h) ==
  /\ At(h, "lookup") /\ (dedup => cache[h.at][h.req] = 0)
  /\ Goto(h, "apply", 0)
  /\ UNCHANGED <<serverVars, stateVars, repl, late, clientVars>>

Apply(h) ==
  /\ At(h, "apply")
  /\ counters' = [counters EXCEPT ![h.at] = @ + 1]
  /\ Goto(h, "store", counters[h.at] + 1)
  /\ UNCHANGED <<serverVars, cache, repl, late, clientVars>>

\* Mutant: the cache is keyed by the request id alone.
CacheSetById(s, r, val) ==
  cache' = [cache EXCEPT ![s] = [q \in Request |-> IF q[2] = r[2] THEN val ELSE @[q]]]

\* ReplyCache.set
CacheSet(s, r, val) == cache' = [cache EXCEPT ![s][r] = val]

\* replicateToAll: one goroutine and one RPC per peer, carrying the value the
\* counter had after this increment.
SendAll(h) ==
  repl' = repl \cup
    {[req |-> h.req, try |-> h.try, from |-> h.at, to |-> p, pc |-> "counter", val |-> h.val,
      awaited |-> TRUE] :
       p \in Server \ {h.at}}

\* cache.set, then replicateToAll up to wg.Wait.
StoreAndSend(h) ==
  /\ At(h, "store")
  /\ IF dedup THEN CacheSet(h.at, h.req, h.val) ELSE UNCHANGED cache
  /\ SendAll(h)
  /\ Goto(h, "wait", h.val)
  /\ UNCHANGED <<serverVars, counters, late, clientVars>>

\* Mutant: the answer does not wait for the followers.
ReplyEarly(h) ==
  /\ At(h, "wait")
  /\ Answer(h, h.val)
  /\ UNCHANGED <<serverVars, stateVars, repl, late>>

\* wg.Wait has returned: each RPC of the handler was acked, failed or timed out.
Replicated(h) == ~\E m \in repl : m.req = h.req /\ m.try = h.try /\ m.awaited

\* Mutant: the answer is read from the counter after the lock was released.
ReplyRereads(h) ==
  /\ At(h, "wait")
  /\ Replicated(h)
  /\ Answer(h, counters[h.at])
  /\ UNCHANGED <<serverVars, stateVars, repl, late>>

Reply(h) ==
  /\ At(h, "wait")
  /\ Replicated(h)
  /\ Answer(h, h.val)
  /\ UNCHANGED <<serverVars, stateVars, repl, late>>

HandlerStep(h) == CacheHit(h) \/ CacheMiss(h) \/ Apply(h) \/ StoreAndSend(h) \/ Reply(h)

\* What a client reads at s: GetCounter, under the same leader check.
GetCounter(s) == counters[s]

-----------------------------------------------------------------------------
(* Replicate at a follower: the counter and the cache entry are written in *)
(* two critical sections, and nothing orders one RPC with another.         *)

\* Mutant: the follower increments instead of taking the leader's value.
ReplicateDelta(m) ==
  /\ Up(m.to) /\ m.pc = "counter"
  /\ counters' = [counters EXCEPT ![m.to] = @ + 1]
  /\ repl' = (repl \ {m}) \cup (IF dedup THEN {[m EXCEPT !.pc = "cache"]} ELSE {})
  /\ UNCHANGED <<serverVars, cache, handlers, late, clientVars>>

ReplicateCounter(m) ==
  /\ Up(m.to) /\ m.pc = "counter"
  /\ counters' = [counters EXCEPT ![m.to] = m.val]
  /\ repl' = (repl \ {m}) \cup (IF dedup THEN {[m EXCEPT !.pc = "cache"]} ELSE {})
  /\ UNCHANGED <<serverVars, cache, handlers, late, clientVars>>

\* Mutant: the follower acks without recording the answer.
ReplicateNoCache(m) ==
  /\ Alive(m.to) /\ m.pc = "cache"
  /\ repl' = repl \ {m}
  /\ UNCHANGED <<serverVars, stateVars, handlers, late, clientVars>>

ReplicateCache(m) ==
  /\ Alive(m.to) /\ m.pc = "cache"
  /\ CacheSet(m.to, m.req, m.val)
  /\ repl' = repl \ {m}
  /\ UNCHANGED <<serverVars, counters, handlers, late, clientVars>>

\* Mutant: an RPC to a follower that is not serving never ends.
FailIfSenderDied(m) ==
  /\ m.pc = "counter"
  /\ proc[m.from] = "down"
  /\ repl' = repl \ {m}
  /\ UNCHANGED <<serverVars, stateVars, handlers, late, clientVars>>

\* The follower is not serving, or the sender died or timed out before its RPC
\* got through: the error is logged and nothing else comes of it.
FailReplicate(m) ==
  /\ m.pc = "counter"
  /\ ~Up(m.to) \/ proc[m.from] = "down" \/ ~m.awaited
  /\ repl' = repl \ {m}
  /\ UNCHANGED <<serverVars, stateVars, handlers, late, clientVars>>

\* 500ms are over: the leader stops waiting, the follower may still come to
\* apply the message, after newer ones.
TimeOutReplicate(m) ==
  /\ m.awaited /\ Alive(m.from) /\ Cardinality(late) < MaxLate
  /\ repl' = (repl \ {m}) \cup {[m EXCEPT !.awaited = FALSE]}
  /\ late' = late \cup {<<m.req, m.to>>}
  /\ UNCHANGED <<serverVars, stateVars, handlers, clientVars>>

ReplicateStep(m) == ReplicateCounter(m) \/ ReplicateCache(m) \/ FailReplicate(m)

-----------------------------------------------------------------------------
(* Failure, election and rejoining.  The README assumes that servers fail  *)
(* one at a time.                                                          *)

MayFail(s) == s \in Mortal \ failed /\ Up(s) /\ \A t \in Server \ {s} : Up(t)

\* SIGKILL: memory and goroutines are lost, RPCs already sent are not.
Crash(s) ==
  /\ MayFail(s)
  /\ proc' = [proc EXCEPT ![s] = "down"]
  /\ failed' = failed \cup {s}
  /\ view' = [view EXCEPT ![s] = 0]
  /\ counters' = [counters EXCEPT ![s] = 0]
  /\ cache' = [cache EXCEPT ![s] = [r \in Request |-> 0]]
  /\ handlers' = {h \in handlers : h.at # s}
  /\ repl' = {m \in repl : m.to # s}
  /\ UNCHANGED <<dedup, pulled, late, clientVars>>

\* SIGTERM: GracefulStop takes no new RPC and lets the handlers finish.
Stop(s) ==
  /\ MayFail(s)
  /\ proc' = [proc EXCEPT ![s] = "draining"]
  /\ failed' = failed \cup {s}
  /\ UNCHANGED <<dedup, view, pulled, stateVars, handlers, repl, late, clientVars>>

Exit(s) ==
  /\ proc[s] = "draining"
  /\ ~\E h \in handlers : h.at = s
  /\ ~\E m \in repl : m.to = s /\ m.pc = "cache"
  /\ proc' = [proc EXCEPT ![s] = "down"]
  /\ view' = [view EXCEPT ![s] = 0]
  /\ counters' = [counters EXCEPT ![s] = 0]
  /\ cache' = [cache EXCEPT ![s] = [r \in Request |-> 0]]
  /\ UNCHANGED <<dedup, pulled, failed, handlers, repl, late, clientVars>>

\* What a leader that stops answering was replicating has been applied or lost.
Settled ==
  /\ ~\E m \in repl : ~Up(m.from)
  /\ ~\E h \in handlers : ~Up(h.at) /\ h.pc # "wait"

\* A server commits the next view once its leader stops answering.  Noticing
\* takes several heartbeats, by which time the old leader's RPCs are settled
\* (an assumption about timing, not enforced by the code).
Elect(s) ==
  /\ Up(s) /\ ~Up(LeaderOf(view[s])) /\ Settled
  /\ view' = [view EXCEPT ![s] = @ + 1]
  /\ UNCHANGED <<dedup, proc, pulled, failed, stateVars, handlers, repl, late, clientVars>>

\* The servers that are up follow one leader, and it is up.
Agreed == \E l \in Server : Up(l) /\ \A t \in Server : Up(t) => LeaderOf(view[t]) = l

\* An operator starts the process again, after the election is over (module
\* Election has restarts in the middle of one).
Restart(s) ==
  /\ Restarts /\ proc[s] = "down" /\ Settled /\ Agreed
  /\ proc' = [proc EXCEPT ![s] = "starting"]
  /\ UNCHANGED <<dedup, view, pulled, failed, stateVars, handlers, repl, late, clientVars>>

\* TransferState at a peer copies the counters and later, in another critical
\* section, the cache; then it loads the view.  The peer may be any that is up:
\* PullState tries the next one when a peer does not answer, and finds none
\* only if all are down, which servers failing one at a time rules out.
TransferCounters(s, p) ==
  /\ proc[s] = "starting" /\ pulled[s] = NoPull /\ Up(p)
  /\ pulled' = [pulled EXCEPT ![s] = [peer |-> p, val |-> counters[p]]]
  /\ UNCHANGED <<dedup, proc, view, failed, stateVars, handlers, repl, late, clientVars>>

\* The response now holds everything.  It is kept where applyTransferResp will
\* put it, since nobody looks at this server's state before it serves.
TransferCache(s) ==
  /\ proc[s] = "starting" /\ pulled[s] # NoPull
  /\ LET p == pulled[s].peer IN
       /\ cache' = [cache EXCEPT ![s] = IF dedup THEN cache[p] ELSE @]
       /\ view' = [view EXCEPT ![s] = view[p]]
  /\ counters' = [counters EXCEPT ![s] = pulled[s].val]
  /\ pulled' = [pulled EXCEPT ![s] = NoPull]
  /\ proc' = [proc EXCEPT ![s] = "joining"]
  /\ UNCHANGED <<dedup, failed, handlers, repl, late, clientVars>>

\* The response has arrived and is applied, and the server serves.  What the
\* leader wrote meanwhile went to this server in RPCs that failed or that wait
\* for it to serve.
Join(s) ==
  /\ proc[s] = "joining"
  /\ proc' = [proc EXCEPT ![s] = "up"]
  /\ UNCHANGED <<dedup, view, pulled, failed, stateVars, handlers, repl, late, clientVars>>

LifeStep(s) ==
  \/ Crash(s) \/ Stop(s) \/ Exit(s) \/ Elect(s) \/ Restart(s)
  \/ \E p \in Server : TransferCounters(s, p)
  \/ TransferCache(s) \/ Join(s)

-----------------------------------------------------------------------------
Next ==
  \/ \E w \in Worker : GiveUp(w) \/ Cancel(w) \/ \E s \in Server : Begin(w, s)
  \/ \E h \in handlers : HandlerStep(h)
  \/ \E m \in repl : ReplicateStep(m) \/ TimeOutReplicate(m)
  \/ \E s \in Server : LifeStep(s)

Spec == Init /\ [][Next]_vars

\* Goroutines and RPCs run to their end, and a worker tries again.  Nobody is
\* obliged to fail, to restart or to give up, and no election to produce a
\* leader (module Election shows that one may not).
Fairness ==
  /\ \A w \in Worker : WF_vars(\E s \in Server : Begin(w, s))
  /\ WF_vars(\E h \in handlers : HandlerStep(h))
  /\ WF_vars(\E m \in repl : ReplicateStep(m))

FairSpec == Spec /\ Fairness

-----------------------------------------------------------------------------
(* What the replicated counter guarantees                                  *)

\* Every variable stays in its type.
TypeOK ==
  /\ dedup \in DedupModes
  /\ proc \in [Server -> {"up", "draining", "down", "starting", "joining"}]
  /\ view \in [Server -> Nat]
  /\ counters \in [Server -> Nat]
  /\ cache \in [Server -> [Request -> Nat]]
  /\ handlers \subseteq Handler
  /\ repl \subseteq Message
  /\ pulled \in [Server -> [peer : 0 .. N, val : Nat]]
  /\ done \in [Worker -> 0 .. Rounds]
  /\ tries \in [Worker -> Nat]
  /\ acked \in [Request -> Nat]
  /\ gaveUp \subseteq Request
  /\ cancelled \subseteq Request \X Nat
  /\ failed \subseteq Server
  /\ late \subseteq Request \X Server
  /\ floor \in [Request -> Nat]
  /\ issued \in Nat

Acked == {r \in Request : acked[r] # 0}
Attempted == Acked \cup gaveUp \cup {Current(w) : w \in {v \in Worker : tries[v] > 0}}

\* Exactly once: whoever leads has counted every answered request and has
\* counted no request twice, retries on a new leader included (IncrCounter's
\* use of the reply cache).
ExactlyOnce ==
  \A s \in Server : Leads(s) =>
    /\ Cardinality(Acked) <= counters[s]
    /\ dedup => counters[s] <= Cardinality(Attempted)

\* A client that was answered v reads at least v, before and after a failover
\* (IncrCounter answers only after replicateToAll).
ReadsCoverAcked ==
  \A s \in Server : Leads(s) => \A r \in Request : GetCounter(s) >= acked[r]

\* No two requests are answered with the same value.
DistinctReplies == \A q, r \in Acked : acked[q] = acked[r] => q = r

\* No follower is ever ahead of a leader that has not failed, in whatever order
\* its Replicate RPCs arrive and whatever the follower pulled when it rejoined.
FollowerNeverAhead ==
  \A s, t \in Server : Leads(s) /\ s \notin failed /\ Alive(t) => counters[t] <= counters[s]

\* Two servers never remember different answers to the same request.
CacheAgrees ==
  \A s, t \in Server, r \in Request :
    cache[s][r] # 0 /\ cache[t][r] # 0 => cache[s][r] = cache[t][r]

Retried == {c[1] : c \in cancelled}

\* W=N: an answered request is in the cache of every server that never failed,
\* with the answer that was given, unless a Replicate timed out there or the
\* request was retried while its first handler was running.
AckedAtSurvivors ==
  dedup => \A r \in Acked \ Retried, s \in Server \ failed :
             <<r, s>> \notin late => cache[s][r] = acked[r]

\* A remembered answer is never changed or dropped while the process lives, late
\* Replicates included; a request retried under a running handler is excepted.
CacheEntriesStable ==
  [][\A s \in Server, r \in Request \ Retried :
       cache[s][r] # 0 /\ Alive(s) /\ proc'[s] # "down" => cache'[s][r] = cache[s][r]]_vars

\* Once some server leads for good, every request is answered, although servers
\* fail on the way: neither a dead follower nor what a dead leader left behind
\* holds up a worker for ever (replicateToAll goes on after a failed RPC).
AllAnswered == <>[](\E s \in Server : Leads(s)) => <>(Acked = Request)

-----------------------------------------------------------------------------
(* Module CounterService says what clients may see.                        *)

Pending == {Current(w) : w \in {v \in Worker : done[v] < Rounds /\ tries[v] > 0}}

Service == INSTANCE CounterService WITH
  status <- [r \in Request |->
               IF r \in gaveUp THEN "abandoned"
               ELSE IF acked[r] # 0 THEN "answered"
               ELSE IF r \in Pending THEN "pending" ELSE "idle"],
  answer <- acked

\* The servers, their caches and the retries together behave like one counter:
\* answers are distinct, each is larger than every answer the request's worker
\* could have known of when it asked, and none is larger than the number of
\* attempts (IncrCounter, Replicate and the cache as clients see them).
ImplementsService == Service!Spec
=============================================================================
