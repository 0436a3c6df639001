------------------------- MODULE FailoverRefinement -------------------------
(***************************************************************************)
(* One client, and a failover: the servers implement CounterService across *)
(* the crash or stop of the first leader and the retries at the second,    *)
(* with and without the reply cache.                                       *)
(***************************************************************************)
EXTENDS FailoverProofs, ReplicationRefinement

\* The worker's handler has not changed the counter yet.
Fresh == \E h \in handlers : h.pc \in {"lookup", "apply"}

\* No server is ahead of the attempts.
CountsIssued ==
  /\ D + (IF tries[W] > 0 THEN 1 ELSE 0) <= issued
  /\ Exact /\ tries[W] = 0 => counters[1] = D
  /\ ~Exact => counters[1] + (IF Fresh THEN 1 ELSE 0) <= issued

\* A request counted again, for want of a cache, has a value beyond all answers.
RecountsLarger ==
  ~Exact => \A h \in handlers, r \in Request : h.pc \in {"store", "wait"} => acked[r] < h.val

\* A floor is an answer that was given.
FloorsAnswered ==
  \A r \in Request : floor[r] = 0 \/ \E q \in Request : floor[r] = acked[q]

GInv == CountsIssued /\ RecountsLarger /\ FloorsAnswered

-----------------------------------------------------------------------------
(* The invariant                                                           *)

LEMMA GInvInit == OneClient /\ Init => GInv
  <1> SUFFICES ASSUME OneClient, Init PROVE GInv
    OBVIOUS
  <1>0. 1 \in Server /\ W \in Worker
    BY ServersZeroOne
  <1>1. D = 0 /\ tries[W] = 0 /\ ~TookOver /\ counters[1] = 0
    BY <1>0 DEF Init, D, TookOver
  <1> QED
    BY <1>1 DEF Init, GInv, CountsIssued, RecountsLarger, FloorsAnswered, Exact

LEMMA GInvBegin ==
  ASSUME OneClient, IInv, FInv, GInv, NEW s \in Server, Begin(W, s)
  PROVE  GInv'
  <1>t. /\ TypeInv /\ TypeOK /\ W \in Worker /\ D \in Nat /\ tries[W] \in Nat /\ issued \in Nat
        /\ 1 \in Server /\ counters[1] \in Nat /\ tries[W] + 1 > 0 /\ issued + 1 \in Nat
    BY Basics, ServersZeroOne DEF FInv, TypeOK
  <1>1. /\ UNCHANGED <<serverVars, stateVars, done, acked>> /\ ~Waiting(W) /\ C \in Request
        /\ tries'[W] = tries[W] + 1 /\ issued' = issued + 1
    BY <1>t, BeginFrame DEF C, TypeOK
  <1>2. handlers = {}
    BY <1>1, TheHandler DEF Waiting
  <1>3. PICK g \in Handler : handlers' = {g} /\ g.pc = "lookup"
    BY <1>t, <1>2, BeginHandlers
  <1>4. D' = D /\ Exact' = Exact /\ counters' = counters /\ Fresh' /\ ~Fresh
    BY <1>1, <1>2, <1>3 DEF D, Exact, TookOver, Fresh, serverVars, stateVars
  <1>5. CountsIssued'
    BY <1>1, <1>4, <1>t DEF GInv, CountsIssued
  <1>6. RecountsLarger'
    BY <1>3 DEF RecountsLarger
  <1>7. FloorsAnswered'
    <2>1. \A r \in Request : r # C => floor'[r] = floor[r]
      BY <1>t, BeginFloor DEF C
    <2>2. floor'[C] = floor[C] \/ \E q \in Request : floor'[C] = acked[q]
      <3>1. CASE tries[W] > 0
        BY <1>t, <3>1, BeginFloor
      <3>2. CASE tries[W] = 0
        BY <1>t, <3>2, BeginFloor DEF C
      <3> QED
        BY <1>t, <3>1, <3>2
    <2> QED
      BY <1>1, <2>1, <2>2 DEF GInv, FloorsAnswered
  <1> QED
    BY <1>5, <1>6, <1>7 DEF GInv

LEMMA GInvAnswer ==
  ASSUME OneClient, IInv, FInv, GInv, NEW h \in handlers, CacheHit(h) \/ Reply(h)
  PROVE  GInv'
  <1>t. /\ TypeInv /\ TypeOK /\ W \in Worker /\ D \in Nat /\ issued \in Nat /\ D + 1 \in Nat
        /\ 1 \in Server /\ counters[1] \in Nat
    BY Basics, ServersZeroOne DEF FInv, TypeOK
  <1>h. /\ handlers = {h} /\ h.req = C /\ h.req[1] = W /\ C \in Request /\ Awaited(h)
        /\ tries[W] > 0
    BY TheHandler
  <1>v. PICK v \in Nat :
          /\ Answer(h, v) /\ UNCHANGED <<serverVars, stateVars, repl, late>>
          /\ Exact => v = D + 1 /\ After1
    BY AnswerValue
  <1>1. /\ handlers' = {} /\ acked' = [acked EXCEPT ![C] = v] /\ done' = [done EXCEPT ![W] = D + 1]
        /\ tries' = [tries EXCEPT ![W] = 0] /\ floor' = [floor EXCEPT ![C] = 0] /\ issued' = issued
    BY <1>h, <1>v DEF Answer, NextRequest, D, C
  <1>2. D' = D + 1 /\ tries'[W] = 0
    BY <1>1, <1>t DEF TypeOK, D
  <1>3. Exact' = Exact /\ counters' = counters /\ ~Fresh'
    BY <1>1, <1>v DEF Exact, TookOver, Fresh, serverVars, stateVars
  <1>4. CountsIssued'
    <2>1. Exact => counters[1] = D + 1
      BY <1>v DEF After1
    <2>2. D + 1 <= issued /\ (~Exact => counters[1] <= issued)
      BY <1>h, <1>t DEF GInv, CountsIssued
    <2> QED
      BY <1>1, <1>2, <1>3, <1>t, <2>1, <2>2 DEF CountsIssued
  <1>5. RecountsLarger'
    BY <1>1 DEF RecountsLarger
  <1>6. FloorsAnswered'
    <2>1. acked[C] = 0
      <3>1. C[1] = W /\ C[2] = D + 1
        BY Basics DEF FInv
      <3> QED
        BY <1>h, <1>t, <3>1 DEF IInv, RequestsInOrder, D
    <2>2. \A r \in Request : /\ floor'[r] = IF r = C THEN 0 ELSE floor[r]
                             /\ acked'[r] = IF r = C THEN v ELSE acked[r]
      BY <1>1, <1>t DEF TypeOK
    <2>3. ASSUME NEW r \in Request, floor'[r] # 0 PROVE \E q \in Request : floor'[r] = acked'[q]
      <3>1. r # C /\ floor[r] # 0 /\ floor'[r] = floor[r]
        BY <2>2, <2>3
      <3>2. PICK q \in Request : floor[r] = acked[q]
        BY <3>1 DEF GInv, FloorsAnswered
      <3> QED
        BY <2>1, <2>2, <3>1, <3>2
    <2> QED
      BY <2>3 DEF FloorsAnswered
  <1> QED
    BY <1>4, <1>5, <1>6 DEF GInv

\* The steps the clients do not see.
LEMMA GInvHidden ==
  ASSUME OneClient, IInv, FInv, GInv, UNCHANGED <<done, tries, acked, floor, issued>>,
         Exact' /\ tries[W] = 0 => Exact /\ counters'[1] = counters[1],
         ~Exact' => counters'[1] + (IF Fresh' THEN 1 ELSE 0) <= issued,
         RecountsLarger'
  PROVE  GInv'
  <1>1. D' = D
    BY DEF D
  <1> QED
    BY <1>1 DEF GInv, CountsIssued, FloorsAnswered

LEMMA GInvHandler ==
  ASSUME OneClient, IInv, FInv, GInv, NEW h \in handlers, HandlerStep(h)
  PROVE  GInv'
  <1>t. /\ issued \in Nat /\ 1 \in Server /\ counters \in [Server -> Nat] /\ acked \in [Request -> Nat]
    BY Basics, ServersZeroOne DEF FInv, TypeOK
  <1>h. /\ handlers = {h} /\ h \in Handler /\ tries[W] > 0 /\ h.at \in {0, 1} /\ h.at \in Server
        /\ h.val \in Nat
    BY TheHandler
  <1>1. CASE CacheHit(h) \/ Reply(h)
    BY <1>1, GInvAnswer
  <1>2. CASE CacheMiss(h)
    <2>1. /\ UNCHANGED <<serverVars, stateVars, clientVars>> /\ Goto(h, "apply", 0) /\ h.pc = "lookup"
      BY <1>2 DEF CacheMiss, At
    <2>2. PICK g \in Handler : handlers' = {g} /\ g.pc = "apply"
      BY <1>h, <2>1, GotoFrame
    <2>3. Exact' = Exact /\ Fresh' /\ Fresh /\ counters' = counters
      BY <1>h, <2>1, <2>2 DEF Exact, TookOver, Fresh, serverVars, stateVars
    <2>4. RecountsLarger'
      BY <2>2 DEF RecountsLarger
    <2>5. ~Exact => counters[1] + 1 <= issued
      BY <2>3 DEF GInv, CountsIssued
    <2> QED
      BY <1>h, <2>1, <2>3, <2>4, <2>5, GInvHidden DEF clientVars
  <1>3. CASE Apply(h)
    <2>0. PICK v \in Nat : v = counters[h.at] + 1
      BY <1>h, <1>t
    <2>1. /\ UNCHANGED <<serverVars, clientVars>> /\ Goto(h, "store", v) /\ h.pc = "apply"
          /\ counters' = [counters EXCEPT ![h.at] = v]
      BY <1>3, <2>0 DEF Apply, At
    <2>2. PICK g \in Handler : handlers' = {g} /\ g.pc = "store" /\ g.val = v
      BY <1>h, <2>1, GotoFrame
    <2>3. Exact' = Exact /\ ~Fresh' /\ Fresh
      BY <1>h, <2>1, <2>2 DEF Exact, TookOver, Fresh, serverVars
    <2>4. ~Exact => h.at = 1
      BY <1>h, <2>1, TheHandler DEF Exact, Leader
    <2>5. ~Exact => counters'[1] = v /\ v = counters[1] + 1 /\ v <= issued
                    /\ \A r \in Request : acked[r] <= counters[1]
      BY <1>h, <1>t, <2>0, <2>1, <2>3, <2>4
         DEF GInv, CountsIssued, FInv, Sequential, InexactCovers
    <2>6. ~Exact => \A r \in Request : acked[r] < v
      BY <1>t, <2>5
    <2>7. RecountsLarger'
      BY <2>1, <2>2, <2>3, <2>6 DEF RecountsLarger, clientVars
    <2>8. ~Exact' => counters'[1] + (IF Fresh' THEN 1 ELSE 0) <= issued
      BY <2>3, <2>5
    <2> QED
      BY <1>h, <2>1, <2>7, <2>8, GInvHidden DEF clientVars
  <1>4. CASE StoreAndSend(h)
    <2>1. /\ UNCHANGED <<serverVars, counters, clientVars>> /\ Goto(h, "wait", h.val) /\ h.pc = "store"
      BY <1>4 DEF StoreAndSend, At
    <2>2. PICK g \in Handler : handlers' = {g} /\ g.pc = "wait" /\ g.val = h.val
      BY <1>h, <2>1, GotoFrame
    <2>3. Exact' = Exact /\ ~Fresh' /\ ~Fresh
      BY <1>h, <2>1, <2>2 DEF Exact, TookOver, Fresh, serverVars
    <2>4. RecountsLarger'
      BY <1>h, <2>1, <2>2, <2>3 DEF GInv, RecountsLarger, clientVars
    <2>5. ~Exact => counters[1] <= issued
      BY <1>t, <2>3 DEF GInv, CountsIssued
    <2>6. ~Exact' => counters'[1] + (IF Fresh' THEN 1 ELSE 0) <= issued
      BY <1>t, <2>1, <2>3, <2>5
    <2> QED
      BY <1>h, <2>1, <2>4, <2>6, GInvHidden DEF clientVars
  <1> QED
    BY <1>1, <1>2, <1>3, <1>4 DEF HandlerStep

LEMMA GInvReplicate ==
  ASSUME OneClient, IInv, FInv, GInv, NEW m \in repl, ReplicateStep(m)
  PROVE  GInv'
  <1>t. TypeInv /\ 1 \in Server
    BY Basics, ServersZeroOne DEF FInv
  <1>m. tries[W] > 0 /\ (m.to = 1 => ~TookOver)
    BY TheMessage DEF FInv, Sequential, OneAtATime
  <1>1. UNCHANGED <<serverVars, handlers, clientVars>>
        /\ (\A s \in Server \ {m.to} : counters'[s] = counters[s])
    BY <1>t, ReplicateFrame
  <1>2. Exact' = Exact /\ Fresh' = Fresh
    BY <1>1 DEF Exact, TookOver, Fresh, serverVars
  <1>3. RecountsLarger'
    BY <1>1, <1>2 DEF GInv, RecountsLarger, clientVars
  <1>4. ~Exact => counters'[1] = counters[1]
    BY <1>1, <1>m, <1>t DEF Exact
  <1>5. ~Exact' => counters'[1] + (IF Fresh' THEN 1 ELSE 0) <= issued
    BY <1>2, <1>4 DEF GInv, CountsIssued
  <1> QED
    BY <1>1, <1>3, <1>5, <1>m, GInvHidden DEF clientVars

LEMMA GInvLife ==
  ASSUME OneClient, IInv, FInv, GInv, NEW s \in Server, LifeStep(s)
  PROVE  GInv'
  <1>t. /\ TypeOK /\ issued \in Nat /\ 0 \in Server /\ 1 \in Server /\ counters[1] \in Nat
        /\ D \in Nat /\ proc[1] = "up" /\ LeaderOf(1) = 1 /\ LeaderOf(0) = 0
        /\ tries[W] \in Nat /\ 1 \notin Mortal
        /\ TookOver \/ view[1] = 0
    BY Basics, ServersZeroOne DEF FInv, TypeOK, OneClient
  <1>1. /\ dedup' = dedup /\ UNCHANGED clientVars /\ counters'[1] = counters[1]
    BY LifeTogether
  <1>2. handlers' \subseteq handlers
    BY DEF LifeStep, Crash, Stop, Exit, Elect, Restart, Join, TransferCounters, TransferCache
  <1>3. view'[1] = view[1] \/ (Elect(1) /\ ~TookOver)
    <2>1. CASE Elect(s)
      BY <1>t, <2>1 DEF Elect, TypeOK, TookOver, Up
    <2>2. CASE ~Elect(s)
      BY <1>t, <2>2 DEF LifeStep, Crash, Stop, Exit, Restart, Join, TransferCounters, TransferCache,
                        MayFail, Up, TypeOK
    <2> QED
      BY <2>1, <2>2
  <1>4. Exact' => Exact
    BY <1>1, <1>3 DEF Exact, TookOver
  <1>5. CASE ~Exact
    <2>1. RecountsLarger'
      BY <1>1, <1>2, <1>5 DEF GInv, RecountsLarger, clientVars
    <2>2. Fresh' => Fresh
      BY <1>2 DEF Fresh
    <2>3. counters[1] + (IF Fresh THEN 1 ELSE 0) <= issued
      BY <1>5 DEF GInv, CountsIssued
    <2>4. counters'[1] + (IF Fresh' THEN 1 ELSE 0) <= issued
      BY <1>1, <1>t, <2>2, <2>3
    <2> QED
      BY <1>1, <1>4, <2>1, <2>4, GInvHidden DEF clientVars
  <1>6. CASE Exact /\ ~Exact'
    <2>1. Elect(1) /\ ~TookOver
      BY <1>1, <1>3, <1>6 DEF Exact, TookOver
    <2>2. ~Up(0) /\ Settled /\ Leader = 0 /\ handlers' = handlers
      BY <1>t, <2>1 DEF Elect, Leader, TookOver
    <2>3. repl = {}
      BY <2>2 DEF Settled, FInv, Sequential, OneAtATime
    <2>4. \A h \in handlers : h.pc = "wait" /\ h.val = D + 1 /\ After1
      BY <1>6, <2>2, <2>3 DEF Settled, FInv, Sequential, OneAtATime, ExactValues, Owed1
    <2>5. handlers = {} => Before1 \/ After1
      BY <1>6, <2>3 DEF FInv, Sequential, ExactValues, Owed1
    <2>6. Before1 \/ After1
      BY <2>4, <2>5
    <2>7. counters[1] = D \/ (counters[1] = D + 1 /\ tries[W] > 0)
      BY <1>6, <1>t, <2>6 DEF Before1, After1, GInv, CountsIssued
    <2>8. counters'[1] <= issued /\ ~Fresh'
      <3>1. counters[1] <= issued
        BY <1>t, <2>7 DEF GInv, CountsIssued
      <3> QED
        BY <1>1, <2>2, <2>4, <3>1 DEF Fresh
    <2>9. RecountsLarger'
      <3>1. \A r \in Request : acked[r] < D + 1
        <4>1. \A r \in Request : r[2] \in Nat
          BY BoundsAssumption DEF Request
        <4>2. \A r \in Request : acked[r] = IF r[2] <= D THEN r[2] ELSE 0
          BY <1>6 DEF FInv, Sequential, ExactValues
        <4> QED
          BY <1>t, <4>1, <4>2
      <3> QED
        BY <1>1, <2>2, <2>4, <3>1 DEF RecountsLarger, clientVars
    <2> QED
      BY <1>1, <1>6, <1>t, <2>8, <2>9, GInvHidden DEF clientVars
  <1>7. CASE Exact /\ Exact'
    <2>1. RecountsLarger'
      BY <1>7 DEF RecountsLarger
    <2> QED
      BY <1>1, <1>7, <2>1, GInvHidden DEF clientVars
  <1> QED
    BY <1>4, <1>5, <1>6, <1>7

LEMMA GInvStep == OneClient /\ IInv /\ FInv /\ GInv /\ [Next]_vars => GInv'
  <1> SUFFICES ASSUME OneClient, IInv, FInv, GInv, [Next]_vars PROVE GInv'
    OBVIOUS
  <1>1. CASE UNCHANGED vars
    BY <1>1 DEF vars, serverVars, stateVars, clientVars, GInv, CountsIssued, RecountsLarger,
                FloorsAnswered, Exact, TookOver, Fresh, D
  <1>2. CASE Next
    BY <1>2, SequentialSteps, GInvBegin, GInvHandler, GInvReplicate, GInvLife
       DEF FInv, Sequential
  <1> QED
    BY <1>1, <1>2

-----------------------------------------------------------------------------
(* The refinement                                                          *)

LEMMA FailoverAnswerIsNew ==
  ASSUME OneClient, IInv, FInv, GInv, NEW h \in handlers, NEW val \in Nat, Awaited(h),
         \/ h.pc = "wait" /\ val = h.val
         \/ val # 0 /\ val = cache[h.at][h.req]
  PROVE  val # 0 /\ floor[h.req] < val /\ val <= issued /\ \A q \in Request : acked[q] # val
  <1>t. /\ D \in Nat /\ issued \in Nat /\ counters[1] \in Nat /\ acked \in [Request -> Nat]
        /\ floor \in [Request -> Nat] /\ C[2] = D + 1 /\ 1 \in Server
    BY Basics, ServersZeroOne DEF FInv, TypeOK
  <1>h. h.req = C /\ C \in Request /\ tries[W] > 0 /\ h.at \in Server
    BY TheHandler
  <1>1. Exact => val = D + 1
    <2>1. h.pc = "wait" /\ Exact => h.val = D + 1
      BY DEF FInv, Sequential, ExactValues
    <2>2. cache[h.at][h.req] # 0 => cache[h.at][h.req] = D + 1
      BY <1>h, <1>t DEF FInv, Sequential, CacheExact, IInv, NoCacheIfOff
    <2> QED
      BY <2>1, <2>2
  <1>2. ~Exact => h.pc = "wait" /\ val = h.val
    BY <1>h DEF Exact, IInv, NoCacheIfOff
  <1>3. val # 0
    BY <1>1, <1>2, <1>t DEF IInv, ValueFromApply
  <1>4. \A q \in Request : acked[q] < val
    <2>1. CASE Exact
      <3>1. \A r \in Request : r[2] \in Nat
        BY BoundsAssumption DEF Request
      <3>2. \A r \in Request : acked[r] = IF r[2] <= D THEN r[2] ELSE 0
        BY <2>1 DEF FInv, Sequential, ExactValues
      <3> QED
        BY <1>1, <1>t, <2>1, <3>1, <3>2
    <2>2. CASE ~Exact
      BY <1>2, <2>2 DEF GInv, RecountsLarger
    <2> QED
      BY <2>1, <2>2
  <1>5. val <= issued
    <2>1. CASE Exact
      BY <1>1, <1>h, <1>t, <2>1 DEF GInv, CountsIssued
    <2>2. CASE ~Exact
      <3>1. counters[1] <= issued
        BY <1>t, <2>2 DEF GInv, CountsIssued
      <3>2. val <= counters[1]
        BY <1>2, <2>2 DEF FInv, Sequential, InexactCovers
      <3> QED
        BY <1>t, <3>1, <3>2
    <2> QED
      BY <2>1, <2>2
  <1>6. floor[C] < val
    <2>1. floor[C] = 0 \/ \E q \in Request : floor[C] = acked[q]
      BY <1>h DEF GInv, FloorsAnswered
    <2> QED
      BY <1>3, <1>4, <2>1
  <1>7. \A q \in Request : acked[q] # val
    BY <1>4, <1>t
  <1> QED
    BY <1>3, <1>5, <1>6, <1>7, <1>h

LEMMA FailoverRefinesStep ==
  ASSUME OneClient, IInv, IInv', FInv, GInv, [Next]_vars
  PROVE  [Service!Next]_Service!vars
  <1>t. TypeInv /\ TypeInv'
    BY DEF IInv, TypeInv
  <1>1. CASE UNCHANGED <<done, tries, acked, gaveUp, floor, issued>>
    <2>1. UNCHANGED Pending
      BY <1>1 DEF Pending, Current
    <2> QED
      BY <1>1, <2>1 DEF Service!vars
  <1> QED
    BY <1>1, <1>t, ClientFrame, RefinesBegin, RefinesGiveUp, RefinesAnswer, FailoverAnswerIsNew

\* One client sees a counter through a failover: the answers it gets from the
\* first leader, from the second, and from the second for a request the first
\* had begun, are those of CounterService (IncrCounter, the retry under the same
\* request id, the reply cache and Replicate together).
THEOREM ServiceSurvivesFailover ==
  ASSUME OneClient
  PROVE  Spec => ImplementsService
  <1>1. Init => GInv
    BY GInvInit
  <1>2. IInv /\ FInv /\ GInv /\ [Next]_vars => GInv'
    BY GInvStep
  <1>3. IInv /\ IInv' /\ FInv /\ GInv /\ [Next]_vars => [Service!Next]_Service!vars
    BY FailoverRefinesStep
  <1> QED
    BY <1>1, <1>2, <1>3, RefinesInit, FailoverInvariance, PTL
       DEF Spec, ImplementsService, Service!Spec
=============================================================================
