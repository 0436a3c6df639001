----------------------- MODULE ReplicationRefinement -----------------------
(***************************************************************************)
(* While the first leader stands, the servers, their caches and the        *)
(* workers' retries implement CounterService: Begin is Issue or Reissue,   *)
(* the return of a handler that is waited for is Respond, GiveUp after an  *)
(* attempt is Abandon, and every other step is one the clients do not see. *)
(***************************************************************************)
EXTENDS ReplicationProofs

\* The refinement mapping of module Replication.
Status ==
  [r \in Request |->
     IF r \in gaveUp THEN "abandoned"
     ELSE IF acked[r] # 0 THEN "answered"
     ELSE IF r \in Pending THEN "pending" ELSE "idle"]

PendingAtWorker ==
  \A r \in Request : r \in Pending <=> r[2] = done[r[1]] + 1 /\ tries[r[1]] > 0

LEMMA PendingIs == TypeInv => PendingAtWorker
  <1> SUFFICES ASSUME TypeInv, NEW r \in Request
               PROVE  r \in Pending <=> r[2] = done[r[1]] + 1 /\ tries[r[1]] > 0
    BY DEF PendingAtWorker
  <1>1. r[1] \in Worker /\ r[2] \in 1 .. Rounds /\ r = <<r[1], r[2]>>
    BY DEF Request
  <1>2. ASSUME r \in Pending PROVE r[2] = done[r[1]] + 1 /\ tries[r[1]] > 0
    <2>1. PICK w \in Worker : tries[w] > 0 /\ r = Current(w)
      BY <1>2 DEF Pending
    <2>2. r[1] = w /\ r[2] = done[w] + 1
      BY <2>1 DEF Current
    <2> QED
      BY <2>1, <2>2
  <1>3. ASSUME r[2] = done[r[1]] + 1, tries[r[1]] > 0 PROVE r \in Pending
    <2>1. done[r[1]] < Rounds
      BY <1>1, <1>3, BoundsAssumption DEF TypeInv, TypeOK
    <2>2. r = Current(r[1])
      BY <1>1, <1>3 DEF Current
    <2> QED
      BY <1>1, <1>3, <2>1, <2>2 DEF Pending
  <1> QED
    BY <1>2, <1>3

\* The request a worker is at is pending once an attempt reached the leader, and
\* idle before.
LEMMA CurrentStatus ==
  ASSUME IInv, NEW w \in Worker, done[w] < Rounds
  PROVE  /\ Current(w) \in Request /\ acked[Current(w)] = 0 /\ Current(w) \notin gaveUp
         /\ Status[Current(w)] = IF tries[w] > 0 THEN "pending" ELSE "idle"
  <1> DEFINE r == Current(w)
  <1>1. TypeInv /\ r \in Request /\ r[1] = w /\ r[2] = done[w] + 1 /\ done[w] \in Nat
    BY CurrentType, BoundsAssumption DEF IInv, TypeInv, TypeOK
  <1>2. acked[r] = 0 /\ r \notin gaveUp
    BY <1>1 DEF IInv, RequestsInOrder
  <1>3. r \in Pending <=> tries[w] > 0
    BY <1>1, PendingIs DEF PendingAtWorker
  <1> HIDE DEF r
  <1>4. Status[r] = IF tries[w] > 0 THEN "pending" ELSE "idle"
    BY <1>1, <1>2, <1>3 DEF Status
  <1> QED
    BY <1>1, <1>2, <1>4 DEF r

LEMMA RefinesInit == Init => Service!Init
  <1> SUFFICES ASSUME Init PROVE Service!Init
    OBVIOUS
  <1>1. Pending = {}
    BY DEF Init, Pending
  <1> QED
    BY <1>1 DEF Init, Service!Init

LEMMA PendingIsPrime == TypeInv' => PendingAtWorker'
  BY PendingIs, PTL

\* The status of a request depends on these three.
LEMMA StatusKept ==
  ASSUME NEW r \in Request, r \in gaveUp' <=> r \in gaveUp, acked'[r] = acked[r],
         r \in Pending' <=> r \in Pending
  PROVE  Status'[r] = Status[r]
  BY DEF Status

LEMMA StatusExcept ==
  ASSUME NEW c \in Request, NEW v, Status'[c] = v,
         \A r \in Request \ {c} : Status'[r] = Status[r]
  PROVE  Status' = [Status EXCEPT ![c] = v]
  BY DEF Status

LEMMA RefinesBegin ==
  ASSUME IInv, TypeInv', NEW w \in Worker, NEW s \in Server, Begin(w, s)
  PROVE  Service!Next
  <1>t. TypeInv /\ PendingAtWorker /\ PendingAtWorker'
    BY PendingIs, PendingIsPrime DEF IInv, TypeInv
  <1>c. PICK c \in Request : c = Current(w)
    BY <1>t, BeginFrame
  <1>0. /\ c[1] = w /\ c[2] = done[w] + 1 /\ tries[w] \in Nat /\ done[w] < Rounds
    BY <1>c, <1>t, BeginFrame, CurrentType DEF TypeInv, TypeOK
  <1>r. \A r \in Request : r # c => r[1] # w \/ r[2] # done[w] + 1
    BY <1>c DEF Request, Current
  <1>1. /\ UNCHANGED <<done, acked, gaveUp>> /\ issued' = issued + 1
        /\ tries'[w] = tries[w] + 1 /\ \A u \in Worker \ {w} : tries'[u] = tries[u]
    BY <1>t, BeginFrame DEF TypeInv, TypeOK
  <1>2. \A r \in Request \ {c} : Status'[r] = Status[r]
    <2> SUFFICES ASSUME NEW r \in Request \ {c} PROVE r \in Pending' <=> r \in Pending
      BY <1>1, StatusKept
    <2>1. r[1] \in Worker
      BY DEF Request
    <2> QED
      BY <1>0, <1>1, <1>r, <1>t, <2>1 DEF PendingAtWorker
  <1>3. Status'[c] = "pending"
    <2>1. acked[c] = 0 /\ c \notin gaveUp
      BY <1>0, <1>c, CurrentStatus
    <2>2. c \in Pending'
      BY <1>0, <1>1, <1>t DEF PendingAtWorker
    <2> QED
      BY <1>0, <1>1, <2>1, <2>2 DEF Status
  <1>4. Status' = [Status EXCEPT ![c] = "pending"]
    BY <1>0, <1>2, <1>3, StatusExcept
  <1>5. CASE tries[w] = 0
    <2>1. Status[c] = "idle"
      <3>1. Status[c] = IF tries[w] > 0 THEN "pending" ELSE "idle"
        BY <1>0, <1>c, CurrentStatus
      <3> QED
        BY <1>5, <3>1
    <2>2. floor' = [floor EXCEPT ![c] = Max({acked[r] : r \in Request})]
      <3>1. floor' = IF tries[w] > 0 THEN floor
                     ELSE [floor EXCEPT ![c] = Max({acked[r] : r \in Request})]
        BY <1>c DEF Begin
      <3>2. ~(tries[w] > 0)
        BY <1>5
      <3> QED
        BY <3>1, <3>2
    <2>3. Max({acked[r] : r \in Request}) = Service!Max(Service!Answers)
      BY DEF Max, Service!Max, Service!Answers
    <2>4. Service!Issue(c)
      BY <1>1, <1>4, <2>1, <2>2, <2>3 DEF Status, Service!Issue
    <2> QED
      BY <2>4 DEF Service!Next
  <1>6. CASE tries[w] > 0
    <2>1. Status[c] = "pending"
      BY <1>0, <1>6, <1>c, CurrentStatus
    <2>2. Status' = Status
      BY <1>0, <1>4, <2>1 DEF Status
    <2>3. floor' = floor
      BY <1>6, <1>t, BeginFloor
    <2>4. Service!Reissue(c)
      BY <1>1, <2>1, <2>2, <2>3 DEF Status, Service!Reissue
    <2> QED
      BY <2>4 DEF Service!Next
  <1> QED
    BY <1>0, <1>5, <1>6

\* A worker that goes on leaves the other requests as they are.
LEMMA OthersPending ==
  ASSUME TypeInv, TypeInv', NEW w \in Worker, done[w] < Rounds, NextRequest(w)
  PROVE  /\ \A r \in Request : r # Current(w) => (r \in Pending' <=> r \in Pending)
         /\ Current(w) \notin Pending'
  <1>t. PendingAtWorker /\ PendingAtWorker'
    BY PendingIs, PendingIsPrime
  <1>n. /\ done'[w] = done[w] + 1 /\ tries'[w] = 0 /\ done[w] \in Nat
        /\ \A u \in Worker \ {w} : done'[u] = done[u] /\ tries'[u] = tries[u]
    BY NextRequestFrame, BoundsAssumption DEF TypeInv, TypeOK
  <1>0. \A r \in Request : ~(tries'[w] > 0) /\ (r[1] = w => r \notin Pending')
    BY <1>n, <1>t DEF PendingAtWorker
  <1>1. ASSUME NEW r \in Request, r # Current(w) PROVE r \in Pending' <=> r \in Pending
    <2>1. r[1] \in Worker /\ r = <<r[1], r[2]>>
      BY DEF Request
    <2>2. CASE r[1] = w
      <3>1. r[2] # done[w] + 1
        BY <1>1, <2>1, <2>2 DEF Current
      <3> QED
        BY <1>0, <1>t, <2>2, <3>1 DEF PendingAtWorker
    <2>3. CASE r[1] # w
      BY <1>n, <1>t, <2>1, <2>3 DEF PendingAtWorker
    <2> QED
      BY <2>2, <2>3
  <1>2. Current(w) \notin Pending'
    BY <1>0, CurrentType DEF TypeInv
  <1> QED
    BY <1>1, <1>2

LEMMA RefinesGiveUp ==
  ASSUME IInv, TypeInv', NEW w \in Worker, GiveUp(w)
  PROVE  Service!Next \/ UNCHANGED Service!vars
  <1>t. TypeInv /\ done[w] < Rounds /\ NextRequest(w) /\ UNCHANGED <<acked, issued>>
    BY DEF GiveUp, IInv, TypeInv
  <1>c. PICK c \in Request : c = Current(w)
    BY <1>t, CurrentType DEF TypeInv
  <1>0. /\ gaveUp' = gaveUp \cup (IF tries[w] > 0 THEN {c} ELSE {})
        /\ acked[c] = 0 /\ c \notin gaveUp
        /\ Status[c] = IF tries[w] > 0 THEN "pending" ELSE "idle"
    BY <1>c, <1>t, CurrentStatus DEF GiveUp
  <1>1. \A r \in Request \ {c} : Status'[r] = Status[r]
    BY <1>0, <1>c, <1>t, OthersPending, StatusKept
  <1>2. c \notin Pending'
    BY <1>c, <1>t, OthersPending
  <1>3. CASE tries[w] > 0
    <2>1. Status'[c] = "abandoned"
      BY <1>0, <1>3 DEF Status
    <2>2. Status' = [Status EXCEPT ![c] = "abandoned"]
      BY <1>1, <2>1, StatusExcept
    <2>3. Service!Abandon(c)
      BY <1>0, <1>3, <1>c, <1>t, <2>2 DEF Status, NextRequest, Service!Abandon
    <2> QED
      BY <2>3 DEF Service!Next
  <1>4. CASE ~(tries[w] > 0)
    <2>1. Status'[c] = "idle" /\ Status[c] = "idle"
      BY <1>0, <1>2, <1>4, <1>t DEF Status
    <2>2. Status' = Status
      BY <1>1, <2>1 DEF Status
    <2>3. floor[c] = 0
      <3>1. tries[w] = 0 /\ c[1] = w /\ c[2] = done[w] + 1
        BY <1>4, <1>c, <1>t, CurrentType DEF TypeInv, TypeOK
      <3> QED
        BY <3>1 DEF IInv, RequestsInOrder, NotBegun, NoTrace
    <2>4. floor' = floor
      BY <1>c, <1>t, <2>3 DEF NextRequest, TypeInv, TypeOK
    <2> QED
      BY <1>t, <2>2, <2>4 DEF Status, Service!vars
  <1> QED
    BY <1>3, <1>4

\* An answer of a value that is new, large enough and not too large is Respond.
LEMMA RefinesAnswer ==
  ASSUME IInv, TypeInv', NEW h \in handlers, NEW val \in Nat, Awaited(h),
         acked' = [acked EXCEPT ![h.req] = val], NextRequest(h.req[1]),
         UNCHANGED gaveUp, UNCHANGED issued,
         val # 0, floor[h.req] < val, val <= issued, \A q \in Request : acked[q] # val
  PROVE  Service!Next
  <1>t. TypeInv /\ TypeOK
    BY DEF IInv, TypeInv
  <1>w. PICK w \in Worker : w = h.req[1]
    BY <1>t, AwaitedCurrent
  <1>c. PICK c \in Request : c = h.req /\ c = Current(w)
    BY <1>t, <1>w, AwaitedCurrent
  <1>0. /\ done[w] < Rounds /\ NextRequest(w) /\ c[1] = w /\ c[2] = done[w] + 1
        /\ acked' = [acked EXCEPT ![c] = val]
    BY <1>c, <1>t, <1>w, AwaitedCurrent
  <1>4. acked[c] = 0 /\ c \notin gaveUp /\ Status[c] = "pending"
    <2>1. acked[c] = 0 /\ c \notin gaveUp /\ Status[c] = IF tries[w] > 0 THEN "pending" ELSE "idle"
      BY <1>0, <1>c, CurrentStatus
    <2>2. tries[w] # 0
      BY <1>0, <1>c DEF IInv, RequestsInOrder, NotBegun, NoTrace
    <2>3. tries[w] > 0
      BY <1>t, <2>2 DEF TypeOK
    <2> QED
      BY <2>1, <2>3
  <1>5. Status' = [Status EXCEPT ![c] = "answered"]
    <2>1. Status'[c] = "answered"
      BY <1>0, <1>4, <1>t DEF Status, TypeOK
    <2>2. ASSUME NEW r \in Request \ {c} PROVE Status'[r] = Status[r]
      <3>1. acked'[r] = acked[r] /\ (r \in Pending' <=> r \in Pending)
        BY <1>0, <1>c, <1>t, OthersPending DEF TypeOK
      <3> QED
        BY <3>1, StatusKept
    <2> QED
      BY <2>1, <2>2, StatusExcept
  <1>6. val \in floor[c] + 1 .. issued
    BY <1>c, <1>t DEF TypeOK
  <1>7. val \notin Service!Answers
    BY DEF Service!Answers
  <1>8. floor' = [floor EXCEPT ![c] = 0]
    BY <1>0, <1>c DEF NextRequest
  <1>9. Service!Respond(c, val)
    BY <1>0, <1>4, <1>5, <1>7, <1>8 DEF Status, Service!Respond
  <1> QED
    BY <1>6, <1>9 DEF Service!Next

\* While the first leader stands, the value of a handler that is waited for is one.
LEMMA AnswerIsNew ==
  ASSUME IInv, FirstLeaderStands, NEW h \in handlers, NEW val \in Nat, Awaited(h),
         \/ h.pc = "wait" /\ val = h.val
         \/ val # 0 /\ val = cache[h.at][h.req]
  PROVE  val # 0 /\ floor[h.req] < val /\ val <= issued /\ \A q \in Request : acked[q] # val
  <1>t. TypeInv /\ TypeOK
    BY DEF IInv, TypeInv
  <1>c. PICK c \in Request : c = h.req /\ done[c[1]] \in Nat /\ c[2] = done[c[1]] + 1
    BY <1>t, AwaitedCurrent, BoundsAssumption DEF TypeOK
  <1>1. Claims(c, val) /\ val # 0
    <2>1. h.at = 0
      BY DEF IInv, OneLeader
    <2> QED
      BY <1>c, <2>1 DEF Claims, IInv, ValueFromApply
  <1>2. floor[c] < val /\ \A q \in Request : acked[q] = val => q = c
    BY <1>1 DEF IInv, ValuesOwned, Claims
  <1>3. val <= issued
    <2>1. val <= counters[0]
      BY <1>1, <1>c DEF IInv, NothingAhead, Claims
    <2>2. counters[0] + Cardinality(NotApplied) <= issued /\ Cardinality(NotApplied) \in Nat
      <3>1. IsFiniteSet(NotApplied)
        BY FS_Subset DEF IInv, IssuedBeforeApplied, NotApplied
      <3> QED
        BY <3>1, FS_CardinalityType DEF IInv, IssuedBeforeApplied
    <2>3. counters[0] \in Nat /\ issued \in Nat
      BY <1>t, FirstLeader DEF TypeOK
    <2> QED
      BY <2>1, <2>2, <2>3
  <1>4. acked[c] = 0
    BY <1>c DEF IInv, RequestsInOrder
  <1> QED
    BY <1>1, <1>2, <1>3, <1>4, <1>c

LEMMA RefinesStep ==
  ASSUME IInv, IInv', FirstLeaderStands, [Next]_vars
  PROVE  [Service!Next]_Service!vars
  <1>t. TypeInv /\ TypeInv'
    BY DEF IInv, TypeInv
  <1>1. CASE UNCHANGED <<done, tries, acked, gaveUp, floor, issued>>
    <2>1. UNCHANGED Pending
      BY <1>1 DEF Pending, Current
    <2> QED
      BY <1>1, <2>1 DEF Service!vars
  <1> QED
    BY <1>1, <1>t, ClientFrame, RefinesBegin, RefinesGiveUp, RefinesAnswer, AnswerIsNew

\* Clients of the servers see a counter: while the first leader stands, every
\* behaviour of the code's handlers, followers, failures and retries is one of
\* CounterService (IncrCounter, ReplyCache, replicateToAll and Replicate together).
THEOREM ServiceImplemented == Spec /\ []FirstLeaderStands => ImplementsService
  <1> QED
    BY RefinesInit, RefinesStep, Invariance, PTL DEF Spec, ImplementsService, Service!Spec
=============================================================================
