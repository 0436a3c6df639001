--------------------------- MODULE ElectionProofs ---------------------------
(***************************************************************************)
(* Theorems about the view change of module Election, for every number of  *)
(* servers, every miss limit and every bound, with and without timeouts.   *)
(***************************************************************************)
EXTENDS Election, FiniteSetTheorems, TLAPS

\* A call is what its place in the code says it is: it stands for a view its
\* sender really initiated, only an RPC is sent and votes, only the heartbeat
\* goroutine seeds and tallies, and viewNumber has reached the view of an
\* initiator and of anybody past the compare-and-swap.
CallSound(c) ==
  /\ <<c.view, c.from>> \in initiated
  /\ c.pc \in {"sent", "vote"} => c.from # c.to
  /\ c.pc \in {"seed", "tally"} => c.from = c.to
  /\ c.from = c.to \/ c.pc \in {"leader", "clear"} => c.view <= viewNumber[c.to]

MajorityAt(c) ==
  c.pc \in CommitPc => Cardinality(VotesFor(c.to, c.view)) >= Majority

CallsSound == \A c \in calls : CallSound(c) /\ MajorityAt(c)

\* Whoever initiated view v, every view up to v was initiated by somebody.
InitiatedContiguous ==
  \A w \in Nat, q \in Server :
    <<w, q>> \in initiated => \A v \in 1 .. w : \E p \in Server : <<v, p>> \in initiated

\* A process that is not yet serving has the state New made.
FreshUntilUp == \A s \in Server : proc[s] # "up" => viewNumber[s] = 0

\* Whoever a server counts for a view, other than itself, really ran
\* initiateViewChange for that view (election.go, viewVotes).
VotesGenuine ==
  \A s \in Server : \A vote \in viewVotes[s] : vote[2] # s => vote \in initiated

\* A view that a TransferState response carries was initiated, and so was every
\* view before it (replication.go, TransferState).
TransfersInitiated ==
  \A s \in Server : \A w \in transfer[s] : \A v \in 1 .. w : \E p \in Server : <<v, p>> \in initiated

\* The inductive invariant.
IInv ==
  /\ TypeOK
  /\ CallsSound
  /\ InitiatedContiguous
  /\ FreshUntilUp
  /\ TransfersInitiated
  /\ NoViewSkipped
  /\ VotesGenuine
  /\ LeaderOfReachedView

-----------------------------------------------------------------------------
(* Facts about the operators                                               *)

\* allServers[view % len(allServers)] is an index of the list, and view 0 is
\* led by the first server.
LEMMA LeaderOfType == \A view \in Nat : LeaderOf(view) \in Server
  BY NAssumption DEF LeaderOf, Server

LEMMA LeaderOfZero == LeaderOf(0) = 0
  BY NAssumption DEF LeaderOf

LEMMA ZeroServer == 0 \in Server
  BY NAssumption DEF Server

\* A call that moves on in the code keeps its sender, its server and its view.
LEMMA GotoFields ==
  ASSUME NEW c \in Call, NEW pc
  PROVE  LET d == [c EXCEPT !.pc = pc]
         IN  d.from = c.from /\ d.to = c.to /\ d.view = c.view /\ d.pc = pc
  BY DEF Call

LEMMA GotoType ==
  ASSUME NEW c \in Call, NEW pc \in {"sent", "flag", "seed", "tally", "vote"} \cup CommitPc
  PROVE  [c EXCEPT !.pc = pc] \in Call
  BY DEF Call

\* More votes are not fewer.
LEMMA MoreVotes ==
  ASSUME NEW S, NEW T, T \subseteq Server, S \subseteq T
  PROVE  /\ Cardinality(S) \in Nat
         /\ Cardinality(T) \in Nat
         /\ Cardinality(S) <= Cardinality(T)
  <1>1. IsFiniteSet(Server)
    BY FS_Interval, NAssumption DEF Server
  <1>2. IsFiniteSet(T)
    BY <1>1, FS_Subset
  <1>3. IsFiniteSet(S) /\ Cardinality(S) <= Cardinality(T)
    BY <1>2, FS_Subset
  <1> QED
    BY <1>2, <1>3, FS_CardinalityType

-----------------------------------------------------------------------------
(* Type correctness                                                        *)

\* A step that starts no call, or only moves one on, keeps the calls apart.
LEMMA FewerCalls ==
  ASSUME OneHeartbeat, calls' \subseteq calls
  PROVE  OneHeartbeat'
  BY DEF OneHeartbeat

LEMMA CallMoved ==
  ASSUME TypeOK, NEW c \in calls,
         NEW pc \in {"sent", "flag", "seed", "tally", "vote"} \cup CommitPc,
         c.from = c.to => pc \notin {"sent", "vote"},
         Goto(c, pc)
  PROVE  OneHeartbeat'
  <1>1. c \in Call /\ OneHeartbeat
    BY DEF TypeOK
  <1>2. PICK d : d = [c EXCEPT !.pc = pc]
    OBVIOUS
  <1>3. d.from = c.from /\ d.to = c.to /\ d.pc = pc
    BY <1>1, <1>2, GotoFields
  <1>4. calls' = (calls \ {c}) \cup {d}
    BY <1>2 DEF Goto
  <1> QED
    BY <1>1, <1>3, <1>4 DEF OneHeartbeat

LEMMA TypeInit == Init => TypeOK
  <1> SUFFICES ASSUME Init PROVE TypeOK
    OBVIOUS
  <1>1. OneHeartbeat
    BY DEF Init, OneHeartbeat
  <1> QED
    BY <1>1, ZeroServer, NAssumption DEF Init, TypeOK, Server

LEMMA TypeHeartbeat ==
  ASSUME TypeOK, NEW s \in Server, HeartbeatStep(s)
  PROVE  TypeOK'
  <1>1. CASE SkipPing(s)
    BY <1>1, FewerCalls DEF TypeOK, SkipPing, ToTop, serverVars, lifeVars
  <1>2. CASE StartPing(s)
    BY <1>2, FewerCalls DEF TypeOK, StartPing, serverVars, lifeVars
  <1>3. CASE PingAnswered(s)
    BY <1>3, FewerCalls DEF TypeOK, PingAnswered, ToTop, serverVars, lifeVars
  <1>4. CASE PingMissed(s)
    <2>1. PICK missed \in Nat : ToTop(s, missed)
      BY <1>4 DEF PingMissed, TypeOK
    <2> QED
      BY <1>4, <2>1, FewerCalls DEF TypeOK, PingMissed, ToTop, serverVars, lifeVars
  <1>5. CASE InitiateViewChange(s)
    <2> DEFINE newView == viewNumber[s] + 1
               call == [from |-> s, to |-> s, view |-> newView, pc |-> "flag"]
    <2>1. newView \in Nat /\ call \in Call /\ call.from = s /\ call.to = s /\ call.pc = "flag"
      BY DEF TypeOK, Call
    <2>2. /\ viewNumber' = [viewNumber EXCEPT ![s] = newView]
          /\ calls' = calls \cup {call}
          /\ initiated' = initiated \cup {<<newView, s>>}
          /\ ToTop(s, 0)
          /\ UNCHANGED <<inViewChange, leaderAddr, viewVotes, lifeVars>>
      BY <1>5 DEF InitiateViewChange
    <2>3. ~\E c \in calls : c.from = s /\ c.to = s
      BY <1>5 DEF InitiateViewChange, PingFails, AwaitingPing, InLoop
    <2> HIDE DEF newView, call
    <2>4. OneHeartbeat'
      BY <2>1, <2>2, <2>3 DEF TypeOK, OneHeartbeat
    <2> QED
      BY <2>1, <2>2, <2>4 DEF TypeOK, ToTop, lifeVars
  <1> QED
    BY <1>1, <1>2, <1>3, <1>4, <1>5 DEF HeartbeatStep

LEMMA TypeCall ==
  ASSUME TypeOK, NEW c \in calls, CallStep(c)
  PROVE  TypeOK'
  <1> DEFINE Moved(pc) == [c EXCEPT !.pc = pc]
  <1>0. /\ c \in Call /\ c.to \in Server /\ c.from \in Server /\ c.view \in Nat
        /\ OneHeartbeat
    BY DEF TypeOK, Call
  <1>m. \A pc \in {"sent", "flag", "seed", "tally", "vote"} \cup CommitPc : Moved(pc) \in Call
    BY <1>0, GotoType
  <1>l. LeaderOf(c.view) \in Server
    BY <1>0, LeaderOfType
  <1>h. c.from = c.to => c.pc \notin {"sent", "vote"}
    BY <1>0 DEF OneHeartbeat
  <1>r. Return(c) => OneHeartbeat'
    BY <1>0, FewerCalls DEF Return
  <1>c. \A pc \in CommitPc \cup {"seed", "tally", "flag"} : Goto(c, pc) => OneHeartbeat'
    BY CallMoved DEF CommitPc
  <1> HIDE DEF Moved
  <1>1. CASE RejectStale(c)
    BY <1>1, <1>r DEF TypeOK, RejectStale, Return, serverVars, heartbeatVars, lifeVars
  <1>2. CASE AcceptView(c)
    <2>1. OneHeartbeat'
      BY <1>2, <1>h, CallMoved DEF AcceptView, Running
    <2> QED
      BY <1>2, <1>m, <2>1
      DEF TypeOK, AcceptView, Goto, Moved, serverVars, heartbeatVars, lifeVars
  <1>3. CASE LoseViewChange(c)
    BY <1>3, <1>r DEF TypeOK, LoseViewChange, Return, serverVars, heartbeatVars, lifeVars
  <1>4. CASE EnterViewChange(c)
    <2>1. OneHeartbeat'
      BY <1>4, CallMoved DEF EnterViewChange
    <2> QED
      BY <1>4, <1>m, <2>1 DEF TypeOK, EnterViewChange, Goto, Moved, heartbeatVars, lifeVars
  <1>5. CASE SeedVote(c)
    <2>1. {<<c.view, c.to>>} \subseteq Nat \X Server
      BY <1>0
    <2>2. viewVotes' \in [Server -> SUBSET (Nat \X Server)]
      BY <1>5, <2>1 DEF TypeOK, SeedVote
    <2>3. calls' \in SUBSET Call /\ OneHeartbeat'
      BY <1>5, <1>m, <1>c DEF TypeOK, SeedVote, Goto, Moved
    <2> QED
      BY <1>5, <1>l, <2>2, <2>3 DEF TypeOK, SeedVote, SetLeader, heartbeatVars, lifeVars
  <1>6. CASE Tally(c)
    <2>1. \A p \in Server : [from |-> c.to, to |-> p, view |-> c.view, pc |-> "sent"] \in Call
      BY <1>0 DEF Call
    <2>2. Broadcast(c) => OneHeartbeat'
      <3> SUFFICES ASSUME Broadcast(c) PROVE OneHeartbeat'
        OBVIOUS
      <3>1. \A d \in calls' : d \in calls \/ d.from # d.to
        BY DEF Broadcast
      <3> QED
        BY <1>0, <3>1 DEF OneHeartbeat
    <2>3. OneHeartbeat'
      BY <1>6, <1>c, <2>2 DEF Tally, CommitPc
    <2> QED
      BY <1>6, <1>m, <2>1, <2>3
      DEF TypeOK, Tally, Goto, Moved, Broadcast, CommitPc, serverVars, heartbeatVars, lifeVars
  <1>7. CASE CountVote(c)
    <2>1. {c.view} \X VotersAfter(c) \subseteq Nat \X Server
      BY <1>0 DEF VotersAfter, VotesFor
    <2>2. OneHeartbeat'
      BY <1>7, <1>r, <1>c DEF CountVote, CommitPc
    <2> QED
      BY <1>7, <1>m, <1>0, <2>1, <2>2
      DEF TypeOK, CountVote, Goto, Return, Moved, CommitPc, heartbeatVars, lifeVars
  <1>8. CASE AdvanceView(c)
    <2>1. OneHeartbeat'
      BY <1>8, <1>r, <1>c DEF AdvanceView, CommitPc
    <2>2. viewNumber' \in [Server -> Nat]
      <3>1. viewNumber \in [Server -> Nat]
        BY DEF TypeOK
      <3>2. viewNumber' = viewNumber \/ viewNumber' = [viewNumber EXCEPT ![c.to] = c.view]
        BY <1>8 DEF AdvanceView
      <3> QED
        BY <1>0, <3>1, <3>2
    <2>3. calls' \in SUBSET Call
      <3>1. Return(c) \/ Goto(c, "leader")
        BY <1>8 DEF AdvanceView
      <3> QED
        BY <1>m, <3>1 DEF TypeOK, Goto, Return, Moved, CommitPc
    <2> QED
      BY <1>8, <2>1, <2>2, <2>3 DEF TypeOK, AdvanceView, heartbeatVars, lifeVars
  <1>9. CASE CommitLeader(c)
    <2>1. OneHeartbeat'
      BY <1>9, <1>c DEF CommitLeader, CommitPc
    <2> QED
      BY <1>9, <1>m, <1>l, <2>1
      DEF TypeOK, CommitLeader, SetLeader, Goto, Moved, CommitPc, heartbeatVars, lifeVars
  <1>10. CASE LeaveViewChange(c)
    BY <1>10, <1>r DEF TypeOK, LeaveViewChange, Return, heartbeatVars, lifeVars
  <1> QED
    BY <1>1, <1>2, <1>3, <1>4, <1>5, <1>6, <1>7, <1>8, <1>9, <1>10 DEF CallStep

LEMMA TypeLife ==
  ASSUME TypeOK, NEW s \in Server, LifeStep(s)
  PROVE  TypeOK'
  <1>1. CASE Crash(s)
    <2>1. calls' \in SUBSET Call /\ OneHeartbeat'
      BY <1>1, FewerCalls DEF TypeOK, Crash
    <2>2. viewVotes' \in [Server -> SUBSET (Nat \X Server)]
      BY <1>1 DEF TypeOK, Crash
    <2>3. transfer' \in [Server -> SUBSET Nat]
      BY <1>1 DEF TypeOK, Crash
    <2> QED
      BY <1>1, <2>1, <2>2, <2>3, ZeroServer, NAssumption DEF TypeOK, Crash, ToTop
  <1>2. CASE Start(s)
    BY <1>2, FewerCalls DEF TypeOK, Start, serverVars, heartbeatVars
  <1>6. CASE TransferView(s)
    <2>1. viewNumber[pull[s]] \in Nat
      BY <1>6 DEF TransferView, TypeOK
    <2>2. transfer' \in [Server -> SUBSET Nat]
      BY <1>6, <2>1 DEF TransferView, TypeOK
    <2> QED
      BY <1>6, <2>2, FewerCalls DEF TypeOK, TransferView, serverVars, heartbeatVars
  <1>3. CASE PullView(s)
    <2>1. PICK view \in transfer[s] :
            /\ viewNumber' = [viewNumber EXCEPT ![s] = view]
            /\ SetLeader(s, view)
      BY <1>3 DEF PullView
    <2>2. view \in Nat /\ LeaderOf(view) \in Server
      BY LeaderOfType DEF TypeOK
    <2>3. transfer' \in [Server -> SUBSET Nat]
      BY <1>3 DEF PullView, TypeOK
    <2> QED
      BY <1>3, <2>1, <2>2, <2>3, FewerCalls DEF TypeOK, PullView, SetLeader, heartbeatVars
  <1>4. CASE PullNext(s)
    <2>1. \A p \in Server : p + 1 \in 0 .. N
      BY NAssumption DEF Server
    <2>2. transfer' \in [Server -> SUBSET Nat]
      BY <1>4 DEF PullNext, TypeOK
    <2> QED
      BY <1>4, <2>1, <2>2, FewerCalls DEF TypeOK, PullNext, serverVars, heartbeatVars
  <1>5. CASE PullNone(s)
    BY <1>5, FewerCalls DEF TypeOK, PullNone, serverVars, heartbeatVars
  <1> QED
    BY <1>1, <1>2, <1>3, <1>4, <1>5, <1>6 DEF LifeStep

LEMMA TypeStep == TypeOK /\ [Next]_vars => TypeOK'
  <1> SUFFICES ASSUME TypeOK, [Next]_vars PROVE TypeOK'
    OBVIOUS
  <1>1. CASE \E s \in Server : HeartbeatStep(s) \/ LifeStep(s)
    BY <1>1, TypeHeartbeat, TypeLife
  <1>2. CASE \E c \in calls : CallStep(c)
    BY <1>2, TypeCall
  <1>3. CASE UNCHANGED vars
    BY <1>3, FewerCalls DEF TypeOK, vars, serverVars, heartbeatVars, lifeVars
  <1> QED
    BY <1>1, <1>2, <1>3 DEF Next

\* Every variable of the election stays in its type; no server handles an RPC
\* of its own, and its heartbeat goroutine is in one call at a time
\* (election.go, runHeartbeat and broadcastViewChange).
THEOREM TypeCorrect == Spec => []TypeOK
  BY TypeInit, TypeStep, PTL DEF Spec

-----------------------------------------------------------------------------
(* The inductive invariant                                                 *)

LEMMA InvInit == Init => IInv
  <1> SUFFICES ASSUME Init PROVE IInv
    OBVIOUS
  <1>1. TypeOK
    BY TypeInit
  <1>2. CallsSound /\ InitiatedContiguous /\ FreshUntilUp
    BY DEF Init, CallsSound, InitiatedContiguous, FreshUntilUp
  <1>6. TransfersInitiated
    BY DEF Init, TransfersInitiated
  <1>3. NoViewSkipped
    BY DEF Init, NoViewSkipped
  <1>4. VotesGenuine
    BY DEF Init, VotesGenuine
  <1>5. LeaderOfReachedView
    BY LeaderOfZero DEF Init, LeaderOfReachedView
  <1> QED
    BY <1>1, <1>2, <1>3, <1>4, <1>5, <1>6 DEF IInv

\* Responses keep what holds of them while no new one is sent.
LEMMA TransfersKept ==
  ASSUME IInv, initiated \subseteq initiated',
         \A s \in Server : transfer'[s] \subseteq transfer[s]
  PROVE  TransfersInitiated'
  BY DEF IInv, TransfersInitiated

\* A call keeps what holds of it while views, initiations and votes only grow.
LEMMA CallKept ==
  ASSUME IInv, TypeOK', NEW d \in calls,
         viewNumber[d.to] <= viewNumber'[d.to],
         initiated \subseteq initiated',
         viewVotes[d.to] \subseteq viewVotes'[d.to]
  PROVE  CallSound(d)' /\ MajorityAt(d)'
  <1>1. CallSound(d) /\ MajorityAt(d) /\ d \in Call
    BY DEF IInv, CallsSound, TypeOK
  <1>2. d.to \in Server /\ d.view \in Nat /\ viewNumber[d.to] \in Nat /\ viewNumber'[d.to] \in Nat
    BY <1>1 DEF IInv, TypeOK, Call
  <1>3. CallSound(d)'
    BY <1>1, <1>2 DEF CallSound
  <1>4. VotesFor(d.to, d.view) \subseteq VotesFor(d.to, d.view)'
    BY DEF VotesFor
  <1>5. VotesFor(d.to, d.view)' \subseteq Server
    BY DEF VotesFor
  <1>6. Majority \in Nat
    BY NAssumption DEF Majority
  <1>7. MajorityAt(d)'
    BY <1>1, <1>4, <1>5, <1>6, MoreVotes DEF MajorityAt
  <1> QED
    BY <1>3, <1>7

\* A step that leaves views, leaders, votes and initiations alone has only its
\* new calls to answer for.
LEMMA CallsOnly ==
  ASSUME IInv, TypeOK', FreshUntilUp', TransfersInitiated',
         UNCHANGED <<viewNumber, leaderAddr, viewVotes, initiated>>,
         \A d \in calls' : d \in calls \/ (CallSound(d)' /\ MajorityAt(d)')
  PROVE  IInv'
  <1>1. CallsSound'
    <2> SUFFICES ASSUME NEW d \in calls' PROVE CallSound(d)' /\ MajorityAt(d)'
      BY DEF CallsSound
    <2>1. CASE d \in calls
      <3>1. d.to \in Server /\ viewNumber[d.to] \in Nat
        BY <2>1 DEF IInv, TypeOK, Call
      <3> QED
        BY <2>1, <3>1, CallKept
    <2> QED
      BY <2>1
  <1>2. InitiatedContiguous' /\ NoViewSkipped' /\ VotesGenuine' /\ LeaderOfReachedView'
    BY DEF IInv, InitiatedContiguous, NoViewSkipped, VotesGenuine, LeaderOfReachedView
  <1> QED
    BY <1>1, <1>2 DEF IInv

LEMMA InvInitiate ==
  ASSUME IInv, TypeOK', NEW s \in Server, InitiateViewChange(s)
  PROVE  IInv'
  <1>2. viewNumber[s] \in Nat
    BY DEF IInv, TypeOK
  <1>n. PICK newView \in Nat : newView = viewNumber[s] + 1
    BY <1>2
  <1>c. PICK call : call = [from |-> s, to |-> s, view |-> newView, pc |-> "flag"]
    OBVIOUS
  <1>1. /\ viewNumber' = [viewNumber EXCEPT ![s] = newView]
        /\ calls' = calls \cup {call}
        /\ initiated' = initiated \cup {<<newView, s>>}
        /\ UNCHANGED <<leaderAddr, viewVotes, proc, transfer>>
        /\ proc[s] = "up"
    BY <1>n, <1>c DEF InitiateViewChange, PingFails, AwaitingPing, InLoop, lifeVars
  <1>3. \A t \in Server : viewNumber[t] \in Nat /\ viewNumber[t] <= viewNumber'[t]
    BY <1>1, <1>n DEF IInv, TypeOK
  <1>4. CallsSound'
    <2>1. \A d \in calls : CallSound(d)' /\ MajorityAt(d)'
      BY <1>1, <1>3, CallKept DEF IInv, TypeOK, Call
    <2>2. viewNumber'[s] = newView
      BY <1>1 DEF IInv, TypeOK
    <2>3. CallSound(call)' /\ MajorityAt(call)'
      BY <1>1, <1>c, <2>2 DEF CallSound, MajorityAt, CommitPc
    <2> QED
      BY <1>1, <2>1, <2>3 DEF CallsSound
  <1>5. \A v \in 1 .. newView : \E p \in Server : <<v, p>> \in initiated'
    <2> SUFFICES ASSUME NEW v \in 1 .. newView
                 PROVE  \E p \in Server : <<v, p>> \in initiated'
      OBVIOUS
    <2>1. CASE v = newView
      BY <2>1, <1>1
    <2>2. CASE v \in 1 .. viewNumber[s]
      BY <2>2, <1>1 DEF IInv, NoViewSkipped
    <2>3. v = newView \/ v \in 1 .. viewNumber[s]
      BY <1>2, <1>n
    <2> QED
      BY <2>1, <2>2, <2>3
  <1>6. InitiatedContiguous'
    <2> SUFFICES ASSUME NEW w \in Nat, NEW q \in Server, <<w, q>> \in initiated',
                        NEW v \in 1 .. w
                 PROVE  \E p \in Server : <<v, p>> \in initiated'
      BY DEF InitiatedContiguous
    <2>1. CASE w = newView
      BY <2>1, <1>5
    <2>2. CASE <<w, q>> \in initiated
      BY <2>2, <1>1 DEF IInv, InitiatedContiguous
    <2> QED
      BY <2>1, <2>2, <1>1
  <1>7. NoViewSkipped'
    <2> SUFFICES ASSUME NEW t \in Server, NEW v \in 1 .. viewNumber'[t]
                 PROVE  \E p \in Server : <<v, p>> \in initiated'
      BY DEF NoViewSkipped
    <2>1. CASE t = s
      BY <2>1, <1>1, <1>5 DEF IInv, TypeOK
    <2>2. CASE t # s
      BY <2>2, <1>1 DEF IInv, TypeOK, NoViewSkipped
    <2> QED
      BY <2>1, <2>2
  <1>8. FreshUntilUp'
    BY <1>1 DEF IInv, TypeOK, FreshUntilUp
  <1>9. VotesGenuine'
    BY <1>1 DEF IInv, VotesGenuine
  <1>10. LeaderOfReachedView'
    BY <1>1, <1>3 DEF IInv, LeaderOfReachedView, TypeOK
  <1>11. TransfersInitiated'
    BY <1>1, TransfersKept
  <1> QED
    BY <1>4, <1>6, <1>7, <1>8, <1>9, <1>10, <1>11 DEF IInv

LEMMA InvHeartbeat ==
  ASSUME IInv, NEW s \in Server, HeartbeatStep(s)
  PROVE  IInv'
  <1>1. TypeOK'
    BY TypeHeartbeat DEF IInv
  <1>2. CASE InitiateViewChange(s)
    BY <1>1, <1>2, InvInitiate
  <1>3. CASE ~InitiateViewChange(s)
    <2>1. UNCHANGED <<viewNumber, leaderAddr, viewVotes, initiated, calls, proc, transfer>>
      BY <1>3 DEF HeartbeatStep, SkipPing, StartPing, PingAnswered, PingMissed,
                  serverVars, lifeVars
    <2>2. FreshUntilUp'
      BY <2>1 DEF IInv, FreshUntilUp
    <2>3. TransfersInitiated'
      BY <2>1, TransfersKept
    <2> QED
      BY <1>1, <2>1, <2>2, <2>3, CallsOnly
  <1> QED
    BY <1>2, <1>3

LEMMA InvPullView ==
  ASSUME IInv, TypeOK', NEW s \in Server, PullView(s)
  PROVE  IInv'
  <1>0. PICK view \in transfer[s] :
          /\ viewNumber' = [viewNumber EXCEPT ![s] = view]
          /\ leaderAddr' = [leaderAddr EXCEPT ![s] = LeaderOf(view)]
    BY DEF PullView, SetLeader
  <1>1. /\ viewNumber' = [viewNumber EXCEPT ![s] = view]
        /\ leaderAddr' = [leaderAddr EXCEPT ![s] = LeaderOf(view)]
        /\ proc' = [proc EXCEPT ![s] = "up"]
        /\ UNCHANGED <<viewVotes, calls, initiated>>
        /\ transfer' = [transfer EXCEPT ![s] = {}] /\ proc[s] = "starting"
    BY <1>0 DEF PullView
  <1>2. view \in Nat /\ viewNumber[s] = 0
    BY <1>0, <1>1 DEF IInv, TypeOK, FreshUntilUp
  <1>3. \A t \in Server : viewNumber[t] <= viewNumber'[t]
    BY <1>1, <1>2 DEF IInv, TypeOK
  <1>4. CallsSound'
    BY <1>1, <1>3, CallKept DEF IInv, TypeOK, Call, CallsSound
  <1>5. InitiatedContiguous' /\ VotesGenuine'
    BY <1>1 DEF IInv, InitiatedContiguous, VotesGenuine
  <1>6. FreshUntilUp'
    BY <1>1 DEF IInv, TypeOK, FreshUntilUp
  <1>7. NoViewSkipped'
    <2> SUFFICES ASSUME NEW t \in Server, NEW v \in 1 .. viewNumber'[t]
                 PROVE  \E p \in Server : <<v, p>> \in initiated'
      BY DEF NoViewSkipped
    <2>1. CASE t = s
      <3>1. viewNumber'[s] = view
        BY <1>1 DEF IInv, TypeOK
      <3> QED
        BY <2>1, <3>1, <1>0, <1>1 DEF IInv, TransfersInitiated
    <2>2. CASE t # s
      <3>1. viewNumber'[t] = viewNumber[t]
        BY <2>2, <1>1 DEF IInv, TypeOK
      <3> QED
        BY <3>1, <1>1 DEF IInv, NoViewSkipped
    <2> QED
      BY <2>1, <2>2
  <1>8. LeaderOfReachedView'
    <2> SUFFICES ASSUME NEW t \in Server
                 PROVE  \E v \in 0 .. viewNumber'[t] : leaderAddr'[t] = LeaderOf(v)
      BY DEF LeaderOfReachedView
    <2>1. CASE t = s
      BY <2>1, <1>1, <1>2 DEF IInv, TypeOK
    <2>2. CASE t # s
      BY <2>2, <1>1 DEF IInv, TypeOK, LeaderOfReachedView
    <2> QED
      BY <2>1, <2>2
  <1>9. TransfersInitiated'
    BY <1>1, TransfersKept DEF IInv, TypeOK
  <1> QED
    BY <1>9, <1>4, <1>5, <1>6, <1>7, <1>8 DEF IInv

LEMMA InvCrash ==
  ASSUME IInv, TypeOK', NEW s \in Server, Crash(s)
  PROVE  IInv'
  <1>1. /\ viewNumber' = [viewNumber EXCEPT ![s] = 0]
        /\ leaderAddr' = [leaderAddr EXCEPT ![s] = 0]
        /\ viewVotes' = [viewVotes EXCEPT ![s] = {}]
        /\ proc' = [proc EXCEPT ![s] = "down"]
        /\ transfer' = [transfer EXCEPT ![s] = {}]
        /\ UNCHANGED initiated
    BY DEF Crash
  <1>2. \A d \in calls' : d \in calls /\ (d.to = s => d.pc = "sent")
    BY DEF Crash
  <1>3. CallsSound'
    <2> SUFFICES ASSUME NEW d \in calls' PROVE CallSound(d)' /\ MajorityAt(d)'
      BY DEF CallsSound
    <2>1. d \in calls /\ d.to \in Server
      BY <1>2 DEF IInv, TypeOK, Call
    <2>2. CASE d.to = s
      BY <2>1, <2>2, <1>1, <1>2 DEF IInv, CallsSound, CallSound, MajorityAt, CommitPc
    <2>3. CASE d.to # s
      <3>1. viewNumber'[d.to] = viewNumber[d.to] /\ viewVotes'[d.to] = viewVotes[d.to]
        BY <1>1, <2>1, <2>3 DEF IInv, TypeOK
      <3>2. viewNumber[d.to] \in Nat
        BY <2>1 DEF IInv, TypeOK
      <3> QED
        BY <1>1, <2>1, <3>1, <3>2, CallKept
    <2> QED
      BY <2>2, <2>3
  <1>4. InitiatedContiguous'
    BY <1>1 DEF IInv, InitiatedContiguous
  <1>5. FreshUntilUp'
    BY <1>1 DEF IInv, TypeOK, FreshUntilUp
  <1>6. NoViewSkipped'
    <2> SUFFICES ASSUME NEW t \in Server, NEW v \in 1 .. viewNumber'[t]
                 PROVE  \E p \in Server : <<v, p>> \in initiated'
      BY DEF NoViewSkipped
    <2>1. CASE t = s
      BY <2>1, <1>1 DEF IInv, TypeOK
    <2>2. CASE t # s
      <3>1. viewNumber'[t] = viewNumber[t]
        BY <2>2, <1>1 DEF IInv, TypeOK
      <3> QED
        BY <3>1, <1>1 DEF IInv, NoViewSkipped
    <2> QED
      BY <2>1, <2>2
  <1>7. VotesGenuine'
    BY <1>1 DEF IInv, TypeOK, VotesGenuine
  <1>8. LeaderOfReachedView'
    BY <1>1, LeaderOfZero DEF IInv, TypeOK, LeaderOfReachedView
  <1>9. TransfersInitiated'
    BY <1>1, TransfersKept DEF IInv, TypeOK
  <1> QED
    BY <1>9, <1>3, <1>4, <1>5, <1>6, <1>7, <1>8 DEF IInv

LEMMA InvLife ==
  ASSUME IInv, NEW s \in Server, LifeStep(s)
  PROVE  IInv'
  <1>1. TypeOK'
    BY TypeLife DEF IInv
  <1>2. CASE PullView(s)
    BY <1>1, <1>2, InvPullView
  <1>3. CASE Crash(s)
    BY <1>1, <1>3, InvCrash
  <1>4. CASE Start(s) \/ TransferView(s) \/ PullNext(s) \/ PullNone(s)
    <2>1. UNCHANGED <<viewNumber, leaderAddr, viewVotes, initiated, calls>>
      BY <1>4 DEF Start, TransferView, PullNext, PullNone, serverVars
    <2>2. FreshUntilUp'
      BY <1>4 DEF Start, TransferView, PullNext, PullNone, serverVars, IInv, TypeOK, FreshUntilUp
    <2>3. TransfersInitiated'
      <3>1. CASE TransferView(s)
        <4>1. /\ transfer' = [transfer EXCEPT ![s] = {viewNumber[pull[s]]}]
              /\ pull[s] \in Server
          BY <3>1 DEF TransferView
        <4> SUFFICES ASSUME NEW t \in Server, NEW w \in transfer'[t], NEW v \in 1 .. w
                     PROVE  \E p \in Server : <<v, p>> \in initiated
          BY <2>1 DEF TransfersInitiated
        <4>2. CASE t = s
          <5>1. w = viewNumber[pull[s]]
            BY <4>1, <4>2 DEF IInv, TypeOK
          <5> QED
            BY <4>1, <5>1 DEF IInv, NoViewSkipped
        <4>3. CASE t # s
          BY <4>1, <4>3 DEF IInv, TypeOK, TransfersInitiated
        <4> QED
          BY <4>2, <4>3
      <3>2. CASE ~TransferView(s)
        <4>1. \A t \in Server : transfer'[t] \subseteq transfer[t]
          BY <1>4, <3>2 DEF Start, PullNext, PullNone, IInv, TypeOK
        <4> QED
          BY <2>1, <4>1, TransfersKept
      <3> QED
        BY <3>1, <3>2
    <2> QED
      BY <1>1, <2>1, <2>2, <2>3, CallsOnly
  <1> QED
    BY <1>2, <1>3, <1>4 DEF LifeStep

\* The steps of a call that only move it, answer it or send the broadcast.
LEMMA InvCallOnly ==
  ASSUME IInv, TypeOK', NEW c \in calls,
         \/ RejectStale(c) \/ AcceptView(c) \/ LoseViewChange(c) \/ EnterViewChange(c)
         \/ Tally(c) \/ LeaveViewChange(c)
  PROVE  IInv'
  <1>1. UNCHANGED <<viewNumber, leaderAddr, viewVotes, initiated, proc, transfer>>
    BY DEF RejectStale, AcceptView, LoseViewChange, EnterViewChange, Tally,
           LeaveViewChange, serverVars, lifeVars
  <1>2. FreshUntilUp' /\ TransfersInitiated'
    BY <1>1, TransfersKept DEF IInv, FreshUntilUp
  <1>3. /\ c \in Call /\ c.to \in Server /\ c.from \in Server /\ c.view \in Nat
        /\ CallSound(c) /\ MajorityAt(c)
    BY DEF IInv, TypeOK, Call, CallsSound
  <1>4. \A d \in calls' : d \in calls \/ (CallSound(d)' /\ MajorityAt(d)')
    <2>1. CASE RejectStale(c) \/ LoseViewChange(c) \/ LeaveViewChange(c)
      BY <2>1 DEF RejectStale, LoseViewChange, LeaveViewChange, Return
    <2>2. CASE AcceptView(c)
      <3>1. PICK d : d = [c EXCEPT !.pc = IF c.view > viewNumber[c.to] THEN "flag" ELSE "vote"]
        OBVIOUS
      <3>2. calls' = (calls \ {c}) \cup {d} /\ c.pc = "sent"
        BY <2>2, <3>1 DEF AcceptView, Goto, Running
      <3>3. /\ d.from = c.from /\ d.to = c.to /\ d.view = c.view
            /\ d.pc = "flag" \/ d.pc = "vote"
        BY <3>1, <1>3, GotoFields
      <3>4. CallSound(d)' /\ MajorityAt(d)'
        BY <3>2, <3>3, <1>1, <1>3 DEF CallSound, MajorityAt, CommitPc
      <3> QED
        BY <3>2, <3>4
    <2>3. CASE EnterViewChange(c)
      <3>1. PICK d : d = [c EXCEPT !.pc = IF c.from = c.to THEN "seed" ELSE "vote"]
        OBVIOUS
      <3>2. calls' = (calls \ {c}) \cup {d}
        BY <2>3, <3>1 DEF EnterViewChange, Goto
      <3>3. /\ d.from = c.from /\ d.to = c.to /\ d.view = c.view
            /\ d.pc = IF c.from = c.to THEN "seed" ELSE "vote"
        BY <3>1, <1>3, GotoFields
      <3>4. CallSound(d)' /\ MajorityAt(d)'
        BY <3>3, <1>1, <1>3 DEF CallSound, MajorityAt, CommitPc
      <3> QED
        BY <3>2, <3>4
    <2>4. CASE Tally(c) /\ Goto(c, "advance")
      <3>1. PICK d : d = [c EXCEPT !.pc = "advance"]
        OBVIOUS
      <3>2. calls' = (calls \ {c}) \cup {d}
        BY <2>4, <3>1 DEF Goto
      <3>3. d.from = c.from /\ d.to = c.to /\ d.view = c.view /\ d.pc = "advance"
        BY <3>1, <1>3, GotoFields
      <3>4. c.pc = "tally"
        BY <2>4 DEF Tally, Running
      <3>5. CASE Cardinality(VotesFor(c.to, c.view)) >= Majority
        <4>1. VotesFor(d.to, d.view)' = VotesFor(c.to, c.view)
          BY <3>3, <1>1 DEF VotesFor
        <4>2. CallSound(d)' /\ MajorityAt(d)'
          BY <3>3, <3>4, <3>5, <4>1, <1>1, <1>3 DEF CallSound, MajorityAt
        <4> QED
          BY <3>2, <4>2
      <3>6. CASE Broadcast(c) /\ ~(Cardinality(VotesFor(c.to, c.view)) >= Majority)
        <4>1. d \in calls'
          BY <3>2
        <4>2. d \in calls
          BY <3>3, <3>6, <4>1 DEF Broadcast
        <4> QED
          BY <3>2, <4>2
      <3> QED
        BY <2>4, <3>5, <3>6 DEF Tally
    <2>5. CASE Tally(c) /\ Broadcast(c)
      <3>1. c.from = c.to
        BY <2>5, <1>3 DEF Tally, Running, CallSound
      <3>2. ASSUME NEW d \in calls', d \notin calls
            PROVE  CallSound(d)' /\ MajorityAt(d)'
        <4>1. PICK p \in Server \ {c.to} :
                d = [from |-> c.to, to |-> p, view |-> c.view, pc |-> "sent"]
          BY <2>5, <3>2 DEF Broadcast
        <4> QED
          BY <4>1, <3>1, <1>1, <1>3 DEF CallSound, MajorityAt, CommitPc
      <3> QED
        BY <3>2
    <2> QED
      BY <2>1, <2>2, <2>3, <2>4, <2>5 DEF Tally
  <1> QED
    BY <1>1, <1>2, <1>4, CallsOnly

LEMMA InvSeedVote ==
  ASSUME IInv, TypeOK', NEW c \in calls, SeedVote(c)
  PROVE  IInv'
  <1>1. /\ c \in Call /\ c.to \in Server /\ c.from \in Server /\ c.view \in Nat
        /\ CallSound(c) /\ c.pc = "seed"
    BY DEF IInv, TypeOK, Call, CallsSound, SeedVote, Running
  <1>2. PICK d : d = [c EXCEPT !.pc = "tally"]
    OBVIOUS
  <1>3. /\ leaderAddr' = [leaderAddr EXCEPT ![c.to] = LeaderOf(c.view)]
        /\ viewVotes' = [viewVotes EXCEPT ![c.to] = @ \cup {<<c.view, c.to>>}]
        /\ calls' = (calls \ {c}) \cup {d}
        /\ UNCHANGED <<viewNumber, initiated, proc, transfer>>
    BY <1>2 DEF SeedVote, SetLeader, Goto, lifeVars
  <1>4. d.from = c.from /\ d.to = c.to /\ d.view = c.view /\ d.pc = "tally"
    BY <1>1, <1>2, GotoFields
  <1>5. CallsSound'
    <2>1. \A t \in Server : viewNumber[t] \in Nat /\ viewVotes[t] \subseteq viewVotes'[t]
      BY <1>3 DEF IInv, TypeOK
    <2>2. ASSUME NEW b \in calls
          PROVE  CallSound(b)' /\ MajorityAt(b)'
      <3>1. b.to \in Server
        BY DEF IInv, TypeOK, Call
      <3>2. viewNumber'[b.to] = viewNumber[b.to] /\ initiated \subseteq initiated'
        BY <1>3
      <3> QED
        BY <2>1, <3>1, <3>2, CallKept
    <2>3. CallSound(d)' /\ MajorityAt(d)'
      BY <1>1, <1>3, <1>4 DEF CallSound, MajorityAt, CommitPc
    <2> QED
      BY <1>3, <2>2, <2>3 DEF CallsSound
  <1>6. InitiatedContiguous' /\ FreshUntilUp' /\ TransfersInitiated' /\ NoViewSkipped'
    BY <1>3, TransfersKept DEF IInv, InitiatedContiguous, FreshUntilUp, NoViewSkipped
  <1>7. VotesGenuine'
    BY <1>3 DEF IInv, TypeOK, VotesGenuine
  <1>8. LeaderOfReachedView'
    <2>1. c.view \in 0 .. viewNumber[c.to]
      BY <1>1 DEF CallSound, IInv, TypeOK
    <2> QED
      BY <1>1, <1>3, <2>1 DEF IInv, TypeOK, LeaderOfReachedView
  <1> QED
    BY <1>5, <1>6, <1>7, <1>8 DEF IInv

LEMMA InvCountVote ==
  ASSUME IInv, TypeOK', NEW c \in calls, CountVote(c)
  PROVE  IInv'
  <1>1. /\ c \in Call /\ c.to \in Server /\ c.from \in Server /\ c.view \in Nat
        /\ CallSound(c) /\ c.pc = "vote"
    BY DEF IInv, TypeOK, Call, CallsSound, CountVote, Running
  <1>2. PICK d : d = [c EXCEPT !.pc = "advance"]
    OBVIOUS
  <1>3. /\ viewVotes' = [viewVotes EXCEPT ![c.to] = @ \cup ({c.view} \X VotersAfter(c))]
        /\ UNCHANGED <<viewNumber, leaderAddr, initiated, proc, transfer>>
    BY DEF CountVote, lifeVars
  <1>4. d.from = c.from /\ d.to = c.to /\ d.view = c.view /\ d.pc = "advance"
    BY <1>1, <1>2, GotoFields
  <1>5. /\ viewVotes'[c.to] = viewVotes[c.to] \cup ({c.view} \X VotersAfter(c))
        /\ \A t \in Server : t # c.to => viewVotes'[t] = viewVotes[t]
    BY <1>1, <1>3 DEF IInv, TypeOK
  <1>6. VotesFor(c.to, c.view)' = VotersAfter(c)
    BY <1>1, <1>5 DEF VotesFor, VotersAfter
  <1>7. CallsSound'
    <2>1. \A t \in Server : viewNumber[t] \in Nat /\ viewVotes[t] \subseteq viewVotes'[t]
      BY <1>5 DEF IInv, TypeOK
    <2>2. ASSUME NEW b \in calls
          PROVE  CallSound(b)' /\ MajorityAt(b)'
      <3>1. b.to \in Server
        BY DEF IInv, TypeOK, Call
      <3>2. viewNumber'[b.to] = viewNumber[b.to] /\ initiated \subseteq initiated'
        BY <1>3
      <3> QED
        BY <2>1, <3>1, <3>2, CallKept
    <2>3. CASE Cardinality(VotersAfter(c)) = Majority /\ Goto(c, "advance")
      <3>1. Majority \in Nat
        BY NAssumption DEF Majority
      <3>2. Cardinality(VotesFor(d.to, d.view)') >= Majority
        BY <1>4, <1>6, <2>3, <3>1
      <3>3. CallSound(d)' /\ MajorityAt(d)'
        BY <1>1, <1>3, <1>4, <3>2 DEF CallSound, MajorityAt
      <3>4. calls' = (calls \ {c}) \cup {d}
        BY <2>3, <1>2 DEF Goto
      <3> QED
        BY <2>2, <3>3, <3>4 DEF CallsSound
    <2>4. CASE Return(c)
      BY <2>2, <2>4 DEF CallsSound, Return
    <2> QED
      BY <2>3, <2>4 DEF CountVote
  <1>8. InitiatedContiguous' /\ FreshUntilUp' /\ NoViewSkipped' /\ LeaderOfReachedView'
        /\ TransfersInitiated'
    BY <1>3, TransfersKept DEF IInv, InitiatedContiguous, FreshUntilUp, NoViewSkipped, LeaderOfReachedView
  <1>9. VotesGenuine'
    <2> SUFFICES ASSUME NEW t \in Server, NEW vote \in viewVotes'[t], vote[2] # t
                 PROVE  vote \in initiated'
      BY DEF VotesGenuine
    <2>1. CASE vote \in viewVotes[t]
      BY <2>1, <1>3 DEF IInv, VotesGenuine
    <2>2. CASE t = c.to /\ vote \in {c.view} \X VotersAfter(c)
      <3>1. PICK p \in VotersAfter(c) : vote = <<c.view, p>>
        BY <2>2
      <3>2. p # c.to
        BY <3>1, <2>2
      <3>3. p = c.from \/ <<c.view, p>> \in viewVotes[c.to]
        BY <3>1, <3>2 DEF VotersAfter, VotesFor
      <3>4. <<c.view, p>> \in viewVotes[c.to] => <<c.view, p>> \in initiated
        BY <3>1, <2>1, <2>2, <1>3
      <3> QED
        BY <3>1, <3>3, <3>4, <1>1, <1>3 DEF CallSound
    <2> QED
      BY <2>1, <2>2, <1>5
  <1> QED
    BY <1>7, <1>8, <1>9 DEF IInv

LEMMA InvAdvanceView ==
  ASSUME IInv, TypeOK', NEW c \in calls, AdvanceView(c)
  PROVE  IInv'
  <1>1. /\ c \in Call /\ c.to \in Server /\ c.from \in Server /\ c.view \in Nat
        /\ CallSound(c) /\ MajorityAt(c) /\ c.pc = "advance" /\ proc[c.to] = "up"
    BY DEF IInv, TypeOK, Call, CallsSound, AdvanceView, Running
  <1>2. UNCHANGED <<leaderAddr, viewVotes, initiated, proc, transfer>>
    BY DEF AdvanceView, lifeVars
  <1>3. CASE Return(c) /\ UNCHANGED viewNumber
    <2>1. FreshUntilUp' /\ TransfersInitiated'
      BY <1>2, <1>3, TransfersKept DEF IInv, FreshUntilUp
    <2>2. \A d \in calls' : d \in calls
      BY <1>3 DEF Return
    <2> QED
      BY <1>2, <1>3, <2>1, <2>2, CallsOnly
  <1>4. CASE /\ c.view >= viewNumber[c.to]
             /\ viewNumber' = [viewNumber EXCEPT ![c.to] = c.view]
             /\ Goto(c, "leader")
    <2>1. PICK d : d = [c EXCEPT !.pc = "leader"]
      OBVIOUS
    <2>2. calls' = (calls \ {c}) \cup {d}
      BY <1>4, <2>1 DEF Goto
    <2>3. d.from = c.from /\ d.to = c.to /\ d.view = c.view /\ d.pc = "leader"
      BY <1>1, <2>1, GotoFields
    <2>4. /\ viewNumber'[c.to] = c.view
          /\ \A t \in Server : /\ viewNumber[t] \in Nat
                               /\ viewNumber[t] <= viewNumber'[t]
                               /\ t # c.to => viewNumber'[t] = viewNumber[t]
      BY <1>1, <1>4 DEF IInv, TypeOK
    <2>5. CallsSound'
      <3>1. \A b \in calls : CallSound(b)' /\ MajorityAt(b)'
        BY <1>2, <2>4, CallKept DEF IInv, TypeOK, Call
      <3>2. MajorityAt(d)'
        BY <1>1, <1>2, <2>3 DEF MajorityAt, CommitPc, VotesFor
      <3>3. CallSound(d)'
        BY <1>1, <1>2, <2>3, <2>4 DEF CallSound
      <3> QED
        BY <2>2, <3>1, <3>2, <3>3 DEF CallsSound
    <2>6. InitiatedContiguous' /\ VotesGenuine' /\ TransfersInitiated'
      BY <1>2, TransfersKept DEF IInv, InitiatedContiguous, VotesGenuine
    <2>7. FreshUntilUp'
      BY <1>1, <1>2, <2>4 DEF IInv, FreshUntilUp
    <2>8. NoViewSkipped'
      <3> SUFFICES ASSUME NEW t \in Server, NEW v \in 1 .. viewNumber'[t]
                   PROVE  \E p \in Server : <<v, p>> \in initiated'
        BY DEF NoViewSkipped
      <3>1. CASE t = c.to
        BY <3>1, <1>1, <1>2, <2>4 DEF IInv, InitiatedContiguous, CallSound
      <3>2. CASE t # c.to
        BY <3>2, <1>2, <2>4 DEF IInv, NoViewSkipped
      <3> QED
        BY <3>1, <3>2
    <2>9. LeaderOfReachedView'
      <3> SUFFICES ASSUME NEW t \in Server
                   PROVE  \E v \in 0 .. viewNumber'[t] : leaderAddr[t] = LeaderOf(v)
        BY <1>2 DEF LeaderOfReachedView
      <3>1. PICK v \in 0 .. viewNumber[t] : leaderAddr[t] = LeaderOf(v)
        BY DEF IInv, LeaderOfReachedView
      <3>2. viewNumber[t] \in Nat /\ viewNumber'[t] \in Nat /\ viewNumber[t] <= viewNumber'[t]
        BY <2>4 DEF TypeOK
      <3>3. v \in 0 .. viewNumber'[t]
        BY <3>2
      <3> QED
        BY <3>1, <3>3
    <2> QED
      BY <2>5, <2>6, <2>7, <2>8, <2>9 DEF IInv
  <1> QED
    BY <1>3, <1>4 DEF AdvanceView

LEMMA InvCommitLeader ==
  ASSUME IInv, TypeOK', NEW c \in calls, CommitLeader(c)
  PROVE  IInv'
  <1>1. /\ c \in Call /\ c.to \in Server /\ c.from \in Server /\ c.view \in Nat
        /\ CallSound(c) /\ MajorityAt(c) /\ c.pc = "leader"
    BY DEF IInv, TypeOK, Call, CallsSound, CommitLeader, Running
  <1>2. PICK d : d = [c EXCEPT !.pc = "clear"]
    OBVIOUS
  <1>3. /\ leaderAddr' = [leaderAddr EXCEPT ![c.to] = LeaderOf(c.view)]
        /\ calls' = (calls \ {c}) \cup {d}
        /\ UNCHANGED <<viewNumber, viewVotes, initiated, proc, transfer>>
    BY <1>2 DEF CommitLeader, SetLeader, Goto, lifeVars
  <1>4. d.from = c.from /\ d.to = c.to /\ d.view = c.view /\ d.pc = "clear"
    BY <1>1, <1>2, GotoFields
  <1>5. CallsSound'
    <2>1. \A t \in Server : viewNumber[t] \in Nat
      BY DEF IInv, TypeOK
    <2>2. \A b \in calls : CallSound(b)' /\ MajorityAt(b)'
      BY <1>3, <2>1, CallKept DEF IInv, TypeOK, Call
    <2>3. CallSound(d)' /\ MajorityAt(d)'
      BY <1>1, <1>3, <1>4 DEF CallSound, MajorityAt, CommitPc, VotesFor
    <2> QED
      BY <1>3, <2>2, <2>3 DEF CallsSound
  <1>6. /\ InitiatedContiguous' /\ FreshUntilUp' /\ NoViewSkipped' /\ VotesGenuine'
        /\ TransfersInitiated'
    BY <1>3, TransfersKept DEF IInv, InitiatedContiguous, FreshUntilUp, NoViewSkipped, VotesGenuine
  <1>7. LeaderOfReachedView'
    <2>1. c.view \in 0 .. viewNumber[c.to]
      BY <1>1 DEF CallSound, IInv, TypeOK
    <2> QED
      BY <1>1, <1>3, <2>1 DEF IInv, TypeOK, LeaderOfReachedView
  <1> QED
    BY <1>5, <1>6, <1>7 DEF IInv

LEMMA InvCall ==
  ASSUME IInv, NEW c \in calls, CallStep(c)
  PROVE  IInv'
  <1>1. TypeOK'
    BY TypeCall DEF IInv
  <1> QED
    BY <1>1, InvCallOnly, InvSeedVote, InvCountVote, InvAdvanceView, InvCommitLeader
    DEF CallStep

LEMMA InvStep == IInv /\ [Next]_vars => IInv'
  <1> SUFFICES ASSUME IInv, [Next]_vars PROVE IInv'
    OBVIOUS
  <1>1. CASE \E s \in Server : HeartbeatStep(s) \/ LifeStep(s)
    BY <1>1, InvHeartbeat, InvLife
  <1>2. CASE \E c \in calls : CallStep(c)
    BY <1>2, InvCall
  <1>3. CASE UNCHANGED vars
    <2>1. TypeOK'
      BY <1>3, TypeStep DEF IInv
    <2>2. UNCHANGED <<viewNumber, leaderAddr, viewVotes, initiated, calls, proc, transfer>>
      BY <1>3 DEF vars, serverVars, lifeVars
    <2>3. FreshUntilUp' /\ TransfersInitiated'
      BY <2>2, TransfersKept DEF IInv, FreshUntilUp
    <2> QED
      BY <2>1, <2>2, <2>3, CallsOnly
  <1> QED
    BY <1>1, <1>2, <1>3 DEF Next

LEMMA InvAlways == Spec => []IInv
  BY InvInit, InvStep, PTL DEF Spec

\* What commitView finds in its vote table is a majority that really initiated
\* the view, apart from the committing server itself.
LEMMA InvBacked == IInv => CommitBacked
  <1> SUFFICES ASSUME IInv, NEW c \in calls, c.pc \in CommitPc
               PROVE  Cardinality(Initiators(c.view) \cup {c.to}) >= Majority
    BY DEF CommitBacked
  <1>1. c.to \in Server /\ c.view \in Nat
    BY DEF IInv, TypeOK, Call
  <1>2. VotesFor(c.to, c.view) \subseteq Initiators(c.view) \cup {c.to}
    <2> SUFFICES ASSUME NEW p \in Server, <<c.view, p>> \in viewVotes[c.to], p # c.to
                 PROVE  <<c.view, p>> \in initiated
      BY DEF VotesFor, Initiators
    <2> QED
      BY <1>1 DEF IInv, VotesGenuine
  <1>3. Initiators(c.view) \cup {c.to} \subseteq Server
    BY <1>1 DEF Initiators
  <1>4. Cardinality(VotesFor(c.to, c.view)) >= Majority
    BY DEF IInv, CallsSound, MajorityAt
  <1>5. Majority \in Nat
    BY NAssumption DEF Majority
  <1> QED
    BY <1>2, <1>3, <1>4, <1>5, MoreVotes

\* No server commits a view that a majority of the cluster is not behind,
\* whatever is lost, delayed or restarted (election.go, ViewChange and
\* initiateViewChange calling commitView).
THEOREM CommitsBacked == Spec => []CommitBacked
  BY InvAlways, InvBacked, PTL

\* Views are initiated one after the other, and nobody is in a view that was
\* not initiated (election.go, initiateViewChange; replication.go,
\* applyTransferResp).
THEOREM ViewsConsecutive == Spec => []NoViewSkipped
  <1>1. IInv => NoViewSkipped
    BY DEF IInv
  <1> QED
    BY <1>1, InvAlways, PTL

\* No server follows the leader of a view it has not reached (election.go,
\* commitView; replication.go, applyTransferResp).
THEOREM LeadersReached == Spec => []LeaderOfReachedView
  <1>1. IInv => LeaderOfReachedView
    BY DEF IInv
  <1> QED
    BY <1>1, InvAlways, PTL

\* No step of a live process takes its view back.
LEMMA StepKeepsView ==
  ASSUME IInv, IInv', [Next]_vars, NEW s \in Server, proc'[s] # "down"
  PROVE  viewNumber'[s] >= viewNumber[s]
  <1>1. viewNumber[s] \in Nat /\ viewNumber'[s] \in Nat
    BY DEF IInv, TypeOK
  <1>2. CASE UNCHANGED viewNumber
    BY <1>1, <1>2
  <1>3. ASSUME NEW t \in Server, HeartbeatStep(t)
        PROVE  viewNumber'[s] >= viewNumber[s]
    <2>1. CASE InitiateViewChange(t)
      BY <1>1, <2>1 DEF InitiateViewChange, IInv, TypeOK
    <2>2. CASE ~InitiateViewChange(t)
      BY <1>2, <1>3, <2>2
      DEF HeartbeatStep, SkipPing, StartPing, PingAnswered, PingMissed, serverVars
    <2> QED
      BY <2>1, <2>2
  <1>4. ASSUME NEW t \in Server, LifeStep(t)
        PROVE  viewNumber'[s] >= viewNumber[s]
    <2>1. CASE Crash(t)
      BY <1>1, <2>1 DEF Crash, IInv, TypeOK
    <2>2. CASE PullView(t)
      <3>1. viewNumber[t] = 0
        BY <2>2 DEF PullView, IInv, FreshUntilUp
      <3>2. PICK view \in transfer[t] : viewNumber' = [viewNumber EXCEPT ![t] = view]
        BY <2>2 DEF PullView
      <3> QED
        BY <1>1, <3>1, <3>2 DEF IInv, TypeOK
    <2>3. CASE Start(t) \/ TransferView(t) \/ PullNext(t) \/ PullNone(t)
      BY <1>2, <2>3 DEF Start, TransferView, PullNext, PullNone, serverVars
    <2> QED
      BY <1>4, <2>1, <2>2, <2>3 DEF LifeStep
  <1>5. ASSUME NEW c \in calls, CallStep(c)
        PROVE  viewNumber'[s] >= viewNumber[s]
    <2>1. CASE AdvanceView(c)
      <3>1. c.to \in Server /\ c.view \in Nat
        BY DEF IInv, TypeOK, Call
      <3>2. viewNumber \in [Server -> Nat]
        BY DEF IInv, TypeOK
      <3> QED
        BY <1>1, <2>1, <3>1, <3>2 DEF AdvanceView
    <2>2. CASE ~AdvanceView(c)
      BY <1>2, <1>5, <2>2 DEF CallStep, RejectStale, AcceptView, LoseViewChange,
         EnterViewChange, SeedVote, Tally, CountVote, CommitLeader, LeaveViewChange, serverVars
    <2> QED
      BY <2>1, <2>2
  <1> QED
    BY <1>2, <1>3, <1>4, <1>5 DEF Next, vars, serverVars

\* A server's view never goes back while its process lives (election.go,
\* commitView's compare-and-swap).
THEOREM ViewsMonotone == Spec => ViewNeverRegresses
  <1>1. IInv /\ IInv' /\ [Next]_vars
          => [\A s \in Server : proc'[s] # "down" => viewNumber'[s] >= viewNumber[s]]_vars
    BY StepKeepsView
  <1> QED
    BY <1>1, InvAlways, PTL DEF Spec, ViewNeverRegresses
=============================================================================
