------------------------------ MODULE Election ------------------------------
(***************************************************************************)
(* Leader election by view change: internal/server/election.go, with the   *)
(* part of start-up (New, PullState) that sets the view.                   *)
(*                                                                         *)
(* Every server runs one heartbeat goroutine and one goroutine per         *)
(* ViewChange RPC it is handling.  A step is one access to shared state:   *)
(* an atomic load, store or add, or one critical section of Server.mu.     *)
(* The goroutines of a server interleave between those accesses, so what   *)
(* one of them read may be stale when it acts on it.                       *)
(***************************************************************************)
EXTENDS Naturals, FiniteSets

CONSTANTS
  N,               \* number of servers, len(allServers)
  MaxMissedPings,  \* maxMissedPings, 3 in the code
  MaxView,         \* bound: no server initiates a view above this one
  MaxCrashes,      \* bound: how many times some server process dies
  Restarts,        \* TRUE: a dead server may be started again
  Timeouts         \* TRUE: an RPC to a live server may also time out

ASSUME NAssumption == N \in Nat \ {0}
ASSUME MissedAssumption == MaxMissedPings \in Nat \ {0}
ASSUME BoundsAssumption == MaxView \in Nat /\ MaxCrashes \in Nat
ASSUME FlagsAssumption == Restarts \in BOOLEAN /\ Timeouts \in BOOLEAN

\* A server is its index in allServers, the sorted address list that every
\* process builds for itself from its own address and its peers.
Server == 0 .. N - 1

LeaderOf(view) == view % N

Majority == N \div 2 + 1

VARIABLES
  proc,          \* "up", "down", or "starting" (listening, not yet serving)
  viewNumber,
  inViewChange,
  leaderAddr,
  viewVotes,     \* viewVotes[s]: the pairs <<view, voter>> in s's vote table
  missCount,     \* local to the heartbeat goroutine
  pinging,       \* the leader the heartbeat goroutine is pinging; s if none
  calls,         \* goroutines running, or about to run, election code
  pull,          \* the peer PullState tries next
  transfer,      \* transfer[s]: the view in the TransferResp on its way to s,
                 \* {} if there is none
  crashes,
  initiated      \* history: the pairs <<view, server>> of initiateViewChange

serverVars == <<viewNumber, inViewChange, leaderAddr, viewVotes>>
heartbeatVars == <<missCount, pinging>>
lifeVars == <<proc, pull, transfer, crashes>>
vars == <<serverVars, heartbeatVars, lifeVars, calls, initiated>>

\* A ViewChange RPC from one server to another, from being sent to the
\* handler's return; or, with from = to, a server's heartbeat goroutine inside
\* initiateViewChange, which returns to its loop only afterwards.  (calls is a
\* set: a server that crashed and comes to send the same RPC again while the
\* first is still in transit has one RPC in transit.)
CommitPc == {"advance", "leader", "clear"}
Call == [from : Server, to : Server, view : Nat,
         pc : {"sent", "flag", "seed", "tally", "vote"} \cup CommitPc]

VotesFor(s, view) == {p \in Server : <<view, p>> \in viewVotes[s]}

Init ==
  /\ proc = [s \in Server |-> "up"]
  /\ viewNumber = [s \in Server |-> 0]
  /\ inViewChange = [s \in Server |-> FALSE]
  /\ leaderAddr = [s \in Server |-> 0]
  /\ viewVotes = [s \in Server |-> {}]
  /\ missCount = [s \in Server |-> 0]
  /\ pinging = [s \in Server |-> s]
  /\ calls = {}
  /\ pull = [s \in Server |-> 0]
  /\ transfer = [s \in Server |-> {}]
  /\ crashes = 0
  /\ initiated = {}

-----------------------------------------------------------------------------
(* runHeartbeat                                                            *)

InLoop(s) == proc[s] = "up" /\ ~\E c \in calls : c.from = s /\ c.to = s
AtTop(s) == InLoop(s) /\ pinging[s] = s
AwaitingPing(s) == InLoop(s) /\ pinging[s] # s

ToTop(s, missed) ==
  /\ missCount' = [missCount EXCEPT ![s] = missed]
  /\ pinging' = [pinging EXCEPT ![s] = s]

\* A leader does not ping itself.
SkipPing(s) ==
  /\ AtTop(s) /\ leaderAddr[s] = s
  /\ ToTop(s, 0)
  /\ UNCHANGED <<serverVars, lifeVars, calls, initiated>>

StartPing(s) ==
  /\ AtTop(s) /\ leaderAddr[s] # s
  /\ pinging' = [pinging EXCEPT ![s] = leaderAddr[s]]
  /\ UNCHANGED <<serverVars, lifeVars, missCount, calls, initiated>>

PingAnswered(s) ==
  /\ AwaitingPing(s) /\ proc[pinging[s]] = "up"
  /\ ToTop(s, 0)
  /\ UNCHANGED <<serverVars, lifeVars, calls, initiated>>

PingFails(s) == AwaitingPing(s) /\ (proc[pinging[s]] # "up" \/ Timeouts)

\* Mutant: the miss count is reset on every turn of the loop.
PingMissedReset(s) ==
  /\ PingFails(s)
  /\ missCount[s] + 1 < MaxMissedPings \/ viewNumber[s] >= MaxView
  /\ ToTop(s, 0)
  /\ UNCHANGED <<serverVars, lifeVars, calls, initiated>>

\* Bound: at MaxView the misses are counted anew, and no view is initiated.
PingMissed(s) ==
  /\ PingFails(s)
  /\ \/ missCount[s] + 1 < MaxMissedPings /\ ToTop(s, missCount[s] + 1)
     \/ missCount[s] + 1 >= MaxMissedPings /\ viewNumber[s] >= MaxView /\ ToTop(s, 0)
  /\ UNCHANGED <<serverVars, lifeVars, calls, initiated>>

\* The last tolerated miss: missCount is reset and initiateViewChange takes
\* the next view number with an atomic add.
InitiateViewChange(s) ==
  /\ PingFails(s) /\ missCount[s] + 1 >= MaxMissedPings
  /\ viewNumber[s] < MaxView
  /\ ToTop(s, 0)
  /\ LET newView == viewNumber[s] + 1 IN
       /\ viewNumber' = [viewNumber EXCEPT ![s] = newView]
       /\ calls' = calls \cup {[from |-> s, to |-> s, view |-> newView, pc |-> "flag"]}
       /\ initiated' = initiated \cup {<<newView, s>>}
  /\ UNCHANGED <<inViewChange, leaderAddr, viewVotes, lifeVars>>

HeartbeatStep(s) ==
  \/ SkipPing(s) \/ StartPing(s) \/ PingAnswered(s) \/ PingMissed(s)
  \/ InitiateViewChange(s)

-----------------------------------------------------------------------------
(* initiateViewChange, the ViewChange handler, and commitView, which both  *)
(* of them end in.                                                         *)

Running(c, pc) == proc[c.to] = "up" /\ c.pc = pc

Goto(c, pc) == calls' = (calls \ {c}) \cup {[c EXCEPT !.pc = pc]}
Return(c) == calls' = calls \ {c}

\* Mutant: the rotation counts from the end of allServers, one too far.
SetLeaderFromEnd(s, view) == leaderAddr' = [leaderAddr EXCEPT ![s] = N - (view % N)]

SetLeader(s, view) == leaderAddr' = [leaderAddr EXCEPT ![s] = LeaderOf(view)]

\* The handler loads viewNumber once, here, and acts on that reading below.
RejectStale(c) ==
  /\ Running(c, "sent") /\ c.view < viewNumber[c.to]
  /\ Return(c)
  /\ UNCHANGED <<serverVars, heartbeatVars, lifeVars, initiated>>

AcceptView(c) ==
  /\ Running(c, "sent") /\ c.view >= viewNumber[c.to]
  /\ Goto(c, IF c.view > viewNumber[c.to] THEN "flag" ELSE "vote")
  /\ UNCHANGED <<serverVars, heartbeatVars, lifeVars, initiated>>

\* The RPC fails: the peer is not serving, or the 500ms timeout fires first.
LoseViewChange(c) ==
  /\ c.pc = "sent" /\ (proc[c.to] # "up" \/ Timeouts)
  /\ Return(c)
  /\ UNCHANGED <<serverVars, heartbeatVars, lifeVars, initiated>>

\* Mutant: the handler adopts the leader of a view it has only heard of.
EnterAndAdopt(c) ==
  /\ Running(c, "flag")
  /\ inViewChange' = [inViewChange EXCEPT ![c.to] = TRUE]
  /\ SetLeader(c.to, c.view)
  /\ Goto(c, IF c.from = c.to THEN "seed" ELSE "vote")
  /\ UNCHANGED <<viewNumber, viewVotes, heartbeatVars, lifeVars, initiated>>

EnterViewChange(c) ==
  /\ Running(c, "flag")
  /\ inViewChange' = [inViewChange EXCEPT ![c.to] = TRUE]
  /\ Goto(c, IF c.from = c.to THEN "seed" ELSE "vote")
  /\ UNCHANGED <<viewNumber, leaderAddr, viewVotes, heartbeatVars, lifeVars, initiated>>

\* The initiator's critical section: adopt the new leader, vote for the view.
SeedVote(c) ==
  /\ Running(c, "seed")
  /\ SetLeader(c.to, c.view)
  /\ viewVotes' = [viewVotes EXCEPT ![c.to] = @ \cup {<<c.view, c.to>>}]
  /\ Goto(c, "tally")
  /\ UNCHANGED <<viewNumber, inViewChange, heartbeatVars, lifeVars, initiated>>

\* broadcastViewChange: one goroutine and one RPC per peer, none awaited.
Broadcast(c) ==
  calls' = (calls \ {c}) \cup
    {[from |-> c.to, to |-> p, view |-> c.view, pc |-> "sent"] : p \in Server \ {c.to}}

\* Mutant: half of the servers taken for a majority.
TallyHalf(c) ==
  /\ Running(c, "tally")
  /\ \/ Cardinality(VotesFor(c.to, c.view)) >= N \div 2 /\ Goto(c, "advance")
     \/ Cardinality(VotesFor(c.to, c.view)) < N \div 2 /\ Broadcast(c)
  /\ UNCHANGED <<serverVars, heartbeatVars, lifeVars, initiated>>

Tally(c) ==
  /\ Running(c, "tally")
  /\ \/ Cardinality(VotesFor(c.to, c.view)) >= Majority /\ Goto(c, "advance")
     \/ Cardinality(VotesFor(c.to, c.view)) < Majority /\ Broadcast(c)
  /\ UNCHANGED <<serverVars, heartbeatVars, lifeVars, initiated>>

\* The handler's critical section.  A server that first hears of a view counts
\* itself as agreeing; a vote commits if it leaves the count at the majority.
VotersAfter(c) ==
  VotesFor(c.to, c.view) \cup {c.from}
    \cup (IF VotesFor(c.to, c.view) = {} THEN {c.to} ELSE {})

CountVote(c) ==
  /\ Running(c, "vote")
  /\ viewVotes' = [viewVotes EXCEPT ![c.to] = @ \cup ({c.view} \X VotersAfter(c))]
  /\ \/ Cardinality(VotersAfter(c)) = Majority /\ Goto(c, "advance")
     \/ Cardinality(VotersAfter(c)) # Majority /\ Return(c)
  /\ UNCHANGED <<viewNumber, inViewChange, leaderAddr, heartbeatVars, lifeVars, initiated>>

\* Mutant: the compare-and-swap loop replaced by a store.
AdvanceByStore(c) ==
  /\ Running(c, "advance")
  /\ viewNumber' = [viewNumber EXCEPT ![c.to] = c.view]
  /\ Goto(c, "leader")
  /\ UNCHANGED <<inViewChange, leaderAddr, viewVotes, heartbeatVars, lifeVars, initiated>>

\* commitView's load / compare-and-swap loop.  A failed swap loads again, so
\* the loop takes effect at its last access: it gives up if a newer view is
\* installed, and otherwise leaves viewNumber at the committed view.
AdvanceView(c) ==
  /\ Running(c, "advance")
  /\ \/ /\ c.view < viewNumber[c.to]
        /\ Return(c)
        /\ UNCHANGED viewNumber
     \/ /\ c.view >= viewNumber[c.to]
        /\ viewNumber' = [viewNumber EXCEPT ![c.to] = c.view]
        /\ Goto(c, "leader")
  /\ UNCHANGED <<inViewChange, leaderAddr, viewVotes, heartbeatVars, lifeVars, initiated>>

CommitLeader(c) ==
  /\ Running(c, "leader")
  /\ SetLeader(c.to, c.view)
  /\ Goto(c, "clear")
  /\ UNCHANGED <<viewNumber, inViewChange, viewVotes, heartbeatVars, lifeVars, initiated>>

LeaveViewChange(c) ==
  /\ Running(c, "clear")
  /\ inViewChange' = [inViewChange EXCEPT ![c.to] = FALSE]
  /\ Return(c)
  /\ UNCHANGED <<viewNumber, leaderAddr, viewVotes, heartbeatVars, lifeVars, initiated>>

CallStep(c) ==
  \/ RejectStale(c) \/ AcceptView(c) \/ LoseViewChange(c) \/ EnterViewChange(c)
  \/ SeedVote(c) \/ Tally(c) \/ CountVote(c)
  \/ AdvanceView(c) \/ CommitLeader(c) \/ LeaveViewChange(c)

-----------------------------------------------------------------------------
(* Process failure and start-up (cmd/server main, New, PullState)          *)

\* Everything a server knows is in memory, and its goroutines die with it.
\* RPCs it has sent, or that are on their way to it, may still be delivered.
Crash(s) ==
  /\ proc[s] # "down" /\ crashes < MaxCrashes
  /\ proc' = [proc EXCEPT ![s] = "down"]
  /\ crashes' = crashes + 1
  /\ viewNumber' = [viewNumber EXCEPT ![s] = 0]
  /\ inViewChange' = [inViewChange EXCEPT ![s] = FALSE]
  /\ leaderAddr' = [leaderAddr EXCEPT ![s] = 0]
  /\ viewVotes' = [viewVotes EXCEPT ![s] = {}]
  /\ ToTop(s, 0)
  /\ calls' = {c \in calls : c.to = s => c.pc = "sent"}
  /\ pull' = [pull EXCEPT ![s] = 0]
  /\ transfer' = [transfer EXCEPT ![s] = {}]
  /\ UNCHANGED initiated

Start(s) ==
  /\ Restarts /\ proc[s] = "down"
  /\ proc' = [proc EXCEPT ![s] = "starting"]
  /\ UNCHANGED <<serverVars, heartbeatVars, pull, transfer, crashes, calls, initiated>>

\* tryPullFrom sends TransferState: the peer loads its viewNumber for the
\* response, and goes on while the response is on its way.
TransferView(s) ==
  /\ proc[s] = "starting" /\ transfer[s] = {}
  /\ pull[s] \in Server \ {s} /\ proc[pull[s]] = "up"
  /\ transfer' = [transfer EXCEPT ![s] = {viewNumber[pull[s]]}]
  /\ UNCHANGED <<serverVars, heartbeatVars, proc, pull, crashes, calls, initiated>>

\* Mutant: the recovering server takes the view after the peer's.
PullNextView(s) ==
  /\ proc[s] = "starting"
  /\ \E view \in transfer[s] :
       /\ viewNumber' = [viewNumber EXCEPT ![s] = view + 1]
       /\ SetLeader(s, view + 1)
  /\ proc' = [proc EXCEPT ![s] = "up"]
  /\ transfer' = [transfer EXCEPT ![s] = {}]
  /\ UNCHANGED <<inViewChange, viewVotes, heartbeatVars, pull, crashes, calls, initiated>>

\* The response arrives: applyTransferResp adopts that view and its leader;
\* then the server serves and starts its heartbeat.  (Nothing else in the
\* process touches this state before it serves.)
PullView(s) ==
  /\ proc[s] = "starting"
  /\ \E view \in transfer[s] :
       /\ viewNumber' = [viewNumber EXCEPT ![s] = view]
       /\ SetLeader(s, view)
  /\ proc' = [proc EXCEPT ![s] = "up"]
  /\ transfer' = [transfer EXCEPT ![s] = {}]
  /\ UNCHANGED <<inViewChange, viewVotes, heartbeatVars, pull, crashes, calls, initiated>>

\* This peer is unreachable, its response is lost, or the address is the
\* server's own, not a peer's.
PullNext(s) ==
  /\ proc[s] = "starting"
  /\ pull[s] \in Server
  /\ pull[s] = s \/ proc[pull[s]] # "up" \/ Timeouts
  /\ pull' = [pull EXCEPT ![s] = @ + 1]
  /\ transfer' = [transfer EXCEPT ![s] = {}]
  /\ UNCHANGED <<serverVars, heartbeatVars, proc, crashes, calls, initiated>>

\* No peer answered: serve with the state New made.
PullNone(s) ==
  /\ proc[s] = "starting" /\ pull[s] = N
  /\ proc' = [proc EXCEPT ![s] = "up"]
  /\ UNCHANGED <<serverVars, heartbeatVars, pull, transfer, crashes, calls, initiated>>

LifeStep(s) ==
  \/ Crash(s) \/ Start(s) \/ TransferView(s) \/ PullView(s) \/ PullNext(s) \/ PullNone(s)

-----------------------------------------------------------------------------
Next ==
  \/ \E s \in Server : HeartbeatStep(s) \/ LifeStep(s)
  \/ \E c \in calls : CallStep(c)

Spec == Init /\ [][Next]_vars

\* The heartbeat loop never ends and the Go scheduler runs every runnable
\* goroutine; an RPC is handled or fails.  Nothing obliges an operator to
\* restart a process, or a process to crash.
Fairness ==
  \A s \in Server :
    /\ WF_vars(HeartbeatStep(s))
    /\ WF_vars(\E c \in calls : c.to = s /\ CallStep(c))

FairSpec == Spec /\ Fairness

-----------------------------------------------------------------------------
(* What the election guarantees                                            *)

\* A server sends no RPC to itself and handles none of its own: a call with
\* from = to is its heartbeat goroutine, and there is at most one.
OneHeartbeat ==
  /\ \A c \in calls : c.from = c.to => c.pc \notin {"sent", "vote"}
  /\ \A c, d \in calls : c.from = c.to /\ d.from = d.to /\ c.to = d.to => c = d

\* Every variable stays in its type, and calls is what its comment says it is.
TypeOK ==
  /\ proc \in [Server -> {"up", "down", "starting"}]
  /\ viewNumber \in [Server -> Nat]
  /\ inViewChange \in [Server -> BOOLEAN]
  /\ leaderAddr \in [Server -> Server]
  /\ viewVotes \in [Server -> SUBSET (Nat \X Server)]
  /\ missCount \in [Server -> Nat]
  /\ pinging \in [Server -> Server]
  /\ calls \in SUBSET Call /\ OneHeartbeat
  /\ pull \in [Server -> 0 .. N]
  /\ transfer \in [Server -> SUBSET Nat]
  /\ crashes \in Nat
  /\ initiated \in SUBSET (Nat \X Server)

Initiators(view) == {p \in Server : <<view, p>> \in initiated}

\* No server runs commitView for a view unless a majority of the cluster stands
\* behind that view: itself, and servers that really ran initiateViewChange for
\* it, whatever RPCs were lost or delayed and whoever restarted with an empty
\* vote table in between (election.go, the two calls of commitView).
CommitBacked ==
  \A c \in calls :
    c.pc \in CommitPc => Cardinality(Initiators(c.view) \cup {c.to}) >= Majority

\* Views are taken one after the other: a server in view v, however it got
\* there, has every view up to v initiated by somebody before it.
NoViewSkipped ==
  \A s \in Server : \A v \in 1 .. viewNumber[s] : \E p \in Server : <<v, p>> \in initiated

\* A server never follows (or is) the leader of a view it has not reached:
\* leaderAddr is written only after viewNumber has been raised.
LeaderOfReachedView ==
  \A s \in Server : \E v \in 0 .. viewNumber[s] : leaderAddr[s] = LeaderOf(v)

\* viewNumber never goes back while a process lives, whichever of its
\* goroutines commit in whichever order (commitView's compare-and-swap).
ViewNeverRegresses ==
  [][\A s \in Server : proc'[s] # "down" => viewNumber'[s] >= viewNumber[s]]_vars

Down(s) == proc[s] = "down"
FollowsDead(s) == proc[s] = "up" /\ Down(leaderAddr[s])

\* A server does not follow a dead leader forever (runHeartbeat), except that
\* the model stops initiating views at MaxView.
DeadLeaderAbandoned ==
  \A s \in Server : FollowsDead(s) ~> (~FollowsDead(s) \/ viewNumber[s] = MaxView)

-----------------------------------------------------------------------------
(* What the documentation promises and the code does not keep              *)

\* IncrCounter and GetCounter execute here instead of redirecting or refusing.
Serving(s) == proc[s] = "up" /\ leaderAddr[s] = s /\ ~inViewChange[s]

\* README: committing on a majority prevents split-brain.
NoSplitBrain == \A s, t \in Server : Serving(s) /\ Serving(t) => s = t

\* README: the new leader begins serving once the view is committed.
NewLeaderServes == (\E s \in Server : Down(s)) ~> (\E s \in Server : Serving(s))
=============================================================================
