-------------------------- MODULE LeaderInterceptor --------------------------
(***************************************************************************)
(* The client's redirect interceptor, internal/client/interceptor.go: the  *)
(* calls of several workers share one LeaderInterceptor, and so one        *)
(* connection, which any of them may close and replace (rebind) while the  *)
(* others have an RPC on it.                                               *)
(*                                                                         *)
(* The cluster is its environment: a server is reached or not, and answers *)
(* OK, with a redirect, or that a view change is in progress.  Each worker *)
(* makes Calls calls, one after the other.                                 *)
(***************************************************************************)
EXTENDS Naturals, FiniteSets

CONSTANTS
  N,            \* number of servers, len(peers)
  Worker,
  Calls,        \* calls per worker
  MaxAttempts,  \* maxAttempts, 15 in the code
  Timely,       \* TRUE: elections end before a call has lost too many attempts
  Slack,        \* how many it can lose until then, if Timely
  Kills,        \* bound: how many leaders are killed, one after the other
  Restarts,     \* TRUE: a killed server may be started again
  Deadlines     \* TRUE: a call's context may come to its deadline

ASSUME NAssumption == N \in Nat \ {0}
ASSUME BoundsAssumption ==
  Calls \in Nat /\ MaxAttempts \in Nat \ {0} /\ Slack \in Nat /\ Kills \in Nat
ASSUME FlagsAssumption == {Timely, Restarts, Deadlines} \subseteq BOOLEAN

\* A server is its index in peers, the order of the -servers flag.
Server == 0 .. N - 1

VARIABLES
  alive,       \* environment: the servers that can be reached
  knows,       \* environment: knows[s], the leader s redirects to
  changing,    \* environment: changing[s], s is in a view change
  kills,
  leaderAddr,  \* where the shared connection goes
  peerIdx,
  pc,          \* pc[w]: where worker w's call is
  calls,       \* calls[w]: calls begun by w
  attempt,
  dead,        \* dead[w]: the peers this call of w found unreachable
  conn,        \* conn[w]: the server activeConn goes to
  closed,      \* closed[w]: w's RPC is lost, its connection closed by another
               \* call's rebind or reset by the server's death
  expired,     \* expired[w]: the deadline of w's call has passed
  target,      \* target[w]: the address w is about to rebind to
  result       \* result[w]: how w's last call ended

clusterVars == <<alive, knows, changing, kills>>
sharedVars == <<leaderAddr, peerIdx>>
callVars == <<pc, calls, attempt, dead, conn, closed, expired, target, result>>
vars == <<clusterVars, sharedVars, callVars>>

Init ==
  /\ alive = Server
  /\ knows = [s \in Server |-> 0]
  /\ changing = [s \in Server |-> FALSE]
  /\ kills = 0
  /\ leaderAddr = 0 /\ peerIdx = 0
  /\ pc = [w \in Worker |-> "idle"]
  /\ calls = [w \in Worker |-> 0]
  /\ attempt = [w \in Worker |-> 0]
  /\ dead = [w \in Worker |-> {}]
  /\ conn = [w \in Worker |-> 0]
  /\ closed = [w \in Worker |-> FALSE]
  /\ expired = [w \in Worker |-> FALSE]
  /\ target = [w \in Worker |-> 0]
  /\ result = [w \in Worker |-> "none"]

-----------------------------------------------------------------------------
(* The cluster, as the servers answer the client                           *)

Serves(s) == s \in alive /\ knows[s] = s /\ ~changing[s]

\* No server that is up still follows one that is down, or waits for votes.
ElectionOver == \A s \in alive : knows[s] \in alive /\ ~changing[s]

\* One leader is killed at a time, when the cluster has recovered from the last
\* kill.  An RPC on it fails with a reset stream, or, when the retries inside
\* the attempt come to dial again, with a refused connection.
Kill(s) ==
  /\ kills < Kills /\ Serves(s) /\ ElectionOver /\ alive = Server
  /\ alive' = alive \ {s}
  /\ kills' = kills + 1
  /\ \E reset \in SUBSET {w \in Worker : pc[w] = "invoked" /\ conn[w] = s} :
       closed' = [w \in Worker |-> closed[w] \/ w \in reset]
  /\ UNCHANGED <<knows, changing, sharedVars, pc, calls, attempt, dead, conn,
                 expired, target, result>>

\* s suspects its leader and moves to the next view's.
Suspect(s) ==
  /\ s \in alive /\ knows[s] \notin alive
  /\ knows' = [knows EXCEPT ![s] = (@ + 1) % N]
  /\ changing' = [changing EXCEPT ![s] = TRUE]
  /\ UNCHANGED <<alive, kills, sharedVars, callVars>>

Commit(s) ==
  /\ s \in alive /\ changing[s]
  /\ changing' = [changing EXCEPT ![s] = FALSE]
  /\ UNCHANGED <<alive, knows, kills, sharedVars, callVars>>

\* A killed server comes back with the view of a peer, perhaps one in which it
\* is still the leader.
Restart(s) ==
  /\ Restarts /\ s \notin alive
  /\ alive' = alive \cup {s}
  /\ \E p \in alive : knows' = [knows EXCEPT ![s] = knows[p]]
  /\ changing' = [changing EXCEPT ![s] = FALSE]
  /\ UNCHANGED <<kills, sharedVars, callVars>>

ClusterStep(s) == Kill(s) \/ Suspect(s) \/ Commit(s) \/ Restart(s)

-----------------------------------------------------------------------------
(* One call: the loop of Unary                                             *)

Begin(w) ==
  /\ pc[w] = "idle" /\ calls[w] < Calls
  /\ pc' = [pc EXCEPT ![w] = "read"]
  /\ calls' = [calls EXCEPT ![w] = @ + 1]
  /\ attempt' = [attempt EXCEPT ![w] = 0]
  /\ dead' = [dead EXCEPT ![w] = {}]
  /\ expired' = [expired EXCEPT ![w] = FALSE]
  /\ UNCHANGED <<clusterVars, sharedVars, conn, closed, target, result>>

End(w, how) ==
  /\ pc' = [pc EXCEPT ![w] = "idle"]
  /\ result' = [result EXCEPT ![w] = how]

\* The top of the loop: the connection and its address, read together.
ReadLeader(w) ==
  /\ pc[w] = "read" /\ attempt[w] < MaxAttempts
  /\ conn' = [conn EXCEPT ![w] = leaderAddr]
  /\ closed' = [closed EXCEPT ![w] = FALSE]
  /\ pc' = [pc EXCEPT ![w] = "invoked"]
  /\ UNCHANGED <<clusterVars, sharedVars, calls, attempt, dead, expired, target, result>>

ExceedAttempts(w) ==
  /\ pc[w] = "read" /\ attempt[w] = MaxAttempts
  /\ End(w, "exceeded")
  /\ UNCHANGED <<clusterVars, sharedVars, calls, attempt, dead, conn, closed, expired, target>>

\* An attempt takes its time: in a timely cluster any election is over after
\* Slack of them.  The code does not ensure it: a new leader that never gathers
\* a majority of votes (module Election) stays in its view change for ever.
TimeFor(w) == Timely => ElectionOver \/ attempt[w] < Slack

\* Mutant: going round the loop does not count the attempt.
RetryUncounted(w) ==
  /\ TimeFor(w)
  /\ pc' = [pc EXCEPT ![w] = "read"]
  /\ UNCHANGED attempt

Retry(w) ==
  /\ TimeFor(w)
  /\ attempt' = [attempt EXCEPT ![w] = @ + 1]
  /\ pc' = [pc EXCEPT ![w] = "read"]

\* The context's deadline passes.  The loop does not look at it: it goes on, and
\* the invoker returns DeadlineExceeded at once whatever the server would say.
Expire(w) ==
  /\ Deadlines /\ pc[w] # "idle" /\ ~expired[w]
  /\ expired' = [expired EXCEPT ![w] = TRUE]
  /\ UNCHANGED <<clusterVars, sharedVars, pc, calls, attempt, dead, conn, closed, target, result>>

\* The invoker returns.  An RPC on a connection that was closed or reset fails
\* whatever the server did, and not as a transport failure: Canceled, or
\* Unavailable with neither of the messages that isTransportFailure looks for.
Lost(w) == closed[w] \/ expired[w]
Answered(w) == pc[w] = "invoked" /\ ~Lost(w) /\ conn[w] \in alive
Redirected(w) == Answered(w) /\ knows[conn[w]] # conn[w]

\* Not a transport failure (a view change, a lost RPC, the deadline), or a redirect
\* to a peer this call found dead: sleep, and retry.
WaitAndRetry(w) ==
  /\ \/ pc[w] = "invoked" /\ Lost(w)
     \/ Answered(w) /\ knows[conn[w]] = conn[w] /\ changing[conn[w]]
     \/ Redirected(w) /\ knows[conn[w]] \in dead[w]
  /\ Retry(w)
  /\ UNCHANGED <<clusterVars, sharedVars, calls, dead, conn, closed, expired, target, result>>

\* Mutant: the hint is followed although this call found that peer dead.
FollowAnyway(w) ==
  /\ Redirected(w)
  /\ target' = [target EXCEPT ![w] = knows[conn[w]]]
  /\ pc' = [pc EXCEPT ![w] = "rebind"]
  /\ UNCHANGED <<clusterVars, sharedVars, calls, attempt, dead, conn, closed, expired, result>>

FollowRedirect(w) ==
  /\ Redirected(w) /\ knows[conn[w]] \notin dead[w]
  /\ target' = [target EXCEPT ![w] = knows[conn[w]]]
  /\ pc' = [pc EXCEPT ![w] = "rebind"]
  /\ UNCHANGED <<clusterVars, sharedVars, calls, attempt, dead, conn, closed, expired, result>>

TransportFailure(w) ==
  /\ pc[w] = "invoked" /\ ~Lost(w) /\ conn[w] \notin alive
  /\ dead' = [dead EXCEPT ![w] = @ \cup {conn[w]}]
  /\ pc' = [pc EXCEPT ![w] = "next"]
  /\ UNCHANGED <<clusterVars, sharedVars, calls, attempt, conn, closed, expired, target, result>>

Succeed(w) ==
  /\ Answered(w) /\ Serves(conn[w])
  /\ End(w, "ok")
  /\ UNCHANGED <<clusterVars, sharedVars, calls, attempt, dead, conn, closed, expired, target>>

\* nextAlivePeer, one critical section: peerIdx advances to the first peer that
\* this call has not found dead, once around the list at most.
\* Mutant: the index runs past the end of the list.
AfterNoWrap(i) == peerIdx + i

After(i) == (peerIdx + i) % N
Distances(w) == {i \in 1 .. N : After(i) \notin dead[w]}

NextAlivePeer(w) ==
  /\ pc[w] = "next" /\ Distances(w) # {}
  /\ LET i == CHOOSE d \in Distances(w) : \A e \in Distances(w) : d <= e IN
       /\ peerIdx' = After(i)
       /\ target' = [target EXCEPT ![w] = After(i)]
  /\ pc' = [pc EXCEPT ![w] = "rebind"]
  /\ UNCHANGED <<clusterVars, leaderAddr, calls, attempt, dead, conn, closed, expired, result>>

AllUnreachable(w) ==
  /\ pc[w] = "next" /\ Distances(w) = {}
  /\ End(w, "unreachable")
  /\ UNCHANGED <<clusterVars, sharedVars, calls, attempt, dead, conn, closed, expired, target>>

\* rebind, another critical section: a new connection replaces and closes the
\* shared one, unless it already goes to the target.
Rebind(w) ==
  /\ pc[w] = "rebind"
  /\ leaderAddr' = target[w]
  /\ closed' = [v \in Worker |-> closed[v] \/ leaderAddr # target[w]]
  /\ Retry(w)
  /\ UNCHANGED <<clusterVars, peerIdx, calls, dead, conn, expired, target, result>>

CallStep(w) ==
  \/ Begin(w) \/ ReadLeader(w) \/ ExceedAttempts(w) \/ WaitAndRetry(w)
  \/ FollowRedirect(w) \/ TransportFailure(w) \/ Succeed(w)
  \/ NextAlivePeer(w) \/ AllUnreachable(w) \/ Rebind(w)

Next ==
  \/ \E s \in Server : ClusterStep(s)
  \/ \E w \in Worker : CallStep(w) \/ Expire(w)

Spec == Init /\ [][Next]_vars

\* RPCs return, sleeps end and the lock is granted.  Nothing is assumed of the
\* cluster: a suspicion or a commit may never come.
Fairness == \A w \in Worker : WF_vars(CallStep(w))

FairSpec == Spec /\ Fairness

-----------------------------------------------------------------------------
(* What the interceptor guarantees                                         *)

\* Every variable stays in its type.
TypeOK ==
  /\ alive \subseteq Server
  /\ knows \in [Server -> Server]
  /\ changing \in [Server -> BOOLEAN]
  /\ kills \in Nat
  /\ leaderAddr \in Server /\ peerIdx \in Server
  /\ pc \in [Worker -> {"idle", "read", "invoked", "next", "rebind"}]
  /\ calls \in [Worker -> Nat]
  /\ attempt \in [Worker -> Nat]
  /\ dead \in [Worker -> SUBSET Server]
  /\ conn \in [Worker -> Server]
  /\ closed \in [Worker -> BOOLEAN]
  /\ expired \in [Worker -> BOOLEAN]
  /\ target \in [Worker -> Server]
  /\ result \in [Worker -> {"none", "ok", "exceeded", "unreachable"}]

\* Transparent failover: no call fails because a leader died, although the
\* calls of other workers keep closing the connection under it.
FailoverTransparent == \A w \in Worker : result[w] \in {"none", "ok"}

\* Every call ends, also when its deadline passes, servers come and go or an
\* election never ends.
CallsEnd == \A w \in Worker : (pc[w] # "idle") ~> (pc[w] = "idle")
=============================================================================
