-------------------------- MODULE InterceptorProofs --------------------------
(***************************************************************************)
(* Theorems about the redirect interceptor.  For any number of workers on  *)
(* one connection: types, and that a call never gives up on the cluster as *)
(* unreachable.  For one worker, as in cmd/client/main.go, and for two that *)
(* share the connection, as the workers of cmd/loadgen/main.go do: that it *)
(* does not run out of attempts either, so that a failover is transparent. *)
(***************************************************************************)
EXTENDS LeaderInterceptor, WellFoundedInduction, TLAPS

LEMMA ModRange ==
  ASSUME NEW a \in Nat, NEW n \in Nat \ {0}
  PROVE  a % n \in 0 .. n - 1
  OBVIOUS

\* Once around the list is enough to come to any peer.
LEMMA PeerInReach ==
  ASSUME NEW p \in Server, NEW s \in Server
  PROVE  \E d \in 1 .. N : (p + d) % N = s
  <1>n. N \in Nat \ {0} /\ p \in 0 .. N - 1 /\ s \in 0 .. N - 1
    BY NAssumption DEF Server
  <1>1. CASE s > p
    <2>1. s - p \in 1 .. N /\ p + (s - p) = s
      BY <1>1, <1>n
    <2>2. s % N = s
      BY <1>n
    <2> QED
      BY <2>1, <2>2
  <1>2. CASE s <= p
    <2>1. s - p + N \in 1 .. N /\ p + (s - p + N) = s + N
      BY <1>2, <1>n
    <2>2. (s + N) % N = s
      BY <1>n
    <2> QED
      BY <2>1, <2>2
  <1> QED
    BY <1>1, <1>2, <1>n

LEMMA NextServer == \A s \in Server : (s + 1) % N \in Server
  BY NAssumption, ModRange DEF Server

\* A set of numbers that is not empty has a smallest element.
LEMMA SmallestExists ==
  ASSUME NEW S \in SUBSET Nat, S # {}
  PROVE  \E d \in S : \A e \in S : d <= e
  <1>1. PICK d \in S : \A e \in S : ~ (<<e, d>> \in OpToRel(<, Nat))
    BY NatLessThanWellFounded, WFMin
  <1>2. \A e \in S : ~ (e < d)
    BY <1>1 DEF OpToRel
  <1> QED
    BY <1>2

\* nextAlivePeer stops at the first peer that is not marked.
LEMMA FirstDistance ==
  ASSUME NEW w \in Worker, Distances(w) # {}
  PROVE  (CHOOSE d \in Distances(w) : \A e \in Distances(w) : d <= e) \in Distances(w)
  <1>1. Distances(w) \subseteq Nat
    BY NAssumption DEF Distances
  <1>2. \E d \in Distances(w) : \A e \in Distances(w) : d <= e
    BY <1>1, SmallestExists
  <1> QED
    BY <1>2

-----------------------------------------------------------------------------
(* Types                                                                   *)

LEMMA TypeInit == Init => TypeOK
  BY NAssumption DEF Init, TypeOK, Server

LEMMA TypeStep == TypeOK /\ [Next]_vars => TypeOK'
  <1> SUFFICES ASSUME TypeOK, [Next]_vars PROVE TypeOK'
    OBVIOUS
  <1>1. ASSUME NEW s \in Server, Kill(s) PROVE TypeOK'
    <2>1. PICK reset \in SUBSET Worker : closed' = [w \in Worker |-> closed[w] \/ w \in reset]
      BY <1>1 DEF Kill
    <2>2. closed' \in [Worker -> BOOLEAN]
      BY <2>1, Zenon
    <2>3. alive' \subseteq Server /\ kills' \in Nat
      BY <1>1 DEF Kill, TypeOK
    <2> QED
      BY <1>1, <2>2, <2>3 DEF Kill, TypeOK, sharedVars
  <1>2. ASSUME NEW s \in Server, Suspect(s) PROVE TypeOK'
    <2>1. knows[s] \in Server
      BY DEF TypeOK
    <2>2. (knows[s] + 1) % N \in Server
      BY <2>1, NextServer
    <2>3. knows' \in [Server -> Server] /\ changing' \in [Server -> BOOLEAN]
      BY <1>2, <2>2 DEF Suspect, TypeOK
    <2> QED
      BY <1>2, <2>3 DEF Suspect, TypeOK, sharedVars, callVars
  <1>3. ASSUME NEW s \in Server, Commit(s) PROVE TypeOK'
    BY <1>3 DEF Commit, TypeOK, sharedVars, callVars
  <1>4. ASSUME NEW s \in Server, Restart(s) PROVE TypeOK'
    BY <1>4 DEF Restart, TypeOK, sharedVars, callVars
  <1>5. ASSUME NEW w \in Worker, Begin(w) PROVE TypeOK'
    BY <1>5 DEF Begin, TypeOK, clusterVars, sharedVars
  <1>6. ASSUME NEW w \in Worker, ReadLeader(w) PROVE TypeOK'
    BY <1>6 DEF ReadLeader, TypeOK, clusterVars, sharedVars
  <1>7. ASSUME NEW w \in Worker, ExceedAttempts(w) PROVE TypeOK'
    BY <1>7 DEF ExceedAttempts, End, TypeOK, clusterVars, sharedVars
  <1>8. ASSUME NEW w \in Worker, WaitAndRetry(w) PROVE TypeOK'
    BY <1>8 DEF WaitAndRetry, Retry, TypeOK, clusterVars, sharedVars
  <1>9. ASSUME NEW w \in Worker, FollowRedirect(w) PROVE TypeOK'
    BY <1>9 DEF FollowRedirect, TypeOK, clusterVars, sharedVars
  <1>10. ASSUME NEW w \in Worker, TransportFailure(w) PROVE TypeOK'
    BY <1>10 DEF TransportFailure, TypeOK, clusterVars, sharedVars
  <1>11. ASSUME NEW w \in Worker, Succeed(w) PROVE TypeOK'
    BY <1>11 DEF Succeed, End, TypeOK, clusterVars, sharedVars
  <1>12. ASSUME NEW w \in Worker, NextAlivePeer(w) PROVE TypeOK'
    <2>1. PICK i \in Distances(w) : peerIdx' = After(i) /\ target' = [target EXCEPT ![w] = After(i)]
      BY <1>12, FirstDistance DEF NextAlivePeer
    <2>2. After(i) \in Server
      <3>1. peerIdx + i \in Nat
        BY NAssumption DEF TypeOK, Distances, Server
      <3> QED
        BY <3>1, ModRange, NAssumption DEF After, Server
    <2> QED
      BY <1>12, <2>1, <2>2 DEF NextAlivePeer, TypeOK, clusterVars
  <1>13. ASSUME NEW w \in Worker, AllUnreachable(w) PROVE TypeOK'
    BY <1>13 DEF AllUnreachable, End, TypeOK, clusterVars, sharedVars
  <1>14. ASSUME NEW w \in Worker, Rebind(w) PROVE TypeOK'
    <2>1. closed' = [v \in Worker |-> closed[v] \/ leaderAddr # target[w]]
      BY <1>14 DEF Rebind
    <2>2. closed' \in [Worker -> BOOLEAN]
      BY <2>1, Zenon
    <2> QED
      BY <1>14, <2>2 DEF Rebind, Retry, TypeOK, clusterVars
  <1>15. ASSUME NEW w \in Worker, Expire(w) PROVE TypeOK'
    BY <1>15 DEF Expire, TypeOK, clusterVars, sharedVars
  <1>16. CASE UNCHANGED vars
    BY <1>16 DEF TypeOK, vars, clusterVars, sharedVars, callVars
  <1> QED
    BY <1>1, <1>2, <1>3, <1>4, <1>5, <1>6, <1>7, <1>8, <1>9, <1>10, <1>11, <1>12, <1>13, <1>14, <1>15, <1>16
    DEF Next, ClusterStep, CallStep

\* Every variable of the interceptor stays in its type: the index and the address
\* it dials next are always in the list of peers.
THEOREM InterceptorTypes == Spec => []TypeOK
  BY TypeInit, TypeStep, PTL DEF Spec

-----------------------------------------------------------------------------
(* A peer marked dead is dead                                              *)

\* Without restarts at most one server is down, and the marks of all calls are true.
DeadMarks ==
  /\ alive = Server \/ \E s \in Server : alive = Server \ {s}
  /\ \A w \in Worker : dead[w] \cap alive = {}
  /\ \A w \in Worker : result[w] # "unreachable"

\* A call that looks for a peer finds one.
LEMMA PeerLeft ==
  ASSUME N > 1, TypeOK, DeadMarks, NEW w \in Worker
  PROVE  Distances(w) # {}
  <1>1. PICK s \in Server : s \in alive
    <2>1. 0 \in Server /\ 1 \in Server
      BY NAssumption DEF Server
    <2> QED
      BY <2>1 DEF DeadMarks
  <1>2. PICK d \in 1 .. N : (peerIdx + d) % N = s
    BY PeerInReach DEF TypeOK
  <1>3. s \notin dead[w]
    BY <1>1 DEF DeadMarks
  <1> QED
    BY <1>2, <1>3 DEF Distances, After

LEMMA DeadMarksStep ==
  ASSUME ~Restarts, N > 1, TypeOK, DeadMarks, [Next]_vars
  PROVE  DeadMarks'
  <1>1. ASSUME NEW s \in Server, Kill(s) PROVE DeadMarks'
    <2>1. alive = Server /\ alive' = alive \ {s} /\ dead' = dead /\ result' = result
      BY <1>1 DEF Kill
    <2> QED
      BY <2>1 DEF DeadMarks
  <1>2. ASSUME NEW s \in Server, Suspect(s) \/ Commit(s) PROVE DeadMarks'
    BY <1>2 DEF Suspect, Commit, callVars, DeadMarks
  <1>3. ASSUME NEW w \in Worker, CallStep(w) \/ Expire(w)
        PROVE  DeadMarks'
    <2>1. alive' = alive
      BY <1>3 DEF CallStep, Begin, ReadLeader, ExceedAttempts, WaitAndRetry, FollowRedirect, TransportFailure,
                  Succeed, NextAlivePeer, AllUnreachable, Rebind, Expire, clusterVars
    <2>2. \A v \in Worker : dead'[v] \cap alive = {}
      <3>1. CASE dead' = dead
        BY <3>1 DEF DeadMarks
      <3>2. CASE dead' = [dead EXCEPT ![w] = {}]
        BY <3>2 DEF DeadMarks, TypeOK
      <3>3. CASE TransportFailure(w)
        <4>1. conn[w] \notin alive /\ dead' = [dead EXCEPT ![w] = @ \cup {conn[w]}]
          BY <3>3 DEF TransportFailure
        <4> QED
          BY <4>1 DEF DeadMarks, TypeOK
      <3> QED
        BY <1>3, <3>1, <3>2, <3>3
        DEF CallStep, Begin, ReadLeader, ExceedAttempts, WaitAndRetry, FollowRedirect,
            Succeed, NextAlivePeer, AllUnreachable, Rebind, Expire
    <2>3. \A v \in Worker : result'[v] # "unreachable"
      <3>1. CASE result' = result
        BY <3>1 DEF DeadMarks
      <3>2. CASE End(w, "ok") \/ End(w, "exceeded")
        BY <3>2 DEF End, DeadMarks, TypeOK
      <3>3. ~AllUnreachable(w)
        BY PeerLeft DEF AllUnreachable
      <3> QED
        BY <1>3, <3>1, <3>2, <3>3
        DEF CallStep, Begin, ReadLeader, ExceedAttempts, WaitAndRetry, FollowRedirect, TransportFailure,
            Succeed, NextAlivePeer, Rebind, Expire
    <2> QED
      BY <2>1, <2>2, <2>3 DEF DeadMarks
  <1>4. CASE UNCHANGED vars
    BY <1>4 DEF DeadMarks, vars, clusterVars, callVars
  <1> QED
    BY <1>1, <1>2, <1>3, <1>4 DEF Next, ClusterStep, Restart

LEMMA DeadMarksInit == Init => DeadMarks
  BY DEF Init, DeadMarks

\* Without restarts every mark a call makes stays true, so no call of any worker
\* ends with "all peers unreachable": there is always a peer that
\* nextAlivePeer has not crossed out.
THEOREM AlwaysAPeer ==
  ASSUME ~Restarts, N > 1
  PROVE  Spec => [](\A w \in Worker : result[w] # "unreachable")
  <1>1. TypeOK /\ DeadMarks /\ [Next]_vars => DeadMarks'
    BY DeadMarksStep
  <1>2. DeadMarks => \A w \in Worker : result[w] # "unreachable"
    BY DEF DeadMarks
  <1> QED
    BY <1>1, <1>2, DeadMarksInit, InterceptorTypes, PTL DEF Spec

-----------------------------------------------------------------------------
(* One worker: the attempts suffice                                        *)

W == CHOOSE w \in Worker : TRUE

\* One worker; elections are timely, no server comes back and no deadline passes;
\* three attempts more than an election may cost.
OneWorker ==
  /\ Worker = {W} /\ N > 1
  /\ Timely /\ ~Restarts /\ ~Deadlines
  /\ MaxAttempts > Slack + 3

Killed == alive # Server

\* Server 0 leads until it is killed, then server 1.
Cluster ==
  /\ alive \in {Server, Server \ {0}}
  /\ \A s \in Server : knows[s] \in {0, 1} /\ (changing[s] => knows[s] = 1)
  /\ ~Killed => \A s \in Server : knows[s] = 0

\* The client has not met the failure, has met it, or has found the new leader.
Leads(x) == x = 1 /\ Serves(1)
Known(x) == x = 0 \/ Leads(x) \/ 0 \in dead[W]

Calling ==
  /\ dead[W] \subseteq {0} /\ ~expired[W]
  /\ ~Killed => /\ leaderAddr = 0 /\ pc[W] \in {"idle", "read", "invoked"}
                /\ pc[W] # "idle" => attempt[W] = 0
  /\ pc[W] = "idle" => leaderAddr = 0 \/ Leads(leaderAddr)
  /\ pc[W] = "read" => Known(leaderAddr)
  /\ pc[W] = "invoked" => /\ conn[W] = leaderAddr /\ Known(conn[W])
                          /\ closed[W] => Killed /\ conn[W] = 0
  /\ pc[W] = "next" => dead[W] = {0}
  /\ pc[W] = "rebind" => target[W] # 0 /\ Known(target[W])

\* Attempts that may still fail once the election is over: at the dead leader
\* and then at a follower; one more when the call's RPC was reset by the kill.
Away(x) == IF x = 0 THEN 2 ELSE IF x = 1 THEN 0 ELSE 1

Left ==
  CASE pc[W] = "idle" -> 0
    [] pc[W] = "read" -> Away(leaderAddr)
    [] pc[W] = "invoked" -> IF closed[W] THEN 3 ELSE Away(conn[W])
    [] pc[W] = "next" -> 2
    [] pc[W] = "rebind" -> 1 + Away(target[W])

Budget ==
  pc[W] # "idle" =>
    \/ attempt[W] <= Slack
    \/ ElectionOver /\ Killed /\ attempt[W] + Left <= Slack + 3

WInv == Cluster /\ Calling /\ Budget /\ FailoverTransparent

LEMMA TwoServers ==
  ASSUME OneWorker
  PROVE  /\ 0 \in Server /\ 1 \in Server /\ (0 + 1) % N = 1
         /\ W \in Worker /\ \A w \in Worker : w = W
  <1>1. 0 \in Server /\ 1 \in Server /\ (0 + 1) % N = 1
    BY NAssumption DEF OneWorker, Server
  <1> QED
    BY <1>1 DEF OneWorker

LEMMA LeftBounded ==
  ASSUME OneWorker, TypeOK
  PROVE  Left \in 0 .. 3 /\ attempt[W] \in Nat /\ Slack \in Nat
  <1>1. pc[W] \in {"idle", "read", "invoked", "next", "rebind"} /\ attempt[W] \in Nat
    BY TwoServers DEF TypeOK
  <1>2. \A x : Away(x) \in 0 .. 2
    BY DEF Away
  <1>3. \A x : 1 + Away(x) \in 0 .. 3 /\ Away(x) \in 0 .. 3
    BY <1>2
  <1> HIDE DEF Away
  <1> QED
    BY <1>1, <1>3, BoundsAssumption DEF Left

\* What an election that is over leaves: all live servers know server 1.
LEMMA OverMeans ==
  ASSUME OneWorker, TypeOK, Cluster, ElectionOver, Killed
  PROVE  /\ alive = Server \ {0}
         /\ \A s \in alive : knows[s] = 1 /\ ~changing[s]
         /\ Serves(1)
  BY TwoServers DEF Cluster, Killed, ElectionOver, Serves

-----------------------------------------------------------------------------
(* The steps of the cluster                                                *)

LEMMA ClusterKeeps ==
  ASSUME OneWorker, TypeOK, TypeOK', WInv, NEW s \in Server, ClusterStep(s)
  PROVE  WInv'
  <1>1. CASE Kill(s)
    <2>1. alive = Server /\ s = 0 /\ alive' = Server \ {0}
      BY <1>1 DEF Kill, Serves, WInv, Cluster, Killed
    <2>2. /\ ~Killed /\ Killed'
      BY <2>1, TwoServers DEF Killed
    <2>3. /\ UNCHANGED <<knows, changing, leaderAddr, pc, attempt, dead, conn, expired, target, result>>
          /\ closed'[W] => closed[W] \/ (pc[W] = "invoked" /\ conn[W] = 0)
      <3>1. PICK reset \in SUBSET {w \in Worker : pc[w] = "invoked" /\ conn[w] = s} :
              closed' = [w \in Worker |-> closed[w] \/ w \in reset]
        BY <1>1 DEF Kill
      <3> QED
        BY <1>1, <2>1, <3>1, TwoServers DEF Kill, sharedVars
    <2>4. Cluster'
      BY <2>1, <2>3, <2>2 DEF WInv, Cluster, Killed
    <2>5. Calling'
      BY <2>2, <2>3 DEF WInv, Calling, Known, Leads
    <2>6. Budget'
      <3>1. attempt[W] \in Nat /\ Slack \in Nat
        BY LeftBounded
      <3> QED
        BY <2>2, <2>3, <3>1 DEF WInv, Calling, Budget
    <2>7. FailoverTransparent'
      BY <2>3 DEF WInv, FailoverTransparent
    <2> QED
      BY <2>4, <2>5, <2>6, <2>7 DEF WInv
  <1>2. CASE Suspect(s) \/ Commit(s)
    <2>1. /\ UNCHANGED <<alive, leaderAddr, pc, attempt, dead, conn, closed, expired, target, result>>
          /\ s \in alive
      BY <1>2 DEF Suspect, Commit, sharedVars, callVars
    <2>2. Killed /\ Killed' /\ ~ElectionOver
      BY <1>2, <2>1 DEF WInv, Cluster, Killed, Suspect, Commit, ElectionOver, TypeOK
    <2>3. Serves(1) => Serves(1)'
      <3>1. CASE Suspect(s)
        <4>1. Serves(1) => s # 1
          BY <3>1 DEF Suspect, Serves
        <4> QED
          BY <3>1, <4>1, TwoServers DEF Suspect, Serves, TypeOK
      <3>2. CASE Commit(s)
        BY <3>2, TwoServers DEF Commit, Serves, TypeOK
      <3> QED
        BY <1>2, <3>1, <3>2
    <2>4. Cluster'
      <3>1. CASE Suspect(s)
        <4>1. alive = Server \ {0}
          BY <2>2 DEF WInv, Cluster, Killed
        <4>2. knows[s] = 0
          BY <3>1, <4>1, TwoServers DEF Suspect, WInv, Cluster, TypeOK
        <4>3. knows' = [knows EXCEPT ![s] = 1] /\ changing' = [changing EXCEPT ![s] = TRUE]
          BY <3>1, <4>2, TwoServers DEF Suspect
        <4> QED
          BY <2>1, <2>2, <4>1, <4>3 DEF WInv, Cluster, TypeOK
      <3>2. CASE Commit(s)
        BY <2>1, <2>2, <3>2 DEF Commit, WInv, Cluster, TypeOK
      <3> QED
        BY <1>2, <3>1, <3>2
    <2>5. Calling'
      BY <2>1, <2>2, <2>3 DEF WInv, Calling, Known, Leads
    <2>6. Budget'
      BY <2>1, <2>2 DEF WInv, Budget
    <2>7. FailoverTransparent'
      BY <2>1 DEF WInv, FailoverTransparent
    <2> QED
      BY <2>4, <2>5, <2>6, <2>7 DEF WInv
  <1> QED
    BY <1>1, <1>2 DEF ClusterStep, Restart, OneWorker

-----------------------------------------------------------------------------
(* The steps of the call                                                   *)

\* No call step changes the cluster, so what it knows of the leader stays true.
LEMMA CallFrame ==
  ASSUME OneWorker, WInv, CallStep(W)
  PROVE  /\ Cluster' /\ (Killed' <=> Killed) /\ (ElectionOver' <=> ElectionOver)
         /\ \A x : Leads(x)' <=> Leads(x)
         /\ UNCHANGED <<alive, knows, changing, expired>> \/ Begin(W)
  <1>1. UNCHANGED <<alive, knows, changing>>
    BY DEF CallStep, Begin, ReadLeader, ExceedAttempts, WaitAndRetry, FollowRedirect, TransportFailure,
           Succeed, NextAlivePeer, AllUnreachable, Rebind, clusterVars
  <1>2. UNCHANGED expired \/ Begin(W)
    BY DEF CallStep, ReadLeader, ExceedAttempts, WaitAndRetry, FollowRedirect, TransportFailure,
           Succeed, NextAlivePeer, AllUnreachable, Rebind
  <1> QED
    BY <1>1, <1>2 DEF WInv, Cluster, Killed, ElectionOver, Leads, Serves

\* A call goes round its loop: the attempt is paid for by what was left.
LEMMA RetryPays ==
  ASSUME OneWorker, TypeOK, TypeOK', WInv, CallStep(W), Retry(W), pc[W] # "idle", Killed,
         ElectionOver => Left' + 1 <= Left
  PROVE  Budget'
  <1>1. Left \in 0 .. 3 /\ attempt[W] \in Nat /\ Slack \in Nat
    BY LeftBounded
  <1>2. Left' \in 0 .. 3
    <2>1. pc'[W] = "read" /\ W \in Worker
      BY TwoServers DEF Retry, TypeOK
    <2> QED
      BY <2>1 DEF Left, Away
  <1>3. attempt'[W] = attempt[W] + 1
    BY TwoServers DEF Retry, TypeOK
  <1>4. (Killed' <=> Killed) /\ (ElectionOver' <=> ElectionOver)
    BY CallFrame
  <1> HIDE DEF Left
  <1>5. CASE attempt[W] < Slack
    BY <1>1, <1>3, <1>5 DEF Budget
  <1>6. CASE ~(attempt[W] < Slack)
    <2>1. ElectionOver
      BY <1>6 DEF Retry, TimeFor, OneWorker
    <2>2. attempt[W] + Left <= Slack + 3
      BY <1>1, <2>1 DEF WInv, Budget
    <2>3. Left' + 1 <= Left
      BY <2>1
    <2>4. attempt'[W] + Left' <= Slack + 3
      <3>1. PICK before \in Int : before = Left
        BY <1>1
      <3>2. PICK after \in Int : after = Left'
        BY <1>2
      <3>3. PICK a \in Int : a = attempt[W]
        BY <1>1
      <3>4. a + before <= Slack + 3
        BY <2>2, <3>1, <3>3, Zenon
      <3>5. after + 1 <= before
        BY <2>3, <3>1, <3>2, Zenon
      <3>6. Slack \in Int
        BY <1>1
      <3>7. a + 1 + after <= Slack + 3
        BY ONLY <3>4, <3>5, <3>6, a \in Int, before \in Int, after \in Int
      <3> QED
        BY <1>3, <3>2, <3>3, <3>7
    <2> QED
      BY <1>4, <2>1, <2>4 DEF Budget
  <1> QED
    BY <1>5, <1>6

\* The other steps cost no attempt and leave no more to be done.
LEMMA NoAttempt ==
  ASSUME OneWorker, TypeOK, WInv, CallStep(W), pc[W] # "idle", attempt' = attempt,
         ElectionOver /\ Killed => Left' <= Left /\ Left' \in Nat
  PROVE  Budget'
  <1>1. Left \in 0 .. 3 /\ attempt[W] \in Nat /\ Slack \in Nat
    BY LeftBounded
  <1>2. (Killed' <=> Killed) /\ (ElectionOver' <=> ElectionOver)
    BY CallFrame
  <1> HIDE DEF Left
  <1> QED
    BY <1>1, <1>2 DEF WInv, Budget

LEMMA BeginKeeps ==
  ASSUME OneWorker, TypeOK, WInv, Begin(W)
  PROVE  Calling' /\ Budget' /\ FailoverTransparent'
  <1>1. /\ pc[W] = "idle" /\ pc'[W] = "read" /\ attempt'[W] = 0 /\ dead'[W] = {} /\ ~expired'[W]
        /\ UNCHANGED <<leaderAddr, result>>
    BY TwoServers DEF Begin, TypeOK, sharedVars
  <1>2. (Killed' <=> Killed) /\ \A x : Leads(x)' <=> Leads(x)
    BY CallFrame DEF CallStep
  <1>3. Calling'
    BY <1>1, <1>2 DEF WInv, Calling, Known
  <1>4. Budget'
    BY <1>1, BoundsAssumption DEF Budget
  <1> QED
    BY <1>1, <1>3, <1>4 DEF WInv, FailoverTransparent

LEMMA ReadLeaderKeeps ==
  ASSUME OneWorker, TypeOK, WInv, ReadLeader(W)
  PROVE  Calling' /\ Budget' /\ FailoverTransparent'
  <1>1. /\ pc[W] = "read" /\ pc'[W] = "invoked" /\ conn'[W] = leaderAddr /\ ~closed'[W]
        /\ UNCHANGED <<leaderAddr, attempt, dead, expired, result>>
    BY TwoServers DEF ReadLeader, TypeOK, sharedVars
  <1>2. (Killed' <=> Killed) /\ \A x : Leads(x)' <=> Leads(x)
    BY CallFrame DEF CallStep
  <1>3. Calling'
    BY <1>1, <1>2 DEF WInv, Calling, Known
  <1>4. Left' = Left /\ Left' \in Nat
    BY <1>1 DEF Left, Away
  <1>5. Budget'
    <2>1. Left \in 0 .. 3
      BY LeftBounded
    <2> HIDE DEF Left
    <2> QED
      BY <1>1, <1>4, <2>1, NoAttempt DEF CallStep
  <1> QED
    BY <1>1, <1>3, <1>5 DEF WInv, FailoverTransparent

\* The attempts are never used up.
LEMMA NeverExceeds ==
  ASSUME OneWorker, TypeOK, WInv
  PROVE  ~ExceedAttempts(W)
  <1>1. Left \in 0 .. 3 /\ attempt[W] \in Nat /\ Slack \in Nat /\ MaxAttempts \in Nat
    BY LeftBounded, BoundsAssumption
  <1> HIDE DEF Left
  <1> QED
    BY <1>1 DEF ExceedAttempts, WInv, Budget, OneWorker

LEMMA WaitKeeps ==
  ASSUME OneWorker, TypeOK, TypeOK', WInv, WaitAndRetry(W)
  PROVE  Calling' /\ Budget' /\ FailoverTransparent'
  <1>1. /\ pc[W] = "invoked" /\ pc'[W] = "read" /\ Retry(W)
        /\ UNCHANGED <<leaderAddr, dead, conn, closed, expired, result>>
    BY TwoServers DEF WaitAndRetry, Retry, Answered, Redirected, TypeOK, sharedVars
  <1>2. (Killed' <=> Killed) /\ \A x : Leads(x)' <=> Leads(x)
    BY CallFrame DEF CallStep
  <1>3. Killed
    BY <1>1, TwoServers DEF WaitAndRetry, Lost, Answered, Redirected, WInv, Cluster, Calling, TypeOK
  <1>4. Calling'
    BY <1>1, <1>2, <1>3 DEF WInv, Calling, Known
  <1>5. ASSUME ElectionOver PROVE Left' + 1 <= Left
    <2>1. /\ alive = Server \ {0}
          /\ \A s \in alive : knows[s] = 1 /\ ~changing[s]
      BY <1>3, <1>5, OverMeans DEF WInv
    <2>2. closed[W] /\ conn[W] = 0 /\ leaderAddr = 0
      BY <1>1, <2>1, TwoServers DEF WaitAndRetry, Lost, Answered, Redirected, WInv, Calling
    <2> QED
      BY <1>1, <2>2 DEF Left, Away
  <1>6. Budget'
    <2> HIDE DEF Left
    <2> QED
      BY <1>1, <1>3, <1>5, RetryPays DEF CallStep
  <1> QED
    BY <1>1, <1>4, <1>6 DEF WInv, FailoverTransparent

LEMMA FollowKeeps ==
  ASSUME OneWorker, TypeOK, WInv, FollowRedirect(W)
  PROVE  Calling' /\ Budget' /\ FailoverTransparent'
  <1>1. /\ pc[W] = "invoked" /\ pc'[W] = "rebind" /\ ~closed[W] /\ conn[W] \in alive
        /\ knows[conn[W]] # conn[W] /\ knows[conn[W]] \notin dead[W] /\ target'[W] = knows[conn[W]]
        /\ UNCHANGED <<leaderAddr, attempt, dead, expired, result>>
    BY TwoServers DEF FollowRedirect, Redirected, Answered, Lost, TypeOK, sharedVars
  <1>2. (Killed' <=> Killed) /\ \A x : Leads(x)' <=> Leads(x)
    BY CallFrame DEF CallStep
  <1>3. Killed
    BY <1>1, TwoServers DEF WInv, Cluster, Calling, TypeOK
  <1>4. conn[W] # 0 /\ knows[conn[W]] \in {0, 1} /\ conn[W] \in Server
    BY <1>1, <1>3, TwoServers DEF WInv, Cluster, Killed, TypeOK
  <1>5. 0 \in dead[W]
    BY <1>1, <1>4 DEF WInv, Calling, Known, Leads, Serves
  <1>6. target'[W] = 1 /\ conn[W] # 1
    BY <1>1, <1>4, <1>5
  <1>7. Calling'
    BY <1>1, <1>2, <1>3, <1>5, <1>6 DEF WInv, Calling, Known
  <1>8. Left' <= Left /\ Left' \in Nat
    BY <1>1, <1>4, <1>6 DEF Left, Away
  <1>9. Budget'
    <2> HIDE DEF Left
    <2> QED
      BY <1>1, <1>8, NoAttempt DEF CallStep
  <1> QED
    BY <1>1, <1>7, <1>9 DEF WInv, FailoverTransparent

LEMMA TransportKeeps ==
  ASSUME OneWorker, TypeOK, WInv, TransportFailure(W)
  PROVE  Calling' /\ Budget' /\ FailoverTransparent'
  <1>1. /\ pc[W] = "invoked" /\ pc'[W] = "next" /\ ~closed[W] /\ conn[W] \notin alive
        /\ conn[W] \in Server /\ dead'[W] = dead[W] \cup {conn[W]}
        /\ UNCHANGED <<leaderAddr, attempt, expired, result>>
    BY TwoServers DEF TransportFailure, Lost, TypeOK, sharedVars
  <1>2. (Killed' <=> Killed) /\ \A x : Leads(x)' <=> Leads(x)
    BY CallFrame DEF CallStep
  <1>3. Killed /\ conn[W] = 0
    BY <1>1 DEF WInv, Cluster, Killed
  <1>4. dead'[W] = {0}
    BY <1>1, <1>3 DEF WInv, Calling
  <1>5. Calling'
    BY <1>1, <1>2, <1>3, <1>4 DEF WInv, Calling
  <1>6. Left' <= Left /\ Left' \in Nat
    BY <1>1, <1>3 DEF Left, Away
  <1>7. Budget'
    <2> HIDE DEF Left
    <2> QED
      BY <1>1, <1>6, NoAttempt DEF CallStep
  <1> QED
    BY <1>1, <1>5, <1>7 DEF WInv, FailoverTransparent

LEMMA SucceedKeeps ==
  ASSUME OneWorker, TypeOK, WInv, Succeed(W)
  PROVE  Calling' /\ Budget' /\ FailoverTransparent'
  <1>1. /\ pc[W] = "invoked" /\ pc'[W] = "idle" /\ Serves(conn[W]) /\ conn[W] \in Server
        /\ UNCHANGED <<leaderAddr, dead, expired>>
        /\ result' = [result EXCEPT ![W] = "ok"]
    BY TwoServers DEF Succeed, Answered, End, TypeOK, sharedVars
  <1>2. (Killed' <=> Killed) /\ \A x : Leads(x)' <=> Leads(x)
    BY CallFrame DEF CallStep
  <1>3. conn[W] = 0 \/ Leads(conn[W])
    BY <1>1 DEF WInv, Cluster, Leads, Serves
  <1>4. Calling'
    BY <1>1, <1>2, <1>3 DEF WInv, Calling
  <1>5. Budget'
    BY <1>1 DEF Budget
  <1>6. FailoverTransparent'
    BY <1>1 DEF WInv, FailoverTransparent, TypeOK
  <1> QED
    BY <1>4, <1>5, <1>6

LEMMA NextPeerKeeps ==
  ASSUME OneWorker, TypeOK, WInv, NextAlivePeer(W)
  PROVE  Calling' /\ Budget' /\ FailoverTransparent'
  <1>1. PICK i \in Distances(W) : target' = [target EXCEPT ![W] = After(i)]
    BY FirstDistance, TwoServers DEF NextAlivePeer
  <1>2. /\ pc[W] = "next" /\ pc'[W] = "rebind" /\ target'[W] = After(i) /\ After(i) \notin dead[W]
        /\ UNCHANGED <<leaderAddr, attempt, dead, expired, result>>
    BY <1>1, TwoServers DEF NextAlivePeer, Distances, TypeOK
  <1>3. (Killed' <=> Killed) /\ \A x : Leads(x)' <=> Leads(x)
    BY CallFrame DEF CallStep
  <1>4. Killed /\ dead[W] = {0} /\ target'[W] # 0
    BY <1>2 DEF WInv, Calling
  <1>5. Calling'
    BY <1>2, <1>3, <1>4 DEF WInv, Calling, Known
  <1>6. Left' <= Left /\ Left' \in Nat
    BY <1>2, <1>4 DEF Left, Away
  <1>7. Budget'
    <2> HIDE DEF Left
    <2> QED
      BY <1>2, <1>6, NoAttempt DEF CallStep
  <1> QED
    BY <1>2, <1>5, <1>7 DEF WInv, FailoverTransparent

LEMMA RebindKeeps ==
  ASSUME OneWorker, TypeOK, TypeOK', WInv, Rebind(W)
  PROVE  Calling' /\ Budget' /\ FailoverTransparent'
  <1>1. /\ pc[W] = "rebind" /\ pc'[W] = "read" /\ leaderAddr' = target[W] /\ Retry(W)
        /\ UNCHANGED <<dead, expired, result>>
    BY TwoServers DEF Rebind, Retry, TypeOK
  <1>2. (Killed' <=> Killed) /\ \A x : Leads(x)' <=> Leads(x)
    BY CallFrame DEF CallStep
  <1>3. Killed
    BY <1>1 DEF WInv, Calling
  <1>4. Calling'
    BY <1>1, <1>2, <1>3 DEF WInv, Calling, Known
  <1>5. Left' + 1 <= Left
    BY <1>1 DEF Left, Away
  <1>6. Budget'
    <2> HIDE DEF Left
    <2> QED
      BY <1>1, <1>3, <1>5, RetryPays DEF CallStep
  <1> QED
    BY <1>1, <1>4, <1>6 DEF WInv, FailoverTransparent

-----------------------------------------------------------------------------
(* The theorem                                                             *)

LEMMA WInvInit ==
  ASSUME OneWorker, Init
  PROVE  WInv
  BY TwoServers DEF Init, WInv, Cluster, Calling, Budget, FailoverTransparent, Killed

LEMMA WInvStep ==
  ASSUME OneWorker, TypeOK, TypeOK', DeadMarks, WInv, [Next]_vars
  PROVE  WInv'
  <1>1. ASSUME NEW s \in Server, ClusterStep(s) PROVE WInv'
    BY <1>1, ClusterKeeps
  <1>2. CASE CallStep(W)
    <2>1. Cluster'
      BY <1>2, CallFrame
    <2>2. ~AllUnreachable(W)
      BY PeerLeft, TwoServers DEF AllUnreachable, OneWorker
    <2>3. Calling' /\ Budget' /\ FailoverTransparent'
      BY <1>2, <2>2, NeverExceeds, BeginKeeps, ReadLeaderKeeps, WaitKeeps, FollowKeeps, TransportKeeps,
         SucceedKeeps, NextPeerKeeps, RebindKeeps DEF CallStep
    <2> QED
      BY <2>1, <2>3 DEF WInv
  <1>3. CASE UNCHANGED vars
    <2>1. /\ UNCHANGED <<alive, knows, changing, leaderAddr, pc, attempt, dead>>
          /\ UNCHANGED <<conn, closed, expired, target, result>>
      BY <1>3 DEF vars, clusterVars, sharedVars, callVars
    <2>2. Cluster' /\ (Killed' <=> Killed) /\ (ElectionOver' <=> ElectionOver) /\ \A x : Leads(x)' <=> Leads(x)
      BY <2>1 DEF WInv, Cluster, Killed, ElectionOver, Leads, Serves
    <2>3. Calling'
      BY <2>1, <2>2 DEF WInv, Calling, Known
    <2>4. Left' = Left
      BY <2>1 DEF Left, Away
    <2>5. Budget' /\ FailoverTransparent'
      <3> HIDE DEF Left
      <3> QED
        BY <2>1, <2>2, <2>4 DEF WInv, Budget, FailoverTransparent
    <2> QED
      BY <2>2, <2>3, <2>5 DEF WInv
  <1> QED
    BY <1>1, <1>2, <1>3, TwoServers DEF Next, Expire, OneWorker

\* Transparent failover for a client with one call at a time: whenever the leader
\* is killed, before, between or during its calls, and whatever the servers answer
\* while they elect, every call succeeds within the attempts an election may cost
\* and three more.
THEOREM FailoverIsTransparent ==
  ASSUME OneWorker
  PROVE  Spec => []FailoverTransparent
  <1>1. Init => WInv
    BY WInvInit
  <1>2. TypeOK /\ TypeOK' /\ DeadMarks /\ WInv /\ [Next]_vars => WInv'
    BY WInvStep
  <1>3. TypeOK /\ DeadMarks /\ [Next]_vars => DeadMarks'
    BY DeadMarksStep DEF OneWorker
  <1>4. WInv => FailoverTransparent
    BY DEF WInv
  <1> QED
    BY <1>1, <1>2, <1>3, <1>4, DeadMarksInit, InterceptorTypes, PTL DEF Spec

-----------------------------------------------------------------------------
(* Two workers: what they cost each other                                  *)

\* Two workers on one connection; elections are timely, no server comes back and
\* no deadline passes; six attempts more than an election may cost.
TwoWorkers ==
  /\ N > 1 /\ \E a, b : a # b /\ Worker = {a, b}
  /\ Timely /\ ~Restarts /\ ~Deadlines
  /\ MaxAttempts > Slack + 6

Other(w) == CHOOSE v \in Worker : v # w

Over == Killed /\ ElectionOver

Busy == {"invoked", "next", "rebind"}

Sharing ==
  /\ \A w \in Worker : ~expired[w]
  /\ \A w \in Worker : pc[w] \in Busy /\ ~closed[w] => conn[w] = leaderAddr
  /\ \A w \in Worker : pc[w] = "next" => conn[w] \in dead[w]
  /\ \A w \in Worker : pc[w] = "rebind" => target[w] # conn[w]
  /\ ~Killed =>
       /\ leaderAddr = 0
       /\ \A w \in Worker : pc[w] \notin {"next", "rebind"} /\ ~closed[w] /\ attempt[w] = 0

\* About to take the connection back to the dead leader, on a hint that is or has
\* become stale; looking for some peer, or about to take the connection to one.
Back(v) == pc[v] = "rebind" /\ target[v] = 0
Seeks(v) == pc[v] = "next" \/ (pc[v] = "rebind" /\ target[v] \notin {0, 1})

\* The connection goes to the new leader, which serves.
Found == leaderAddr = 1 /\ Serves(1)

\* A call that has met the dead leader, and is on its way to the new one.
Informed(w) ==
  /\ 0 \in dead[w]
  /\ \/ pc[w] = "read"
     \/ pc[w] = "invoked" /\ (closed[w] => leaderAddr = 1)
     \/ pc[w] = "rebind" /\ target[w] = 1

Harmless(w) == Informed(w) \/ (Found /\ pc[w] \in {"idle", "read", "invoked"})

\* Who takes the connection away from the dead leader has met it, and stays with
\* its call until the new leader is found.  So only one call at a time can be
\* misled by a stale hint, and only while the other does no harm.
Hints ==
  /\ leaderAddr # 0 => Found \/ \E w \in Worker : Informed(w)
  /\ \A v \in Worker : Seeks(v) => 0 \in dead[v]
  /\ \A v \in Worker : Back(v) => 0 \notin dead[v] /\ leaderAddr # 0 /\ Harmless(Other(v))
  /\ \A v \in Worker : pc[v] = "rebind" /\ target[v] = 1 => leaderAddr # 0 \/ 0 \in dead[v]

\* The attempts a call may still lose once the election is over, if the other is
\* quiet, and those the other may cost it.
Cost(w) ==
  CASE pc[w] = "idle" -> 0
    [] pc[w] = "read" -> Away(leaderAddr)
    [] pc[w] = "invoked" -> IF closed[w] THEN 1 + Away(leaderAddr) ELSE Away(conn[w])
    [] pc[w] = "next" -> 2
    [] pc[w] = "rebind" -> IF target[w] = 0 THEN 5 ELSE 1 + Away(target[w])

Detour(v) == IF Back(v) THEN 5 ELSE IF leaderAddr = 0 \/ Seeks(v) THEN 2 ELSE 0

Budgets ==
  \A w \in Worker : pc[w] # "idle" =>
    IF Over THEN attempt[w] + Cost(w) + Detour(Other(w)) <= Slack + 6
            ELSE attempt[w] <= Slack

SInv == Cluster /\ Sharing /\ Hints /\ Budgets /\ FailoverTransparent

LEMMA OtherWorker ==
  ASSUME TwoWorkers, NEW w \in Worker
  PROVE  /\ Other(w) \in Worker /\ Other(w) # w
         /\ \A v \in Worker : v = w \/ v = Other(w)
         /\ \A v \in Worker : v # w => v = Other(w) /\ w = Other(v)
  <1>1. PICK a, b : a # b /\ Worker = {a, b}
    BY DEF TwoWorkers
  <1>2. \A v \in Worker : Other(v) \in Worker /\ Other(v) # v
    <2>1. \A v \in Worker : \E u \in Worker : u # v
      BY <1>1
    <2> QED
      BY <2>1 DEF Other
  <1> QED
    BY <1>1, <1>2

LEMMA TwoPeers ==
  ASSUME N > 1
  PROVE  0 \in Server /\ 1 \in Server /\ (0 + 1) % N = 1
  BY NAssumption DEF Server

LEMMA OverKnows ==
  ASSUME N > 1, TypeOK, Cluster, Over
  PROVE  /\ alive = Server \ {0} /\ 1 \in alive
         /\ \A s \in alive : knows[s] = 1 /\ ~changing[s]
  BY TwoPeers DEF Cluster, Killed, ElectionOver, Over

\* The steps of the cluster; none is left once the election is over.
LEMMA ClusterGoesOn ==
  ASSUME ~Restarts, N > 1, TypeOK, Cluster, NEW s \in Server, ClusterStep(s)
  PROVE  Cluster' /\ ~Over
  <1>1. CASE Kill(s)
    <2>1. alive = Server /\ s = 0 /\ alive' = Server \ {0} /\ UNCHANGED <<knows, changing>>
      BY <1>1 DEF Kill, Serves, Cluster, Killed
    <2>2. ~Killed /\ Killed'
      BY <2>1, TwoPeers DEF Killed
    <2> QED
      BY <2>1, <2>2 DEF Cluster, Over
  <1>2. CASE Suspect(s)
    <2>1. /\ s \in alive /\ knows[s] \notin alive /\ alive' = alive
          /\ knows' = [knows EXCEPT ![s] = (knows[s] + 1) % N]
          /\ changing' = [changing EXCEPT ![s] = TRUE]
      BY <1>2 DEF Suspect
    <2>2. knows[s] = 0 /\ alive = Server \ {0}
      BY <2>1, TwoPeers DEF Cluster, TypeOK
    <2>3. Killed
      BY <2>2, TwoPeers DEF Killed
    <2>4. knows'[s] = 1 /\ \A r \in Server : r # s => knows'[r] = knows[r] /\ changing'[r] = changing[r]
      BY <2>1, <2>2, TwoPeers DEF TypeOK
    <2>5. \A r \in Server : knows'[r] \in {0, 1} /\ (changing'[r] => knows'[r] = 1)
      BY <2>4 DEF Cluster
    <2>6. Killed'
      BY <2>1, <2>3 DEF Killed
    <2>7. ~ElectionOver
      BY <2>1 DEF ElectionOver
    <2> QED
      BY <2>1, <2>2, <2>5, <2>6, <2>7 DEF Cluster, Over
  <1>3. CASE Commit(s)
    <2>1. /\ s \in alive /\ changing[s] /\ UNCHANGED <<alive, knows>>
          /\ changing' = [changing EXCEPT ![s] = FALSE]
      BY <1>3 DEF Commit
    <2>2. \A r \in Server : changing'[r] => changing[r]
      BY <2>1 DEF TypeOK
    <2>3. Killed' <=> Killed
      BY <2>1 DEF Killed
    <2>4. ~ElectionOver
      BY <2>1 DEF ElectionOver
    <2> QED
      BY <2>1, <2>2, <2>3, <2>4 DEF Cluster, Over
  <1> QED
    BY <1>1, <1>2, <1>3 DEF ClusterStep, Restart

\* A step of a call leaves the cluster alone.
LEMMA CallLeavesCluster ==
  ASSUME Cluster, NEW v \in Worker, CallStep(v)
  PROVE  Cluster' /\ (Killed' <=> Killed) /\ (ElectionOver' <=> ElectionOver) /\ (Over' <=> Over)
  <1>1. UNCHANGED <<alive, knows, changing>>
    BY DEF CallStep, Begin, ReadLeader, ExceedAttempts, WaitAndRetry, FollowRedirect, TransportFailure,
           Succeed, NextAlivePeer, AllUnreachable, Rebind, clusterVars
  <1> QED
    BY <1>1 DEF Cluster, Killed, ElectionOver, Over

\* Nobody loses an attempt, or looks for another peer, before the kill.
LEMMA QuietBeforeKill ==
  ASSUME N > 1, TypeOK, Cluster, Sharing, ~Killed, NEW v \in Worker, CallStep(v)
  PROVE  Begin(v) \/ ReadLeader(v) \/ ExceedAttempts(v) \/ Succeed(v)
  <1>1. /\ alive = Server /\ \A s \in Server : knows[s] = 0 /\ ~changing[s]
        /\ pc[v] \notin {"next", "rebind"} /\ ~Lost(v) /\ (pc[v] = "invoked" => conn[v] = 0)
    BY DEF Killed, Cluster, Sharing, Lost, Busy
  <1>2. conn[v] \in Server /\ 0 \in Server
    BY TwoPeers DEF TypeOK
  <1>3. ~WaitAndRetry(v) /\ ~FollowRedirect(v) /\ ~TransportFailure(v)
    BY <1>1, <1>2 DEF WaitAndRetry, FollowRedirect, TransportFailure, Answered, Redirected
  <1>4. ~NextAlivePeer(v) /\ ~AllUnreachable(v) /\ ~Rebind(v)
    BY <1>1 DEF NextAlivePeer, AllUnreachable, Rebind
  <1> QED
    BY <1>3, <1>4 DEF CallStep

LEMMA SharingKept ==
  ASSUME N > 1, TypeOK, TypeOK', Cluster, Sharing, NEW v \in Worker, CallStep(v)
  PROVE  Sharing'
  <1>0. Killed' <=> Killed
    BY CallLeavesCluster
  <1>1. CASE Begin(v)
    <2>1. /\ pc' = [pc EXCEPT ![v] = "read"] /\ attempt' = [attempt EXCEPT ![v] = 0]
          /\ dead' = [dead EXCEPT ![v] = {}] /\ expired' = [expired EXCEPT ![v] = FALSE]
          /\ UNCHANGED <<leaderAddr, conn, closed, target>>
      BY <1>1 DEF Begin, sharedVars
    <2> QED
      BY <1>0, <2>1 DEF Sharing, TypeOK, Busy
  <1>2. CASE ReadLeader(v)
    <2>1. /\ pc' = [pc EXCEPT ![v] = "invoked"] /\ conn' = [conn EXCEPT ![v] = leaderAddr]
          /\ closed' = [closed EXCEPT ![v] = FALSE]
          /\ UNCHANGED <<leaderAddr, attempt, dead, expired, target>>
      BY <1>2 DEF ReadLeader, sharedVars
    <2> QED
      BY <1>0, <2>1 DEF Sharing, TypeOK, Busy
  <1>3. CASE ExceedAttempts(v) \/ Succeed(v) \/ AllUnreachable(v)
    <2>1. /\ pc' = [pc EXCEPT ![v] = "idle"]
          /\ UNCHANGED <<leaderAddr, attempt, dead, conn, closed, expired, target>>
      BY <1>3 DEF ExceedAttempts, Succeed, AllUnreachable, End, sharedVars
    <2> QED
      BY <1>0, <2>1 DEF Sharing, TypeOK, Busy
  <1>4. CASE ~Killed
    BY <1>1, <1>2, <1>3, <1>4, QuietBeforeKill
  <1>5. CASE WaitAndRetry(v) /\ Killed
    <2>1. /\ pc' = [pc EXCEPT ![v] = "read"]
          /\ UNCHANGED <<leaderAddr, dead, conn, closed, expired, target>>
      BY <1>5 DEF WaitAndRetry, Retry, sharedVars
    <2> QED
      BY <1>0, <1>5, <2>1 DEF Sharing, TypeOK, Busy
  <1>6. CASE FollowRedirect(v) /\ Killed
    <2>1. /\ pc[v] = "invoked" /\ knows[conn[v]] # conn[v] /\ pc' = [pc EXCEPT ![v] = "rebind"]
          /\ target' = [target EXCEPT ![v] = knows[conn[v]]]
          /\ UNCHANGED <<leaderAddr, dead, conn, closed, expired>>
      BY <1>6 DEF FollowRedirect, Redirected, Answered, sharedVars
    <2> QED
      BY <1>0, <1>6, <2>1 DEF Sharing, TypeOK, Busy
  <1>7. CASE TransportFailure(v) /\ Killed
    <2>1. /\ pc[v] = "invoked" /\ pc' = [pc EXCEPT ![v] = "next"]
          /\ dead' = [dead EXCEPT ![v] = dead[v] \cup {conn[v]}]
          /\ UNCHANGED <<leaderAddr, conn, closed, expired, target>>
      BY <1>7 DEF TransportFailure, sharedVars
    <2> QED
      BY <1>0, <1>7, <2>1 DEF Sharing, TypeOK, Busy
  <1>8. CASE NextAlivePeer(v) /\ Killed
    <2>1. PICK i \in Distances(v) :
            /\ pc[v] = "next" /\ pc' = [pc EXCEPT ![v] = "rebind"]
            /\ target' = [target EXCEPT ![v] = After(i)]
            /\ UNCHANGED <<leaderAddr, dead, conn, closed, expired>>
      BY <1>8, FirstDistance DEF NextAlivePeer
    <2>2. After(i) \notin dead[v]
      BY DEF Distances
    <2>3. conn[v] \in dead[v]
      BY <2>1 DEF Sharing
    <2> QED
      BY <1>0, <1>8, <2>1, <2>2, <2>3 DEF Sharing, TypeOK, Busy
  <1>9. CASE Rebind(v) /\ Killed
    <2>1. /\ pc' = [pc EXCEPT ![v] = "read"] /\ leaderAddr' = target[v]
          /\ \A w \in Worker : closed'[w] <=> closed[w] \/ leaderAddr # target[v]
          /\ UNCHANGED <<dead, conn, expired, target>>
      BY <1>9 DEF Rebind, Retry
    <2> QED
      BY <1>0, <1>9, <2>1 DEF Sharing, TypeOK, Busy
  <1> QED
    BY <1>1, <1>2, <1>3, <1>4, <1>5, <1>6, <1>7, <1>8, <1>9 DEF CallStep

LEMMA SharingWithCluster ==
  ASSUME ~Restarts, N > 1, TypeOK, Cluster, Sharing, NEW s \in Server, ClusterStep(s)
  PROVE  Sharing' /\ UNCHANGED attempt
  <1>1. CASE Kill(s)
    <2>1. /\ UNCHANGED <<leaderAddr, pc, attempt, dead, conn, expired, target>>
          /\ \A w \in Worker : closed[w] => closed'[w]
      <3>1. PICK reset \in SUBSET {w \in Worker : pc[w] = "invoked" /\ conn[w] = s} :
              closed' = [w \in Worker |-> closed[w] \/ w \in reset]
        BY <1>1 DEF Kill
      <3> QED
        BY <1>1, <3>1 DEF Kill, sharedVars
    <2>2. Killed'
      <3>1. alive' = Server \ {s}
        BY <1>1 DEF Kill
      <3> QED
        BY <3>1 DEF Killed
    <2> QED
      BY <2>1, <2>2 DEF Sharing
  <1>2. CASE Suspect(s) \/ Commit(s)
    <2>1. UNCHANGED <<alive, leaderAddr, pc, attempt, dead, conn, closed, expired, target>>
      BY <1>2 DEF Suspect, Commit, sharedVars, callVars
    <2>2. Killed' <=> Killed
      BY <2>1 DEF Killed
    <2> QED
      BY <2>1, <2>2 DEF Sharing
  <1> QED
    BY <1>1, <1>2 DEF ClusterStep, Restart

-----------------------------------------------------------------------------
(* The hints the two calls follow                                          *)

LEMMA HintsBeforeKill ==
  ASSUME Sharing, ~Killed
  PROVE  Hints
  BY DEF Sharing, Hints, Back, Seeks

LEMMA HintsWithCluster ==
  ASSUME ~Restarts, N > 1, TypeOK, Cluster, Sharing, Hints, NEW s \in Server, ClusterStep(s)
  PROVE  Hints'
  <1>1. CASE Kill(s)
    <2>1. ~Killed /\ UNCHANGED <<leaderAddr, pc, target>>
      BY <1>1 DEF Kill, Killed, sharedVars
    <2> QED
      BY <2>1 DEF Sharing, Hints, Back, Seeks
  <1>2. CASE Suspect(s) \/ Commit(s)
    <2>1. UNCHANGED <<alive, leaderAddr, pc, dead, closed, target>>
      BY <1>2 DEF Suspect, Commit, sharedVars, callVars
    <2>2. Serves(1) => Serves(1)'
      BY <1>2, TwoPeers DEF Suspect, Commit, Serves, TypeOK
    <2>3. \A w \in Worker : Informed(w)' = Informed(w)
      BY <2>1 DEF Informed
    <2>4. Found => Found'
      BY <2>1, <2>2 DEF Found
    <2>5. \A w : Harmless(w) => Harmless(w)'
      BY <2>1, <2>4 DEF Harmless, Informed
    <2>6. \A v : Other(v)' = Other(v) /\ Back(v)' = Back(v) /\ Seeks(v)' = Seeks(v)
      BY <2>1 DEF Other, Back, Seeks
    <2> QED
      BY <2>1, <2>3, <2>4, <2>5, <2>6 DEF Hints
  <1> QED
    BY <1>1, <1>2 DEF ClusterStep, Restart

\* The steps in which no connection changes.  The call that takes the step, v,
\* stays informed or ends at the leader, and does not become a seeker uninformed.
LEMMA HintsQuiet ==
  ASSUME TwoWorkers, TypeOK, TypeOK', Hints, NEW v \in Worker,
         UNCHANGED <<alive, knows, changing, leaderAddr>>,
         \A w \in Worker : w # v => UNCHANGED <<pc[w], dead[w], closed[w], target[w]>>,
         leaderAddr # 0 /\ Informed(v) => Found \/ Informed(v)',
         Seeks(v)' => 0 \in dead'[v],
         Back(v)' => 0 \notin dead'[v] /\ leaderAddr # 0 /\ Harmless(Other(v)),
         leaderAddr # 0 /\ Harmless(v) => Harmless(v)',
         pc'[v] = "rebind" /\ target'[v] = 1 => leaderAddr # 0 \/ 0 \in dead'[v]
  PROVE  Hints'
  <1>1. Found' = Found /\ \A x : Other(x)' = Other(x)
    BY DEF Found, Serves, Other
  <1>2. \A w \in Worker : w # v => /\ Informed(w)' = Informed(w) /\ Seeks(w)' = Seeks(w)
                                   /\ Back(w)' = Back(w) /\ Harmless(w)' = Harmless(w)
    BY <1>1 DEF Informed, Seeks, Back, Harmless
  <1>3. Other(v) \in Worker /\ Other(v) # v /\ \A w \in Worker : w # v => Other(w) = v
    BY OtherWorker
  <1>4. leaderAddr' # 0 => Found' \/ \E w \in Worker : Informed(w)'
    BY <1>1, <1>2 DEF Hints
  <1>5. \A w \in Worker : Seeks(w)' => 0 \in dead'[w]
    BY <1>2 DEF Hints
  <1>6. ASSUME NEW w \in Worker, Back(w)'
        PROVE  0 \notin dead'[w] /\ leaderAddr' # 0 /\ Harmless(Other(w))'
    <2>1. CASE w = v
      BY <1>1, <1>2, <1>3, <1>6, <2>1
    <2>2. CASE w # v
      <3>1. Back(w) /\ 0 \notin dead[w] /\ leaderAddr # 0 /\ Harmless(v)
        BY <1>2, <1>3, <1>6, <2>2 DEF Hints
      <3> QED
        BY <1>1, <1>3, <2>2, <3>1
    <2> QED
      BY <2>1, <2>2
  <1>7. \A w \in Worker : pc'[w] = "rebind" /\ target'[w] = 1 => leaderAddr' # 0 \/ 0 \in dead'[w]
    BY DEF Hints
  <1> QED
    BY <1>1, <1>4, <1>5, <1>6, <1>7 DEF Hints

LEMMA HintsKept ==
  ASSUME TwoWorkers, TypeOK, TypeOK', DeadMarks, Cluster, Sharing, Hints, Killed,
         NEW v \in Worker, CallStep(v), ~ExceedAttempts(v), ~AllUnreachable(v)
  PROVE  Hints'
  <1>0. /\ alive = Server \ {0} /\ 1 \in alive /\ 0 \in Server
        /\ \A s \in Server : knows[s] \in {0, 1}
    BY TwoPeers DEF Cluster, Killed, TwoWorkers
  <1>1. UNCHANGED <<alive, knows, changing>>
    BY DEF CallStep, Begin, ReadLeader, ExceedAttempts, WaitAndRetry, FollowRedirect, TransportFailure,
           Succeed, NextAlivePeer, AllUnreachable, Rebind, clusterVars
  <1>2. Other(v) \in Worker /\ Other(v) # v /\ \A w \in Worker : w = v \/ w = Other(v)
    BY OtherWorker
  <1>3. CASE Begin(v)
    <2>1. /\ pc[v] = "idle" /\ pc' = [pc EXCEPT ![v] = "read"] /\ dead' = [dead EXCEPT ![v] = {}]
          /\ UNCHANGED <<leaderAddr, closed, target>>
      BY <1>3 DEF Begin, sharedVars
    <2>2. ~Informed(v) /\ ~Seeks(v)' /\ ~Back(v)' /\ (Harmless(v) => Harmless(v)')
      BY <1>1, <2>1 DEF Informed, Seeks, Back, Harmless, Found, Serves, TypeOK
    <2> QED
      BY <1>1, <2>1, <2>2, HintsQuiet DEF TypeOK
  <1>4. CASE ReadLeader(v)
    <2>1. /\ pc[v] = "read" /\ pc' = [pc EXCEPT ![v] = "invoked"]
          /\ closed' = [closed EXCEPT ![v] = FALSE] /\ UNCHANGED <<leaderAddr, dead, target>>
      BY <1>4 DEF ReadLeader, sharedVars
    <2>2. ~Seeks(v)' /\ ~Back(v)' /\ (Informed(v) => Informed(v)') /\ (Harmless(v) => Harmless(v)')
      BY <1>1, <2>1 DEF Informed, Seeks, Back, Harmless, Found, Serves, TypeOK
    <2> QED
      BY <1>1, <2>1, <2>2, HintsQuiet DEF TypeOK
  <1>5. CASE Succeed(v)
    <2>1. /\ pc[v] = "invoked" /\ ~closed[v] /\ Serves(conn[v]) /\ pc' = [pc EXCEPT ![v] = "idle"]
          /\ UNCHANGED <<leaderAddr, closed, dead, target>>
      BY <1>5 DEF Succeed, End, Answered, Lost, sharedVars
    <2>2. Found
      BY <1>0, <2>1 DEF Serves, Sharing, Busy, Found, TypeOK
    <2>3. ~Seeks(v)' /\ ~Back(v)' /\ Harmless(v)'
      BY <1>1, <2>1, <2>2 DEF Seeks, Back, Harmless, Found, Serves, TypeOK
    <2> QED
      BY <1>1, <2>1, <2>2, <2>3, HintsQuiet DEF TypeOK
  <1>6. CASE WaitAndRetry(v)
    <2>1. /\ pc[v] = "invoked" /\ pc' = [pc EXCEPT ![v] = "read"]
          /\ UNCHANGED <<leaderAddr, dead, closed, target>>
      BY <1>6 DEF WaitAndRetry, Retry, Answered, Redirected, sharedVars
    <2>2. ~Seeks(v)' /\ ~Back(v)' /\ (Informed(v) => Informed(v)') /\ (Harmless(v) => Harmless(v)')
      BY <1>1, <2>1 DEF Informed, Seeks, Back, Harmless, Found, Serves, TypeOK
    <2> QED
      BY <1>1, <2>1, <2>2, HintsQuiet DEF TypeOK
  <1>7. CASE FollowRedirect(v)
    <2>1. /\ pc[v] = "invoked" /\ ~closed[v] /\ conn[v] \in alive /\ knows[conn[v]] # conn[v]
          /\ knows[conn[v]] \notin dead[v] /\ pc' = [pc EXCEPT ![v] = "rebind"]
          /\ target' = [target EXCEPT ![v] = knows[conn[v]]]
          /\ UNCHANGED <<leaderAddr, dead, closed>>
      BY <1>7 DEF FollowRedirect, Redirected, Answered, Lost, sharedVars
    <2>2. conn[v] = leaderAddr /\ leaderAddr # 0 /\ ~Found /\ target'[v] \in {0, 1}
      BY <1>0, <2>1 DEF Sharing, Busy, Found, Serves, TypeOK
    <2>3. pc'[v] = "rebind" /\ dead'[v] = dead[v] /\ target'[v] \notin dead[v] /\ ~Seeks(v)'
      BY <2>1, <2>2 DEF Seeks, TypeOK
    <2>4. Informed(v) => Informed(v)'
      BY <2>2, <2>3 DEF Informed
    <2>5. Back(v)' => 0 \notin dead'[v] /\ Harmless(Other(v))
      <3>1. SUFFICES ASSUME Back(v)' PROVE 0 \notin dead'[v] /\ Harmless(Other(v))
        OBVIOUS
      <3>2. 0 \notin dead[v]
        BY <2>3, <3>1 DEF Back
      <3>3. PICK w \in Worker : Informed(w)
        BY <2>2 DEF Hints
      <3>4. w = Other(v)
        BY <1>2, <3>2, <3>3 DEF Informed
      <3> QED
        BY <2>3, <3>2, <3>3, <3>4 DEF Harmless
    <2>6. Harmless(v) => Harmless(v)'
      BY <2>2, <2>4 DEF Harmless
    <2> QED
      BY <1>1, <2>1, <2>2, <2>3, <2>4, <2>5, <2>6, HintsQuiet DEF TypeOK
  <1>8. CASE TransportFailure(v)
    <2>1. /\ pc[v] = "invoked" /\ ~closed[v] /\ conn[v] \notin alive /\ pc' = [pc EXCEPT ![v] = "next"]
          /\ dead' = [dead EXCEPT ![v] = dead[v] \cup {conn[v]}]
          /\ UNCHANGED <<leaderAddr, closed, target>>
      BY <1>8 DEF TransportFailure, Lost, sharedVars
    <2>2. conn[v] = 0 /\ leaderAddr = 0
      BY <1>0, <2>1 DEF Sharing, Busy, TypeOK
    <2>3. pc'[v] = "next" /\ 0 \in dead'[v] /\ ~Back(v)'
      BY <2>1, <2>2 DEF Back, TypeOK
    <2> QED
      BY <1>1, <2>1, <2>2, <2>3, HintsQuiet DEF TypeOK
  <1>9. CASE NextAlivePeer(v)
    <2>1. PICK i \in Distances(v) :
            /\ pc[v] = "next" /\ pc' = [pc EXCEPT ![v] = "rebind"]
            /\ target' = [target EXCEPT ![v] = After(i)]
            /\ UNCHANGED <<leaderAddr, dead, closed>>
      BY <1>9, FirstDistance DEF NextAlivePeer
    <2>2. 0 \in dead[v] /\ ~Informed(v) /\ ~Harmless(v)
      BY <2>1 DEF Hints, Seeks, Informed, Harmless
    <2>3. target'[v] # 0 /\ dead'[v] = dead[v]
      BY <2>1, <2>2 DEF Distances, TypeOK
    <2> QED
      BY <1>1, <2>1, <2>2, <2>3, HintsQuiet DEF Back, TypeOK
  <1>10. CASE Rebind(v)
    <2> DEFINE u == Other(v)
    <2>1. /\ pc[v] = "rebind" /\ pc' = [pc EXCEPT ![v] = "read"] /\ leaderAddr' = target[v]
          /\ \A w \in Worker : closed'[w] <=> closed[w] \/ leaderAddr # target[v]
          /\ UNCHANGED <<dead, target>>
      BY <1>10 DEF Rebind, Retry
    <2>2. /\ pc'[v] = "read" /\ pc'[u] = pc[u] /\ Other(v)' = u /\ Other(u) = v /\ Other(u)' = v
          /\ u \in Worker /\ u # v
      <3>1. Other(u) = v
        BY <1>2, OtherWorker
      <3>2. \A x : Other(x)' = Other(x)
        BY DEF Other
      <3> QED
        BY <1>2, <2>1, <3>1, <3>2 DEF TypeOK
    <2>3. Serves(1)' = Serves(1)
      BY <1>1 DEF Serves
    <2> HIDE DEF u
    <2>4. CASE target[v] = 0
      <3>1. 0 \notin dead[v] /\ leaderAddr # 0 /\ Harmless(u) /\ leaderAddr' = 0
        BY <2>1, <2>4 DEF Hints, Back, u
      <3>2. ~Back(u) /\ ~Seeks(u) /\ (pc[u] = "rebind" => 0 \in dead[u])
        BY <3>1 DEF Harmless, Informed, Back, Seeks
      <3>3. \A w \in Worker : ~Back(w)' /\ ~Seeks(w)' /\ (pc'[w] = "rebind" => 0 \in dead'[w])
        BY <1>2, <2>1, <2>2, <3>2 DEF Back, Seeks, u
      <3> QED
        BY <3>1, <3>3 DEF Hints
    <2>5. CASE target[v] # 0
      <3>1. ~Back(v)' /\ ~Seeks(v)' /\ leaderAddr' # 0
        BY <2>1, <2>2, <2>5 DEF Back, Seeks
      <3>2. Back(u)' = Back(u) /\ Seeks(u)' = Seeks(u)
        BY <2>1, <2>2 DEF Back, Seeks
      <3>3. \A w \in Worker : Seeks(w)' => 0 \in dead'[w]
        BY <1>2, <2>1, <2>2, <3>1, <3>2 DEF Hints, u
      <3>4. 0 \in dead[v] => Informed(v)'
        BY <2>1, <2>2 DEF Informed
      <3>5. 0 \notin dead[v] => target[v] = 1 /\ leaderAddr # 0
        BY <2>1, <2>5 DEF Hints, Seeks
      <3>6. ASSUME Informed(u), 0 \notin dead[v] PROVE Informed(u)'
        BY <2>1, <2>2, <3>5, <3>6 DEF Informed
      <3>7. Found' \/ \E w \in Worker : Informed(w)'
        <4>1. CASE 0 \in dead[v]
          BY <3>4, <4>1
        <4>2. CASE 0 \notin dead[v] /\ Found
          BY <2>1, <2>3, <3>5, <4>2 DEF Found
        <4>3. CASE 0 \notin dead[v] /\ ~Found
          <5>1. PICK w \in Worker : Informed(w)
            BY <3>5, <4>3 DEF Hints
          <5>2. w = u
            BY <1>2, <4>3, <5>1 DEF Informed, u
          <5> QED
            BY <2>2, <3>6, <4>3, <5>1, <5>2
        <4> QED
          BY <4>1, <4>2, <4>3
      <3>8. Back(u) => 0 \notin dead'[u] /\ Harmless(v)'
        <4>1. Back(u) => 0 \notin dead[u] /\ Informed(v)
          BY <2>1, <2>2 DEF Hints, Harmless
        <4> QED
          BY <2>1, <3>4, <4>1 DEF Harmless, Informed
      <3>9. \A w \in Worker : Back(w)' => 0 \notin dead'[w] /\ Harmless(Other(w))'
        BY <1>2, <2>2, <3>1, <3>2, <3>8 DEF u
      <3> QED
        BY <3>1, <3>3, <3>7, <3>9 DEF Hints
    <2> QED
      BY <2>4, <2>5
  <1> QED
    BY <1>3, <1>4, <1>5, <1>6, <1>7, <1>8, <1>9, <1>10 DEF CallStep

-----------------------------------------------------------------------------
(* What a call may still lose                                              *)

LEMMA CostRange ==
  ASSUME TypeOK, NEW w \in Worker
  PROVE  Cost(w) \in 0 .. 5 /\ (~Back(w) => Cost(w) \in 0 .. 3)
  <1>1. pc[w] \in {"idle", "read", "invoked", "next", "rebind"}
    BY DEF TypeOK
  <1>2. \A x : Away(x) \in 0 .. 2 /\ (x # 0 => Away(x) \in 0 .. 1)
    BY DEF Away
  <1>3. \A x : 1 + Away(x) \in 0 .. 3 /\ Away(x) \in 0 .. 3 /\ 1 + Away(x) \in 0 .. 5 /\ Away(x) \in 0 .. 5
    BY <1>2
  <1> HIDE DEF Away
  <1> QED
    BY <1>1, <1>3 DEF Cost, Back

LEMMA DetourRange == \A v : Detour(v) \in {0, 2, 5}
  BY DEF Detour

Ranges == \A w \in Worker : Cost(w) \in 0 .. 5 /\ Detour(w) \in {0, 2, 5}

LEMMA RangesNext == (TypeOK => Ranges)'
  <1>1. TypeOK => Ranges
    BY CostRange, DetourRange DEF Ranges
  <1> QED
    BY <1>1, PTL

\* Six attempts at most: a closed RPC at the dead leader and the other call's
\* search; or a stale hint, which finds the connection elsewhere.
LEMMA LostBounded ==
  ASSUME TwoWorkers, TypeOK, Sharing, Hints, NEW w \in Worker
  PROVE  Cost(w) + Detour(Other(w)) <= 6
  <1> DEFINE v == Other(w)
  <1>0. v \in Worker /\ v # w /\ Other(v) = w
    BY OtherWorker
  <1> HIDE DEF v
  <1>1. Cost(w) \in 0 .. 5 /\ (~Back(w) => Cost(w) \in 0 .. 3)
    BY CostRange
  <1>2. CASE Back(v)
    <2>1. leaderAddr # 0 /\ Harmless(w)
      BY <1>0, <1>2 DEF Hints
    <2>2. \A x : x # 0 => Away(x) \in {0, 1}
      BY DEF Away
    <2>3. Away(1) = 0
      BY DEF Away
    <2>4. pc[w] = "invoked" /\ ~closed[w] => conn[w] # 0
      BY <2>1 DEF Sharing, Busy
    <2>5. /\ pc[w] \in {"idle", "read", "invoked", "rebind"}
          /\ pc[w] = "rebind" => target[w] = 1
          /\ pc[w] = "invoked" /\ closed[w] => leaderAddr = 1
      BY <2>1 DEF Harmless, Informed, Found
    <2>6. Cost(w) \in {0, 1}
      <3> HIDE DEF Away
      <3>1. 1 + Away(1) = 1
        BY <2>3
      <3> QED
        BY <2>1, <2>2, <2>4, <2>5, <3>1 DEF Cost
    <2>7. Detour(v) = 5
      BY <1>2 DEF Detour
    <2> QED
      BY <2>6, <2>7 DEF v
  <1>3. CASE ~Back(v) /\ ~Back(w)
    <2>1. Detour(v) \in {0, 2}
      BY <1>3 DEF Detour
    <2> QED
      BY <1>1, <1>3, <2>1 DEF v
  <1>4. CASE ~Back(v) /\ Back(w)
    <2>1. leaderAddr # 0 /\ Harmless(v)
      BY <1>0, <1>4 DEF Hints, v
    <2>2. ~Seeks(v)
      BY <2>1 DEF Harmless, Informed, Seeks
    <2>3. Detour(v) = 0
      BY <1>4, <2>1, <2>2 DEF Detour
    <2> QED
      BY <1>1, <2>3 DEF v
  <1> QED
    BY <1>2, <1>3, <1>4

Bounded == \A w \in Worker : Cost(w) + Detour(Other(w)) <= 6

\* The same of the next state.
LEMMA LostBoundedNext ==
  ASSUME TwoWorkers
  PROVE  (TypeOK /\ Sharing /\ Hints => Bounded)'
  <1>1. TypeOK /\ Sharing /\ Hints => Bounded
    BY LostBounded DEF Bounded
  <1> QED
    BY <1>1, PTL

\* Before the election is over a call has lost no more than an election may cost.
LEMMA WithinSlack ==
  ASSUME TwoWorkers, TypeOK, Cluster, Sharing, Budgets, ~Over, NEW v \in Worker, CallStep(v)
  PROVE  \A w \in Worker : pc'[w] # "idle" => attempt'[w] <= Slack
  <1>0. \A w \in Worker : pc[w] # "idle" => attempt[w] <= Slack
    BY DEF Budgets
  <1>1. CASE attempt' = attempt /\ \A w \in Worker : pc'[w] # "idle" => pc[w] # "idle"
    BY <1>0, <1>1
  <1>2. CASE Begin(v)
    <2>1. attempt' = [attempt EXCEPT ![v] = 0] /\ pc' = [pc EXCEPT ![v] = "read"]
      BY <1>2 DEF Begin
    <2> QED
      BY <1>0, <2>1, BoundsAssumption DEF TypeOK
  <1>3. CASE Retry(v) /\ Killed
    <2>1. /\ attempt[v] < Slack /\ attempt' = [attempt EXCEPT ![v] = attempt[v] + 1]
          /\ pc' = [pc EXCEPT ![v] = "read"]
      BY <1>3 DEF Retry, TimeFor, Over, TwoWorkers
    <2>2. attempt[v] + 1 <= Slack
      BY <2>1, BoundsAssumption DEF TypeOK
    <2> QED
      BY <1>0, <2>1, <2>2 DEF TypeOK
  <1>4. ASSUME ReadLeader(v) \/ ExceedAttempts(v) \/ FollowRedirect(v) \/ TransportFailure(v)
               \/ Succeed(v) \/ NextAlivePeer(v) \/ AllUnreachable(v)
        PROVE  attempt' = attempt /\ \A w \in Worker : pc'[w] # "idle" => pc[w] # "idle"
    <2>1. attempt' = attempt /\ pc[v] # "idle"
      BY <1>4 DEF ReadLeader, ExceedAttempts, FollowRedirect, TransportFailure, Succeed, End,
                  NextAlivePeer, AllUnreachable, Answered, Redirected
    <2>2. \E x : pc' = [pc EXCEPT ![v] = x]
      BY <1>4 DEF ReadLeader, ExceedAttempts, FollowRedirect, TransportFailure, Succeed, End,
                  NextAlivePeer, AllUnreachable
    <2> QED
      BY <2>1, <2>2 DEF TypeOK
  <1>5. CASE ~Killed
    BY <1>1, <1>2, <1>4, <1>5, QuietBeforeKill DEF TwoWorkers
  <1> QED
    BY <1>1, <1>2, <1>3, <1>4, <1>5 DEF CallStep, WaitAndRetry, Rebind

\* What one call spends and may yet spend.
Spent(w) == attempt[w] + Cost(w) + Detour(Other(w))

\* After it a call stays within its budget: an attempt is paid by what was left.
LEMMA WithinBudget ==
  ASSUME TwoWorkers, TypeOK, TypeOK', DeadMarks, Cluster, Sharing, Sharing', Hints, Hints',
         Budgets, Over, NEW v \in Worker, CallStep(v)
  PROVE  \A w \in Worker : pc'[w] # "idle" => Spent(w)' <= Slack + 6
  <1> DEFINE u == Other(v)
  <1>o. /\ u \in Worker /\ u # v /\ Other(u) = v /\ \A w \in Worker : w = v \/ w = u
        /\ Other(v) = u /\ Other(v)' = u /\ Other(u)' = v
    <2>1. \A x : Other(x)' = Other(x)
      BY DEF Other
    <2> QED
      BY <2>1, OtherWorker
  <1> HIDE DEF u
  <1>1. /\ alive = Server \ {0} /\ 1 \in alive /\ 0 \notin alive
        /\ \A s \in alive : knows[s] = 1 /\ ~changing[s]
    BY OverKnows DEF TwoWorkers
  <1>2. /\ \A w \in Worker : attempt[w] \in Nat /\ attempt'[w] \in Nat /\ Cost(w) \in Nat
        /\ Slack \in Nat /\ \A w : Detour(w) \in Nat
    <2>1. \A w \in Worker : Cost(w) \in 0 .. 5
      BY CostRange
    <2> QED
      BY <2>1, DetourRange, BoundsAssumption DEF TypeOK
  <1>3. \A w \in Worker : pc[w] # "idle" => Spent(w) <= Slack + 6
    BY DEF Budgets, Spent
  <1>a. Away(0) = 2 /\ Away(1) = 0 /\ \A x : Away(x) \in 0 .. 2 /\ (x \notin {0, 1} => Away(x) = 1)
    BY DEF Away
  <1> HIDE DEF Away
  \* It is enough that what v spends, and what u may yet spend, does not grow.
  <1>p. ASSUME pc'[u] = pc[u], attempt'[u] = attempt[u],
               pc'[v] # "idle" => pc[v] # "idle" /\ Spent(v)' <= Spent(v),
               pc[u] # "idle" => Cost(u)' + Detour(v)' <= Cost(u) + Detour(v),
               Cost(u)' \in Nat, Detour(v)' \in Nat, Spent(v)' \in Nat
        PROVE  \A w \in Worker : pc'[w] # "idle" => Spent(w)' <= Slack + 6
    <2>1. pc'[v] # "idle" => Spent(v)' <= Slack + 6
      <3>1. Spent(v) \in Nat
        BY <1>2, <1>o DEF Spent
      <3> QED
        BY <1>2, <1>3, <1>p, <3>1
    <2>2. pc[u] # "idle" => Spent(u)' <= Slack + 6
      <3>1. Spent(u) = attempt[u] + Cost(u) + Detour(v) /\ Spent(u)' = attempt[u] + Cost(u)' + Detour(v)'
        BY <1>o, <1>p DEF Spent
      <3>2. pc[u] # "idle" => attempt[u] + Cost(u) + Detour(v) <= Slack + 6
        BY <1>3, <1>o, <3>1
      <3> QED
        BY <1>2, <1>o, <1>p, <3>1, <3>2
    <2> QED
      BY <1>o, <1>p, <2>1, <2>2

  <1>r. \A w \in Worker : Cost(w)' \in Nat /\ Detour(w)' \in Nat
    BY RangesNext DEF Ranges
  <1>s. Spent(v)' \in Nat /\ Spent(v)' = attempt'[v] + Cost(v)' + Detour(u)'
        /\ Spent(v) = attempt[v] + Cost(v) + Detour(u)
    BY <1>2, <1>o, <1>r DEF Spent
  \* The other call is where it was when the connection is left alone.
  <1>q. ASSUME UNCHANGED <<leaderAddr, pc[u], conn[u], closed[u], target[u]>>
        PROVE  Cost(u)' = Cost(u) /\ Detour(u)' = Detour(u)
    BY <1>q DEF Cost, Detour, Back, Seeks
  <1>4. CASE Begin(v)
    <2>1. /\ pc[v] = "idle" /\ pc'[v] = "read" /\ pc'[u] = pc[u] /\ attempt'[v] = 0
          /\ attempt'[u] = attempt[u] /\ UNCHANGED <<leaderAddr, closed, target, conn>>
      BY <1>4, <1>o DEF Begin, sharedVars, TypeOK
    <2>2. Cost(u)' = Cost(u) /\ Detour(v)' = Detour(v)
      BY <1>q, <2>1 DEF Detour, Back, Seeks
    <2>3. Cost(v)' + Detour(u)' <= 6
      BY <1>o, LostBoundedNext DEF Bounded
    <2>4. Spent(v)' <= Slack + 6
      BY <1>2, <1>o, <1>r, <1>s, <2>1, <2>3
    <2>5. Spent(u)' = Spent(u)
      BY <1>o, <2>1, <2>2 DEF Spent
    <2> QED
      BY <1>3, <1>o, <2>1, <2>4, <2>5
  <1>5. CASE ReadLeader(v)
    <2>1. /\ pc[v] = "read" /\ pc'[v] = "invoked" /\ pc'[u] = pc[u] /\ attempt' = attempt
          /\ conn'[v] = leaderAddr /\ ~closed'[v] /\ conn'[u] = conn[u] /\ closed'[u] = closed[u]
          /\ UNCHANGED <<leaderAddr, target>>
      BY <1>5, <1>o DEF ReadLeader, sharedVars, TypeOK
    <2>2. Cost(u)' = Cost(u) /\ Detour(u)' = Detour(u) /\ Detour(v)' = Detour(v)
      BY <1>q, <2>1 DEF Detour, Back, Seeks
    <2>3. Cost(v)' = Cost(v)
      BY <2>1 DEF Cost
    <2> QED
      BY <1>2, <1>o, <1>p, <1>r, <1>s, <2>1, <2>2, <2>3
  <1>6. CASE ExceedAttempts(v) \/ Succeed(v) \/ AllUnreachable(v)
    <2>1. /\ pc[v] \in {"read", "invoked", "next"} /\ pc'[v] = "idle" /\ pc'[u] = pc[u]
          /\ UNCHANGED <<attempt, conn, closed, leaderAddr, target>>
      BY <1>6, <1>o DEF ExceedAttempts, Succeed, AllUnreachable, Answered, End, sharedVars, TypeOK
    <2>2. Cost(u)' = Cost(u)
      BY <1>q, <2>1
    <2>3. Detour(v)' <= Detour(v)
      BY <2>1 DEF Detour, Back, Seeks
    <2>4. Cost(u)' + Detour(v)' <= Cost(u) + Detour(v)
      BY <1>2, <1>o, <1>r, <2>2, <2>3
    <2> QED
      BY <1>o, <1>p, <1>r, <1>s, <2>1, <2>4
  <1>7. CASE WaitAndRetry(v)
    <2>1. /\ pc[v] = "invoked" /\ pc'[v] = "read" /\ pc'[u] = pc[u]
          /\ attempt'[v] = attempt[v] + 1 /\ attempt'[u] = attempt[u]
          /\ UNCHANGED <<conn, closed, leaderAddr, target>>
      BY <1>7, <1>o DEF WaitAndRetry, Retry, Answered, Redirected, sharedVars, TypeOK
    <2>2. closed[v]
      <3>1. conn[v] \in alive => knows[conn[v]] = 1 /\ ~changing[conn[v]] /\ 1 \notin dead[v]
        BY <1>1 DEF DeadMarks
      <3>2. ~expired[v]
        BY DEF Sharing
      <3> QED
        BY <1>7, <3>1, <3>2 DEF WaitAndRetry, Lost, Answered, Redirected
    <2>3. Cost(u)' = Cost(u) /\ Detour(u)' = Detour(u) /\ Detour(v)' = Detour(v)
      BY <1>q, <2>1 DEF Detour, Back, Seeks
    <2>4. Cost(v) = 1 + Away(leaderAddr) /\ Cost(v)' = Away(leaderAddr)
      BY <2>1, <2>2 DEF Cost
    <2>5. Spent(v)' = Spent(v)
      BY <1>2, <1>a, <1>r, <1>s, <2>1, <2>3, <2>4
    <2> QED
      BY <1>2, <1>o, <1>p, <1>r, <1>s, <2>1, <2>3, <2>5
  <1>8. CASE FollowRedirect(v)
    <2>1. /\ pc[v] = "invoked" /\ ~closed[v] /\ conn[v] \in alive /\ knows[conn[v]] # conn[v]
          /\ pc'[v] = "rebind" /\ pc'[u] = pc[u] /\ target'[v] = knows[conn[v]] /\ target'[u] = target[u]
          /\ UNCHANGED <<attempt, conn, closed, leaderAddr>>
      BY <1>8, <1>o DEF FollowRedirect, Redirected, Answered, Lost, sharedVars, TypeOK
    <2>2. target'[v] = 1 /\ leaderAddr = conn[v] /\ leaderAddr \notin {0, 1}
      BY <1>1, <2>1 DEF Sharing, Busy
    <2>3. Cost(u)' = Cost(u) /\ Detour(u)' = Detour(u) /\ Detour(v)' = Detour(v)
      BY <1>q, <2>1, <2>2 DEF Detour, Back, Seeks
    <2>4. Cost(v) = 1 /\ Cost(v)' = 1
      <3>1. 1 + Away(1) = 1 /\ Away(conn[v]) = 1
        BY <1>a, <2>2
      <3> QED
        BY <2>1, <2>2, <3>1 DEF Cost
    <2> QED
      BY <1>2, <1>o, <1>p, <1>r, <1>s, <2>1, <2>3, <2>4
  <1>9. CASE TransportFailure(v)
    <2>1. /\ pc[v] = "invoked" /\ ~closed[v] /\ conn[v] \notin alive
          /\ pc'[v] = "next" /\ pc'[u] = pc[u]
          /\ UNCHANGED <<attempt, conn, closed, leaderAddr, target>>
      BY <1>9, <1>o DEF TransportFailure, Lost, sharedVars, TypeOK
    <2>2. leaderAddr = 0 /\ conn[v] = 0
      BY <1>1, <2>1 DEF Sharing, Busy, TypeOK
    <2>3. Cost(u)' = Cost(u) /\ Detour(u)' = Detour(u) /\ Detour(v)' = Detour(v)
      BY <1>q, <2>1, <2>2 DEF Detour, Back, Seeks
    <2>4. Cost(v) = 2 /\ Cost(v)' = 2
      BY <1>a, <2>1, <2>2 DEF Cost
    <2> QED
      BY <1>2, <1>o, <1>p, <1>r, <1>s, <2>1, <2>3, <2>4
  <1>10. CASE NextAlivePeer(v)
    <2>1. PICK i \in Distances(v) :
            /\ pc[v] = "next" /\ pc' = [pc EXCEPT ![v] = "rebind"]
            /\ target' = [target EXCEPT ![v] = After(i)]
            /\ UNCHANGED <<attempt, conn, closed, leaderAddr>>
      BY <1>10, FirstDistance DEF NextAlivePeer
    <2>2. 0 \in dead[v]
      BY <2>1 DEF Hints, Seeks
    <2>3. /\ pc'[v] = "rebind" /\ pc'[u] = pc[u] /\ target'[u] = target[u] /\ target'[v] # 0
      BY <1>o, <2>1, <2>2 DEF Distances, TypeOK
    <2>4. Cost(u)' = Cost(u) /\ Detour(u)' = Detour(u)
      BY <1>q, <2>1, <2>3
    <2>5. Detour(v) = 2 /\ Detour(v)' \in {0, 2}
      BY <2>1, <2>3 DEF Detour, Back, Seeks
    <2>6. Cost(v) = 2 /\ Cost(v)' \in {1, 2}
      <3>1. 1 + Away(target'[v]) \in {1, 2}
        BY <1>a, <2>3
      <3> QED
        BY <2>1, <2>3, <3>1 DEF Cost
    <2>7. Spent(v)' <= Spent(v)
      BY <1>2, <1>o, <1>s, <2>1, <2>4, <2>6
    <2> QED
      BY <1>2, <1>o, <1>p, <1>r, <1>s, <2>1, <2>3, <2>4, <2>5, <2>7
  <1>11. CASE Rebind(v)
    <2> DEFINE x == target[v]
    <2>1. /\ pc[v] = "rebind" /\ pc'[v] = "read" /\ pc'[u] = pc[u]
          /\ attempt'[v] = attempt[v] + 1 /\ attempt'[u] = attempt[u]
          /\ leaderAddr' = x /\ (closed'[u] <=> closed[u] \/ leaderAddr # x)
          /\ UNCHANGED <<conn, target>>
      BY <1>11, <1>o DEF Rebind, Retry, TypeOK
    <2>2. Back(u)' = Back(u) /\ Seeks(u)' = Seeks(u) /\ ~Back(v)' /\ ~Seeks(v)'
      BY <2>1 DEF Back, Seeks
    <2>3. Back(v) <=> x = 0
      BY <2>1 DEF Back
    <2>4. Seeks(v) <=> x \notin {0, 1}
      BY <2>1 DEF Seeks
    <2>5. x = 0 => leaderAddr # 0
      BY <2>3 DEF Hints
    <2>6. Back(u) => x # 0
      BY <1>o, <2>1 DEF Hints, Harmless, Informed
    <2> HIDE DEF x
    <2>7. Spent(v)' <= Spent(v)
      <3>1. Cost(v)' = Away(x) /\ Cost(v) = IF x = 0 THEN 5 ELSE 1 + Away(x)
        BY <2>1 DEF Cost, x
      <3>2. CASE x = 0
        <4>1. Detour(u)' = 2 /\ Detour(u) \in Nat
          BY <1>2, <2>1, <2>2, <2>6, <3>2 DEF Detour
        <4>2. Cost(v)' = 2 /\ Cost(v) = 5
          BY <1>a, <3>1, <3>2
        <4> QED
          BY <1>2, <1>o, <1>s, <2>1, <4>1, <4>2
      <3>3. CASE x # 0
        <4>1. Detour(u)' <= Detour(u)
          BY <2>1, <2>2, <3>3 DEF Detour
        <4>2. Cost(v)' + 1 = Cost(v)
          BY <1>a, <3>1, <3>3
        <4> QED
          BY <1>2, <1>o, <1>r, <1>s, <2>1, <4>1, <4>2
      <3> QED
        BY <3>2, <3>3
    <2>8. /\ Detour(v)' = IF x = 0 THEN 2 ELSE 0
          /\ Detour(v) = IF x = 0 THEN 5 ELSE IF leaderAddr = 0 \/ x # 1 THEN 2 ELSE 0
      BY <2>1, <2>2, <2>3, <2>4 DEF Detour
    <2>9. pc[u] # "idle" => Cost(u)' + Detour(v)' <= Cost(u) + Detour(v)
      <3>1. pc[u] \in {"read", "invoked", "next", "rebind", "idle"}
        BY <1>o DEF TypeOK
      <3>2. CASE pc[u] = "read"
        <4>1. Cost(u)' = Away(x) /\ Cost(u) = Away(leaderAddr)
          BY <2>1, <3>2 DEF Cost
        <4> QED
          BY <1>a, <2>8, <4>1
      <3>3. CASE pc[u] = "invoked" /\ closed[u]
        <4>1. Cost(u)' = 1 + Away(x) /\ Cost(u) = 1 + Away(leaderAddr)
          BY <2>1, <3>3 DEF Cost
        <4> QED
          BY <1>a, <2>8, <4>1
      <3>4. CASE pc[u] = "invoked" /\ ~closed[u] /\ leaderAddr = x
        <4>1. Cost(u)' = Cost(u)
          BY <2>1, <3>4 DEF Cost
        <4>2. Detour(v)' <= Detour(v)
          BY <2>5, <2>8, <3>4
        <4> QED
          BY <1>2, <1>o, <1>r, <4>1, <4>2
      <3>5. CASE pc[u] = "invoked" /\ ~closed[u] /\ leaderAddr # x
        <4>1. conn[u] = leaderAddr
          BY <1>o, <3>5 DEF Sharing, Busy
        <4>2. Cost(u)' = 1 + Away(x) /\ Cost(u) = Away(leaderAddr)
          BY <2>1, <3>5, <4>1 DEF Cost
        <4> QED
          BY <1>a, <2>8, <3>5, <4>2
      <3>6. CASE pc[u] \in {"next", "rebind"}
        <4>1. Cost(u)' = Cost(u)
          BY <2>1, <3>6 DEF Cost
        <4>2. Detour(v)' <= Detour(v)
          BY <2>8
        <4> QED
          BY <1>2, <1>o, <1>r, <4>1, <4>2
      <3> QED
        BY <3>1, <3>2, <3>3, <3>4, <3>5, <3>6
    <2> QED
      BY <1>o, <1>p, <1>r, <1>s, <2>1, <2>7, <2>9
  <1> QED
    BY <1>4, <1>5, <1>6, <1>7, <1>8, <1>9, <1>10, <1>11 DEF CallStep

LEMMA SInvInit ==
  ASSUME TwoWorkers, Init
  PROVE  SInv
  <1>1. ~Killed
    BY DEF Init, Killed
  <1>2. Cluster /\ Sharing
    BY <1>1 DEF Init, Cluster, Sharing, Busy
  <1>3. Budgets /\ FailoverTransparent
    BY DEF Init, Budgets, FailoverTransparent
  <1> QED
    BY <1>1, <1>2, <1>3, HintsBeforeKill DEF SInv

LEMMA SInvStep ==
  ASSUME TwoWorkers, TypeOK, TypeOK', DeadMarks, SInv, [Next]_vars
  PROVE  SInv'
  <1>n. N > 1 /\ ~Restarts
    BY DEF TwoWorkers
  <1>0. Cluster /\ Sharing /\ Hints /\ Budgets /\ FailoverTransparent
    BY DEF SInv
  <1>1. ASSUME NEW s \in Server, ClusterStep(s) PROVE SInv'
    <2>1. Cluster' /\ ~Over
      BY <1>0, <1>1, <1>n, ClusterGoesOn
    <2>2. Sharing' /\ attempt' = attempt
      BY <1>0, <1>1, <1>n, SharingWithCluster
    <2>3. Hints'
      BY <1>0, <1>1, <1>n, HintsWithCluster
    <2>4. result' = result /\ pc' = pc
      BY <1>1, <1>n DEF ClusterStep, Kill, Suspect, Commit, Restart, callVars
    <2>5. Budgets'
      <3>1. ASSUME NEW w \in Worker, pc'[w] # "idle"
            PROVE  attempt'[w] <= Slack /\ attempt'[w] + Cost(w)' + Detour(Other(w))' <= Slack + 6
        <4>1. attempt'[w] <= Slack /\ attempt'[w] \in Nat /\ Slack \in Nat
          BY <1>0, <2>1, <2>2, <2>4, <3>1, BoundsAssumption DEF Budgets, TypeOK
        <4>2. Cost(w)' + Detour(Other(w))' <= 6
          BY <2>2, <2>3, LostBoundedNext DEF Bounded
        <4>3. Other(w) \in Worker /\ Other(w)' = Other(w)
          BY OtherWorker DEF Other
        <4>4. Cost(w)' \in Nat /\ Detour(Other(w))' \in Nat
          BY <4>3, RangesNext DEF Ranges
        <4> QED
          BY <4>1, <4>2, <4>4
      <3> QED
        BY <3>1 DEF Budgets
    <2> QED
      BY <1>0, <2>1, <2>2, <2>3, <2>4, <2>5 DEF SInv, FailoverTransparent
  <1>2. ASSUME NEW v \in Worker, CallStep(v) PROVE SInv'
    <2>1. Cluster' /\ (Over' <=> Over) /\ (Killed' <=> Killed)
      BY <1>0, <1>2, CallLeavesCluster
    <2>2. Sharing'
      BY <1>0, <1>2, <1>n, SharingKept
    <2>3. ~AllUnreachable(v)
      BY <1>n, PeerLeft DEF AllUnreachable
    <2>4. ~ExceedAttempts(v)
      <3>1. attempt[v] \in Nat /\ Slack \in Nat /\ MaxAttempts \in Nat /\ MaxAttempts > Slack + 6
        BY BoundsAssumption DEF TypeOK, TwoWorkers
      <3>2. Cost(v) \in Nat /\ Detour(Other(v)) \in Nat
        BY CostRange, DetourRange
      <3>3. pc[v] = "read" => attempt[v] <= Slack + 6
        BY <1>0, <3>1, <3>2 DEF Budgets
      <3> QED
        BY <3>1, <3>3 DEF ExceedAttempts
    <2>5. Hints'
      <3>1. CASE Killed
        BY <1>0, <1>2, <2>3, <2>4, <3>1, HintsKept
      <3>2. CASE ~Killed
        <4>1. leaderAddr' = 0 /\ \A w \in Worker : pc'[w] \notin {"next", "rebind"}
          BY <2>1, <2>2, <3>2 DEF Sharing
        <4> QED
          BY <4>1 DEF Hints, Back, Seeks
      <3> QED
        BY <3>1, <3>2
    <2>6. Budgets'
      <3>1. CASE Over
        <4>1. \A w \in Worker : pc'[w] # "idle" => Spent(w)' <= Slack + 6
          BY <1>0, <1>2, <2>2, <2>5, <3>1, WithinBudget
        <4> QED
          BY <2>1, <3>1, <4>1 DEF Budgets, Spent
      <3>2. CASE ~Over
        BY <1>0, <1>2, <2>1, <3>2, WithinSlack DEF Budgets
      <3> QED
        BY <3>1, <3>2
    <2>7. result' = result \/ result' = [result EXCEPT ![v] = "ok"]
      BY <1>2, <2>3, <2>4
      DEF CallStep, Begin, ReadLeader, WaitAndRetry, FollowRedirect, TransportFailure, Succeed, End,
          NextAlivePeer, Rebind
    <2>8. FailoverTransparent'
      BY <1>0, <2>7 DEF FailoverTransparent, TypeOK
    <2> QED
      BY <2>1, <2>2, <2>5, <2>6, <2>8 DEF SInv
  <1>3. CASE UNCHANGED vars
    <2>1. /\ UNCHANGED <<alive, knows, changing, leaderAddr, pc, attempt, dead>>
          /\ UNCHANGED <<conn, closed, expired, target, result>>
      BY <1>3 DEF vars, clusterVars, sharedVars, callVars
    <2>2. Cluster' /\ Sharing' /\ FailoverTransparent' /\ (Over' <=> Over)
      BY <1>0, <2>1 DEF Cluster, Killed, ElectionOver, Over, Sharing, FailoverTransparent
    <2>3. Hints'
      BY <1>0, <2>1 DEF Hints, Found, Serves, Harmless, Informed, Seeks, Back, Other
    <2>4. \A w : Cost(w)' = Cost(w) /\ Detour(Other(w))' = Detour(Other(w))
      BY <2>1 DEF Cost, Detour, Back, Seeks, Other
    <2>5. Budgets'
      BY <1>0, <2>1, <2>2, <2>4 DEF Budgets
    <2> QED
      BY <2>2, <2>3, <2>5 DEF SInv
  <1>4. ~Deadlines
    BY DEF TwoWorkers
  <1> QED
    BY <1>1, <1>2, <1>3, <1>4 DEF Next, Expire

\* Transparent failover for two workers that share a connection, each with any
\* number of calls: however their rebinds close it under each other and stale
\* hints take it back to the dead leader, no call loses more than six attempts
\* once the election is over.  The 15 attempts of the code are enough when the
\* election costs a call at most eight.
THEOREM FailoverIsTransparentToTwo ==
  ASSUME TwoWorkers
  PROVE  Spec => []FailoverTransparent
  <1>1. Init => SInv
    BY SInvInit
  <1>2. TypeOK /\ TypeOK' /\ DeadMarks /\ SInv /\ [Next]_vars => SInv'
    BY SInvStep
  <1>3. TypeOK /\ DeadMarks /\ [Next]_vars => DeadMarks'
    BY DeadMarksStep DEF TwoWorkers
  <1>4. SInv => FailoverTransparent
    BY DEF SInv
  <1> QED
    BY <1>1, <1>2, <1>3, <1>4, DeadMarksInit, InterceptorTypes, PTL DEF Spec
=============================================================================
