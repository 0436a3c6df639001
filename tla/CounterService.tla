--------------------------- MODULE CounterService ---------------------------
(***************************************************************************)
(* What the counter promises its clients, with no servers in sight: every  *)
(* increment is answered with a value of its own, larger than every answer *)
(* that had been given when the increment was issued, and no larger than   *)
(* the number of times some increment was issued.  That is a fetch-and-    *)
(* increment whose unanswered calls may or may not have taken effect.      *)
(***************************************************************************)
EXTENDS Naturals, FiniteSets, FiniteSetsExt

CONSTANT Request

VARIABLES
  status,  \* status[r]: "idle", "pending", "answered" or "abandoned"
  answer,  \* answer[r]: the value r was answered with; 0: none
  floor,   \* floor[r]: the largest answer given before a pending r was issued
  issued   \* how many times some request was issued, reissues included

vars == <<status, answer, floor, issued>>

Init ==
  /\ status = [r \in Request |-> "idle"]
  /\ answer = [r \in Request |-> 0]
  /\ floor = [r \in Request |-> 0]
  /\ issued = 0

Answers == {answer[r] : r \in Request}

Issue(r) ==
  /\ status[r] = "idle"
  /\ status' = [status EXCEPT ![r] = "pending"]
  /\ floor' = [floor EXCEPT ![r] = Max(Answers)]
  /\ issued' = issued + 1
  /\ UNCHANGED answer

\* The same request again, under the same id.
Reissue(r) ==
  /\ status[r] = "pending"
  /\ issued' = issued + 1
  /\ UNCHANGED <<status, answer, floor>>

Respond(r, v) ==
  /\ status[r] = "pending"
  /\ v \notin Answers
  /\ status' = [status EXCEPT ![r] = "answered"]
  /\ answer' = [answer EXCEPT ![r] = v]
  /\ floor' = [floor EXCEPT ![r] = 0]
  /\ UNCHANGED issued

Abandon(r) ==
  /\ status[r] = "pending"
  /\ status' = [status EXCEPT ![r] = "abandoned"]
  /\ floor' = [floor EXCEPT ![r] = 0]
  /\ UNCHANGED <<answer, issued>>

Next ==
  \E r \in Request :
    \/ Issue(r) \/ Reissue(r) \/ Abandon(r)
    \/ \E v \in floor[r] + 1 .. issued : Respond(r, v)

Spec == Init /\ [][Next]_vars
=============================================================================
