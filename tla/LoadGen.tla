------------------------------ MODULE LoadGen ------------------------------
(***************************************************************************)
(* The load generator, cmd/loadgen/main.go: workers issue increments one   *)
(* after the other and hand a row per operation to the main goroutine over *)
(* a bounded channel; the operation that brings the completed count to     *)
(* kill-after makes its worker kill a server; when all workers have        *)
(* returned the channel is closed, the CSV flushed and the metadata        *)
(* written.  The servers are the environment: a call succeeds or fails.    *)
(***************************************************************************)
EXTENDS Naturals, Sequences, FiniteSets, SequencesExt

CONSTANTS
  Worker,
  Increments,   \* operations per worker
  ThinkTime,    \* TRUE: the workers pause between operations
  KillAfter,    \* kill a server at this many completed operations; 0: never
  Peers,        \* the -servers flag, a sequence of addresses
  KillTarget,   \* the -kill-target flag, which main does not check
  KillAddress,  \* the server to kill instead; "": none given
  ChanCap,      \* capacity of rows, 1024 in the code
  FlushEvery,   \* rows between two flushes, 100 in the code
  StartNS,      \* when the run starts, in nanoseconds
  Clock,        \* the readings of the clock, from StartNS on
  DiskErrors    \* TRUE: writing to the output files may fail

ASSUME SizesAssumption ==
  /\ Increments \in Nat \ {0} /\ Worker # {} /\ Peers # <<>>  \* checked by main
  /\ IsFiniteSet(Worker)                                       \* an int flag
  /\ ChanCap \in Nat \ {0} /\ FlushEvery \in Nat \ {0}
  /\ KillAfter \in Nat
ASSUME ClockAssumption ==
  StartNS \in Nat \ {0} /\ StartNS \in Clock /\ \A t \in Clock : t \in Nat /\ t >= StartNS
ASSUME FlagsAssumption == ThinkTime \in BOOLEAN /\ DiskErrors \in BOOLEAN

VARIABLES
  now,            \* the last reading of the clock, in nanoseconds
  interrupted,    \* runCtx is done (Ctrl-C)
  pc,             \* pc[w]: where worker w is in its loop
  op,             \* op[w]: the operation w is at, from 1
  call,           \* call[w]: the row w is filling in
  started, completed, successCount, failureCount,
  killTriggered,
  kill,           \* the injector's result
  rows,           \* the channel
  closed,
  csv,            \* rows given to the CSV writer
  flushed,        \* how many of them are known to be in the file
  exit,           \* "running", "ok" or "fatal" (log.Fatal)
  meta            \* the metadata file

workerVars == <<pc, op, call>>
countVars == <<started, completed, successCount, failureCount>>
killVars == <<killTriggered, kill>>
outputVars == <<csv, flushed, exit, meta>>
vars == <<now, interrupted, workerVars, countVars, killVars, rows, closed, outputVars>>

\* A row: the operation is its worker's op-th.
Row == [worker : Worker, op : Nat, start : Nat, end : Nat, ok : BOOLEAN]
NewCall(w, n, t) == [worker |-> w, op |-> n, start |-> t, end |-> 0, ok |-> FALSE]
NoKill == [at |-> 0, err |-> FALSE]
NoMeta == [startedAt |-> 0, success |-> 0, failure |-> 0, kill |-> NoKill]

Init ==
  /\ now = StartNS /\ interrupted = FALSE
  /\ pc = [w \in Worker |-> "top"]
  /\ op = [w \in Worker |-> 1]
  /\ call = [w \in Worker |-> NewCall(w, 0, 0)]
  /\ started = 0 /\ completed = 0 /\ successCount = 0 /\ failureCount = 0
  /\ killTriggered = FALSE /\ kill = NoKill
  /\ rows = <<>> /\ closed = FALSE
  /\ csv = <<>> /\ flushed = 0 /\ exit = "running" /\ meta = NoMeta

Running == exit = "running"
At(w, at) == Running /\ pc[w] = at
Goto(w, at) == pc' = [pc EXCEPT ![w] = at]

\* time.Now: what a reading shows is the last reading or later, by any amount.
ReadClock == now' \in {t \in Clock : t >= now}

Interrupt ==
  /\ Running /\ ~interrupted
  /\ interrupted' = TRUE
  /\ UNCHANGED <<now, workerVars, countVars, killVars, rows, closed, outputVars>>

-----------------------------------------------------------------------------
(* A worker's loop                                                         *)

StartOp(w) ==
  /\ At(w, "top") /\ ~interrupted
  /\ ReadClock
  /\ started' = started + 1
  /\ call' = [call EXCEPT ![w] = NewCall(w, op[w], now')]
  /\ Goto(w, "call")
  /\ UNCHANGED <<interrupted, op, completed, successCount, failureCount,
                 killVars, rows, closed, outputVars>>

Leave(w) ==
  /\ At(w, "top") /\ interrupted
  /\ Goto(w, "done")
  /\ UNCHANGED <<now, interrupted, op, call, countVars, killVars, rows, closed, outputVars>>

\* IncrCounter returns.  The row is complete, its outcome counted.
Return(w, ok) ==
  /\ At(w, "call")
  /\ ReadClock
  /\ call' = [call EXCEPT ![w] = [@ EXCEPT !.end = now', !.ok = ok]]
  /\ IF ok THEN successCount' = successCount + 1 /\ UNCHANGED failureCount
           ELSE failureCount' = failureCount + 1 /\ UNCHANGED successCount
  /\ Goto(w, "send")
  /\ UNCHANGED <<interrupted, op, started, completed, killVars, rows, closed, outputVars>>

\* Mutant: the row is dropped when the channel is full.
SendOrDrop(w) ==
  /\ At(w, "send")
  /\ rows' = IF Len(rows) < ChanCap THEN Append(rows, call[w]) ELSE rows
  /\ Goto(w, "sent")
  /\ UNCHANGED <<now, interrupted, op, call, countVars, killVars, closed, outputVars>>

Send(w) ==
  /\ At(w, "send") /\ Len(rows) < ChanCap
  /\ rows' = Append(rows, call[w])
  /\ Goto(w, "sent")
  /\ UNCHANGED <<now, interrupted, op, call, countVars, killVars, closed, outputVars>>

\* Mutant: one operation too many.
NextOpInclusive(w) ==
  /\ op' = [op EXCEPT ![w] = @ + 1]
  /\ Goto(w, IF op[w] > Increments THEN "done" ELSE "top")

NextOp(w) ==
  /\ op' = [op EXCEPT ![w] = @ + 1]
  /\ Goto(w, IF op[w] = Increments THEN "done" ELSE "top")

\* The rest of the loop body: the think time, if any, and the next operation.
Proceed(w) == IF ThinkTime THEN Goto(w, "think") /\ UNCHANGED op ELSE NextOp(w)

\* Mutant: the operations started are compared instead of those completed.
CompleteByStarted(w) ==
  /\ At(w, "sent")
  /\ completed' = completed + 1
  /\ killTriggered' = (killTriggered \/ started = KillAfter)
  /\ IF started = KillAfter THEN Goto(w, "trigger") /\ UNCHANGED op ELSE Proceed(w)
  /\ UNCHANGED <<now, interrupted, call, started, successCount, failureCount,
                 kill, rows, closed, outputVars>>

\* completed.Add, and the decision to kill on the value it returned.
Complete(w) ==
  /\ At(w, "sent")
  /\ LET hit == KillAfter > 0 /\ completed + 1 = KillAfter IN
       /\ completed' = completed + 1
       /\ killTriggered' = (killTriggered \/ hit)
       /\ IF hit THEN Goto(w, "trigger") /\ UNCHANGED op ELSE Proceed(w)
  /\ UNCHANGED <<now, interrupted, call, started, successCount, failureCount,
                 kill, rows, closed, outputVars>>

\* resolveTarget, given the address the interceptor takes for the leader's;
\* "" stands for its errors: no follower, or a target it does not support.
ResolveTarget(leader) ==
  LET followers == SelectSeq(Peers, LAMBDA p : p # leader) IN
  CASE KillAddress # "" -> KillAddress
    [] KillAddress = "" /\ KillTarget = "leader" -> leader
    [] KillAddress = "" /\ KillTarget = "follower" /\ followers # <<>> -> Head(followers)
    [] OTHER -> ""

\* Whether killing addr fails: there is no target, it has no port, nobody
\* listens there, or the process cannot be signalled.
KillFails(addr) == IF addr = "" THEN {TRUE} ELSE BOOLEAN

\* faultInjector.Trigger, inside its sync.Once.  (The address and the process id
\* only go into the log and the metadata.)
Trigger(w) ==
  /\ At(w, "trigger")
  /\ ReadClock
  /\ \E leader \in Range(Peers) : \E err \in KillFails(ResolveTarget(leader)) :
       kill' = IF kill # NoKill THEN kill ELSE [at |-> now', err |-> err]
  /\ Proceed(w)
  /\ UNCHANGED <<interrupted, call, countVars, killTriggered, rows, closed, outputVars>>

\* The select on think time and Ctrl-C.
Think(w) ==
  /\ At(w, "think")
  /\ NextOp(w) \/ (interrupted /\ Goto(w, "done") /\ UNCHANGED op)
  /\ UNCHANGED <<now, interrupted, call, countVars, killVars, rows, closed, outputVars>>

WorkerStep(w) ==
  \/ StartOp(w) \/ Leave(w) \/ (\E ok \in BOOLEAN : Return(w, ok))
  \/ Send(w) \/ Complete(w) \/ Trigger(w) \/ Think(w)

-----------------------------------------------------------------------------
(* The goroutine that closes the channel, and the main goroutine           *)

\* Mutant: a worker is done when it has sent its last row.
CloseWhenSent ==
  /\ Running /\ ~closed
  /\ \A w \in Worker : \/ pc[w] = "done"
                       \/ op[w] = Increments /\ pc[w] \in {"trigger", "think"}
  /\ closed' = TRUE
  /\ UNCHANGED <<now, interrupted, workerVars, countVars, killVars, rows, outputVars>>

CloseRows ==
  /\ Running /\ ~closed
  /\ \A w \in Worker : pc[w] = "done"
  /\ closed' = TRUE
  /\ UNCHANGED <<now, interrupted, workerVars, countVars, killVars, rows, outputVars>>

\* Mutant: main drains the channel only after the workers have returned.
WriteAfterClose ==
  /\ Running /\ closed /\ rows # <<>>
  /\ csv' = Append(csv, Head(rows))
  /\ rows' = Tail(rows)
  /\ UNCHANGED <<now, interrupted, workerVars, countVars, killVars, closed, flushed, exit, meta>>

WriteRow ==
  /\ Running /\ rows # <<>>
  /\ csv' = Append(csv, Head(rows))
  /\ rows' = Tail(rows)
  /\ flushed' = IF Len(csv') % FlushEvery = 0 THEN Len(csv') ELSE flushed
  /\ UNCHANGED <<now, interrupted, workerVars, countVars, killVars, closed, exit, meta>>

TheMeta ==
  [startedAt |-> StartNS, success |-> successCount, failure |-> failureCount,
   kill |-> IF KillAfter > 0 /\ killTriggered THEN kill ELSE NoKill]

\* The range loop ends: flush, collect the counts and the kill, write the
\* metadata.  The final GetCounter adds a value or an error to them, no more.
Finish ==
  /\ Running /\ closed /\ rows = <<>>
  /\ flushed' = Len(csv)
  /\ meta' = TheMeta
  /\ exit' = "ok"
  /\ UNCHANGED <<now, interrupted, workerVars, countVars, killVars, rows, closed, csv>>

\* log.Fatal when a row, a flush or the metadata cannot be written: the process
\* is gone, and all of its memory; the file is as far as it got.
DiskFails ==
  /\ DiskErrors /\ Running /\ (rows # <<>> \/ closed)
  /\ exit' = "fatal"
  /\ now' = StartNS /\ interrupted' = FALSE
  /\ pc' = [w \in Worker |-> "done"]
  /\ op' = [w \in Worker |-> 1]
  /\ call' = [w \in Worker |-> NewCall(w, 0, 0)]
  /\ started' = 0 /\ completed' = 0 /\ successCount' = 0 /\ failureCount' = 0
  /\ killTriggered' = FALSE /\ kill' = NoKill
  /\ rows' = <<>> /\ closed' = TRUE
  /\ UNCHANGED <<csv, flushed, meta>>

MainStep == CloseRows \/ WriteRow \/ Finish

LoadStep == Interrupt \/ (\E w \in Worker : WorkerStep(w)) \/ MainStep \/ DiskFails

-----------------------------------------------------------------------------
(* What a run of the load generator leaves behind                          *)

KillResult == [at : Nat, err : BOOLEAN]
Meta == [startedAt : Nat, success : Nat, failure : Nat, kill : KillResult]

\* Every variable stays in its type.
TypeOK ==
  /\ now \in Clock /\ interrupted \in BOOLEAN
  /\ pc \in [Worker -> {"top", "call", "send", "sent", "trigger", "think", "done"}]
  /\ op \in [Worker -> 1 .. Increments + 1]
  /\ call \in [Worker -> Row] /\ rows \in Seq(Row) /\ csv \in Seq(Row)
  /\ Len(rows) <= ChanCap /\ closed \in BOOLEAN
  /\ flushed \in 0 .. Len(csv) /\ exit \in {"running", "ok", "fatal"}
  /\ started \in Nat /\ completed \in Nat /\ successCount \in Nat /\ failureCount \in Nat
  /\ killTriggered \in BOOLEAN /\ kill \in KillResult /\ meta \in Meta

Sent == csv \o rows
Count(s, Test(_)) == Cardinality({i \in DOMAIN s : Test(s[i])})

\* A run that ends normally leaves one flushed row per operation that was begun,
\* each worker's in order, and metadata that agree with the rows (the worker
\* loop, the closing of the channel and the last flush).
CsvComplete ==
  exit = "ok" =>
    /\ flushed = Len(csv) /\ rows = <<>>
    /\ Len(csv) = started
    /\ \A i, j \in DOMAIN csv : csv[i].worker = csv[j].worker /\ i < j => csv[i].op < csv[j].op
    /\ Count(csv, LAMBDA r : r.ok) = meta.success
    /\ Count(csv, LAMBDA r : ~r.ok) = meta.failure

\* The metadata of a run that ends normally report a kill if and only if
\* kill-after operations completed, and then with the injector's result.
KillReported ==
  exit = "ok" =>
    IF KillAfter > 0 /\ completed >= KillAfter
    THEN kill.at > 0 /\ meta.kill = kill
    ELSE meta.kill.at = 0

\* When the kill is triggered, at least kill-after operations had ended, and
\* all their rows are on their way to the file.
KillNotEarly ==
  kill.at > 0 => Count(Sent, LAMBDA r : r.end <= kill.at) >= KillAfter
=============================================================================
