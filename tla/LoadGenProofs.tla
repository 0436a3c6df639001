--------------------------- MODULE LoadGenProofs ---------------------------
(***************************************************************************)
(* Theorems about the load generator, for every number of workers and      *)
(* operations, every capacity of the channel and every kill-after: what    *)
(* the files say when it has ended, and when the server was killed.        *)
(***************************************************************************)
EXTENDS Measurement, FiniteSetTheorems, SequenceTheorems, TLAPS

-----------------------------------------------------------------------------
(* The inductive invariant                                                 *)

\* A worker that is not done is at one of its operations.
Numbers == \A w \in Worker : pc[w] # "done" => op[w] <= Increments

TypeInv == TypeOK /\ Numbers

\* Workers that have begun an operation and not sent its row; the ones that have
\* counted its outcome as ok or not; the ones that have yet to count it as completed.
Holding == {w \in Worker : pc[w] \in {"call", "send"}}
Sending(ok) == {w \in Worker : pc[w] = "send" /\ call[w].ok = ok}
Counting == {w \in Worker : pc[w] = "sent"}

\* Where in the file or the channel the rows with an outcome are, and the rows of
\* operations that had ended at a time.
WithOutcome(ok) == {i \in DOMAIN Sent : Sent[i].ok = ok}
EndedBy(t) == {i \in DOMAIN Sent : Sent[i].end <= t}

Succeeded == WithOutcome(TRUE)
Failed == WithOutcome(FALSE)
SendingOk == Sending(TRUE)
SendingFailed == Sending(FALSE)

\* Every operation is in one place, and counted once.
RowsAccounted ==
  /\ Len(Sent) + Cardinality(Holding) = started
  /\ Len(Sent) = completed + Cardinality(Counting)
  /\ Cardinality(Succeeded) + Cardinality(SendingOk) = successCount
  /\ Cardinality(Failed) + Cardinality(SendingFailed) = failureCount

\* The rows sent are of operations the workers have come to, in their order.
RowsOrdered ==
  /\ \A i \in DOMAIN Sent :
       LET w == Sent[i].worker IN
         Sent[i].op <= op[w] /\ (pc[w] \in {"top", "call", "send"} => Sent[i].op < op[w])
  /\ \A w \in Worker : pc[w] \in {"call", "send"} => call[w].worker = w /\ call[w].op = op[w]
  /\ \A i, j \in DOMAIN Sent : Sent[i].worker = Sent[j].worker /\ i < j => Sent[i].op < Sent[j].op

\* No row ends after the last reading of the clock.
RowsPast ==
  /\ \A i \in DOMAIN Sent : Sent[i].end <= now
  /\ \A w \in Worker : pc[w] = "send" => call[w].end <= now

\* The kill is decided once, at kill-after, and carried out by a worker.
KillOnce ==
  /\ killTriggered <=> KillAfter > 0 /\ completed >= KillAfter
  /\ \A w \in Worker : pc[w] = "trigger" => killTriggered
  /\ killTriggered => kill.at > 0 \/ \E w \in Worker : pc[w] = "trigger"
  /\ kill.at = 0 => kill = NoKill
  /\ kill.at > 0 => Cardinality(EndedBy(kill.at)) >= KillAfter

\* The channel is closed, and main done, when the workers are.
Ending ==
  /\ closed => \A w \in Worker : pc[w] = "done"
  /\ exit = "ok" => closed /\ rows = <<>> /\ flushed = Len(csv) /\ meta = TheMeta

Core == RowsAccounted /\ RowsOrdered /\ RowsPast /\ KillOnce /\ Ending

\* After log.Fatal the memory is gone and only the file is left.
LInv ==
  /\ TypeInv
  /\ exit = "fatal" => kill = NoKill
  /\ exit # "fatal" => Core

-----------------------------------------------------------------------------
(* Types                                                                   *)

\* A reading of the clock is a time, no earlier than the last one.
LEMMA ClockReads ==
  ASSUME TypeOK, ReadClock
  PROVE  now' \in Clock /\ now' \in Nat /\ now' > 0 /\ now' >= now
  BY ClockAssumption DEF ReadClock, TypeOK

LEMMA ClockType == TypeOK => now \in Nat /\ now > 0
  BY ClockAssumption DEF TypeOK

LEMMA LTypeInit == Init => TypeInv
  <1> SUFFICES ASSUME Init PROVE TypeInv
    OBVIOUS
  <1>2. now \in Clock
    BY ClockAssumption DEF Init
  <1>3. \A w \in Worker : NewCall(w, 0, 0) \in Row
    BY DEF NewCall, Row
  <1>4. pc \in [Worker -> {"top", "call", "send", "sent", "trigger", "think", "done"}]
    BY DEF Init
  <1>5. op \in [Worker -> 1 .. Increments + 1] /\ \A w \in Worker : op[w] <= Increments
    BY SizesAssumption DEF Init
  <1>6. call \in [Worker -> Row]
    BY <1>3 DEF Init
  <1>7. /\ rows \in Seq(Row) /\ csv \in Seq(Row) /\ Len(csv) = 0 /\ Len(rows) <= ChanCap
        /\ flushed \in 0 .. Len(csv)
    BY SizesAssumption DEF Init
  <1>8. kill \in KillResult /\ meta \in Meta
    BY DEF Init, NoKill, NoMeta, KillResult, Meta
  <1>9. /\ interrupted \in BOOLEAN /\ closed \in BOOLEAN /\ killTriggered \in BOOLEAN
        /\ exit \in {"running", "ok", "fatal"}
        /\ started \in Nat /\ completed \in Nat /\ successCount \in Nat /\ failureCount \in Nat
    BY DEF Init
  <1> QED
    BY <1>2, <1>4, <1>5, <1>6, <1>7, <1>8, <1>9 DEF TypeInv, TypeOK, Numbers

\* A worker goes on: to its pause, its next operation or its end.
LEMMA ProceedFrame ==
  ASSUME TypeInv, NEW w \in Worker, pc[w] # "done", Proceed(w) \/ NextOp(w)
  PROVE  /\ pc' \in [Worker -> {"top", "call", "send", "sent", "trigger", "think", "done"}]
         /\ op' \in [Worker -> 1 .. Increments + 1]
         /\ pc'[w] \in {"think", "top", "done"}
         /\ op'[w] >= op[w] /\ (pc'[w] = "top" => op'[w] > op[w])
         /\ pc'[w] # "done" => op'[w] <= Increments
         /\ \A v \in Worker \ {w} : pc'[v] = pc[v] /\ op'[v] = op[v]
  <1>t. /\ pc \in [Worker -> {"top", "call", "send", "sent", "trigger", "think", "done"}]
        /\ op \in [Worker -> 1 .. Increments + 1] /\ op[w] <= Increments /\ Increments \in Nat
    BY SizesAssumption DEF TypeInv, TypeOK, Numbers
  <1>1. CASE NextOp(w)
    <2>1. op[w] + 1 \in 1 .. Increments + 1
      BY <1>t
    <2> QED
      BY <1>1, <1>t, <2>1 DEF NextOp, Goto
  <1>2. CASE pc' = [pc EXCEPT ![w] = "think"] /\ op' = op
    BY <1>2, <1>t
  <1> QED
    BY <1>1, <1>2 DEF Proceed, Goto

-----------------------------------------------------------------------------
(* Counting                                                                *)

One(p) == IF p THEN 1 ELSE 0

\* A worker enters or leaves a set of workers; the others stay where they are.
LEMMA OneMoves ==
  ASSUME NEW S \in SUBSET Worker, NEW T \in SUBSET Worker, NEW w \in Worker,
         S \ {w} = T \ {w}
  PROVE  /\ Cardinality(S) \in Nat /\ Cardinality(T) \in Nat
         /\ Cardinality(T) + One(w \in S) = Cardinality(S) + One(w \in T)
  <1>1. IsFiniteSet(S) /\ IsFiniteSet(T)
    BY SizesAssumption, FS_Subset
  <1>2. IsFiniteSet(S \ {w}) /\ Cardinality(S \ {w}) = IF w \in S THEN Cardinality(S) - 1 ELSE Cardinality(S)
    BY <1>1, FS_RemoveElement
  <1>3. Cardinality(T \ {w}) = IF w \in T THEN Cardinality(T) - 1 ELSE Cardinality(T)
    BY <1>1, FS_RemoveElement
  <1>4. Cardinality(S) \in Nat /\ Cardinality(T) \in Nat
    BY <1>1, FS_CardinalityType
  <1>c. Cardinality(S \ {w}) = Cardinality(T \ {w})
    OBVIOUS
  <1>5. CASE w \in S /\ w \in T
    BY <1>2, <1>3, <1>4, <1>c, <1>5 DEF One
  <1>6. CASE w \in S /\ w \notin T
    BY <1>2, <1>3, <1>4, <1>c, <1>6 DEF One
  <1>7. CASE w \notin S /\ w \in T
    BY <1>2, <1>3, <1>4, <1>c, <1>7 DEF One
  <1>8. CASE w \notin S /\ w \notin T
    BY <1>2, <1>3, <1>4, <1>c, <1>8 DEF One
  <1> QED
    BY <1>5, <1>6, <1>7, <1>8

LEMMA SegmentFinite ==
  ASSUME NEW n \in Nat, NEW S \in SUBSET (1 .. n)
  PROVE  IsFiniteSet(S) /\ Cardinality(S) \in Nat /\ Cardinality(S) <= n
  <1>1. IsFiniteSet(1 .. n) /\ Cardinality(1 .. n) = n
    BY FS_Interval
  <1>2. IsFiniteSet(S) /\ Cardinality(S) <= Cardinality(1 .. n)
    BY <1>1, FS_Subset
  <1> QED
    BY <1>1, <1>2, FS_CardinalityType

\* The positions of a sequence that got one element more.
LEMMA OneMorePosition ==
  ASSUME NEW n \in Nat, NEW S \in SUBSET (1 .. n), NEW T \in SUBSET (1 .. n + 1),
         \A i \in 1 .. n : i \in S <=> i \in T
  PROVE  Cardinality(T) = Cardinality(S) + One(n + 1 \in T)
  <1>1. IsFiniteSet(S) /\ Cardinality(S) \in Nat
    BY SegmentFinite
  <1>s. \A i \in 1 .. n + 1 : i = n + 1 \/ i \in 1 .. n
    OBVIOUS
  <1>n. n + 1 \notin S
    OBVIOUS
  <1>2. CASE n + 1 \in T
    <2>1. T = S \cup {n + 1}
      <3>1. \A i \in T : i \in S \cup {n + 1}
        BY <1>s
      <3>2. \A i \in S : i \in T
        OBVIOUS
      <3> QED
        BY <1>2, <3>1, <3>2
    <2>2. Cardinality(S \cup {n + 1}) = IF n + 1 \in S THEN Cardinality(S) ELSE Cardinality(S) + 1
      BY <1>1, FS_AddElement
    <2> QED
      BY <1>2, <1>n, <2>1, <2>2 DEF One
  <1>3. CASE n + 1 \notin T
    <2>1. T = S
      <3>1. \A i \in T : i \in S
        BY <1>3, <1>s
      <3>2. \A i \in S : i \in T
        OBVIOUS
      <3> QED
        BY <3>1, <3>2
    <2> QED
      BY <1>1, <1>3, <2>1 DEF One
  <1> QED
    BY <1>2, <1>3

-----------------------------------------------------------------------------
(* The rows sent, on their way or written                                  *)

LEMMA SentType ==
  ASSUME TypeOK
  PROVE  /\ Sent \in Seq(Row) /\ Len(Sent) = Len(csv) + Len(rows) /\ Len(Sent) \in Nat
         /\ DOMAIN Sent = 1 .. Len(Sent)
         /\ \A i \in DOMAIN Sent : Sent[i] \in Row
  <1>1. csv \in Seq(Row) /\ rows \in Seq(Row)
    BY DEF TypeOK
  <1>2. Sent \in Seq(Row) /\ Len(Sent) = Len(csv) + Len(rows)
    BY <1>1, ConcatProperties DEF Sent
  <1> HIDE DEF Sent
  <1> QED
    BY <1>2

\* A worker's row is put behind the others.
LEMMA SentGrows ==
  ASSUME TypeOK, NEW x \in Row, csv' = csv, rows' = Append(rows, x)
  PROVE  /\ rows' \in Seq(Row) /\ Len(rows') = Len(rows) + 1
         /\ Len(Sent') = Len(Sent) + 1 /\ DOMAIN Sent' = 1 .. Len(Sent) + 1
         /\ \A i \in 1 .. Len(Sent) : Sent'[i] = Sent[i]
         /\ Sent'[Len(Sent) + 1] = x
  <1>1. csv \in Seq(Row) /\ rows \in Seq(Row)
    BY DEF TypeOK
  <1>2. rows' \in Seq(Row) /\ Len(rows') = Len(rows) + 1
    BY <1>1
  <1>3. Sent' = Append(Sent, x)
    BY <1>1 DEF Sent
  <1>4. Sent \in Seq(Row)
    BY SentType
  <1> HIDE DEF Sent
  <1>5. /\ Append(Sent, x) \in Seq(Row) /\ Len(Append(Sent, x)) = Len(Sent) + 1
        /\ \A i \in 1 .. Len(Sent) : Append(Sent, x)[i] = Sent[i]
        /\ Append(Sent, x)[Len(Sent) + 1] = x
    BY <1>4, AppendProperties
  <1> QED
    BY <1>2, <1>3, <1>5

\* Main takes the first row of the channel: nothing is lost or reordered.
LEMMA SentMoves ==
  ASSUME TypeOK, rows # <<>>, csv' = Append(csv, Head(rows)), rows' = Tail(rows)
  PROVE  /\ csv' \in Seq(Row) /\ rows' \in Seq(Row)
         /\ Len(csv') = Len(csv) + 1 /\ Len(rows') <= Len(rows)
         /\ Sent' = Sent
  <1>1. csv \in Seq(Row) /\ rows \in Seq(Row)
    BY DEF TypeOK
  <1>2. Head(rows) \in Row /\ Tail(rows) \in Seq(Row) /\ Len(Tail(rows)) = Len(rows) - 1
    BY <1>1
  <1>3. csv' \in Seq(Row) /\ rows' \in Seq(Row) /\ Len(csv') = Len(csv) + 1 /\ Len(rows') <= Len(rows)
    BY <1>1, <1>2
  <1>4. Append(csv, Head(rows)) \o Tail(rows) = csv \o rows
    BY <1>1, <1>2
  <1> QED
    BY <1>3, <1>4 DEF Sent

LEMMA PositionsGrow ==
  ASSUME TypeOK, NEW x \in Row, csv' = csv, rows' = Append(rows, x)
  PROVE  /\ \A ok \in BOOLEAN :
              Cardinality(WithOutcome(ok)') = Cardinality(WithOutcome(ok)) + One(x.ok = ok)
         /\ \A t \in Nat : Cardinality(EndedBy(t)') >= Cardinality(EndedBy(t))
  <1>1. /\ Len(Sent') = Len(Sent) + 1 /\ DOMAIN Sent' = 1 .. Len(Sent) + 1
        /\ \A i \in 1 .. Len(Sent) : Sent'[i] = Sent[i]
        /\ Sent'[Len(Sent) + 1] = x
    BY SentGrows
  <1>2. Len(Sent) \in Nat /\ DOMAIN Sent = 1 .. Len(Sent)
    BY SentType
  <1> HIDE DEF Sent
  <1>3. ASSUME NEW ok \in BOOLEAN
        PROVE  Cardinality(WithOutcome(ok)') = Cardinality(WithOutcome(ok)) + One(x.ok = ok)
    <2>1. /\ WithOutcome(ok) \in SUBSET (1 .. Len(Sent)) /\ WithOutcome(ok)' \in SUBSET (1 .. Len(Sent) + 1)
          /\ \A i \in 1 .. Len(Sent) : i \in WithOutcome(ok) <=> i \in WithOutcome(ok)'
          /\ (Len(Sent) + 1 \in WithOutcome(ok)') <=> x.ok = ok
      BY <1>1, <1>2 DEF WithOutcome
    <2> HIDE DEF WithOutcome
    <2>2. Cardinality(WithOutcome(ok)') = Cardinality(WithOutcome(ok)) + One(Len(Sent) + 1 \in WithOutcome(ok)')
      BY <1>2, <2>1, OneMorePosition
    <2> QED
      BY <2>1, <2>2 DEF One
  <1>4. ASSUME NEW t \in Nat
        PROVE  Cardinality(EndedBy(t)') >= Cardinality(EndedBy(t))
    <2>1. /\ EndedBy(t) \in SUBSET (1 .. Len(Sent)) /\ EndedBy(t)' \in SUBSET (1 .. Len(Sent) + 1)
          /\ \A i \in 1 .. Len(Sent) : i \in EndedBy(t) <=> i \in EndedBy(t)'
      BY <1>1, <1>2 DEF EndedBy
    <2> HIDE DEF EndedBy
    <2>2. Cardinality(EndedBy(t)') = Cardinality(EndedBy(t)) + One(Len(Sent) + 1 \in EndedBy(t)')
      BY <1>2, <2>1, OneMorePosition
    <2>3. Cardinality(EndedBy(t)) \in Nat
      BY <1>2, <2>1, SegmentFinite
    <2> QED
      BY <2>2, <2>3 DEF One
  <1> QED
    BY <1>3, <1>4

-----------------------------------------------------------------------------
(* Types, step by step                                                     *)

Places == {"top", "call", "send", "sent", "trigger", "think", "done"}

\* What a worker's step may change of the workers.
Moves(w) ==
  /\ \A v \in Worker \ {w} : pc'[v] = pc[v] /\ op'[v] = op[v] /\ call'[v] = call[v]
  /\ csv' = csv /\ flushed' = flushed /\ exit' = exit /\ meta' = meta
  /\ closed' = closed /\ interrupted' = interrupted

LEMMA GotoMoves ==
  ASSUME TypeInv, NEW w \in Worker, NEW at \in Places, Goto(w, at)
  PROVE  pc' \in [Worker -> Places] /\ pc'[w] = at /\ \A v \in Worker \ {w} : pc'[v] = pc[v]
  BY DEF TypeInv, TypeOK, Goto, Places

LEMMA StartOpType ==
  ASSUME TypeInv, NEW w \in Worker, StartOp(w)
  PROVE  /\ TypeInv' /\ Moves(w) /\ pc[w] = "top" /\ pc'[w] = "call" /\ op' = op /\ rows' = rows
         /\ call'[w].worker = w /\ call'[w].op = op[w] /\ now' >= now /\ closed' = closed
  <1>1. TypeOK /\ pc[w] = "top" /\ ReadClock /\ Goto(w, "call") /\ op' = op /\ rows' = rows
    BY DEF TypeInv, StartOp, At
  <1>2. now' \in Clock /\ now' \in Nat /\ now' >= now
    BY <1>1, ClockReads
  <1>3. pc' \in [Worker -> Places] /\ pc'[w] = "call" /\ \A v \in Worker \ {w} : pc'[v] = pc[v]
    BY <1>1, GotoMoves DEF Places
  <1>4. op[w] \in Nat
    BY SizesAssumption DEF TypeInv, TypeOK
  <1>5. NewCall(w, op[w], now') \in Row
    BY <1>2, <1>4 DEF NewCall, Row
  <1>6. call' = [call EXCEPT ![w] = NewCall(w, op[w], now')]
    BY DEF StartOp
  <1>7. call' \in [Worker -> Row]
    BY <1>5, <1>6 DEF TypeInv, TypeOK
  <1>8. started' \in Nat
    BY DEF StartOp, TypeInv, TypeOK
  <1>9. /\ call'[w].worker = w /\ call'[w].op = op[w]
        /\ \A v \in Worker \ {w} : call'[v] = call[v]
    BY <1>6 DEF TypeInv, TypeOK, NewCall
  <1>n. \A v \in Worker : pc'[v] # "done" => op'[v] <= Increments
    BY <1>1, <1>3 DEF TypeInv, Numbers
  <1> QED
    BY <1>1, <1>2, <1>3, <1>7, <1>8, <1>9, <1>n
    DEF StartOp, TypeInv, TypeOK, Numbers, Moves, Places, killVars, outputVars

LEMMA ReturnType ==
  ASSUME TypeInv, NEW w \in Worker, NEW ok \in BOOLEAN, Return(w, ok)
  PROVE  /\ TypeInv' /\ Moves(w) /\ pc[w] = "call" /\ pc'[w] = "send" /\ op' = op /\ rows' = rows
         /\ call'[w].worker = call[w].worker /\ call'[w].op = call[w].op
         /\ call'[w].ok = ok /\ call'[w].end = now' /\ now' >= now
  <1>1. TypeOK /\ pc[w] = "call" /\ ReadClock /\ Goto(w, "send") /\ op' = op /\ rows' = rows
    BY DEF TypeInv, Return, At
  <1>2. now' \in Clock /\ now' \in Nat /\ now' >= now
    BY <1>1, ClockReads
  <1>3. pc' \in [Worker -> Places] /\ pc'[w] = "send" /\ \A v \in Worker \ {w} : pc'[v] = pc[v]
    BY <1>1, GotoMoves DEF Places
  <1>4. call[w] \in Row /\ call \in [Worker -> Row]
    BY DEF TypeInv, TypeOK
  <1>5. PICK row \in Row : row = [call[w] EXCEPT !.end = now', !.ok = ok]
    BY <1>2, <1>4 DEF Row
  <1>6. row.worker = call[w].worker /\ row.op = call[w].op /\ row.ok = ok /\ row.end = now'
    BY <1>4, <1>5 DEF Row
  <1>11. call' = [call EXCEPT ![w] = row]
    BY <1>5 DEF Return
  <1>12. call' \in [Worker -> Row] /\ call'[w] = row /\ \A v \in Worker \ {w} : call'[v] = call[v]
    BY <1>4, <1>11
  <1>13. successCount' \in Nat /\ failureCount' \in Nat
    BY DEF Return, TypeInv, TypeOK
  <1>n. \A v \in Worker : pc'[v] # "done" => op'[v] <= Increments
    BY <1>1, <1>3 DEF TypeInv, Numbers
  <1>t. TypeInv' /\ Moves(w)
    BY <1>1, <1>2, <1>3, <1>12, <1>13, <1>n
    DEF Return, TypeInv, TypeOK, Numbers, Moves, Places, killVars, outputVars
  <1> QED
    BY <1>1, <1>2, <1>3, <1>6, <1>12, <1>t

LEMMA SendType ==
  ASSUME TypeInv, NEW w \in Worker, Send(w)
  PROVE  /\ TypeInv' /\ Moves(w) /\ pc[w] = "send" /\ pc'[w] = "sent" /\ op' = op /\ call' = call
         /\ rows' = Append(rows, call[w]) /\ call[w] \in Row
  <1>1. /\ TypeOK /\ pc[w] = "send" /\ Goto(w, "sent") /\ op' = op /\ call' = call /\ call[w] \in Row
        /\ rows' = Append(rows, call[w]) /\ csv' = csv /\ Len(rows) < ChanCap
    BY DEF TypeInv, TypeOK, Send, At, outputVars
  <1>2. pc' \in [Worker -> Places] /\ pc'[w] = "sent" /\ \A v \in Worker \ {w} : pc'[v] = pc[v]
    BY <1>1, GotoMoves DEF Places
  <1>3. rows' \in Seq(Row) /\ Len(rows') = Len(rows) + 1 /\ Len(rows) \in Nat
    BY <1>1, SentGrows DEF TypeOK
  <1>4. Len(rows') <= ChanCap
    BY <1>1, <1>3, SizesAssumption
  <1>n. \A v \in Worker : pc'[v] # "done" => op'[v] <= Increments
    BY <1>1, <1>2 DEF TypeInv, Numbers
  <1>t. TypeInv' /\ Moves(w)
    BY <1>1, <1>2, <1>3, <1>4, <1>n
    DEF Send, TypeInv, TypeOK, Numbers, Moves, Places, killVars, outputVars, countVars
  <1> QED
    BY <1>1, <1>2, <1>t

\* The end of an operation, with or without the kill, and the pause behind it.
AfterRow(w) == Complete(w) \/ Trigger(w) \/ Think(w) \/ Leave(w)

LEMMA AfterRowType ==
  ASSUME TypeInv, NEW w \in Worker, AfterRow(w)
  PROVE  /\ TypeInv' /\ Moves(w) /\ call' = call /\ rows' = rows /\ now' >= now
         /\ pc[w] \in {"sent", "trigger", "think", "top"}
         /\ pc'[w] \in {"trigger", "think", "top", "done"}
         /\ op'[w] >= op[w] /\ (pc'[w] = "top" => op'[w] > op[w])
  <1>t. /\ TypeOK /\ now \in Nat /\ pc \in [Worker -> Places] /\ op \in [Worker -> 1 .. Increments + 1]
        /\ call \in [Worker -> Row] /\ kill \in KillResult /\ op[w] \in Nat
    <2>1. TypeOK /\ kill \in KillResult
      BY DEF TypeInv, TypeOK
    <2>2. now \in Nat
      BY <2>1, ClockType
    <2>3. /\ pc \in [Worker -> Places] /\ op \in [Worker -> 1 .. Increments + 1]
          /\ call \in [Worker -> Row]
      BY <2>1 DEF TypeOK, Places
    <2>4. op[w] \in Nat
      BY <2>3, SizesAssumption
    <2> QED
      BY <2>1, <2>2, <2>3, <2>4
  <1>1. pc[w] \in {"sent", "trigger", "think", "top"} /\ pc[w] # "done"
    BY DEF AfterRow, Complete, Trigger, Think, Leave, At
  <1>2. op[w] <= Increments
    BY <1>1 DEF TypeInv, Numbers
  <1>3. /\ pc' \in [Worker -> Places] /\ op' \in [Worker -> 1 .. Increments + 1]
        /\ pc'[w] \in {"trigger", "think", "top", "done"}
        /\ op'[w] >= op[w] /\ (pc'[w] = "top" => op'[w] > op[w])
        /\ pc'[w] # "done" => op'[w] <= Increments
        /\ \A v \in Worker \ {w} : pc'[v] = pc[v] /\ op'[v] = op[v]
    <2>1. CASE Proceed(w) \/ NextOp(w)
      BY <1>1, <2>1, ProceedFrame DEF Places
    <2>2. CASE op' = op /\ (pc' = [pc EXCEPT ![w] = "trigger"] \/ pc' = [pc EXCEPT ![w] = "done"])
      BY <1>t, <1>2, <2>2 DEF Places
    <2> QED
      BY <2>1, <2>2 DEF AfterRow, Complete, Trigger, Think, Leave, Goto
  <1>4. now' \in Clock /\ now' \in Nat /\ now' >= now
    <2>1. CASE ReadClock
      BY <1>t, <2>1, ClockReads
    <2>2. CASE now' = now
      BY <1>t, <2>2 DEF TypeOK
    <2> QED
      BY <2>1, <2>2 DEF AfterRow, Complete, Trigger, Think, Leave
  <1>5. kill' \in KillResult
    <2>1. CASE kill' = kill
      BY <1>t, <2>1
    <2>2. CASE Trigger(w)
      <3>1. PICK leader \in Range(Peers) : \E err \in KillFails(ResolveTarget(leader)) :
              kill' = IF kill # NoKill THEN kill ELSE [at |-> now', err |-> err]
        BY <2>2 DEF Trigger
      <3>2. KillFails(ResolveTarget(leader)) \subseteq BOOLEAN
        BY DEF KillFails
      <3>3. PICK err \in BOOLEAN : kill' = IF kill # NoKill THEN kill ELSE [at |-> now', err |-> err]
        BY <3>1, <3>2
      <3> QED
        BY <1>t, <1>4, <3>3 DEF KillResult
    <2> QED
      BY <2>1, <2>2 DEF AfterRow, Complete, Think, Leave, killVars
  <1>6. completed' \in Nat /\ killTriggered' \in BOOLEAN
    <2>1. completed \in Nat /\ killTriggered \in BOOLEAN
      BY DEF TypeInv, TypeOK, Numbers
    <2>2. CASE completed' = completed /\ killTriggered' = killTriggered
      BY <2>1, <2>2
    <2>3. CASE Complete(w)
      <3>1. completed' \in Nat
        BY <2>1, <2>3 DEF Complete
      <3>2. killTriggered' = (killTriggered \/ (KillAfter > 0 /\ completed + 1 = KillAfter))
        BY <2>3 DEF Complete
      <3> QED
        BY <3>1, <3>2, Zenon
    <2> QED
      BY <2>2, <2>3 DEF AfterRow, Trigger, Think, Leave, countVars, killVars
  <1>7. /\ call' = call /\ rows' = rows /\ csv' = csv /\ flushed' = flushed /\ exit' = exit
        /\ meta' = meta /\ closed' = closed /\ interrupted' = interrupted
        /\ started' = started /\ successCount' = successCount /\ failureCount' = failureCount
    BY DEF AfterRow, Complete, Trigger, Think, Leave, countVars, outputVars
  <1>n. \A v \in Worker : pc'[v] # "done" => op'[v] <= Increments
    BY <1>3 DEF TypeInv, Numbers
  <1>m. Moves(w)
    BY <1>3, <1>7 DEF Moves
  <1>o. TypeInv'
    BY <1>3, <1>4, <1>5, <1>6, <1>7, <1>n DEF TypeInv, TypeOK, Numbers, Places
  <1> QED
    BY <1>1, <1>3, <1>4, <1>7, <1>m, <1>o

-----------------------------------------------------------------------------
(* What a worker's step keeps                                              *)

LEMMA SetsMove ==
  ASSUME NEW w \in Worker, Moves(w)
  PROVE  /\ Cardinality(Holding) \in Nat /\ Cardinality(Holding') \in Nat
         /\ Cardinality(Holding') + One(w \in Holding) = Cardinality(Holding) + One(w \in Holding')
         /\ Cardinality(Counting) \in Nat /\ Cardinality(Counting') \in Nat
         /\ Cardinality(Counting') + One(w \in Counting) = Cardinality(Counting) + One(w \in Counting')
         /\ \A ok \in BOOLEAN :
              /\ Cardinality(Sending(ok)) \in Nat /\ Cardinality(Sending(ok)') \in Nat
              /\ Cardinality(Sending(ok)') + One(w \in Sending(ok)) =
                   Cardinality(Sending(ok)) + One(w \in Sending(ok)')
  <1>1. Holding \in SUBSET Worker /\ Holding' \in SUBSET Worker /\ Holding \ {w} = Holding' \ {w}
    BY DEF Moves, Holding
  <1>2. Counting \in SUBSET Worker /\ Counting' \in SUBSET Worker /\ Counting \ {w} = Counting' \ {w}
    BY DEF Moves, Counting
  <1>3. ASSUME NEW ok \in BOOLEAN
        PROVE  /\ Sending(ok) \in SUBSET Worker /\ Sending(ok)' \in SUBSET Worker
               /\ Sending(ok) \ {w} = Sending(ok)' \ {w}
    BY DEF Moves, Sending
  <1> HIDE DEF Holding, Counting, Sending
  <1>4. ASSUME NEW ok \in BOOLEAN
        PROVE  /\ Cardinality(Sending(ok)) \in Nat /\ Cardinality(Sending(ok)') \in Nat
               /\ Cardinality(Sending(ok)') + One(w \in Sending(ok)) =
                    Cardinality(Sending(ok)) + One(w \in Sending(ok)')
    BY <1>3, OneMoves
  <1>5. /\ Cardinality(Holding) \in Nat /\ Cardinality(Holding') \in Nat
        /\ Cardinality(Holding') + One(w \in Holding) = Cardinality(Holding) + One(w \in Holding')
    BY <1>1, OneMoves
  <1>6. /\ Cardinality(Counting) \in Nat /\ Cardinality(Counting') \in Nat
        /\ Cardinality(Counting') + One(w \in Counting) = Cardinality(Counting) + One(w \in Counting')
    BY <1>2, OneMoves
  <1> QED
    BY <1>4, <1>5, <1>6

LEMMA OrderKept ==
  ASSUME TypeInv, TypeInv', RowsOrdered, NEW w \in Worker, Moves(w), Sent' = Sent, op'[w] >= op[w],
         pc'[w] \in {"top", "call", "send"} =>
           pc[w] \in {"top", "call", "send"} \/ op'[w] > op[w],
         pc'[w] \in {"call", "send"} => call'[w].worker = w /\ call'[w].op = op'[w]
  PROVE  RowsOrdered'
  <1>t. /\ \A v \in Worker : op[v] \in Nat /\ op'[v] \in Nat
        /\ \A i \in DOMAIN Sent : Sent[i].op \in Nat /\ Sent[i].worker \in Worker
    <2>1. \A v \in Worker : op[v] \in Nat /\ op'[v] \in Nat
      <3>1. op \in [Worker -> 1 .. Increments + 1]
        BY DEF TypeInv, TypeOK
      <3>2. op' \in [Worker -> 1 .. Increments + 1]
        BY DEF TypeInv, TypeOK
      <3>3. Increments \in Nat
        BY SizesAssumption
      <3> QED
        BY ONLY <3>1, <3>2, <3>3
    <2>2. \A i \in DOMAIN Sent : Sent[i] \in Row
      BY SentType DEF TypeInv
    <2> QED
      BY <2>1, <2>2 DEF Row
  <1> HIDE DEF Sent
  <1>1. ASSUME NEW i \in DOMAIN Sent', NEW v \in Worker, v = Sent'[i].worker
        PROVE  Sent'[i].op <= op'[v] /\ (pc'[v] \in {"top", "call", "send"} => Sent'[i].op < op'[v])
    <2>1. Sent[i].op <= op[v] /\ (pc[v] \in {"top", "call", "send"} => Sent[i].op < op[v])
      BY <1>1 DEF RowsOrdered
    <2>2. CASE v = w
      BY <1>t, <1>1, <2>1, <2>2
    <2>3. CASE v # w
      BY <1>t, <1>1, <2>1, <2>3 DEF Moves
    <2> QED
      BY <2>2, <2>3
  <1>2. \A v \in Worker : pc'[v] \in {"call", "send"} => call'[v].worker = v /\ call'[v].op = op'[v]
    BY DEF RowsOrdered, Moves
  <1>3. \A i, j \in DOMAIN Sent' :
          Sent'[i].worker = Sent'[j].worker /\ i < j => Sent'[i].op < Sent'[j].op
    BY DEF RowsOrdered
  <1> QED
    BY <1>t, <1>1, <1>2, <1>3 DEF RowsOrdered

LEMMA PastKept ==
  ASSUME TypeInv, TypeInv', RowsPast, NEW w \in Worker, Moves(w), Sent' = Sent, now' >= now,
         pc'[w] = "send" => call'[w].end <= now'
  PROVE  RowsPast'
  <1>t. /\ now \in Nat /\ now' \in Nat
        /\ \A i \in DOMAIN Sent : Sent[i].end \in Nat
        /\ \A v \in Worker : call[v].end \in Nat
    <2>1. now \in Nat
      BY ClockType DEF TypeInv
    <2>2. now' \in Nat
      <3>1. (TypeOK => now \in Nat /\ now > 0)'
        BY ClockType, PTL
      <3> QED
        BY <3>1 DEF TypeInv
    <2>3. \A i \in DOMAIN Sent : Sent[i] \in Row
      BY SentType DEF TypeInv
    <2>4. \A v \in Worker : call[v] \in Row
      BY DEF TypeInv, TypeOK
    <2> QED
      BY <2>1, <2>2, <2>3, <2>4 DEF Row
  <1> HIDE DEF Sent
  <1>1. \A i \in DOMAIN Sent' : Sent'[i].end <= now'
    BY <1>t DEF RowsPast
  <1>2. \A v \in Worker : pc'[v] = "send" => call'[v].end <= now'
    BY <1>t DEF RowsPast, Moves
  <1> QED
    BY <1>1, <1>2 DEF RowsPast

LEMMA KillKept ==
  ASSUME TypeInv, KillOnce, NEW w \in Worker, Moves(w), pc[w] # "trigger", pc'[w] # "trigger",
         UNCHANGED <<completed, killTriggered, kill>>,
         \A t \in Nat : Cardinality(EndedBy(t)') >= Cardinality(EndedBy(t)),
         \A t \in Nat : Cardinality(EndedBy(t)) \in Nat /\ Cardinality(EndedBy(t)') \in Nat
  PROVE  KillOnce'
  <1>1. kill \in KillResult /\ KillAfter \in Nat
    BY SizesAssumption DEF TypeInv, TypeOK
  <1>2. \A v \in Worker : pc'[v] = "trigger" <=> pc[v] = "trigger"
    BY DEF Moves
  <1>3. PICK t \in Nat : t = kill.at
    BY <1>1 DEF KillResult
  <1>4. kill.at > 0 => Cardinality(EndedBy(t)) >= KillAfter
    BY <1>3 DEF KillOnce
  <1>5. kill'.at > 0 => Cardinality(EndedBy(t)') >= KillAfter
    BY <1>1, <1>4
  <1>6. EndedBy(kill.at)' = EndedBy(t)'
    BY <1>3 DEF EndedBy
  <1> HIDE DEF EndedBy
  <1> QED
    BY <1>2, <1>5, <1>6 DEF KillOnce

LEMMA PositionsType ==
  TypeOK =>
    /\ \A t \in Nat : Cardinality(EndedBy(t)) \in Nat
    /\ \A ok \in BOOLEAN : Cardinality(WithOutcome(ok)) \in Nat
  <1> SUFFICES ASSUME TypeOK
               PROVE  /\ \A t \in Nat : Cardinality(EndedBy(t)) \in Nat
                      /\ \A ok \in BOOLEAN : Cardinality(WithOutcome(ok)) \in Nat
    OBVIOUS
  <1>1. Len(Sent) \in Nat /\ DOMAIN Sent = 1 .. Len(Sent)
    BY SentType
  <1> HIDE DEF Sent
  <1>2. \A t \in Nat : EndedBy(t) \in SUBSET (1 .. Len(Sent))
    BY <1>1 DEF EndedBy
  <1>3. \A ok \in BOOLEAN : WithOutcome(ok) \in SUBSET (1 .. Len(Sent))
    BY <1>1 DEF WithOutcome
  <1> HIDE DEF EndedBy, WithOutcome
  <1> QED
    BY <1>1, <1>2, <1>3, SegmentFinite

-----------------------------------------------------------------------------
(* The steps of a worker                                                   *)

LEMMA SentKept ==
  ASSUME TypeOK, csv' = csv, rows' = rows
  PROVE  /\ Sent' = Sent /\ (\A ok \in BOOLEAN : WithOutcome(ok)' = WithOutcome(ok))
         /\ \A t \in Nat : EndedBy(t)' = EndedBy(t)
  <1>1. Sent' = Sent
    BY DEF Sent
  <1> QED
    BY <1>1 DEF WithOutcome, EndedBy

LEMMA EndingKept ==
  ASSUME Ending, exit = "running", NEW w \in Worker, Moves(w), pc[w] # "done"
  PROVE  Ending'
  <1>1. ~closed /\ closed' = closed /\ exit' = exit
    BY DEF Ending, Moves
  <1> QED
    BY <1>1 DEF Ending

LEMMA StartOpKeeps ==
  ASSUME TypeInv, Core, exit = "running", NEW w \in Worker, StartOp(w)
  PROVE  TypeInv' /\ Core'
  <1>1. /\ TypeInv' /\ Moves(w) /\ pc[w] = "top" /\ pc'[w] = "call" /\ op' = op /\ rows' = rows
        /\ call'[w].worker = w /\ call'[w].op = op[w] /\ now' >= now
    BY StartOpType
  <1>2. /\ started' = started + 1 /\ UNCHANGED <<completed, successCount, failureCount>>
        /\ UNCHANGED <<completed, killTriggered, kill>>
    BY DEF StartOp, killVars
  <1>3. /\ Sent' = Sent /\ (\A ok \in BOOLEAN : WithOutcome(ok)' = WithOutcome(ok))
        /\ \A t \in Nat : EndedBy(t)' = EndedBy(t)
    BY <1>1, SentKept DEF TypeInv, Moves
  <1>4. /\ w \notin Holding /\ w \in Holding' /\ w \notin Counting /\ w \notin Counting'
        /\ \A ok \in BOOLEAN : w \notin Sending(ok) /\ w \notin Sending(ok)'
    BY <1>1 DEF Holding, Counting, Sending
  <1>5. /\ Cardinality(Holding') = Cardinality(Holding) + 1
        /\ Cardinality(Counting') = Cardinality(Counting)
        /\ \A ok \in BOOLEAN : Cardinality(Sending(ok)') = Cardinality(Sending(ok))
    <2> HIDE DEF Holding, Counting, Sending
    <2> QED
      BY <1>1, <1>4, SetsMove DEF One
  <1>6. Len(Sent) \in Nat /\ Cardinality(Holding) \in Nat
    BY <1>1, SentType, SetsMove DEF TypeInv
  <1>7. RowsAccounted'
    <2> HIDE DEF Holding, Counting, Sending, Sent, WithOutcome
    <2>1. /\ Succeeded' = Succeeded /\ Failed' = Failed
          /\ Cardinality(SendingOk') = Cardinality(SendingOk)
          /\ Cardinality(SendingFailed') = Cardinality(SendingFailed)
      BY <1>3, <1>5, Zenon DEF Succeeded, Failed, SendingOk, SendingFailed
    <2> QED
      BY <1>2, <1>3, <1>5, <1>6, <2>1 DEF Core, RowsAccounted
  <1>8. RowsOrdered'
    <2>1. op'[w] >= op[w]
      BY <1>1, SizesAssumption DEF TypeInv, TypeOK
    <2> QED
      BY <1>1, <1>3, <2>1, OrderKept DEF Core
  <1>9. RowsPast'
    BY <1>1, <1>3, PastKept DEF Core
  <1>10. KillOnce'
    <2>1. \A t \in Nat : /\ Cardinality(EndedBy(t)) \in Nat
                         /\ Cardinality(EndedBy(t)') \in Nat
                         /\ Cardinality(EndedBy(t)') >= Cardinality(EndedBy(t))
      BY <1>3, PositionsType DEF TypeInv
    <2> QED
      BY <1>1, <1>2, <2>1, KillKept DEF Core
  <1>11. Ending'
    BY <1>1, EndingKept DEF Core
  <1> QED
    BY <1>1, <1>7, <1>8, <1>9, <1>10, <1>11 DEF Core

LEMMA ReturnKeeps ==
  ASSUME TypeInv, Core, exit = "running", NEW w \in Worker,
         NEW ok \in BOOLEAN, Return(w, ok)
  PROVE  TypeInv' /\ Core'
  <1>1. /\ TypeInv' /\ Moves(w) /\ pc[w] = "call" /\ pc'[w] = "send" /\ op' = op /\ rows' = rows
        /\ call'[w].worker = call[w].worker /\ call'[w].op = call[w].op
        /\ call'[w].ok = ok /\ call'[w].end = now' /\ now' >= now
    BY ReturnType
  <1>2. /\ UNCHANGED <<started, completed>> /\ UNCHANGED <<completed, killTriggered, kill>>
        /\ successCount' = successCount + One(ok = TRUE) /\ failureCount' = failureCount + One(ok = FALSE)
    BY DEF Return, killVars, One, TypeInv, TypeOK
  <1>3. /\ Sent' = Sent /\ (\A o \in BOOLEAN : WithOutcome(o)' = WithOutcome(o))
        /\ \A t \in Nat : EndedBy(t)' = EndedBy(t)
    BY <1>1, SentKept DEF TypeInv, Moves
  <1>4. /\ w \in Holding /\ w \in Holding' /\ w \notin Counting /\ w \notin Counting'
        /\ \A o \in BOOLEAN : w \notin Sending(o) /\ (w \in Sending(o)' <=> o = ok)
    BY <1>1 DEF Holding, Counting, Sending
  <1>5. /\ Cardinality(Holding') = Cardinality(Holding)
        /\ Cardinality(Counting') = Cardinality(Counting)
        /\ \A o \in BOOLEAN : Cardinality(Sending(o)') = Cardinality(Sending(o)) + One(ok = o)
    <2> HIDE DEF Holding, Counting, Sending
    <2> QED
      BY <1>1, <1>4, SetsMove DEF One
  <1>6. /\ \A o \in BOOLEAN : Cardinality(WithOutcome(o)) \in Nat /\ Cardinality(Sending(o)) \in Nat
        /\ One(ok = TRUE) \in Nat /\ One(ok = FALSE) \in Nat
    BY <1>1, PositionsType, SetsMove DEF TypeInv, One
  <1>7. RowsAccounted'
    <2> HIDE DEF Holding, Counting, Sending, Sent, WithOutcome, One
    <2>1. Len(Sent') + Cardinality(Holding') = started' /\ Len(Sent') = completed' + Cardinality(Counting')
      BY <1>2, <1>3, <1>5 DEF Core, RowsAccounted
    <2>b. /\ Succeeded' = Succeeded /\ Failed' = Failed
          /\ Cardinality(SendingOk') = Cardinality(SendingOk) + One(ok = TRUE)
          /\ Cardinality(SendingFailed') = Cardinality(SendingFailed) + One(ok = FALSE)
          /\ Cardinality(Succeeded) \in Nat /\ Cardinality(Failed) \in Nat
          /\ Cardinality(SendingOk) \in Nat /\ Cardinality(SendingFailed) \in Nat
      BY <1>3, <1>5, <1>6, Zenon DEF Succeeded, Failed, SendingOk, SendingFailed
    <2>2. Cardinality(Succeeded') + Cardinality(SendingOk') = successCount'
      BY <1>2, <1>6, <2>b DEF Core, RowsAccounted
    <2>3. Cardinality(Failed') + Cardinality(SendingFailed') = failureCount'
      BY <1>2, <1>6, <2>b DEF Core, RowsAccounted
    <2> QED
      BY <2>1, <2>2, <2>3 DEF RowsAccounted
  <1>8. RowsOrdered'
    <2>1. op'[w] >= op[w]
      BY <1>1, SizesAssumption DEF TypeInv, TypeOK
    <2>2. call'[w].worker = w /\ call'[w].op = op'[w]
      BY <1>1 DEF Core, RowsOrdered
    <2> QED
      BY <1>1, <1>3, <2>1, <2>2, OrderKept DEF Core
  <1>9. RowsPast'
    <2>1. call'[w].end <= now'
      <3>1. (TypeOK => now \in Nat /\ now > 0)'
        BY ClockType, PTL
      <3> QED
        BY <1>1, <3>1 DEF TypeInv
    <2> QED
      BY <1>1, <1>3, <2>1, PastKept DEF Core
  <1>10. KillOnce'
    <2>1. \A t \in Nat : /\ Cardinality(EndedBy(t)) \in Nat
                         /\ Cardinality(EndedBy(t)') \in Nat
                         /\ Cardinality(EndedBy(t)') >= Cardinality(EndedBy(t))
      BY <1>3, PositionsType DEF TypeInv
    <2> QED
      BY <1>1, <1>2, <2>1, KillKept DEF Core
  <1>11. Ending'
    BY <1>1, EndingKept DEF Core
  <1> QED
    BY <1>1, <1>7, <1>8, <1>9, <1>10, <1>11 DEF Core

LEMMA SendKeeps ==
  ASSUME TypeInv, Core, exit = "running", NEW w \in Worker, Send(w)
  PROVE  TypeInv' /\ Core'
  <1>1. /\ TypeInv' /\ Moves(w) /\ pc[w] = "send" /\ pc'[w] = "sent" /\ op' = op /\ call' = call
        /\ rows' = Append(rows, call[w]) /\ call[w] \in Row
    BY SendType
  <1>2. /\ UNCHANGED <<started, completed, successCount, failureCount, now>>
        /\ UNCHANGED <<completed, killTriggered, kill>>
    BY DEF Send, killVars, countVars
  <1>3. PICK x \in Row : x = call[w]
    BY <1>1
  <1>4. TypeOK /\ csv' = csv /\ rows' = Append(rows, x)
    BY <1>1, <1>3 DEF TypeInv, Moves
  <1>5. /\ Len(Sent') = Len(Sent) + 1 /\ DOMAIN Sent' = 1 .. Len(Sent) + 1
        /\ \A i \in 1 .. Len(Sent) : Sent'[i] = Sent[i]
        /\ Sent'[Len(Sent) + 1] = x
    BY <1>4, SentGrows
  <1>6. /\ Len(Sent) \in Nat /\ DOMAIN Sent = 1 .. Len(Sent)
        /\ \A i \in DOMAIN Sent : Sent[i] \in Row
    BY <1>4, SentType
  <1>7. RowsAccounted'
    <2>1. /\ w \in Holding /\ w \notin Holding' /\ w \notin Counting /\ w \in Counting'
          /\ \A o \in BOOLEAN : (w \in Sending(o) <=> x.ok = o) /\ w \notin Sending(o)'
      BY <1>1, <1>3 DEF Holding, Counting, Sending
    <2> HIDE DEF Holding, Counting, Sending, Sent, WithOutcome, Succeeded, Failed, SendingOk, SendingFailed
    <2>2. /\ Cardinality(Holding') + 1 = Cardinality(Holding)
          /\ Cardinality(Counting') = Cardinality(Counting) + 1
          /\ Cardinality(Holding) \in Nat /\ Cardinality(Holding') \in Nat /\ Cardinality(Counting) \in Nat
          /\ \A o \in BOOLEAN : /\ Cardinality(Sending(o)) \in Nat /\ Cardinality(Sending(o)') \in Nat
                                /\ Cardinality(Sending(o)') + One(x.ok = o) = Cardinality(Sending(o))
      BY <1>1, <2>1, SetsMove DEF One
    <2>3. \A o \in BOOLEAN : /\ Cardinality(WithOutcome(o)') = Cardinality(WithOutcome(o)) + One(x.ok = o)
                             /\ Cardinality(WithOutcome(o)) \in Nat
      BY <1>4, PositionsGrow, PositionsType
    <2>4. One(x.ok = TRUE) \in Nat /\ One(x.ok = FALSE) \in Nat
      BY DEF One
    <2> HIDE DEF One
    <2>5. /\ Cardinality(SendingOk) \in Nat /\ Cardinality(SendingOk') \in Nat
          /\ Cardinality(SendingOk') + One(x.ok = TRUE) = Cardinality(SendingOk)
          /\ Cardinality(SendingFailed) \in Nat /\ Cardinality(SendingFailed') \in Nat
          /\ Cardinality(SendingFailed') + One(x.ok = FALSE) = Cardinality(SendingFailed)
          /\ Cardinality(Succeeded') = Cardinality(Succeeded) + One(x.ok = TRUE)
          /\ Cardinality(Failed') = Cardinality(Failed) + One(x.ok = FALSE)
          /\ Cardinality(Succeeded) \in Nat /\ Cardinality(Failed) \in Nat
      BY <2>2, <2>3, Zenon DEF Succeeded, Failed, SendingOk, SendingFailed
    <2>6. Cardinality(Succeeded') + Cardinality(SendingOk') = successCount'
      BY <1>2, <2>4, <2>5 DEF Core, RowsAccounted
    <2>7. Cardinality(Failed') + Cardinality(SendingFailed') = failureCount'
      BY <1>2, <2>4, <2>5 DEF Core, RowsAccounted
    <2>8. completed \in Nat
      BY DEF TypeInv, TypeOK
    <2>9. Len(Sent') + Cardinality(Holding') = started' /\ Len(Sent') = completed' + Cardinality(Counting')
      <3>1. Len(Sent) + Cardinality(Holding) = started /\ Len(Sent) = completed + Cardinality(Counting)
        BY DEF Core, RowsAccounted
      <3>2. started' = started /\ completed' = completed
        BY <1>2
      <3>3. Len(Sent') = Len(Sent) + 1 /\ Len(Sent) \in Nat
        BY <1>5, <1>6
      <3>4. Len(Sent') + Cardinality(Holding') = started'
        BY ONLY <2>2, <3>1, <3>2, <3>3
      <3>5. Len(Sent') = completed' + Cardinality(Counting')
        BY ONLY <2>2, <2>8, <3>1, <3>2, <3>3
      <3> QED
        BY <3>4, <3>5
    <2> QED
      BY <2>6, <2>7, <2>9 DEF RowsAccounted
  <1> HIDE DEF Sent
  <1>8. RowsOrdered'
    <2>1. x.worker = w /\ x.op = op[w] /\ op[w] \in Nat
      <3>1. op[w] \in 1 .. Increments + 1
        BY DEF TypeInv, TypeOK
      <3>2. op[w] \in Nat
        BY <3>1, SizesAssumption
      <3> QED
        BY <1>1, <1>3, <3>2 DEF Core, RowsOrdered
    <2>2. \A i \in 1 .. Len(Sent) : Sent[i].worker = w => Sent[i].op < op[w]
      BY <1>1, <1>6 DEF Core, RowsOrdered
    <2>3. ASSUME NEW i \in DOMAIN Sent', NEW v \in Worker, v = Sent'[i].worker
          PROVE  Sent'[i].op <= op'[v] /\ (pc'[v] \in {"top", "call", "send"} => Sent'[i].op < op'[v])
      <3>1. CASE i = Len(Sent) + 1
        BY <1>1, <1>5, <2>1, <2>3, <3>1
      <3>2. CASE i \in 1 .. Len(Sent)
        <4>1. Sent'[i] = Sent[i]
          BY <1>5, <3>2
        <4>2. Sent[i].op <= op[v] /\ (pc[v] \in {"top", "call", "send"} => Sent[i].op < op[v])
          BY <1>6, <2>3, <3>2, <4>1 DEF Core, RowsOrdered
        <4>3. v # w => pc'[v] = pc[v]
          BY <1>1 DEF Moves
        <4> QED
          BY <1>1, <4>1, <4>2, <4>3
      <3> QED
        BY <1>5, <1>6, <2>3, <3>1, <3>2
    <2>4. \A v \in Worker : pc'[v] \in {"call", "send"} => call'[v].worker = v /\ call'[v].op = op'[v]
      BY <1>1 DEF Core, RowsOrdered, Moves
    <2>5. ASSUME NEW i \in DOMAIN Sent', NEW j \in DOMAIN Sent', Sent'[i].worker = Sent'[j].worker, i < j
          PROVE  Sent'[i].op < Sent'[j].op
      <3>1. i \in 1 .. Len(Sent) /\ Sent'[i] = Sent[i]
        BY <1>5, <1>6, <2>5
      <3>2. CASE j \in 1 .. Len(Sent)
        BY <1>5, <1>6, <2>5, <3>1, <3>2 DEF Core, RowsOrdered
      <3>3. CASE j = Len(Sent) + 1
        BY <1>5, <2>1, <2>2, <2>5, <3>1, <3>3
      <3> QED
        BY <1>5, <1>6, <3>2, <3>3
    <2>6. \A i \in DOMAIN Sent' : Sent'[i].worker \in Worker
      BY <1>5, <1>6 DEF Row
    <2> QED
      BY <2>3, <2>4, <2>5, <2>6 DEF RowsOrdered
  <1>9. RowsPast'
    <2>1. x.end <= now
      BY <1>1, <1>3 DEF Core, RowsPast
    <2>2. \A i \in 1 .. Len(Sent) : Sent[i].end <= now
      BY <1>6 DEF Core, RowsPast
    <2>3. ASSUME NEW i \in DOMAIN Sent' PROVE Sent'[i].end <= now'
      <3>1. i \in 1 .. Len(Sent) \/ i = Len(Sent) + 1
        BY <1>5, <1>6
      <3> QED
        BY <1>2, <1>5, <2>1, <2>2, <3>1
    <2>4. \A v \in Worker : pc'[v] = "send" => call'[v].end <= now'
      BY <1>1, <1>2 DEF Core, RowsPast, Moves
    <2> QED
      BY <2>3, <2>4 DEF RowsPast
  <1>10. KillOnce'
    <2> HIDE DEF EndedBy
    <2>1. \A t \in Nat : Cardinality(EndedBy(t)') >= Cardinality(EndedBy(t))
      BY <1>4, PositionsGrow
    <2>2. (TypeOK =>
             /\ \A t \in Nat : Cardinality(EndedBy(t)) \in Nat
             /\ \A ok \in BOOLEAN : Cardinality(WithOutcome(ok)) \in Nat)'
      BY PositionsType, PTL
    <2>3. \A t \in Nat : Cardinality(EndedBy(t)) \in Nat /\ Cardinality(EndedBy(t)') \in Nat
      BY <1>1, <1>4, <2>2, PositionsType DEF TypeInv
    <2> QED
      BY <1>1, <1>2, <2>1, <2>3, KillKept DEF Core
  <1>11. Ending'
    BY <1>1, EndingKept DEF Core
  <1> QED
    BY <1>1, <1>7, <1>8, <1>9, <1>10, <1>11 DEF Core

\* All but the kill, for the steps behind a row's sending.
LEMMA AfterRowKeeps ==
  ASSUME TypeInv, Core, exit = "running", NEW w \in Worker, AfterRow(w)
  PROVE  TypeInv' /\ RowsAccounted' /\ RowsOrdered' /\ RowsPast' /\ Ending'
  <1>1. /\ TypeInv' /\ Moves(w) /\ call' = call /\ rows' = rows /\ now' >= now
        /\ pc[w] \in {"sent", "trigger", "think", "top"}
        /\ pc'[w] \in {"trigger", "think", "top", "done"}
        /\ op'[w] >= op[w] /\ (pc'[w] = "top" => op'[w] > op[w])
    BY AfterRowType
  <1>2. /\ Sent' = Sent /\ (\A o \in BOOLEAN : WithOutcome(o)' = WithOutcome(o))
        /\ \A t \in Nat : EndedBy(t)' = EndedBy(t)
    BY <1>1, SentKept DEF TypeInv, Moves
  <1>3. RowsAccounted'
    <2>1. /\ UNCHANGED <<started, successCount, failureCount>>
          /\ completed' = completed + One(pc[w] = "sent")
      BY DEF AfterRow, Complete, Trigger, Think, Leave, At, countVars, One, TypeInv, TypeOK
    <2>2. /\ w \notin Holding /\ w \notin Holding' /\ (w \in Counting <=> pc[w] = "sent") /\ w \notin Counting'
          /\ \A o \in BOOLEAN : w \notin Sending(o) /\ w \notin Sending(o)'
      BY <1>1 DEF Holding, Counting, Sending
    <2> HIDE DEF Holding, Counting, Sending, Sent, WithOutcome, Succeeded, Failed, SendingOk, SendingFailed
    <2>3. /\ Cardinality(Holding') = Cardinality(Holding)
          /\ Cardinality(Counting') + One(pc[w] = "sent") = Cardinality(Counting)
          /\ Cardinality(Counting) \in Nat /\ Cardinality(Counting') \in Nat
          /\ \A o \in BOOLEAN : Cardinality(Sending(o)') = Cardinality(Sending(o))
      BY <1>1, <2>2, SetsMove DEF One
    <2>4. One(pc[w] = "sent") \in Nat /\ completed \in Nat
      BY DEF One, TypeInv, TypeOK
    <2> HIDE DEF One
    <2>5. /\ Succeeded' = Succeeded /\ Failed' = Failed
          /\ Cardinality(SendingOk') = Cardinality(SendingOk)
          /\ Cardinality(SendingFailed') = Cardinality(SendingFailed)
      BY <1>2, <2>3, Zenon DEF Succeeded, Failed, SendingOk, SendingFailed
    <2>6. Len(Sent') = completed' + Cardinality(Counting')
      BY <1>2, <2>1, <2>3, <2>4 DEF Core, RowsAccounted
    <2> QED
      BY <1>2, <2>1, <2>3, <2>5, <2>6 DEF Core, RowsAccounted
  <1>4. RowsOrdered'
    BY <1>1, <1>2, OrderKept DEF Core
  <1>5. RowsPast'
    BY <1>1, <1>2, PastKept DEF Core
  <1>6. Ending'
    BY <1>1, EndingKept DEF Core
  <1> QED
    BY <1>1, <1>3, <1>4, <1>5, <1>6

LEMMA CompleteKills ==
  ASSUME TypeInv, Core, exit = "running", NEW w \in Worker, Complete(w)
  PROVE  KillOnce'
  <1>1. /\ TypeInv' /\ Moves(w) /\ rows' = rows
    BY AfterRowType DEF AfterRow
  <1>2. \A t \in Nat : EndedBy(t)' = EndedBy(t)
    BY <1>1, SentKept DEF TypeInv, Moves
  <1>3. kill' = kill /\ kill \in KillResult /\ completed \in Nat /\ KillAfter \in Nat
    BY SizesAssumption DEF Complete, TypeInv, TypeOK
  <1>4. PICK t \in Nat : t = kill.at
    BY <1>3 DEF KillResult
  <1>5. EndedBy(kill.at)' = EndedBy(t)' /\ EndedBy(kill.at) = EndedBy(t)
    BY <1>3, <1>4 DEF EndedBy
  <1> HIDE DEF EndedBy
  <1>6. kill'.at > 0 => Cardinality(EndedBy(kill.at)') >= KillAfter
    BY <1>2, <1>3, <1>5 DEF Core, KillOnce
  <1>7. pc[w] = "sent" /\ completed' = completed + 1
    BY DEF Complete, At
  <1>8. kill'.at = 0 => kill' = NoKill
    BY <1>3 DEF Core, KillOnce
  <1>9. CASE KillAfter > 0 /\ completed + 1 = KillAfter
    <2>1. Goto(w, "trigger") /\ killTriggered'
      BY <1>9 DEF Complete
    <2>2. pc'[w] = "trigger"
      BY <2>1, GotoMoves DEF Places
    <2> QED
      BY <1>3, <1>6, <1>7, <1>8, <1>9, <2>1, <2>2 DEF KillOnce
  <1>10. CASE ~(KillAfter > 0 /\ completed + 1 = KillAfter)
    <2>1. Proceed(w)
      BY <1>10 DEF Complete
    <2>2. killTriggered' <=> killTriggered
      BY <1>10 DEF Complete
    <2>3. pc'[w] # "trigger"
      BY <1>7, <2>1, ProceedFrame
    <2>4. \A v \in Worker : pc'[v] = "trigger" <=> pc[v] = "trigger"
      BY <1>1, <1>7, <2>3 DEF Moves
    <2>5. KillAfter > 0 /\ completed' >= KillAfter <=> KillAfter > 0 /\ completed >= KillAfter
      BY <1>3, <1>7, <1>10
    <2> QED
      BY <1>3, <1>6, <1>8, <2>2, <2>4, <2>5 DEF Core, KillOnce
  <1> QED
    BY <1>9, <1>10

\* The worker that kills has counted its own operation: kill-after rows are sent.
LEMMA TriggerKills ==
  ASSUME TypeInv, Core, exit = "running", NEW w \in Worker, Trigger(w)
  PROVE  KillOnce'
  <1>1. /\ TypeInv' /\ Moves(w) /\ rows' = rows /\ now' >= now
    BY AfterRowType DEF AfterRow
  <1>2. /\ Sent' = Sent /\ (\A o \in BOOLEAN : WithOutcome(o)' = WithOutcome(o))
        /\ \A t \in Nat : EndedBy(t)' = EndedBy(t)
    BY <1>1, SentKept DEF TypeInv, Moves
  <1>3. /\ killTriggered' = killTriggered /\ completed' = completed /\ pc[w] = "trigger"
        /\ kill \in KillResult /\ completed \in Nat /\ KillAfter \in Nat
    BY SizesAssumption DEF Trigger, At, countVars, TypeInv, TypeOK
  <1>4. killTriggered /\ KillAfter > 0 /\ completed >= KillAfter
    BY <1>3 DEF Core, KillOnce
  <1>5. now \in Nat /\ now' \in Nat /\ now' > 0
    <2>1. (TypeOK => now \in Nat /\ now > 0)'
      BY ClockType, PTL
    <2> QED
      BY <1>1, <2>1, ClockType DEF TypeInv
  <1>6. PICK err : kill' = IF kill # NoKill THEN kill ELSE [at |-> now', err |-> err]
    BY DEF Trigger
  <1>7. pc'[w] # "trigger"
    BY <1>3, ProceedFrame DEF Trigger
  <1>8. \A v \in Worker : pc'[v] = "trigger" => killTriggered'
    BY <1>3, <1>4
  <1>9. CASE kill # NoKill
    <2>1. kill' = kill /\ kill.at > 0
      BY <1>3, <1>6, <1>9 DEF Core, KillOnce, KillResult
    <2>2. PICK t \in Nat : t = kill.at
      BY <1>3 DEF KillResult
    <2>3. EndedBy(kill.at)' = EndedBy(t)' /\ EndedBy(kill.at) = EndedBy(t)
      BY <2>1, <2>2 DEF EndedBy
    <2> HIDE DEF EndedBy
    <2>4. Cardinality(EndedBy(kill.at)') >= KillAfter
      BY <1>2, <2>1, <2>3 DEF Core, KillOnce
    <2> QED
      BY <1>3, <1>4, <1>8, <2>1, <2>4 DEF KillOnce
  <1>10. CASE kill = NoKill
    <2>1. kill'.at = now'
      BY <1>6, <1>10
    <2>2. /\ Len(Sent) \in Nat /\ DOMAIN Sent = 1 .. Len(Sent)
          /\ \A i \in DOMAIN Sent : Sent[i] \in Row
      BY SentType DEF TypeInv
    <2> HIDE DEF Sent
    <2>3. \A i \in DOMAIN Sent : Sent[i].end <= now'
      BY <1>1, <1>5, <2>2 DEF Core, RowsPast, Row
    <2>4. EndedBy(kill.at)' = 1 .. Len(Sent)
      BY <1>2, <2>1, <2>2, <2>3 DEF EndedBy
    <2>5. Cardinality(1 .. Len(Sent)) = Len(Sent)
      BY <2>2, FS_Interval
    <2>6. Len(Sent) = completed + Cardinality(Counting) /\ Cardinality(Counting) \in Nat
      BY <1>1, SetsMove DEF Core, RowsAccounted
    <2> HIDE DEF EndedBy, Counting
    <2>7. Cardinality(EndedBy(kill.at)') >= KillAfter
      BY <1>3, <1>4, <2>2, <2>4, <2>5, <2>6
    <2> QED
      BY <1>3, <1>4, <1>5, <1>8, <2>1, <2>7 DEF KillOnce
  <1> QED
    BY <1>9, <1>10

LEMMA WorkerKeeps ==
  ASSUME TypeInv, Core, exit = "running", NEW w \in Worker, WorkerStep(w)
  PROVE  TypeInv' /\ Core'
  <1>1. CASE StartOp(w)
    BY <1>1, StartOpKeeps
  <1>2. CASE \E ok \in BOOLEAN : Return(w, ok)
    BY <1>2, ReturnKeeps
  <1>3. CASE Send(w)
    BY <1>3, SendKeeps
  <1>4. CASE Complete(w)
    BY <1>4, AfterRowKeeps, CompleteKills DEF AfterRow, Core
  <1>5. CASE Trigger(w)
    BY <1>5, AfterRowKeeps, TriggerKills DEF AfterRow, Core
  <1>6. CASE Think(w) \/ Leave(w)
    <2>1. AfterRow(w) /\ UNCHANGED <<completed, killTriggered, kill>>
      BY <1>6 DEF AfterRow, Think, Leave, countVars, killVars
    <2>2. Moves(w) /\ rows' = rows
      BY <2>1, AfterRowType
    <2>3. pc[w] # "trigger" /\ pc'[w] # "trigger"
      <3>1. pc[w] \in {"think", "top"}
        BY <1>6 DEF Think, Leave, At
      <3>2. CASE NextOp(w)
        BY <3>1, <3>2, ProceedFrame
      <3>3. CASE Goto(w, "done")
        BY <3>1, <3>3, GotoMoves DEF Places
      <3> QED
        BY <1>6, <3>1, <3>2, <3>3 DEF Think, Leave
    <2>4. \A t \in Nat : EndedBy(t)' = EndedBy(t)
      BY <2>2, SentKept DEF TypeInv, Moves
    <2>5. \A t \in Nat : /\ Cardinality(EndedBy(t)) \in Nat
                         /\ Cardinality(EndedBy(t)') \in Nat
                         /\ Cardinality(EndedBy(t)') >= Cardinality(EndedBy(t))
      BY <2>4, PositionsType DEF TypeInv
    <2>6. KillOnce'
      BY <2>1, <2>2, <2>3, <2>5, KillKept DEF Core
    <2> QED
      BY <2>1, <2>6, AfterRowKeeps DEF Core
  <1> QED
    BY <1>1, <1>2, <1>3, <1>4, <1>5, <1>6 DEF WorkerStep

-----------------------------------------------------------------------------
(* The steps of main, the interrupt and a failing disk                     *)

LEMMA WorkersStill ==
  ASSUME TypeOK, RowsAccounted, RowsOrdered, RowsPast, KillOnce, Sent' = Sent,
         UNCHANGED <<now, workerVars, countVars, killVars>>
  PROVE  RowsAccounted' /\ RowsOrdered' /\ RowsPast' /\ KillOnce'
  <1>1. UNCHANGED <<now, pc, op, call, started, completed, successCount, failureCount, killTriggered, kill>>
    BY DEF workerVars, countVars, killVars
  <1> HIDE DEF Sent
  <1>2. /\ Holding' = Holding /\ Counting' = Counting /\ Succeeded' = Succeeded /\ Failed' = Failed
        /\ SendingOk' = SendingOk /\ SendingFailed' = SendingFailed
    BY <1>1 DEF Holding, Counting, Succeeded, Failed, SendingOk, SendingFailed, Sending, WithOutcome
  <1>3. EndedBy(kill.at)' = EndedBy(kill.at)
    BY <1>1 DEF EndedBy
  <1>4. RowsAccounted'
    BY <1>1, <1>2 DEF RowsAccounted
  <1>5. RowsOrdered' /\ RowsPast'
    BY <1>1 DEF RowsOrdered, RowsPast
  <1>6. KillOnce'
    BY <1>1, <1>3 DEF KillOnce
  <1> QED
    BY <1>4, <1>5, <1>6

LEMMA MainKeeps ==
  ASSUME TypeInv, Core, exit = "running", MainStep \/ Interrupt
  PROVE  TypeInv' /\ Core' /\ exit' # "fatal"
  <1>1. UNCHANGED <<now, workerVars, countVars, killVars>>
    BY DEF MainStep, CloseRows, WriteRow, Finish, Interrupt
  <1>2. UNCHANGED <<now, pc, op, call, started, completed, successCount, failureCount, killTriggered, kill>>
    BY <1>1 DEF workerVars, countVars, killVars
  <1>3. TypeOK /\ rows \in Seq(Row) /\ csv \in Seq(Row)
    BY DEF TypeInv, TypeOK
  <1>4. Numbers'
    BY <1>2 DEF TypeInv, Numbers
  <1>5. CASE Interrupt
    <2>1. UNCHANGED <<rows, csv, closed, exit, meta, flushed>> /\ interrupted' = TRUE
      BY <1>5 DEF Interrupt, outputVars
    <2>2. TypeInv'
      BY <1>2, <1>4, <2>1 DEF TypeInv, TypeOK
    <2>3. Sent' = Sent
      BY <2>1 DEF Sent
    <2>4. Ending'
      BY <1>2, <2>1 DEF Core, Ending
    <2> QED
      BY <1>1, <1>3, <2>1, <2>2, <2>3, <2>4, WorkersStill DEF Core
  <1>6. CASE CloseRows
    <2>1. /\ UNCHANGED <<rows, csv, exit, meta, flushed, interrupted>> /\ closed' = TRUE
          /\ \A w \in Worker : pc[w] = "done"
      BY <1>6 DEF CloseRows, outputVars
    <2>2. TypeInv'
      BY <1>2, <1>4, <2>1 DEF TypeInv, TypeOK
    <2>3. Sent' = Sent
      BY <2>1 DEF Sent
    <2>4. Ending'
      BY <1>2, <2>1 DEF Core, Ending
    <2> QED
      BY <1>1, <1>3, <2>1, <2>2, <2>3, <2>4, WorkersStill DEF Core
  <1>7. CASE WriteRow
    <2>1. /\ rows # <<>> /\ csv' = Append(csv, Head(rows)) /\ rows' = Tail(rows)
          /\ UNCHANGED <<interrupted, closed, exit, meta>>
          /\ flushed' = IF Len(csv') % FlushEvery = 0 THEN Len(csv') ELSE flushed
      BY <1>7 DEF WriteRow
    <2>2. /\ csv' \in Seq(Row) /\ rows' \in Seq(Row)
          /\ Len(csv') = Len(csv) + 1 /\ Len(rows') <= Len(rows)
          /\ Sent' = Sent
      BY <1>3, <2>1, SentMoves
    <2>3. flushed' \in 0 .. Len(csv') /\ Len(rows') <= ChanCap
      <3>1. Len(csv) \in Nat /\ Len(rows) \in Nat /\ Len(rows') \in Nat /\ ChanCap \in Nat
        BY <1>3, <2>2, SizesAssumption
      <3>2. flushed \in 0 .. Len(csv) /\ Len(rows) <= ChanCap
        BY DEF TypeInv, TypeOK
      <3>3. flushed' = Len(csv') \/ flushed' = flushed
        BY <2>1
      <3> QED
        BY <2>2, <3>1, <3>2, <3>3
    <2>4. TypeInv'
      BY <1>2, <1>4, <2>1, <2>2, <2>3 DEF TypeInv, TypeOK
    <2>5. Ending'
      BY <1>2, <2>1 DEF Core, Ending
    <2> QED
      BY <1>1, <1>3, <2>1, <2>2, <2>4, <2>5, WorkersStill DEF Core
  <1>8. CASE Finish
    <2>1. /\ UNCHANGED <<rows, csv, interrupted, closed>> /\ closed /\ rows = <<>>
          /\ exit' = "ok" /\ flushed' = Len(csv) /\ meta' = TheMeta
      BY <1>8 DEF Finish
    <2>2. TypeInv'
      <3>1. flushed' \in 0 .. Len(csv')
        BY <1>3, <2>1
      <3>2. TheMeta \in Meta
        BY ClockAssumption DEF TheMeta, Meta, KillResult, NoKill, TypeInv, TypeOK
      <3> HIDE DEF TheMeta
      <3> QED
        BY <1>2, <1>4, <2>1, <3>1, <3>2 DEF TypeInv, TypeOK
    <2>3. Sent' = Sent
      BY <2>1 DEF Sent
    <2>4. TheMeta' = TheMeta
      BY <1>2 DEF TheMeta
    <2>5. Ending'
      <3>1. \A w \in Worker : pc'[w] = "done"
        BY <1>2, <2>1 DEF Core, Ending
      <3> HIDE DEF TheMeta
      <3> QED
        BY <2>1, <2>4, <3>1 DEF Ending
    <2> QED
      BY <1>1, <1>3, <2>1, <2>2, <2>3, <2>5, WorkersStill DEF Core
  <1> QED
    BY <1>5, <1>6, <1>7, <1>8 DEF MainStep

LEMMA DiskFailsKeeps ==
  ASSUME TypeInv, DiskFails
  PROVE  TypeInv' /\ exit' = "fatal" /\ kill' = NoKill
  <1>1. now' \in Clock
    BY ClockAssumption DEF DiskFails
  <1>2. pc' \in [Worker -> Places] /\ \A w \in Worker : pc'[w] = "done"
    BY DEF DiskFails, Places
  <1>3. op' \in [Worker -> 1 .. Increments + 1]
    BY SizesAssumption DEF DiskFails
  <1>4. call' \in [Worker -> Row]
    <2>1. \A w \in Worker : NewCall(w, 0, 0) \in Row
      BY DEF NewCall, Row
    <2> QED
      BY <2>1 DEF DiskFails
  <1>5. rows' \in Seq(Row) /\ Len(rows') <= ChanCap /\ closed' = TRUE /\ interrupted' = FALSE
    BY SizesAssumption DEF DiskFails
  <1>6. csv' = csv /\ flushed' = flushed /\ exit' = "fatal" /\ killTriggered' = FALSE
    BY DEF DiskFails
  <1>7. /\ kill' = NoKill /\ kill' \in KillResult
        /\ started' \in Nat /\ completed' \in Nat /\ successCount' \in Nat /\ failureCount' \in Nat
    BY DEF DiskFails, NoKill, KillResult
  <1>8. meta' \in Meta
    BY DEF DiskFails, TypeInv, TypeOK
  <1> QED
    BY <1>1, <1>2, <1>3, <1>4, <1>5, <1>6, <1>7, <1>8 DEF TypeInv, TypeOK, Numbers, Places

-----------------------------------------------------------------------------
(* The theorems                                                            *)

LEMMA LInvInit == MInit => LInv
  <1> SUFFICES ASSUME MInit PROVE LInv
    OBVIOUS
  <1>1. Init /\ TypeInv
    BY LTypeInit DEF MInit
  <1>2. Sent = <<>> /\ Len(Sent) = 0 /\ DOMAIN Sent = {}
    BY <1>1 DEF Init, Sent
  <1> HIDE DEF Sent
  <1>3. /\ Holding = {} /\ Counting = {} /\ Succeeded = {} /\ Failed = {}
        /\ SendingOk = {} /\ SendingFailed = {}
    BY <1>1, <1>2
    DEF Init, Holding, Counting, Succeeded, Failed, SendingOk, SendingFailed, Sending, WithOutcome
  <1>4. RowsAccounted
    BY <1>1, <1>2, <1>3, FS_EmptySet DEF Init, RowsAccounted
  <1>5. RowsOrdered /\ RowsPast
    BY <1>1, <1>2 DEF Init, RowsOrdered, RowsPast
  <1>6. KillOnce
    BY <1>1, SizesAssumption DEF Init, KillOnce, NoKill
  <1>7. Ending /\ exit = "running"
    BY <1>1 DEF Init, Ending
  <1> QED
    BY <1>1, <1>4, <1>5, <1>6, <1>7 DEF LInv, Core

LEMMA LInvStep == LInv /\ [MNext]_<<vars, report>> => LInv'
  <1> SUFFICES ASSUME LInv, [MNext]_<<vars, report>> PROVE LInv'
    OBVIOUS
  <1>1. CASE LoadStep
    <2>1. exit = "running" /\ TypeInv /\ Core
      BY <1>1
      DEF LInv, LoadStep, Interrupt, WorkerStep, StartOp, Leave, Return, Send, Complete, Trigger, Think, At,
          MainStep, CloseRows, WriteRow, Finish, DiskFails, Running
    <2>2. CASE \E w \in Worker : WorkerStep(w)
      <3>1. PICK w \in Worker : WorkerStep(w)
        BY <2>2
      <3>2. TypeInv' /\ Core'
        BY <2>1, <3>1, WorkerKeeps
      <3>3. exit' = exit
        BY <3>1 DEF WorkerStep, StartOp, Leave, Return, Send, Complete, Trigger, Think, outputVars
      <3> QED
        BY <2>1, <3>2, <3>3 DEF LInv
    <2>3. CASE MainStep \/ Interrupt
      BY <2>1, <2>3, MainKeeps DEF LInv
    <2>4. CASE DiskFails
      BY <2>1, <2>4, DiskFailsKeeps DEF LInv
    <2> QED
      BY <1>1, <2>2, <2>3, <2>4 DEF LoadStep
  <1>2. CASE UNCHANGED vars
    <2>1. UNCHANGED <<now, interrupted, pc, op, call, started, completed, successCount, failureCount,
                      killTriggered, kill, rows, closed, csv, flushed, exit, meta>>
      BY <1>2 DEF vars, workerVars, countVars, killVars, outputVars
    <2>2. TypeInv'
      BY <2>1 DEF LInv, TypeInv, TypeOK, Numbers
    <2>3. Sent' = Sent /\ TheMeta' = TheMeta
      BY <2>1 DEF Sent, TheMeta
    <2>4. Core => Ending'
      <3> HIDE DEF TheMeta
      <3> QED
        BY <2>1, <2>3 DEF Core, Ending
    <2>5. Core => Core'
      <3>1. UNCHANGED <<now, workerVars, countVars, killVars>>
        BY <1>2 DEF vars
      <3> QED
        BY <2>3, <2>4, <3>1, WorkersStill DEF LInv, TypeInv, Core
    <2> QED
      BY <2>1, <2>2, <2>5 DEF LInv
  <1> QED
    BY <1>1, <1>2 DEF MNext, RunAnalysis

LEMMA LInvariance == MSpec => []LInv
  BY LInvInit, LInvStep, PTL DEF MSpec

\* Every variable of the load generator stays in its type: the channel never holds
\* more than its capacity, no worker does more than its operations, and no more
\* rows are known to be on the disk than were written.
THEOREM LoadTypes == MSpec => []TypeOK
  <1>1. LInv => TypeOK
    BY DEF LInv, TypeInv
  <1> QED
    BY <1>1, LInvariance, PTL

\* Killing the server, in the goroutine of the worker whose operation was number
\* kill-after, is always done, and reported, before main reads the injector's
\* result without a lock.
THEOREM KillsReported == MSpec => []KillReported
  <1>1. LInv => KillReported
    <2> SUFFICES ASSUME LInv, exit = "ok"
                 PROVE  IF KillAfter > 0 /\ completed >= KillAfter
                        THEN kill.at > 0 /\ meta.kill = kill
                        ELSE meta.kill.at = 0
      BY DEF KillReported
    <2>1. KillOnce /\ meta = TheMeta /\ \A w \in Worker : pc[w] = "done"
      BY DEF LInv, Core, Ending
    <2>2. CASE KillAfter > 0 /\ completed >= KillAfter
      BY <2>1, <2>2 DEF KillOnce, TheMeta
    <2>3. CASE ~(KillAfter > 0 /\ completed >= KillAfter)
      BY <2>1, <2>3 DEF KillOnce, TheMeta, NoKill
    <2> QED
      BY <2>2, <2>3
  <1> QED
    BY <1>1, LInvariance, PTL

\* Whatever the workers do between counting an operation and the kill, the kill is
\* not placed before the end of kill-after operations that are in the file.
THEOREM KillsNotEarly == MSpec => []KillNotEarly
  <1>1. LInv => KillNotEarly
    <2> SUFFICES ASSUME LInv, kill.at > 0
                 PROVE  Count(Sent, LAMBDA r : r.end <= kill.at) >= KillAfter
      BY DEF KillNotEarly
    <2>1. KillOnce
      BY DEF LInv, Core, NoKill
    <2>2. Count(Sent, LAMBDA r : r.end <= kill.at) = Cardinality(EndedBy(kill.at))
      BY DEF Count, EndedBy
    <2> QED
      BY <2>1, <2>2 DEF KillOnce
  <1> QED
    BY <1>1, LInvariance, PTL

\* A run that ends normally has one row on the disk per operation begun, each
\* worker's in order, and its metadata count the rows by their outcome: no row is
\* lost when the channel is full, closed or drained late.
THEOREM CsvIsComplete == MSpec => []CsvComplete
  <1>1. LInv => CsvComplete
    <2> SUFFICES ASSUME LInv, exit = "ok"
                 PROVE  /\ flushed = Len(csv) /\ rows = <<>>
                        /\ Len(csv) = started
                        /\ \A i, j \in DOMAIN csv :
                             csv[i].worker = csv[j].worker /\ i < j => csv[i].op < csv[j].op
                        /\ Count(csv, LAMBDA r : r.ok) = meta.success
                        /\ Count(csv, LAMBDA r : ~r.ok) = meta.failure
      BY DEF CsvComplete
    <2>1. /\ TypeOK /\ RowsAccounted /\ RowsOrdered /\ meta = TheMeta
          /\ flushed = Len(csv) /\ rows = <<>> /\ \A w \in Worker : pc[w] = "done"
      BY DEF LInv, TypeInv, Core, Ending
    <2>2. Sent = csv /\ csv \in Seq(Row)
      BY <2>1 DEF Sent, TypeOK
    <2>3. Holding = {} /\ SendingOk = {} /\ SendingFailed = {}
      BY <2>1 DEF Holding, SendingOk, SendingFailed, Sending
    <2>4. /\ Len(csv) \in Nat /\ DOMAIN csv = 1 .. Len(csv)
          /\ \A i \in DOMAIN csv : csv[i].ok \in BOOLEAN
      <3>1. Len(csv) \in Nat /\ DOMAIN csv = 1 .. Len(csv) /\ \A i \in DOMAIN csv : csv[i] \in Row
        BY <2>1, <2>2, SentType
      <3>2. \A r \in Row : r.ok \in BOOLEAN
        BY DEF Row
      <3> QED
        BY <3>1, <3>2
    <2>5. Count(csv, LAMBDA r : r.ok) = Cardinality(Succeeded)
      BY <2>2, <2>4 DEF Count, Succeeded, WithOutcome
    <2>6. Count(csv, LAMBDA r : ~r.ok) = Cardinality(Failed)
      BY <2>2, <2>4 DEF Count, Failed, WithOutcome
    <2>7. Cardinality(Succeeded) \in Nat /\ Cardinality(Failed) \in Nat
      BY <2>1, PositionsType, Zenon DEF Succeeded, Failed
    <2> HIDE DEF Holding, SendingOk, SendingFailed, Succeeded, Failed, Sent
    <2>8. /\ Len(csv) = started
          /\ Cardinality(Succeeded) = successCount /\ Cardinality(Failed) = failureCount
      BY <2>1, <2>2, <2>3, <2>4, <2>7, FS_EmptySet DEF RowsAccounted
    <2>9. \A i, j \in DOMAIN csv : csv[i].worker = csv[j].worker /\ i < j => csv[i].op < csv[j].op
      BY <2>1, <2>2 DEF RowsOrdered
    <2> QED
      BY <2>1, <2>5, <2>6, <2>8, <2>9 DEF TheMeta
  <1> QED
    BY <1>1, LInvariance, PTL
=============================================================================
