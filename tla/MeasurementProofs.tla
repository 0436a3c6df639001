------------------------- MODULE MeasurementProofs -------------------------
(***************************************************************************)
(* Theorems about a whole measurement, for every number of workers and     *)
(* operations and every clock: what the analysis script makes of the file, *)
(* in whatever order the channel and the sorting put the rows.             *)
(***************************************************************************)
EXTENDS LoadGenProofs

-----------------------------------------------------------------------------
(* The times in the files, and where a report comes from                   *)

\* Operations start after the run did and end after they started; the kill is
\* after the start of the run.  Only a normal end leaves metadata.
TimesOrdered ==
  /\ \A i \in DOMAIN Sent : StartNS <= Sent[i].start /\ Sent[i].start <= Sent[i].end
  /\ \A w \in Worker : pc[w] \in {"call", "send"} => StartNS <= call[w].start /\ call[w].start <= now
  /\ \A w \in Worker : pc[w] = "send" => call[w].start <= call[w].end
  /\ kill.at > 0 => StartNS <= kill.at
  /\ exit # "ok" => meta = NoMeta

\* The report was made from what is in the files.
ReportGenuine ==
  report # NoReport =>
    /\ exit # "running"
    /\ \E n \in 1 .. Len(csv) :
         \E samples \in ReadSamples(SubSeq(csv, 1, n)) :
           \E sorted \in SuccessLatencies(samples) :
             \E m \in ReadMeta : report = Analyze(samples, sorted, m.startedAt, m.kill.at)

LEMMA ClockFromStart == TypeOK => now \in Nat /\ StartNS \in Nat \ {0} /\ now >= StartNS
  BY ClockAssumption DEF TypeOK

\* A worker's step that sends nothing.
LEMMA TimesKept ==
  ASSUME TypeInv, TypeInv', TimesOrdered, NEW w \in Worker, Moves(w), Sent' = Sent, now' >= now,
         pc'[w] \in {"call", "send"} => StartNS <= call'[w].start /\ call'[w].start <= now',
         pc'[w] = "send" => call'[w].start <= call'[w].end,
         kill'.at > 0 => StartNS <= kill'.at
  PROVE  TimesOrdered'
  <1>1. now \in Nat /\ now' \in Nat
    <2>1. (TypeOK => now \in Nat /\ StartNS \in Nat \ {0} /\ now >= StartNS)'
      BY ClockFromStart, PTL
    <2> QED
      BY <2>1, ClockFromStart DEF TypeInv
  <1>2. \A v \in Worker : call[v].start \in Nat
    <2>1. \A v \in Worker : call[v] \in Row
      BY DEF TypeInv, TypeOK
    <2> QED
      BY <2>1 DEF Row
  <1> HIDE DEF Sent
  <1>3. \A v \in Worker \ {w} : pc'[v] \in {"call", "send"} => StartNS <= call'[v].start /\ call'[v].start <= now'
    BY <1>1, <1>2 DEF TimesOrdered, Moves
  <1>4. \A v \in Worker : pc'[v] = "send" => call'[v].start <= call'[v].end
    BY DEF TimesOrdered, Moves
  <1> QED
    BY <1>3, <1>4 DEF TimesOrdered, Moves

LEMMA TimesStep == LInv /\ TimesOrdered /\ LoadStep => TimesOrdered'
  <1> SUFFICES ASSUME LInv, TimesOrdered, LoadStep PROVE TimesOrdered'
    OBVIOUS
  <1>1. exit = "running" /\ TypeInv /\ TypeOK /\ meta = NoMeta
    BY DEF LInv, TimesOrdered, TypeInv, LoadStep, Interrupt, WorkerStep, StartOp, Leave, Return, Send,
       Complete, Trigger, Think, At, MainStep, CloseRows, WriteRow, Finish, DiskFails, Running
  <1>2. now \in Nat /\ StartNS \in Nat \ {0} /\ now >= StartNS
    BY <1>1, ClockFromStart
  <1>3. CASE \E w \in Worker : WorkerStep(w)
    <2>1. PICK w \in Worker : WorkerStep(w)
      BY <1>3
    <2>2. CASE StartOp(w)
      <3>1. /\ TypeInv' /\ Moves(w) /\ pc[w] = "top" /\ pc'[w] = "call" /\ rows' = rows /\ now' >= now
        BY <1>1, <2>2, StartOpType
      <3>2. Sent' = Sent /\ kill' = kill
        BY <2>2, <3>1 DEF Sent, Moves, StartOp, killVars
      <3>3. call'[w].start = now'
        BY <1>1, <2>2 DEF StartOp, NewCall, TypeOK
      <3>4. now' \in Nat
        BY <1>1, <2>2, ClockReads DEF StartOp
      <3>5. StartNS <= call'[w].start /\ call'[w].start <= now'
        BY <1>2, <3>1, <3>3, <3>4
      <3>6. kill'.at > 0 => StartNS <= kill'.at
        BY <3>2 DEF TimesOrdered
      <3> QED
        BY <1>1, <3>1, <3>2, <3>5, <3>6, TimesKept
    <2>3. CASE \E ok \in BOOLEAN : Return(w, ok)
      <3>1. PICK ok \in BOOLEAN : Return(w, ok)
        BY <2>3
      <3>2. /\ TypeInv' /\ Moves(w) /\ pc[w] = "call" /\ pc'[w] = "send" /\ rows' = rows
            /\ call'[w].end = now' /\ now' >= now
        BY <1>1, <3>1, ReturnType
      <3>3. Sent' = Sent /\ kill' = kill
        BY <3>1, <3>2 DEF Sent, Moves, Return, killVars
      <3>4. call[w] \in Row /\ call'[w].start = call[w].start
        <4>1. call \in [Worker -> Row] /\ call[w] \in Row
          BY <1>1 DEF TypeOK
        <4>2. call'[w] = [call[w] EXCEPT !.end = now', !.ok = ok]
          BY <3>1, <4>1 DEF Return
        <4> QED
          BY <4>1, <4>2 DEF Row
      <3>5. now' \in Nat /\ call[w].start \in Nat
        BY <1>1, <3>1, <3>4, ClockReads DEF Return, Row
      <3>6. StartNS <= call[w].start /\ call[w].start <= now
        BY <3>2 DEF TimesOrdered
      <3>7. /\ StartNS <= call'[w].start /\ call'[w].start <= now'
            /\ call'[w].start <= call'[w].end
        BY <1>2, <3>2, <3>4, <3>5, <3>6
      <3>8. kill'.at > 0 => StartNS <= kill'.at
        BY <3>3 DEF TimesOrdered
      <3> QED
        BY <1>1, <3>2, <3>3, <3>7, <3>8, TimesKept
    <2>4. CASE Send(w)
      <3>1. /\ Moves(w) /\ pc[w] = "send" /\ pc'[w] = "sent" /\ call' = call
            /\ rows' = Append(rows, call[w]) /\ call[w] \in Row
        BY <1>1, <2>4, SendType
      <3>2. now' = now /\ kill' = kill /\ csv' = csv
        BY <2>4, <3>1 DEF Send, killVars, Moves
      <3>3. /\ DOMAIN Sent' = 1 .. Len(Sent) + 1
            /\ \A i \in 1 .. Len(Sent) : Sent'[i] = Sent[i]
            /\ Sent'[Len(Sent) + 1] = call[w]
        BY <1>1, <3>1, <3>2, SentGrows
      <3>4. Len(Sent) \in Nat /\ DOMAIN Sent = 1 .. Len(Sent)
        BY <1>1, SentType
      <3> HIDE DEF Sent
      <3>5. \A i \in DOMAIN Sent' : (i \in DOMAIN Sent /\ Sent'[i] = Sent[i]) \/ Sent'[i] = call[w]
        BY <3>3, <3>4
      <3>6. StartNS <= call[w].start /\ call[w].start <= call[w].end
        BY <3>1 DEF TimesOrdered
      <3>7. \A i \in DOMAIN Sent' : StartNS <= Sent'[i].start /\ Sent'[i].start <= Sent'[i].end
        BY <3>5, <3>6 DEF TimesOrdered
      <3> QED
        BY <3>1, <3>2, <3>7 DEF TimesOrdered, Moves
    <2>5. CASE AfterRow(w)
      <3>1. /\ TypeInv' /\ Moves(w) /\ rows' = rows /\ now' >= now
            /\ pc'[w] \in {"trigger", "think", "top", "done"}
        BY <1>1, <2>5, AfterRowType
      <3>2. Sent' = Sent
        BY <3>1 DEF Sent, Moves
      <3>3. kill'.at > 0 => StartNS <= kill'.at
        <4>1. CASE Trigger(w)
          <5>1. kill' = kill \/ kill'.at = now'
            BY <4>1 DEF Trigger
          <5>2. now' \in Nat
            BY <1>1, <4>1, ClockReads DEF Trigger
          <5> QED
            BY <1>2, <3>1, <5>1, <5>2 DEF TimesOrdered
        <4>2. CASE Complete(w) \/ Think(w) \/ Leave(w)
          <5>1. kill' = kill
            BY <4>2 DEF Complete, Think, Leave, killVars
          <5> QED
            BY <5>1 DEF TimesOrdered
        <4> QED
          BY <2>5, <4>1, <4>2 DEF AfterRow
      <3> QED
        BY <1>1, <3>1, <3>2, <3>3, TimesKept
    <2> QED
      BY <2>1, <2>2, <2>3, <2>4, <2>5 DEF WorkerStep, AfterRow
  <1>4. CASE MainStep \/ Interrupt
    <2>1. UNCHANGED <<now, pc, call, kill>>
      BY <1>4 DEF MainStep, CloseRows, WriteRow, Finish, Interrupt, workerVars, killVars
    <2>2. Sent' = Sent
      <3>1. CASE WriteRow
        BY <1>1, <3>1, SentMoves DEF WriteRow
      <3>2. CASE Interrupt \/ CloseRows \/ Finish
        BY <3>2 DEF Interrupt, CloseRows, Finish, outputVars, Sent
      <3> QED
        BY <1>4, <3>1, <3>2 DEF MainStep
    <2>3. exit' = "ok" \/ meta' = meta
      BY <1>4 DEF MainStep, CloseRows, WriteRow, Finish, Interrupt, outputVars
    <2> HIDE DEF Sent
    <2> QED
      BY <1>1, <2>1, <2>2, <2>3 DEF TimesOrdered
  <1>5. CASE DiskFails
    <2>1. /\ csv' = csv /\ rows' = <<>> /\ meta' = meta /\ kill'.at = 0
          /\ \A w \in Worker : pc'[w] = "done"
      BY <1>5 DEF DiskFails, NoKill
    <2>2. csv \in Seq(Row) /\ rows \in Seq(Row)
      BY <1>1 DEF TypeOK
    <2>3. Sent' = csv
      BY <2>1, <2>2 DEF Sent
    <2>4. \A i \in DOMAIN csv : i \in DOMAIN Sent /\ csv[i] = Sent[i]
      BY <2>2 DEF Sent
    <2>5. \A i \in DOMAIN Sent' : StartNS <= Sent'[i].start /\ Sent'[i].start <= Sent'[i].end
      BY <2>3, <2>4 DEF TimesOrdered
    <2> QED
      BY <1>1, <2>1, <2>5 DEF TimesOrdered
  <1> QED
    BY <1>3, <1>4, <1>5 DEF LoadStep

MInv == LInv /\ TimesOrdered /\ ReportGenuine

LEMMA MInvariance == MSpec => []MInv
  <1>1. MInit => TimesOrdered /\ ReportGenuine
    <2> SUFFICES ASSUME MInit PROVE TimesOrdered /\ ReportGenuine
      OBVIOUS
    <2>1. /\ DOMAIN Sent = {} /\ kill.at = 0 /\ meta = NoMeta /\ report = NoReport
          /\ \A w \in Worker : pc[w] = "top"
      BY DEF MInit, Init, Sent, NoKill
    <2> QED
      BY <2>1 DEF TimesOrdered, ReportGenuine
  <1>2. MInv /\ LInv' /\ [MNext]_<<vars, report>> => MInv'
    <2> SUFFICES ASSUME MInv, [MNext]_<<vars, report>> PROVE TimesOrdered' /\ ReportGenuine'
      BY DEF MInv
    <2>1. CASE LoadStep /\ UNCHANGED report
      <3>1. exit = "running"
        BY <2>1
        DEF LoadStep, Interrupt, WorkerStep, StartOp, Leave, Return, Send, Complete, Trigger, Think, At,
            MainStep, CloseRows, WriteRow, Finish, DiskFails, Running
      <3>2. report' = NoReport
        BY <2>1, <3>1 DEF MInv, ReportGenuine
      <3> QED
        BY <2>1, <3>2, TimesStep DEF MInv, ReportGenuine
    <2>2. CASE UNCHANGED vars
      <3>1. UNCHANGED <<now, pc, call, kill, csv, rows, exit, meta>>
        BY <2>2 DEF vars, workerVars, killVars, outputVars
      <3>2. TimesOrdered'
        <4>1. Sent' = Sent
          BY <3>1 DEF Sent
        <4> HIDE DEF Sent
        <4> QED
          BY <3>1, <4>1 DEF MInv, TimesOrdered
      <3>3. ReadMeta' = ReadMeta
        BY <3>1 DEF ReadMeta
      <3>4. CASE RunAnalysis
        <4>1. exit # "running"
          BY <3>4 DEF RunAnalysis
        <4>2. PICK n \in flushed .. Len(csv) :
                n > 0 /\ \E samples \in ReadSamples(SubSeq(csv, 1, n)) :
                           \E sorted \in SuccessLatencies(samples) :
                             \E m \in ReadMeta : report' = Analyze(samples, sorted, m.startedAt, m.kill.at)
          BY <3>4 DEF RunAnalysis
        <4>3. n \in 1 .. Len(csv)
          <5>1. flushed \in 0 .. Len(csv) /\ Len(csv) \in Nat
            BY DEF MInv, LInv, TypeInv, TypeOK
          <5> QED
            BY <4>2, <5>1
        <4> QED
          BY <3>1, <3>2, <3>3, <4>1, <4>2, <4>3 DEF ReportGenuine
      <3>5. CASE UNCHANGED report
        BY <3>1, <3>2, <3>3, <3>5 DEF MInv, ReportGenuine
      <3> QED
        BY <2>2, <3>4, <3>5 DEF MNext, LoadStep
    <2> QED
      BY <2>1, <2>2 DEF MNext, RunAnalysis
  <1> QED
    BY <1>1, <1>2, LInvariance, PTL DEF MSpec, MInv

-----------------------------------------------------------------------------
(* The operators of the script                                             *)

\* A loop that stops at the first hit stops at the smallest index.
LEMMA LeastOf ==
  ASSUME NEW S \in SUBSET Nat, S # {}
  PROVE  \E m \in S : \A k \in S : m <= k
  <1> DEFINE R == OpToRel(<, Nat)
  <1>1. IsWellFoundedOn(R, Nat)
    BY NatLessThanWellFounded
  <1>2. \A x, y \in Nat : <<x, y>> \in R <=> x < y
    BY DEF OpToRel
  <1> HIDE DEF R
  <1>3. PICK m \in S : \A k \in S : ~(<<k, m>> \in R)
    BY <1>1, WFMin
  <1>4. ASSUME NEW k \in S PROVE m <= k
    <2>1. k \in Nat /\ m \in Nat /\ ~(<<k, m>> \in R)
      BY <1>3
    <2>2. ~(k < m)
      BY <1>2, <2>1
    <2> QED
      BY <2>1, <2>2
  <1> QED
    BY <1>4

LEMMA SameLength ==
  ASSUME NEW a \in Nat, NEW b \in Nat, 1 .. a = 1 .. b
  PROVE  a = b
  <1>1. Cardinality(1 .. a) = a /\ Cardinality(1 .. b) = b
    BY FS_Interval
  <1> QED
    BY <1>1

\* The length of a sequence made by a function on an interval.
LEMMA LengthOf ==
  ASSUME NEW n \in Nat, NEW s, s = [i \in 1 .. n |-> s[i]]
  PROVE  s \in Seq({s[i] : i \in 1 .. n}) /\ Len(s) = n /\ DOMAIN s = 1 .. n
  <1>1. s \in [1 .. n -> {s[i] : i \in 1 .. n}] /\ DOMAIN s = 1 .. n
    OBVIOUS
  <1>2. s \in Seq({s[i] : i \in 1 .. n})
    BY <1>1, SeqDef
  <1>3. DOMAIN s = 1 .. Len(s) /\ Len(s) \in Nat
    BY <1>2, LenProperties
  <1> QED
    BY <1>1, <1>2, <1>3, SameLength

\* p goes once through I, in n steps, from the smallest key to the largest.
GoesThrough(p, n, key, I) ==
  /\ p \in [1 .. n -> I] /\ DOMAIN p = 1 .. n
  /\ \A i, j \in 1 .. n : p[i] = p[j] => i = j
  /\ \A x \in I : \E i \in 1 .. n : p[i] = x
  /\ \A i, j \in 1 .. n : i < j => key[p[i]] <= key[p[j]]

\* What sorting gives: all of the indices, each once, the keys in order.
LEMMA OrderFacts ==
  ASSUME NEW n \in Nat, NEW I, Cardinality(I) = n, NEW key, NEW p \in Orders(key, I)
  PROVE  GoesThrough(p, n, key, I)
  <1>1. p \in Bijection(1 .. n, I) /\ \A i, j \in DOMAIN p : i < j => key[p[i]] <= key[p[j]]
    BY DEF Orders
  <1>2. p \in [1 .. n -> I] /\ IsInjective(p) /\ \A x \in I : \E i \in 1 .. n : p[i] = x
    BY <1>1 DEF Bijection, Injection, Surjection
  <1>3. DOMAIN p = 1 .. n
    BY <1>2
  <1>4. \A i, j \in 1 .. n : p[i] = p[j] => i = j
    BY <1>2, <1>3 DEF IsInjective
  <1> QED
    BY <1>1, <1>2, <1>3, <1>4 DEF GoesThrough

\* A row whose operation took some time, and what the script makes of it.
TimedRow == {r \in Row : StartNS <= r.start /\ r.start <= r.end}

LEMMA SampleFacts ==
  ASSUME NEW r \in TimedRow
  PROVE  /\ Sample(r).start = r.start /\ Sample(r).end = r.end /\ Sample(r).ok = r.ok
         /\ Sample(r).latency = LatencyUS(r)
         /\ r.start \in Nat /\ r.end \in Nat /\ r.ok \in BOOLEAN /\ LatencyUS(r) \in Nat
         /\ r.start <= r.end /\ StartNS <= r.start
  <1>1. r.start \in Nat /\ r.end \in Nat /\ r.ok \in BOOLEAN /\ r.start <= r.end /\ StartNS <= r.start
    BY DEF TimedRow, Row
  <1>2. (r.end - r.start + 500) \div 1000 \in Nat
    BY <1>1
  <1> QED
    BY <1>1, <1>2 DEF Sample, LatencyUS

\* The samples are the rows, in the order of their ends.
LEMMA SamplesFacts ==
  ASSUME NEW rs \in Seq(TimedRow), NEW samples \in ReadSamples(rs)
  PROVE  /\ Len(samples) = Len(rs) /\ DOMAIN samples = 1 .. Len(rs)
         /\ \A i, j \in 1 .. Len(rs) : i <= j => samples[i].end <= samples[j].end
         /\ \E p \in [1 .. Len(rs) -> 1 .. Len(rs)] :
              /\ \A i, j \in 1 .. Len(rs) : p[i] = p[j] => i = j
              /\ \A k \in 1 .. Len(rs) : \E i \in 1 .. Len(rs) : p[i] = k
              /\ \A i \in 1 .. Len(rs) : samples[i] = Sample(rs[p[i]])
  <1>1. PICK n \in Nat : n = Len(rs) /\ DOMAIN rs = 1 .. n
    OBVIOUS
  <1> DEFINE key == [i \in DOMAIN rs |-> rs[i].end]
  <1>2. PICK p \in Orders(key, DOMAIN rs) : samples = [i \in DOMAIN rs |-> Sample(rs[p[i]])]
    BY DEF ReadSamples
  <1>3. Cardinality(DOMAIN rs) = n
    <2>1. Cardinality(1 .. n) = n
      BY FS_Interval
    <2> QED
      BY <1>1, <2>1
  <1>4. \A i \in 1 .. n : rs[i] \in TimedRow /\ key[i] = rs[i].end
    BY <1>1
  <1> HIDE DEF key
  <1>5. /\ p \in [1 .. n -> 1 .. n]
        /\ \A i, j \in 1 .. n : p[i] = p[j] => i = j
        /\ \A x \in 1 .. n : \E i \in 1 .. n : p[i] = x
        /\ \A i, j \in 1 .. n : i < j => key[p[i]] <= key[p[j]]
    <2>1. PICK I : I = 1 .. n
      OBVIOUS
    <2>2. p \in Orders(key, I)
      BY <1>1, <1>2, <2>1
    <2>3. Cardinality(I) = n
      BY <1>1, <1>3, <2>1
    <2>4. GoesThrough(p, n, key, I)
      BY <2>2, <2>3, OrderFacts
    <2> QED
      BY <2>1, <2>4 DEF GoesThrough
  <1>6. ASSUME NEW i \in 1 .. n
        PROVE  /\ samples[i] = Sample(rs[p[i]]) /\ p[i] \in 1 .. n
               /\ samples[i].end = key[p[i]] /\ samples[i].end \in Nat
    <2>1. samples[i] = Sample(rs[p[i]]) /\ p[i] \in 1 .. n
      BY <1>1, <1>2, <1>5
    <2>2. rs[p[i]] \in TimedRow /\ key[p[i]] = rs[p[i]].end
      BY <1>4, <2>1
    <2>3. Sample(rs[p[i]]).end = rs[p[i]].end /\ rs[p[i]].end \in Nat
      BY <2>2, SampleFacts
    <2> QED
      BY <2>1, <2>2, <2>3
  <1>7. samples = [i \in 1 .. n |-> samples[i]]
    BY <1>1, <1>2
  <1>8. Len(samples) = n /\ DOMAIN samples = 1 .. n
    BY <1>7, LengthOf
  <1>9. \A i, j \in 1 .. n : i <= j => samples[i].end <= samples[j].end
    <2> SUFFICES ASSUME NEW i \in 1 .. n, NEW j \in 1 .. n, i <= j PROVE samples[i].end <= samples[j].end
      OBVIOUS
    <2>1. CASE i = j
      BY <1>6, <2>1
    <2>2. CASE i < j
      BY <1>5, <1>6, <2>2
    <2> QED
      BY <2>1, <2>2
  <1>10. \E q \in [1 .. n -> 1 .. n] :
            /\ \A i, j \in 1 .. n : q[i] = q[j] => i = j
            /\ \A k \in 1 .. n : \E i \in 1 .. n : q[i] = k
            /\ \A i \in 1 .. n : samples[i] = Sample(rs[q[i]])
    <2>1. \A i \in 1 .. n : samples[i] = Sample(rs[p[i]])
      BY <1>6
    <2> QED
      BY <1>5, <2>1
  <1> QED
    BY <1>1, <1>8, <1>9, <1>10, Zenon

\* s is a sequence of c numbers, none less than one before it.
Ascending(s, c) ==
  /\ Len(s) = c /\ DOMAIN s = 1 .. c /\ s \in Seq(Nat)
  /\ \A i, j \in 1 .. c : i <= j => s[i] <= s[j]

\* g finds different successful rows with the latencies in sorted.
PicksRows(g, rs, sorted, c) ==
  /\ g \in [1 .. c -> 1 .. Len(rs)]
  /\ \A i, j \in 1 .. c : g[i] = g[j] => i = j
  /\ \A i \in 1 .. c : rs[g[i]].ok /\ LatencyUS(rs[g[i]]) = sorted[i]

\* Every successful row's latency is in sorted.
ShowsRows(rs, sorted, c) ==
  \A k \in 1 .. Len(rs) : rs[k].ok => \E i \in 1 .. c : sorted[i] = LatencyUS(rs[k])

\* The sorted latencies are those of the successful rows, each once.
LEMMA LatenciesFacts ==
  ASSUME NEW rs \in Seq(TimedRow), NEW samples \in ReadSamples(rs),
         NEW sorted \in SuccessLatencies(samples)
  PROVE  \E c \in Nat : /\ Ascending(sorted, c) /\ ShowsRows(rs, sorted, c)
                         /\ \E g : PicksRows(g, rs, sorted, c)
  <1>1. PICK n \in Nat : n = Len(rs) /\ DOMAIN rs = 1 .. n
    OBVIOUS
  <1>2. DOMAIN samples = 1 .. n
    BY <1>1, SamplesFacts
  <1>3. PICK p \in [1 .. n -> 1 .. n] :
          /\ \A i, j \in 1 .. n : p[i] = p[j] => i = j
          /\ \A k \in 1 .. n : \E i \in 1 .. n : p[i] = k
          /\ \A i \in 1 .. n : samples[i] = Sample(rs[p[i]])
    <2>1. \E p \in [1 .. Len(rs) -> 1 .. Len(rs)] :
            /\ \A i, j \in 1 .. Len(rs) : p[i] = p[j] => i = j
            /\ \A k \in 1 .. Len(rs) : \E i \in 1 .. Len(rs) : p[i] = k
            /\ \A i \in 1 .. Len(rs) : samples[i] = Sample(rs[p[i]])
      BY SamplesFacts
    <2> QED
      BY <1>1, <2>1, Zenon
  <1>4. PICK I : I = Successes(samples)
    OBVIOUS
  <1>5. I \in SUBSET (1 .. n) /\ \A i \in 1 .. n : i \in I <=> samples[i].ok
    BY <1>2, <1>4 DEF Successes
  <1>6. Cardinality(I) \in Nat
    BY <1>5, SegmentFinite
  <1>7. PICK c \in Nat : c = Cardinality(I)
    BY <1>6
  <1>8. PICK key : key = Latencies(samples)
    OBVIOUS
  <1>9. \A i \in 1 .. n : key[i] = samples[i].latency
    BY <1>2, <1>8 DEF Latencies
  <1>10. PICK q \in Orders(key, I) : sorted = [i \in DOMAIN q |-> samples[q[i]].latency]
    BY <1>4, <1>8 DEF SuccessLatencies
  <1>11. /\ q \in [1 .. c -> I] /\ DOMAIN q = 1 .. c
         /\ \A i, j \in 1 .. c : q[i] = q[j] => i = j
         /\ \A x \in I : \E i \in 1 .. c : q[i] = x
         /\ \A i, j \in 1 .. c : i < j => key[q[i]] <= key[q[j]]
    <2>1. Cardinality(I) = c
      BY <1>7
    <2>2. q \in Orders(key, I)
      BY <1>10
    <2>3. GoesThrough(q, c, key, I)
      BY <2>1, <2>2, OrderFacts
    <2> QED
      BY <2>3 DEF GoesThrough
  <1>12. sorted = [i \in 1 .. c |-> samples[q[i]].latency]
    BY <1>10, <1>11
  <1> DEFINE g == [i \in 1 .. c |-> p[q[i]]]
  <1>13. ASSUME NEW i \in 1 .. c
         PROVE  /\ g[i] = p[q[i]] /\ q[i] \in 1 .. n /\ g[i] \in 1 .. n
                /\ rs[g[i]].ok /\ LatencyUS(rs[g[i]]) = sorted[i]
                /\ sorted[i] \in Nat /\ sorted[i] = key[q[i]]
    <2>1. q[i] \in I /\ q[i] \in 1 .. n /\ g[i] = p[q[i]]
      BY <1>5, <1>11
    <2>2. g[i] \in 1 .. n /\ samples[q[i]] = Sample(rs[g[i]])
      BY <1>3, <2>1
    <2>3. sorted[i] = samples[q[i]].latency /\ samples[q[i]].ok
      BY <1>5, <1>12, <2>1
    <2>4. rs[g[i]] \in TimedRow
      BY <1>1, <2>2
    <2>5. /\ Sample(rs[g[i]]).ok = rs[g[i]].ok
          /\ Sample(rs[g[i]]).latency = LatencyUS(rs[g[i]]) /\ LatencyUS(rs[g[i]]) \in Nat
      BY <2>4, SampleFacts
    <2>6. key[q[i]] = samples[q[i]].latency
      BY <1>9, <2>1
    <2> HIDE DEF g
    <2> QED
      BY <2>1, <2>2, <2>3, <2>5, <2>6
  <1>14. g \in [1 .. c -> 1 .. n]
    BY <1>13
  <1>15. ASSUME NEW i \in 1 .. c, NEW j \in 1 .. c, g[i] = g[j] PROVE i = j
    <2>1. p[q[i]] = p[q[j]] /\ q[i] \in 1 .. n /\ q[j] \in 1 .. n
      BY <1>13, <1>15
    <2> QED
      BY <1>3, <1>11, <2>1
  <1> HIDE DEF g
  <1>16. ASSUME NEW i \in 1 .. c, NEW j \in 1 .. c, i <= j PROVE sorted[i] <= sorted[j]
    <2>1. CASE i = j
      BY <1>13, <2>1
    <2>2. CASE i < j
      BY <1>11, <1>13, <2>2
    <2> QED
      BY <1>16, <2>1, <2>2
  <1>17. Len(sorted) = c /\ DOMAIN sorted = 1 .. c /\ sorted \in Seq(Nat)
    <2>1. sorted = [i \in 1 .. c |-> sorted[i]]
      BY <1>12
    <2>2. sorted \in [1 .. c -> Nat]
      BY <1>13, <2>1
    <2>3. sorted \in Seq(Nat)
      BY <2>2, SeqDef
    <2> QED
      BY <2>1, <2>3, LengthOf
  <1>18. \A i \in 1 .. c : rs[g[i]].ok /\ LatencyUS(rs[g[i]]) = sorted[i]
    BY <1>13
  <1>19. PicksRows(g, rs, sorted, c)
    BY <1>1, <1>14, <1>15, <1>18 DEF PicksRows
  <1>20. Ascending(sorted, c)
    BY <1>16, <1>17 DEF Ascending
  <1>21. ASSUME NEW k \in 1 .. n, rs[k].ok
         PROVE  \E i \in 1 .. c : sorted[i] = LatencyUS(rs[k])
    <2>1. PICK j \in 1 .. n : p[j] = k
      BY <1>3
    <2>2. rs[k] \in TimedRow /\ samples[j] = Sample(rs[k])
      BY <1>1, <1>3, <2>1
    <2>3. samples[j].ok /\ samples[j].latency = LatencyUS(rs[k])
      BY <1>21, <2>2, SampleFacts
    <2>4. PICK i \in 1 .. c : q[i] = j
      BY <1>5, <1>11, <2>3
    <2> QED
      BY <1>12, <2>3, <2>4
  <1>22. ShowsRows(rs, sorted, c)
    BY <1>1, <1>21 DEF ShowsRows
  <1> QED
    BY <1>19, <1>20, <1>22

-----------------------------------------------------------------------------
(* The theorems                                                            *)

\* What a report was made of: rows that were in the file, and metadata of this run
\* after a normal end, of an earlier one or none after a failed one.
LEMMA ReportFacts ==
  ASSUME MInv, report # NoReport
  PROVE  /\ exit # "running" /\ csv \in Seq(Row)
         /\ \E n \in 1 .. Len(csv) :
              /\ SubSeq(csv, 1, n) \in Seq(TimedRow) /\ Len(SubSeq(csv, 1, n)) = n
              /\ \E samples \in ReadSamples(SubSeq(csv, 1, n)) :
                   \E sorted \in SuccessLatencies(samples) :
                     \E m \in ReadMeta : report = Analyze(samples, sorted, m.startedAt, m.kill.at)
  <1>1. /\ exit # "running"
        /\ \E n \in 1 .. Len(csv) :
             \E samples \in ReadSamples(SubSeq(csv, 1, n)) :
               \E sorted \in SuccessLatencies(samples) :
                 \E m \in ReadMeta : report = Analyze(samples, sorted, m.startedAt, m.kill.at)
    BY DEF MInv, ReportGenuine
  <1>2. csv \in Seq(Row) /\ rows \in Seq(Row)
    BY DEF MInv, LInv, TypeInv, TypeOK
  <1>3. \A i \in 1 .. Len(csv) : csv[i] \in TimedRow
    <2>1. \A i \in 1 .. Len(csv) : i \in DOMAIN Sent /\ csv[i] = Sent[i] /\ csv[i] \in Row
      BY <1>2 DEF Sent
    <2> HIDE DEF Sent
    <2> QED
      BY <2>1 DEF MInv, TimesOrdered, TimedRow
  <1>4. ASSUME NEW n \in 1 .. Len(csv)
        PROVE  SubSeq(csv, 1, n) \in Seq(TimedRow) /\ Len(SubSeq(csv, 1, n)) = n
    <2>1. n \in Int /\ 1 <= n /\ \A i \in 1 .. n : csv[i] \in TimedRow
      BY <1>2, <1>3
    <2>2. /\ SubSeq(csv, 1, n) \in Seq(TimedRow)
          /\ Len(SubSeq(csv, 1, n)) = IF 1 <= n THEN n - 1 + 1 ELSE 0
      BY <2>1, SubSeqProperties
    <2> QED
      BY <2>1, <2>2
  <1> QED
    BY <1>1, <1>2, <1>4

\* The end of the failover that the script prints is the earliest end of a
\* successful operation at or after the kill, for every order of the rows in the
\* file and every order in which sorting leaves equal ends.
THEOREM FailoverEndsEarliest == MSpec => []FailoverEndEarliest
  <1>1. MInv => FailoverEndEarliest
    <2> SUFFICES ASSUME MInv, report # NoReport, meta.kill.at > 0
                 PROVE  IF Ends = {} THEN report.failoverEnd = 0
                        ELSE report.failoverEnd \in Ends /\ \A e \in Ends : report.failoverEnd <= e
      BY DEF FailoverEndEarliest
    <2>1. PICK n \in 1 .. Len(csv) :
            /\ SubSeq(csv, 1, n) \in Seq(TimedRow) /\ Len(SubSeq(csv, 1, n)) = n
            /\ \E samples \in ReadSamples(SubSeq(csv, 1, n)) :
                 \E sorted \in SuccessLatencies(samples) :
                   \E m \in ReadMeta : report = Analyze(samples, sorted, m.startedAt, m.kill.at)
      BY ReportFacts
    <2>2. PICK rs \in Seq(TimedRow) : rs = SubSeq(csv, 1, n)
      BY <2>1
    <2>s. PICK samples \in ReadSamples(rs) :
            \E sorted \in SuccessLatencies(samples) :
              \E m \in ReadMeta : report = Analyze(samples, sorted, m.startedAt, m.kill.at)
      BY <2>1, <2>2
    <2>3. PICK sorted \in SuccessLatencies(samples) :
            \E m \in ReadMeta : report = Analyze(samples, sorted, m.startedAt, m.kill.at)
      BY <2>s
    <2>m. PICK md \in ReadMeta : report = Analyze(samples, sorted, md.startedAt, md.kill.at)
      BY <2>3
    <2>4. n \in Nat /\ Len(rs) = n /\ DOMAIN rs = 1 .. n
      BY <2>1, <2>2
    <2>5. PICK k : k = meta.kill.at
      OBVIOUS
    <2>6. md.kill.at = k /\ k > 0 /\ k \in Nat
      <3>1. exit = "ok"
        BY DEF MInv, TimesOrdered, NoMeta, NoKill
      <3>3. meta.kill.at \in Nat
        BY DEF MInv, LInv, TypeInv, TypeOK, Meta, KillResult
      <3> QED
        BY <2>5, <3>1, <3>3 DEF ReadMeta
    <2>7. /\ Len(samples) = n /\ DOMAIN samples = 1 .. n
          /\ \A i, j \in 1 .. n : i <= j => samples[i].end <= samples[j].end
      BY <2>4, SamplesFacts
    <2>8. PICK p \in [1 .. n -> 1 .. n] :
            /\ \A i \in 1 .. n : \E j \in 1 .. n : p[j] = i
            /\ \A i \in 1 .. n : samples[i] = Sample(rs[p[i]])
      <3>1. \E q \in [1 .. Len(rs) -> 1 .. Len(rs)] :
              /\ \A i, j \in 1 .. Len(rs) : q[i] = q[j] => i = j
              /\ \A i \in 1 .. Len(rs) : \E j \in 1 .. Len(rs) : q[j] = i
              /\ \A i \in 1 .. Len(rs) : samples[i] = Sample(rs[q[i]])
        BY SamplesFacts
      <3> QED
        BY <2>4, <3>1, Zenon
    <2>9. \A i \in 1 .. n : /\ p[i] \in 1 .. n /\ rs[p[i]] \in TimedRow
                            /\ samples[i].end = rs[p[i]].end /\ samples[i].ok = rs[p[i]].ok
                            /\ samples[i].end \in Nat
      <3> SUFFICES ASSUME NEW i \in 1 .. n
                   PROVE  /\ p[i] \in 1 .. n /\ rs[p[i]] \in TimedRow
                          /\ samples[i].end = rs[p[i]].end /\ samples[i].ok = rs[p[i]].ok
                          /\ samples[i].end \in Nat
        OBVIOUS
      <3>0. p[i] \in 1 .. n
        OBVIOUS
      <3>1. p[i] \in 1 .. n /\ rs[p[i]] \in TimedRow /\ samples[i] = Sample(rs[p[i]])
        <4>1. \A m \in 1 .. n : rs[m] \in TimedRow
          BY <2>4
        <4> QED
          BY <2>8, <3>0, <4>1, Zenon
      <3>2. PICK r \in TimedRow : r = rs[p[i]]
        BY <3>1
      <3>3. Sample(r).end = r.end /\ Sample(r).ok = r.ok /\ Sample(r).end \in Nat
        BY <3>2, SampleFacts
      <3> QED
        BY <3>1, <3>2, <3>3
    <2>10. PICK after : after = {i \in Successes(samples) : samples[i].end >= k}
      OBVIOUS
    <2>11. report.failoverEnd =
             IF after = {} THEN 0 ELSE samples[CHOOSE i \in after : \A j \in after : i <= j].end
      <3>1. report.failoverEnd = FirstSuccessfulCompletionAfter(samples, k)
        BY <2>m, <2>6 DEF Analyze
      <3> QED
        BY <2>10, <3>1 DEF FirstSuccessfulCompletionAfter
    <2>12. report.rows = n
      BY <2>7, <2>m DEF Analyze
    <2>13. Rows = {rs[i] : i \in 1 .. n}
      BY <2>2, <2>4, <2>12 DEF Rows, Range
    <2>14. after \subseteq 1 .. n /\ \A i \in 1 .. n : i \in after <=> samples[i].ok /\ samples[i].end >= k
      BY <2>7, <2>10 DEF Successes
    <2>15. \A i \in after : samples[i].end \in Ends
      <3> SUFFICES ASSUME NEW i \in after PROVE samples[i].end \in Ends
        OBVIOUS
      <3>1. i \in 1 .. n /\ rs[p[i]] \in Rows /\ rs[p[i]].ok /\ rs[p[i]].end >= k
            /\ samples[i].end = rs[p[i]].end
        BY <2>9, <2>13, <2>14
      <3> QED
        BY <2>5, <3>1 DEF Ends
    <2>16. \A e \in Ends : \E i \in after : samples[i].end = e
      <3> SUFFICES ASSUME NEW e \in Ends PROVE \E i \in after : samples[i].end = e
        OBVIOUS
      <3>1. PICK r \in Rows : r.ok /\ r.end >= k /\ e = r.end
        BY <2>5 DEF Ends
      <3>2. PICK m \in 1 .. n : r = rs[m]
        BY <2>13
      <3>3. PICK i \in 1 .. n : p[i] = m
        BY <2>8
      <3>4. samples[i].ok /\ samples[i].end = e
        BY <2>9, <3>1, <3>2, <3>3
      <3> QED
        BY <2>14, <3>1, <3>4
    <2>17. CASE after = {}
      BY <2>11, <2>16, <2>17
    <2>18. CASE after # {}
      <3>1. after \in SUBSET Nat
        BY <2>4, <2>14
      <3>2. PICK m : m = CHOOSE i \in after : \A j \in after : i <= j
        OBVIOUS
      <3>3. m \in after /\ \A j \in after : m <= j
        BY <2>18, <3>1, <3>2, LeastOf
      <3>4. report.failoverEnd = samples[m].end
        BY <2>11, <2>18, <3>2
      <3>5. ASSUME NEW e \in Ends PROVE samples[m].end <= e
        <4>1. PICK i \in after : samples[i].end = e
          BY <2>16
        <4>2. m \in 1 .. n /\ i \in 1 .. n /\ m <= i
          BY <2>14, <3>3, <4>1
        <4> QED
          BY <2>7, <4>1, <4>2
      <3> QED
        BY <2>15, <3>3, <3>4, <3>5
    <2> QED
      BY <2>17, <2>18
  <1> QED
    BY <1>1, MInvariance, PTL

\* The times of a sample.
LEMMA SampleBounds ==
  ASSUME NEW rs \in Seq(TimedRow), NEW samples \in ReadSamples(rs), NEW i \in 1 .. Len(rs)
  PROVE  /\ samples[i].start \in Nat /\ samples[i].end \in Nat
         /\ StartNS <= samples[i].start /\ samples[i].start <= samples[i].end
  <1>1. PICK p \in [1 .. Len(rs) -> 1 .. Len(rs)] :
          /\ \A k, j \in 1 .. Len(rs) : p[k] = p[j] => k = j
          /\ \A k \in 1 .. Len(rs) : \E j \in 1 .. Len(rs) : p[j] = k
          /\ \A k \in 1 .. Len(rs) : samples[k] = Sample(rs[p[k]])
    BY SamplesFacts
  <1>2. p[i] \in 1 .. Len(rs)
    OBVIOUS
  <1>3. PICK r \in TimedRow : r = rs[p[i]]
    BY <1>2
  <1>4. samples[i] = Sample(r)
    BY <1>1, <1>3
  <1>5. /\ Sample(r).start = r.start /\ Sample(r).end = r.end
        /\ r.start \in Nat /\ r.end \in Nat
        /\ r.start <= r.end /\ StartNS <= r.start
    BY <1>3, SampleFacts
  <1> QED
    BY <1>4, <1>5

-----------------------------------------------------------------------------
(* The percentiles                                                         *)

\* g maps the numbers from a to b to different elements of S.
PicksFrom(g, a, b, S) ==
  /\ \A i \in a .. b : g[i] \in S
  /\ \A i, j \in a .. b : g[i] = g[j] => i = j

\* The elements that are picked are at most as many as there are.
LEMMA CountAtLeast ==
  ASSUME NEW n \in Nat, NEW S \in SUBSET (1 .. n), NEW a \in Nat, NEW b \in Nat, a <= b + 1,
         NEW g, PicksFrom(g, a, b, S)
  PROVE  Cardinality(S) \in Nat /\ Cardinality(S) >= b - a + 1
  <1>1. IsFiniteSet(S)
    <2>1. IsFiniteSet(1 .. n)
      BY FS_Interval
    <2> QED
      BY <2>1, FS_Subset
  <1>2. IsFiniteSet(a .. b) /\ Cardinality(a .. b) = b - a + 1
    BY FS_Interval
  <1> DEFINE h == [i \in a .. b |-> g[i]]
  <1>3. h \in Injection(a .. b, S)
    BY DEF PicksFrom, Injection, IsInjective
  <1>4. Cardinality(a .. b) <= Cardinality(S)
    BY <1>1, <1>2, <1>3, FS_Injection
  <1>5. Cardinality(S) \in Nat
    BY <1>1, FS_CardinalityType
  <1> QED
    BY <1>2, <1>4, <1>5

\* What percentile computes with: the hundredfold rank, rounded down and up.
RanksOf(p, c, pos, lo, hi) ==
  pos = p * (c - 1) /\ lo = pos \div 100 /\ hi = (pos + 99) \div 100

\* The ranks lo and hi, counted from 0 to c - 1, are at most 99 hundredths away
\* from rank pos/100, and v/100 is between the values at the two ranks.
Between(s, c, pos, lo, hi, v) ==
  /\ lo \in 0 .. c - 1 /\ hi \in 0 .. c - 1
  /\ 100 * lo >= pos - 99
  /\ 100 * (c - 1 - hi) >= 100 * (c - 1) - pos - 99
  /\ \A i \in 1 .. lo + 1 : 100 * s[i] <= v
  /\ \A i \in hi + 1 .. c : 100 * s[i] >= v

\* What interpolating between two ranks gives: rank lo is p percent of the way
\* from 0 to c - 1 rounded down, rank hi the same rounded up, and the result lies
\* between the values at the two ranks.
LEMMA PercentileBetween ==
  ASSUME NEW c \in Nat \ {0}, NEW sorted, Ascending(sorted, c),
         NEW p \in {50, 95, 99},
         NEW pos, NEW lo, NEW hi, RanksOf(p, c, pos, lo, hi)
  PROVE  Between(sorted, c, pos, lo, hi, Percentile(sorted, p))
  <1>1. pos \in Nat /\ pos = p * (c - 1) /\ pos <= 99 * (c - 1)
    BY DEF RanksOf
  <1>2. lo \in Nat /\ lo = pos \div 100 /\ 100 * lo <= pos /\ pos <= 100 * lo + 99
    BY <1>1 DEF RanksOf
  <1>3. hi \in Nat /\ hi = (pos + 99) \div 100 /\ 100 * hi <= pos + 99 /\ pos <= 100 * hi
    BY <1>1 DEF RanksOf
  <1>4. PICK k \in 0 .. 99 : k = pos % 100
    BY <1>1
  <1>5. lo <= hi /\ hi <= c - 1
    BY <1>1, <1>2, <1>3
  <1>6. PICK a, b \in Nat : a = sorted[lo + 1] /\ b = sorted[hi + 1] /\ a <= b
    <2>1. lo + 1 \in 1 .. c /\ hi + 1 \in 1 .. c /\ lo + 1 <= hi + 1
      BY <1>2, <1>3, <1>5
    <2> QED
      BY <2>1 DEF Ascending
  <1>7. PICK d \in Nat : d = b - a
    BY <1>6
  <1>8. PICK e \in Nat : e = d * k /\ e <= 100 * d
    OBVIOUS
  <1>9. Percentile(sorted, p) = 100 * a + e
    <2>1. sorted # <<>> /\ Len(sorted) = c
      BY DEF Ascending
    <2>2. Percentile(sorted, p) = 100 * sorted[lo + 1] + (sorted[hi + 1] - sorted[lo + 1]) * k
      BY <1>1, <1>2, <1>3, <1>4, <2>1 DEF Percentile
    <2> QED
      BY <1>6, <1>7, <1>8, <2>2
  <1>10. ASSUME NEW i \in 1 .. lo + 1 PROVE 100 * sorted[i] <= 100 * a + e
    <2>1. i \in 1 .. c /\ lo + 1 \in 1 .. c /\ i <= lo + 1
      BY <1>2, <1>3, <1>5
    <2>2. sorted[i] <= a /\ sorted[i] \in Nat
      BY <1>6, <2>1 DEF Ascending
    <2> QED
      BY <2>2
  <1>11. ASSUME NEW i \in hi + 1 .. c PROVE 100 * sorted[i] >= 100 * a + e
    <2>1. i \in 1 .. c /\ hi + 1 \in 1 .. c /\ hi + 1 <= i
      BY <1>2, <1>3, <1>5
    <2>2. b <= sorted[i] /\ sorted[i] \in Nat
      BY <1>6, <2>1 DEF Ascending
    <2> QED
      BY <1>7, <1>8, <2>2
  <1>12. lo \in 0 .. c - 1 /\ hi \in 0 .. c - 1
    BY <1>2, <1>3, <1>5
  <1>13. 100 * lo >= pos - 99 /\ 100 * (c - 1 - hi) >= 100 * (c - 1) - pos - 99
    BY <1>1, <1>2, <1>3
  <1>14. \A i \in 1 .. lo + 1 : 100 * sorted[i] <= Percentile(sorted, p)
    BY <1>9, <1>10
  <1>15. \A i \in hi + 1 .. c : 100 * sorted[i] >= Percentile(sorted, p)
    BY <1>9, <1>11
  <1> QED
    BY <1>12, <1>13, <1>14, <1>15 DEF Between

\* Every percentile that the script prints has enough successful operations at or
\* below it and enough at or above it, however many there are.
THEOREM PercentilesHaveRank == MSpec => []PercentilesRank
  <1>1. MInv => PercentilesRank
    <2> SUFFICES ASSUME MInv, report # NoReport, report.successes > 0, NEW p \in {50, 95, 99}
                 PROVE  /\ 100 * (AtMost(report.percentiles[p]) - 1) >= p * (report.successes - 1) - 99
                        /\ 100 * (AtLeast(report.percentiles[p]) - 1)
                             >= (100 - p) * (report.successes - 1) - 99
      BY DEF PercentilesRank
    <2>1. PICK n \in 1 .. Len(csv) :
            /\ SubSeq(csv, 1, n) \in Seq(TimedRow) /\ Len(SubSeq(csv, 1, n)) = n
            /\ \E samples \in ReadSamples(SubSeq(csv, 1, n)) :
                 \E sorted \in SuccessLatencies(samples) :
                   \E m \in ReadMeta : report = Analyze(samples, sorted, m.startedAt, m.kill.at)
      BY ReportFacts
    <2>2. PICK rs \in Seq(TimedRow) : rs = SubSeq(csv, 1, n)
      BY <2>1
    <2>3. PICK samples \in ReadSamples(rs) :
            \E sorted \in SuccessLatencies(samples) :
              \E m \in ReadMeta : report = Analyze(samples, sorted, m.startedAt, m.kill.at)
      BY <2>1, <2>2
    <2>4. PICK sorted \in SuccessLatencies(samples) :
            \E m \in ReadMeta : report = Analyze(samples, sorted, m.startedAt, m.kill.at)
      BY <2>3
    <2>m. PICK m \in ReadMeta : report = Analyze(samples, sorted, m.startedAt, m.kill.at)
      BY <2>4
    <2>5. n \in Nat /\ Len(rs) = n /\ DOMAIN rs = 1 .. n
      BY <2>1, <2>2
    <2>6. PICK c \in Nat : Ascending(sorted, c) /\ \E g : PicksRows(g, rs, sorted, c)
      BY LatenciesFacts
    <2>7. PICK g : PicksRows(g, rs, sorted, c)
      BY <2>6
    <2>8. report.successes = c /\ report.rows = n /\ report.percentiles[p] = Percentile(sorted, p)
      <3>1. Len(samples) = n
        BY <2>5, SamplesFacts
      <3> QED
        BY <2>6, <2>m, <3>1 DEF Analyze, Ascending
    <2>9. c \in Nat \ {0}
      BY <2>8
    <2>10. PICK v : v = Percentile(sorted, p)
      OBVIOUS
    <2>r. PICK pos, lo, hi : RanksOf(p, c, pos, lo, hi)
      BY DEF RanksOf
    <2>11. /\ lo \in 0 .. c - 1 /\ hi \in 0 .. c - 1
           /\ 100 * lo >= pos - 99
           /\ 100 * (c - 1 - hi) >= 100 * (c - 1) - pos - 99
           /\ \A i \in 1 .. lo + 1 : 100 * sorted[i] <= v
           /\ \A i \in hi + 1 .. c : 100 * sorted[i] >= v
      <3>1. Ascending(sorted, c)
        BY <2>6
      <3>2. Between(sorted, c, pos, lo, hi, Percentile(sorted, p))
        BY <2>9, <2>r, <3>1, PercentileBetween
      <3> QED
        BY <2>10, <3>2 DEF Between
    <2>12. PICK below : below = {i \in 1 .. n : rs[i].ok /\ 100 * LatencyUS(rs[i]) <= v}
      OBVIOUS
    <2>13. PICK above : above = {i \in 1 .. n : rs[i].ok /\ 100 * LatencyUS(rs[i]) >= v}
      OBVIOUS
    <2>14. AtMost(v) = Cardinality(below) /\ AtLeast(v) = Cardinality(above)
      BY <2>2, <2>5, <2>8, <2>12, <2>13 DEF AtMost, AtLeast, Count
    <2>15. Cardinality(below) \in Nat /\ Cardinality(below) >= lo + 1
      <3>1. ASSUME NEW i \in 1 .. lo + 1 PROVE g[i] \in below
        <4>1. i \in 1 .. c
          BY <2>11
        <4>2. g[i] \in 1 .. n /\ rs[g[i]].ok /\ LatencyUS(rs[g[i]]) = sorted[i] /\ 100 * sorted[i] <= v
          BY <2>5, <2>7, <2>11, <3>1, <4>1 DEF PicksRows
        <4> QED
          BY <2>12, <4>2
      <3>2. \A i, j \in 1 .. lo + 1 : g[i] = g[j] => i = j
        <4>1. \A i \in 1 .. lo + 1 : i \in 1 .. c
          BY <2>11
        <4> QED
          BY <2>7, <4>1 DEF PicksRows
      <3>3. below \in SUBSET (1 .. n)
        BY <2>12
      <3>4. PICK b \in Nat : b = lo + 1
        BY <2>11
      <3>a. PICK a \in Nat : a = 1
        OBVIOUS
      <3>5. PicksFrom(g, a, b, below)
        BY <3>1, <3>2, <3>4, <3>a DEF PicksFrom
      <3>6. a <= b + 1
        BY <3>4, <3>a
      <3>7. Cardinality(below) \in Nat /\ Cardinality(below) >= b - a + 1
        BY <2>5, <3>3, <3>4, <3>5, <3>6, CountAtLeast
      <3> QED
        BY <2>11, <3>4, <3>a, <3>7
    <2>16. Cardinality(above) \in Nat /\ Cardinality(above) >= c - hi
      <3>1. ASSUME NEW i \in hi + 1 .. c PROVE g[i] \in above
        <4>1. i \in 1 .. c
          BY <2>11
        <4>2. g[i] \in 1 .. n /\ rs[g[i]].ok /\ LatencyUS(rs[g[i]]) = sorted[i] /\ 100 * sorted[i] >= v
          BY <2>5, <2>7, <2>11, <3>1, <4>1 DEF PicksRows
        <4> QED
          BY <2>13, <4>2
      <3>2. \A i, j \in hi + 1 .. c : g[i] = g[j] => i = j
        <4>1. \A i \in hi + 1 .. c : i \in 1 .. c
          BY <2>11
        <4> QED
          BY <2>7, <4>1 DEF PicksRows
      <3>3. above \in SUBSET (1 .. n)
        BY <2>13
      <3>4. PICK a \in Nat : a = hi + 1 /\ a <= c + 1
        BY <2>11
      <3>5. PicksFrom(g, a, c, above)
        BY <3>1, <3>2, <3>4 DEF PicksFrom
      <3>6. a <= c + 1
        BY <3>4
      <3>7. Cardinality(above) \in Nat /\ Cardinality(above) >= c - a + 1
        BY <2>5, <3>3, <3>4, <3>5, <3>6, CountAtLeast
      <3> QED
        BY <2>11, <3>4, <3>7
    <2>17. pos \in Int /\ (100 - p) * (c - 1) = 100 * (c - 1) - pos
      BY <2>9, <2>r DEF RanksOf
    <2>18. /\ 100 * (Cardinality(below) - 1) >= pos - 99
           /\ 100 * (Cardinality(above) - 1) >= 100 * (c - 1) - pos - 99
      BY <2>11, <2>15, <2>16, <2>17
    <2> QED
      BY <2>8, <2>10, <2>14, <2>17, <2>18, <2>r DEF RanksOf
  <1> QED
    BY <1>1, MInvariance, PTL

-----------------------------------------------------------------------------
(* The diagrams                                                            *)

\* The samples of a report, and the metadata it was made with.
MadeOf(rs, samples, sorted, m) ==
  /\ rs \in Seq(TimedRow) /\ Len(rs) > 0
  /\ samples \in ReadSamples(rs) /\ sorted \in SuccessLatencies(samples)
  /\ Rows = {rs[i] : i \in 1 .. Len(rs)}
  /\ m \in Meta
  /\ m.startedAt = 0 => m.kill.at = 0
  /\ m.startedAt <= StartNS /\ (m.kill.at > 0 => m.startedAt <= m.kill.at)
  /\ report = Analyze(samples, sorted, m.startedAt, m.kill.at)

\* Metadata of this run or an earlier one: the run was started no later than this
\* one, and the kill came after the start.
LEMMA MetaFacts ==
  ASSUME MInv, NEW m \in ReadMeta
  PROVE  /\ m \in Meta /\ (m.startedAt = 0 => m.kill.at = 0)
         /\ m.startedAt <= StartNS /\ (m.kill.at > 0 => m.startedAt <= m.kill.at)
  <1>1. StartNS \in Nat \ {0}
    BY ClockAssumption
  <1>2. CASE exit = "ok"
    <2>1. m = meta /\ meta \in Meta /\ meta = TheMeta
      BY <1>2 DEF ReadMeta, MInv, LInv, TypeInv, TypeOK, Core, Ending
    <2>2. m.startedAt = StartNS /\ (m.kill = kill \/ m.kill = NoKill)
      BY <2>1 DEF TheMeta
    <2>3. kill.at > 0 => StartNS <= kill.at
      BY DEF MInv, TimesOrdered
    <2> QED
      BY <1>1, <2>1, <2>2, <2>3 DEF NoKill
  <1>3. CASE exit # "ok" /\ m = NoMeta
    BY <1>1, <1>3 DEF NoMeta, NoKill, Meta, KillResult
  <1>4. CASE exit # "ok" /\ m \in Earlier
    <2>1. /\ m \in Meta /\ 0 < m.startedAt /\ m.startedAt <= StartNS
          /\ m.kill.at = 0 \/ m.startedAt <= m.kill.at
      BY <1>4, EarlierAssumption
    <2>2. m.startedAt \in Nat /\ m.kill.at \in Nat
      BY <2>1 DEF Meta, KillResult
    <2> QED
      BY <2>1, <2>2
  <1> QED
    BY <1>2, <1>3, <1>4 DEF ReadMeta

LEMMA ReportMade ==
  ASSUME MInv, report # NoReport
  PROVE  \E rs, samples, sorted, m : MadeOf(rs, samples, sorted, m)
  <1>1. PICK n \in 1 .. Len(csv) :
          /\ SubSeq(csv, 1, n) \in Seq(TimedRow) /\ Len(SubSeq(csv, 1, n)) = n
          /\ \E samples \in ReadSamples(SubSeq(csv, 1, n)) :
               \E sorted \in SuccessLatencies(samples) :
                 \E m \in ReadMeta : report = Analyze(samples, sorted, m.startedAt, m.kill.at)
    BY ReportFacts
  <1>2. PICK rs \in Seq(TimedRow) : rs = SubSeq(csv, 1, n)
    BY <1>1
  <1>3. PICK samples \in ReadSamples(rs) :
          \E sorted \in SuccessLatencies(samples) :
            \E m \in ReadMeta : report = Analyze(samples, sorted, m.startedAt, m.kill.at)
    BY <1>1, <1>2
  <1>4. PICK sorted \in SuccessLatencies(samples) :
          \E m \in ReadMeta : report = Analyze(samples, sorted, m.startedAt, m.kill.at)
    BY <1>3
  <1>5. PICK m \in ReadMeta : report = Analyze(samples, sorted, m.startedAt, m.kill.at)
    BY <1>4
  <1>6. Len(rs) = n /\ Len(rs) > 0 /\ DOMAIN rs = 1 .. n
    BY <1>1, <1>2
  <1>7. Len(samples) = n
    BY <1>6, SamplesFacts
  <1>8. report.rows = n
    BY <1>5, <1>7 DEF Analyze
  <1>9. Rows = {rs[i] : i \in 1 .. Len(rs)}
    BY <1>2, <1>6, <1>8 DEF Rows, Range
  <1>10. /\ m \in Meta /\ (m.startedAt = 0 => m.kill.at = 0)
         /\ m.startedAt <= StartNS /\ (m.kill.at > 0 => m.startedAt <= m.kill.at)
    BY MetaFacts
  <1>11. MadeOf(rs, samples, sorted, m)
    BY <1>5, <1>6, <1>9, <1>10 DEF MadeOf
  <1> QED
    BY <1>11

\* The axis of the CDF reaches past every latency it shows.
LEMMA CdfReaches ==
  ASSUME NEW rs, NEW samples, NEW sorted, NEW m, MadeOf(rs, samples, sorted, m),
         NEW r \in Rows, r.ok
  PROVE  100 * LatencyUS(r) <= report.cdfEnd
  <1>1. /\ rs \in Seq(TimedRow) /\ samples \in ReadSamples(rs) /\ sorted \in SuccessLatencies(samples)
        /\ report.cdfEnd = CdfEnd(sorted)
    BY DEF MadeOf, Analyze
  <1>2. PICK k \in 1 .. Len(rs) : r = rs[k]
    BY DEF MadeOf
  <1>3. PICK c \in Nat : Ascending(sorted, c) /\ ShowsRows(rs, sorted, c)
    BY <1>1, LatenciesFacts
  <1>4. PICK i \in 1 .. c : sorted[i] = LatencyUS(r)
    BY <1>2, <1>3 DEF ShowsRows
  <1>5. /\ sorted # <<>> /\ Len(sorted) = c /\ c \in 1 .. c /\ i <= c
        /\ sorted[i] \in Nat /\ sorted[c] \in Nat /\ sorted[i] <= sorted[c]
    BY <1>3, <1>4 DEF Ascending
  <1>6. PICK a, b \in Nat : a = sorted[i] /\ b = sorted[c] /\ a <= b
    BY <1>5
  <1>7. CdfEnd(sorted) = 105 * (IF b < 1000 THEN 1000 ELSE b)
    BY <1>5, <1>6 DEF CdfEnd
  <1>8. 100 * a <= 105 * (IF b < 1000 THEN 1000 ELSE b)
    BY <1>6
  <1> QED
    BY <1>1, <1>4, <1>6, <1>7, <1>8

\* The timeline begins before the first end, and stops at the last.
LEMMA TimelineHolds ==
  ASSUME NEW rs, NEW samples, NEW sorted, NEW m, MadeOf(rs, samples, sorted, m)
  PROVE  /\ \A i \in 1 .. Len(rs) : report.timeline[1] <= samples[i].end
                                    /\ samples[i].end <= report.timeline[2]
         /\ m.kill.at > 0 => report.timeline[1] <= m.kill.at
  <1>1. /\ rs \in Seq(TimedRow) /\ samples \in ReadSamples(rs) /\ Len(rs) > 0
        /\ m.startedAt \in Nat /\ m.kill.at \in Nat /\ StartNS \in Nat
    BY ClockAssumption DEF MadeOf, Meta, KillResult
  <1>2. PICK n \in Nat \ {0} : n = Len(rs)
    BY <1>1
  <1>3. /\ Len(samples) = n
        /\ \A i, j \in 1 .. n : i <= j => samples[i].end <= samples[j].end
    BY <1>1, <1>2, SamplesFacts
  <1>4. PICK a, b : a = report.timeline[1] /\ b = report.timeline[2]
    OBVIOUS
  <1>5. /\ a = (IF m.startedAt > 0 THEN m.startedAt ELSE samples[1].start)
        /\ b = samples[n].end
    BY <1>3, <1>4 DEF MadeOf, Analyze, Timeline
  <1>6. 1 \in 1 .. n /\ n \in 1 .. n
    BY <1>2
  <1>7. \A i \in 1 .. n : /\ samples[i].start \in Nat /\ samples[i].end \in Nat
                          /\ StartNS <= samples[i].start /\ samples[i].start <= samples[i].end
    BY <1>1, <1>2, SampleBounds
  <1>8. m.startedAt <= StartNS /\ (m.startedAt = 0 => m.kill.at = 0)
        /\ (m.kill.at > 0 => m.startedAt <= m.kill.at)
    BY DEF MadeOf
  <1>9. a \in Nat /\ a <= samples[1].end
    BY <1>1, <1>5, <1>6, <1>7, <1>8
  <1>10. ASSUME NEW i \in 1 .. n PROVE a <= samples[i].end /\ samples[i].end <= b
    <2>1. samples[1].end <= samples[i].end /\ samples[i].end <= samples[n].end
      BY <1>3, <1>6
    <2>2. samples[1].end \in Nat /\ samples[i].end \in Nat
      BY <1>6, <1>7
    <2> QED
      BY <1>5, <1>9, <2>1, <2>2
  <1>11. m.kill.at > 0 => a <= m.kill.at
    BY <1>1, <1>5, <1>8
  <1> QED
    BY <1>2, <1>4, <1>10, <1>11

\* No sample lies beyond the axes that the script draws, nor does the failover
\* window, for every number of workers, every clock and every interleaving, with
\* the metadata of the run, of an earlier one or without.
THEOREM AxesHoldAllSamples == MSpec => []AxesHoldSamples
  <1>1. MInv => AxesHoldSamples
    <2> SUFFICES ASSUME MInv, report # NoReport
                 PROVE  /\ \A r \in Rows : /\ r.ok => 100 * LatencyUS(r) <= report.cdfEnd
                                           /\ report.timeline[1] <= r.end /\ r.end <= report.timeline[2]
                        /\ report.window # <<>> => /\ report.timeline[1] <= report.window[1]
                                                   /\ report.window[2] <= report.timeline[2]
      BY DEF AxesHoldSamples
    <2>1. PICK rs, samples, sorted, m : MadeOf(rs, samples, sorted, m)
      BY ReportMade
    <2>2. /\ \A i \in 1 .. Len(rs) : report.timeline[1] <= samples[i].end
                                     /\ samples[i].end <= report.timeline[2]
          /\ m.kill.at > 0 => report.timeline[1] <= m.kill.at
      BY <2>1, TimelineHolds
    <2>3. rs \in Seq(TimedRow) /\ samples \in ReadSamples(rs) /\ Rows = {rs[i] : i \in 1 .. Len(rs)}
      BY <2>1 DEF MadeOf
    <2>4. ASSUME NEW r \in Rows PROVE report.timeline[1] <= r.end /\ r.end <= report.timeline[2]
      <3>1. PICK p \in [1 .. Len(rs) -> 1 .. Len(rs)] :
              /\ \A k, j \in 1 .. Len(rs) : p[k] = p[j] => k = j
              /\ \A k \in 1 .. Len(rs) : \E j \in 1 .. Len(rs) : p[j] = k
              /\ \A k \in 1 .. Len(rs) : samples[k] = Sample(rs[p[k]])
        BY <2>3, SamplesFacts
      <3>2. PICK k \in 1 .. Len(rs) : r = rs[k]
        BY <2>3
      <3>3. PICK j \in 1 .. Len(rs) : p[j] = k
        BY <3>1
      <3>4. r \in TimedRow /\ samples[j] = Sample(r)
        BY <2>3, <3>1, <3>2, <3>3
      <3>5. samples[j].end = r.end
        BY <3>4, SampleFacts
      <3> QED
        BY <2>2, <3>5
    <2>5. ASSUME report.window # <<>>
          PROVE  report.timeline[1] <= report.window[1] /\ report.window[2] <= report.timeline[2]
      <3>1. PICK k, e : k = m.kill.at /\ e = (IF k > 0 THEN FirstSuccessfulCompletionAfter(samples, k) ELSE 0)
        OBVIOUS
      <3>2. report.window = FailoverWindow(k, e)
        BY <2>1, <3>1 DEF MadeOf, Analyze
      <3>3. k > 0 /\ e > k /\ report.window[1] = k /\ report.window[2] = e
        BY <2>5, <3>2 DEF FailoverWindow
      <3>4. PICK after : after = {i \in Successes(samples) : samples[i].end >= k}
        OBVIOUS
      <3>5. e = IF after = {} THEN 0 ELSE samples[CHOOSE i \in after : \A j \in after : i <= j].end
        BY <3>1, <3>3, <3>4 DEF FirstSuccessfulCompletionAfter
      <3>6. after \in SUBSET (1 .. Len(rs)) /\ after \in SUBSET Nat
        <4>1. DOMAIN samples = 1 .. Len(rs)
          BY <2>3, SamplesFacts
        <4> QED
          BY <2>3, <3>4, <4>1 DEF Successes
      <3>7. k \in Nat
        BY <2>1, <3>1 DEF MadeOf, Meta, KillResult
      <3>8. after # {}
        BY <3>3, <3>5, <3>7
      <3>9. PICK f : f = CHOOSE i \in after : \A j \in after : i <= j
        OBVIOUS
      <3>10. f \in after
        BY <3>6, <3>8, <3>9, LeastOf
      <3>11. e = samples[f].end /\ f \in 1 .. Len(rs)
        BY <3>5, <3>6, <3>8, <3>9, <3>10
      <3> QED
        BY <2>2, <3>1, <3>3, <3>11
    <2>6. ASSUME NEW r \in Rows, r.ok PROVE 100 * LatencyUS(r) <= report.cdfEnd
      BY <2>1, <2>6, CdfReaches
    <2> QED
      BY <2>4, <2>5, <2>6
  <1> QED
    BY <1>1, MInvariance, PTL
=============================================================================
