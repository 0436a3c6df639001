------------------------------ MODULE Analysis ------------------------------
(***************************************************************************)
(* The analysis script, scripts/analyze.go, as functions of a CSV (the     *)
(* sequence of rows in the file) and of the metadata.  Times are in        *)
(* nanoseconds, latencies in microseconds (the CSV has milliseconds with   *)
(* three decimals), percentiles and the end of an axis in hundredths of a  *)
(* microsecond.  Floating-point rounding beyond that is left out, and so   *)
(* is where on the page a point of a diagram is drawn.                     *)
(***************************************************************************)
EXTENDS Integers, Sequences, FiniteSets, Functions

\* "%.3f" of the latency in milliseconds.
LatencyUS(row) == (row.end - row.start + 500) \div 1000

Sample(row) == [start |-> row.start, end |-> row.end, latency |-> LatencyUS(row), ok |-> row.ok]

\* sort.Slice and sort.Float64s: the ways to go through the indices I from the
\* smallest key to the largest.  The order of equal keys is left open.
Orders(key, I) ==
  {p \in Bijection(1 .. Cardinality(I), I) :
     \A i, j \in DOMAIN p : i < j => key[p[i]] <= key[p[j]]}

\* Mutant: the samples stay in the order of the file.
ReadInFileOrder(rows) == {[i \in DOMAIN rows |-> Sample(rows[i])]}

\* readSamples: parsed and sorted by EndNS.
ReadSamples(rows) ==
  {[i \in DOMAIN rows |-> Sample(rows[p[i]])] :
     p \in Orders([i \in DOMAIN rows |-> rows[i].end], DOMAIN rows)}

Latencies(samples) == [i \in DOMAIN samples |-> samples[i].latency]
Successes(samples) == {i \in DOMAIN samples : samples[i].ok}

\* Mutant: the latencies are not sorted again.
LatenciesByEnd(samples) == {Latencies(SelectSeq(samples, LAMBDA s : s.ok))}

SuccessLatencies(samples) ==
  {[i \in DOMAIN p |-> samples[p[i]].latency] :
     p \in Orders(Latencies(samples), Successes(samples))}

\* Mutant: the interpolation weighs the wrong neighbour.
PercentileSwapped(sorted, p) ==
  LET pos == p * (Len(sorted) - 1)
      lo == pos \div 100
      hi == (pos + 99) \div 100
  IN  IF sorted = <<>> THEN 0
      ELSE 100 * sorted[hi + 1] + (sorted[hi + 1] - sorted[lo + 1]) * (pos % 100)

\* percentile, with p in percent: linear interpolation between two ranks.
Percentile(sorted, p) ==
  LET pos == p * (Len(sorted) - 1)
      lo == pos \div 100
      hi == (pos + 99) \div 100
  IN  IF sorted = <<>> THEN 0
      ELSE 100 * sorted[lo + 1] + (sorted[hi + 1] - sorted[lo + 1]) * (pos % 100)

FirstSuccessfulCompletionAfter(samples, killNS) ==
  LET after == {i \in Successes(samples) : samples[i].end >= killNS}
  IN  IF after = {} THEN 0 ELSE samples[CHOOSE i \in after : \A j \in after : i <= j].end

\* writeCDFSVG: where the axis of the latencies ends, 5% beyond the last of them
\* and at 1 ms at least; 0 if there is no latency to draw.
CdfEnd(sorted) ==
  IF sorted = <<>> THEN 0
  ELSE 105 * (IF sorted[Len(sorted)] < 1000 THEN 1000 ELSE sorted[Len(sorted)])

\* writeTimelineSVG: the time its axis covers, from the start of the run or,
\* without metadata, of the first sample.
Timeline(samples, startedNS) ==
  <<IF startedNS > 0 THEN startedNS ELSE samples[1].start, samples[Len(samples)].end>>

\* The failover window, from the kill to the end of the failover; <<>>: none.
FailoverWindow(killNS, endNS) ==
  IF killNS > 0 /\ endNS > killNS THEN <<killNS, endNS>> ELSE <<>>

\* main: what the script prints and draws; a time is 0 if the metadata have none.
Analyze(samples, sorted, startedNS, killNS) ==
  LET endNS == IF killNS > 0 THEN FirstSuccessfulCompletionAfter(samples, killNS) ELSE 0
  IN  [rows |-> Len(samples),
       successes |-> Len(sorted),
       failures |-> Len(samples) - Len(sorted),
       percentiles |-> [p \in {50, 95, 99} |-> Percentile(sorted, p)],
       failoverEnd |-> endNS,
       cdfEnd |-> CdfEnd(sorted),
       timeline |-> Timeline(samples, startedNS),
       window |-> FailoverWindow(killNS, endNS)]
=============================================================================
