----------------------------- MODULE Measurement -----------------------------
(***************************************************************************)
(* A measurement: the load generator runs, and the analysis script reads   *)
(* the files it left.  So the functions of module Analysis are applied to  *)
(* exactly the files that some interleaving of the workers produces: rows  *)
(* in the order of the channel, not of time, with or without metadata.     *)
(***************************************************************************)
EXTENDS LoadGen, Analysis

CONSTANT Earlier  \* metadata that earlier runs may have left for the same output

ASSUME EarlierAssumption ==
  /\ Earlier \subseteq Meta
  /\ \A m \in Earlier : /\ 0 < m.startedAt /\ m.startedAt <= StartNS
                        /\ m.kill.at = 0 \/ m.startedAt <= m.kill.at
                        /\ m.kill.at <= StartNS

VARIABLE report   \* what the script printed and drew

NoReport == [rows |-> 0]

MInit == Init /\ report = NoReport

\* What main has of the metadata.  The load generator creates the CSV when it
\* starts and the metadata when it ends.  After a failed run there are none, and
\* main ignores the error of readMeta; or those of an earlier run, which nobody
\* removed.
ReadMeta == IF exit = "ok" THEN {meta} ELSE {NoMeta} \cup Earlier

\* The script reads the file: all of it after a normal end, the rows that came
\* to the disk after a failed one.  Without rows, or when the last one is cut off
\* in the middle, it gives up and reports nothing.
RunAnalysis ==
  /\ exit # "running" /\ report = NoReport
  /\ \E n \in flushed .. Len(csv) :
       /\ n > 0
       /\ \E samples \in ReadSamples(SubSeq(csv, 1, n)) :
            \E sorted \in SuccessLatencies(samples), m \in ReadMeta :
              report' = Analyze(samples, sorted, m.startedAt, m.kill.at)
  /\ UNCHANGED vars

MNext == (LoadStep /\ UNCHANGED report) \/ RunAnalysis

Fairness == /\ \A w \in Worker : WF_vars(WorkerStep(w))
            /\ WF_vars(MainStep)

\* Every goroutine that can run does, and every RPC returns by its deadline.
\* Ctrl-C and disk errors need not happen.
MSpec == MInit /\ [][MNext]_<<vars, report>> /\ Fairness

-----------------------------------------------------------------------------
(* What a measurement shows                                                *)

Rows == Range(SubSeq(csv, 1, report.rows))
Ends == {r.end : r \in {q \in Rows : q.ok /\ q.end >= meta.kill.at}}

\* The failover is over at the earliest end of a successful operation at or
\* after the kill, in whatever order the rows came to the file
\* (firstSuccessfulCompletionAfter takes the first in a sorted sequence).
FailoverEndEarliest ==
  report # NoReport /\ meta.kill.at > 0 =>
    IF Ends = {} THEN report.failoverEnd = 0
    ELSE report.failoverEnd \in Ends /\ \A e \in Ends : report.failoverEnd <= e

\* How many successful rows have a latency of at most, or at least, v/100.
AtMost(v) == Count(SubSeq(csv, 1, report.rows), LAMBDA r : r.ok /\ 100 * LatencyUS(r) <= v)
AtLeast(v) == Count(SubSeq(csv, 1, report.rows), LAMBDA r : r.ok /\ 100 * LatencyUS(r) >= v)

\* The p-th percentile has p percent of the successful operations below or at
\* it and the rest above or at it, counted by ranks 0 to n - 1.
PercentilesRank ==
  report # NoReport /\ report.successes > 0 =>
    \A p \in {50, 95, 99} :
      LET v == report.percentiles[p]
          n == report.successes
      IN  /\ 100 * (AtMost(v) - 1) >= p * (n - 1) - 99
          /\ 100 * (AtLeast(v) - 1) >= (100 - p) * (n - 1) - 99

\* No sample lies beyond the axes: the CDF's axis reaches past every latency it
\* shows, and the timeline holds the end of every operation and the failover
\* window (writeCDFSVG and writeTimelineSVG take the last element of a sorted
\* sequence for the largest).  The failover's own latency, which the CDF marks
\* with a line, may lie beyond.
AxesHoldSamples ==
  report # NoReport =>
    /\ \A r \in Rows : /\ r.ok => 100 * LatencyUS(r) <= report.cdfEnd
                       /\ report.timeline[1] <= r.end /\ r.end <= report.timeline[2]
    /\ report.window # <<>> =>
         report.timeline[1] <= report.window[1] /\ report.window[2] <= report.timeline[2]

\* The load generator ends: no worker is left blocked on the channel, and main
\* does not wait for a channel that nobody closes.
RunEnds == <>(exit # "running")
=============================================================================
