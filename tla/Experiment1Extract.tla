-------------------------- MODULE Experiment1Extract --------------------------
(***************************************************************************)
(* The sweep of Experiment1/extract_data.py: for each sweep point, in      *)
(* itertools.product / node_cnt order, glob the point's result files, read *)
(* each one (in glob order, which the filesystem decides), route its       *)
(* updateDelay / seqnoDelta histogram statistics to two lists, then fold   *)
(* each list with combine_samples and write and flush one CSV row per      *)
(* metric when the list holds more than two samples.                       *)
(*                                                                         *)
(* A file's contents are chosen when it is read: per metric, either no     *)
(* record or one (mean, stddev, count) statistic; or, when ReaderMayFail,  *)
(* a file results.read_result_files cannot parse.                          *)
(***************************************************************************)
EXTENDS Integers, Sequences, FiniteSets, CombineSamples

LOCAL Seqs == INSTANCE SequencesExt
LOCAL INSTANCE Functions

CONSTANTS
  Points,        \* the sweep points in iteration order (a sequence)
  FilesOf,       \* FilesOf[p]: the result files glob finds for point p
  SampleSet,     \* statistics a file's histogram record may carry
  ReaderMayFail, \* whether a file may be one the reader raises on
  Absent,        \* no record of that metric in the file
  Malformed,     \* a file the reader raises on
  Unread,        \* a file not read yet
  Params,        \* Params[p]: node count, separation, beacon period,
                 \* repetitions and summaries of point p (its CSV key)
  PlotSeps, PlotSumms, PlotBecs, PlotReps \* plot_data.py's sweep lists

ASSUME Points \in Seq(DOMAIN FilesOf) /\ ReaderMayFail \in BOOLEAN

Metrics == {"updateDelay", "seqnoDelta"}

AllFiles == UNION {FilesOf[p] : p \in DOMAIN FilesOf}

\* What results.read_result_files returns for a file, filtered to type
\* "histogram" and the two metric names.
FileContents ==
  [Metrics -> SampleSet \cup {Absent}] \cup (IF ReaderMayFail THEN {Malformed} ELSE {})

VARIABLES
  k,         \* index of the current sweep point in Points
  pc,        \* "start", "read", "emit_seqno", "emit_delay", "done", "aborted"
  pending,   \* files of filelist not yet read
  seqno_delta_average_data,
  delay_average_data,
  out,       \* out[m]: the rows written and flushed to m's CSV file
  seen,      \* seen[f]: what reading f returned (history, for properties)
  pi,        \* plot_data.py: position in its loops
  drawn      \* the lines plot_data.py has drawn

plot_vars == <<pi, drawn>>
vars == <<k, pc, pending, seqno_delta_average_data, delay_average_data, out, seen, pi, drawn>>

\* The list a metric's statistics go to: name == "updateDelay:histogram"
\* selects the delay list, every other matched name the seqno list.
ListOf(m) == IF m = "updateDelay" THEN delay_average_data ELSE seqno_delta_average_data

\* The statistics of file content c that the name loop appends for m:
\* "if count < 1: pass / else: ...append((avg, stddev, count))".
Appended(c, m) == IF c[m] # Absent /\ c[m].cnt >= 1 THEN <<c[m]>> ELSE <<>>

\* Both CSV files are opened and their header rows written up front.
Init ==
  /\ k = 1
  /\ pc = IF Len(Points) = 0 THEN "done" ELSE "start"
  /\ pending = {}
  /\ seqno_delta_average_data = <<>>
  /\ delay_average_data = <<>>
  /\ out = [m \in Metrics |-> <<>>]
  /\ seen = [f \in AllFiles |-> Unread]
  /\ pi = 1
  /\ drawn = {}

\* Mutant: a glob pattern that leaves out the point's dimensions and so
\* matches every result file.
StartPoint_broad_glob ==
  /\ pc = "start"
  /\ seqno_delta_average_data' = <<>>
  /\ delay_average_data' = <<>>
  /\ pending' = AllFiles
  /\ pc' = "read"
  /\ UNCHANGED <<k, out, seen>>

\* Mutant: the lists are created once, before the sweep, and never reset.
StartPoint_keeps_lists ==
  /\ pc = "start"
  /\ pending' = FilesOf[Points[k]]
  /\ pc' = "read"
  /\ UNCHANGED <<k, out, seen, seqno_delta_average_data, delay_average_data>>

\* Top of the node_cnt loop body: fresh lists, then glob the point's files.
StartPoint ==
  /\ pc = "start"
  /\ seqno_delta_average_data' = <<>>
  /\ delay_average_data' = <<>>
  /\ pending' = FilesOf[Points[k]]
  /\ pc' = "read"
  /\ UNCHANGED <<k, out, seen>>

\* One iteration of "for filename in filelist" whose read succeeds.
ReadFile ==
  /\ pc = "read"
  /\ \E f \in pending, c \in FileContents \ {Malformed} :
       /\ pending' = pending \ {f}
       /\ seen' = [seen EXCEPT ![f] = c]
       /\ delay_average_data' = delay_average_data \o Appended(c, "updateDelay")
       /\ seqno_delta_average_data' = seqno_delta_average_data \o Appended(c, "seqnoDelta")
  /\ UNCHANGED <<k, pc, out>>

\* results.read_result_files raises: nothing catches it and the job ends.
ReadFileFails ==
  /\ pc = "read"
  /\ ReaderMayFail
  /\ \E f \in pending :
       /\ seen' = [seen EXCEPT ![f] = Malformed]
       /\ pending' = pending \ {f}
  /\ pc' = "aborted"
  /\ UNCHANGED <<k, seqno_delta_average_data, delay_average_data, out>>

FilesRead ==
  /\ pc = "read"
  /\ pending = {}
  /\ pc' = "emit_seqno"
  /\ UNCHANGED <<k, pending, seqno_delta_average_data, delay_average_data, out, seen>>

\* Mutant: "if len(data) > 1".
EmitRow_more_than_one(m) ==
  LET row == [point |-> Points[k], stat |-> combine_sample_list(ListOf(m))]
  IN  out' = [out EXCEPT ![m] = IF Len(ListOf(m)) > 1 THEN Append(out[m], row) ELSE out[m]]

\* "if len(data) > 2": fold the list, write the row, flush.
EmitRow(m) ==
  LET row == [point |-> Points[k], stat |-> combine_sample_list(ListOf(m))]
  IN  out' = [out EXCEPT ![m] = IF Len(ListOf(m)) > 2 THEN Append(out[m], row) ELSE out[m]]

EmitSeqno ==
  /\ pc = "emit_seqno"
  /\ EmitRow("seqnoDelta")
  /\ pc' = "emit_delay"
  /\ UNCHANGED <<k, pending, seqno_delta_average_data, delay_average_data, seen>>

\* The delay row, then on to the next sweep point (or close the files).
EmitDelay ==
  /\ pc = "emit_delay"
  /\ EmitRow("updateDelay")
  /\ k' = k + 1
  /\ pc' = IF k < Len(Points) THEN "start" ELSE "done"
  /\ UNCHANGED <<pending, seqno_delta_average_data, delay_average_data, seen>>

ExtractStep ==
  \/ StartPoint \/ ReadFile \/ ReadFileFails \/ FilesRead
  \/ EmitSeqno \/ EmitDelay

-----------------------------------------------------------------------------
(***************************************************************************)
(* Experiment1/plot_data.py, run on the CSV files once the extractor has   *)
(* exited, normally or not (the rows it flushed are what the files hold).  *)
(* main() calls plot_seqno, then plot_delay; each walks                    *)
(* "for sep: for summ:" (one figure each), "for bec: for rep:" (one line   *)
(* each), selects the rows of that key, and draws them with               *)
(* errorbar(x, y, yerr=1.96 * std / sqrt(cnt)) when there are any.         *)
(* Labels, markers, limits and file names are left out; max_av is          *)
(* computed but never used (its set_ylim is commented out).                *)
(***************************************************************************)

\* The order nested "for a in s: for b in t:" loops visit their pairs.
Nest(s, t) == [i \in 1..(Len(s) * Len(t)) |-> <<s[((i - 1) \div Len(t)) + 1], t[((i - 1) % Len(t)) + 1]>>]

FigureKeys == Nest(PlotSeps, PlotSumms)
SeriesKeys == Nest(PlotBecs, PlotReps)
Loop == Nest(<<"seqnoDelta", "updateDelay">>, Nest(FigureKeys, SeriesKeys))

\* The list comprehensions: the rows of m's CSV, in file order, whose
\* separation, beacon period, repetitions and summaries match.
SeriesRows(m, fig, ser) ==
  SelectSeq(out[m], LAMBDA r : /\ Params[r.point].sep = fig[1] /\ Params[r.point].bec = ser[1]
                               /\ Params[r.point].rep = ser[2] /\ Params[r.point].summ = fig[2])

\* A drawn point: x = int(n), y = float(avg), and the error bar
\* 1.96 * std / sqrt(cnt), which is 0.0 / 0.0 = nan for a cnt-0 row.
ErrorBarPoint(r) ==
  [x |-> Params[r.point].n, y |-> r.stat.avg, ci |-> IF r.stat.cnt > 0 THEN "finite" ELSE "nan"]

Line(m, fig, ser, rows) ==
  [metric |-> m, sep |-> fig[1], summ |-> fig[2], bec |-> ser[1], rep |-> ser[2],
   pts |-> [i \in DOMAIN rows |-> ErrorBarPoint(rows[i])]]

\* Mutant: the selection leaves out "r == str(rep)".
PlotSeries_no_rep_filter ==
  /\ pc \in {"done", "aborted"}
  /\ pi <= Len(Loop)
  /\ LET m == Loop[pi][1]
         fig == Loop[pi][2][1]
         ser == Loop[pi][2][2]
         rows == SelectSeq(out[m], LAMBDA r : Params[r.point].sep = fig[1] /\ Params[r.point].bec = ser[1]
                                             /\ Params[r.point].summ = fig[2])
     IN  drawn' = IF Len(rows) > 0 THEN drawn \cup {Line(m, fig, ser, rows)} ELSE drawn
  /\ pi' = pi + 1
  /\ UNCHANGED <<k, pc, pending, seqno_delta_average_data, delay_average_data, out, seen>>

\* One iteration of the innermost "for rep" loop: "if len(x) > 0:
\* ax.errorbar(x, y, yerr=ci)".
PlotSeries ==
  /\ pc \in {"done", "aborted"}
  /\ pi <= Len(Loop)
  /\ LET m == Loop[pi][1]
         fig == Loop[pi][2][1]
         ser == Loop[pi][2][2]
         rows == SeriesRows(m, fig, ser)
     IN  drawn' = IF Len(rows) > 0 THEN drawn \cup {Line(m, fig, ser, rows)} ELSE drawn
  /\ pi' = pi + 1
  /\ UNCHANGED <<k, pc, pending, seqno_delta_average_data, delay_average_data, out, seen>>

Next == (ExtractStep /\ UNCHANGED plot_vars) \/ PlotSeries

\* A single sequential process: every enabled step is eventually taken.
\* After "done" (files closed) or "aborted" the job has exited: no step
\* is enabled, which is why the configurations do not check deadlock.
Spec == Init /\ [][Next]_vars /\ WF_vars(Next)

-----------------------------------------------------------------------------
\* The files of point p already read successfully.
ReadOK(p) == {f \in FilesOf[p] : seen[f] \notin {Unread, Malformed}}

\* The statistics of metric m the read files of p carried, in some order.
FileSamples(p, m) ==
  LET fs == Seqs!SetToSeq({f \in ReadOK(p) : seen[f][m] # Absent})
  IN  [j \in DOMAIN fs |-> seen[fs[j]][m]]

\* Files of p that delivered a statistic of m with at least one observation.
Qualifying(p, m) == Cardinality({f \in ReadOK(p) : seen[f][m] # Absent /\ seen[f][m].cnt >= 1})

RowWritten(p, m) == \E j \in 1..Len(out[m]) : out[m][j].point = p

TypeOK ==
  /\ k \in 1..(Len(Points) + 1)
  /\ pc \in {"start", "read", "emit_seqno", "emit_delay", "done", "aborted"}
  /\ pc = "read" => pending \subseteq FilesOf[Points[k]]
  /\ seqno_delta_average_data \in Seq(SampleSet)
  /\ delay_average_data \in Seq(SampleSet)
  /\ \A m \in Metrics : \A j \in 1..Len(out[m]) : out[m][j].point \in Range(Points)
  /\ \A f \in AllFiles : seen[f] \in FileContents \cup {Unread, Malformed}
  /\ pi \in 1..(Len(Loop) + 1)

(***************************************************************************)
(* Every written row states, for its point and metric, the sum of the      *)
(* counts and the count-weighted mean of the statistics with count > 1     *)
(* that the point's files hold, however glob ordered the files: the lists  *)
(* are rebuilt for each point, the name loop routes each record to its     *)
(* metric's list, and the fold drops exactly the degenerate samples.       *)
(***************************************************************************)
RowMatchesFiles ==
  \A m \in Metrics : \A j \in 1..Len(out[m]) :
    LET r == out[m][j]
    IN  /\ r.stat.cnt = PooledCount(FileSamples(r.point, m))
        /\ r.stat.avg = PooledMean(FileSamples(r.point, m))

(***************************************************************************)
(* Spec 4.3 / 8: once a point is finished, a row for it and a metric is    *)
(* written if and only if at least three of its files delivered a         *)
(* statistic of that metric with count >= 1 (two give no row, three do).   *)
(***************************************************************************)
EmissionIffThreeSamples ==
  \A j \in 1..(k - 1), m \in Metrics :
    RowWritten(Points[j], m) <=> Qualifying(Points[j], m) >= 3

-----------------------------------------------------------------------------
(***************************************************************************)
(* Refinement: the sweep implements SweepSpec.  The file reads are the     *)
(* abstract reads (a reader failure reads the file as Malformed); the      *)
(* points before k are decided for both metrics, and while the delay row   *)
(* is pending the seqno row of point k is decided too.  Resetting, globbing *)
(* and leaving the read loop are stuttering steps.                         *)
(***************************************************************************)
Sweep == INSTANCE SweepSpec WITH
  Contents <- FileContents,
  emitted  <- {<<j, m>> : j \in 1..(k - 1), m \in Metrics}
                \cup (IF pc = "emit_delay" THEN {<<k, "seqnoDelta">>} ELSE {})

\* Every behaviour of the sweep is a behaviour of SweepSpec: rows in point
\* order, each decided once after all its files are read, written exactly
\* when three statistics qualify, and holding their merge in read order.
ImplementsSweepSpec == Sweep!Spec

-----------------------------------------------------------------------------
\* A point's key lies in the plot's lists.
InPlot(q) ==
  q.sep \in Range(PlotSeps) /\ q.summ \in Range(PlotSumms) /\ q.bec \in Range(PlotBecs) /\ q.rep \in Range(PlotReps)

(***************************************************************************)
(* From the result files to the figure: every point drawn on a line is a   *)
(* sweep point of that line's key at x = its node count, at y = the pooled *)
(* mean of the count > 1 statistics its files held, and has a finite error *)
(* bar exactly when there was at least one such statistic; otherwise it is *)
(* drawn at y = 0 with a nan bar (a row folded from count-1 samples only). *)
(* Once the plot has finished, every row written for a key in the plot's  *)
(* lists is on its line.                                                   *)
(***************************************************************************)
DrawnPointsArePooledMeans ==
  /\ \A l \in drawn : \A i \in DOMAIN l.pts :
       \E p \in Range(Points) :
         /\ Params[p] = [n |-> l.pts[i].x, sep |-> l.sep, bec |-> l.bec, rep |-> l.rep, summ |-> l.summ]
         /\ l.pts[i].y = PooledMean(FileSamples(p, l.metric))
         /\ (l.pts[i].ci = "finite") <=> PooledCount(FileSamples(p, l.metric)) > 0
  /\ pi > Len(Loop) =>
       \A m \in Metrics, p \in Range(Points) :
         RowWritten(p, m) /\ InPlot(Params[p]) =>
           \E l \in drawn : /\ l.metric = m
                            /\ [n |-> Params[p].n, sep |-> l.sep, bec |-> l.bec, rep |-> l.rep, summ |-> l.summ] = Params[p]
                            /\ \E i \in DOMAIN l.pts : l.pts[i].x = Params[p].n
====
