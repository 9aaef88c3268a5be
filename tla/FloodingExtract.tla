--------------------------- MODULE FloodingExtract ---------------------------
(***************************************************************************)
(* The grid sweep of FloodingComparison/extract_data.py.  It is the sweep  *)
(* of Experiment5 (see Experiment5Extract) with three differences the      *)
(* model keeps: the records come from the "**.sink" modules, there is one  *)
(* glob per point, and nothing catches an exception: a table without the   *)
(* statistic columns (KeyError) or with fewer node rows than a position    *)
(* index (IndexError) ends the job like a reader failure does.             *)
(***************************************************************************)
EXTENDS Integers, Sequences, FiniteSets, CombineSamples

LOCAL Seqs == INSTANCE SequencesExt
LOCAL INSTANCE Functions

CONSTANTS
  node_cnt_x,    \* the grid sides swept, a sequence
  Points,        \* the sweep points, in the order the loops visit them
  Params,        \* Params[p]: loop index n, separation, repetitions, update period
  FilesOf,       \* FilesOf[p]: the files the glob finds for p
  NodeStats,     \* NodeStats[K]: the per-sink statistic vectors of a K x K run
  ReaderMayFail, \* whether a file may be one the reader raises on
  Absent,        \* no rows of that metric in the file
  NoColumns,     \* a table lacking the type/mean/count/stddev columns
  Malformed,     \* a file the reader raises on
  Unread,        \* a file not read yet
  PlotSeps, PlotReps, PlotGrids  \* plot_data.py's separation, num_repetitions, grid_sizes

ASSUME \A p \in DOMAIN Params : Params[p].n + 1 \in DOMAIN node_cnt_x
ASSUME ReaderMayFail \in BOOLEAN

Metrics == {"updateDelay", "seqnoDelta"}
Buckets == {"whole", "edge", "center", "intermediate"}

AllFiles == UNION {FilesOf[p] : p \in DOMAIN FilesOf}

\* num_nodes = node_cnt_x[n], the grid side written in the rows.
Side(n) == node_cnt_x[n + 1]

N(p) == Params[p].n

\* center_node = (n ** 2) // 2; edge_node = 0;
\* intermediate_node = (n + 1) * (n // 4), from the loop index n.
NodeIndex(n, b) ==
  CASE b = "edge"         -> 0
    [] b = "center"       -> (n ^ 2) \div 2
    [] b = "intermediate" -> (n + 1) * (n \div 4)

FileContents(n) ==
  [Metrics -> NodeStats[Side(n)] \cup {Absent}] \cup {NoColumns}
    \cup (IF ReaderMayFail THEN {Malformed} ELSE {})

\* A vector some position subscript runs past: avgs[i] raises IndexError.
TooShort(n, v) == \E b \in Buckets \ {"whole"} : NodeIndex(n, b) >= Len(v)

\* The eight "if len(...) > 2" blocks, in code order.
EmitOrder ==
  << <<"seqnoDelta", "whole">>, <<"updateDelay", "whole">>,
     <<"seqnoDelta", "edge">>, <<"updateDelay", "edge">>,
     <<"seqnoDelta", "center">>, <<"updateDelay", "center">>,
     <<"seqnoDelta", "intermediate">>, <<"updateDelay", "intermediate">> >>

VARIABLES
  k,        \* index of the current sweep point in Points
  pc,       \* "start", "read", "emit", "done", "aborted"
  e,        \* index into EmitOrder of the next emission block
  pending,  \* files of filelist not yet read
  lists,    \* lists[m][b]: e.g. delay_average_data_center for m, b
  out,      \* out[m][b]: rows written and flushed for metric m, bucket b
  seen,     \* seen[f]: what reading f returned (history, for properties)
  pi,       \* plot_data.py: index into Loop of the next series
  drawn     \* plot_data.py: the error-bar lines drawn

plot_vars == <<pi, drawn>>
vars == <<k, pc, e, pending, lists, out, seen, pi, drawn>>

EmptyLists == [m \in Metrics |-> [b \in Buckets |-> <<>>]]

\* The four CSV files are opened and their headers written.
Init ==
  /\ k = 1
  /\ pc = IF Len(Points) = 0 THEN "done" ELSE "start"
  /\ e = 1
  /\ pending = {}
  /\ lists = EmptyLists
  /\ out = EmptyLists
  /\ seen = [f \in AllFiles |-> Unread]
  /\ pi = 1
  /\ drawn = {}

\* Mutant: a glob pattern that leaves out the point's dimensions.
StartPoint_broad_glob ==
  /\ pc = "start"
  /\ lists' = EmptyLists
  /\ pending' = AllFiles
  /\ pc' = "read"
  /\ UNCHANGED <<k, e, out, seen>>

\* Mutant: the lists are created once, before the sweep, and never reset.
StartPoint_keeps_lists ==
  /\ pc = "start"
  /\ pending' = FilesOf[Points[k]]
  /\ pc' = "read"
  /\ UNCHANGED <<k, e, out, seen, lists>>

\* Top of the node_cnt_x loop body: eight fresh lists, node indices, glob.
StartPoint ==
  /\ pc = "start"
  /\ lists' = EmptyLists
  /\ pending' = FilesOf[Points[k]]
  /\ pc' = "read"
  /\ UNCHANGED <<k, e, out, seen>>

\* What one file appends for metric m with per-sink statistics v: the body
\* of the name loop runs once per row of m, that is Len(v) times.
Copies(s, v) == [i \in 1..Len(v) |-> s]

Appended(n, v, b) ==
  IF b = "whole"
  THEN IF combine_mean_list(v).cnt > 0 THEN Copies(combine_mean_list(v), v) ELSE <<>>
  ELSE Copies(v[NodeIndex(n, b) + 1], v)

\* One iteration of "for filename in filelist" that completes.
ReadFile ==
  /\ pc = "read"
  /\ \E f \in pending, c \in FileContents(N(Points[k])) \ {NoColumns, Malformed} :
       /\ \A m \in Metrics : c[m] # Absent => ~TooShort(N(Points[k]), c[m])
       /\ pending' = pending \ {f}
       /\ seen' = [seen EXCEPT ![f] = c]
       /\ lists' = [m \in Metrics |-> [b \in Buckets |->
                      IF c[m] = Absent THEN lists[m][b]
                      ELSE lists[m][b] \o Appended(N(Points[k]), c[m], b)]]
  /\ UNCHANGED <<k, pc, e, out>>

(***************************************************************************)
(* One iteration that raises: the reader (line 78), the column selection   *)
(* (KeyError, line 79) or a position subscript (IndexError, lines 89-91    *)
(* and 103-105).  Nothing catches it; the job ends with what it flushed.   *)
(***************************************************************************)
ReadFileRaises ==
  /\ pc = "read"
  /\ \E f \in pending, c \in FileContents(N(Points[k])) :
       /\ \/ c \in {NoColumns, Malformed}
          \/ /\ c \notin {NoColumns, Malformed}
             /\ \E m \in Metrics : c[m] # Absent /\ TooShort(N(Points[k]), c[m])
       /\ pending' = pending \ {f}
       /\ seen' = [seen EXCEPT ![f] = c]
  /\ pc' = "aborted"
  /\ UNCHANGED <<k, e, lists, out>>

FilesRead ==
  /\ pc = "read"
  /\ pending = {}
  /\ pc' = "emit"
  /\ e' = 1
  /\ UNCHANGED <<k, pending, lists, out, seen>>

\* One "if len(l) > 2" block: fold, write, flush; after the last block,
\* the next sweep point, or close the files.
Emit ==
  /\ pc = "emit"
  /\ LET m   == EmitOrder[e][1]
         b   == EmitOrder[e][2]
         l   == lists[m][b]
         row == [point |-> Points[k], stat |-> combine_mean_list(l)]
     IN  out' = [out EXCEPT ![m][b] = IF Len(l) > 2 THEN Append(@, row) ELSE @]
  /\ IF e < Len(EmitOrder)
     THEN e' = e + 1 /\ UNCHANGED <<k, pc>>
     ELSE /\ e' = 1
          /\ k' = k + 1
          /\ pc' = IF k < Len(Points) THEN "start" ELSE "done"
  /\ UNCHANGED <<pending, lists, seen>>

ExtractStep == StartPoint \/ ReadFile \/ ReadFileRaises \/ FilesRead \/ Emit

(***************************************************************************)
(* plot_data.py, run on the CSV files the extractor flushed.  __main__     *)
(* calls the update-rate functions for the overall files (seqno, then     *)
(* delay) and then for the position files: per separation one figure, per *)
(* repetitions and grid size (and, in the position functions, per node    *)
(* position) one series whose x are the update periods of the matching     *)
(* rows.  A position file holds the three buckets' rows interleaved; its   *)
(* "node_pos == pos" selection is the bucket's own row list.               *)
(***************************************************************************)
Nest(s, t) == [i \in 1..(Len(s) * Len(t)) |-> <<s[((i - 1) \div Len(t)) + 1], t[((i - 1) % Len(t)) + 1]>>]

node_poss == <<"edge", "intermediate", "center">>

Series(m, b, sep, rep, gs) == [metric |-> m, bucket |-> b, sep |-> sep, rep |-> rep, gs |-> gs]

WholeLoop ==
  LET X == Nest(<<"seqnoDelta", "updateDelay">>, Nest(PlotSeps, Nest(PlotReps, PlotGrids)))
  IN  [i \in DOMAIN X |-> Series(X[i][1], "whole", X[i][2][1], X[i][2][2][1], X[i][2][2][2])]

PosLoop ==
  LET X == Nest(<<"seqnoDelta", "updateDelay">>, Nest(PlotSeps, Nest(Nest(PlotReps, PlotGrids), node_poss)))
  IN  [i \in DOMAIN X |-> Series(X[i][1], X[i][2][2][2], X[i][2][1], X[i][2][2][1][1], X[i][2][2][1][2])]

Loop == WholeLoop \o PosLoop

\* The list comprehensions: n == str(gs) and s == str(sep) and r == str(rep).
SeriesRows(sr) ==
  SelectSeq(out[sr.metric][sr.bucket],
            LAMBDA r : Side(N(r.point)) = sr.gs /\ Params[r.point].sep = sr.sep /\ Params[r.point].rep = sr.rep)

\* x = int(up), y = float(avg), ci = 1.96 * std / np.sqrt(cnt): numpy
\* gives nan, not an exception, for the 0 / 0 of a cnt-0 row.
ErrorBarPoint(r) ==
  [x |-> Params[r.point].up, y |-> r.stat.avg, ci |-> IF r.stat.cnt > 0 THEN "finite" ELSE "nan"]

Line(sr, rows) ==
  [metric |-> sr.metric, bucket |-> sr.bucket, sep |-> sr.sep, rep |-> sr.rep, gs |-> sr.gs,
   pts |-> [i \in DOMAIN rows |-> ErrorBarPoint(rows[i])]]

\* Mutant: the selection leaves out "n == str(gs)".
PlotSeries_no_grid_filter ==
  /\ pc \in {"done", "aborted"}
  /\ pi <= Len(Loop)
  /\ LET sr   == Loop[pi]
         rows == SelectSeq(out[sr.metric][sr.bucket],
                           LAMBDA r : Params[r.point].sep = sr.sep /\ Params[r.point].rep = sr.rep)
     IN  drawn' = IF Len(rows) > 0
                  THEN drawn \cup {Line(sr, rows)}
                  ELSE drawn
  /\ pi' = pi + 1
  /\ UNCHANGED <<k, pc, e, pending, lists, out, seen>>

\* One series: "if len(x) > 0: ax.errorbar(x, y, yerr=ci)".
PlotSeries ==
  /\ pc \in {"done", "aborted"}
  /\ pi <= Len(Loop)
  /\ LET sr   == Loop[pi]
         rows == SeriesRows(sr)
     IN  drawn' = IF Len(rows) > 0
                  THEN drawn \cup {Line(sr, rows)}
                  ELSE drawn
  /\ pi' = pi + 1
  /\ UNCHANGED <<k, pc, e, pending, lists, out, seen>>

Next == (ExtractStep /\ UNCHANGED plot_vars) \/ PlotSeries

\* The job stops at "done" or "aborted", the plot after its last series;
\* the cfgs do not check deadlock.
Spec == Init /\ [][Next]_vars /\ WF_vars(Next)

-----------------------------------------------------------------------------
\* The files of point p read to the end, and those carrying metric m.
Carrying(p, m) ==
  {f \in FilesOf[p] : seen[f] \notin {Unread, Malformed, NoColumns} /\ seen[f][m] # Absent}

\* The sink statistics of metric m behind bucket b at point p.
NodeSamples(p, m, b) ==
  LET fs == Seqs!SetToSeq(Carrying(p, m))
      per(f) == IF b = "whole" THEN seen[f][m] ELSE <<seen[f][m][NodeIndex(N(p), b) + 1]>>
  IN  Seqs!FlattenSeq([j \in DOMAIN fs |-> per(fs[j])])

TypeOK ==
  /\ k \in 1..(Len(Points) + 1)
  /\ pc \in {"start", "read", "emit", "done", "aborted"}
  /\ e \in 1..Len(EmitOrder)
  /\ pi \in 1..(Len(Loop) + 1)
  /\ pc = "read" => pending \subseteq FilesOf[Points[k]]
  /\ \A m \in Metrics, b \in Buckets :
       \A j \in 1..Len(out[m][b]) : out[m][b][j].point \in Range(Points)

(***************************************************************************)
(* Every row written before the job ends, normally or by an exception,     *)
(* carries the count-weighted mean of the sink statistics with count > 1   *)
(* behind its metric and bucket at its point: a file that raises midway    *)
(* must not have left samples in a list that is emitted.                   *)
(***************************************************************************)
RowMeansMatchFiles ==
  \A m \in Metrics, b \in Buckets : \A j \in 1..Len(out[m][b]) :
    LET r == out[m][b][j]
    IN  r.stat.avg = PooledMean(NodeSamples(r.point, m, b))

\* A sweep point whose rows the plot's lists select.
InPlot(p) ==
  Side(N(p)) \in Range(PlotGrids) /\ Params[p].sep \in Range(PlotSeps) /\ Params[p].rep \in Range(PlotReps)

(***************************************************************************)
(* From the sink statistics to the figure: every point drawn on a line of  *)
(* a metric and bucket is a sweep point of the line's grid size,           *)
(* separation and repetitions at x = its update period, at y = the pooled  *)
(* mean of the count > 1 sink statistics behind that bucket in its files,  *)
(* with a finite error bar exactly when there was one; a position row     *)
(* folded from degenerate statistics only is drawn at 0 with a nan bar.   *)
(* Once the plot is done, every row written for a key in the plot's lists  *)
(* is on its line, whether the extractor finished or raised.               *)
(***************************************************************************)
DrawnPointsArePooledMeans ==
  /\ \A l \in drawn : \A i \in DOMAIN l.pts :
       \E p \in Range(Points) :
         /\ Side(N(p)) = l.gs /\ Params[p].sep = l.sep /\ Params[p].rep = l.rep
         /\ Params[p].up = l.pts[i].x
         /\ l.pts[i].y = PooledMean(NodeSamples(p, l.metric, l.bucket))
         /\ (l.pts[i].ci = "finite") <=> PooledCount(NodeSamples(p, l.metric, l.bucket)) > 0
  /\ pi > Len(Loop) =>
       \A m \in Metrics, b \in Buckets : \A j \in 1..Len(out[m][b]) :
         LET p == out[m][b][j].point
         IN  InPlot(p) =>
               \E l \in drawn : /\ l.metric = m /\ l.bucket = b
                               /\ l.gs = Side(N(p)) /\ l.sep = Params[p].sep /\ l.rep = Params[p].rep
                               /\ \E i \in DOMAIN l.pts : l.pts[i].x = Params[p].up

(***************************************************************************)
(* Spec 4.1 / 4.3 / 7: a file whose expected metric is missing (a lookup   *)
(* error) is logged and excluded; it never aborts the point or the sweep.  *)
(***************************************************************************)
SweepNeverAborts == pc # "aborted"
====
