-------------------------- MODULE Experiment5Extract --------------------------
(***************************************************************************)
(* The grid sweep of Experiment5/extract_data.py.  For each sweep point    *)
(* (loop index n, grid side num_nodes = node_cnt_x[n]) it globs the        *)
(* point's result files and reads them in glob order.  For every row of    *)
(* the filtered table it takes the rows carrying that row's name (one per  *)
(* node of the grid, in declaration order), folds them with                *)
(* combine_mean_list into a whole-run statistic (kept when its count is  *)
(* > 0), and appends the statistics of three single nodes (edge, center,   *)
(* intermediate) to per-position lists.  After the files it folds each of  *)
(* the eight lists holding more than two statistics and writes one row to  *)
(* the overall or per-position CSV file of its metric, flushing each.      *)
(*                                                                         *)
(* A file's contents are chosen when it is read: per metric, no rows or    *)
(* one statistic per grid node; or a table without the statistic columns  *)
(* (KeyError, caught); or, when ReaderMayFail, a file the reader raises on.*)
(***************************************************************************)
EXTENDS Integers, Sequences, FiniteSets, CombineSamples

LOCAL Seqs == INSTANCE SequencesExt
LOCAL INSTANCE Functions

CONSTANTS
  node_cnt_x,    \* the grid sides swept, a sequence
  Points,        \* the loop indices n swept, in order (a subsequence of 0..)
  FilesOf,       \* FilesOf[n]: the result files the two globs find for n
  NodeStats,     \* NodeStats[K]: per-node statistic vectors a K x K grid yields
  ReaderMayFail, \* whether a file may be one the reader raises on
  Absent,        \* no rows of that metric in the file
  NoColumns,     \* a table lacking the mean/count/stddev columns (KeyError)
  Malformed,     \* a file the reader raises on
  Unread         \* a file not read yet

ASSUME \A j \in DOMAIN Points : Points[j] + 1 \in DOMAIN node_cnt_x
ASSUME ReaderMayFail \in BOOLEAN

Metrics == {"updateDelay", "seqnoDelta"}
Positions == {"edge", "center", "intermediate"}
Buckets == Positions \cup {"whole"}

AllFiles == UNION {FilesOf[n] : n \in DOMAIN FilesOf}

Side(n) == node_cnt_x[n + 1]

\* center_node = (n ** 2) // 2; edge_node = 0;
\* intermediate_node = (n + 1) * (n // 4)   (0-based node indices)
NodeIndex(n, b) ==
  CASE b = "edge"         -> 0
    [] b = "center"       -> (n ^ 2) \div 2
    [] b = "intermediate" -> (n + 1) * (n \div 4)

FileContents(n) ==
  [Metrics -> NodeStats[Side(n)] \cup {Absent}] \cup {NoColumns}
    \cup (IF ReaderMayFail THEN {Malformed} ELSE {})

\* The order of the eight "if len(...) > 2" blocks after the file loop.
EmitOrder ==
  << <<"seqnoDelta", "whole">>, <<"updateDelay", "whole">>,
     <<"seqnoDelta", "edge">>, <<"updateDelay", "edge">>,
     <<"seqnoDelta", "center">>, <<"updateDelay", "center">>,
     <<"seqnoDelta", "intermediate">>, <<"updateDelay", "intermediate">> >>

VARIABLES
  k,        \* index of the current sweep point in Points
  pc,       \* "start", "read", "emit", "done", "aborted"
  e,        \* index into EmitOrder of the next emission block
  pending,  \* files of filelist not yet read
  lists,    \* lists[m][b]: e.g. delay_average_data_center for m, b
  out,      \* out[m][b]: rows written and flushed for metric m, bucket b
  seen      \* seen[f]: what reading f returned (history, for properties)

vars == <<k, pc, e, pending, lists, out, seen>>

EmptyLists == [m \in Metrics |-> [b \in Buckets |-> <<>>]]

\* The four CSV files are opened and their header rows written up front.
Init ==
  /\ k = 1
  /\ pc = IF Len(Points) = 0 THEN "done" ELSE "start"
  /\ e = 1
  /\ pending = {}
  /\ lists = EmptyLists
  /\ out = EmptyLists
  /\ seen = [f \in AllFiles |-> Unread]

\* Mutant: a glob pattern that leaves out the point's dimensions and so
\* matches every result file.
StartPoint_broad_glob ==
  /\ pc = "start"
  /\ lists' = EmptyLists
  /\ pending' = AllFiles
  /\ pc' = "read"
  /\ UNCHANGED <<k, e, out, seen>>

\* Mutant: the lists are created once, before the sweep, and never reset.
StartPoint_keeps_lists ==
  /\ pc = "start"
  /\ pending' = FilesOf[Points[k]]
  /\ pc' = "read"
  /\ UNCHANGED <<k, e, out, seen, lists>>

\* Top of the node_cnt_x loop body: eight fresh lists, node indices, globs.
StartPoint ==
  /\ pc = "start"
  /\ lists' = EmptyLists
  /\ pending' = FilesOf[Points[k]]
  /\ pc' = "read"
  /\ UNCHANGED <<k, e, out, seen>>

(***************************************************************************)
(* What one file appends to the lists of metric m, whose per-node          *)
(* statistics are v.  The body of "for name in list(to_print['name'])"    *)
(* runs once per row of the table, and every row of metric m repeats the  *)
(* same work, so it runs Len(v) times for m.                               *)
(***************************************************************************)
Copies(s, v) == [i \in 1..Len(v) |-> s]

WholeRun(v) == combine_mean_list(v)

Appended(n, v, b) ==
  IF b = "whole"
  THEN IF WholeRun(v).cnt > 0 THEN Copies(WholeRun(v), v) ELSE <<>>
  ELSE Copies(v[NodeIndex(n, b) + 1], v)

\* One iteration of "for filename in filelist" whose read succeeds.
ReadFile ==
  /\ pc = "read"
  /\ \E f \in pending, c \in FileContents(Points[k]) \ {NoColumns, Malformed} :
       /\ pending' = pending \ {f}
       /\ seen' = [seen EXCEPT ![f] = c]
       /\ lists' = [m \in Metrics |-> [b \in Buckets |->
                      IF c[m] = Absent THEN lists[m][b]
                      ELSE lists[m][b] \o Appended(Points[k], c[m], b)]]
  /\ UNCHANGED <<k, pc, e, out>>

\* The column selection raises KeyError: "Missing data from: ..." and on.
ReadFileMissingData ==
  /\ pc = "read"
  /\ \E f \in pending :
       /\ pending' = pending \ {f}
       /\ seen' = [seen EXCEPT ![f] = NoColumns]
  /\ UNCHANGED <<k, pc, e, lists, out>>

\* results.read_result_files raises outside the try: the job ends.
ReadFileFails ==
  /\ pc = "read"
  /\ ReaderMayFail
  /\ \E f \in pending :
       /\ pending' = pending \ {f}
       /\ seen' = [seen EXCEPT ![f] = Malformed]
  /\ pc' = "aborted"
  /\ UNCHANGED <<k, e, lists, out>>

FilesRead ==
  /\ pc = "read"
  /\ pending = {}
  /\ pc' = "emit"
  /\ e' = 1
  /\ UNCHANGED <<k, pending, lists, out, seen>>

\* One "if len(l) > 2" block: fold l, write the row, flush.  After the
\* last block, on to the next sweep point or close the files.
Emit ==
  /\ pc = "emit"
  /\ LET m   == EmitOrder[e][1]
         b   == EmitOrder[e][2]
         l   == lists[m][b]
         row == [point |-> Points[k], stat |-> combine_mean_list(l)]
     IN  out' = [out EXCEPT ![m][b] = IF Len(l) > 2 THEN Append(@, row) ELSE @]
  /\ IF e < Len(EmitOrder)
     THEN e' = e + 1 /\ UNCHANGED <<k, pc>>
     ELSE /\ e' = 1
          /\ k' = k + 1
          /\ pc' = IF k < Len(Points) THEN "start" ELSE "done"
  /\ UNCHANGED <<pending, lists, seen>>

Next ==
  \/ StartPoint \/ ReadFile \/ ReadFileMissingData \/ ReadFileFails
  \/ FilesRead \/ Emit

\* After "done" (files closed) or "aborted" the job has exited: no step
\* is enabled, which is why the configurations do not check deadlock.
Spec == Init /\ [][Next]_vars /\ WF_vars(Next)

-----------------------------------------------------------------------------
\* The files of point n read successfully, and those carrying metric m.
ReadOK(n) == {f \in FilesOf[n] : seen[f] \notin {Unread, Malformed, NoColumns}}
Carrying(n, m) == {f \in ReadOK(n) : seen[f][m] # Absent}

\* The node statistics of metric m behind bucket b at point n, over the
\* point's files: every node for the whole-run bucket, the one node at
\* index NodeIndex(n, b) for a position bucket.
NodeSamples(n, m, b) ==
  LET fs == Seqs!SetToSeq(Carrying(n, m))
      per(f) == IF b = "whole" THEN seen[f][m]
                ELSE <<seen[f][m][NodeIndex(n, b) + 1]>>
  IN  Seqs!FlattenSeq([j \in DOMAIN fs |-> per(fs[j])])

TypeOK ==
  /\ k \in 1..(Len(Points) + 1)
  /\ pc \in {"start", "read", "emit", "done", "aborted"}
  /\ e \in 1..Len(EmitOrder)
  /\ pc = "read" => pending \subseteq FilesOf[Points[k]]
  /\ \A m \in Metrics, b \in Buckets :
       \A j \in 1..Len(out[m][b]) : out[m][b][j].point \in Range(Points)

(***************************************************************************)
(* Every written row's mean is the count-weighted mean of the node         *)
(* statistics with count > 1 behind its metric and bucket at its point:    *)
(* all nodes of all of the point's files for the overall table, the node  *)
(* the script indexes for a position bucket.  The whole-run fold, the      *)
(* count > 0 filter, the per-bucket routing, the per-point reset and the   *)
(* final fold must all agree for this to hold.                             *)
(***************************************************************************)
RowMeansMatchFiles ==
  \A m \in Metrics, b \in Buckets : \A j \in 1..Len(out[m][b]) :
    LET r == out[m][b][j]
    IN  r.stat.avg = PooledMean(NodeSamples(r.point, m, b))

(***************************************************************************)
(* Spec 4.1: each run contributes at most one statistic per metric to the  *)
(* whole-network list and one per position bucket (one whole-run          *)
(* combination and three single-node statistics), so no list is longer   *)
(* than the number of files read that carry the metric.                    *)
(***************************************************************************)
OneStatisticPerRun ==
  pc \in {"read", "emit"} =>
    \A m \in Metrics, b \in Buckets : Len(lists[m][b]) <= Cardinality(Carrying(Points[k], m))

(***************************************************************************)
(* Spec 3 (PositionBucket): a bucket's node index is computed from the     *)
(* grid's side length, so every centre row carries the pooled mean of the  *)
(* statistics of the node at index (K * K) // 2 of its K x K grid.  The     *)
(* code computes center_node from the loop index n instead (line 72).      *)
(***************************************************************************)
CentreOfSide(K) == (K * K) \div 2

CentreRowIsGridCentre ==
  \A m \in Metrics : \A j \in 1..Len(out[m]["center"]) :
    LET r  == out[m]["center"][j]
        fs == Seqs!SetToSeq(Carrying(r.point, m))
    IN  r.stat.avg = PooledMean([i \in DOMAIN fs |-> seen[fs[i]][m][CentreOfSide(Side(r.point)) + 1]])
=============================================================================
