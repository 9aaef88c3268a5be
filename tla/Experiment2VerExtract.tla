------------------------- MODULE Experiment2VerExtract -------------------------
(***************************************************************************)
(* The sweep of Experiment2Ver/extract_data.py.  Its shape is that of      *)
(* Experiment1 (one node's records, at most one statistic per metric per   *)
(* file, two lists, two rows per point); what differs is the record type   *)
(* ("statistic"), the count filter ("if count > 0") and the emission rule: *)
(* a row is written as soon as a list holds one statistic, and a list of   *)
(* one is written as it is, without going through combine_samples.         *)
(***************************************************************************)
EXTENDS Integers, Sequences, FiniteSets, CombineSamples

LOCAL Seqs == INSTANCE SequencesExt
LOCAL INSTANCE Functions

CONSTANTS
  Points,        \* the sweep points in iteration order (a sequence)
  FilesOf,       \* FilesOf[p]: the result files the glob finds for p
  SampleSet,     \* statistics a file's statistic record may carry
  ReaderMayFail, \* whether a file may be one the reader raises on
  Absent,        \* no record of that metric in the file
  Malformed,     \* a file the reader raises on
  Unread         \* a file not read yet

ASSUME Points \in Seq(DOMAIN FilesOf) /\ ReaderMayFail \in BOOLEAN

Metrics == {"updateDelay", "seqnoDelta"}

AllFiles == UNION {FilesOf[p] : p \in DOMAIN FilesOf}

\* read_result_files filtered to type "statistic" and the two names.
FileContents ==
  [Metrics -> SampleSet \cup {Absent}] \cup (IF ReaderMayFail THEN {Malformed} ELSE {})

VARIABLES
  k, pc, pending,
  seqno_delta_average_data,
  delay_average_data,
  out,       \* out[m]: the rows written and flushed to m's CSV file
  seen       \* seen[f]: what reading f returned (history, for properties)

vars == <<k, pc, pending, seqno_delta_average_data, delay_average_data, out, seen>>

ListOf(m) == IF m = "updateDelay" THEN delay_average_data ELSE seqno_delta_average_data

\* "if count > 0: ...append((avg, stddev, count))"
Appended(c, m) == IF c[m] # Absent /\ c[m].cnt > 0 THEN <<c[m]>> ELSE <<>>

Init ==
  /\ k = 1
  /\ pc = IF Len(Points) = 0 THEN "done" ELSE "start"
  /\ pending = {}
  /\ seqno_delta_average_data = <<>>
  /\ delay_average_data = <<>>
  /\ out = [m \in Metrics |-> <<>>]
  /\ seen = [f \in AllFiles |-> Unread]

\* Mutant: a glob pattern that leaves out the point's dimensions.
StartPoint_broad_glob ==
  /\ pc = "start"
  /\ seqno_delta_average_data' = <<>>
  /\ delay_average_data' = <<>>
  /\ pending' = AllFiles
  /\ pc' = "read"
  /\ UNCHANGED <<k, out, seen>>

StartPoint ==
  /\ pc = "start"
  /\ seqno_delta_average_data' = <<>>
  /\ delay_average_data' = <<>>
  /\ pending' = FilesOf[Points[k]]
  /\ pc' = "read"
  /\ UNCHANGED <<k, out, seen>>

ReadFile ==
  /\ pc = "read"
  /\ \E f \in pending, c \in FileContents \ {Malformed} :
       /\ pending' = pending \ {f}
       /\ seen' = [seen EXCEPT ![f] = c]
       /\ delay_average_data' = delay_average_data \o Appended(c, "updateDelay")
       /\ seqno_delta_average_data' = seqno_delta_average_data \o Appended(c, "seqnoDelta")
  /\ UNCHANGED <<k, pc, out>>

\* The reader raises; there is no try in this script.
ReadFileFails ==
  /\ pc = "read"
  /\ ReaderMayFail
  /\ \E f \in pending :
       /\ seen' = [seen EXCEPT ![f] = Malformed]
       /\ pending' = pending \ {f}
  /\ pc' = "aborted"
  /\ UNCHANGED <<k, seqno_delta_average_data, delay_average_data, out>>

FilesRead ==
  /\ pc = "read"
  /\ pending = {}
  /\ pc' = "emit_seqno"
  /\ UNCHANGED <<k, pending, seqno_delta_average_data, delay_average_data, out, seen>>

\* Mutant: the fold run only "if len(data) > 1", the single statistic
\* otherwise dropped in favour of the zero tuple.
EmitRow_single_as_zero(m) ==
  LET l   == ListOf(m)
      row == [point |-> Points[k],
              stat  |-> IF Len(l) > 1 THEN combine_sample_list(l) ELSE ZeroStat]
  IN  out' = [out EXCEPT ![m] = IF Len(l) > 0 THEN Append(out[m], row) ELSE out[m]]

(***************************************************************************)
(* "if len(data) > 0": avg, std, cnt = data[0]; the fold over data[1:]     *)
(* only "if len(data) > 1"; write and flush.                               *)
(***************************************************************************)
EmitRow(m) ==
  LET l   == ListOf(m)
      row == [point |-> Points[k],
              stat  |-> IF Len(l) > 1 THEN combine_sample_list(l) ELSE l[1]]
  IN  out' = [out EXCEPT ![m] = IF Len(l) > 0 THEN Append(out[m], row) ELSE out[m]]

EmitSeqno ==
  /\ pc = "emit_seqno"
  /\ EmitRow("seqnoDelta")
  /\ pc' = "emit_delay"
  /\ UNCHANGED <<k, pending, seqno_delta_average_data, delay_average_data, seen>>

EmitDelay ==
  /\ pc = "emit_delay"
  /\ EmitRow("updateDelay")
  /\ k' = k + 1
  /\ pc' = IF k < Len(Points) THEN "start" ELSE "done"
  /\ UNCHANGED <<pending, seqno_delta_average_data, delay_average_data, seen>>

Next ==
  \/ StartPoint \/ ReadFile \/ ReadFileFails \/ FilesRead
  \/ EmitSeqno \/ EmitDelay

\* A single sequential process; it stops at "done" or "aborted".
Spec == Init /\ [][Next]_vars /\ WF_vars(Next)

-----------------------------------------------------------------------------
ReadOK(p) == {f \in FilesOf[p] : seen[f] \notin {Unread, Malformed}}

\* The statistics of metric m with count > 0 that p's read files carried.
FileSamples(p, m) ==
  LET fs == Seqs!SetToSeq({f \in ReadOK(p) : seen[f][m] # Absent /\ seen[f][m].cnt > 0})
  IN  [j \in DOMAIN fs |-> seen[fs[j]][m]]

RowWritten(p, m) == \E j \in 1..Len(out[m]) : out[m][j].point = p

TypeOK ==
  /\ k \in 1..(Len(Points) + 1)
  /\ pc \in {"start", "read", "emit_seqno", "emit_delay", "done", "aborted"}
  /\ pc = "read" => pending \subseteq FilesOf[Points[k]]
  /\ seqno_delta_average_data \in Seq(SampleSet)
  /\ delay_average_data \in Seq(SampleSet)
  /\ \A m \in Metrics : \A j \in 1..Len(out[m]) : out[m][j].point \in Range(Points)

(***************************************************************************)
(* Spec 4.2's fold, whatever the glob order: a row built from one          *)
(* statistic is that statistic (the first element is the accumulator);     *)
(* from two or more, it has the pooled count and mean of those with        *)
(* count > 1 (0 and 0 when there are none).                                *)
(***************************************************************************)
RowIsFoldOfFiles ==
  \A m \in Metrics : \A j \in 1..Len(out[m]) :
    LET r == out[m][j]
        s == FileSamples(r.point, m)
    IN  IF Len(s) = 1 THEN r.stat = s[1]
        ELSE /\ r.stat.cnt = PooledCount(s)
             /\ r.stat.avg = PooledMean(s)
====
