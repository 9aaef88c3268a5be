------------------------------ MODULE SweepSpec ------------------------------
(***************************************************************************)
(* What a non-positional extractor sweep promises (spec.md 3, 4.1, 4.3):   *)
(* the result files of the sweep points are read, each once; after all the *)
(* files of a point have been read, and after every earlier point is done, *)
(* the point gets, for each metric, a row exactly when at least three of   *)
(* its files delivered a statistic with count >= 1, and that row is the    *)
(* merge of those statistics taken in some order.  Which order is left     *)
(* open: glob order is the filesystem's.                                   *)
(*                                                                         *)
(* A file read as Malformed stops its point from ever being emitted; the   *)
(* specification then only allows further reads and stuttering.           *)
(***************************************************************************)
EXTENDS Integers, Sequences, FiniteSets, CombineSamples

LOCAL Seqs == INSTANCE SequencesExt

CONSTANTS Points, FilesOf, Metrics, Contents, Absent, Malformed, Unread

VARIABLES
  seen,     \* seen[f]: what reading f returned, Unread before
  out,      \* out[m]: the rows written for metric m
  emitted   \* the <<point index, metric>> pairs already decided

vars == <<seen, out, emitted>>

AllFiles == UNION {FilesOf[p] : p \in DOMAIN FilesOf}

Done(j) == \A m \in Metrics : <<j, m>> \in emitted

\* The statistics of metric m with count >= 1 that point j's files hold.
Qualified(j, m) ==
  {f \in FilesOf[Points[j]] : seen[f] \notin {Unread, Malformed} /\ seen[f][m] # Absent
                              /\ seen[f][m].cnt >= 1}

\* The merges of those statistics in every order glob could produce.
Merges(j, m) ==
  {combine_sample_list([i \in DOMAIN o |-> seen[o[i]][m]]) : o \in Seqs!SetToSeqs(Qualified(j, m))}

Init ==
  /\ seen = [f \in AllFiles |-> Unread]
  /\ out = [m \in Metrics |-> <<>>]
  /\ emitted = {}

\* A file of a point not yet decided is read.
Read ==
  \E j \in DOMAIN Points, f \in AllFiles, c \in Contents :
    /\ f \in FilesOf[Points[j]]
    /\ seen[f] = Unread
    /\ \A m \in Metrics : <<j, m>> \notin emitted
    /\ seen' = [seen EXCEPT ![f] = c]
    /\ UNCHANGED <<out, emitted>>

\* The decision for point j and metric m.
Decide ==
  \E j \in DOMAIN Points, m \in Metrics :
    /\ <<j, m>> \notin emitted
    /\ \A i \in 1..(j - 1) : Done(i)
    /\ \A f \in FilesOf[Points[j]] : seen[f] \notin {Unread, Malformed}
    /\ emitted' = emitted \cup {<<j, m>>}
    /\ IF Cardinality(Qualified(j, m)) >= 3
       THEN \E s \in Merges(j, m) : out' = [out EXCEPT ![m] = Append(@, [point |-> Points[j], stat |-> s])]
       ELSE UNCHANGED out
    /\ UNCHANGED seen

Next == Read \/ Decide

Spec == Init /\ [][Next]_vars
====
