------------------------------- MODULE ProcRes -------------------------------
(***************************************************************************)
(* The delay analysis of GridNetworkExperiment/proc_res.py: main() globs   *)
(* the per-run trace files and, for each, get_res_from_file parses the     *)
(* trace, matches every delivery to the latest creation of its sequence    *)
(* number at or before it, and returns the per-variable results (or        *)
(* nothing for a run that did not reach END_TIME).  main() then keeps,     *)
(* for each variable, the target node's delay of every completely          *)
(* delivered update created inside (START_TIME, END_TIME), and files them  *)
(* under the run's density in overall_delays.                              *)
(*                                                                         *)
(* A trace line "address,variable_id,is_producer,seq_no,timestamp" is the  *)
(* record [node, var, prod, seq, ts]; a file's density is the directory   *)
(* name, a string, which the code converts with int(density) in some      *)
(* places only: the model keeps the two dict keys apart as IntKey(d) and  *)
(* StrKey(d), which no Python dict lookup confuses.                        *)
(***************************************************************************)
EXTENDS Integers, Sequences, FiniteSets, TLC

LOCAL Seqs == INSTANCE SequencesExt

CONSTANTS
  Files,        \* the trace files the glob returns
  DensityOf,    \* DensityOf[f]: the density directory f lies in
  TracesOf,     \* TracesOf[d]: the traces a run of density d may leave
  START_TIME, END_TIME,
  TargetSplit,  \* the density above which the second target node is used
  TargetLow, TargetHigh, \* the two target_node addresses
  GridWidth     \* the 10 of "10 x 2 Grid" and of int(density / 10)

\* Density d as a dict key: int(density), and the directory name string.
IntKey(d) == <<"int", d>>
StrKey(d) == <<"str", d>>

\* dict.get(key, default) and d[key] = val for a function used as a dict.
Get(fn, key, dflt) == IF key \in DOMAIN fn THEN fn[key] ELSE dflt
Put(fn, key, val) == [x \in DOMAIN fn \cup {key} |-> IF x = key THEN val ELSE fn[x]]
EmptyDict == [x \in {} |-> <<>>]

VARIABLES
  pending,        \* files not processed yet
  file,           \* the file being processed
  phase,          \* "next", "parse", "match", "agg", "done", "aborted"
  trace, ln,      \* the file's lines and the next line to read
  creation_times, \* creation_times[var][seq_no]: creation timestamps
  creator,        \* creator[var]: node of the last creation line of var
  delays,         \* delays[var][seq_no]: <<node, ts>> of each delivery line
  valid,          \* some creation after END_TIME was seen
  toMatch,        \* variables of creation_times not matched yet
  results,        \* results[var][<<seq_no, created>>]: [created, delays]
  toAgg,          \* variables of data not aggregated yet
  overall_delays, \* keyed by int(density) or by the density string
  collected,      \* collected[d]: every delays_per_var computed for d
  traceOf,        \* traceOf[f]: the trace f was read as (history)
  summary,        \* summary[d]: the lines of summary_results/d.csv
  boxes,          \* the boxplot's boxes: <<density, rows of the grid its label names>>
  titles          \* titles[d]: the grid_size of density d's subplot title

vars == <<pending, file, phase, trace, ln, creation_times, creator, delays,
          valid, toMatch, results, toAgg, overall_delays, collected, traceOf,
          summary, boxes, titles>>

plotVars == <<summary, boxes, titles>>

Densities == {DensityOf[f] : f \in Files}

\* target_node: "if int(density) > 20" picks the second address.
TargetNode(d) == IF d > TargetSplit THEN TargetHigh ELSE TargetLow

Init ==
  /\ pending = Files
  /\ file = CHOOSE f \in Files : TRUE
  /\ phase = IF Files = {} THEN "done" ELSE "next"
  /\ trace = <<>>
  /\ ln = 1
  /\ creation_times = EmptyDict
  /\ creator = EmptyDict
  /\ delays = EmptyDict
  /\ valid = FALSE
  /\ toMatch = {}
  /\ results = EmptyDict
  /\ toAgg = {}
  /\ overall_delays = EmptyDict
  /\ collected = [d \in Densities |-> <<>>]
  /\ traceOf = [f \in Files |-> <<>>]
  /\ summary = EmptyDict
  /\ boxes = <<>>
  /\ titles = EmptyDict

\* Next iteration of "for filename in files": get_res_from_file opens it
\* with empty dictionaries and valid = False.
OpenFile ==
  /\ phase = "next"
  /\ \E f \in pending : \E tr \in TracesOf[DensityOf[f]] :
       /\ pending' = pending \ {f}
       /\ file' = f
       /\ trace' = tr
       /\ traceOf' = [traceOf EXCEPT ![f] = tr]
  /\ phase' = "parse"
  /\ ln' = 1
  /\ creation_times' = EmptyDict
  /\ creator' = EmptyDict
  /\ delays' = EmptyDict
  /\ valid' = FALSE
  /\ results' = EmptyDict
  /\ UNCHANGED <<toMatch, toAgg, overall_delays, collected>>
  /\ UNCHANGED plotVars

\* A line with is_producer = 1: record the creation and its creator.
ParseCreation ==
  /\ phase = "parse"
  /\ ln <= Len(trace)
  /\ trace[ln].prod = 1
  /\ LET l == trace[ln]
         var == Get(creation_times, l.var, EmptyDict)
     IN  /\ creation_times' = Put(creation_times, l.var,
                                  Put(var, l.seq, Append(Get(var, l.seq, <<>>), l.ts)))
         /\ creator' = Put(creator, l.var, l.node)
         /\ valid' = (valid \/ l.ts > END_TIME)
  /\ ln' = ln + 1
  /\ UNCHANGED <<pending, file, phase, trace, delays, toMatch, results, toAgg,
                 overall_delays, collected, traceOf>>
  /\ UNCHANGED plotVars

\* Any other line: record the delivery.
ParseDelivery ==
  /\ phase = "parse"
  /\ ln <= Len(trace)
  /\ trace[ln].prod # 1
  /\ LET l == trace[ln]
         var == Get(delays, l.var, EmptyDict)
     IN  delays' = Put(delays, l.var, Put(var, l.seq, Append(Get(var, l.seq, <<>>), <<l.node, l.ts>>)))
  /\ ln' = ln + 1
  /\ UNCHANGED <<pending, file, phase, trace, creation_times, creator, valid,
                 toMatch, results, toAgg, overall_delays, collected, traceOf>>
  /\ UNCHANGED plotVars

\* readline() returns "": on to "for var in list(creation_times.keys())".
EndOfTrace ==
  /\ phase = "parse"
  /\ ln > Len(trace)
  /\ phase' = "match"
  /\ toMatch' = DOMAIN creation_times
  /\ UNCHANGED <<pending, file, trace, ln, creation_times, creator, delays, valid,
                 results, toAgg, overall_delays, collected, traceOf>>
  /\ UNCHANGED plotVars

\* Mutant: "if creates[i + 1] >= time", a delivery at the very instant of
\* a re-creation going to the older creation.
RECURSIVE SearchFrom_ge(_, _, _)
SearchFrom_ge(creates, time, i) ==
  IF i < Len(creates) /\ ~(creates[i + 1] >= time) THEN SearchFrom_ge(creates, time, i + 1) ELSE i

(***************************************************************************)
(* The while loop: advance i while a later creation is not after time.     *)
(* 1-based: the result indexes the latest creation <= time, or the first   *)
(* creation when every creation is after time.                             *)
(***************************************************************************)
RECURSIVE SearchFrom(_, _, _)
SearchFrom(creates, time, i) ==
  IF i < Len(creates) /\ ~(creates[i + 1] > time) THEN SearchFrom(creates, time, i + 1) ELSE i

(***************************************************************************)
(* The body of "for var in ...": every delivery of a sequence number to a  *)
(* node other than the creator is filed, with its delay, under the key     *)
(* "seq_no:created" of the creation the search picks.  ("Something has    *)
(* gone wrong" is printed when that creation is after the delivery, and   *)
(* the delivery is filed all the same.)                                    *)
(***************************************************************************)
MatchVar(v) ==
  LET ct         == creation_times[v]
      creates(s) == SortSeq(ct[s], <)
      deliv(s)   == SelectSeq(Get(delays[v], s, <<>>), LAMBDA d : d[1] # creator[v])
      keyOf(s, t) == <<s, creates(s)[SearchFrom(creates(s), t, 1)]>>
      keys       == UNION {{keyOf(s, d[2]) : d \in Seqs!Range(deliv(s))} : s \in DOMAIN ct}
      filed(key) == SelectSeq(deliv(key[1]), LAMBDA d : keyOf(key[1], d[2]) = key)
  IN  [key \in keys |->
         [created |-> key[2],
          delays  |-> [j \in DOMAIN filed(key) |-> <<filed(key)[j][1], filed(key)[j][2] - key[2]>>]]]

\* One variable; delays[var] raises KeyError for one never delivered.
MatchVariable ==
  /\ phase = "match"
  /\ \E v \in toMatch :
       /\ toMatch' = toMatch \ {v}
       /\ IF v \in DOMAIN delays
          THEN /\ results' = Put(results, v, MatchVar(v))
               /\ UNCHANGED phase
          ELSE /\ phase' = "aborted"
               /\ UNCHANGED results
  /\ UNCHANGED <<pending, file, trace, ln, creation_times, creator, delays, valid,
                 toAgg, overall_delays, collected, traceOf>>
  /\ UNCHANGED plotVars

\* Mutant: "return results" whatever valid is.
ReturnResults_ignores_valid ==
  /\ phase = "match"
  /\ toMatch = {}
  /\ IF DOMAIN results # {}
     THEN /\ phase' = "agg"
          /\ toAgg' = DOMAIN results
     ELSE /\ phase' = IF pending = {} THEN "done" ELSE "next"
          /\ UNCHANGED toAgg
  /\ UNCHANGED <<pending, file, trace, ln, creation_times, creator, delays, valid,
                 toMatch, results, overall_delays, collected, traceOf>>
  /\ UNCHANGED plotVars

\* "if valid: return results else: return dict()", then main's
\* "if len(list(data.keys())) == 0: Ignoring data ...".
ReturnResults ==
  /\ phase = "match"
  /\ toMatch = {}
  /\ IF valid /\ DOMAIN results # {}
     THEN /\ phase' = "agg"
          /\ toAgg' = DOMAIN results
     ELSE /\ phase' = IF pending = {} THEN "done" ELSE "next"
          /\ UNCHANGED toAgg
  /\ UNCHANGED <<pending, file, trace, ln, creation_times, creator, delays, valid,
                 toMatch, results, overall_delays, collected, traceOf>>
  /\ UNCHANGED plotVars

(***************************************************************************)
(* delays_per_var for one variable's results at density d: for each key   *)
(* whose update was created strictly inside (START_TIME, END_TIME) and was *)
(* delivered at least d - 1 times, the first delay to the target node.    *)
(***************************************************************************)
\* Mutant: the completeness test one delivery short.
Complete_off_by_one(entry, d) == Len(entry.delays) > 0 /\ ~(Len(entry.delays) < d - 2)

Complete(entry, d) == Len(entry.delays) > 0 /\ ~(Len(entry.delays) < d - 1)

DelaysPerVar(res, d) ==
  LET ok(key) == /\ START_TIME < res[key].created /\ res[key].created < END_TIME
                 /\ Complete(res[key], d)
                 /\ \E j \in DOMAIN res[key].delays : res[key].delays[j][1] = TargetNode(d)
      ks == Seqs!SetToSeq({key \in DOMAIN res : ok(key)})
      first(key) == LET r == SelectSeq(res[key].delays, LAMBDA x : x[1] = TargetNode(d))
                    IN  r[1][2]
  IN  [j \in DOMAIN ks |-> first(ks[j])]

\* Mutant: the write forgets int(), keying overall_delays by the string.
AggregateVariable_str_key ==
  /\ phase = "agg"
  /\ \E v \in toAgg :
       LET d   == DensityOf[file]
           dpv == DelaysPerVar(results[v], d)
       IN  /\ overall_delays' = Put(overall_delays, StrKey(d), Get(overall_delays, StrKey(d), <<>>) \o dpv)
           /\ collected' = [collected EXCEPT ![d] = @ \o dpv]
           /\ toAgg' = toAgg \ {v}
           /\ phase' = IF toAgg = {v} THEN IF pending = {} THEN "done" ELSE "next" ELSE "agg"
  /\ UNCHANGED <<pending, file, trace, ln, creation_times, creator, delays, valid,
                 toMatch, results, traceOf>>
  /\ UNCHANGED plotVars

(***************************************************************************)
(* One "for v in data.keys()" iteration: d_set = overall_delays.get(       *)
(* density, []), d_set += delays_per_var, overall_delays[int(density)] =   *)
(* d_set.  The read uses the directory string, the write the integer.     *)
(***************************************************************************)
AggregateVariable ==
  /\ phase = "agg"
  /\ \E v \in toAgg :
       LET d   == DensityOf[file]
           dpv == DelaysPerVar(results[v], d)
       IN  /\ overall_delays' = Put(overall_delays, IntKey(d), Get(overall_delays, StrKey(d), <<>>) \o dpv)
           /\ collected' = [collected EXCEPT ![d] = @ \o dpv]
           /\ toAgg' = toAgg \ {v}
           /\ phase' = IF toAgg = {v} THEN IF pending = {} THEN "done" ELSE "next" ELSE "agg"
  /\ UNCHANGED <<pending, file, trace, ln, creation_times, creator, delays, valid,
                 toMatch, results, traceOf>>
  /\ UNCHANGED plotVars

\* sorted(list(overall_delays.keys())): the densities with a summary.
SortedDensities == SortSeq(Seqs!SetToSeq({key[2] : key \in DOMAIN overall_delays}), <)

\* labels = ["Linear", "10 x 2 Grid", "10 x 3 Grid"][:n], each label given
\* as the number of GridWidth-wide rows of the grid it names.
BoxLabelRows(n) == SubSeq(<<1, 2, 3>>, 1, IF n < 3 THEN n ELSE 3)

(***************************************************************************)
(* After the file loop: one summary_results/<density>.csv per density, in  *)
(* sorted order, holding its delays; then the boxplot, one box per density *)
(* labelled by position.  boxplot raises when there are more boxes than    *)
(* labels (more than three densities).                                     *)
(***************************************************************************)
WriteSummaries ==
  /\ phase = "done"
  /\ LET ds     == SortedDensities
         labels == BoxLabelRows(Len(ds))
     IN  /\ summary' = [d \in Seqs!Range(ds) |-> overall_delays[IntKey(d)]]
         /\ IF Len(labels) = Len(ds)
            THEN /\ boxes' = [j \in DOMAIN ds |-> <<ds[j], labels[j]>>]
                 /\ phase' = "boxed"
            ELSE /\ phase' = "aborted"
                 /\ UNCHANGED boxes
  /\ UNCHANGED <<pending, file, trace, ln, creation_times, creator, delays, valid,
                 toMatch, results, toAgg, overall_delays, collected, traceOf, titles>>

(***************************************************************************)
(* The histogram grid: dim_x = ceil(sqrt(n)), dim_y = ceil(n / dim_x),     *)
(* fig.subplots(dim_x, dim_y).flatten(), one subplot per density titled    *)
(* with grid_size = int(density / 10).  With one density subplots returns  *)
(* a single Axes, which has no flatten; with none, it rejects 0 rows.      *)
(***************************************************************************)
PlotGrid ==
  /\ phase = "boxed"
  /\ LET ds == SortedDensities
     IN  IF Len(ds) > 1
         THEN /\ titles' = [d \in Seqs!Range(ds) |-> d \div GridWidth]
              /\ phase' = "shown"
         ELSE /\ phase' = "aborted"
              /\ UNCHANGED titles
  /\ UNCHANGED <<pending, file, trace, ln, creation_times, creator, delays, valid,
                 toMatch, results, toAgg, overall_delays, collected, traceOf,
                 summary, boxes>>

Next ==
  \/ OpenFile \/ ParseCreation \/ ParseDelivery \/ EndOfTrace
  \/ MatchVariable \/ ReturnResults \/ AggregateVariable
  \/ WriteSummaries \/ PlotGrid

\* A single sequential process that stops at "shown" or "aborted".
Spec == Init /\ [][Next]_vars /\ WF_vars(Next)

-----------------------------------------------------------------------------
(***************************************************************************)
(* Reference definitions, read off a trace directly: the creations of a    *)
(* (variable, sequence number), its creator (the node of its last          *)
(* creation line), the creation a delivery at time t belongs to (the       *)
(* latest one at or before t; the first if there is none), and the         *)
(* results get_res_from_file should return for a variable.                 *)
(***************************************************************************)
CreationsOf(tr, v, s) ==
  {tr[j].ts : j \in {j \in DOMAIN tr : tr[j].prod = 1 /\ tr[j].var = v /\ tr[j].seq = s}}

CreatorOf(tr, v) ==
  tr[Seqs!Max({j \in DOMAIN tr : tr[j].prod = 1 /\ tr[j].var = v})].node

Owner(tr, v, s, t) ==
  LET C == CreationsOf(tr, v, s)
  IN  IF \E c \in C : c <= t THEN Seqs!Max({c \in C : c <= t}) ELSE Seqs!Min(C)

DeliveriesOf(tr, v, s) ==
  SelectSeq(tr, LAMBDA l : l.prod # 1 /\ l.var = v /\ l.seq = s /\ l.node # CreatorOf(tr, v))

RefResult(tr, v) ==
  LET seqs == {tr[j].seq : j \in {j \in DOMAIN tr : tr[j].prod = 1 /\ tr[j].var = v}}
      owned(s, c) == SelectSeq(DeliveriesOf(tr, v, s), LAMBDA l : Owner(tr, v, s, l.ts) = c)
      keys == UNION {{<<s, Owner(tr, v, s, l.ts)>> : l \in Seqs!Range(DeliveriesOf(tr, v, s))} : s \in seqs}
  IN  [key \in keys |->
         [created |-> key[2],
          delays  |-> [j \in DOMAIN owned(key[1], key[2]) |->
                        <<owned(key[1], key[2])[j].node, owned(key[1], key[2])[j].ts - key[2]>>]]]

\* The target node's delays of the updates of a run of density d that were
\* created inside the window and reached every other node of the run.
GoodDelays(tr, d) ==
  { l.ts - Owner(tr, l.var, l.seq, l.ts) :
      l \in {l \in Seqs!Range(tr) :
               /\ l.prod # 1 /\ l.node = TargetNode(d)
               /\ CreationsOf(tr, l.var, l.seq) # {}
               /\ l.node # CreatorOf(tr, l.var)
               /\ LET c == Owner(tr, l.var, l.seq, l.ts)
                  IN  /\ START_TIME < c /\ c < END_TIME
                      /\ Cardinality({x.node : x \in {x \in Seqs!Range(DeliveriesOf(tr, l.var, l.seq)) :
                                         Owner(tr, l.var, l.seq, x.ts) = c}}) >= d - 1} }

Valid(tr) == \E j \in DOMAIN tr : tr[j].prod = 1 /\ tr[j].ts > END_TIME

TypeOK ==
  /\ phase \in {"next", "parse", "match", "agg", "done", "boxed", "shown", "aborted"}
  /\ pending \subseteq Files
  /\ ln \in 1..(Len(trace) + 1)
  /\ toMatch \subseteq DOMAIN creation_times
  /\ toAgg \subseteq DOMAIN results
  /\ DOMAIN overall_delays \subseteq {IntKey(d) : d \in Densities}
  /\ \A key \in DOMAIN overall_delays : overall_delays[key] \in Seq(Int)

(***************************************************************************)
(* get_res_from_file: every variable's results file each delivery to a     *)
(* node other than the creator under the latest creation of its sequence   *)
(* number at or before it, with delay = delivery time - creation time,     *)
(* and nothing else; the parse, the sort and the search must all agree.   *)
(***************************************************************************)
ResultsMatchTrace ==
  phase \in {"match", "agg"} => \A v \in DOMAIN results : results[v] = RefResult(trace, v)

(***************************************************************************)
(* main(): every delay in the summary for density d is the target node's   *)
(* delay of an update, created inside (START_TIME, END_TIME) in a run of   *)
(* density d that reached END_TIME, that every other node received.        *)
(***************************************************************************)
SummaryFromCompleteUpdates ==
  \A d \in Densities : \A x \in Seqs!Range(Get(overall_delays, IntKey(d), <<>>)) :
    \E f \in Files \ pending :
      DensityOf[f] = d /\ Valid(traceOf[f]) /\ x \in GoodDelays(traceOf[f], d)

(***************************************************************************)
(* Between files, the summary for density d holds every delay computed for *)
(* d so far, of every variable of every file of that density.             *)
(***************************************************************************)
OverallKeepsEveryVariable ==
  phase \in {"next", "done"} =>
    \A d \in Densities : Len(Get(overall_delays, IntKey(d), <<>>)) = Len(collected[d])

(***************************************************************************)
(* The summary files: once main() has written them, there is one for each *)
(* density that had a run reaching END_TIME, and for no other: a run       *)
(* get_res_from_file judges incomplete contributes no file, and no valid   *)
(* run is dropped on the way.                                              *)
(***************************************************************************)
SummaryForEveryValidDensity ==
  phase \in {"boxed", "shown"} =>
    DOMAIN summary = {d \in Densities : \E f \in Files : DensityOf[f] = d /\ Valid(traceOf[f])}
====
