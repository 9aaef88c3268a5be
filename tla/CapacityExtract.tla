--------------------------- MODULE CapacityExtract ---------------------------
(***************************************************************************)
(* The capacity steps of Experiment5/plot_data.py, in the order its        *)
(* __main__ runs them: extract_reliability_capacity_data,                 *)
(* plot_reliability_capacity_data, extract_delay_capacity_data,           *)
(* plot_delay_capacity_data.                                               *)
(*                                                                         *)
(* Each extract function reads a positional table (seqno delta for the     *)
(* reliability step, update delay for the delay step), writes back the     *)
(* header and the rows whose average (column -3) is below the step's       *)
(* threshold, re-reads that file with pandas, groups it by every key but   *)
(* update_period and keeps each group's minimum update period.  Each plot  *)
(* function then draws, for each separation and node position, one line    *)
(* per series (beacon period, summaries, repetitions) of that capacity     *)
(* against the grid size.  __main__ then calls four figure functions,      *)
(* the plot_summ_effect and plot_num_rep_effect ones, that draw the        *)
(* positional tables themselves, one line per key but the update period.   *)
(*                                                                         *)
(* A table row is keyed by [grid, sep, ser, period, pos]: ser stands for   *)
(* the (beaconperiod, repetitions, summaries) triple the plot's series     *)
(* loop walks.  Its average is a value of Values, or the row is Missing    *)
(* (the extractor wrote no row for that key).                              *)
(***************************************************************************)
EXTENDS Integers, Sequences, FiniteSets

LOCAL Seqs == INSTANCE SequencesExt

CONSTANTS
  Grids, Seps, Sers, Periods, Positions, \* the sweep lists, as sequences
  Values,          \* the averages a row may hold
  Threshold,       \* the 1.5 of "if float(data[i][-3]) < 1.5"
  DelayThreshold,  \* the 250 of "if float(data[i][-3]) < 250"
  Missing          \* no row for that key

R(s) == Seqs!Range(s)

Keys == [grid : R(Grids), sep : R(Seps), ser : R(Sers), period : R(Periods), pos : R(Positions)]

Steps == {"reliability", "delay"}

\* The threshold each step's extract function filters with.
Limit(st) == IF st = "reliability" THEN Threshold ELSE DelayThreshold

\* A capacity row is keyed by the groupby columns: every key but the period.
Group(key) == [grid |-> key.grid, sep |-> key.sep, ser |-> key.ser, pos |-> key.pos]

VARIABLES
  data,      \* data[st]: the positional table step st reads, data[st][key] or Missing
  step,      \* "reliability", then "delay"
  phase,     \* "filter", "plot", "next", "done", "aborted"
  todo,      \* the rows of the table not yet filtered
  filtered,  \* the rows written to the capacity file
  capacity,  \* after the groupby: the groups with their minimum period
  fig, ser,  \* the plot loops: figure (sep, pos) and series indices
  plotted,   \* the lines drawn: [step, sep, pos, ser, points]
  ef,        \* the next of the four figure functions of Effects
  figures    \* the lines each figure function drew: [fn, lines]

effect_vars == <<ef, figures>>
vars == <<data, step, phase, todo, filtered, capacity, fig, ser, plotted, ef, figures>>

\* The rows step st's input file holds.  Their order (the extractor's loop
\* order) is fixed; any fixed order gives the same groups and minima, so
\* the filter loop takes them in the order CHOOSE fixes.
Table(st) == {key \in Keys : data[st][key] # Missing}

\* "for sep in separation: for pos in node_poss:" one figure each.
Figures == [j \in 1..(Len(Seps) * Len(Positions)) |->
              <<Seps[(j - 1) \div Len(Positions) + 1], Positions[((j - 1) % Len(Positions)) + 1]>>]

\* x, y of the current series: grid sizes and update periods of the
\* capacity rows of the figure's separation and position and the series.
SeriesPoints ==
  {<<c.g.grid, c.period>> : c \in {c \in capacity : /\ c.g.sep = Figures[fig][1] /\ c.g.ser = Sers[ser]
                                                    /\ c.g.pos = Figures[fig][2]}}

DrawnLine == [step |-> step, sep |-> Figures[fig][1], pos |-> Figures[fig][2], ser |-> Sers[ser],
              points |-> SeriesPoints]

Init ==
  /\ data \in [Steps -> [Keys -> Values \cup {Missing}]]
  /\ step = "reliability"
  /\ phase = "filter"
  /\ todo = Table("reliability")
  /\ filtered = {}
  /\ capacity = {}
  /\ fig = 1
  /\ ser = 1
  /\ plotted = {}
  /\ ef = 1
  /\ figures = {}

\* Mutant: "<= 1.5", a row exactly at the threshold counted reliable.
FilterRow_le ==
  /\ phase = "filter"
  /\ todo # {}
  /\ LET key == CHOOSE key \in todo : TRUE
     IN  /\ filtered' = IF data[step][key] <= Limit(step) THEN filtered \cup {key} ELSE filtered
         /\ todo' = todo \ {key}
  /\ UNCHANGED <<data, step, phase, capacity, fig, ser, plotted, ef, figures>>

\* One iteration of "for i in range(len(data))": keep a row under the
\* threshold.
FilterRow ==
  /\ phase = "filter"
  /\ todo # {}
  /\ LET key == CHOOSE key \in todo : TRUE
     IN  /\ filtered' = IF data[step][key] < Limit(step) THEN filtered \cup {key} ELSE filtered
         /\ todo' = todo \ {key}
  /\ UNCHANGED <<data, step, phase, capacity, fig, ser, plotted, ef, figures>>

(***************************************************************************)
(* f.close(); pd.read_csv; groupby(all keys but update_period);           *)
(* min(...).to_csv: the file is replaced by one row per group holding the  *)
(* group's least update period.                                            *)
(***************************************************************************)
GroupMin ==
  /\ phase = "filter"
  /\ todo = {}
  /\ capacity' = {[g |-> g, period |-> Seqs!Min({key.period : key \in {key \in filtered : Group(key) = g}})] :
                    g \in {Group(key) : key \in filtered}}
  /\ phase' = "plot"
  /\ UNCHANGED <<data, step, todo, filtered, fig, ser, plotted, ef, figures>>

\* The end of one series: the next series, or the next figure, or, after
\* the last figure, the function returns (phase after).
NextSeries(after) ==
  IF ser < Len(Sers)
  THEN ser' = ser + 1 /\ UNCHANGED <<fig, phase>>
  ELSE /\ ser' = 1
       /\ fig' = fig + 1
       /\ phase' = IF fig < Len(Figures) THEN "plot" ELSE after

(***************************************************************************)
(* One series of a reliability figure: plt.plot(x, y); then               *)
(* max_av = max(max(y), max_av), which raises ValueError on an empty y and *)
(* ends the script.                                                        *)
(***************************************************************************)
PlotSeries ==
  /\ phase = "plot"
  /\ step = "reliability"
  /\ IF SeriesPoints = {}
     THEN /\ phase' = "aborted"
          /\ UNCHANGED <<fig, ser, plotted>>
     ELSE /\ plotted' = plotted \cup {DrawnLine}
          /\ NextSeries("next")
  /\ UNCHANGED <<data, step, todo, filtered, capacity, ef, figures>>

\* Mutant: extract_delay_capacity_data opening the seqno table its
\* reliability twin reads, a copied file name.
StartDelay_reads_seqno_file ==
  /\ phase = "next"
  /\ step' = "delay"
  /\ phase' = "filter"
  /\ todo' = Table("reliability")
  /\ filtered' = {}
  /\ capacity' = {}
  /\ fig' = 1
  /\ ser' = 1
  /\ UNCHANGED <<data, plotted, ef, figures>>

(***************************************************************************)
(* __main__ goes on to extract_delay_capacity_data: the delay table is     *)
(* read, its capacity file opened, and the filter loop starts afresh.      *)
(***************************************************************************)
StartDelay ==
  /\ phase = "next"
  /\ step' = "delay"
  /\ phase' = "filter"
  /\ todo' = Table("delay")
  /\ filtered' = {}
  /\ capacity' = {}
  /\ fig' = 1
  /\ ser' = 1
  /\ UNCHANGED <<data, plotted, ef, figures>>

(***************************************************************************)
(* One series of a delay figure: plt.plot(x, y) draws the line, empty or  *)
(* not, and "if len(y) > 0:" guards the max, so nothing raises.            *)
(***************************************************************************)
PlotDelaySeries ==
  /\ phase = "plot"
  /\ step = "delay"
  /\ plotted' = plotted \cup {DrawnLine}
  /\ NextSeries("effects")
  /\ UNCHANGED <<data, step, todo, filtered, capacity, ef, figures>>

(***************************************************************************)
(* The four figure functions, in __main__'s order, and the table each     *)
(* reads: rawresults/experiment3_avg_update_delay_pos.csv or               *)
(* .._seqno_delta_pos.csv, the files the capacity steps read, not the      *)
(* capacity files they wrote.                                              *)
(***************************************************************************)
Effects ==
  << [fn |-> "plot_summ_effect_update_delay", step |-> "delay"],
     [fn |-> "plot_summ_effect_seqno_delta", step |-> "reliability"],
     [fn |-> "plot_num_rep_effect_seqno_delta", step |-> "reliability"],
     [fn |-> "plot_num_rep_effect_update_delay", step |-> "delay"] >>

\* The rows of table st with every key but the update period equal to q's.
SeriesOf(st, q) ==
  {key \in Table(st) : key.grid = q.grid /\ key.sep = q.sep /\ key.ser = q.ser /\ key.pos = q.pos}

\* The lines one figure function draws: for each separation, series, grid
\* size and position (the order and grouping into figures is layout),
\* "if len(x) > 0: ax.errorbar(x, y, ...)" with x the update periods and
\* y the averages of the matching rows.  Every dictionary these functions
\* index (ylims, colours, lines_tl, marker_assign) has a key for every
\* value of the sweep lists, so none raises.
EffectLines(st) ==
  {[grid |-> q.grid, sep |-> q.sep, ser |-> q.ser, pos |-> q.pos,
    points |-> {<<key.period, data[st][key]>> : key \in SeriesOf(st, q)}] :
     q \in {q \in [grid : R(Grids), sep : R(Seps), ser : R(Sers), pos : R(Positions)] : SeriesOf(st, q) # {}}}

\* One call of a figure function, after the capacity steps.
PlotEffect ==
  /\ phase = "effects"
  /\ figures' = figures \cup {[fn |-> Effects[ef].fn, lines |-> EffectLines(Effects[ef].step)]}
  /\ ef' = ef + 1
  /\ phase' = IF ef < Len(Effects) THEN "effects" ELSE "done"
  /\ UNCHANGED <<data, step, todo, filtered, capacity, fig, ser, plotted>>

Next == FilterRow \/ GroupMin \/ PlotSeries \/ StartDelay \/ PlotDelaySeries \/ PlotEffect

\* One sequential process; it stops at "done" or "aborted".
Spec == Init /\ [][Next]_vars /\ WF_vars(Next)

-----------------------------------------------------------------------------
\* The periods at which a key of step st's sweep was measured under the
\* step's threshold.
ReliableAt(st, grid, sep, s, pos) ==
  {p \in R(Periods) : LET v == data[st][[grid |-> grid, sep |-> sep, ser |-> s, period |-> p, pos |-> pos]]
                      IN  v # Missing /\ v < Limit(st)}

\* The type invariant; its todo conjunct says the filter loop of each step
\* walks the rows of the table that step reads, and no other.
TypeOK ==
  /\ step \in Steps
  /\ phase \in {"filter", "plot", "next", "effects", "done", "aborted"}
  /\ ef \in 1..(Len(Effects) + 1)
  /\ todo \subseteq Table(step)
  /\ filtered \subseteq Keys
  /\ fig \in 1..(Len(Figures) + 1)
  /\ ser \in 1..Len(Sers)

(***************************************************************************)
(* Every line drawn, by either plot, shows for each grid size the shortest *)
(* update period whose row of that step's input table was under the        *)
(* step's threshold, and a point for every grid size that had one: the     *)
(* filter, the rewritten file, the groupby minimum and the plot's row      *)
(* selection must agree, and the delay step must not see the reliability   *)
(* step's rows.                                                            *)
(***************************************************************************)
PlotShowsCapacity ==
  \A l \in plotted :
    l.points = {<<g, Seqs!Min(ReliableAt(l.step, g, l.sep, l.ser, l.pos))>> :
                  g \in {g \in R(Grids) : ReliableAt(l.step, g, l.sep, l.ser, l.pos) # {}}}
====
