# TLA+ models of the dcp-vardis result post-processing

The repository's analysis code (`src/simulation-code-paper/srp_vardis/simulations/`)
is a set of single-threaded Python batch scripts. They read the result files of
many simulation runs, merge per-run sample statistics (mean, stddev, count) into
one aggregate per sweep point, and write the aggregates as CSV rows. This
directory holds TLA+ models of those scripts. TLC checks what the rows are
guaranteed to contain, and where the scripts depart from `spec.md`.

## 1. Inventory of the system

| Part (spec.md name) | Code | State | Operations |
|---|---|---|---|
| Statistic Merger | `combine_samples`, `combine_sample_list` (five identical copies; Experiment5/extract_data.py:8-35) | none (pure) | binary merge with the degenerate rule; left fold |
| Sample Extractor | the per-file body of each `extract_data.py` (Exp1:57-96, Exp5:84-118, Exp2Ver, Flooding) | the per-point sample lists | read a file; filter by type and name; append a count-filtered sample (non-positional), or a whole-run fold plus three node samples (positional); recover from `KeyError` (Exp5 only) |
| Sweep Orchestrator | the nested `itertools.product` / `for n` loops | the loop position, the lists, the glob result | reset lists per point; glob; read each file; fold and emit each list with more than 2 elements |
| Result Writer | the `open(...,"w")` / `write` / `flush` / `close` calls | one open CSV per table | header at start; one row per emission, flushed; close at end |
| Delay analysis (not in spec.md) | GridNetworkExperiment/proc_res.py | per-file creation and delivery dictionaries; `overall_delays` | parse trace lines; match each delivery to a creation; aggregate per density |
| Plotting (out of the spec's scope) | the `plot_data.py` files | the figures drawn; Experiment5's capacity files | read the CSVs an extractor wrote and draw one line per parameter combination; Experiment5 also extracts and draws capacity curves |

How the parts interact: the Orchestrator runs through the sweep points in order.
For each point it globs the files and passes each file to the Extractor, which
appends samples to lists the Orchestrator owns. It then folds each list through
the Merger and hands the result to the Writer. Nothing runs concurrently. The
nondeterminism the scripts meet is all in their input:

- glob order (`glob.iglob` over a file system);
- the content of each file, including missing statistics and degenerate counts;
- reader failures.

The models therefore choose these nondeterministically. The hard behaviours are
the following:

- folds whose result depends on the order of the samples;
- degenerate samples (count 0 or 1) interleaved with normal ones;
- the >2 emission threshold at its boundary;
- list state that has to be reset for every point;
- one bad file in a sweep of thousands (partial failure);
- index arithmetic that picks the node whose statistics represent a position.

## 2. Modules

| Module | Models | State and actions |
|---|---|---|
| `Rationals` | exact arithmetic standing in for floats | operators only (`Q`, `QAdd`, `QMul`, `QDiv`, ...) |
| `CombineSamples` | Statistic Merger | operators. `Merge` is the control of `combine_samples`, with the variance formula passed as a parameter. `combine_samples` uses `new_var`, the code's formula with the `(avg1 + avg2)^2` cross term. `combine_means` drops the variance (see "Bounds"). `FoldList` is `combine_sample_list`. The reference definitions `PooledCount`, `PooledMean` and `PooledVariance` are computed from the multiset of non-degenerate samples. |
| `SampleFold` | the loop of `combine_sample_list` as a state machine | `data` (the input), `i` (loop index), `acc`; actions `Init` (lines 28-30) and `FoldStep` (lines 32-33) |
| `Experiment1Extract` | Experiment1/extract_data.py: Orchestrator, non-positional Extractor and Writer | `k` (sweep point), `pc`, `pending` (files not yet read), the two sample lists, `out` (rows per table), `seen` (what each file was read as). Actions: `StartPoint` (reset and glob, lines 42-54), `ReadFile` (57-96), `ReadFileFails` (reader raises, 58), `FilesRead`, `EmitSeqno` (108-113), `EmitDelay` (115-120, then the next point); `ExtractStep` is their disjunction. The module also holds Experiment1/plot_data.py, run on the CSVs once the extractor has exited (done or aborted): `pi` walks its loops (`Loop`: `plot_seqno` then `plot_delay`, figures over separation × summaries, lines over beacon period × repetitions) and `drawn` holds the lines; `PlotSeries` is one innermost iteration, `SeriesRows` the row selection and `ErrorBarPoint` the `1.96 * std / sqrt(cnt)` error bar, finite or `nan`. `Params` gives each sweep point its CSV key |
| `Experiment5Extract` | Experiment5/extract_data.py: Orchestrator, positional Extractor, Writer | `k` (grid), `pc`, `e` (which of the eight emissions is next), `pending`, `lists` (metric x bucket), `out`, `seen`. Actions: `StartPoint` (55-82), `ReadFile` (84-116), `ReadFileMissingData` (the `KeyError` branch, 86-87 and 117-118), `ReadFileFails` (85), `FilesRead`, `Emit` (one of the eight blocks at 120-174, in code order) |
| `Experiment2VerExtract` | Experiment2Ver/extract_data.py | as `Experiment1Extract`, with statistic-type records of one node, the `cnt > 0` filter (54-70), no `try`, and emission blocks `EmitSeqno` (72-79) and `EmitDelay` (81-87) that write when a list is non-empty and write a single statistic as it is |
| `FloodingExtract` | FloodingComparison/extract_data.py | as `Experiment5Extract` over the `**.sink` records, one glob per point. `ReadFileRaises` covers the three exceptions nothing catches: the reader (78), the column selection (`KeyError`, 79) and a position subscript past a short node vector (`IndexError`, 89-91, 103-105); each ends the job. The module also holds FloodingComparison/plot_data.py, run on the CSVs once the extractor has stopped: `pi` walks `Loop` (the overall update-rate functions for seqno and delay, then the two position functions, as `__main__` calls them: separation, repetitions, grid size and, for positions, `node_poss`), `PlotSeries` is one series (`SeriesRows` is the `n == str(gs)`, `s == str(sep)`, `r == str(rep)` selection; a position file's `node_pos == pos` is the bucket's own row list) and `drawn` holds the lines. `Params` gives each sweep point its loop index `n`, separation, repetitions and update period |
| `ProcRes` | GridNetworkExperiment/proc_res.py | `main()` and `get_res_from_file`. State: the file loop (`pending`, `file`, `phase`), the trace and the read position, `creation_times`, `creator`, `delays`, `valid`, `results`, `overall_delays` (its keys `IntKey(d)` and `StrKey(d)` keep `int(density)` and the directory string apart), the summary files, the boxes and the subplot titles. Actions: `OpenFile`, `ParseCreation` (84-92), `ParseDelivery` (93-98), `EndOfTrace`, `MatchVariable` (one variable of the matching loop 102-126, `KeyError` included), `ReturnResults` (128-131 with main's "Ignoring" test), `AggregateVariable` (157-176), `WriteSummaries` (184-196), `PlotGrid` (210-227). `SearchFrom` is the `while` loop; `MatchVar` the matching of one variable |
| `SweepSpec` | spec.md §3, 4.1, 4.3: what a non-positional sweep promises (abstract) | `seen` (what each file read gave), `out` (rows per metric), `emitted` (decided point/metric pairs). Actions: `Read` (a file of an undecided point), `Decide` (after the earlier points are done and all the point's files are read: a row iff at least three files gave a count >= 1 statistic, the row being their merge in some order) |
| `CapacityExtract` | Experiment5/plot_data.py `__main__`'s capacity steps: `extract_reliability_capacity_data` (169-186), `plot_reliability_capacity_data` (189-222), `extract_delay_capacity_data` (226-243), `plot_delay_capacity_data` (246-283) | `data[step]` (the seqno or delay positional table, rows keyed by grid, separation, series, period, position, or missing), `step`, `todo`, `filtered`, `capacity` (group, least period), the plot loops `fig`, `ser` and the lines drawn `plotted`. Actions: `FilterRow` (one row of the `< 1.5` loop), `GroupMin` (the rewrite, `groupby` and `min` of the update period), `PlotSeries` (one series of a reliability figure, with the `ValueError` of `max([])`), `StartDelay` (main moves on to the delay step), `PlotDelaySeries` (one series of a delay figure, whose `max` is guarded by `len(y) > 0`), `PlotEffect` (one of the four effect figures `__main__` draws last, 286-509: every series of the delay or seqno table, drawn against the update period; `ef` walks `Effects`, `figures` holds what was drawn). `FilterRow` and `GroupMin` serve both steps with the step's threshold (`Limit`) |
| `MCSampleFold`, `MCExperiment1Extract`, `MCExperiment2VerExtract`, `MCExperiment5Extract`, `MCFloodingExtract`, `MCProcRes`, `MCCapacityExtract` | model values and finite inputs for TLC | — |

A file's content is a model-level value fixed when the file is first read. The
Exp1 models give a file, for each metric, one sample from `SampleSet` or
`Absent`. The Exp5 models give, for each metric, a vector with one sample per
node (`NodeStats`), or `NoColumns` (the `KeyError` case), or `Malformed` (the
reader raises). Row text is abstracted to a record of the point, the bucket and
the statistic. The models leave out formatting, since no property is about it.

## 3. Runs

| Run | cfg | Expect | What it shows |
|---|---|---|---|
| sample_fold | SampleFold.cfg | pass | Folds of up to 3 samples, with avg in {0,1,2}, stddev in {0,1} and count in {0..3}, all 42 648 input/prefix states. Each prefix of the fold has the pooled count and mean of its non-degenerate samples (`FoldIsPooledCountAndMean`), and a variance at least the pooled unbiased variance (`FoldVarianceNeverBelowPooled`, as the `+` cross term only adds). |
| sample_fold_order | SampleFoldOrder.cfg | violation | `FoldOrderIndependent`: the variance of [A,B,C] differs from that of [C,B,A] (finding 1). |
| experiment1 | Experiment1Extract.cfg | pass | Two points, with three and one files; four sample kinds (counts 0, 1, 2, 3); the reader may fail. Every row pools exactly its own point's file samples (`RowMatchesFiles`). A row exists exactly when at least three files gave a count >= 1 sample (`EmissionIffThreeSamples`). The extractor implements `SweepSpec` under a refinement mapping (`ImplementsSweepSpec`, see §5). Each point plot_data.py then draws is its sweep point's pooled mean at x = K, with a finite error bar exactly when a count > 1 statistic was pooled, and at 0 with a `nan` bar otherwise; after the plot every written row on the plot's lists is drawn (`DrawnPointsArePooledMeans`). 1 033 265 states. |
| experiment5 | Experiment5Extract.cfg | pass | Grids of side 2 and 3, two files each; node vectors with count-0, count-1 and normal nodes; missing columns and reader failure possible. Every row, whole-run or positional, carries the pooled mean of the node statistics behind it in its own grid's files (`RowMeansMatchFiles`). |
| experiment2ver | Experiment2VerExtract.cfg | pass | Same inputs as experiment1. Every Experiment2Ver row is the fold of its point's `cnt > 0` statistics: the statistic itself when there is one, else their pooled count and mean (`RowIsFoldOfFiles`). |
| experiment5_centre_index | Experiment5CentreIndex.cfg | violation | `CentreRowIsGridCentre`: the centre rows hold the statistics of node (n²)//2 of the loop index, not of the grid's centre node (finding 3). |
| flooding | FloodingExtract.cfg | pass | Grids of side 2 and 3 at update periods 200 and 300 ms (four points, in loop order; two files at 200 ms, one at 300 ms); full vectors, and for the 3 x 3 grid a one-sink vector that raises `IndexError`; missing columns and reader failure possible. Every row written before the job ends carries the pooled mean of its point's sink statistics (`RowMeansMatchFiles`). Every point plot_data.py draws is the row of its grid size, separation, repetitions and update period, at that row's pooled mean, with a finite error bar exactly when a count > 1 statistic was pooled (the 3 x 3 centre list holds count-1 statistics only and is drawn at 0 with a `nan` bar); once the plot is done, every written row of a plotted key is on its line, after a normal end or an exception (`DrawnPointsArePooledMeans`). 183 736 states. |
| flooding_missing_data | FloodingMissingData.cfg | violation | `SweepNeverAborts`: a file without the statistic columns, or with a sink vector shorter than a position index, ends the sweep (finding 4). |
| proc_res | ProcRes.cfg | pass | Four runs of densities 1, 2, 3 over nine hand-written traces (two variables, a delivery before its creation, a re-creation at the delivery instant, a run that never passes `END_TIME`, a variable never delivered, an update created at `START_TIME` itself and so outside the window, complete and partial deliveries); 11 181 states. Results file every delivery under the right creation (`ResultsMatchTrace`); every kept delay is the target node's delay of a complete in-window update of a valid run (`SummaryFromCompleteUpdates`); summary files exist exactly for the densities with a valid run (`SummaryForEveryValidDensity`). |
| proc_res_overall_delays | ProcResOverallDelays.cfg | violation | `OverallKeepsEveryVariable`: each variable's delays replace the previous ones (finding 5). |
| capacity | CapacityExtract.cfg | pass | Every pair of seqno and delay tables over one grid size, two update periods and two node positions (one separation, one series), each row under the threshold, exactly at it, or missing: 6 561 table pairs, 62 424 states. Each line either plot draws shows, for every grid size, the least period measured under that step's threshold, and a point for exactly the grid sizes that have one (`PlotShowsCapacity`). The filter loop of each step walks only the rows of the table that step reads (`TypeOK`). |
| experiment5_duplicates | Experiment5OneStatisticPerRun.cfg | violation | `OneStatisticPerRun`: a file contributes one copy per node row (finding 2). |

Every property of a passing run has a mutant in `PROJECT.json`: a plausible bug
in a mapped definition that TLC catches under the run's own cfg. The mutants
are:

- the degenerate guard written as `< 1`;
- the biased pooled divisor;
- the fold loop starting one element late;
- a glob that ignores the point;
- lists that are never reset;
- an emission threshold of `> 1`;
- a single statistic written as (0, 0, 0);
- the search loop's `>` written `>=`;
- the completeness test one delivery short;
- the `overall_delays` write without `int()`;
- `get_res_from_file` returning results whatever `valid` is;
- two files emitted from one (breaks `ImplementsSweepSpec`);
- the reliability filter written `<= 1.5`;
- the delay extract opening the seqno table, a copied file name (breaks `TypeOK`);
- the plot's row selection without its `r == str(rep)` test;
- the Flooding plot's row selection without its `n == str(gs)` test.

## 4. Findings

Each finding is a violation run in `PROJECT.json`.

1. **Fold order** (sample_fold_order). `combine_samples` squares
   `avg1 + avg2` (Exp5:23), so a fold's stddev depends on glob order, which
   spec.md §8 says it must not. The samples (0,0,2), (1,0,2), (1,0,2) give
   variance 4/5 in one order and 16/15 in the other.
2. **Per-node duplication** (experiment5_duplicates). The loop
   `for name in list(to_print["name"])` (Exp5:89) runs once per node row, so
   each file appends its statistics K² times, and one run passes the
   ">2 samples" threshold alone.
3. **Position indices from the loop index** (experiment5_centre_index).
   `center_node = (n ** 2) // 2` (Exp5:72) uses the loop index `n`, not the
   grid side `num_nodes = node_cnt_x[n]`; spec.md §3 says a bucket's node
   index is computed from the side length. The centre rows of a 2 x 2 grid
   (n = 1) come from node 0, those of a 3 x 3 grid (n = 2) from node 2 instead
   of node 4; with the real sweep (side 5 at n = 0) from node 0 instead of 12.
   `intermediate_node` and FloodingComparison (70-72) share the defect.
4. **Flooding has no `try`** (flooding_missing_data). A result file without
   the statistic columns (`KeyError`, Flooding:79) ends the whole sweep; so
   does one with fewer sink rows than a position index (`IndexError`,
   89-91). spec.md §7 says the error is caught per file, as Experiment5 does.
5. **`overall_delays` keys** (proc_res_overall_delays).
   `overall_delays.get(density, [])` looks up the directory string, but the
   store is `overall_delays[int(density)]` (proc_res:174-176). The lookup
   always misses, so each variable's delays replace the previous ones: only
   the last variable of the last file of a density reaches the summaries and
   plots.

Further disagreements are reached by the models but are not spent on a run.
They are listed as hazards in `PROJECT.json`, each with a note saying why:

- the reader failure abort of Experiment1 and Experiment5 (Exp1:58), which
  is the same abort as finding 4;
- rows resting on count-0 or count-1 samples (Exp1:108);
- Experiment2Ver's threshold (Exp2Ver:72): rows are written when a list is
  non-empty (`if len(...) > 0`), and a single statistic is written as it is,
  count 1 included, where spec.md §4.3 says a combination needs more than 2
  samples. `RowIsFoldOfFiles` checks what such a row holds; the run that
  showed the divergence gave its place to finding 3;
- a FloodingComparison position row folded from count-1 statistics only,
  drawn at 0 with a `nan` bar (Flooding plot_data:123), and the series an
  extractor exception leaves out of the figure without a trace
  (plot_data:44); `DrawnPointsArePooledMeans` of the flooding run states
  both as the code draws them, since nothing in the repository says otherwise;
- unfiltered count-0 positional samples (Exp5:97);
- box labels taken by position (proc_res:199), so a density without a
  valid run shifts every later label;
- the failure of `subplots(1, 1).flatten()` with a single density
  (proc_res:222);
- negative delays (proc_res:118). A delivery logged before the first creation
  of its sequence number makes `get_res_from_file` print "Something has gone
  wrong" and file the negative delay anyway, and `main()` keeps it. The model
  reaches it; the code reports it itself, so no run is spent on it;
- `max([])` in the reliability capacity plot (plot_data:211) when a series
  has no reliable row. It ends the script after the earlier figures were
  saved, so the delay capacity and the four effect figures are never drawn.
  The model reaches it; the repository states no expected output for such
  a series, so no property asserts it;
- a point Experiment1 folded from count-1 samples only: the row is
  (0, 0, 0) and plot_data draws it at 0 with a `nan` error bar
  (Exp1 plot_data:42). `DrawnPointsArePooledMeans` states it as the code
  draws it;
- delivery lines counted, not distinct receivers, in the completeness test
  (proc_res:164). `SummaryFromCompleteUpdates` counts receivers and would
  catch it, but no trace repeats a delivery line: whether the simulator logs
  a repeat is not visible here.

## 5. Bounds, fairness and abstractions

- **Sizes.** Three samples reach every branch of `Merge`: degenerate first
  accumulator, degenerate second operand, and two merges in a row. Folds of
  length 3 are the shortest where order matters. Exp1 has one point with three
  files (the threshold boundary) and a second point (reset and leakage), so
  every emission decision is exercised at 2 and 3 samples. Exp5 uses grid sides
  2 and 3. The first grid has its position indices all 0, and the second has 9
  node rows, so the index and duplication hazards both show. Symmetry over the
  files of one point is sound, because the properties do not name files.
- **Flooding short vectors.** A short node vector is offered only for the
  3 x 3 grid, where it makes the centre subscript raise. A short vector that
  did not raise would be weighted once against K² copies of a full one in the
  whole-run list: the per-row duplication of finding 2, which
  `RowMeansMatchFiles` would then report again.
- **Flooding plot.** Four points (two grid sides × two update periods) give
  a two-point line per plotted key. The plot lists are the code's in
  miniature: its grid sizes (5, 7, ..., 21) leave out the even sides the
  extractor writes (6 .. 20) and name one it never writes (21); the model's
  `PlotGrids = <<3, 4>>` leaves out side 2 and names 4, and its repetitions
  list names one with no rows. Sink 2 of every run saw a single update, so
  the 3 x 3 grid's centre rows (index 2 for n = 2) are (0, 0, 0) and drawn
  with a `nan` bar. The 300 ms points have one file: the per-node
  duplication lets one run pass the > 2 threshold.
- **Experiment5 centre index.** The run gives every node but the grid's
  centre one statistic and the centre another, so the node a centre row was
  taken from shows in its mean.
- **proc_res traces.** Times are 0..5 with `START_TIME = 0` and
  `END_TIME = 4`; a creation at 5 makes a run valid. Each trace is written to
  reach one case of the matching code, and each file may be any trace of its
  density. `GridWidth = 1` scales the code's densities 10, 20, 30 down to
  1, 2, 3, so that a run needs at most two deliveries to be complete. The
  traces hold no repeated delivery lines (see the hazard at proc_res:164).
- **Arithmetic.** Arithmetic is exact over rationals, and stddev is stored as
  its square. The code only uses `stddev^2` and returns `sqrt(new_var)`. The
  Exp5 model folds with `combine_means`, which has the same control, count and
  mean but no variance: exact variances of folds over 9-node vectors, repeated
  per node, outgrow TLC's 32-bit integers. Its properties are about counts and
  means only.
- **Capacity tables.** The run enumerates both tables, so each has four
  keys: two periods (the fewest for which the minimum means anything) and two
  positions (two figures, so the series loop must reset between them), at one
  grid size. A second grid size would square the table count to 43 million
  pairs; the grid is a groupby key like the position, whose grouping the two
  positions already exercise. Avgdelta values 1
  and 2 with threshold 2 put a row under and exactly at the threshold. The
  plot's series loop (beacon period × summaries × repetitions) is one model
  value per series: the selection treats each the same. `df.min(df.update_period)`
  is read as the per-group minimum of the update period, which is what the
  plot's axis label ("Average Update Period") and the function name say.
  `extract_delay_capacity_data` (226-243) is the same code as the reliability
  extractor with threshold 250 on the delay table (`DelayThreshold`).
- **Experiment1 plot.** The two points share one line of one figure (K = 3
  and 4); the plot lists add a second line (two repetitions) and a second
  figure (three summaries) whose selections are empty, so the `len(x) > 0`
  guard is taken both ways. The three files of the first point, each holding
  a count-1 sample, give the (0, 0, 0) row and its `nan` error bar.
- **Refinement.** `SweepSpec` is written from spec.md, not from the code: it
  lets the files of a point be read in any order, fixes nothing about how a
  point's lists are kept, and allows any merge order. `Experiment1Extract`
  instantiates it with `seen` and `out` as they are, and with `emitted` as the
  points before `k` for both metrics, plus point `k`'s seqno metric while the
  delay row is pending (`pc = "emit_delay"`). Resetting, globbing and leaving
  the read loop map to stuttering steps. A reader failure leaves the file
  `Malformed`, after which the abstract spec only reads and stutters, as the
  aborted script does. TLC checks `Sweep!Spec` as a PROPERTY of the whole
  experiment1 state space.
- **Fairness.** Each `Spec` has weak fairness on `Next`: the scripts are
  sequential, and the next statement always runs. No liveness property is
  checked: every loop of these scripts walks a finite input (files, lines,
  variables, figures), so termination follows from the shape of the models
  and a property stating it would say nothing about the code. Every run sets `CHECK_DEADLOCK FALSE`, because the job really
  ends: `pc = "done"` after the last point, or `"aborted"` after an uncaught
  exception.

## 6. Not modelled, and the plan for later sittings

- **proc_res.py, the rest.** `get_res_from_file_old` is never called. The
  ECDF and histogram drawing and the printed mean and confidence interval
  are presentation; the mean of an empty delay list prints `nan` and does
  not stop the script.
- **Composition of the capacity step with an extractor.** The capacity
  functions read `rawresults/experiment3_*` tables with a separation column,
  which no extractor in this repository writes (Experiment5's has no
  separation); `CapacityExtract` therefore takes any table as input.
- **Refinement of the other extractors.** Experiment2Ver writes rows that
  `SweepSpec` forbids (from one statistic on), Experiment5 and Flooding write positional
  buckets the abstract spec has no notion of and duplicate statistics
  (finding 2); only Experiment1 is checked against `SweepSpec`.
- **The Result Writer's durability.** Rows are flushed at once and the header is
  flushed with the first row, so an interruption loses at most the row being
  written. Rerunning a script reopens its outputs with `"w"` and starts again.
  There is no recovery protocol to check.
- **Plotting, the rest.** Experiment5's per-parameter figures (lines
  35-168) and `plot_num_rep_effect_update_delay_both_bp` are never called
  by its `__main__`.
  FloodingComparison's four grid-size functions (177-339) are commented out
  in its `__main__` and never run.
  Experiment2/plot_data.py is not modelled: it repeats the select-and-draw
  loop of Experiment1 and FloodingComparison, and it selects summaries 0 and 3, while
  Experiment2Ver/extract_data.py, the only extractor here that writes its
  column layout, sweeps summaries 10 only; whether the two are meant to be
  used together is not stated in the repository.
