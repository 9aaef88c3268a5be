------------------------ MODULE MCExperiment1Extract ------------------------
EXTENDS Experiment1Extract, TLC

CONSTANTS p1, p2, f1, f2, f3, f4

MCPoints == <<p1, p2>>

\* Three files at the first point, so that a metric can end with two or
\* three qualifying statistics; one at the second, whose row must not
\* see the first point's statistics.
MCFilesOf == (p1 :> {f1, f2, f3}) @@ (p2 :> {f4})

\* No observations, one observation (passes the count filter, degenerate
\* for the merge), and two statistics with different means and counts.
MCSampleSet ==
  { Stat(Int2Q(1), Int2Q(0), 0), Stat(Int2Q(1), Int2Q(1), 1),
    Stat(Int2Q(1), Int2Q(1), 2), Stat(Int2Q(2), Int2Q(4), 3) }
\* Both points lie on one line of the figure (280 m, no summaries, 10 Hz
\* beaconing, one repetition), at K = 3 and K = 4.  The plot's lists give
\* that figure a second line (two repetitions) and a second figure (three
\* summaries) whose selections find no rows.
MCParams == (p1 :> [n |-> 3, sep |-> 280, bec |-> 100, rep |-> 1, summ |-> 0])
         @@ (p2 :> [n |-> 4, sep |-> 280, bec |-> 100, rep |-> 1, summ |-> 0])
MCPlotSeps == <<280>>
MCPlotSumms == <<0, 3>>
MCPlotBecs == <<100>>
MCPlotReps == <<1, 2>>
\* The three files of the first point are interchangeable.
FileSymmetry == Permutations({f1, f2, f3})
=============================================================================
