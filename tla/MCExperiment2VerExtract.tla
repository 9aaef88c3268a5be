----------------------- MODULE MCExperiment2VerExtract -----------------------
EXTENDS Experiment2VerExtract, TLC

CONSTANTS p1, p2, f1, f2, f3, f4

MCPoints == <<p1, p2>>

\* Three files at the first point, so that a metric can end with one, two
\* or three statistics; one at the second, a single-statistic point.
MCFilesOf == (p1 :> {f1, f2, f3}) @@ (p2 :> {f4})

\* No observations (filtered out), one observation (kept, degenerate for
\* the merge), and two statistics with different means and counts.
MCSampleSet ==
  { Stat(Int2Q(1), Int2Q(0), 0), Stat(Int2Q(1), Int2Q(1), 1),
    Stat(Int2Q(1), Int2Q(1), 2), Stat(Int2Q(2), Int2Q(4), 3) }

FileSymmetry == Permutations({f1, f2, f3})
====
