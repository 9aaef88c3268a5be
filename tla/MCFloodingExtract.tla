------------------------- MODULE MCFloodingExtract -------------------------
EXTENDS FloodingExtract, TLC

CONSTANTS p1, p2, p3, p4, f1, f2, f3, f4, f5, f6

\* Grid sides 1, 2, 3; the sweep visits n = 1 (2 x 2) and n = 2 (3 x 3)
\* at 10% PER, one repetition, update periods 200 and 300 ms, in the order
\* of the loops (itertools.product outside, n inside).  The 300 ms points
\* have one file each: one run clears the > 2 threshold (K * K copies).
MCnode_cnt_x == <<1, 2, 3>>
MCPoints == <<p1, p2, p3, p4>>
MCParams == (p1 :> [n |-> 1, sep |-> 255, rep |-> 1, up |-> 200])
         @@ (p2 :> [n |-> 2, sep |-> 255, rep |-> 1, up |-> 200])
         @@ (p3 :> [n |-> 1, sep |-> 255, rep |-> 1, up |-> 300])
         @@ (p4 :> [n |-> 2, sep |-> 255, rep |-> 1, up |-> 300])
MCFilesOf == (p1 :> {f1, f2}) @@ (p2 :> {f3, f4}) @@ (p3 :> {f5}) @@ (p4 :> {f6})

\* As in plot_data.py, the plot's grid sizes include a written size (3),
\* leave one out (2, like the even sizes 6 .. 20) and name one no point
\* has (4, like 21); a repetition count with rows (1) and one without (2).
MCPlotSeps == <<255>>
MCPlotReps == <<1, 2>>
MCPlotGrids == <<3, 4>>

Sa == Stat(Int2Q(1), Int2Q(1), 2)
Sb == Stat(Int2Q(2), Int2Q(0), 3)
S1 == Stat(Int2Q(3), Int2Q(0), 1)

\* A run with one statistic per sink of the grid: the first sink (edge
\* and, for these grids, intermediate index 0) and sink 2 (the centre
\* index of n = 2) differ from the rest; sink 2 saw a single update, so
\* the centre list of the 3 x 3 grid holds count-1 statistics only.
Full(K) ==
  [j \in 1..K * K |-> CASE j = 1 -> Sb
                        [] j = 3 -> S1
                        [] OTHER -> Sa]

\* With short vectors: also a 3 x 3 run that recorded a single sink, which
\* the centre index 2 of n = 2 runs off (IndexError).  Offered only there,
\* since a short file that does not raise would be weighted 1 against
\* K * K in the whole-run list, the skew the per-row duplication causes.
MCNodeStatsShort == [K \in {1, 2, 3} |-> IF K = 3 THEN {Full(K), <<Sb>>} ELSE {Full(K)}]
MCNodeStatsFull == [K \in {1, 2, 3} |-> {Full(K)}]

\* The two files of a 200 ms point are interchangeable.
FileSymmetry == Permutations({f1, f2}) \cup Permutations({f3, f4})
====
