------------------------ MODULE MCExperiment5Extract ------------------------
EXTENDS Experiment5Extract, TLC

CONSTANTS f1, f2, f3, f4

\* Grid sides 1, 2, 3; the sweep visits n = 1 (2 x 2, where every position
\* index is 0) and n = 2 (3 x 3, whose centre node is unambiguous).
MCnode_cnt_x == <<1, 2, 3>>
MCPoints == <<1, 2>>
MCFilesOf == (1 :> {f1, f2}) @@ (2 :> {f3, f4})

Sa == Stat(Int2Q(1), Int2Q(1), 2)
Sb == Stat(Int2Q(2), Int2Q(0), 3)
S1 == Stat(Int2Q(3), Int2Q(0), 1)
S0 == Stat(Int2Q(0), Int2Q(0), 0)

\* Two kinds of run per grid: the first node, the centre node and node 3
\* differ from the rest (one with no observations, one with a single
\* one); and a run where the first node saw nothing and every other node
\* a single observation.
Varied(K) ==
  [j \in 1..K * K |-> CASE j = 1                 -> Sb
                        [] j = (K * K) \div 2 + 1 -> S0
                        [] j = 3                 -> S1
                        [] OTHER                 -> Sa]
Sparse(K) == [j \in 1..K * K |-> IF j = 1 THEN S0 ELSE S1]

MCNodeStats == [K \in {1, 2, 3} |-> {Varied(K), Sparse(K)}]

\* A run whose node at the centre of the K x K grid differs from every
\* other node, so the node a centre row was taken from shows in its mean.
Centred(K) == [j \in 1..K * K |-> IF j = (K * K) \div 2 + 1 THEN Sb ELSE Sa]
MCNodeStatsCentred == [K \in {1, 2, 3} |-> {Centred(K)}]

\* The two files of a point are interchangeable.
FileSymmetry == Permutations({f1, f2}) \cup Permutations({f3, f4})
=============================================================================
