------------------------------ MODULE MCProcRes ------------------------------
EXTENDS ProcRes

CONSTANTS f1, f2, f3, f4, n0, n1, n2, v1, v2, s1

\* Two runs of density 2, one of density 3, one of density 1.  With
\* GridWidth = 1 the densities 1, 2, 3 stand for the code's 10, 20, 30:
\* the linear network and the 10 x 2 and 10 x 3 grids.
MCFiles == {f1, f2, f3, f4}
MCDensityOf == (f1 :> 2) @@ (f2 :> 2) @@ (f3 :> 3) @@ (f4 :> 1)

L(node, var, prod, seq, ts) == [node |-> node, var |-> var, prod |-> prod, seq |-> seq, ts |-> ts]

\* Times 0..5 with START_TIME = 0 and END_TIME = 4: a creation at 5 makes
\* a run valid.  n0 creates; n1 is the target of density 2, n2 of 3.
TwoVars     == << L(n0, v1, 1, s1, 1), L(n1, v1, 0, s1, 2), L(n0, v2, 1, s1, 2),
                  L(n1, v2, 0, s1, 3), L(n0, v2, 1, s1, 5) >>
EarlyDeliv  == << L(n1, v1, 0, s1, 1), L(n0, v1, 1, s1, 2), L(n0, v1, 1, s1, 5) >>
ReCreated   == << L(n0, v1, 1, s1, 1), L(n0, v1, 1, s1, 3), L(n1, v1, 0, s1, 3),
                  L(n0, v1, 1, s1, 5) >>
Unfinished  == << L(n0, v1, 1, s1, 1), L(n1, v1, 0, s1, 2) >>
Undelivered == << L(n0, v1, 1, s1, 1), L(n1, v1, 0, s1, 2), L(n0, v2, 1, s1, 5) >>
Complete3   == << L(n0, v1, 1, s1, 1), L(n1, v1, 0, s1, 2), L(n2, v1, 0, s1, 3),
                  L(n0, v1, 1, s1, 5) >>
Partial3    == << L(n0, v1, 1, s1, 1), L(n2, v1, 0, s1, 2), L(n0, v1, 1, s1, 5) >>
\* An update created at START_TIME itself, outside the open window, that
\* reached every node: its delay must not be kept.
AtStart     == << L(n0, v1, 1, s1, 0), L(n1, v1, 0, s1, 1), L(n0, v1, 1, s1, 5) >>
Linear1     == << L(n0, v1, 1, s1, 1), L(n1, v1, 0, s1, 2), L(n0, v1, 1, s1, 5) >>

MCTracesOf == (2 :> {TwoVars, EarlyDeliv, ReCreated, Unfinished, Undelivered, AtStart})
               @@ (3 :> {Complete3, Partial3}) @@ (1 :> {Linear1, Unfinished})
====
