------------------------- MODULE MCCapacityExtract -------------------------
EXTENDS CapacityExtract

CONSTANTS s1, a

\* One grid size, two update periods and two node positions (two figures),
\* one separation and one series: every pair of tables of these keys, each
\* row under or at the threshold (both thresholds are 2), or missing.
MCGrids == <<5>>
MCSeps == <<s1>>
MCSers == <<a>>
MCPeriods == <<200, 300>>
MCPositions == <<"edge", "center">>
MCValues == {1, 2}
====
