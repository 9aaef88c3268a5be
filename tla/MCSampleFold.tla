---------------------------- MODULE MCSampleFold ----------------------------
EXTENDS SampleFold

MCAvgs == {0, 1, 2}
MCStddevs == {0, 1}
MCCnts == {0, 1, 2, 3}
=============================================================================
