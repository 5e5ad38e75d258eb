------------------------- MODULE MCParallelBuilder -------------------------
EXTENDS ParallelBuilder

CONSTANTS w1, w2

\* Three targets, one named twice, for two workers.
MCTargets == <<"a.strm", "b.strm", "a.strm">>
=============================================================================
