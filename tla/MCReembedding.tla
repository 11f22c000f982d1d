---------------------------- MODULE MCReembedding ---------------------------
\* Instances of Reembedding for TLC.
EXTENDS Reembedding

CONSTANTS old, new, a1, a2, l1, l2
=============================================================================
