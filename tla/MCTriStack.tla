----------------------------- MODULE MCTriStack -----------------------------
\* Instances of TriStack for TLC: a plain memory and an artifact, two cron
\* instances.
EXTENDS TriStack

CONSTANTS s1, s2, w1, w2
=============================================================================
