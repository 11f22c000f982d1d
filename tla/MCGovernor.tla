----------------------------- MODULE MCGovernor -----------------------------
(***************************************************************************)
(* Two callers that race for one key, one of them without kill switch, two  *)
(* administrators and two items; one quarantine verdict and the ticks that  *)
(* count it.                                                                *)
(***************************************************************************)
EXTENDS Governor

\* Bound: the trust tick competes with callers and administrators in histories
\* without a stop and without a rollback.
Bounded == confirmed + rejected > 0 => disabled = {} /\ faults = 0
=============================================================================
