--------------------------- MODULE MCMinuteLedger --------------------------
(***************************************************************************)
(* Small instances of MinuteLedger: a trial grant, a paid grant that may   *)
(* arrive at any time, two sessions of different lengths.                  *)
(***************************************************************************)
EXTENDS MinuteLedger

\* Model values for the grants, the sessions and the FailSession calls.
CONSTANTS trial, p1, s1, s2, f1
=============================================================================
