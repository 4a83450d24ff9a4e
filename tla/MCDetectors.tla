---------------------------- MODULE MCDetectors -----------------------------
(***************************************************************************)
(* Detectors for TLC: windows of one and two clock steps; two ports make a *)
(* scan and three attempts a brute force, at once or spread over the       *)
(* window; two sources, so that their packets interleave.                  *)
(***************************************************************************)
EXTENDS Detectors, TLC

CONSTANTS ip1, ip2

AnySource == Permutations(Sources)
=============================================================================
