----------------------------- MODULE MCDSManager -----------------------------
(***************************************************************************)
(* Instances of DSManager for TLC.                                         *)
(***************************************************************************)
EXTENDS DSManager, TLC

\* Nothing tells one caller, or one goroutine that calls Run, from another.
MCSymmetry == Permutations(Callers) \cup Permutations(Runners)
=============================================================================
