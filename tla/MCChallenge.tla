----------------------------- MODULE MCChallenge ------------------------------
(***************************************************************************)
(* Instances of Challenge for TLC.  A run draws a token per name for the   *)
(* rehearsal and the CA one per name for the order, so the number of       *)
(* tokens bounds how often runs may start over.                            *)
(***************************************************************************)
EXTENDS Challenge, TLC

Symmetry == Permutations(Token) \cup Permutations(Name)
===============================================================================
