----------------------------- MODULE PowersOfTwo -----------------------------
(***************************************************************************)
(* The powers of two.                                                      *)
(***************************************************************************)
EXTENDS Integers

(* 2 ^ n, as a function about which the provers can reason. *)
TwoTo[n \in Nat] == IF n = 0 THEN 1 ELSE 2 * TwoTo[n - 1]
=============================================================================
