---------------------------- MODULE MCFinalization ----------------------------
(***************************************************************************)
(* Instances of AccountFinalization for TLC: symmetry among the calls.     *)
(***************************************************************************)
EXTENDS AccountFinalization, TLC

Interchangeable == Permutations(Calls) \cup Permutations(Reviewers)
===============================================================================
