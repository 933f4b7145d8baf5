-------------------------- MODULE MCDurableWorkspace --------------------------
(***************************************************************************)
(* Instances of DurableWorkspace for TLC.  The configurations give each    *)
(* set of concurrent requests its members; these are the shared bounds.    *)
(***************************************************************************)
EXTENDS DurableWorkspace, TLC

OneApp == {1}
TwoApps == {1, 2}

\* Concurrent requests of one kind are interchangeable.
Interchangeable ==
    Permutations(Bootstrappers) \cup Permutations(Writers) \cup Permutations(Erasers)
===============================================================================
