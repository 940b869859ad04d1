----------------------------- MODULE MCDispatch -----------------------------
(* Model checking Dispatch: processes of a kind, and group slots, are interchangeable. *)
EXTENDS Dispatch

Symmetry ==
  Permutations(Frontends) \cup Permutations(Backends) \cup Permutations(Parents)
    \cup Permutations(Groups)
=============================================================================
