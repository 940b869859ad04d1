------------------------------ MODULE MCSlots ------------------------------
(* Model checking Slots with a list like those of groups, frontends and     *)
(* backends, and one without a tail like that of scripts.                   *)
EXTENDS SlotsLists
=============================================================================
