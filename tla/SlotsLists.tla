----------------------------- MODULE SlotsLists -----------------------------
(***************************************************************************)
(* Slots implements SlotLists: a list is what one comes by from its head.  *)
(***************************************************************************)
EXTENDS Slots

\* The slots from n on
Walk(n) ==
  LET from[s \in Nums, most \in Nums] ==
        IF s = 0 \/ most = 0 THEN << >> ELSE <<s>> \o from[next_slot[s], most - 1]
  IN  from[n, MAX_SLOTS - 1]

Abstract == INSTANCE SlotLists WITH
  SlotNums <- Slot,
  list  <- [l \in Lists |-> Walk(head[l])],
  held  <- {n \in Slot : where[n] = "held"},
  rank  <- rank,
  ended <- died # "no"

\* Every operation does to the lists what it promises, through any pointers that
\* earlier operations have left in the slots.
ImplementsSlotLists == Abstract!Spec
=============================================================================
