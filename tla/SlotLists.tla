------------------------------ MODULE SlotLists -----------------------------
(***************************************************************************)
(* What speedy_slot.c promises to the code that keeps groups, scripts,     *)
(* backends and frontends in slots of the temp file: a slot is in nobody's *)
(* hands, in its owner's, or at one place of one list; an operation moves  *)
(* the slot it names and leaves the order of all others as it is.  It      *)
(* gives up only when no slot is left or when it is given a slot back that *)
(* nobody has.                                                             *)
(***************************************************************************)
EXTENDS Integers, Sequences, SequencesExt, FiniteSets

CONSTANTS SlotNums, Lists, Ranks

VARIABLES
  list,    \* the slots of each list, in order
  held,    \* slots that were handed out and are in no list
  rank,    \* what the sorted lists are sorted by
  ended    \* the process has died of an error

vars == <<list, held, rank, ended>>

Linked == UNION {ToSet(list[l]) : l \in Lists}

Init ==
  /\ list = [l \in Lists |-> << >>]
  /\ held = {}
  /\ rank = [s \in SlotNums |-> 0]
  /\ ended = FALSE

Alloc(s) ==
  /\ s \notin held \cup Linked
  /\ held' = held \cup {s}
  /\ rank' = [rank EXCEPT ![s] = 0]
  /\ UNCHANGED <<list, ended>>

Free(s) ==
  /\ s \in held
  /\ held' = held \ {s}
  /\ UNCHANGED <<list, rank, ended>>

Takes(s) == s \in held /\ held' = held \ {s} /\ UNCHANGED ended

PutFirst(s, l) ==
  /\ Takes(s)
  /\ list' = [list EXCEPT ![l] = <<s>> \o @]
  /\ UNCHANGED rank

PutLast(s, l) ==
  /\ Takes(s)
  /\ list' = [list EXCEPT ![l] = Append(@, s)]
  /\ UNCHANGED rank

\* Before the first slot that does not sort before it, whether or not the list
\* is sorted.
PutSorted(s, l, r) ==
  /\ Takes(s)
  /\ rank' = [rank EXCEPT ![s] = r]
  /\ \E i \in 1 .. Len(list[l]) + 1 :
        /\ \A j \in 1 .. i-1 : rank[list[l][j]] < r
        /\ i <= Len(list[l]) => r <= rank[list[l][i]]
        /\ list' = [list EXCEPT ![l] = InsertAt(@, i, s)]

Without(l, s) == SelectSeq(list[l], LAMBDA x : x # s)
In(s, l) == s \in ToSet(list[l]) /\ UNCHANGED <<rank, ended>>

TakeOut(s, l) ==
  /\ In(s, l)
  /\ list' = [list EXCEPT ![l] = Without(l, s)]
  /\ held' = held \cup {s}

ToFirst(s, l) ==
  /\ In(s, l)
  /\ list' = [list EXCEPT ![l] = <<s>> \o Without(l, s)]
  /\ UNCHANGED held

ToLast(s, l) ==
  /\ In(s, l)
  /\ list' = [list EXCEPT ![l] = Append(Without(l, s), s)]
  /\ UNCHANGED held

\* No slot is left, or somebody has given back what nobody had.
GiveUp ==
  /\ ~ended
  /\ ended' = TRUE
  /\ UNCHANGED <<list, held, rank>>

Next ==
  /\ ~ended
  /\ \/ GiveUp
     \/ \E s \in SlotNums :
          \/ Alloc(s) \/ Free(s)
          \/ \E l \in Lists :
               \/ PutFirst(s, l) \/ PutLast(s, l) \/ \E r \in Ranks : PutSorted(s, l, r)
               \/ TakeOut(s, l) \/ ToFirst(s, l) \/ ToLast(s, l)

Spec == Init /\ [][Next]_vars
=============================================================================
