------------------------------- MODULE Slots -------------------------------
(***************************************************************************)
(* speedy_slot.c: the slots of the temp file, their doubly linked lists    *)
(* and the free list, in the memory of the file.  Slot number 0 is none.   *)
(*                                                                         *)
(* The callers are any code that keeps the rules of speedy_slot.h: while   *)
(* it has the file locked, it allocates at most MaxAllocs slots, puts only *)
(* slots in a list that are in none, takes them out of the list they are   *)
(* in, and frees slots that are in none; but it may free a slot again.     *)
(* speedy_group_invalidate frees the scripts of a group from the head on,  *)
(* reading each next slot before the free, and then sets the head to 0:    *)
(* here each is taken out at the head and then freed, which ends in the    *)
(* same links, the free list in the same order.                            *)
(***************************************************************************)
EXTENDS Integers, Sequences

CONSTANTS
  MAX_SLOTS,        \* one more than the last slot number
  MIN_SLOTS_FREE,   \* what file_lock makes room for
  FILE_ALLOC_CHUNK, \* by how many slots the file grows
  MaxAllocs,        \* slots allocated in one section under the lock
  Lists,
  Singly,           \* the lists without a tail (the scripts of a group)
  Ranks,            \* what compar of speedy_slot_insert_sorted compares
  MaxDoubleFrees    \* bound

ASSUME SlotsAssumption ==
  /\ MAX_SLOTS \in Nat \ {0} /\ MIN_SLOTS_FREE \in Nat /\ FILE_ALLOC_CHUNK \in Nat
  /\ MaxAllocs \in 0 .. MIN_SLOTS_FREE
  /\ MIN_SLOTS_FREE <= FILE_ALLOC_CHUNK
  /\ Singly \subseteq Lists
  /\ {"free", "held"} \cap Lists = {}
  /\ Ranks \subseteq Nat /\ 0 \in Ranks
  /\ MaxDoubleFrees \in Nat

Slot == 1 .. MAX_SLOTS - 1
Nums == 0 .. MAX_SLOTS - 1

VARIABLES
  next_slot, prev_slot,     \* in the slots
  rank,                     \* what is in a slot, as far as compar looks at it
  head, tail,               \* of the lists, in other slots or in FILE_HEAD
  slot_free, slots_alloced, \* in FILE_HEAD
  size,                     \* how many slots fit in the file
  locked,
  allocs,                   \* slots allocated since it was locked
  where,                    \* "free", "held" or a list: what the callers know
  walk,                     \* the loop of speedy_slot_insert_sorted; see NoWalk
  died,                     \* "no", or of what
  doublefrees               \* bound

links == <<next_slot, prev_slot, head, tail>>
vars == <<links, rank, slot_free, slots_alloced, size, locked, allocs, where, walk, died, doublefrees>>

\* speedy_slot_insert_sorted is past before, 0 being no slot, on its way through
\* the list to put slot in it; a slot of 0: it does not run.
NoWalk == [slot |-> 0, list |-> "held", key |-> 0, before |-> 0]

Init ==
  /\ next_slot = [n \in Slot |-> 0]
  /\ prev_slot = [n \in Slot |-> 0]
  /\ rank = [n \in Slot |-> 0]
  /\ head = [l \in Lists |-> 0]
  /\ tail = [l \in Lists |-> 0]
  /\ slot_free = 0
  /\ slots_alloced = 0
  /\ size = 0
  /\ locked = FALSE
  /\ allocs = 0
  /\ where = [n \in Slot |-> "free"]
  /\ walk = NoWalk
  /\ died = "no"
  /\ doublefrees = 0

-----------------------------------------------------------------------------
(* The links [next, prev, head, tail] after an operation on the list l      *)

Links == [next |-> next_slot, prev |-> prev_slot, head |-> head, tail |-> tail]

Set(f, n, v) == IF n = 0 THEN f ELSE [f EXCEPT ![n] = v]

removed(k, n, l) ==
  LET nx == k.next[n]
      pv == k.prev[n]
  IN  [ next |-> Set(k.next, pv, nx),
        prev |-> Set(k.prev, nx, pv),
        head |-> IF k.head[l] = n THEN [k.head EXCEPT ![l] = nx] ELSE k.head,
        tail |-> IF l \notin Singly /\ k.tail[l] = n THEN [k.tail EXCEPT ![l] = pv] ELSE k.tail ]

inserted(k, n, l) ==
  LET first == k.head[l]
  IN  [ next |-> [k.next EXCEPT ![n] = first],
        prev |-> Set([k.prev EXCEPT ![n] = 0], first, n),
        head |-> [k.head EXCEPT ![l] = n],
        tail |-> IF l \notin Singly /\ k.tail[l] = 0 THEN [k.tail EXCEPT ![l] = n] ELSE k.tail ]

\* (A slip: the slot that was last still ends the list.)
appendedUnlinked(k, n, l) ==
  LET last == k.tail[l]
  IN  [ next |-> [k.next EXCEPT ![n] = 0],
        prev |-> [k.prev EXCEPT ![n] = last],
        head |-> IF k.head[l] = 0 THEN [k.head EXCEPT ![l] = n] ELSE k.head,
        tail |-> [k.tail EXCEPT ![l] = n] ]

appended(k, n, l) ==
  LET last == k.tail[l]
  IN  [ next |-> Set([k.next EXCEPT ![n] = 0], last, n),
        prev |-> [k.prev EXCEPT ![n] = last],
        head |-> IF k.head[l] = 0 THEN [k.head EXCEPT ![l] = n] ELSE k.head,
        tail |-> [k.tail EXCEPT ![l] = n] ]

\* (A slip: *next_ptr is taken to be the head.)
insertedAtHead(k, n, l, before, at) ==
  [ next |-> [k.next EXCEPT ![n] = at],
    prev |-> [k.prev EXCEPT ![n] = k.prev[at], ![at] = n],
    head |-> [k.head EXCEPT ![l] = n],
    tail |-> k.tail ]

\* *next_ptr is the head, or the next_slot of before.
insertedAt(k, n, l, before, at) ==
  [ next |-> Set([k.next EXCEPT ![n] = at], before, n),
    prev |-> [k.prev EXCEPT ![n] = k.prev[at], ![at] = n],
    head |-> IF before = 0 THEN [k.head EXCEPT ![l] = n] ELSE k.head,
    tail |-> k.tail ]

-----------------------------------------------------------------------------
(* The operations.  Only a process that has the file locked does them.      *)

Becomes(k) == /\ next_slot' = k.next /\ prev_slot' = k.prev
              /\ head' = k.head /\ tail' = k.tail

Working == locked /\ died = "no" /\ walk.slot = 0

Others == UNCHANGED <<slot_free, slots_alloced, size, locked, allocs, died, doublefrees>>

Moves(n, to) == where' = [where EXCEPT ![n] = to] /\ UNCHANGED walk /\ Others

speedy_slot_remove(n, l) ==
  /\ Working /\ where[n] = l
  /\ Becomes(removed(Links, n, l))
  /\ Moves(n, "held")
  /\ UNCHANGED rank

speedy_slot_insert(n, l) ==
  /\ Working /\ where[n] = "held"
  /\ Becomes(inserted(Links, n, l))
  /\ Moves(n, l)
  /\ UNCHANGED rank

speedy_slot_append(n, l) ==
  /\ Working /\ where[n] = "held" /\ l \notin Singly
  /\ Becomes(appended(Links, n, l))
  /\ Moves(n, l)
  /\ UNCHANGED rank

\* What next_ptr points to
walk_at == IF walk.before = 0 THEN head[walk.list] ELSE next_slot[walk.before]

\* speedy_slot_insert_sorted: the loop begins at the head,
SortedBegin(n, l, r) ==
  /\ Working /\ where[n] = "held" /\ l \notin Singly
  /\ walk' = [slot |-> n, list |-> l, key |-> r, before |-> 0]
  /\ UNCHANGED <<links, rank, where>> /\ Others

\* compar(slotnum, *next_ptr) > 0
SortedNext ==
  /\ walk.slot # 0
  /\ walk_at # 0 /\ rank[walk_at] < walk.key
  /\ walk' = [walk EXCEPT !.before = walk_at]
  /\ UNCHANGED <<links, rank, where>> /\ Others

\* The end of the list, or compar(slotnum, *next_ptr) <= 0
SortedEnd ==
  /\ walk.slot # 0
  /\ \/ walk_at = 0 /\ Becomes(appended(Links, walk.slot, walk.list))
     \/ /\ walk_at # 0 /\ walk.key <= rank[walk_at]
        /\ Becomes(insertedAt(Links, walk.slot, walk.list, walk.before, walk_at))
  /\ rank' = [rank EXCEPT ![walk.slot] = walk.key]
  /\ where' = [where EXCEPT ![walk.slot] = walk.list]
  /\ walk' = NoWalk
  /\ Others

speedy_slot_move_head(n, l) ==
  /\ Working /\ where[n] = l
  /\ head[l] # n
  /\ Becomes(inserted(removed(Links, n, l), n, l))
  /\ Moves(n, l)
  /\ UNCHANGED rank

speedy_slot_move_tail(n, l) ==
  /\ Working /\ where[n] = l /\ l \notin Singly
  /\ tail[l] # n
  /\ Becomes(appended(removed(Links, n, l), n, l))
  /\ Moves(n, l)
  /\ UNCHANGED rank

\* (A slip: the links are not cleared.)
Uncleared(n) ==
  /\ where' = [where EXCEPT ![n] = "held"]
  /\ rank' = [rank EXCEPT ![n] = 0]
  /\ UNCHANGED <<links, size, locked, walk, died, doublefrees>>

\* From the free list, or the next slot of the file; cleared.
Cleared(n) ==
  /\ next_slot' = [next_slot EXCEPT ![n] = 0]
  /\ prev_slot' = [prev_slot EXCEPT ![n] = 0]
  /\ rank' = [rank EXCEPT ![n] = 0]
  /\ where' = [where EXCEPT ![n] = "held"]
  /\ UNCHANGED <<head, tail, size, locked, walk, died, doublefrees>>

\* (A slip: one slot too many.)
speedy_slot_alloc_last ==
  /\ Working /\ allocs < MaxAllocs
  /\ allocs' = allocs + 1
  /\ slot_free = 0 /\ slots_alloced + 1 <= MAX_SLOTS
  /\ slots_alloced' = slots_alloced + 1
  /\ Cleared(slots_alloced + 1)
  /\ UNCHANGED slot_free

speedy_slot_alloc ==
  /\ Working /\ allocs < MaxAllocs
  /\ allocs' = allocs + 1
  /\ IF slot_free # 0
     THEN /\ slot_free' = next_slot[slot_free]
          /\ Cleared(slot_free)
          /\ UNCHANGED slots_alloced
     ELSE \E n \in {slots_alloced + 1} :
          IF n >= MAX_SLOTS \/ n > size
          THEN /\ died' = IF n >= MAX_SLOTS THEN "out of slots" ELSE "file too small"
               /\ UNCHANGED <<links, rank, slot_free, slots_alloced, size, locked, where, walk,
                              doublefrees>>
          ELSE /\ slots_alloced' = n
               /\ Cleared(n)
               /\ UNCHANGED slot_free

\* (A slip: nothing sees that the slot is free.)
speedy_slot_free_again(n) ==
  /\ Working /\ n <= slots_alloced
  /\ where[n] = "held" \/ (where[n] = "free" /\ doublefrees < MaxDoubleFrees)
  /\ doublefrees' = IF where[n] = "held" THEN doublefrees ELSE doublefrees + 1
  /\ where' = [where EXCEPT ![n] = "free"]
  /\ prev_slot' = [prev_slot EXCEPT ![n] = n]
  /\ next_slot' = [next_slot EXCEPT ![n] = slot_free]
  /\ slot_free' = n
  /\ UNCHANGED <<head, tail, rank, slots_alloced, size, locked, allocs, walk, died>>

\* A freed slot points back to itself.
speedy_slot_free(n) ==
  /\ Working /\ n <= slots_alloced
  /\ where[n] = "held" \/ (where[n] = "free" /\ doublefrees < MaxDoubleFrees)
  /\ doublefrees' = IF where[n] = "held" THEN doublefrees ELSE doublefrees + 1
  /\ where' = [where EXCEPT ![n] = "free"]
  /\ IF prev_slot[n] = n
     THEN /\ died' = "freeing free slot"
          /\ UNCHANGED <<links, slot_free>>
     ELSE /\ prev_slot' = [prev_slot EXCEPT ![n] = n]
          /\ next_slot' = [next_slot EXCEPT ![n] = slot_free]
          /\ slot_free' = n
          /\ UNCHANGED <<head, tail, died>>
  /\ UNCHANGED <<rank, slots_alloced, size, locked, allocs, walk>>

\* (A slip: it makes room only when there is none.)
file_lock_tight ==
  /\ ~locked /\ died = "no"
  /\ locked' = TRUE
  /\ size' = IF size < slots_alloced + 1 THEN size + FILE_ALLOC_CHUNK ELSE size
  /\ allocs' = 0
  /\ UNCHANGED <<links, rank, slot_free, slots_alloced, where, walk, died, doublefrees>>

\* file_lock extends a file that has less room than MIN_SLOTS_FREE.
file_lock ==
  /\ ~locked /\ died = "no"
  /\ locked' = TRUE
  /\ size' = IF size < slots_alloced + MIN_SLOTS_FREE THEN size + FILE_ALLOC_CHUNK ELSE size
  /\ allocs' = 0
  /\ UNCHANGED <<links, rank, slot_free, slots_alloced, where, walk, died, doublefrees>>

file_unlock ==
  /\ Working
  /\ locked' = FALSE
  /\ UNCHANGED <<links, rank, slot_free, slots_alloced, size, allocs, where, walk, died, doublefrees>>

Next ==
  \/ file_lock \/ file_unlock
  \/ speedy_slot_alloc
  \/ SortedNext \/ SortedEnd
  \/ \E n \in Slot :
       \/ speedy_slot_free(n)
       \/ \E l \in Lists :
            \/ speedy_slot_remove(n, l) \/ speedy_slot_insert(n, l) \/ speedy_slot_append(n, l)
            \/ \E r \in Ranks : SortedBegin(n, l, r)
            \/ speedy_slot_move_head(n, l) \/ speedy_slot_move_tail(n, l)

Spec == Init /\ [][Next]_vars

-----------------------------------------------------------------------------
(* Properties *)

TypeOK ==
  /\ next_slot \in [Slot -> Nums] /\ prev_slot \in [Slot -> Nums]
  /\ rank \in [Slot -> Ranks]
  /\ head \in [Lists -> Nums] /\ tail \in [Lists -> Nums]
  /\ slot_free \in Nums /\ slots_alloced \in Nums
  /\ size \in Nat /\ allocs \in 0 .. MaxAllocs /\ doublefrees \in Nat
  /\ locked \in BOOLEAN
  /\ where \in [Slot -> Lists \cup {"free", "held"}]
  /\ walk \in [slot : Nums, list : Lists \cup {"held"}, key : Ranks, before : Nums]
  /\ died \in {"no", "out of slots", "file too small", "freeing free slot"}

\* The links of the slots of a list agree with each other and with the ends of
\* the list, for every order of the operations: what speedy_slot_remove needs.
\* The loop of speedy_slot_insert_sorted does not leave its list.
WellLinked ==
  \A l \in Lists :
    /\ head[l] # 0 => where[head[l]] = l
    /\ \A n \in Slot : where[n] = l =>
         /\ prev_slot[n] # n
         /\ next_slot[n] # 0 => where[next_slot[n]] = l /\ prev_slot[next_slot[n]] = n
         /\ prev_slot[n] # 0 => where[prev_slot[n]] = l /\ next_slot[prev_slot[n]] = n
         /\ prev_slot[n] = 0 <=> head[l] = n
         /\ l \notin Singly => (next_slot[n] = 0 <=> tail[l] = n)
    /\ l \notin Singly /\ tail[l] # 0 => where[tail[l]] = l
    /\ walk.list = l => /\ walk.slot # 0 /\ where[walk.slot] = "held" /\ l \notin Singly
                        /\ walk.before # 0 => where[walk.before] = l

\* The free list holds free slots only, each once.
FreeList ==
  /\ slot_free # 0 => where[slot_free] = "free" /\ slot_free <= slots_alloced
  /\ \A n \in 1 .. slots_alloced : where[n] = "free" =>
       LET nx == next_slot[n] IN
       nx # 0 => /\ where[nx] = "free" /\ nx <= slots_alloced /\ nx # slot_free
                 /\ \A m \in 1 .. slots_alloced :
                      where[m] = "free" /\ next_slot[m] = nx => m = n

\* The test of speedy_slot_free is right: a slot points back to itself when it
\* is free and never else, so a slot that is freed twice ends the process, and
\* one that is in use never does; and what is in use has been allocated.
FreeSeen ==
  /\ \A n \in 1 .. slots_alloced : prev_slot[n] = n <=> where[n] = "free"
  /\ \A n \in Slot : where[n] # "free" => n <= slots_alloced

\* MIN_SLOTS_FREE is enough, and a slot in use is in the file.
RoomInFile ==
  /\ died # "file too small"
  /\ slots_alloced <= size
  /\ locked => slots_alloced + (MIN_SLOTS_FREE - allocs) <= size

=============================================================================
