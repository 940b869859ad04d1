----------------------------- MODULE MCTempFile -----------------------------
(***************************************************************************)
(* Model checking TempFile.  Processes and files are interchangeable, and  *)
(* two states that differ only in values nothing will ever read are one:   *)
(* the header of a file nobody can reach, and a create_time that the next  *)
(* file_lock overwrites.                                                   *)
(***************************************************************************)
EXTENDS TempFileStore, TLC

Symmetry == Permutations(Procs) \cup Permutations(Files)

LiveHeader ==
  [f \in Files |->
     IF Fresh(f) THEN <<>>
     ELSE <<lock_owner[f], file_removed[f], in_use[f], torn[f]>>]

LiveCreateTime ==
  [p \in Procs |->
     IF cur_state[p] \in {"HAVESLOTS", "CORRUPT"} THEN file_create_time[p] ELSE NoFile]

LiveState ==
  <<named, LiveHeader, flock, pc, cur_state, file_fd, LiveCreateTime, goal, tries, claim,
    listed>>
=============================================================================
