---------------------------- MODULE TempFileStore ---------------------------
(***************************************************************************)
(* TempFile implements SlotStore.  A file is busy while the process the    *)
(* kernel has granted its lock is past file_lock, and dead when it is not  *)
(* busy and is marked removed or still has a lock_owner.                   *)
(***************************************************************************)
EXTENDS TempFile

HoldersOf(f) == {p \in Procs : file_fd[p] = f \/ claim[p] = f}

Busy(f) == flock[f] # NoProc /\ pc[flock[f]] \in InSection

PhaseOf(f) ==
  IF Fresh(f) THEN "none"
  ELSE IF Busy(f) THEN "busy"
  ELSE IF file_removed[f] \/ lock_owner[f] # NoProc THEN "dead"
  ELSE "whole"

UserOf(f) == IF Busy(f) THEN flock[f] ELSE NoProc

Store ==
  INSTANCE SlotStore WITH
    phase   <- [f \in Files |-> PhaseOf(f)],
    user    <- [f \in Files |-> UserOf(f)],
    holders <- [f \in Files |-> HoldersOf(f)]

\* The whole life of the temp file, seen from its users: one of them at a
\* time, never a half-written file, and no way back for a file that is dead.
ImplementsSlotStore == Store!Spec
=============================================================================
