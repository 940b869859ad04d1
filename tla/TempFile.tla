------------------------------ MODULE TempFile ------------------------------
(***************************************************************************)
(* The life of the shared temp file (speedy_file.c): how a frontend, a     *)
(* backend or a backend parent opens, locks, checks, uses, unlocks, closes *)
(* and removes it, and what is left behind when a process dies on the way. *)
(*                                                                         *)
(* file_name is one path; over time it names several files.  Each element  *)
(* of Files is one such file, and stands for its inode and for the         *)
(* create_time in its header, which are taken to be different for          *)
(* different files.  A file that is neither named nor referred to by any   *)
(* process may be created anew.                                            *)
(***************************************************************************)
EXTENDS Naturals

CONSTANTS
  Procs,    \* the processes: frontends, backends and backend parents
  Files,    \* the files that file_name may come to name
  NoProc,   \* lock_owner == 0, or nobody holds the fcntl lock
  NoFile,   \* file_fd == -1, or file_name names nothing
  MaxTries  \* the 5 of file_lock's loop

ASSUME ProcsAssumption == NoProc \notin Procs
ASSUME FilesAssumption == NoFile \notin Files
ASSUME TriesAssumption == MaxTries \in Nat \ {0}

VARIABLES
  named,             \* the file that file_name names
  lock_owner,        \* FILE_HEAD.lock_owner of each file
  file_removed,      \* FILE_HEAD.file_removed of each file
  in_use,            \* whether group_head or fe_run_head is nonzero
  torn,              \* whether a writer stopped between two of its writes
  flock,             \* the process the kernel has granted the write lock
  pc,                \* where each process is
  cur_state,         \* cur_state, one of the FS_ states
  file_fd,           \* the file behind file_fd
  file_create_time,  \* the file whose create_time file_lock remembers
  goal,              \* what file_lock was called for
  tries,             \* file_lock's loop counter
  claim,             \* the file that the slot numbers p holds are used in
  listed             \* whether the slots p uses carry p's own pid

header   == <<lock_owner, file_removed, in_use, torn>>
disk     == <<named, header, flock>>
private  == <<cur_state, file_fd, file_create_time, goal, tries, claim, listed>>
vars     == <<disk, pc, private>>

States == {"CLOSED", "OPEN", "HAVESLOTS", "CORRUPT"}

\* CORRUPT: switch_state(FS_CORRUPT); EXIT and DETACH: switch_state(FS_CLOSED)
\* by a process that then exits, or by a backend that goes on to serve.
Goals == {"CORRUPT", "EXIT", "DETACH"}

\* Holding the fcntl lock, still inside file_lock.
Checking  == {"version", "version_mark", "owner", "owner_mark", "verdict"}
\* Holding the fcntl lock with file_locked set.
Reading   == {"crit", "done", "close", "close_mark", "close_end"}
InSection == Reading \cup {"update"}
Locked    == Checking \cup InSection
PCs       == {"none", "run", "open", "lock"} \cup Locked

TypeOK ==
  /\ named \in Files \cup {NoFile}
  /\ lock_owner \in [Files -> Procs \cup {NoProc}]
  /\ file_removed \in [Files -> BOOLEAN]
  /\ in_use \in [Files -> BOOLEAN]
  /\ torn \in [Files -> BOOLEAN]
  /\ flock \in [Files -> Procs \cup {NoProc}]
  /\ pc \in [Procs -> PCs]
  /\ cur_state \in [Procs -> States]
  /\ file_fd \in [Procs -> Files \cup {NoFile}]
  /\ file_create_time \in [Procs -> Files \cup {NoFile}]
  /\ goal \in [Procs -> Goals]
  /\ tries \in [Procs -> 0..MaxTries]
  /\ claim \in [Procs -> Files \cup {NoFile}]
  /\ listed \in [Procs -> BOOLEAN]

Init ==
  /\ named = NoFile
  /\ lock_owner = [f \in Files |-> NoProc]
  /\ file_removed = [f \in Files |-> FALSE]
  /\ in_use = [f \in Files |-> FALSE]
  /\ torn = [f \in Files |-> FALSE]
  /\ flock = [f \in Files |-> NoProc]
  /\ pc = [p \in Procs |-> "none"]
  /\ cur_state = [p \in Procs |-> "CLOSED"]
  /\ file_fd = [p \in Procs |-> NoFile]
  /\ file_create_time = [p \in Procs |-> NoFile]
  /\ goal = [p \in Procs |-> "CORRUPT"]
  /\ tries = [p \in Procs |-> 0]
  /\ claim = [p \in Procs |-> NoFile]
  /\ listed = [p \in Procs |-> TRUE]

-----------------------------------------------------------------------------
(* Processes come and go.                                                  *)

\* Everything p has in memory and in the kernel disappears: descriptors are
\* closed and the fcntl lock is dropped.  What it wrote to the file stays.
Vanish(p) ==
  /\ pc' = [pc EXCEPT ![p] = "none"]
  /\ cur_state' = [cur_state EXCEPT ![p] = "CLOSED"]
  /\ file_fd' = [file_fd EXCEPT ![p] = NoFile]
  /\ file_create_time' = [file_create_time EXCEPT ![p] = NoFile]
  /\ goal' = [goal EXCEPT ![p] = "CORRUPT"]
  /\ tries' = [tries EXCEPT ![p] = 0]
  /\ claim' = [claim EXCEPT ![p] = NoFile]
  /\ listed' = [listed EXCEPT ![p] = TRUE]

Released(p) == [f \in Files |-> IF flock[f] = p THEN NoProc ELSE flock[f]]

\* A frontend or a backend parent is started.
Start(p) ==
  /\ pc[p] = "none"
  /\ pc' = [pc EXCEPT ![p] = "run"]
  /\ UNCHANGED <<disk, private>>

\* A process ends where it stands: exit() without closing the file, a
\* DIE_QUIET under the lock, or a signal it cannot block.
Terminate(p) ==
  /\ pc[p] # "none"
  /\ Vanish(p)
  /\ flock' = Released(p)
  /\ UNCHANGED <<named, header>>

-----------------------------------------------------------------------------
(* file_lock                                                               *)

\* The entry of file_lock.  reopen: RestatTimeout has passed or the
\* descriptor is not ours any more, so it is dropped and opened again.
EnterFileLock(p, g, reopen) ==
  LET fd == IF reopen THEN NoFile ELSE file_fd[p]
  IN  /\ file_fd' = [file_fd EXCEPT ![p] = fd]
      /\ pc' = [pc EXCEPT ![p] = IF fd = NoFile THEN "open" ELSE "lock"]
      /\ goal' = [goal EXCEPT ![p] = g]
      /\ tries' = [tries EXCEPT ![p] = MaxTries]

\* switch_state(FS_CORRUPT); a child the script forked never gets to it.
BeginLock(p) ==
  /\ pc[p] = "run"
  /\ listed[p]
  /\ \E reopen \in BOOLEAN : EnterFileLock(p, "CORRUPT", reopen)
  /\ UNCHANGED <<disk, cur_state, file_create_time, claim, listed>>

\* No process has a use for f: what it held has gone with the last
\* reference, and a file created now may take its place.
Fresh(f) ==
  /\ f # named
  /\ \A q \in Procs : file_fd[q] # f /\ claim[q] # f

\* open(file_name, O_RDWR | O_CREAT, 0600)
Open(p) ==
  /\ pc[p] = "open"
  /\ pc' = [pc EXCEPT ![p] = "lock"]
  /\ \/ /\ named # NoFile
        /\ file_fd' = [file_fd EXCEPT ![p] = named]
        /\ UNCHANGED disk
     \/ /\ named = NoFile
        /\ \E f \in Files :
             /\ Fresh(f)
             /\ named' = f
             /\ file_fd' = [file_fd EXCEPT ![p] = f]
             /\ lock_owner' = [lock_owner EXCEPT ![f] = NoProc]
             /\ file_removed' = [file_removed EXCEPT ![f] = FALSE]
             /\ in_use' = [in_use EXCEPT ![f] = FALSE]
             /\ torn' = [torn EXCEPT ![f] = FALSE]
        /\ UNCHANGED flock
  /\ UNCHANGED <<cur_state, file_create_time, goal, tries, claim, listed>>

\* (A slip: the create_time of the file just locked is always adopted.)
AdoptsAlways(p) == TRUE

\* Below FS_HAVESLOTS the create_time of whatever file was locked is adopted.
Adopts(p) == file_create_time[p] = NoFile \/ cur_state[p] # "HAVESLOTS"

\* (A slip: a dead writer's mark is not looked at.)
OwnerCheckSkipped(f) == "verdict"

OwnerCheck(f) == IF lock_owner[f] # NoProc THEN "owner" ELSE "verdict"

\* fcntl(F_SETLKW) is granted; the create_time is adopted or compared.
Lock(p) ==
  LET f == file_fd[p]
  IN  /\ pc[p] = "lock"
      /\ flock[f] = NoProc
      /\ flock' = [flock EXCEPT ![f] = p]
      /\ \/ /\ Adopts(p)
            /\ file_create_time' = [file_create_time EXCEPT ![p] = f]
            /\ pc' = [pc EXCEPT ![p] = OwnerCheck(f)]
         \/ /\ ~Adopts(p)
            /\ pc' = [pc EXCEPT ![p] =
                        IF file_create_time[p] = f THEN OwnerCheck(f) ELSE "version"]
            /\ UNCHANGED file_create_time
      /\ UNCHANGED <<named, header, cur_state, file_fd, goal, tries, claim, listed>>

\* remove_file, first half: unlink(file_name), whatever it names by now.
Unlink(p) ==
  /\ \/ pc[p] = "version" /\ pc' = [pc EXCEPT ![p] = "version_mark"]
     \/ pc[p] = "owner" /\ pc' = [pc EXCEPT ![p] = "owner_mark"]
     \/ /\ pc[p] = "close"
        /\ ~in_use[file_fd[p]]
        /\ pc' = [pc EXCEPT ![p] = "close_mark"]
  /\ named' = NoFile
  /\ UNCHANGED <<header, flock, private>>

\* remove_file, second half: FILE_HEAD.file_removed = 1
Mark(p) ==
  LET f == file_fd[p]
  IN  /\ \/ pc[p] = "version_mark" /\ pc' = [pc EXCEPT ![p] = OwnerCheck(f)]
         \/ pc[p] = "owner_mark" /\ pc' = [pc EXCEPT ![p] = "verdict"]
         \/ pc[p] = "close_mark" /\ pc' = [pc EXCEPT ![p] = "close_end"]
      /\ file_removed' = [file_removed EXCEPT ![f] = TRUE]
      /\ UNCHANGED <<named, lock_owner, in_use, torn, flock, private>>

\* (A slip: the file is entered with file_removed set.)
EnterRemoved(p) ==
  /\ pc[p] = "verdict"
  /\ goal[p] = "CORRUPT"
  /\ lock_owner' = [lock_owner EXCEPT ![file_fd[p]] = p]
  /\ pc' = [pc EXCEPT ![p] = "crit"]
  /\ cur_state' = [cur_state EXCEPT ![p] = "CORRUPT"]
  /\ claim' = [claim EXCEPT ![p] = IF @ = NoFile THEN NoFile ELSE file_fd[p]]
  /\ tries' = [tries EXCEPT ![p] = 0]
  /\ UNCHANGED <<named, file_removed, in_use, torn, flock,
                 file_fd, file_create_time, goal, listed>>

\* The file is good: file_locked = 1, lock_owner = getpid().  A process that
\* still holds slot numbers uses them in this file from here on.
Enter(p) ==
  LET f == file_fd[p]
  IN  /\ pc[p] = "verdict"
      /\ ~file_removed[f]
      /\ lock_owner' = [lock_owner EXCEPT ![f] = p]
      /\ \/ /\ goal[p] = "CORRUPT"
            /\ pc' = [pc EXCEPT ![p] = "crit"]
            /\ cur_state' = [cur_state EXCEPT ![p] = "CORRUPT"]
            /\ claim' = [claim EXCEPT ![p] = IF @ = NoFile THEN NoFile ELSE f]
         \/ /\ goal[p] # "CORRUPT"
            /\ pc' = [pc EXCEPT ![p] = "close"]
            /\ UNCHANGED <<cur_state, claim>>
      /\ tries' = [tries EXCEPT ![p] = 0]
      /\ UNCHANGED <<named, file_removed, in_use, torn, flock,
                     file_fd, file_create_time, goal, listed>>

\* (A slip: no count of the tries.)
RetryForever(p) ==
  /\ pc[p] = "verdict"
  /\ file_removed[file_fd[p]]
  /\ cur_state[p] # "HAVESLOTS"
  /\ flock' = Released(p)
  /\ file_fd' = [file_fd EXCEPT ![p] = NoFile]
  /\ tries' = [tries EXCEPT ![p] = @ - 1]
  /\ pc' = [pc EXCEPT ![p] = "open"]
  /\ UNCHANGED <<named, header, cur_state, file_create_time, goal, claim, listed>>

\* The file was removed and p holds no slots: file_close2 and try again.
\* file_locked is not set, so file_close2 leaves lock_owner as it is.
Retry(p) ==
  /\ pc[p] = "verdict"
  /\ file_removed[file_fd[p]]
  /\ cur_state[p] # "HAVESLOTS"
  /\ tries[p] > 1
  /\ flock' = Released(p)
  /\ file_fd' = [file_fd EXCEPT ![p] = NoFile]
  /\ tries' = [tries EXCEPT ![p] = @ - 1]
  /\ pc' = [pc EXCEPT ![p] = "open"]
  /\ UNCHANGED <<named, header, cur_state, file_create_time, goal, claim, listed>>

\* "temp file is corrupt" for a process with slots, "could not open temp
\* file" when the tries are used up.
GiveUp(p) ==
  /\ pc[p] = "verdict"
  /\ file_removed[file_fd[p]]
  /\ cur_state[p] = "HAVESLOTS" \/ tries[p] = 1
  /\ Vanish(p)
  /\ flock' = Released(p)
  /\ UNCHANGED <<named, header>>

-----------------------------------------------------------------------------
(* Under the lock                                                          *)

BeginUpdate(p) ==
  /\ pc[p] = "crit"
  /\ pc' = [pc EXCEPT ![p] = "update"]
  /\ torn' = [torn EXCEPT ![file_fd[p]] = TRUE]
  /\ UNCHANGED <<named, lock_owner, file_removed, in_use, flock, private>>

\* The lists are whole again.  p ends with slots in this file, or with none.
\* Nobody takes away the slots of a living process (speedy_group_cleanup
\* kills the parent first), so while they carry its pid there is a group or
\* an fe_run entry left.
EndUpdate(p) ==
  LET f == file_fd[p]
  IN  /\ pc[p] = "update"
      /\ pc' = [pc EXCEPT ![p] = "done"]
      /\ torn' = [torn EXCEPT ![f] = FALSE]
      /\ \E c \in {NoFile, f}, u \in BOOLEAN :
           /\ c = f \/ (\E q \in Procs \ {p} : claim[q] = f /\ listed[q]) => u
           /\ claim' = [claim EXCEPT ![p] = c]
           /\ in_use' = [in_use EXCEPT ![f] = u]
      /\ UNCHANGED <<named, lock_owner, file_removed, flock,
                     cur_state, file_fd, file_create_time, goal, tries, listed>>

\* file_unlock, by switch_state(FS_OPEN) or switch_state(FS_HAVESLOTS)
FileUnlock(p, state) ==
  LET f == file_fd[p]
  IN  /\ lock_owner' = [lock_owner EXCEPT ![f] = NoProc]
      /\ flock' = [flock EXCEPT ![f] = NoProc]
      /\ pc' = [pc EXCEPT ![p] = "run"]
      /\ cur_state' = [cur_state EXCEPT ![p] = state]
      /\ UNCHANGED <<named, file_removed, in_use, torn,
                     file_fd, file_create_time, goal, tries, claim, listed>>

Unlock(p) ==
  /\ pc[p] \in {"crit", "done"}
  /\ FileUnlock(p, IF claim[p] = NoFile THEN "OPEN" ELSE "HAVESLOTS")

\* A frontend found its backend still running: it goes to FS_OPEN and yet
\* keeps its slot number for the next look (speedy_main.c:389-392).
UnlockKeepingSlots(p) ==
  /\ pc[p] = "crit"
  /\ claim[p] # NoFile
  /\ FileUnlock(p, "OPEN")

-----------------------------------------------------------------------------
(* file_close                                                              *)

\* switch_state(FS_CLOSED) by a process about to exit, with slots or locked.
BeginClose(p) ==
  \/ /\ pc[p] \in {"crit", "done"}
     /\ pc' = [pc EXCEPT ![p] = "close"]
     /\ goal' = [goal EXCEPT ![p] = "EXIT"]
     /\ UNCHANGED <<disk, cur_state, file_fd, file_create_time, tries, claim, listed>>
  \/ /\ pc[p] = "run"
     /\ cur_state[p] = "HAVESLOTS"
     /\ \E reopen \in BOOLEAN : EnterFileLock(p, "EXIT", reopen)
     /\ UNCHANGED <<disk, cur_state, file_create_time, claim, listed>>

\* Groups or frontends are left: the file is not removed.
KeepFile(p) ==
  /\ pc[p] = "close"
  /\ in_use[file_fd[p]]
  /\ pc' = [pc EXCEPT ![p] = "close_end"]
  /\ UNCHANGED <<disk, private>>

\* file_close2 under the lock, then exit, or serve with the file closed.
CloseEnd(p) ==
  /\ pc[p] = "close_end"
  /\ lock_owner' = [lock_owner EXCEPT ![file_fd[p]] = NoProc]
  /\ flock' = Released(p)
  /\ \/ /\ goal[p] = "EXIT"
        /\ Vanish(p)
     \/ /\ goal[p] = "DETACH"
        /\ pc' = [pc EXCEPT ![p] = "run"]
        /\ cur_state' = [cur_state EXCEPT ![p] = "CLOSED"]
        /\ file_fd' = [file_fd EXCEPT ![p] = NoFile]
        /\ goal' = [goal EXCEPT ![p] = "CORRUPT"]
        /\ UNCHANGED <<file_create_time, tries, claim, listed>>
  /\ UNCHANGED <<named, file_removed, in_use, torn>>

-----------------------------------------------------------------------------
(* fork                                                                    *)

\* (A slip: no speedy_file_fork_child, the child still has file_locked set.)
ForkLocked(p, q) ==
  /\ pc[p] = "update"
  /\ pc[q] = "none"
  /\ pc' = [pc EXCEPT ![q] = "close"]
  /\ cur_state' = [cur_state EXCEPT ![q] = "CORRUPT"]
  /\ file_fd' = [file_fd EXCEPT ![q] = file_fd[p]]
  /\ file_create_time' = [file_create_time EXCEPT ![q] = file_create_time[p]]
  /\ goal' = [goal EXCEPT ![q] = "DETACH"]
  /\ claim' = [claim EXCEPT ![q] = file_fd[p]]
  /\ UNCHANGED <<disk, tries, listed>>

\* start_child: the parent forks a backend in the middle of its writes.  The
\* child inherits the descriptor and the slot numbers, not the lock;
\* speedy_file_fork_child moves it to FS_HAVESLOTS, and switch_state
\* (FS_CLOSED) makes it wait for the lock.
ForkBackend(p, q) ==
  /\ pc[p] = "update"
  /\ pc[q] = "none"
  /\ pc' = [pc EXCEPT ![q] = "lock"]
  /\ cur_state' = [cur_state EXCEPT ![q] = "HAVESLOTS"]
  /\ file_fd' = [file_fd EXCEPT ![q] = file_fd[p]]
  /\ file_create_time' = [file_create_time EXCEPT ![q] = file_create_time[p]]
  /\ goal' = [goal EXCEPT ![q] = "DETACH"]
  /\ tries' = [tries EXCEPT ![q] = MaxTries]
  /\ claim' = [claim EXCEPT ![q] = file_fd[p]]
  /\ UNCHANGED <<disk, listed>>

\* The script a backend runs forks.  The child that returns from it into
\* cleanup_after_perl has the parent's slot numbers, and can only close the
\* file and exit.
ForkHolder(p, q) ==
  /\ pc[p] = "run"
  /\ cur_state[p] = "HAVESLOTS"
  /\ pc[q] = "none"
  /\ pc' = [pc EXCEPT ![q] = "run"]
  /\ cur_state' = [cur_state EXCEPT ![q] = cur_state[p]]
  /\ file_fd' = [file_fd EXCEPT ![q] = file_fd[p]]
  /\ file_create_time' = [file_create_time EXCEPT ![q] = file_create_time[p]]
  /\ goal' = [goal EXCEPT ![q] = goal[p]]
  /\ tries' = [tries EXCEPT ![q] = tries[p]]
  /\ claim' = [claim EXCEPT ![q] = claim[p]]
  /\ listed' = [listed EXCEPT ![q] = FALSE]
  /\ UNCHANGED disk

-----------------------------------------------------------------------------

Next ==
  \E p \in Procs :
    \/ Start(p) \/ Terminate(p)
    \/ BeginLock(p) \/ Open(p) \/ Lock(p) \/ Unlink(p) \/ Mark(p)
    \/ Enter(p) \/ Retry(p) \/ GiveUp(p)
    \/ BeginUpdate(p) \/ EndUpdate(p) \/ Unlock(p) \/ UnlockKeepingSlots(p)
    \/ BeginClose(p) \/ KeepFile(p) \/ CloseEnd(p)
    \/ \E q \in Procs : ForkBackend(p, q) \/ ForkHolder(p, q)

Spec == Init /\ [][Next]_vars

-----------------------------------------------------------------------------
(* Properties                                                              *)

\* Two processes never both believe that they have one file locked: neither a
\* fork, nor a close, nor a death hands the lock to a second holder.
MutualExclusion ==
  \A p, q \in Procs :
    p # q /\ pc[p] \in InSection /\ pc[q] \in InSection => file_fd[p] # file_fd[q]

\* Whoever gets through file_lock finds lists that were written to the end: a
\* writer that died on the way left its pid in lock_owner, and nobody works
\* in a file marked removed.
NoTornRead ==
  \A p \in Procs :
    pc[p] \in Reading => ~torn[file_fd[p]]

EntersLiveFile ==
  \A p \in Procs :
    pc[p] \in {"crit", "update", "done"} => ~file_removed[file_fd[p]]

\* "Too late for this proc - slotnums have changed": a process that goes into
\* the file from FS_HAVESLOTS is in the very file its slot numbers are from.
HaveSlotsProtects ==
  [][\A p \in Procs :
       cur_state[p] = "HAVESLOTS" /\ cur_state'[p] = "CORRUPT"
         => claim'[p] = claim[p]]_vars

\* "If file is corrupt (didn't finish all writes), remove it": the name that
\* remove_file takes away is that of the file it holds the lock of.
UnlinksLockedFile ==
  [][named # NoFile /\ named' = NoFile
       => flock[named] # NoProc /\ pc[flock[named]] \in {"version", "owner", "close"}]_vars

-----------------------------------------------------------------------------
(* The inductive invariant the safety properties follow from               *)

\* The kernel's holder of a lock is a process with that file in hand, in a
\* part of the code that runs under the lock, and the other way round.
HolderIsInside ==
  \A f \in Files : flock[f] # NoProc => pc[flock[f]] \in Locked /\ file_fd[flock[f]] = f

InsideIsHolder ==
  \A p \in Procs :
    /\ pc[p] \in Locked => file_fd[p] # NoFile /\ flock[file_fd[p]] = p
    /\ pc[p] = "lock" => file_fd[p] # NoFile

\* lock_owner is set for as long as somebody works in the file, and stays set
\* if the work was not finished.
OwnerGuards ==
  /\ \A p \in Procs : pc[p] \in InSection => lock_owner[file_fd[p]] = p
  /\ \A f \in Files : torn[f] => lock_owner[f] # NoProc

\* file_lock reaches its verdict on a file marked removed, or not owned.
VerdictIsSound ==
  \A p \in Procs :
    pc[p] = "verdict" =>
      file_removed[file_fd[p]] \/ lock_owner[file_fd[p]] = NoProc

\* The section was entered with the file whole and not removed.
SectionIsSound ==
  \A p \in Procs :
    /\ pc[p] \in Reading => ~torn[file_fd[p]]
    /\ pc[p] \in {"crit", "update", "done"} => ~file_removed[file_fd[p]]

\* From FS_HAVESLOTS on, the remembered create_time is that of the file the
\* slot numbers are from, and a file that differs from it is marked removed.
CreateTimeGuards ==
  \A p \in Procs :
    /\ cur_state[p] = "HAVESLOTS" => claim[p] # NoFile /\ file_create_time[p] = claim[p]
    /\ cur_state[p] = "CORRUPT" =>
         /\ pc[p] \in InSection
         /\ claim[p] \in {NoFile, file_fd[p]}
         /\ file_create_time[p] = file_fd[p]
    /\ pc[p] \in {"crit", "update", "done"} => cur_state[p] = "CORRUPT"
    /\ pc[p] \in {"owner", "owner_mark", "verdict"} =>
         file_create_time[p] = file_fd[p] \/ file_removed[file_fd[p]]

IInv ==
  /\ TypeOK
  /\ HolderIsInside
  /\ InsideIsHolder
  /\ OwnerGuards
  /\ VerdictIsSound
  /\ SectionIsSound
  /\ CreateTimeGuards
=============================================================================
