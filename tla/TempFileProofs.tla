---------------------------- MODULE TempFileProofs --------------------------
(* Proofs about TempFile, for any processes, any files and any MaxTries: its *)
(* safety properties, and that it implements SlotStore.                      *)
EXTENDS TempFileStore, TLAPS

USE ProcsAssumption, FilesAssumption, TriesAssumption

LEMMA TypeInit == Init => TypeOK
  BY DEF Init, TypeOK, PCs, Locked, Checking, InSection, Reading, States, Goals

LEMMA TypeStep == TypeOK /\ [Next]_vars => TypeOK'
<1> SUFFICES ASSUME TypeOK, [Next]_vars PROVE TypeOK'
  OBVIOUS
<1> USE DEF TypeOK, disk, header, private, PCs, Locked, Checking, InSection, Reading, States, Goals
<1>1. ASSUME NEW p \in Procs, Start(p) PROVE TypeOK'
  BY <1>1 DEF Start
<1>2. ASSUME NEW p \in Procs, Terminate(p) PROVE TypeOK'
  BY <1>2 DEF Terminate, Vanish, Released
<1>3. ASSUME NEW p \in Procs, BeginLock(p) PROVE TypeOK'
  BY <1>3 DEF BeginLock, EnterFileLock
<1>4. ASSUME NEW p \in Procs, Open(p) PROVE TypeOK'
  <2>1. CASE named # NoFile
    BY <1>4, <2>1 DEF Open
  <2>2. CASE named = NoFile
    <3>1. PICK f \in Files :
            /\ named' = f
            /\ file_fd' = [file_fd EXCEPT ![p] = f]
            /\ lock_owner' = [lock_owner EXCEPT ![f] = NoProc]
            /\ file_removed' = [file_removed EXCEPT ![f] = FALSE]
            /\ in_use' = [in_use EXCEPT ![f] = FALSE]
            /\ torn' = [torn EXCEPT ![f] = FALSE]
      BY <1>4, <2>2 DEF Open
    <3>2. /\ pc' = [pc EXCEPT ![p] = "lock"]
          /\ UNCHANGED <<flock, cur_state, file_create_time, goal, tries, claim, listed>>
      BY <1>4, <2>2 DEF Open
    <3>3. QED
      BY <3>1, <3>2
  <2>3. QED
    BY <2>1, <2>2
<1>5. ASSUME NEW p \in Procs, Lock(p) PROVE TypeOK'
  BY <1>5 DEF Lock, Adopts, OwnerCheck
<1>6. ASSUME NEW p \in Procs, Unlink(p) PROVE TypeOK'
  BY <1>6 DEF Unlink
<1>7. ASSUME NEW p \in Procs, Mark(p) PROVE TypeOK'
  BY <1>7 DEF Mark, OwnerCheck
<1>8. ASSUME NEW p \in Procs, Enter(p) PROVE TypeOK'
  <2>1. lock_owner' \in [Files -> Procs \cup {NoProc}]
    BY <1>8 DEF Enter
  <2>2. pc' \in [Procs -> PCs] /\ cur_state' \in [Procs -> States]
    BY <1>8 DEF Enter
  <2>3. claim' \in [Procs -> Files \cup {NoFile}]
    BY <1>8 DEF Enter
  <2>4. tries' \in [Procs -> 0..MaxTries]
    BY <1>8 DEF Enter
  <2>5. UNCHANGED <<named, file_removed, in_use, torn, flock,
                    file_fd, file_create_time, goal, listed>>
    BY <1>8 DEF Enter
  <2>6. QED
    BY <2>1, <2>2, <2>3, <2>4, <2>5
<1>9. ASSUME NEW p \in Procs, Retry(p) PROVE TypeOK'
  BY <1>9 DEF Retry, Released
<1>10. ASSUME NEW p \in Procs, GiveUp(p) PROVE TypeOK'
  BY <1>10 DEF GiveUp, Vanish, Released
<1>11. ASSUME NEW p \in Procs, BeginUpdate(p) PROVE TypeOK'
  BY <1>11 DEF BeginUpdate
<1>12. ASSUME NEW p \in Procs, EndUpdate(p) PROVE TypeOK'
  <2>1. pc' \in [Procs -> PCs] /\ torn' \in [Files -> BOOLEAN]
    BY <1>12 DEF EndUpdate
  <2>2. claim' \in [Procs -> Files \cup {NoFile}]
    <3>1. PICK c \in {NoFile, file_fd[p]} : claim' = [claim EXCEPT ![p] = c]
      BY <1>12 DEF EndUpdate
    <3>2. QED
      BY <3>1
  <2>3. in_use' \in [Files -> BOOLEAN]
    <3>1. PICK u \in BOOLEAN : in_use' = [in_use EXCEPT ![file_fd[p]] = u]
      BY <1>12 DEF EndUpdate
    <3>2. QED
      BY <3>1
  <2>4. UNCHANGED <<named, lock_owner, file_removed, flock,
                    cur_state, file_fd, file_create_time, goal, tries, listed>>
    BY <1>12 DEF EndUpdate
  <2>5. QED
    BY <2>1, <2>2, <2>3, <2>4
<1>13. ASSUME NEW p \in Procs, Unlock(p) PROVE TypeOK'
  BY <1>13 DEF Unlock, FileUnlock
<1>14. ASSUME NEW p \in Procs, UnlockKeepingSlots(p) PROVE TypeOK'
  BY <1>14 DEF UnlockKeepingSlots, FileUnlock
<1>15. ASSUME NEW p \in Procs, BeginClose(p) PROVE TypeOK'
  BY <1>15 DEF BeginClose, EnterFileLock
<1>16. ASSUME NEW p \in Procs, KeepFile(p) PROVE TypeOK'
  BY <1>16 DEF KeepFile
<1>17. ASSUME NEW p \in Procs, CloseEnd(p) PROVE TypeOK'
  <2>1. CASE goal[p] = "EXIT"
    <3>1. Vanish(p)
      BY <1>17, <2>1 DEF CloseEnd
    <3>2. /\ lock_owner' \in [Files -> Procs \cup {NoProc}]
          /\ flock' \in [Files -> Procs \cup {NoProc}]
          /\ UNCHANGED <<named, file_removed, in_use, torn>>
      BY <1>17 DEF CloseEnd, Released
    <3>3. QED
      BY <3>1, <3>2 DEF Vanish
  <2>2. CASE goal[p] = "DETACH"
    <3>1. /\ lock_owner' \in [Files -> Procs \cup {NoProc}]
          /\ flock' \in [Files -> Procs \cup {NoProc}]
      BY <1>17 DEF CloseEnd, Released
    <3>2. pc' \in [Procs -> PCs] /\ cur_state' \in [Procs -> States]
      BY <1>17, <2>2 DEF CloseEnd
    <3>3. goal' \in [Procs -> Goals]
      BY <1>17, <2>2 DEF CloseEnd
    <3>4. file_fd' \in [Procs -> Files \cup {NoFile}]
      BY <1>17, <2>2 DEF CloseEnd
    <3>5. UNCHANGED <<named, file_removed, in_use, torn,
                      file_create_time, tries, claim, listed>>
      BY <1>17, <2>2 DEF CloseEnd
    <3>6. QED
      BY <3>1, <3>2, <3>3, <3>4, <3>5
  <2>3. QED
    BY <1>17, <2>1, <2>2 DEF CloseEnd
<1>18. ASSUME NEW p \in Procs, NEW q \in Procs, ForkBackend(p, q) PROVE TypeOK'
  BY <1>18 DEF ForkBackend
<1>19. ASSUME NEW p \in Procs, NEW q \in Procs, ForkHolder(p, q) PROVE TypeOK'
  BY <1>19 DEF ForkHolder
<1>20. CASE UNCHANGED vars
  BY <1>20 DEF vars
<1>21. QED
  BY <1>1, <1>2, <1>3, <1>4, <1>5, <1>6, <1>7, <1>8, <1>9, <1>10, <1>11, <1>12, <1>13, <1>14, <1>15, <1>16, <1>17, <1>18, <1>19, <1>20 DEF Next

THEOREM TypeCorrect == Spec => []TypeOK
  BY TypeInit, TypeStep, PTL DEF Spec

\* The kernel's grant is never left behind: a process gives it up, or dies, with
\* the descriptor it was granted for.  Only Lock makes a holder.
LEMMA HolderStep ==
  ASSUME TypeOK, TypeOK', HolderIsInside, [Next]_vars
  PROVE  HolderIsInside'
<1> USE DEF TypeOK, disk, header, private, PCs, Locked, Checking, InSection, Reading, States, Goals,
            HolderIsInside
<1>1. ASSUME NEW p \in Procs, Start(p) PROVE HolderIsInside'
  BY <1>1 DEF Start
<1>2. ASSUME NEW p \in Procs, Terminate(p) PROVE HolderIsInside'
  BY <1>2 DEF Terminate, Vanish, Released
<1>3. ASSUME NEW p \in Procs, BeginLock(p) PROVE HolderIsInside'
  BY <1>3 DEF BeginLock, EnterFileLock
<1>4. ASSUME NEW p \in Procs, Open(p) PROVE HolderIsInside'
  BY <1>4 DEF Open, Fresh
<1>5. ASSUME NEW p \in Procs, Lock(p) PROVE HolderIsInside'
  BY <1>5 DEF Lock, Adopts, OwnerCheck
<1>6. ASSUME NEW p \in Procs, Unlink(p) PROVE HolderIsInside'
  BY <1>6 DEF Unlink
<1>7. ASSUME NEW p \in Procs, Mark(p) PROVE HolderIsInside'
  BY <1>7 DEF Mark, OwnerCheck
<1>8. ASSUME NEW p \in Procs, Enter(p) PROVE HolderIsInside'
  BY <1>8 DEF Enter
<1>9. ASSUME NEW p \in Procs, Retry(p) PROVE HolderIsInside'
  BY <1>9 DEF Retry, Released
<1>10. ASSUME NEW p \in Procs, GiveUp(p) PROVE HolderIsInside'
  BY <1>10 DEF GiveUp, Vanish, Released
<1>11. ASSUME NEW p \in Procs, BeginUpdate(p) PROVE HolderIsInside'
  BY <1>11 DEF BeginUpdate
<1>12. ASSUME NEW p \in Procs, EndUpdate(p) PROVE HolderIsInside'
  BY <1>12 DEF EndUpdate
<1>13. ASSUME NEW p \in Procs, Unlock(p) PROVE HolderIsInside'
  BY <1>13 DEF Unlock, FileUnlock
<1>14. ASSUME NEW p \in Procs, UnlockKeepingSlots(p) PROVE HolderIsInside'
  BY <1>14 DEF UnlockKeepingSlots, FileUnlock
<1>15. ASSUME NEW p \in Procs, BeginClose(p) PROVE HolderIsInside'
  BY <1>15 DEF BeginClose, EnterFileLock
<1>16. ASSUME NEW p \in Procs, KeepFile(p) PROVE HolderIsInside'
  BY <1>16 DEF KeepFile
<1>17. ASSUME NEW p \in Procs, CloseEnd(p) PROVE HolderIsInside'
  BY <1>17 DEF CloseEnd, Vanish, Released
<1>18. ASSUME NEW p \in Procs, NEW q \in Procs, ForkBackend(p, q) PROVE HolderIsInside'
  BY <1>18 DEF ForkBackend
<1>19. ASSUME NEW p \in Procs, NEW q \in Procs, ForkHolder(p, q) PROVE HolderIsInside'
  BY <1>19 DEF ForkHolder
<1>20. CASE UNCHANGED vars
  BY <1>20 DEF vars
<1>21. QED
  BY <1>1, <1>2, <1>3, <1>4, <1>5, <1>6, <1>7, <1>8, <1>9, <1>10, <1>11, <1>12, <1>13, <1>14, <1>15, <1>16, <1>17, <1>18, <1>19, <1>20 DEF Next

\* Nobody is in a part of the code that runs under the lock without the grant:
\* a fork leaves the child outside, and nothing releases another's grant.
LEMMA InsideStep ==
  ASSUME TypeOK, TypeOK', InsideIsHolder, [Next]_vars
  PROVE  InsideIsHolder'
<1> USE DEF TypeOK, disk, header, private, PCs, Locked, Checking, InSection, Reading, States, Goals,
            InsideIsHolder
<1>1. ASSUME NEW p \in Procs, Start(p) PROVE InsideIsHolder'
  BY <1>1 DEF Start
<1>2. ASSUME NEW p \in Procs, Terminate(p) PROVE InsideIsHolder'
  BY <1>2 DEF Terminate, Vanish, Released
<1>3. ASSUME NEW p \in Procs, BeginLock(p) PROVE InsideIsHolder'
  BY <1>3 DEF BeginLock, EnterFileLock
<1>4. ASSUME NEW p \in Procs, Open(p) PROVE InsideIsHolder'
  BY <1>4 DEF Open, Fresh
<1>5. ASSUME NEW p \in Procs, Lock(p) PROVE InsideIsHolder'
  BY <1>5 DEF Lock, Adopts, OwnerCheck
<1>6. ASSUME NEW p \in Procs, Unlink(p) PROVE InsideIsHolder'
  BY <1>6 DEF Unlink
<1>7. ASSUME NEW p \in Procs, Mark(p) PROVE InsideIsHolder'
  BY <1>7 DEF Mark, OwnerCheck
<1>8. ASSUME NEW p \in Procs, Enter(p) PROVE InsideIsHolder'
  BY <1>8 DEF Enter
<1>9. ASSUME NEW p \in Procs, Retry(p) PROVE InsideIsHolder'
  BY <1>9 DEF Retry, Released
<1>10. ASSUME NEW p \in Procs, GiveUp(p) PROVE InsideIsHolder'
  BY <1>10 DEF GiveUp, Vanish, Released
<1>11. ASSUME NEW p \in Procs, BeginUpdate(p) PROVE InsideIsHolder'
  BY <1>11 DEF BeginUpdate
<1>12. ASSUME NEW p \in Procs, EndUpdate(p) PROVE InsideIsHolder'
  BY <1>12 DEF EndUpdate
<1>13. ASSUME NEW p \in Procs, Unlock(p) PROVE InsideIsHolder'
  BY <1>13 DEF Unlock, FileUnlock
<1>14. ASSUME NEW p \in Procs, UnlockKeepingSlots(p) PROVE InsideIsHolder'
  BY <1>14 DEF UnlockKeepingSlots, FileUnlock
<1>15. ASSUME NEW p \in Procs, BeginClose(p) PROVE InsideIsHolder'
  BY <1>15 DEF BeginClose, EnterFileLock
<1>16. ASSUME NEW p \in Procs, KeepFile(p) PROVE InsideIsHolder'
  BY <1>16 DEF KeepFile
<1>17. ASSUME NEW p \in Procs, CloseEnd(p) PROVE InsideIsHolder'
  BY <1>17 DEF CloseEnd, Vanish, Released
<1>18. ASSUME NEW p \in Procs, NEW q \in Procs, ForkBackend(p, q) PROVE InsideIsHolder'
  BY <1>18 DEF ForkBackend
<1>19. ASSUME NEW p \in Procs, NEW q \in Procs, ForkHolder(p, q) PROVE InsideIsHolder'
  BY <1>19 DEF ForkHolder
<1>20. CASE UNCHANGED vars
  BY <1>20 DEF vars
<1>21. QED
  BY <1>1, <1>2, <1>3, <1>4, <1>5, <1>6, <1>7, <1>8, <1>9, <1>10, <1>11, <1>12, <1>13, <1>14, <1>15, <1>16, <1>17, <1>18, <1>19, <1>20 DEF Next

\* lock_owner follows the section.  A file that is created anew is in nobody's
\* hands, so no section is open in it.
LEMMA OwnerStep ==
  ASSUME TypeOK, TypeOK', InsideIsHolder, SectionIsSound, OwnerGuards, [Next]_vars
  PROVE  OwnerGuards'
<1> USE DEF TypeOK, disk, header, private, PCs, Locked, Checking, InSection, Reading, States, Goals,
            InsideIsHolder, SectionIsSound, OwnerGuards
<1>1. ASSUME NEW p \in Procs, Start(p) PROVE OwnerGuards'
  BY <1>1 DEF Start
<1>2. ASSUME NEW p \in Procs, Terminate(p) PROVE OwnerGuards'
  BY <1>2 DEF Terminate, Vanish, Released
<1>3. ASSUME NEW p \in Procs, BeginLock(p) PROVE OwnerGuards'
  BY <1>3 DEF BeginLock, EnterFileLock
<1>4. ASSUME NEW p \in Procs, Open(p) PROVE OwnerGuards'
  BY <1>4 DEF Open, Fresh
<1>5. ASSUME NEW p \in Procs, Lock(p) PROVE OwnerGuards'
  BY <1>5 DEF Lock, Adopts, OwnerCheck
<1>6. ASSUME NEW p \in Procs, Unlink(p) PROVE OwnerGuards'
  BY <1>6 DEF Unlink
<1>7. ASSUME NEW p \in Procs, Mark(p) PROVE OwnerGuards'
  BY <1>7 DEF Mark, OwnerCheck
<1>8. ASSUME NEW p \in Procs, Enter(p) PROVE OwnerGuards'
  BY <1>8 DEF Enter
<1>9. ASSUME NEW p \in Procs, Retry(p) PROVE OwnerGuards'
  BY <1>9 DEF Retry, Released
<1>10. ASSUME NEW p \in Procs, GiveUp(p) PROVE OwnerGuards'
  BY <1>10 DEF GiveUp, Vanish, Released
<1>11. ASSUME NEW p \in Procs, BeginUpdate(p) PROVE OwnerGuards'
  BY <1>11 DEF BeginUpdate
<1>12. ASSUME NEW p \in Procs, EndUpdate(p) PROVE OwnerGuards'
  BY <1>12 DEF EndUpdate
<1>13. ASSUME NEW p \in Procs, Unlock(p) PROVE OwnerGuards'
  BY <1>13 DEF Unlock, FileUnlock
<1>14. ASSUME NEW p \in Procs, UnlockKeepingSlots(p) PROVE OwnerGuards'
  BY <1>14 DEF UnlockKeepingSlots, FileUnlock
<1>15. ASSUME NEW p \in Procs, BeginClose(p) PROVE OwnerGuards'
  BY <1>15 DEF BeginClose, EnterFileLock
<1>16. ASSUME NEW p \in Procs, KeepFile(p) PROVE OwnerGuards'
  BY <1>16 DEF KeepFile
<1>17. ASSUME NEW p \in Procs, CloseEnd(p) PROVE OwnerGuards'
  <2>1. /\ lock_owner' = [lock_owner EXCEPT ![file_fd[p]] = NoProc] /\ torn' = torn
        /\ pc[p] = "close_end" /\ pc'[p] \in {"none", "run"}
        /\ \A q \in Procs \ {p} : pc'[q] = pc[q] /\ file_fd'[q] = file_fd[q]
    BY <1>17 DEF CloseEnd, Vanish
  <2>2. ASSUME NEW q \in Procs, pc'[q] \in InSection PROVE lock_owner'[file_fd'[q]] = q
    BY <2>1, <2>2
  <2>3. ASSUME NEW f \in Files, torn'[f] PROVE lock_owner'[f] # NoProc
    BY <2>1, <2>3
  <2>4. QED
    BY <2>2, <2>3
<1>18. ASSUME NEW p \in Procs, NEW q \in Procs, ForkBackend(p, q) PROVE OwnerGuards'
  BY <1>18 DEF ForkBackend
<1>19. ASSUME NEW p \in Procs, NEW q \in Procs, ForkHolder(p, q) PROVE OwnerGuards'
  BY <1>19 DEF ForkHolder
<1>20. CASE UNCHANGED vars
  BY <1>20 DEF vars
<1>21. QED
  BY <1>1, <1>2, <1>3, <1>4, <1>5, <1>6, <1>7, <1>8, <1>9, <1>10, <1>11, <1>12, <1>13, <1>14, <1>15, <1>16, <1>17, <1>18, <1>19, <1>20 DEF Next

\* Between the check of lock_owner and the verdict nobody else can be in the
\* file to set lock_owner.
LEMMA VerdictStep ==
  ASSUME TypeOK, TypeOK', InsideIsHolder, VerdictIsSound, [Next]_vars
  PROVE  VerdictIsSound'
<1> USE DEF TypeOK, disk, header, private, PCs, Locked, Checking, InSection, Reading, States, Goals,
            InsideIsHolder, VerdictIsSound
<1>1. ASSUME NEW p \in Procs, Start(p) PROVE VerdictIsSound'
  BY <1>1 DEF Start
<1>2. ASSUME NEW p \in Procs, Terminate(p) PROVE VerdictIsSound'
  BY <1>2 DEF Terminate, Vanish, Released
<1>3. ASSUME NEW p \in Procs, BeginLock(p) PROVE VerdictIsSound'
  BY <1>3 DEF BeginLock, EnterFileLock
<1>4. ASSUME NEW p \in Procs, Open(p) PROVE VerdictIsSound'
  BY <1>4 DEF Open, Fresh
<1>5. ASSUME NEW p \in Procs, Lock(p) PROVE VerdictIsSound'
  BY <1>5 DEF Lock, Adopts, OwnerCheck
<1>6. ASSUME NEW p \in Procs, Unlink(p) PROVE VerdictIsSound'
  BY <1>6 DEF Unlink
<1>7. ASSUME NEW p \in Procs, Mark(p) PROVE VerdictIsSound'
  BY <1>7 DEF Mark, OwnerCheck
<1>8. ASSUME NEW p \in Procs, Enter(p) PROVE VerdictIsSound'
  BY <1>8 DEF Enter
<1>9. ASSUME NEW p \in Procs, Retry(p) PROVE VerdictIsSound'
  BY <1>9 DEF Retry, Released
<1>10. ASSUME NEW p \in Procs, GiveUp(p) PROVE VerdictIsSound'
  BY <1>10 DEF GiveUp, Vanish, Released
<1>11. ASSUME NEW p \in Procs, BeginUpdate(p) PROVE VerdictIsSound'
  BY <1>11 DEF BeginUpdate
<1>12. ASSUME NEW p \in Procs, EndUpdate(p) PROVE VerdictIsSound'
  BY <1>12 DEF EndUpdate
<1>13. ASSUME NEW p \in Procs, Unlock(p) PROVE VerdictIsSound'
  BY <1>13 DEF Unlock, FileUnlock
<1>14. ASSUME NEW p \in Procs, UnlockKeepingSlots(p) PROVE VerdictIsSound'
  BY <1>14 DEF UnlockKeepingSlots, FileUnlock
<1>15. ASSUME NEW p \in Procs, BeginClose(p) PROVE VerdictIsSound'
  BY <1>15 DEF BeginClose, EnterFileLock
<1>16. ASSUME NEW p \in Procs, KeepFile(p) PROVE VerdictIsSound'
  BY <1>16 DEF KeepFile
<1>17. ASSUME NEW p \in Procs, CloseEnd(p) PROVE VerdictIsSound'
  BY <1>17 DEF CloseEnd, Vanish, Released
<1>18. ASSUME NEW p \in Procs, NEW q \in Procs, ForkBackend(p, q) PROVE VerdictIsSound'
  BY <1>18 DEF ForkBackend
<1>19. ASSUME NEW p \in Procs, NEW q \in Procs, ForkHolder(p, q) PROVE VerdictIsSound'
  BY <1>19 DEF ForkHolder
<1>20. CASE UNCHANGED vars
  BY <1>20 DEF vars
<1>21. QED
  BY <1>1, <1>2, <1>3, <1>4, <1>5, <1>6, <1>7, <1>8, <1>9, <1>10, <1>11, <1>12, <1>13, <1>14, <1>15, <1>16, <1>17, <1>18, <1>19, <1>20 DEF Next

\* The verdict lets a process in only if the file is not removed, so lock_owner
\* was not set, so no writer had stopped half-way; nobody else changes the file
\* while it stays in.
LEMMA SectionStep ==
  ASSUME TypeOK, TypeOK', InsideIsHolder, OwnerGuards, VerdictIsSound, SectionIsSound, [Next]_vars
  PROVE  SectionIsSound'
<1> USE DEF TypeOK, disk, header, private, PCs, Locked, Checking, InSection, Reading, States, Goals,
            InsideIsHolder, OwnerGuards, VerdictIsSound, SectionIsSound
<1>1. ASSUME NEW p \in Procs, Start(p) PROVE SectionIsSound'
  BY <1>1 DEF Start
<1>2. ASSUME NEW p \in Procs, Terminate(p) PROVE SectionIsSound'
  BY <1>2 DEF Terminate, Vanish, Released
<1>3. ASSUME NEW p \in Procs, BeginLock(p) PROVE SectionIsSound'
  BY <1>3 DEF BeginLock, EnterFileLock
<1>4. ASSUME NEW p \in Procs, Open(p) PROVE SectionIsSound'
  BY <1>4 DEF Open, Fresh
<1>5. ASSUME NEW p \in Procs, Lock(p) PROVE SectionIsSound'
  BY <1>5 DEF Lock, Adopts, OwnerCheck
<1>6. ASSUME NEW p \in Procs, Unlink(p) PROVE SectionIsSound'
  BY <1>6 DEF Unlink
<1>7. ASSUME NEW p \in Procs, Mark(p) PROVE SectionIsSound'
  BY <1>7 DEF Mark, OwnerCheck
<1>8. ASSUME NEW p \in Procs, Enter(p) PROVE SectionIsSound'
  BY <1>8 DEF Enter
<1>9. ASSUME NEW p \in Procs, Retry(p) PROVE SectionIsSound'
  BY <1>9 DEF Retry, Released
<1>10. ASSUME NEW p \in Procs, GiveUp(p) PROVE SectionIsSound'
  BY <1>10 DEF GiveUp, Vanish, Released
<1>11. ASSUME NEW p \in Procs, BeginUpdate(p) PROVE SectionIsSound'
  BY <1>11 DEF BeginUpdate
<1>12. ASSUME NEW p \in Procs, EndUpdate(p) PROVE SectionIsSound'
  BY <1>12 DEF EndUpdate
<1>13. ASSUME NEW p \in Procs, Unlock(p) PROVE SectionIsSound'
  BY <1>13 DEF Unlock, FileUnlock
<1>14. ASSUME NEW p \in Procs, UnlockKeepingSlots(p) PROVE SectionIsSound'
  BY <1>14 DEF UnlockKeepingSlots, FileUnlock
<1>15. ASSUME NEW p \in Procs, BeginClose(p) PROVE SectionIsSound'
  BY <1>15 DEF BeginClose, EnterFileLock
<1>16. ASSUME NEW p \in Procs, KeepFile(p) PROVE SectionIsSound'
  BY <1>16 DEF KeepFile
<1>17. ASSUME NEW p \in Procs, CloseEnd(p) PROVE SectionIsSound'
  BY <1>17 DEF CloseEnd, Vanish, Released
<1>18. ASSUME NEW p \in Procs, NEW q \in Procs, ForkBackend(p, q) PROVE SectionIsSound'
  BY <1>18 DEF ForkBackend
<1>19. ASSUME NEW p \in Procs, NEW q \in Procs, ForkHolder(p, q) PROVE SectionIsSound'
  BY <1>19 DEF ForkHolder
<1>20. CASE UNCHANGED vars
  BY <1>20 DEF vars
<1>21. QED
  BY <1>1, <1>2, <1>3, <1>4, <1>5, <1>6, <1>7, <1>8, <1>9, <1>10, <1>11, <1>12, <1>13, <1>14, <1>15, <1>16, <1>17, <1>18, <1>19, <1>20 DEF Next

\* From FS_HAVESLOTS file_lock compares create_time and marks the file when it
\* is another; the remembered file changes only where no slots are held.
LEMMA CreateTimeStep ==
  ASSUME TypeOK, TypeOK', InsideIsHolder, CreateTimeGuards, [Next]_vars
  PROVE  CreateTimeGuards'
<1> USE DEF TypeOK, disk, header, private, PCs, Locked, Checking, InSection, Reading, States, Goals,
            InsideIsHolder, CreateTimeGuards
<1>1. ASSUME NEW p \in Procs, Start(p) PROVE CreateTimeGuards'
  BY <1>1 DEF Start
<1>2. ASSUME NEW p \in Procs, Terminate(p) PROVE CreateTimeGuards'
  BY <1>2 DEF Terminate, Vanish, Released
<1>3. ASSUME NEW p \in Procs, BeginLock(p) PROVE CreateTimeGuards'
  BY <1>3 DEF BeginLock, EnterFileLock
<1>4. ASSUME NEW p \in Procs, Open(p) PROVE CreateTimeGuards'
  BY <1>4 DEF Open, Fresh
<1>5. ASSUME NEW p \in Procs, Lock(p) PROVE CreateTimeGuards'
  BY <1>5 DEF Lock, Adopts, OwnerCheck
<1>6. ASSUME NEW p \in Procs, Unlink(p) PROVE CreateTimeGuards'
  BY <1>6 DEF Unlink
<1>7. ASSUME NEW p \in Procs, Mark(p) PROVE CreateTimeGuards'
  BY <1>7 DEF Mark, OwnerCheck
<1>8. ASSUME NEW p \in Procs, Enter(p) PROVE CreateTimeGuards'
  BY <1>8 DEF Enter
<1>9. ASSUME NEW p \in Procs, Retry(p) PROVE CreateTimeGuards'
  BY <1>9 DEF Retry, Released
<1>10. ASSUME NEW p \in Procs, GiveUp(p) PROVE CreateTimeGuards'
  BY <1>10 DEF GiveUp, Vanish, Released
<1>11. ASSUME NEW p \in Procs, BeginUpdate(p) PROVE CreateTimeGuards'
  BY <1>11 DEF BeginUpdate
<1>12. ASSUME NEW p \in Procs, EndUpdate(p) PROVE CreateTimeGuards'
  BY <1>12 DEF EndUpdate
<1>13. ASSUME NEW p \in Procs, Unlock(p) PROVE CreateTimeGuards'
  BY <1>13 DEF Unlock, FileUnlock
<1>14. ASSUME NEW p \in Procs, UnlockKeepingSlots(p) PROVE CreateTimeGuards'
  BY <1>14 DEF UnlockKeepingSlots, FileUnlock
<1>15. ASSUME NEW p \in Procs, BeginClose(p) PROVE CreateTimeGuards'
  BY <1>15 DEF BeginClose, EnterFileLock
<1>16. ASSUME NEW p \in Procs, KeepFile(p) PROVE CreateTimeGuards'
  BY <1>16 DEF KeepFile
<1>17. ASSUME NEW p \in Procs, CloseEnd(p) PROVE CreateTimeGuards'
  BY <1>17 DEF CloseEnd, Vanish, Released
<1>18. ASSUME NEW p \in Procs, NEW q \in Procs, ForkBackend(p, q) PROVE CreateTimeGuards'
  BY <1>18 DEF ForkBackend
<1>19. ASSUME NEW p \in Procs, NEW q \in Procs, ForkHolder(p, q) PROVE CreateTimeGuards'
  BY <1>19 DEF ForkHolder
<1>20. CASE UNCHANGED vars
  BY <1>20 DEF vars
<1>21. QED
  BY <1>1, <1>2, <1>3, <1>4, <1>5, <1>6, <1>7, <1>8, <1>9, <1>10, <1>11, <1>12, <1>13, <1>14, <1>15, <1>16, <1>17, <1>18, <1>19, <1>20 DEF Next

LEMMA InitIInv == Init => IInv
  BY TypeInit
  DEF Init, IInv, HolderIsInside, InsideIsHolder, OwnerGuards, VerdictIsSound,
      SectionIsSound, CreateTimeGuards, Locked, Checking, InSection, Reading

LEMMA StepIInv == IInv /\ [Next]_vars => IInv'
<1> SUFFICES ASSUME IInv, [Next]_vars PROVE IInv'
  OBVIOUS
<1>1. TypeOK /\ TypeOK'
  BY TypeStep DEF IInv
<1>2. HolderIsInside'
  BY <1>1, HolderStep DEF IInv
<1>3. InsideIsHolder'
  BY <1>1, InsideStep DEF IInv
<1>4. OwnerGuards'
  BY <1>1, OwnerStep DEF IInv
<1>5. VerdictIsSound'
  BY <1>1, VerdictStep DEF IInv
<1>6. SectionIsSound'
  BY <1>1, SectionStep DEF IInv
<1>7. CreateTimeGuards'
  BY <1>1, CreateTimeStep DEF IInv
<1>8. QED
  BY <1>1, <1>2, <1>3, <1>4, <1>5, <1>6, <1>7 DEF IInv

\* What file_lock establishes and its callers keep up, in every state.
THEOREM InvariantHolds == Spec => []IInv
  BY InitIInv, StepIInv, PTL DEF Spec

\* fcntl locks belong to a process, not to a descriptor: with fork and close
\* in the program, one file still has at most one process in the section.
THEOREM MutualExclusionHolds == Spec => []MutualExclusion
<1>1. IInv => MutualExclusion
  BY DEF IInv, InsideIsHolder, MutualExclusion, InSection, Reading, Locked
<1>2. QED
  BY <1>1, InvariantHolds, PTL

\* Wherever writers die, nobody reads lists that are half-written.
THEOREM NoTornReadHolds == Spec => []NoTornRead
<1>1. IInv => NoTornRead
  BY DEF IInv, SectionIsSound, NoTornRead
<1>2. QED
  BY <1>1, InvariantHolds, PTL

\* Nobody allocates slots in a file that new processes can no longer find.
THEOREM EntersLiveFileHolds == Spec => []EntersLiveFile
<1>1. IInv => EntersLiveFile
  BY DEF IInv, SectionIsSound, EntersLiveFile
<1>2. QED
  BY <1>1, InvariantHolds, PTL

\* A process in FS_HAVESLOTS comes back to the file its slots are from, or not
\* at all.
THEOREM HaveSlotsProtectsHolds == Spec => HaveSlotsProtects
<1>1. ASSUME IInv, [Next]_vars, NEW p \in Procs,
             cur_state[p] = "HAVESLOTS", cur_state'[p] = "CORRUPT"
      PROVE  claim'[p] = claim[p]
  <2> USE DEF IInv, TypeOK
  <2>1. PICK r \in Procs :
          \/ Enter(r)
          \/ \E q \in Procs : ForkBackend(r, q) \/ ForkHolder(r, q)
    BY <1>1 DEF Next, vars, disk, header, private, Start, Terminate, Vanish, BeginLock,
                Open, Lock, Unlink, Mark, Retry, GiveUp, BeginUpdate, EndUpdate, Unlock,
                UnlockKeepingSlots, FileUnlock, BeginClose, KeepFile, CloseEnd
  <2>2. CASE Enter(r)
    BY <1>1, <2>2 DEF Enter, CreateTimeGuards
  <2>3. ASSUME NEW q \in Procs, ForkBackend(r, q) \/ ForkHolder(r, q)
        PROVE  claim'[p] = claim[p]
    BY <1>1, <2>3 DEF ForkBackend, ForkHolder, CreateTimeGuards
  <2>4. QED
    BY <2>1, <2>2, <2>3
<1>2. IInv /\ [Next]_vars =>
        [\A p \in Procs : cur_state[p] = "HAVESLOTS" /\ cur_state'[p] = "CORRUPT"
                            => claim'[p] = claim[p]]_vars
  BY <1>1
<1>3. QED
  BY <1>2, InvariantHolds, PTL DEF Spec, HaveSlotsProtects

-----------------------------------------------------------------------------
(* TempFile implements SlotStore: the initial states map to the initial    *)
(* state, and every step to a step.                                        *)


\* A file that nothing refers to stays so, or is created: whole.
FreshStep(f) ==
  \/ Fresh(f)'
  \/ ~file_removed'[f] /\ lock_owner'[f] = NoProc /\ flock'[f] = flock[f]

\* A file is busy because it was, for the same process, or because it was
\* whole and a process that has it open entered it.
BusyStep(f) ==
  Busy(f)' =>
    \/ Busy(f) /\ flock'[f] = flock[f]
    \/ ~Busy(f) /\ ~file_removed[f] /\ lock_owner[f] = NoProc /\ flock'[f] \in HoldersOf(f)

\* What a process that died or removed the file left in the header stays.
DeadStep(f) ==
  /\ file_removed[f] => file_removed'[f]
  /\ lock_owner[f] # NoProc => lock_owner'[f] # NoProc

\* Nobody works in a file that nothing refers to.
LEMMA FreshIdle ==
  ASSUME IInv, NEW f \in Files, Fresh(f)
  PROVE  flock[f] = NoProc /\ ~Busy(f)
  BY DEF IInv, TypeOK, HolderIsInside, Fresh, Busy

LEMMA FreshSteps ==
  ASSUME NEW f \in Files, Fresh(f),
         IInv, IInv', [Next]_vars
  PROVE  FreshStep(f)
<1>1. TypeOK /\ f # NoFile /\ f # named /\ \A q \in Procs : file_fd[q] # f /\ claim[q] # f
  BY FilesAssumption DEF IInv, Fresh
<1> USE <1>1 DEF TypeOK, disk, header, private, FreshStep, Fresh
<1>2. ASSUME NEW p \in Procs, Start(p) PROVE FreshStep(f)
  BY <1>2 DEF Start
<1>3. ASSUME NEW p \in Procs, Terminate(p) PROVE FreshStep(f)
  BY <1>3 DEF Terminate, Vanish, Released
<1>4. ASSUME NEW p \in Procs, BeginLock(p) PROVE FreshStep(f)
  BY <1>4 DEF BeginLock, EnterFileLock
<1>5. ASSUME NEW p \in Procs, Open(p) PROVE FreshStep(f)
  BY <1>5 DEF Open
<1>6. ASSUME NEW p \in Procs, Lock(p) PROVE FreshStep(f)
  BY <1>6 DEF Lock, Adopts, OwnerCheck
<1>7. ASSUME NEW p \in Procs, Unlink(p) PROVE FreshStep(f)
  BY <1>7 DEF Unlink
<1>8. ASSUME NEW p \in Procs, Mark(p) PROVE FreshStep(f)
  BY <1>8 DEF Mark, OwnerCheck
<1>9. ASSUME NEW p \in Procs, Enter(p) PROVE FreshStep(f)
  BY <1>9 DEF Enter
<1>10. ASSUME NEW p \in Procs, Retry(p) PROVE FreshStep(f)
  BY <1>10 DEF Retry, Released
<1>11. ASSUME NEW p \in Procs, GiveUp(p) PROVE FreshStep(f)
  BY <1>11 DEF GiveUp, Vanish, Released
<1>12. ASSUME NEW p \in Procs, BeginUpdate(p) PROVE FreshStep(f)
  BY <1>12 DEF BeginUpdate
<1>13. ASSUME NEW p \in Procs, EndUpdate(p) PROVE FreshStep(f)
  BY <1>13 DEF EndUpdate
<1>14. ASSUME NEW p \in Procs, Unlock(p) PROVE FreshStep(f)
  BY <1>14 DEF Unlock, FileUnlock
<1>15. ASSUME NEW p \in Procs, UnlockKeepingSlots(p) PROVE FreshStep(f)
  BY <1>15 DEF UnlockKeepingSlots, FileUnlock
<1>16. ASSUME NEW p \in Procs, BeginClose(p) PROVE FreshStep(f)
  BY <1>16 DEF BeginClose, EnterFileLock
<1>17. ASSUME NEW p \in Procs, KeepFile(p) PROVE FreshStep(f)
  BY <1>17 DEF KeepFile
<1>18. ASSUME NEW p \in Procs, CloseEnd(p) PROVE FreshStep(f)
  BY <1>18 DEF CloseEnd, Vanish, Released
<1>19. ASSUME NEW p \in Procs, NEW q \in Procs, ForkBackend(p, q) PROVE FreshStep(f)
  BY <1>19 DEF ForkBackend
<1>20. ASSUME NEW p \in Procs, NEW q \in Procs, ForkHolder(p, q) PROVE FreshStep(f)
  BY <1>20 DEF ForkHolder
<1>21. CASE UNCHANGED vars
  BY <1>21 DEF vars
<1>22. QED
  BY <1>2, <1>3, <1>4, <1>5, <1>6, <1>7, <1>8, <1>9, <1>10, <1>11, <1>12, <1>13, <1>14, <1>15, <1>16, <1>17, <1>18, <1>19, <1>20, <1>21 DEF Next

LEMMA BusySteps ==
  ASSUME NEW f \in Files,
         IInv, IInv', [Next]_vars
  PROVE  BusyStep(f)
<1> USE DEF IInv, TypeOK, disk, header, private, PCs, Locked, Checking, InSection, Reading, States, Goals,
            BusyStep, Busy, HoldersOf, HolderIsInside, InsideIsHolder, VerdictIsSound
<1>1. ASSUME NEW p \in Procs, Start(p) PROVE BusyStep(f)
  BY <1>1 DEF Start
<1>2. ASSUME NEW p \in Procs, Terminate(p) PROVE BusyStep(f)
  BY <1>2 DEF Terminate, Vanish, Released
<1>3. ASSUME NEW p \in Procs, BeginLock(p) PROVE BusyStep(f)
  BY <1>3 DEF BeginLock, EnterFileLock
<1>4. ASSUME NEW p \in Procs, Open(p) PROVE BusyStep(f)
  BY <1>4 DEF Open
<1>5. ASSUME NEW p \in Procs, Lock(p) PROVE BusyStep(f)
  BY <1>5 DEF Lock, Adopts, OwnerCheck
<1>6. ASSUME NEW p \in Procs, Unlink(p) PROVE BusyStep(f)
  BY <1>6 DEF Unlink
<1>7. ASSUME NEW p \in Procs, Mark(p) PROVE BusyStep(f)
  BY <1>7 DEF Mark, OwnerCheck
<1>8. ASSUME NEW p \in Procs, Enter(p) PROVE BusyStep(f)
  BY <1>8 DEF Enter
<1>9. ASSUME NEW p \in Procs, Retry(p) PROVE BusyStep(f)
  BY <1>9 DEF Retry, Released
<1>10. ASSUME NEW p \in Procs, GiveUp(p) PROVE BusyStep(f)
  BY <1>10 DEF GiveUp, Vanish, Released
<1>11. ASSUME NEW p \in Procs, BeginUpdate(p) PROVE BusyStep(f)
  BY <1>11 DEF BeginUpdate
<1>12. ASSUME NEW p \in Procs, EndUpdate(p) PROVE BusyStep(f)
  BY <1>12 DEF EndUpdate
<1>13. ASSUME NEW p \in Procs, Unlock(p) PROVE BusyStep(f)
  BY <1>13 DEF Unlock, FileUnlock
<1>14. ASSUME NEW p \in Procs, UnlockKeepingSlots(p) PROVE BusyStep(f)
  BY <1>14 DEF UnlockKeepingSlots, FileUnlock
<1>15. ASSUME NEW p \in Procs, BeginClose(p) PROVE BusyStep(f)
  BY <1>15 DEF BeginClose, EnterFileLock
<1>16. ASSUME NEW p \in Procs, KeepFile(p) PROVE BusyStep(f)
  BY <1>16 DEF KeepFile
<1>17. ASSUME NEW p \in Procs, CloseEnd(p) PROVE BusyStep(f)
  BY <1>17 DEF CloseEnd, Vanish, Released
<1>18. ASSUME NEW p \in Procs, NEW q \in Procs, ForkBackend(p, q) PROVE BusyStep(f)
  BY <1>18 DEF ForkBackend
<1>19. ASSUME NEW p \in Procs, NEW q \in Procs, ForkHolder(p, q) PROVE BusyStep(f)
  BY <1>19 DEF ForkHolder
<1>20. CASE UNCHANGED vars
  BY <1>20 DEF vars
<1>21. QED
  BY <1>1, <1>2, <1>3, <1>4, <1>5, <1>6, <1>7, <1>8, <1>9, <1>10, <1>11, <1>12, <1>13, <1>14, <1>15, <1>16, <1>17, <1>18, <1>19, <1>20 DEF Next

LEMMA DeadSteps ==
  ASSUME NEW f \in Files, ~Fresh(f), ~Busy(f),
         IInv, IInv', [Next]_vars
  PROVE  DeadStep(f)
<1> USE ProcsAssumption
    DEF IInv, TypeOK, disk, header, private, PCs, Locked, Checking, InSection, Reading, States, Goals,
            DeadStep, Busy, Fresh, InsideIsHolder
<1>1. ASSUME NEW p \in Procs, Start(p) PROVE DeadStep(f)
  BY <1>1 DEF Start
<1>2. ASSUME NEW p \in Procs, Terminate(p) PROVE DeadStep(f)
  BY <1>2 DEF Terminate, Vanish, Released
<1>3. ASSUME NEW p \in Procs, BeginLock(p) PROVE DeadStep(f)
  BY <1>3 DEF BeginLock, EnterFileLock
<1>4. ASSUME NEW p \in Procs, Open(p) PROVE DeadStep(f)
  BY <1>4 DEF Open
<1>5. ASSUME NEW p \in Procs, Lock(p) PROVE DeadStep(f)
  BY <1>5 DEF Lock, Adopts, OwnerCheck
<1>6. ASSUME NEW p \in Procs, Unlink(p) PROVE DeadStep(f)
  BY <1>6 DEF Unlink
<1>7. ASSUME NEW p \in Procs, Mark(p) PROVE DeadStep(f)
  BY <1>7 DEF Mark, OwnerCheck
<1>8. ASSUME NEW p \in Procs, Enter(p) PROVE DeadStep(f)
  BY <1>8 DEF Enter
<1>9. ASSUME NEW p \in Procs, Retry(p) PROVE DeadStep(f)
  BY <1>9 DEF Retry, Released
<1>10. ASSUME NEW p \in Procs, GiveUp(p) PROVE DeadStep(f)
  BY <1>10 DEF GiveUp, Vanish, Released
<1>11. ASSUME NEW p \in Procs, BeginUpdate(p) PROVE DeadStep(f)
  BY <1>11 DEF BeginUpdate
<1>12. ASSUME NEW p \in Procs, EndUpdate(p) PROVE DeadStep(f)
  BY <1>12 DEF EndUpdate
<1>13. ASSUME NEW p \in Procs, Unlock(p) PROVE DeadStep(f)
  BY <1>13 DEF Unlock, FileUnlock
<1>14. ASSUME NEW p \in Procs, UnlockKeepingSlots(p) PROVE DeadStep(f)
  BY <1>14 DEF UnlockKeepingSlots, FileUnlock
<1>15. ASSUME NEW p \in Procs, BeginClose(p) PROVE DeadStep(f)
  BY <1>15 DEF BeginClose, EnterFileLock
<1>16. ASSUME NEW p \in Procs, KeepFile(p) PROVE DeadStep(f)
  BY <1>16 DEF KeepFile
<1>17. ASSUME NEW p \in Procs, CloseEnd(p) PROVE DeadStep(f)
  BY <1>17 DEF CloseEnd, Vanish, Released
<1>18. ASSUME NEW p \in Procs, NEW q \in Procs, ForkBackend(p, q) PROVE DeadStep(f)
  BY <1>18 DEF ForkBackend
<1>19. ASSUME NEW p \in Procs, NEW q \in Procs, ForkHolder(p, q) PROVE DeadStep(f)
  BY <1>19 DEF ForkHolder
<1>20. CASE UNCHANGED vars
  BY <1>20 DEF vars
<1>21. QED
  BY <1>1, <1>2, <1>3, <1>4, <1>5, <1>6, <1>7, <1>8, <1>9, <1>10, <1>11, <1>12, <1>13, <1>14, <1>15, <1>16, <1>17, <1>18, <1>19, <1>20 DEF Next

-----------------------------------------------------------------------------
(* The cases of a step, for one file                                       *)

\* A file nothing refers to is left alone, or created.
LEMMA NoneSteps ==
  ASSUME NEW f \in Files, Fresh(f), IInv, IInv', [Next]_vars
  PROVE  Store!Create(f) \/ Store!Attend(f)
<1>1. PhaseOf(f) = "none" /\ UserOf(f) = NoProc /\ ~Busy(f) /\ flock[f] = NoProc
  BY FreshIdle DEF PhaseOf, UserOf
<1>2. CASE Fresh(f)'
  <2>1. ~Busy(f)'
    BY <1>2, FreshIdle DEF IInv, TypeOK, HolderIsInside, Fresh, Busy
  <2>2. QED
    BY <1>1, <1>2, <2>1 DEF Store!Attend, PhaseOf, UserOf
<1>3. CASE ~Fresh(f)'
  <2>1. ~file_removed'[f] /\ lock_owner'[f] = NoProc /\ ~Busy(f)'
    BY <1>1, <1>3, FreshSteps DEF FreshStep, Busy
  <2>2. QED
    BY <1>1, <1>3, <2>1 DEF Store!Create, PhaseOf, UserOf
<1>4. QED
  BY <1>2, <1>3

\* When the last reference to a file goes, it has no holders left.
LEMMA ForgetSteps ==
  ASSUME NEW f \in Files, ~Fresh(f), Fresh(f)', IInv, IInv'
  PROVE  Store!Forget(f)
<1>1. HoldersOf(f)' = {}
  BY DEF HoldersOf, Fresh
<1>2. ~Busy(f)'
  BY DEF IInv, TypeOK, HolderIsInside, Fresh, Busy
<1>3. PhaseOf(f) # "none" /\ PhaseOf(f)' = "none" /\ UserOf(f)' = NoProc
  BY <1>2 DEF PhaseOf, UserOf
<1>4. QED
  BY <1>1, <1>3 DEF Store!Forget

\* A file somebody works in: he goes on, or puts it back, or leaves it dead.
LEMMA TakenSteps ==
  ASSUME NEW f \in Files, ~Fresh(f), ~Fresh(f)', Busy(f), IInv, IInv', [Next]_vars
  PROVE  Store!PutBack(f) \/ Store!Abandon(f) \/ Store!Attend(f)
<1>1. PhaseOf(f) = "busy" /\ UserOf(f) = flock[f]
  BY DEF PhaseOf, UserOf
<1>2. CASE Busy(f)'
  BY <1>1, <1>2, BusySteps DEF BusyStep, Store!Attend, PhaseOf, UserOf
<1>3. CASE ~Busy(f)'
  BY <1>1, <1>3 DEF Store!PutBack, Store!Abandon, PhaseOf, UserOf
<1>4. QED
  BY <1>2, <1>3

\* A file nobody works in: one that has it open takes it if it is whole, and a
\* dead one stays dead.
LEMMA IdleSteps ==
  ASSUME NEW f \in Files, ~Fresh(f), ~Fresh(f)', ~Busy(f), IInv, IInv', [Next]_vars
  PROVE  Store!Take(f) \/ Store!Retire(f) \/ Store!Attend(f)
<1>1. UserOf(f) = NoProc /\ PhaseOf(f) \in {"whole", "dead"}
  BY DEF PhaseOf, UserOf
<1>2. CASE Busy(f)'
  <2>1. PhaseOf(f) = "whole" /\ flock'[f] \in HoldersOf(f)
    BY <1>2, BusySteps DEF BusyStep, PhaseOf
  <2>2. PhaseOf(f)' = "busy" /\ UserOf(f)' = flock'[f]
    BY <1>2 DEF PhaseOf, UserOf
  <2>3. QED
    BY <2>1, <2>2 DEF Store!Take
<1>3. CASE ~Busy(f)'
  <2>1. PhaseOf(f) = "dead" => PhaseOf(f)' = "dead"
    BY <1>3, DeadSteps DEF DeadStep, PhaseOf
  <2>2. UserOf(f)' = NoProc /\ PhaseOf(f)' \in {"whole", "dead"}
    BY <1>3 DEF PhaseOf, UserOf
  <2>3. QED
    BY <1>1, <2>1, <2>2 DEF Store!Retire, Store!Attend
<1>4. QED
  BY <1>2, <1>3

-----------------------------------------------------------------------------

\* The initial states map to the initial state.
LEMMA StoreInit == Init => Store!Init
<1> SUFFICES ASSUME Init PROVE Store!Init
  OBVIOUS
<1>1. ASSUME NEW f \in Files PROVE Fresh(f) /\ ~Busy(f) /\ HoldersOf(f) = {}
  BY FilesAssumption DEF Init, Fresh, Busy, HoldersOf
<1>2. QED
  BY <1>1 DEF Store!Init, PhaseOf, UserOf

\* Every step maps to a step or to a stutter.
LEMMA StoreStep == IInv /\ IInv' /\ [Next]_vars => [Store!Next]_Store!vars
<1> SUFFICES ASSUME IInv, IInv', [Next]_vars PROVE Store!Next
  OBVIOUS
<1>1. /\ [f \in Files |-> PhaseOf(f)]' \in [Files -> Store!Phases]
      /\ [f \in Files |-> UserOf(f)]' \in [Files -> Procs \cup {NoProc}]
      /\ [f \in Files |-> HoldersOf(f)]' \in [Files -> SUBSET Procs]
  <2>1. ASSUME NEW f \in Files
        PROVE  /\ PhaseOf(f)' \in Store!Phases
               /\ UserOf(f)' \in Procs \cup {NoProc}
               /\ HoldersOf(f)' \in SUBSET Procs
    BY DEF IInv, TypeOK, PhaseOf, UserOf, HoldersOf, Busy, Store!Phases
  <2>2. QED
    BY <2>1
<1>2. ASSUME NEW f \in Files
      PROVE  \/ Store!Create(f) \/ Store!Take(f) \/ Store!PutBack(f) \/ Store!Abandon(f)
             \/ Store!Retire(f) \/ Store!Forget(f) \/ Store!Attend(f)
  <2>1. CASE Fresh(f)
    BY <2>1, NoneSteps
  <2>2. CASE ~Fresh(f) /\ Fresh(f)'
    BY <2>2, ForgetSteps
  <2>3. CASE ~Fresh(f) /\ ~Fresh(f)' /\ Busy(f)
    BY <2>3, TakenSteps
  <2>4. CASE ~Fresh(f) /\ ~Fresh(f)' /\ ~Busy(f)
    BY <2>4, IdleSteps
  <2>5. QED
    BY <2>1, <2>2, <2>3, <2>4
<1>3. QED
  BY <1>1, <1>2 DEF Store!Next

\* Whatever frontends, backends and their parents do, and wherever they die,
\* the temp file is what SlotStore says it is: one user at a time, never
\* half-written when it is taken, and no way back for a file that is dead.
THEOREM StoreImplemented == Spec => ImplementsSlotStore
<1>1. Spec => []IInv
  BY InvariantHolds
<1>2. QED
  BY <1>1, StoreInit, StoreStep, PTL DEF Spec, ImplementsSlotStore, Store!Spec
=============================================================================
