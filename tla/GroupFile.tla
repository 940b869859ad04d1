------------------------------ MODULE GroupFile -----------------------------
(***************************************************************************)
(* What is in the temp file, and what the functions of speedy_group.c,     *)
(* speedy_backend.c, speedy_frontend.c and speedy_script.c make of it.     *)
(*                                                                         *)
(* One script, run with no group name (Group=none): a group is one version *)
(* of the script, with the backends that have it loaded and the frontends  *)
(* that queue for one.  A slot is known by the process it belongs to, and  *)
(* a linked list of slots is a sequence.                                   *)
(*                                                                         *)
(* The contents are one record s, since a section under the lock threads   *)
(* them through many calls; with them goes sigs, the signals sent, for the *)
(* functions that write the file also send the signals.  Functions that    *)
(* test a process with kill(pid, 0) take alive, the pids there are (a      *)
(* zombie is one).  me is the caller: a process sends itself no signal.    *)
(***************************************************************************)
EXTENDS Integers, Sequences, SequencesExt

CONSTANTS
  Frontends, Backends, Parents,  \* the processes, by kind
  Groups,                        \* group slots
  MaxBackends,                   \* the MaxBackends option; 0 is no limit
  Nil                            \* slot number 0, pid 0

Pids == Frontends \cup Backends \cup Parents

ASSUME KindsAssumption ==
  /\ Nil \notin Pids /\ Nil \notin Groups
  /\ Frontends \cap Backends = {}
  /\ Frontends \cap Parents = {}
  /\ Backends \cap Parents = {}

EmptyFile ==
  [ glist      |-> <<>>,                         \* group_head .. group_tail
    run        |-> <<>>,                         \* fe_run_head .. fe_run_tail
    version    |-> [g \in Groups |-> 0],         \* mtime in the script slot; 0: no script, invalid
    starting   |-> [g \in Groups |-> Nil],       \* be_starting
    parent     |-> [g \in Groups |-> Nil],       \* be_parent
    bes        |-> [g \in Groups |-> <<>>],      \* be_head .. be_tail
    fes        |-> [g \in Groups |-> <<>>],      \* fe_head .. fe_tail
    fe_running |-> [b \in Backends |-> Nil],     \* be_slot.fe_running
    maturity   |-> [b \in Backends |-> 0],       \* be_slot.maturity
    backend    |-> [c \in Frontends |-> Nil],    \* fe_slot.backend
    status     |-> [c \in Frontends |-> "none"], \* fe_slot.exit_val, exit_on_sig
    sent_sig   |-> [c \in Frontends |-> FALSE],  \* fe_slot.sent_sig
    sigs       |-> [p \in Pids |-> {}] ]         \* signals pending at each process

\* speedy_slot_remove, for each x in D.
Without(list, D) ==
  LET kept[i \in 0 .. Len(list)] ==
        IF i = 0 THEN <<>>
        ELSE IF list[i] \in D THEN kept[i - 1] ELSE Append(kept[i - 1], list[i])
  IN  kept[Len(list)]

\* speedy_util_kill, for each process in D.
Signal(s, me, D, sig) ==
  [s EXCEPT !.sigs = [p \in Pids |-> IF p \in D \ {me} THEN @[p] \cup {sig} ELSE @[p]]]

IsValid(s, g) == s.version[g] # 0   \* speedy_group_isvalid

-----------------------------------------------------------------------------
(* Frontend slots                                                          *)

\* SLOT_FREE, and the bzero of the next SLOT_ALLOC
FreeFrontend(s, D) ==
  [s EXCEPT !.backend  = [c \in Frontends |-> IF c \in D THEN Nil ELSE @[c]],
            !.status   = [c \in Frontends |-> IF c \in D THEN "none" ELSE @[c]],
            !.sent_sig = [c \in Frontends |-> c \notin D /\ @[c]]]

\* speedy_frontend_dispose, from the queues they stand in.
DisposeFrontend(s, D) ==
  FreeFrontend([s EXCEPT !.fes = [g \in Groups |-> Without(@[g], D)]], D)

\* (A slip: fe_running is left alone.)
RemoveRunningOnly(s, D) == FreeFrontend([s EXCEPT !.run = Without(@, D)], D)

\* speedy_frontend_remove_running
RemoveRunning(s, D) ==
  LET Leaves(b) == s.fe_running[b] \in D /\ s.backend[s.fe_running[b]] = b
  IN  FreeFrontend(
        [s EXCEPT !.fe_running = [b \in Backends |-> IF Leaves(b) THEN b ELSE @[b]],
                  !.run = Without(@, D)], D)

\* speedy_frontend_clean_running: the dead frontends at the tail of fe_run.
CleanRunning(s, alive) ==
  LET Live(i) == s.run[i] \in alive
  IN  RemoveRunning(s, {s.run[i] : i \in {j \in DOMAIN s.run : \A k \in j .. Len(s.run) : ~Live(k)}})

-----------------------------------------------------------------------------
(* Backend slots                                                           *)

\* The frontends that the backends in D run for.
ServedBy(s, D) == {c \in Frontends : \E b \in D : s.fe_running[b] = c}

\* What becomes of their slots, but for the freeing.
Report(s, D, how) ==
  LET Of(c) == CHOOSE b \in D : s.fe_running[b] = c
  IN  [s EXCEPT !.fe_running = [b \in Backends |-> IF b \in D /\ @[b] # Nil THEN b ELSE @[b]],
                !.backend = [c \in Frontends |-> IF c \in ServedBy(s, D) THEN Nil ELSE @[c]],
                !.status = [c \in Frontends |-> IF c \in ServedBy(s, D) THEN how[Of(c)] ELSE @[c]]]

\* (A slip: the frontend's slot goes on naming the backend.)
BackendExitedLinked(s, alive, me, D, how) ==
  Signal([Report(s, D, how) EXCEPT !.backend = s.backend], me, ServedBy(s, D) \cap alive, "USR1")

\* speedy_backend_exited: the frontends these backends run for are told.
BackendExited(s, alive, me, D, how) ==
  RemoveRunning(Signal(Report(s, D, how), me, ServedBy(s, D) \cap alive, "USR1"),
                ServedBy(s, D) \ alive)

\* speedy_backend_died: "simulate sigkill"
BackendDied(s, alive, me, D) == BackendExited(s, alive, me, D, [b \in D |-> "killed"])

\* speedy_backend_dispose
DisposeBackend(s, alive, me, g, D) ==
  [BackendDied(s, alive, me, D) EXCEPT
     !.bes[g] = Without(@, D),
     !.fe_running = [b \in Backends |-> IF b \in D THEN Nil ELSE @[b]],
     !.maturity = [b \in Backends |-> IF b \in D THEN 0 ELSE @[b]]]

IsWaiting(s, b) == s.fe_running[b] = Nil

\* (A slip: <= for <.)
BelowOrAtMaxBackends(s, g) == MaxBackends = 0 \/ Len(s.bes[g]) <= MaxBackends

\* speedy_backend_below_maxbe
BelowMaxBackends(s, g) == MaxBackends = 0 \/ Len(s.bes[g]) < MaxBackends

\* speedy_backend_create_slot
CreateBackend(s, g, b) ==
  [s EXCEPT !.bes[g] = Append(@, b), !.fe_running[b] = b, !.maturity[b] = 0]

\* do_sort(b, other) <= 0, for a b that waits
SortsBefore(s, b, other) ==
  IsWaiting(s, other) => s.maturity[other] <= s.maturity[b]

\* (A slip: not sorted.)
WaitPutLast(s, g, b) ==
  [s EXCEPT !.fe_running[b] = Nil, !.bes[g] = Append(Without(@, {b}), b)]

\* speedy_backend_be_wait_put: in front of the first that b sorts before.
WaitPut(s, g, b) ==
  LET rest  == Without(s.bes[g], {b})
      ahead == {rest[i] : i \in {j \in DOMAIN rest : \A k \in 1 .. j : ~SortsBefore(s, b, rest[k])}}
  IN  [s EXCEPT !.fe_running[b] = Nil,
                !.bes[g] = Without(rest, Backends \ ahead) \o <<b>> \o Without(rest, ahead)]

\* speedy_group_be_starting: forget a starting process that is gone.
CheckStarting(s, alive, g) ==
  IF s.starting[g] \in alive THEN s ELSE [s EXCEPT !.starting[g] = Nil]

\* (A slip: the head may be busy.)
CanGetBusy(s, alive, g) == s.starting[g] \notin alive /\ s.bes[g] # <<>>

\* speedy_backend_be_wait_get takes the head, moved to the tail, if this holds.
CanGet(s, alive, g) ==
  /\ s.starting[g] \notin alive
  /\ s.bes[g] # <<>>
  /\ IsWaiting(s, Head(s.bes[g]))

\* (A slip: the head is put at the tail and not taken from the front.)
WaitGetTwice(s, alive, g) ==
  IF CanGet(s, alive, g) THEN [s EXCEPT !.bes[g] = Append(@, Head(@))] ELSE s

WaitGet(s, alive, g) ==
  LET s1 == CheckStarting(s, alive, g)
  IN  IF CanGet(s, alive, g)
      THEN [s1 EXCEPT !.bes[g] = Append(Tail(@), Head(@))] ELSE s1

-----------------------------------------------------------------------------
(* Groups                                                                  *)

\* The backends speedy_backend_remove_be_wait sends SIGTERM to: from the head
\* of the list to the first that does not wait.
WaitList(s, g) ==
  {s.bes[g][i] : i \in {j \in DOMAIN s.bes[g] : \A k \in 1 .. j : IsWaiting(s, s.bes[g][k])}}

\* speedy_group_invalidate, of the groups in G from the head of the list on.
Invalidate(s, alive, me, G) ==
  LET stale == {g \in G : IsValid(s, g)}
  IN  [Signal(s, me, alive \cap UNION {WaitList(s, g) : g \in stale}, "TERM") EXCEPT
         !.version = [g \in Groups |-> IF g \in stale THEN 0 ELSE @[g]],
         !.glist   = Without(@, stale) \o Without(@, Groups \ stale)]

\* (A slip: frontends in the queue do not keep the group.)
CleanupQueued(s, alive, me, G) ==
  LET gone == {g \in G : s.bes[g] = <<>>}
  IN  [Invalidate(s, alive, me, gone) EXCEPT
         !.glist    = Without(@, gone),
         !.starting = [g \in Groups |-> IF g \in gone THEN Nil ELSE @[g]],
         !.parent   = [g \in Groups |-> IF g \in gone THEN Nil ELSE @[g]]]

\* speedy_group_cleanup
Cleanup(s, alive, me, G) ==
  LET gone == {g \in G : s.bes[g] = <<>> /\ s.fes[g] = <<>>}
      s1   == Signal(s, me, alive \cap {s.parent[g] : g \in gone}, "KILL")
  IN  [Invalidate(s1, alive, me, gone) EXCEPT
         !.glist    = Without(@, gone),
         !.starting = [g \in Groups |-> IF g \in gone THEN Nil ELSE @[g]],
         !.parent   = [g \in Groups |-> IF g \in gone THEN Nil ELSE @[g]]]

\* speedy_group_parent_sig; sig "0" only tests.  True if ParentThere before.
ParentThere(s, alive, g) == s.parent[g] \in alive

ParentSig(s, alive, me, g, sig) ==
  IF ~ParentThere(s, alive, g)
  THEN [Invalidate(s, alive, me, {g}) EXCEPT !.parent[g] = Nil]
  ELSE IF sig = "0" THEN s ELSE Signal(s, me, {s.parent[g]}, sig)

\* speedy_group_start_be; true if StartBeWorks before.
ParentStartsUp(s, g) == s.parent[g] # Nil /\ s.parent[g] = s.starting[g]

StartBeWorks(s, alive, g) == ParentStartsUp(s, g) \/ ParentThere(s, alive, g)

\* (A slip: a parent that starts up is signalled, too.)
StartBeEarly(s, alive, me, g) == ParentSig(s, alive, me, g, "USR1")

StartBe(s, alive, me, g) ==
  IF ParentStartsUp(s, g) THEN s ELSE ParentSig(s, alive, me, g, "USR1")

\* (A slip: no break, the whole queue is told.)
SendSigsToAll(s, alive, g) ==
  IF s.bes[g] = <<>> \/ ~IsWaiting(s, Head(s.bes[g])) THEN s
  ELSE [s EXCEPT !.sent_sig = [c \in Frontends |-> @[c] \/ c \in Range(s.fes[g])]]

\* speedy_group_sendsigs: if a backend waits, the first frontend that is alive
\* is signalled, and the dead ones before it are dropped.  The SIGALRM itself
\* only cuts the frontend's BeCheckTimeout short.
SendSigs(s, alive, g) ==
  LET queue == s.fes[g]
      dead  == {queue[i] : i \in {j \in DOMAIN queue : \A k \in 1 .. j : queue[k] \notin alive}}
      s1    == DisposeFrontend(s, dead)
  IN  IF s.bes[g] = <<>> \/ ~IsWaiting(s, Head(s.bes[g])) THEN s
      ELSE IF s1.fes[g] = <<>> THEN s1
      ELSE [s1 EXCEPT !.sent_sig[Head(s1.fes[g])] = TRUE]

-----------------------------------------------------------------------------
(* speedy_script_find, for a process that saw version v of the script      *)

\* The valid groups of another version at the front of the list; the search
\* ends at the first that is not one of them.
OtherVersions(s, v) ==
  {s.glist[i] : i \in {j \in DOMAIN s.glist :
                         \A k \in 1 .. j : s.version[s.glist[k]] \notin {0, v}}}

Found(s, v) ==
  {s.glist[i] : i \in {j \in DOMAIN s.glist :
                         /\ s.version[s.glist[j]] = v
                         /\ \A k \in 1 .. j - 1 : s.glist[k] \in OtherVersions(s, v)}}

\* The group that speedy_script_find returns: one that is there, or any slot
\* that is free.
Findable(s, v) ==
  IF Found(s, v) = {} THEN Groups \ Range(s.glist) ELSE Found(s, v)

\* (A slip: groups of another version are left as they are.)
ScriptFindKeepsOthers(s, alive, me, v, g) ==
  [s EXCEPT !.glist = <<g>> \o Without(@, {g}), !.version[g] = v]

\* The group g that is found is moved to the head.
ScriptFind(s, alive, me, v, g) ==
  [Invalidate(s, alive, me, OtherVersions(s, v)) EXCEPT
     !.glist = <<g>> \o Without(@, {g}), !.version[g] = v]

-----------------------------------------------------------------------------
(* What a frontend in the queue looks after: frontend_ping                 *)

Position(list, x) == CHOOSE i \in DOMAIN list : list[i] = x

\* fe_prev: from c in group g to those in front of it, then from the tails of
\* the queues of the next groups around the list, then those behind c, and c.
\* How often it goes on to the next group before it is at d in group h:
Hops(s, g, c, h, d) ==
  IF h # g THEN (Len(s.glist) + Position(s.glist, h) - Position(s.glist, g)) % Len(s.glist)
  ELSE IF Position(s.fes[g], d) < Position(s.fes[g], c) THEN 0
  ELSE Len(s.glist)

IsSooner(s, g, c, p, q) ==
  LET ph == Hops(s, g, c, p[1], p[2])
      qh == Hops(s, g, c, q[1], q[2])
  IN  \/ ph < qh
      \/ ph = qh /\ p[1] = q[1] /\ Position(s.fes[p[1]], p[2]) > Position(s.fes[q[1]], q[2])

\* frontend_check_prev: the dead ones up to the first that is alive go.
CheckPrev(s, alive, me, g) ==
  LET queued == UNION {{h} \X Range(s.fes[h]) : h \in Range(s.glist)}
      passed == {p \in queued : \A q \in queued : q[2] \in alive => IsSooner(s, g, me, p, q)}
  IN  Cleanup(DisposeFrontend(s, {p[2] : p \in passed}), alive, me, {p[1] : p \in passed})

\* Whether backend_check will fork a parent.
WillSpawn(s, alive, g, did_spawn) ==
  s.starting[g] \notin alive /\ ~did_spawn /\ s.parent[g] = Nil

\* backend_check, where a parent that is forked has pid m: what it leaves, its
\* result ok, and did_spawn.
BackendCheck(s, alive, me, g, did_spawn, m) ==
  LET s1   == CheckStarting(s, alive, g)
      s2   == IF s1.parent[g] = Nil THEN [s1 EXCEPT !.parent[g] = m, !.starting[g] = m] ELSE s1
      pids == alive \cup ({m} \cap Parents)
      s3   == StartBe(s2, pids, me, g)
  IN  IF s.starting[g] \in alive THEN [s |-> s, ok |-> TRUE, did_spawn |-> did_spawn]
      ELSE IF did_spawn THEN [s |-> s1, ok |-> FALSE, did_spawn |-> TRUE]
      ELSE IF ~BelowMaxBackends(s2, g)
        THEN [s |-> ParentSig(s2, pids, me, g, "0"), ok |-> TRUE, did_spawn |-> FALSE]
      ELSE IF StartBeWorks(s2, pids, g)
        THEN [s |-> [s3 EXCEPT !.starting[g] = s3.parent[g]], ok |-> TRUE, did_spawn |-> TRUE]
      ELSE [s |-> s3, ok |-> TRUE, did_spawn |-> FALSE]

-----------------------------------------------------------------------------
(* What a backend parent does to the file                                  *)

\* The part of collect_child that writes: the backends in dead, with how each
\* ended.
CollectChild(s, alive, me, g, dead, how) ==
  LET D == dead \cap Range(s.bes[g])
  IN  DisposeBackend(BackendExited(s, alive, me, D, how), alive, me, g, D)

\* Whether start_child goes on to fork.
WillFork(s, alive, me, g) ==
  (s.starting[g] \in alive => s.starting[g] = me) /\ BelowMaxBackends(s, g)

\* (A slip: be_starting is not reset when fork fails.)
StartChildStuck(s, alive, me, g, b) ==
  LET s1 == CheckStarting(s, alive, g)
  IN  IF ~WillFork(s, alive, me, g) THEN s1
      ELSE IF b = Nil THEN [s1 EXCEPT !.starting[g] = me]
      ELSE [CreateBackend(s1, g, b) EXCEPT !.starting[g] = b]

\* start_child, where the fork returns b, or fails with b = Nil.
StartChild(s, alive, me, g, b) ==
  LET s1 == CheckStarting(s, alive, g)
  IN  IF ~WillFork(s, alive, me, g) THEN s1
      ELSE IF b = Nil THEN [s1 EXCEPT !.starting[g] = Nil]
      ELSE [CreateBackend(s1, g, b) EXCEPT !.starting[g] = b]

\* The group in front of g, or the last one.
PrevGroup(s, g) ==
  IF g = Head(s.glist) THEN Last(s.glist) ELSE s.glist[Position(s.glist, g) - 1]

\* do_cleanup: that group, if its parent is gone.
DoCleanup(s, alive, me, g) ==
  LET h    == PrevGroup(s, g)
      s1   == Invalidate(ParentSig(s, alive, me, h, "0"), alive, me, {h})
      dead == Range(s.bes[h]) \ alive
  IN  IF h = g \/ ParentThere(s, alive, h) THEN s
      ELSE Cleanup(DisposeBackend(s1, alive, me, h, dead), alive, me, {h})
=============================================================================
