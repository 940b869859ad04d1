------------------------------ MODULE Dispatch ------------------------------
(***************************************************************************)
(* Frontends, backends and backend parents at work on one temp file: how   *)
(* a frontend gets a backend (speedy_frontend.c, speedy_main.c), how a     *)
(* backend offers itself and serves (speedy_perl.c), and how a parent      *)
(* starts and buries backends (speedy_backend_main.c).                     *)
(*                                                                         *)
(* What a process does under the file lock is one step, made of the        *)
(* operators of GroupFile: TempFile shows that nobody sees the file in     *)
(* between.  Everything outside the lock is a step of its own: waiting     *)
(* for signals, stat of the script, connect and accept, running the        *)
(* script, dying.                                                          *)
(***************************************************************************)
EXTENDS GroupFile, FiniteSets

CONSTANTS
  MaxRuns,      \* the MaxRuns option; 0 is no maximum
  MaxEdits,     \* bound: how often the script is modified
  MaxFaults,    \* bound: how many processes are killed and forks fail
  MaxTimeouts,  \* bound: how often Timeout seconds pass for a backend that waits
  MaxIdles      \* bound: how often 10 seconds pass for a parent without backends

ASSUME BoundsAssumption ==
  {MaxRuns, MaxBackends, MaxEdits, MaxFaults, MaxTimeouts, MaxIdles} \subseteq Nat

VARIABLES
  file,    \* the contents of the temp file, and the signals pending
  script,  \* the mtime of the script
  pc,      \* where each process is; it holds the lock between no two steps
  mem,     \* what each process has in memory
  ppid,    \* the parent of each backend, Nil for init
  conn,    \* connections to each backend not yet served; see BackendAccept
  left     \* what remains of MaxEdits .. MaxIdles

vars == <<file, script, pc, mem, ppid, conn, left>>

Blank ==
  [ group     |-> Nil,     \* gslotnum
    version   |-> 0,       \* script_stat.st_mtime
    code      |-> 0,       \* the version that perl has compiled
    did_spawn |-> FALSE,
    numrun    |-> 0,       \* of a backend: 0, or up to MaxRuns, or 1 for any other
    got       |-> {},      \* sig_rcvd
    alarm     |-> FALSE ]  \* of a parent: whether alarm(10) is running

Waiting  == {"queued", "woken", "changed"}
Defunct  == {"exited", "killed"}
Starting == {"starting", "stated", "parsed"}
FrontendPCs == {"none", "failed", "connect", "again", "connected", "running"} \cup Waiting
BackendPCs  == {"none", "born", "arming", "accept", "accepted", "perl", "leaving"} \cup Defunct
ParentPCs   == {"none", "wait", "serve"} \cup Starting

\* The pids that kill(pid, 0) finds.
Alive == {p \in Pids : pc[p] \notin {"none", "failed"}}

\* A bound on the model: a behaviour has faults, or edits and idle parents.
LeftAfterFault == [left EXCEPT !.faults = @ - 1, !.edits = 0, !.idles = 0]

\* A pid that neither the file nor a connection refers to any more.
Forgotten(p) ==
  /\ p \notin Alive
  /\ p \notin Range(file.run) \cup Range(file.fe_running) \cup Range(file.backend)
  /\ \A g \in Groups : p \notin Range(file.bes[g]) \cup Range(file.fes[g])
                                  \cup {file.starting[g], file.parent[g]}
  /\ \A b \in Backends : p \notin Range(conn[b])

Doomed(p) == "KILL" \in file.sigs[p]

Init ==
  /\ file = EmptyFile
  /\ script = 1
  /\ pc = [p \in Pids |-> "none"]
  /\ mem = [p \in Pids |-> Blank]
  /\ ppid = [b \in Backends |-> Nil]
  /\ conn = [b \in Backends |-> <<>>]
  /\ left = [edits |-> MaxEdits, faults |-> MaxFaults,
             timeouts |-> MaxTimeouts, idles |-> MaxIdles]

\* The signals to a process go with it.
Reap(s, D) == [s EXCEPT !.sigs = [p \in Pids |-> IF p \in D THEN {} ELSE @[p]]]

\* Process p ends, having left the file as s.  A backend stays as a zombie
\* for its parent; the children of a parent go to init, which has no use for
\* zombies.
End(p, s, how) ==
  LET orphans == {b \in Backends : ppid[b] = p}
      reaper  == IF p \in Backends THEN ppid[p] ELSE Nil
      reaped  == {b \in orphans : pc[b] \in Defunct}
      s1      == Reap(s, {p} \cup reaped)
  IN  /\ pc' = [q \in Pids |->
                  IF q = p THEN IF p \in Backends /\ reaper = Nil THEN "none" ELSE how
                  ELSE IF q \in reaped THEN "none" ELSE pc[q]]
      /\ ppid' = [b \in Backends |-> IF b \in orphans THEN Nil ELSE ppid[b]]
      /\ conn' = [b \in Backends |-> IF b = p THEN <<>> ELSE conn[b]]
      /\ mem' = [mem EXCEPT ![p] = Blank]
      /\ file' = IF reaper = Nil THEN s1 ELSE [s1 EXCEPT !.sigs[reaper] = @ \cup {"CHLD"}]
      /\ UNCHANGED script

-----------------------------------------------------------------------------
(* Frontends                                                               *)

\* A frontend is run; it opens the script for its #! line.
FrontendStart(c) ==
  /\ Forgotten(c)
  /\ pc' = [pc EXCEPT ![c] = "connect"]
  /\ mem' = [mem EXCEPT ![c].version = script]
  /\ UNCHANGED <<file, script, ppid, conn, left>>

\* The end of get_a_backend and of the round of speedy_frontend_connect: out of
\* the queue of group g, with backend b or without.
LeaveQueue(c, g, v, s, spawn_working, b) ==
  LET s1 == Cleanup([s EXCEPT !.fes[g] = Without(@, {c})], Alive, c, {g})
      s2 == [s1 EXCEPT !.backend[c] = b, !.fe_running[b] = c, !.run = <<c>> \o @, !.starting[g] = b]
  IN  \/ /\ b # Nil
         /\ pc[b] \notin Defunct \cup {"none"}
         /\ file' = s2
         /\ conn' = [conn EXCEPT ![b] = Append(@, c)]
         /\ pc' = [pc EXCEPT ![c] = "connected"]
         /\ mem' = [mem EXCEPT ![c] = Blank]
      \/ /\ b # Nil
         /\ pc[b] \in Defunct \cup {"none"}
         /\ file' = FreeFrontend(DisposeBackend(s1, Alive, c, g, {b}), {c})
         /\ pc' = [pc EXCEPT ![c] = "again"]
         /\ mem' = [mem EXCEPT ![c] = [Blank EXCEPT !.version = v]]
         /\ UNCHANGED conn
      \/ /\ b = Nil
         /\ file' = FreeFrontend(s1, {c})
         /\ pc' = [pc EXCEPT ![c] = IF spawn_working THEN "again" ELSE "failed"]
         /\ mem' = [mem EXCEPT ![c] = IF spawn_working THEN [Blank EXCEPT !.version = v] ELSE Blank]
         /\ UNCHANGED conn

\* The process that be_parent_spawn forks twice for; Nil: its second fork fails,
\* as it does when the pids of the model are used up.
Spawned ==
  LET free == {m \in Parents : Forgotten(m)}
  IN  IF free = {} THEN {Nil} ELSE free

\* One round of the loop in get_a_backend_hard, up to speedy_sig_wait.
Iterate(c, g, v, s, did_spawn) ==
  LET s1  == SendSigs(s, Alive, g)
      s2  == [s1 EXCEPT !.sent_sig[c] = FALSE]
      gets == s1.sent_sig[c] /\ CanGet(s2, Alive, g)
      s3  == CheckPrev(s2, Alive, c, g)
      Wait(t, did, pcs) ==
        /\ file' = t
        /\ pc' = [pcs EXCEPT ![c] = "queued"]
        /\ mem' = [mem EXCEPT ![c] = [Blank EXCEPT !.group = g, !.version = v, !.did_spawn = did]]
        /\ UNCHANGED conn
  IN  \/ /\ gets
         /\ LeaveQueue(c, g, v, WaitGet(s2, Alive, g), TRUE, Head(s2.bes[g]))
      \/ /\ ~gets
         /\ c # Head(s3.fes[g])
         /\ Wait(s3, did_spawn, pc)
      \/ /\ ~gets
         /\ c = Head(s3.fes[g])
         /\ \E m \in IF WillSpawn(s3, Alive, g, did_spawn) THEN Spawned ELSE {Nil} :
              LET r == BackendCheck(s3, Alive, c, g, did_spawn, m)
              IN  IF r.ok /\ IsValid(r.s, g)
                  THEN Wait(r.s, r.did_spawn, [p \in Pids |-> IF p = m THEN "starting" ELSE pc[p]])
                  ELSE LeaveQueue(c, g, v, r.s, r.ok, Nil)

\* The version of the script p goes by when it looks it up: what it saw, or
\* what there is if RestatTimeout has passed.
Restat(p) == {mem[p].version, script}

\* speedy_frontend_connect up to the first wait: the fe_run list is cleaned
\* once, the group is found, and if nobody queues the head backend is taken.
FrontendConnect(c) ==
  /\ pc[c] \in {"connect", "again"}
  /\ \E v \in Restat(c) :
       LET s == IF pc[c] = "connect" THEN CleanRunning(file, Alive) ELSE file
       IN  \E g \in Findable(s, v) :
             LET s1 == ScriptFind(s, Alive, c, v, g)
             IN  IF s1.fes[g] = <<>> /\ CanGet(s1, Alive, g)
                 THEN LeaveQueue(c, g, v, WaitGet(s1, Alive, g), TRUE, Head(s1.bes[g]))
                 ELSE Iterate(c, g, v, [s1 EXCEPT !.fes[g] = Append(@, c)], FALSE)
  /\ UNCHANGED <<script, ppid, left>>

\* SIGALRM, from a backend or after BeCheckTimeout; speedy_script_changed.
FrontendWake(c) ==
  /\ pc[c] = "queued"
  /\ \E v \in Restat(c) :
       /\ pc' = [pc EXCEPT ![c] = IF v = mem[c].version THEN "woken" ELSE "changed"]
       /\ mem' = [mem EXCEPT ![c].version = v]
  /\ UNCHANGED <<file, script, ppid, conn, left>>

\* The lock again: out if the group has become invalid or the script has
\* changed, else the next round.
FrontendRecheck(c) ==
  LET g == mem[c].group
      v == mem[c].version
  IN  /\ pc[c] \in {"woken", "changed"}
      /\ IF pc[c] = "changed" \/ ~IsValid(file, g)
         THEN LeaveQueue(c, g, v, file, TRUE, Nil)
         ELSE Iterate(c, g, v, file, mem[c].did_spawn)
      /\ UNCHANGED <<script, ppid, left>>

\* signal(SIGUSR1, catch_sig)
FrontendCatches(c) ==
  /\ pc[c] = "connected"
  /\ "USR1" \notin file.sigs[c]
  /\ pc' = [pc EXCEPT ![c] = "running"]
  /\ UNCHANGED <<file, script, mem, ppid, conn, left>>

\* The status came before that.
FrontendTooLate(c) ==
  /\ pc[c] = "connected"
  /\ "USR1" \in file.sigs[c]
  /\ End(c, file, "none")
  /\ UNCHANGED left

\* speedy_frontend_collect_status, after SIGUSR1 or every 5 seconds.  While the
\* backend lives and has not exited this changes nothing.
FrontendCollect(c) ==
  LET b  == file.backend[c]
      s1 == IF b # Nil /\ b \notin Alive THEN BackendDied(file, Alive, c, {b}) ELSE file
  IN  /\ pc[c] = "running"
      /\ s1.backend[c] = Nil
      /\ End(c, RemoveRunning(s1, {c}), "none")
      /\ UNCHANGED left

-----------------------------------------------------------------------------
(* Backends: speedy_perl_run                                               *)

\* (A slip: be_starting is left to the next process that checks it.)
ClearStartingLater(s, g, p) == s

ClearStarting(s, g, p) == IF s.starting[g] = p THEN [s EXCEPT !.starting[g] = Nil] ELSE s

\* The head of the loop, up to the unlock.
OfferItself(b, s, n) ==
  LET g  == mem[b].group
      s1 == WaitPut([s EXCEPT !.maturity[b] = IF n = 0 THEN 1 ELSE 2], g, b)
  IN  IF ppid[b] = Nil \/ ~IsValid(s, g)
      THEN /\ file' = s
           /\ pc' = [pc EXCEPT ![b] = "leaving"]
      ELSE /\ file' = SendSigs(ClearStarting(s1, g, b), Alive, g)
           /\ pc' = [pc EXCEPT ![b] = "arming"]

BackendReady(b) ==
  /\ pc[b] = "born"
  /\ OfferItself(b, file, 0)
  /\ UNCHANGED <<script, mem, ppid, conn, left>>

\* backend_accept before it polls.  Until the handlers are in place a SIGTERM
\* kills; after that, and before poll, it is caught and comes to nothing.
BackendArm(b) ==
  /\ pc[b] = "arming"
  /\ \/ /\ pc' = [pc EXCEPT ![b] = "accept"]
        /\ file' = [file EXCEPT !.sigs[b] = {}]
        /\ UNCHANGED <<script, mem, ppid, conn>>
     \/ /\ "TERM" \in file.sigs[b]
        /\ End(b, file, "killed")
  /\ UNCHANGED left

\* The poll ends: a connection, a signal, or Timeout.  The connection accepted
\* stays at the head of conn until it has been served.
BackendAccept(b) ==
  /\ pc[b] = "accept"
  /\ conn[b] # <<>>
  /\ pc' = [pc EXCEPT ![b] = "accepted"]
  /\ UNCHANGED <<file, script, mem, ppid, conn, left>>

BackendTerm(b) ==
  /\ pc[b] = "accept"
  /\ "TERM" \in file.sigs[b]
  /\ pc' = [pc EXCEPT ![b] = "leaving"]
  /\ file' = [file EXCEPT !.sigs[b] = {}]
  /\ UNCHANGED <<script, mem, ppid, conn, left>>

BackendTimeout(b) ==
  /\ pc[b] = "accept"
  /\ conn[b] = <<>>
  /\ left.timeouts > 0
  /\ left' = [left EXCEPT !.timeouts = @ - 1]
  /\ pc' = [pc EXCEPT ![b] = "leaving"]
  /\ UNCHANGED <<file, script, mem, ppid, conn>>

\* The second lock of the loop.
BackendBegin(b) ==
  LET g == mem[b].group
  IN  /\ pc[b] = "accepted"
      /\ IF IsValid(file, g)
         THEN /\ file' = SendSigs(ClearStarting(file, g, b), Alive, g)
              /\ pc' = [pc EXCEPT ![b] = "perl"]
         ELSE /\ pc' = [pc EXCEPT ![b] = "leaving"]
              /\ UNCHANGED file
      /\ UNCHANGED <<script, mem, ppid, conn, left>>

\* The script returns.  In one hold of the lock the status is sent and, unless
\* MaxRuns is reached, b offers itself again.
BackendFinish(b) ==
  LET g    == mem[b].group
      s    == BackendExited(file, Alive, b, {b}, [x \in {b} |-> "script"])
      n    == mem[b].numrun + 1
      last == MaxRuns # 0 /\ n >= MaxRuns
  IN  /\ pc[b] = "perl"
      /\ conn' = [conn EXCEPT ![b] = Tail(@)]
      /\ IF last
         THEN /\ file' = IF IsValid(s, g) THEN StartBe(s, Alive, b, g) ELSE s
              /\ pc' = [pc EXCEPT ![b] = "leaving"]
         ELSE OfferItself(b, s, n)
      /\ mem' = [mem EXCEPT ![b].numrun = IF MaxRuns = 0 THEN 1 ELSE n]
      /\ UNCHANGED <<script, ppid, left>>

\* "protocol error", or SIGPIPE: the frontend has gone.
BackendGivesUp(b) ==
  /\ pc[b] = "perl"
  /\ Head(conn[b]) \notin Alive
  /\ \E how \in Defunct : End(b, file, how)
  /\ UNCHANGED left

\* all_done comes to its end.
BackendExit(b) ==
  /\ pc[b] = "leaving"
  /\ End(b, file, "exited")
  /\ UNCHANGED left

-----------------------------------------------------------------------------
(* Backend parents                                                         *)

\* speedy_opt_read_shbang opens the script, perl_parse compiles it.
ParentStat(m) ==
  /\ pc[m] = "starting"
  /\ ~Doomed(m)
  /\ pc' = [pc EXCEPT ![m] = "stated"]
  /\ mem' = [mem EXCEPT ![m].version = script]
  /\ UNCHANGED <<file, script, ppid, conn, left>>

ParentParse(m) ==
  /\ pc[m] = "stated"
  /\ ~Doomed(m)
  /\ pc' = [pc EXCEPT ![m] = "parsed"]
  /\ mem' = [mem EXCEPT ![m].code = script]
  /\ UNCHANGED <<file, script, ppid, conn, left>>

\* What the fork of start_child can make of the pids that are left; Nil: it
\* fails.
Children(forks) ==
  LET free == {b \in Backends : Forgotten(b)}
  IN  IF ~forks \/ free = {} THEN {Nil}
      ELSE free \cup (IF left.faults > 0 THEN {Nil} ELSE {})

\* The parent goes to sleep with the file as s, its dead children reaped and a
\* child b forked (if it is not Nil).
Sleep(m, g, s, dead, b, forks) ==
  /\ file' = Reap(s, dead)
  /\ pc' = [p \in Pids |->
              IF p = m THEN "wait" ELSE IF p = b THEN "born"
              ELSE IF p \in dead THEN "none" ELSE pc[p]]
  /\ ppid' = [x \in Backends |-> IF x = b THEN m ELSE IF x \in dead THEN Nil ELSE ppid[x]]
  /\ mem' = [p \in Pids |->
               IF p = m THEN [Blank EXCEPT !.group = g, !.code = mem[m].code,
                                           !.alarm = s.bes[g] = <<>> /\ pc[m] = "serve"]
               ELSE IF p = b THEN [Blank EXCEPT !.group = g, !.code = mem[m].code]
               ELSE mem[p]]
  /\ left' = IF b = Nil /\ Children(forks) # {Nil}
             THEN LeftAfterFault ELSE left
  /\ UNCHANGED <<script, conn>>

\* main up to the first wait.  If the group has another parent, and that one
\* can be told to start a backend, this one exits.
ParentInstall(m) ==
  /\ pc[m] = "parsed"
  /\ ~Doomed(m)
  /\ \E v \in Restat(m) : \E g \in Findable(file, v) :
       LET s1    == ScriptFind(file, Alive, m, v, g)
           other == s1.parent[g] \notin {Nil, m}
           s2    == IF other THEN StartBe(s1, Alive, m, g) ELSE s1
           s3    == [s2 EXCEPT !.parent[g] = m]
           forks == WillFork(s3, Alive, m, g)
       IN  \/ /\ other /\ StartBeWorks(s1, Alive, g)
              /\ End(m, s2, "none")
              /\ UNCHANGED left
           \/ /\ ~(other /\ StartBeWorks(s1, Alive, g))
              /\ \E b \in Children(forks) :
                   Sleep(m, g, StartChild(s3, Alive, m, g, b), {}, b, forks)

\* speedy_sig_wait: everything pending is taken, with SIGALRM if it is time.
ParentWake(m) ==
  /\ pc[m] = "wait"
  /\ ~Doomed(m)
  /\ \/ /\ file.sigs[m] # {}
        /\ mem' = [mem EXCEPT ![m].got = file.sigs[m]]
        /\ UNCHANGED left
     \/ /\ mem[m].alarm
        /\ left.idles > 0
        /\ left' = [left EXCEPT !.idles = @ - 1, !.faults = 0]
        /\ mem' = [mem EXCEPT ![m].got = file.sigs[m] \cup {"ALRM"}]
  /\ file' = [file EXCEPT !.sigs[m] = {}]
  /\ pc' = [pc EXCEPT ![m] = "serve"]
  /\ UNCHANGED <<script, ppid, conn>>

\* One round of the loop in main: dead children are collected, a child is
\* started if SIGUSR1 asked for one, the group in front is looked after.  With
\* no children left and after SIGALRM the group is removed and m exits.
ParentServe(m) ==
  LET g     == mem[m].group
      dead  == {b \in Backends : ppid[b] = m /\ pc[b] \in Defunct}
      alive == Alive \ dead
      s1    == CollectChild(file, alive, m, g, dead, pc)
      asked == IsValid(s1, g) /\ "USR1" \in mem[m].got
      forks == asked /\ WillFork(s1, alive, m, g)
  IN  /\ pc[m] = "serve"
      /\ ~Doomed(m)
      /\ \E b \in Children(forks) :
           LET s2 == IF asked THEN StartChild(s1, alive, m, g, b) ELSE s1
               s3 == DoCleanup(s2, alive, m, g)
           IN  IF s3.bes[g] = <<>> /\ "ALRM" \in mem[m].got
               THEN /\ End(m, Cleanup(s3, alive, m, {g}), "none")
                    /\ UNCHANGED left
               ELSE Sleep(m, g, s3, dead, b, forks)

ParentKilled(m) ==
  /\ m \in Alive
  /\ Doomed(m)
  /\ End(m, file, "none")
  /\ UNCHANGED left

-----------------------------------------------------------------------------
(* What happens to them                                                    *)

\* The script is modified.
Edit ==
  /\ left.edits > 0
  /\ left' = [left EXCEPT !.edits = @ - 1, !.faults = 0]
  /\ script' = script + 1
  /\ UNCHANGED <<file, pc, mem, ppid, conn>>

\* Somebody kills a process, or it crashes.
Crash(p) ==
  /\ p \in Alive
  /\ pc[p] \notin Defunct
  /\ left.faults > 0
  /\ left' = LeftAfterFault
  /\ End(p, file, IF p \in Backends THEN "killed" ELSE "none")

Frontend(c) ==
  \/ FrontendConnect(c) \/ FrontendWake(c) \/ FrontendRecheck(c)
  \/ FrontendCatches(c) \/ FrontendTooLate(c) \/ FrontendCollect(c)

Backend(b) ==
  \/ BackendReady(b) \/ BackendArm(b) \/ BackendAccept(b) \/ BackendTerm(b)
  \/ BackendBegin(b) \/ BackendFinish(b) \/ BackendGivesUp(b) \/ BackendExit(b)

Parent(m) ==
  \/ ParentStat(m) \/ ParentParse(m) \/ ParentInstall(m)
  \/ ParentWake(m) \/ ParentServe(m) \/ ParentKilled(m)

Next ==
  \/ \E c \in Frontends : FrontendStart(c) \/ Frontend(c)
  \/ \E b \in Backends : BackendTimeout(b) \/ Backend(b)
  \/ \E m \in Parents : Parent(m)
  \/ \E p \in Pids : Crash(p)
  \/ Edit

Spec == Init /\ [][Next]_vars

\* Where a process has something to do.  It is where Frontend, Backend or
\* Parent is enabled, given a pid for the fork and a slot for the group.
FrontendCanGoOn(c) ==
  \/ pc[c] \in {"connect", "again", "connected"} \cup Waiting
  \/ pc[c] = "running" /\ file.backend[c] \notin Alive

BackendCanGoOn(b) ==
  \/ pc[b] \in {"born", "arming", "accepted", "perl", "leaving"}
  \/ pc[b] = "accept" /\ (conn[b] # <<>> \/ "TERM" \in file.sigs[b])

ParentCanGoOn(m) ==
  \/ m \in Alive /\ Doomed(m)
  \/ pc[m] \in Starting \cup {"serve"}
  \/ pc[m] = "wait" /\ file.sigs[m] # {}

\* Every process that is not waiting goes on, and a frontend that waits looks
\* again every BeCheckTimeout: the scheduler is fair.  Nothing makes a frontend
\* be run, a script be edited, a process crash, or backends and parents time
\* out.  This is weak fairness of each process, with its ENABLED spelled out
\* so that TLC can evaluate it.
Fairness ==
  /\ \A c \in Frontends : []<>~FrontendCanGoOn(c) \/ []<><<Frontend(c)>>_vars
  /\ \A b \in Backends : []<>~BackendCanGoOn(b) \/ []<><<Backend(b)>>_vars
  /\ \A m \in Parents : []<>~ParentCanGoOn(m) \/ []<><<Parent(m)>>_vars

FairSpec == Spec /\ Fairness

-----------------------------------------------------------------------------
(* Properties                                                              *)

TypeOK ==
  /\ script \in 1 .. MaxEdits + 1
  /\ \A c \in Frontends : pc[c] \in FrontendPCs
  /\ \A b \in Backends : pc[b] \in BackendPCs
  /\ \A m \in Parents : pc[m] \in ParentPCs
  /\ mem \in [Pids -> [group : Groups \cup {Nil}, version : 0 .. MaxEdits + 1,
                       code : 0 .. MaxEdits + 1, did_spawn : BOOLEAN, numrun : Nat,
                       got : SUBSET {"CHLD", "USR1", "ALRM"}, alarm : BOOLEAN]]
  /\ ppid \in [Backends -> Parents \cup {Nil}]
  /\ \A b \in Backends : IsInjective(conn[b]) /\ Range(conn[b]) \subseteq Frontends
  /\ IsInjective(file.glist) /\ Range(file.glist) \subseteq Groups
  /\ IsInjective(file.run) /\ Range(file.run) \subseteq Frontends
  /\ \A g \in Groups :
       /\ IsInjective(file.bes[g]) /\ Range(file.bes[g]) \subseteq Backends
       /\ IsInjective(file.fes[g]) /\ Range(file.fes[g]) \subseteq Frontends
       /\ file.starting[g] \in Backends \cup Parents \cup {Nil}
       /\ file.parent[g] \in Parents \cup {Nil}
  /\ \A b \in Backends : file.fe_running[b] \in Frontends \cup {b, Nil}
  /\ \A c \in Frontends : file.backend[c] \in Backends \cup {Nil}

Lives(b) == b \in Alive /\ pc[b] \notin Defunct

\* Nobody frees the slot of a process that goes on to use it: whoever buries
\* the dead (speedy_frontend_dispose, speedy_backend_dispose, collect_child,
\* do_cleanup, speedy_group_cleanup) leaves the living in the lists where they
\* left themselves.
SlotsOwned ==
  /\ \A b \in Backends : Lives(b) =>
       mem[b].group \in Range(file.glist) /\ b \in Range(file.bes[mem[b].group])
  /\ \A c \in Frontends :
       /\ pc[c] \in Waiting =>
            mem[c].group \in Range(file.glist) /\ c \in Range(file.fes[mem[c].group])
       /\ pc[c] \in {"connected", "running"} => c \in Range(file.run)
  /\ \A m \in Parents : pc[m] \in {"wait", "serve"} /\ ~Doomed(m) =>
       mem[m].group \in Range(file.glist) /\ file.parent[mem[m].group] = m

\* A backend belongs to one frontend at most, and both slots say so, or the
\* status would go to the wrong frontend, or to nobody.
Paired ==
  /\ \A c \in Range(file.run) : file.backend[c] # Nil => file.fe_running[file.backend[c]] = c
  /\ \A b \in Backends : file.fe_running[b] \in Frontends =>
       /\ file.fe_running[b] \in Range(file.run)
       /\ file.backend[file.fe_running[b]] = b

\* A frontend that waits for a status gets one: as long as its backend is
\* named in its slot, that backend is still to finish, or to be found dead.
StatusComes ==
  \A c \in Frontends :
    pc[c] \in {"connected", "running"} /\ file.backend[c] # Nil =>
      LET b == file.backend[c]
      IN  b \notin Alive \/ pc[b] \in Defunct \cup {"leaving"} \/ c \in Range(conn[b])

\* The backends that wait are in front, the most mature first, so the head
\* alone tells whether there is one, and is the one to take.
WaitingFirst ==
  \A g \in Groups :
    \A i, j \in DOMAIN file.bes[g] :
      i < j /\ IsWaiting(file, file.bes[g][j]) =>
        /\ IsWaiting(file, file.bes[g][i])
        /\ file.maturity[file.bes[g][i]] >= file.maturity[file.bes[g][j]]

\* Invalid groups are behind the valid one, where speedy_script_find stops.
ValidFirst ==
  \A i, j \in DOMAIN file.glist :
    i < j => ~IsValid(file, file.glist[j])

\* Frontends are served in turn: only the head of a queue is ever told to take
\* a backend.
HeadIsTold ==
  \A c \in Frontends : file.sent_sig[c] /\ c \in Alive =>
    pc[c] \in Waiting /\ file.fes[mem[c].group] # <<>> /\ Head(file.fes[mem[c].group]) = c

\* be_starting holds up spawning and serving: the process it names is one that
\* will clear it, or will be gone.
StartingEnds ==
  \A g \in Range(file.glist) :
    LET p == file.starting[g]
    IN  IsValid(file, g) /\ p \in Alive =>
          IF p \in Parents
          THEN \/ pc[p] \in Starting \/ Doomed(p)
               \/ "USR1" \in file.sigs[p] \cup mem[p].got
          ELSE pc[p] \in {"born", "leaving"} \cup Defunct \/ conn[p] # <<>>

\* SIGUSR1 kills a parent that has not come to speedy_sig_init yet: nobody
\* sends it one (speedy_group_start_be takes it as signalled).
NoEarlySignal ==
  \A m \in Parents : pc[m] \in Starting => "USR1" \notin file.sigs[m]

\* speedy_ipc_accept takes three connections and assumes they are of one
\* frontend: there is never a second one in line.
OneConnection ==
  \A b \in Backends : Len(conn[b]) <= 1

\* MaxBackends: no more processes than that for one version of the script.
MaxBackendsKept ==
  \A g \in Groups :
    MaxBackends # 0 =>
      Cardinality({b \in Backends : Lives(b) /\ mem[b].group = g}) <= MaxBackends

\* speedy_backend_main.c: "Initialize interpreter with this script"; t/touch.t:
\* after the script is modified "the next run should have a different pid".
\* The code a backend has loaded should be that of the version its group
\* stands for; but speedy_script_find stats the script again, after perl_parse.
CodeIsCurrent ==
  \A b \in Backends : Lives(b) /\ IsValid(file, mem[b].group)
    => mem[b].code >= file.version[mem[b].group]

\* prog_outline.txt, "Try Exit": a backend that times out looks once more for
\* a connection, with the file locked, and serves it.  So a frontend should
\* never be told that a backend exited which did not run its script; but
\* backend_accept just calls all_done.
NoLostRequest ==
  \A c \in Frontends : file.status[c] # "exited"

\* speedy_group_cleanup: "Kill the parent", of the group that goes.  But a
\* parent that finds the script modified installs itself in another group, and
\* the one it was forked for still names it.
KillsOwnParent ==
  \A m \in Parents : Doomed(m) /\ pc[m] \in {"wait", "serve"} =>
    mem[m].group \notin Range(file.glist)

\* Every frontend comes to an end: it gets a status, or gives up.
Served ==
  \A c \in Frontends : pc[c] = "connect" ~> pc[c] \in {"none", "failed"}
=============================================================================
