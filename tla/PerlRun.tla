------------------------------ MODULE PerlRun ------------------------------
(***************************************************************************)
(* One run of the script in a backend (speedy_perl.c: onerun): the request *)
(* is read, the backend goes to the directory the script is to run in, and *)
(* the script runs.  To get there the backend keeps what it learned from   *)
(* earlier requests: an open descriptor of its directory, a hash from      *)
(* devices/inodes and from paths to SpeedyCwd structures, and in every     *)
(* script the structure it was last in.  Around it the frontends start     *)
(* anywhere, scripts change the directory and the descriptors of the       *)
(* backend, and directories are renamed.                                   *)
(*                                                                         *)
(* A directory stands for its device and inode.                            *)
(***************************************************************************)
EXTENDS Request, FiniteSets

CONSTANTS
  Dirs, Mode,         \* "all": may be read; "noread": searched; "none": neither
  Paths, Home,        \* names, and the directories they are of at first
  Scripts,
  Ids,                \* the structures there is memory for
  Payloads,           \* what a frontend is run with: its env and its argv
  Equals,             \* the character between key and value
  Nil, Gone, Junk,    \* no structure, no directory, no device and inode
  None, Foreign,      \* cwd_fd: -1, or another open file
  HasCwd,             \* script_has_cwd of the frontends: TRUE is Apache's
  Plain,              \* the directory in the path of a script, where it does not matter
  MaxOdd              \* bound of the model: moved paths, meddling scripts, dead frontends

\* What counts as a byte
Bytes   == Nat \cup Paths \cup Scripts \cup Dirs
Strings == Seq(Bytes)

ASSUME PerlRunAssumption ==
  /\ Mode \in [Dirs -> {"all", "noread", "none"}]
  /\ Home \in [Paths -> Dirs]
  /\ IsFiniteSet(Ids) /\ IsFiniteSet(Scripts) /\ Cardinality(Ids) > Cardinality(Scripts)
  /\ Nil \notin Ids
  /\ HasCwd \subseteq BOOLEAN /\ Plain \in Paths /\ MaxOdd \in Nat
  /\ \A p \in DOMAIN Payloads : Payloads[p].env \in Seq(Strings) /\ Payloads[p].argv \in Seq(Strings)
  /\ NULL \notin Strings /\ Garbage \notin Strings
  /\ Dirs \cap {Gone, Junk, None, Foreign, "closed"} = {}
  /\ Paths \cap (Dirs \cup {Junk, NULL, "."}) = {}

DevInos == Dirs \cup {Junk}

VARIABLES
  b,       \* the backend: see Backends
  at,      \* the directory a path leads to
  req,     \* the request of the frontend, and what it is to arrive as
  r,       \* the variables of onerun
  blind,   \* an uninitialised device and inode was used
  load     \* how much of what is bounded was done

vars == <<b, at, req, r, blind, load>>

Structs == [refcnt : 0 .. Cardinality(Scripts) + 1, path : Paths, devino : DevInos]

\* cwd: where it is.  fd: cwd_fd, or what has become of it.  mem: the
\* structures in memory.  hash: cwd_hash.  last: last_cwd of the scripts.
Backends ==
  [cwd : Dirs, fd : Dirs \cup {None, Foreign, "closed"},
   mem : UNION {[S -> Structs] : S \in SUBSET Ids},
   hash : [DevInos \cup Paths -> Ids \cup {Nil}],
   last : [Scripts -> Ids \cup {Nil}]]

NoRequest == [dir |-> Gone, script |-> Nil, where |-> SPEEDY_CWD_UNKNOWN, fits |-> TRUE,
              payload |-> Nil, cut |-> FALSE, moved |-> FALSE]

Idle == [pc |-> "idle", in |-> << >>, env |-> << >>, argv |-> << >>, fname |-> << >>,
         script |-> Nil, fe_cwd |-> Nil, cwd |-> Nil, dir |-> Nil]

Dead == [Idle EXCEPT !.pc = "dead"]

NewBackend(dir) ==
  [cwd |-> dir, fd |-> None, mem |-> << >>, hash |-> [k \in DevInos \cup Paths |-> Nil],
   last |-> [s \in Scripts |-> Nil]]

Init ==
  /\ b \in {NewBackend(dir) : dir \in Dirs}
  /\ at = Home
  /\ req = NoRequest
  /\ r = Idle
  /\ blind = FALSE
  /\ load = 0

-----------------------------------------------------------------------------
(* Going to a directory                                                    *)

Enterable(dir) == dir \in Dirs /\ Mode[dir] # "none"

\* cwd_fd, when fstat can say what it is
stat_cwd_fd(x) == IF x.fd = "closed" THEN None ELSE x.fd

\* Where a path leads, "." being one
Lookup(x, path) == IF path = "." THEN x.cwd ELSE at[path]

chdir_works(x, path) == path = "." \/ Enterable(at[path])

\* The backend after chdir_path.  cwd_fd is -1 when chdir or open fails.
chdir_path(x, path) ==
  LET dir == Lookup(x, path)
  IN  IF ~chdir_works(x, path) THEN [x EXCEPT !.fd = None]
      ELSE [x EXCEPT !.cwd = dir, !.fd = IF Mode[dir] = "all" THEN dir ELSE None]

\* The device and inode it stores for the new directory; it leaves what was
\* there, was, when it has no descriptor and stat works.
devino_of(x, was) ==
  CASE x.fd # None -> x.fd
    [] x.fd = None /\ Mode[x.cwd] = "none" -> Junk
    [] x.fd = None /\ Mode[x.cwd] # "none" -> was

\* Nothing was stored.
unset(x) == x.fd = None /\ Mode[x.cwd] # "none"

\* What an uninitialised device and inode may hold
Garbled(x) == IF unset(x) THEN DevInos ELSE {Junk}

\* (A slip: an open cwd_fd is taken for the right one.)
quick_cd_trusting(x, dest) ==
  LET new == chdir_path([x EXCEPT !.fd = stat_cwd_fd(x)], ".")
  IN  IF x.fd \in Dirs THEN {[b |-> [x EXCEPT !.cwd = x.fd], done |-> TRUE, blind |-> FALSE]}
      ELSE {[b |-> new, done |-> devino_of(new, Junk) = dest, blind |-> unset(new)]}

\* quick_cd: what may come of it.  It compares dest with what was on the stack
\* when there is no descriptor, before and after.
quick_cd(x, dest) ==
  LET fd  == stat_cwd_fd(x)
      new == chdir_path([x EXCEPT !.fd = fd], ".")
  IN  IF fd = dest /\ Enterable(fd)
      THEN {[b |-> [x EXCEPT !.cwd = fd], done |-> TRUE, blind |-> FALSE]}
      ELSE {[b     |-> new,
             done  |-> devino_of(new, IF fd = None THEN garbage ELSE fd) = dest,
             blind |-> fd = None /\ unset(new)] : garbage \in Garbled(new)}

-----------------------------------------------------------------------------
(* The SpeedyCwd structures                                                *)

Free(x) == Ids \ DOMAIN x.mem

\* cwd_new: what may come of it.  Nothing counts the new structure yet, and
\* its memory was not cleared.
cwd_new(x, path) ==
  LET new == chdir_path(x, path)
      id  == CHOOSE i \in Free(x) : TRUE
      With(cwd) == [new EXCEPT !.mem = [i \in DOMAIN @ \cup {id} |-> IF i = id THEN cwd ELSE @[i]],
                               !.hash[cwd.devino] = id, !.hash[path] = id]
  IN  IF ~chdir_works(x, path) THEN {[b |-> new, cwd |-> Nil, blind |-> FALSE]}
      ELSE {[b     |-> With([refcnt |-> 0, path |-> path, devino |-> devino_of(new, garbage)]),
             cwd   |-> id,
             blind |-> unset(new)] : garbage \in Garbled(new)}

\* (A slip: it stays in the hash under its path.)
FreedByDevino(x, id) == [x EXCEPT !.mem = [i \in DOMAIN x.mem \ {id} |-> x.mem[i]],
                                  !.hash[x.mem[id].devino] = Nil]

Freed(x, id) == [x EXCEPT !.mem = [i \in DOMAIN x.mem \ {id} |-> x.mem[i]],
                          !.hash[x.mem[id].devino] = Nil, !.hash[x.mem[id].path] = Nil]

cwd_refcnt_dec(x, id) ==
  IF x.mem[id].refcnt = 1 THEN Freed(x, id) ELSE [x EXCEPT !.mem[id].refcnt = @ - 1]

\* (A slip: the previous structure is not let go when it is the same.)
store_last_cwd_same(x, script, id) ==
  LET prev == x.last[script]
      kept == [x EXCEPT !.mem[id].refcnt = @ + 1, !.last[script] = id]
  IN  IF prev \in {Nil, id} THEN kept ELSE cwd_refcnt_dec(kept, prev)

store_last_cwd(x, script, id) ==
  LET prev == x.last[script]
      kept == [x EXCEPT !.mem[id].refcnt = @ + 1, !.last[script] = id]
  IN  IF prev = Nil THEN kept ELSE cwd_refcnt_dec(kept, prev)

-----------------------------------------------------------------------------
(* The frontend: the request, and later its path                           *)

\* What getcwd may say of a directory
speedy_util_getcwd(dir) ==
  LET paths == {path \in Paths : at[path] = dir}
  IN  IF paths = {} THEN {NULL} ELSE paths

\* The path of a script is that of its directory and its name.  (One without
\* a directory has none to go to; no frontend sends that.)
fname_dir(fname) ==
  IF fname \notin {NULL, Garbage} /\ Head(fname) \in Paths THEN Head(fname) ELSE NULL

Request(dir, script, path, payload, has_cwd) ==
  LET where == IF has_cwd THEN SPEEDY_CWD_IN_SCRIPT
               ELSE IF Mode[dir] # "none" THEN SPEEDY_CWD_DEVINO ELSE SPEEDY_CWD_UNKNOWN
      sb == speedy_frontend_mkenv(Payloads[payload].env, Payloads[payload].argv, <<path, script>>, script, where, dir)
  IN  /\ req' = [dir |-> dir, script |-> script, where |-> where,
                 fits |-> sb.fits, payload |-> payload, cut |-> FALSE, moved |-> FALSE]
      /\ r' = [Idle EXCEPT !.pc = "env", !.in = sb.bytes]

FrontendSends ==
  /\ r.pc = "idle"
  /\ \E script \in Scripts, payload \in DOMAIN Payloads :
       \/ /\ FALSE \in HasCwd
          /\ \E dir \in Dirs : Request(dir, script, Plain, payload, FALSE)
       \/ /\ TRUE \in HasCwd
          /\ \E path \in Paths : at[path] # Gone /\ Request(at[path], script, path, payload, TRUE)
  /\ UNCHANGED <<b, at, blind, load>>

\* The frontend is killed while it writes.
FrontendDies ==
  /\ r.pc = "env" /\ r.env = << >>
  /\ load < MaxOdd /\ ~req.cut
  /\ \E n \in 0 .. Len(r.in) : r' = [r EXCEPT !.in = Upto(@, n)]
  /\ req' = [req EXCEPT !.cut = TRUE]
  /\ load' = load + 1
  /\ UNCHANGED <<b, at, blind>>

-----------------------------------------------------------------------------
(* onerun reads the request                                                *)

Exits == r' = Dead

KeyEnd(s) == CHOOSE i \in DOMAIN s : s[i] = Equals /\ \A j \in 1 .. i - 1 : s[j] # Equals

\* %ENV with one more string of the environment in it
Setenv(env, s) ==
  IF s = Garbage \/ Equals \notin ToSet(s) THEN env
  ELSE LET key == Upto(s, KeyEnd(s) - 1)
       IN  [k \in DOMAIN env \cup {key} |-> IF k = key THEN After(s, KeyEnd(s)) ELSE env[k]]

\* The environment as the script is to see it
EnvOf(env) ==
  LET pairs     == {i \in DOMAIN env : Equals \in ToSet(env[i])}
      Key(i)    == Upto(env[i], KeyEnd(env[i]) - 1)
      Latest(k) == CHOOSE i \in pairs : Key(i) = k /\ \A j \in pairs : Key(j) = k => j <= i
  IN  [k \in {Key(i) : i \in pairs} |-> After(env[Latest(k)], KeyEnd(env[Latest(k)]))]

ReadEnv ==
  /\ r.pc = "env"
  /\ IF ProtocolError(r.in) THEN Exits
     ELSE LET got == get_string(r.in)
          IN  r' = IF got.str = NULL THEN [r EXCEPT !.pc = "argv", !.in = got.rest]
                   ELSE [r EXCEPT !.env = Setenv(@, got.str), !.in = got.rest]
  /\ UNCHANGED <<b, at, req, blind, load>>

ReadArgv ==
  /\ r.pc = "argv"
  /\ IF ProtocolError(r.in) THEN Exits
     ELSE LET got == get_string(r.in)
          IN  r' = IF got.str = NULL THEN [r EXCEPT !.pc = "script", !.in = got.rest]
                   ELSE [r EXCEPT !.argv = Append(@, got.str), !.in = got.rest]
  /\ UNCHANGED <<b, at, req, blind, load>>

\* What a structure read from the n-th byte can be: that, or, when it is missing
\* or makes no sense, what was on the stack.
ReadAs(kind, bytes, n) ==
  IF n <= Len(bytes) /\ bytes[n] \in kind THEN {bytes[n]} ELSE kind

\* The path of the script, its device and inode, and where the directory is:
\* end of file is no place that is known.
ReadScript ==
  /\ r.pc = "script"
  /\ IF ProtocolError(r.in) THEN Exits
     ELSE LET got   == get_string(r.in)
              where == IF Len(got.rest) < 2 THEN SPEEDY_CWD_UNKNOWN ELSE got.rest[2]
          IN  \E script \in ReadAs(Scripts, got.rest, 1), fe_cwd \in ReadAs(DevInos, got.rest, 3) :
                r' = [r EXCEPT !.in = << >>, !.fname = got.str, !.script = script,
                               !.pc = CASE where = SPEEDY_CWD_IN_SCRIPT -> "inscript"
                                        [] where = SPEEDY_CWD_DEVINO    -> "quick"
                                        [] OTHER                        -> "ask",
                               !.fe_cwd = IF where = SPEEDY_CWD_DEVINO THEN fe_cwd ELSE Nil]
  /\ UNCHANGED <<b, at, req, blind, load>>

-----------------------------------------------------------------------------
(* onerun goes to the directory                                            *)

\* Everything that is left before the script: the structure that was used is
\* stored in the script, and proto2 is done if it was not.
Arrive(x, cwd) ==
  /\ b' = IF cwd = Nil THEN x ELSE store_last_cwd(x, r.script, cwd)
  /\ r' = [r EXCEPT !.pc = "run", !.cwd = Nil, !.fe_cwd = Nil, !.dir = Nil]

\* The directory is that of the script.  Without a structure store_last_cwd
\* goes through a null pointer.
GotoScript ==
  /\ r.pc = "inscript"
  /\ LET path == fname_dir(r.fname)
         cwd  == b.hash[path]
         New(x, seen) == \E new \in cwd_new(x, path) :
                           /\ IF new.cwd = Nil THEN Exits /\ b' = new.b ELSE Arrive(new.b, new.cwd)
                           /\ blind' = (seen \/ new.blind)
     IN  IF path = NULL THEN Arrive(b, Nil) /\ UNCHANGED blind
         ELSE IF cwd = Nil THEN New(b, blind)
         ELSE \E quick \in quick_cd(b, b.mem[cwd].devino) :
                IF quick.done THEN Arrive(quick.b, cwd) /\ blind' = (blind \/ quick.blind)
                              ELSE New(quick.b, blind \/ quick.blind)
  /\ UNCHANGED <<at, req, load>>

TryQuick ==
  /\ r.pc = "quick"
  /\ \E quick \in quick_cd(b, r.fe_cwd) :
       /\ IF quick.done THEN Arrive(quick.b, Nil)
                        ELSE b' = quick.b /\ r' = [r EXCEPT !.pc = "last"]
       /\ blind' = (blind \/ quick.blind)
  /\ UNCHANGED <<at, req, load>>

\* The path the script was in last, if it was the same directory then
TryLast ==
  /\ r.pc = "last"
  /\ LET last == b.last[r.script]
         same == last # Nil /\ b.mem[last].devino = r.fe_cwd
     IN  IF same /\ chdir_works(b, b.mem[last].path)
         THEN Arrive(chdir_path(b, b.mem[last].path), Nil)
         ELSE /\ b' = IF same THEN chdir_path(b, b.mem[last].path) ELSE b
              /\ r' = [r EXCEPT !.pc = "hash"]
  /\ UNCHANGED <<at, req, blind, load>>

\* A path that led there for any script.  The structure is kept in cwd when
\* its path no longer works.
TryHash ==
  /\ r.pc = "hash"
  /\ LET cwd == b.hash[r.fe_cwd]
     IN  IF cwd # Nil /\ chdir_works(b, b.mem[cwd].path)
         THEN Arrive(chdir_path(b, b.mem[cwd].path), cwd)
         ELSE /\ b' = IF cwd # Nil THEN chdir_path(b, b.mem[cwd].path) ELSE b
              /\ r' = [r EXCEPT !.pc = "ask", !.cwd = cwd]
  /\ UNCHANGED <<at, req, blind, load>>

\* (A slip: the end of the file is taken for no path.)
AskFrontendLoose ==
  /\ r.pc = "ask"
  /\ \E dir \in IF req.cut THEN {NULL} ELSE speedy_util_getcwd(req.dir) :
       r' = [r EXCEPT !.pc = "answer", !.dir = dir]
  /\ UNCHANGED <<b, at, req, blind, load>>

\* do_proto2: the frontend sends what getcwd says.  It may fail where the
\* directories above it cannot be read, and does when the directory is gone.
\* The answer of a frontend that is dead is end of file.
AskFrontend ==
  /\ r.pc = "ask"
  /\ IF req.cut THEN Exits
     ELSE \E dir \in speedy_util_getcwd(req.dir) :
            r' = [r EXCEPT !.pc = "answer", !.dir = dir]
  /\ UNCHANGED <<b, at, req, blind, load>>

GotoAnswer ==
  /\ r.pc = "answer"
  /\ IF r.dir = NULL THEN Arrive(b, r.cwd) /\ UNCHANGED blind
     ELSE \E new \in cwd_new(b, r.dir) :
            /\ Arrive(new.b, new.cwd)
            /\ blind' = (blind \/ new.blind)
  /\ UNCHANGED <<at, req, load>>

-----------------------------------------------------------------------------
(* The script runs, and the backend waits for the next request             *)

RunEnds ==
  /\ r.pc = "run"
  /\ r' = Idle /\ req' = NoRequest
  /\ UNCHANGED <<b, at, blind, load>>

\* The script changes directory
ScriptChdirs ==
  /\ r.pc = "run" /\ load < MaxOdd
  /\ \E dir \in Dirs \ {b.cwd} : Enterable(dir) /\ b' = [b EXCEPT !.cwd = dir]
  /\ load' = load + 1
  /\ r' = Idle /\ req' = NoRequest
  /\ UNCHANGED <<at, blind>>

\* The script closes every descriptor there is, and may open others.
ScriptMeddles ==
  /\ r.pc = "run" /\ load < MaxOdd
  /\ b.fd # None
  /\ \E fd \in {"closed", Foreign} \ {b.fd} : b' = [b EXCEPT !.fd = fd]
  /\ load' = load + 1
  /\ r' = Idle /\ req' = NoRequest
  /\ UNCHANGED <<at, blind>>

\* A path leads elsewhere: a directory is renamed or removed, a link changed.
\* (It may as well wait until the request was read, which looks at no path.)
Move ==
  /\ load < MaxOdd
  /\ r.pc \notin {"env", "argv", "script", "dead"}
  /\ \E path \in Paths, dir \in Dirs \cup {Gone} :
       dir # at[path] /\ at' = [at EXCEPT ![path] = dir]
  /\ load' = load + 1
  /\ req' = [req EXCEPT !.moved = r.pc # "idle"]
  /\ UNCHANGED <<b, r, blind>>

\* Another backend takes the place of one that exited.
Restart ==
  /\ r.pc = "dead"
  /\ \E dir \in Dirs : b' = NewBackend(dir)
  /\ r' = Idle /\ req' = NoRequest /\ blind' = FALSE
  /\ UNCHANGED <<at, load>>

onerun ==
  \/ ReadEnv \/ ReadArgv \/ ReadScript
  \/ GotoScript \/ TryQuick \/ TryLast \/ TryHash \/ AskFrontend \/ GotoAnswer
  \/ RunEnds

Next ==
  \/ FrontendSends \/ FrontendDies \/ onerun
  \/ ScriptChdirs \/ ScriptMeddles \/ Move \/ Restart

Spec == Init /\ [][Next]_vars
-----------------------------------------------------------------------------
(* Correctness                                                             *)

\* Type invariant.
TypeOK ==
  /\ b \in Backends
  /\ at \in [Paths -> Dirs \cup {Gone}]
  /\ r.pc \in {"idle", "env", "argv", "script", "inscript", "quick", "last", "hash", "ask",
               "answer", "run", "dead"}
  /\ r.cwd \in Ids \cup {Nil} /\ blind \in BOOLEAN

\* Every structure the hash, a script or onerun points to is in memory, and
\* is under its own path, or its own device and inode, in the hash; it is
\* counted once for every script that was in it last, and freed with the last
\* one.  (cwd_new, store_last_cwd, cwd_refcnt_dec)
NoDangling ==
  /\ \A k \in DOMAIN b.hash : b.hash[k] # Nil =>
       b.hash[k] \in DOMAIN b.mem /\ k \in {b.mem[b.hash[k]].path, b.mem[b.hash[k]].devino}
  /\ r.cwd # Nil => r.cwd \in DOMAIN b.mem
  /\ \A s \in Scripts : b.last[s] # Nil => b.last[s] \in DOMAIN b.mem
  /\ r.pc # "dead" => \A id \in DOMAIN b.mem :
       b.mem[id].refcnt = Cardinality({s \in Scripts : b.last[s] = id}) /\ b.mem[id].refcnt > 0

\* What the backend remembers of paths is still so.
Trustworthy == \A id \in DOMAIN b.mem : at[b.mem[id].path] = b.mem[id].devino

\* The directory of the request can be gone to, and has a path the frontend
\* can tell.
Reachable == Enterable(req.dir) /\ \E path \in Paths : at[path] = req.dir

\* The script runs in the directory of its frontend, or in its own under
\* Apache, wherever the script or others that ran before it have taken the
\* backend and whatever became of its descriptor: as long as the paths it
\* remembers still lead to the directories they led to, and all directories
\* it met were readable.  (quick_cd, chdir_path, onerun)
RightDirectory ==
  r.pc = "run" /\ ~req.cut /\ ~req.moved /\ ~blind /\ Trustworthy /\ Reachable => b.cwd = req.dir

\* The script gets the environment, of two values for a key the later, the
\* arguments that are not empty, in their order, and it is the script that was
\* asked for; nothing was written past the end of the buffer.
\* (speedy_frontend_mkenv, get_string, onerun)
RequestArrives ==
  r.pc \in {"inscript", "quick", "last", "hash", "ask", "answer", "run"} /\ ~req.cut =>
    /\ r.argv = NonEmpty(Payloads[req.payload].argv)
    /\ r.env = EnvOf(Payloads[req.payload].env)
    /\ r.script = req.script /\ req.fits

\* A script never runs with a part of a request whose frontend died: only the
\* device and inode of the directory, the last thing in it, may be missing.
\* (get_string, do_proto2)
NeverRunsPart ==
  r.pc = "run" /\ req.cut =>
    /\ r.argv = NonEmpty(Payloads[req.payload].argv)
    /\ r.env = EnvOf(Payloads[req.payload].env)
    /\ r.script = req.script
=============================================================================
