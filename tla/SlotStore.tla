------------------------------ MODULE SlotStore -----------------------------
(***************************************************************************)
(* What the temp file promises to the frontends and backends that keep     *)
(* their slots in it.  A file starts whole.  One process at a time takes   *)
(* it, changes it and puts it back whole.  If the process that has it dies *)
(* the file is dead.  A file, whole or dead, is forgotten with its name    *)
(* and its last holder; until then a dead file stays dead, whatever the    *)
(* processes that still have it open or have slot numbers from it do.      *)
(***************************************************************************)
CONSTANTS Procs, Files, NoProc

VARIABLES
  phase,    \* phase of each file
  user,     \* who has taken it
  holders   \* who has it open or has slot numbers from it

vars == <<phase, user, holders>>

Phases == {"none", "whole", "busy", "dead"}

TypeOK ==
  /\ phase \in [Files -> Phases]
  /\ user \in [Files -> Procs \cup {NoProc}]
  /\ holders \in [Files -> SUBSET Procs]

Init ==
  /\ phase = [f \in Files |-> "none"]
  /\ user = [f \in Files |-> NoProc]
  /\ holders = [f \in Files |-> {}]

Create(f) ==
  /\ phase[f] = "none"
  /\ phase'[f] = "whole"
  /\ user'[f] = NoProc

Take(f) ==
  /\ phase[f] = "whole"
  /\ phase'[f] = "busy"
  /\ user'[f] \in holders[f]

PutBack(f) ==
  /\ phase[f] = "busy"
  /\ phase'[f] = "whole"
  /\ user'[f] = NoProc

\* The user dies, or removes the file.
Abandon(f) ==
  /\ phase[f] = "busy"
  /\ phase'[f] = "dead"
  /\ user'[f] = NoProc

\* A process whose slots are from another file retires this one.
Retire(f) ==
  /\ phase[f] = "whole"
  /\ phase'[f] = "dead"
  /\ user'[f] = NoProc

Forget(f) ==
  /\ phase[f] # "none"
  /\ holders'[f] = {}
  /\ phase'[f] = "none"
  /\ user'[f] = NoProc

\* Processes open and close the file, gain and lose slots.
Attend(f) ==
  /\ phase'[f] = phase[f]
  /\ user'[f] = user[f]

Next ==
  /\ phase' \in [Files -> Phases]
  /\ user' \in [Files -> Procs \cup {NoProc}]
  /\ holders' \in [Files -> SUBSET Procs]
  /\ \A f \in Files :
       \/ Create(f) \/ Take(f) \/ PutBack(f) \/ Abandon(f)
       \/ Retire(f) \/ Forget(f) \/ Attend(f)

Spec == Init /\ [][Next]_vars
=============================================================================
