--------------------------- MODULE DispatchProofs ---------------------------
(***************************************************************************)
(* The safety properties of Dispatch, for all sets of processes and groups *)
(* and all options.                                                        *)
(*                                                                         *)
(* The inductive invariant IInv is ProcsType, what the processes may be    *)
(* at, with Sound, that the file fits them: FileInv on lists and slots,    *)
(* StartInv on what is started, and by whom.  Both speak of a file s and   *)
(* of what the processes are at: P is pc, M is mem and C is conn, or       *)
(* what they will be after the step, since a section under the lock is     *)
(* proved function by function: each takes a file that fits the processes  *)
(* to another one.  A conjunct takes the fields it is about, so it is      *)
(* plain which functions can disturb it.                                   *)
(*                                                                         *)
(* Lists are reasoned about by their members and by who stands in front of *)
(* whom (InOrder), never by positions.                                     *)
(***************************************************************************)
EXTENDS Dispatch, Induction, FiniteSetTheorems, TLAPS

-----------------------------------------------------------------------------
(* The invariant                                                           *)

\* x stands in front of y.
InOrder(list, x, y) ==
  \E i, j \in DOMAIN list : i < j /\ list[i] = x /\ list[j] = y

\* Frontends that are no more, and those with a backend.
Gone   == {"none", "failed"}
Active == {"connected", "running"}

Files ==
  [ glist : Seq(Groups), run : Seq(Frontends), version : [Groups -> Nat],
    starting : [Groups -> Backends \cup Parents \cup {Nil}],
    parent : [Groups -> Parents \cup {Nil}],
    bes : [Groups -> Seq(Backends)], fes : [Groups -> Seq(Frontends)],
    fe_running : [Backends -> Frontends \cup Backends \cup {Nil}],
    maturity : [Backends -> Nat], backend : [Frontends -> Backends \cup {Nil}],
    status : [Frontends -> {"none", "script", "exited", "killed"}],
    sent_sig : [Frontends -> BOOLEAN],
    sigs : [Pids -> SUBSET {"CHLD", "USR1", "TERM", "KILL"}] ]

\* A backend that does not serve names itself, or nobody when it waits.
SelfOK(fe_running) == \A b \in Backends : fe_running[b] \in Frontends \cup {b, Nil}

\* Nothing is twice in a list,
OnceOK(glist, run, bes, fes) ==
  /\ IsInjective(glist) /\ IsInjective(run)
  /\ \A g \in Groups : IsInjective(bes[g]) /\ IsInjective(fes[g])

\* nor in two.
ApartOK(run, bes, fes) ==
  /\ \A g, h \in Groups : g # h =>
       Range(bes[g]) \cap Range(bes[h]) = {} /\ Range(fes[g]) \cap Range(fes[h]) = {}
  /\ \A g \in Groups : Range(fes[g]) \cap Range(run) = {}

\* A group slot that is free has been wiped.
FreeOK(glist, version, starting, parent, bes, fes) ==
  \A g \in Groups \ Range(glist) :
    /\ version[g] = 0 /\ starting[g] = Nil /\ parent[g] = Nil
    /\ bes[g] = <<>> /\ fes[g] = <<>>

\* Only the head of the list can be valid.
ValidOK(glist, version) ==
  \A g, h \in Groups : InOrder(glist, g, h) => version[h] = 0

\* Who is in which list: the living are where SlotsOwned has them, and with
\* them only those who are gone.
BackendsOwn(bes, P, M) ==
  \A b \in Backends : P[b] \notin Defunct \cup {"none"} =>
    M[b].group \in Groups /\ b \in Range(bes[M[b].group])

QueueOwn(fes, P, M) ==
  \A c \in Frontends :
    /\ P[c] \in Waiting => M[c].group \in Groups /\ c \in Range(fes[M[c].group])
    /\ \A g \in Groups : c \in Range(fes[g]) => P[c] \in Waiting \cup Gone

RunOwn(run, backend, P) ==
  \A c \in Frontends :
    /\ P[c] \in Active => c \in Range(run)
    /\ c \in Range(run) => P[c] \in Active \cup Gone
    /\ c \notin Range(run) => backend[c] = Nil

ParentsOwn(parent, sigs, P, M) ==
  \A m \in Parents : P[m] \in {"wait", "serve"} /\ "KILL" \notin sigs[m] =>
    M[m].group \in Groups /\ parent[M[m].group] = m

\* A backend and its frontend name each other.
PairOK(run, fe_running, backend) ==
  /\ \A c \in Frontends : backend[c] # Nil => fe_running[backend[c]] = c
  /\ \A b \in Backends : fe_running[b] \in Frontends =>
       fe_running[b] \in Range(run) /\ backend[fe_running[b]] = b

\* At most one frontend is connected, and only to a backend that was taken.
ConnOK(fe_running, P, C) ==
  \A b \in Backends :
    /\ C[b] \in Seq(Frontends) /\ Len(C[b]) <= 1
    /\ fe_running[b] = Nil \/ P[b] \in {"none", "born"} \cup Defunct => C[b] = <<>>
    /\ P[b] \in {"accepted", "perl"} => C[b] # <<>>
    /\ P[b] = "born" => fe_running[b] = b

\* A frontend with a backend is connected to it, until that one's status comes.
StatusOK(backend, P, C) ==
  \A c \in Frontends : P[c] \in Active /\ backend[c] # Nil =>
    P[backend[c]] \in {"none", "leaving"} \cup Defunct \/ c \in Range(C[backend[c]])

\* The waiting backends are in front, the more mature first.
WaitingOK(bes, fe_running, maturity, L) ==
  \A g \in Groups : \A x, y \in Backends :
    InOrder(bes[g], x, y) /\ fe_running[y] = Nil /\ y \notin L =>
      fe_running[x] = Nil /\ maturity[x] >= maturity[y]

\* Who was told of a backend is in a queue, with nobody in front of it; but for
\* one that, in the middle of a section, is on its way out ("leaving").
ToldOK(fes, sent_sig, P) ==
  \A c \in Frontends : sent_sig[c] /\ P[c] # "leaving" =>
    \E g \in Groups :
      /\ c \in Range(fes[g])
      /\ P[c] \notin Gone => \A d \in Frontends : ~InOrder(fes[g], d, c)

\* The parent of a group, while it starts up, is who is to start a backend: so
\* speedy_group_start_be leaves it alone.
StartsUpOK(starting, parent, P) ==
  \A g \in Groups : parent[g] \in Parents /\ P[parent[g]] \in Starting => starting[g] = parent[g]

QuietOK(sigs, P) ==
  \A m \in Parents :
    /\ "TERM" \notin sigs[m]
    /\ P[m] \in Starting \cup {"none"} => "USR1" \notin sigs[m]

FileRest(s, P, M, C) ==
  /\ s \in Files
  /\ SelfOK(s.fe_running)
  /\ OnceOK(s.glist, s.run, s.bes, s.fes)
  /\ ApartOK(s.run, s.bes, s.fes)
  /\ FreeOK(s.glist, s.version, s.starting, s.parent, s.bes, s.fes)
  /\ ValidOK(s.glist, s.version)
  /\ BackendsOwn(s.bes, P, M)
  /\ QueueOwn(s.fes, P, M)
  /\ RunOwn(s.run, s.backend, P)
  /\ ParentsOwn(s.parent, s.sigs, P, M)
  /\ PairOK(s.run, s.fe_running, s.backend)
  /\ ConnOK(s.fe_running, P, C)
  /\ StatusOK(s.backend, P, C)
  /\ ToldOK(s.fes, s.sent_sig, P)
  /\ StartsUpOK(s.starting, s.parent, P)
  /\ QuietOK(s.sigs, P)

\* L: a backend that has been taken, and still looks as if it waits.
FileInv(s, L, P, M, C) ==
  FileRest(s, P, M, C) /\ WaitingOK(s.bes, s.fe_running, s.maturity, L)

MemType ==
  [group : Groups \cup {Nil}, version : 0 .. MaxEdits + 1, code : 0 .. MaxEdits + 1,
   did_spawn : BOOLEAN, numrun : Nat, got : SUBSET {"CHLD", "USR1", "ALRM"}, alarm : BOOLEAN]

ProcsType ==
  /\ script \in 1 .. MaxEdits + 1
  /\ left \in [edits : Nat, faults : Nat, timeouts : Nat, idles : Nat]
  /\ script + left.edits <= MaxEdits + 1
  /\ DOMAIN pc = Pids
  /\ \A c \in Frontends : pc[c] \in FrontendPCs
  /\ \A b \in Backends : pc[b] \in BackendPCs
  /\ \A m \in Parents : pc[m] \in ParentPCs
  /\ mem \in [Pids -> MemType]
  /\ \A m \in Parents : pc[m] = "wait" => mem[m].got = {}
  /\ ppid \in [Backends -> Parents \cup {Nil}]
  /\ conn \in [Backends -> Seq(Frontends)]

-----------------------------------------------------------------------------
(* What is started, and by whom                                            *)

\* MaxBackends holds for the slots of a group.
FullOK(bes) ==
  \A g \in Groups : MaxBackends # 0 => Cardinality(Range(bes[g])) <= MaxBackends

\* A parent that is to start a backend is the group's.
NamedOK(starting, parent, P) ==
  \A g \in Groups : starting[g] \in Parents /\ P[starting[g]] # "none" =>
    parent[g] = starting[g]

\* A valid group's parent works for that group.
InstalledOK(version, parent, P, M) ==
  \A g \in Groups : version[g] # 0 /\ parent[g] \in Parents /\ P[parent[g]] \in {"wait", "serve"} =>
    M[parent[g]].group = g

\* A parent that is to start a backend starts up, or has been told to; and
\* there is room for the backend, so that it will not just wait on.
AskedOK(version, starting, bes, sigs, P, M) ==
  \A g \in Groups :
    LET p == starting[g]
    IN  version[g] # 0 /\ p \in Parents /\ P[p] # "none" /\ "KILL" \notin sigs[p] =>
          /\ P[p] \in Starting \/ "USR1" \in sigs[p] \cup M[p].got
          /\ MaxBackends = 0 \/ Cardinality(Range(bes[g])) < MaxBackends

\* A valid group that has no parent has no backends.
NewOK(version, parent, bes) ==
  \A g \in Groups : version[g] # 0 /\ parent[g] = Nil => bes[g] = <<>>

\* A backend named there has not offered itself yet, is on its way out, or has
\* been connected to: it will clear be_starting, or be found gone.
ComesOK(starting, bes, P, C) ==
  \A g \in Groups :
    LET b == starting[g]
    IN  b \in Backends =>
          /\ P[b] \in {"none", "born", "leaving"} \cup Defunct \/ C[b] # <<>>
          /\ P[b] \notin {"none"} \cup Defunct => b \in Range(bes[g])
          /\ P[b] # "perl"

StartInv(s, P, M, C) ==
  /\ FullOK(s.bes)
  /\ NamedOK(s.starting, s.parent, P)
  /\ InstalledOK(s.version, s.parent, P, M)
  /\ AskedOK(s.version, s.starting, s.bes, s.sigs, P, M)
  /\ NewOK(s.version, s.parent, s.bes)
  /\ ComesOK(s.starting, s.bes, P, C)

Sound(s, L, P, M, C) == FileInv(s, L, P, M, C) /\ StartInv(s, P, M, C)

\* The inductive invariant, between two sections under the lock.
IInv == ProcsType /\ Sound(file, {}, pc, mem, conn)

-----------------------------------------------------------------------------
(* Lists                                                                   *)

LEMMA ElementsOf ==
  ASSUME NEW S, NEW list \in Seq(S)
  PROVE  /\ DOMAIN list = 1 .. Len(list)
         /\ Len(list) \in Nat
         /\ Range(list) \subseteq S
         /\ \A i \in 1 .. Len(list) : list[i] \in S /\ list[i] \in Range(list)
         /\ \A x : x \in Range(list) => \E i \in 1 .. Len(list) : list[i] = x
         /\ \A x, y : InOrder(list, x, y) => x \in Range(list) /\ y \in Range(list)
         /\ list = <<>> <=> Range(list) = {}
BY DEF Range, InOrder

LEMMA OnceMeans ==
  ASSUME NEW S, NEW list \in Seq(S)
  PROVE  IsInjective(list) <=> \A x : ~InOrder(list, x, x)
<1>1. DOMAIN list \subseteq Nat
  OBVIOUS
<1>2. ASSUME NEW a \in DOMAIN list, NEW b \in DOMAIN list, list[a] = list[b], a # b,
             \A x : ~InOrder(list, x, x)
      PROVE  FALSE
  <2>1. a < b \/ b < a
    BY <1>1, <1>2
  <2>. QED
    BY <1>2, <2>1 DEF InOrder
<1>3. ASSUME IsInjective(list), NEW x, InOrder(list, x, x) PROVE FALSE
  <2>1. PICK i, j \in DOMAIN list : i < j /\ list[i] = x /\ list[j] = x
    BY <1>3 DEF InOrder
  <2>2. i = j
    BY <1>3, <2>1 DEF IsInjective
  <2>. QED
    BY <1>1, <2>1, <2>2
<1>. QED
  BY <1>2, <1>3 DEF IsInjective

LEMMA EmptyList == Range(<<>>) = {} /\ \A x, y : ~InOrder(<<>>, x, y)
BY DEF Range, InOrder

LEMMA OneElement ==
  ASSUME NEW e
  PROVE  Range(<<e>>) = {e} /\ \A x, y : ~InOrder(<<e>>, x, y)
BY DEF Range, InOrder

\* What stands in two lists put together.
LEMMA Joined ==
  ASSUME NEW S, NEW one \in Seq(S), NEW two \in Seq(S)
  PROVE  /\ one \o two \in Seq(S)
         /\ Range(one \o two) = Range(one) \cup Range(two)
         /\ \A x, y : InOrder(one \o two, x, y) <=>
              \/ InOrder(one, x, y) \/ InOrder(two, x, y)
              \/ x \in Range(one) /\ y \in Range(two)
<1> DEFINE k == Len(one)
           n == Len(two)
           l == one \o two
<1>1. k \in Nat /\ n \in Nat /\ l \in Seq(S) /\ Len(l) = k + n /\ DOMAIN l = 1 .. k + n
      /\ DOMAIN one = 1 .. k /\ DOMAIN two = 1 .. n
  OBVIOUS
<1>2. /\ \A i \in 1 .. k : l[i] = one[i]
      /\ \A i \in 1 .. n : l[k + i] = two[i]
      /\ \A i \in k + 1 .. k + n : l[i] = two[i - k]
  OBVIOUS
<1> HIDE DEF k, n, l
<1>3. Range(l) = Range(one) \cup Range(two)
  <2>1. ASSUME NEW x \in Range(l) PROVE x \in Range(one) \cup Range(two)
    <3>1. PICK i \in 1 .. k + n : l[i] = x
      BY <1>1 DEF Range
    <3>2. CASE i <= k
      <4>1. i \in 1 .. k
        BY <1>1, <3>2
      <4>. QED
        BY <1>1, <1>2, <3>1, <4>1 DEF Range
    <3>3. CASE ~(i <= k)
      <4>1. i \in k + 1 .. k + n /\ i - k \in 1 .. n
        BY <1>1, <3>3
      <4>. QED
        BY <1>1, <1>2, <3>1, <4>1 DEF Range
    <3>. QED
      BY <3>2, <3>3
  <2>2. ASSUME NEW x \in Range(one) PROVE x \in Range(l)
    <3>1. PICK i \in 1 .. k : one[i] = x
      BY <1>1 DEF Range
    <3>2. i \in 1 .. k + n
      BY <1>1
    <3>. QED
      BY <1>1, <1>2, <3>1, <3>2 DEF Range
  <2>3. ASSUME NEW x \in Range(two) PROVE x \in Range(l)
    <3>1. PICK i \in 1 .. n : two[i] = x
      BY <1>1 DEF Range
    <3>2. k + i \in 1 .. k + n
      BY <1>1
    <3>. QED
      BY <1>1, <1>2, <3>1, <3>2 DEF Range
  <2>. QED
    BY <2>1, <2>2, <2>3
<1>4. ASSUME NEW x, NEW y, InOrder(l, x, y)
      PROVE  \/ InOrder(one, x, y) \/ InOrder(two, x, y)
             \/ x \in Range(one) /\ y \in Range(two)
  <2>1. PICK i, j \in 1 .. k + n : i < j /\ l[i] = x /\ l[j] = y
    BY <1>1, <1>4 DEF InOrder
  <2>2. CASE j <= k
    <3>1. i \in 1 .. k /\ j \in 1 .. k
      BY <1>1, <2>1, <2>2
    <3>. QED
      BY <1>1, <1>2, <2>1, <3>1 DEF InOrder
  <2>3. CASE i <= k /\ ~(j <= k)
    <3>1. j \in k + 1 .. k + n /\ j - k \in 1 .. n /\ i \in 1 .. k
      BY <1>1, <2>1, <2>3
    <3>. QED
      BY <1>1, <1>2, <2>1, <3>1 DEF Range
  <2>4. CASE ~(i <= k)
    <3>1. /\ j \in k + 1 .. k + n /\ j - k \in 1 .. n
          /\ i \in k + 1 .. k + n /\ i - k \in 1 .. n /\ i - k < j - k
      BY <1>1, <2>1, <2>4
    <3>. QED
      BY <1>1, <1>2, <2>1, <3>1 DEF InOrder
  <2>. QED
    BY <2>2, <2>3, <2>4
<1>5. ASSUME NEW x, NEW y, InOrder(one, x, y) PROVE InOrder(l, x, y)
  <2>1. PICK i, j \in 1 .. k : i < j /\ one[i] = x /\ one[j] = y
    BY <1>1, <1>5 DEF InOrder
  <2>2. i \in 1 .. k + n /\ j \in 1 .. k + n
    BY <1>1
  <2>. QED
    BY <1>1, <1>2, <2>1, <2>2 DEF InOrder
<1>6. ASSUME NEW x, NEW y, InOrder(two, x, y) PROVE InOrder(l, x, y)
  <2>1. PICK i, j \in 1 .. n : i < j /\ two[i] = x /\ two[j] = y
    BY <1>1, <1>6 DEF InOrder
  <2>2. k + i \in 1 .. k + n /\ k + j \in 1 .. k + n /\ k + i < k + j
    BY <1>1, <2>1
  <2>. QED
    BY <1>1, <1>2, <2>1, <2>2 DEF InOrder
<1>7. ASSUME NEW x \in Range(one), NEW y \in Range(two) PROVE InOrder(l, x, y)
  <2>1. PICK i \in 1 .. k : one[i] = x
    BY <1>1 DEF Range
  <2>2. PICK j \in 1 .. n : two[j] = y
    BY <1>1 DEF Range
  <2>3. i \in 1 .. k + n /\ k + j \in 1 .. k + n /\ i < k + j
    BY <1>1, <2>1, <2>2
  <2>. QED
    BY <1>1, <1>2, <2>1, <2>2, <2>3 DEF InOrder
<1>. QED
  BY <1>1, <1>3, <1>4, <1>5, <1>6, <1>7 DEF l

LEMMA Appended ==
  ASSUME NEW S, NEW list \in Seq(S), NEW e \in S
  PROVE  /\ Append(list, e) \in Seq(S)
         /\ Range(Append(list, e)) = Range(list) \cup {e}
         /\ \A x, y : InOrder(Append(list, e), x, y) <=>
              InOrder(list, x, y) \/ (x \in Range(list) /\ y = e)
<1>1. Append(list, e) = list \o <<e>> /\ <<e>> \in Seq(S)
  OBVIOUS
<1>2. PICK two \in Seq(S) : two = <<e>>
  BY <1>1
<1>3. Range(two) = {e} /\ \A x, y : ~InOrder(two, x, y)
  BY <1>2, OneElement
<1>4. PICK both : both = list \o two
  OBVIOUS
<1>5. /\ both \in Seq(S)
      /\ Range(both) = Range(list) \cup Range(two)
      /\ \A x, y : InOrder(both, x, y) <=>
           \/ InOrder(list, x, y) \/ InOrder(two, x, y)
           \/ x \in Range(list) /\ y \in Range(two)
  BY <1>2, <1>4, Joined
<1>6. both = Append(list, e)
  BY <1>1, <1>2, <1>4
<1>. QED
  BY <1>3, <1>5, <1>6

\* The loop of Without, as a function: it is there, and each turn is what the
\* definition says.
TurnByTurn(F, list, D) ==
  /\ F[0] = <<>>
  /\ \A i \in 1 .. Len(list) :
       F[i] = IF list[i] \in D THEN F[i - 1] ELSE Append(F[i - 1], list[i])
  /\ Without(list, D) = F[Len(list)]

LEMMA WithoutLoop ==
  ASSUME NEW S, NEW list \in Seq(S), NEW D
  PROVE  \E F \in [0 .. Len(list) -> Seq(S)] : TurnByTurn(F, list, D)
<1> DEFINE n == Len(list)
           Turn(t, i) == IF list[i] \in D THEN t ELSE Append(t, list[i])
           OK(F, k) == F[0] = <<>> /\ \A i \in 1 .. k : F[i] = Turn(F[i - 1], i)
           T == {k \in Nat : k <= n => \E F \in [0 .. k -> Seq(S)] : OK(F, k)}
<1>1. n \in Nat /\ \A i \in 1 .. n : list[i] \in S
  OBVIOUS
<1>2. \A t \in Seq(S) : \A i \in 1 .. n : Turn(t, i) \in Seq(S)
  BY <1>1
<1> HIDE DEF n, Turn
<1>3. 0 \in T
  <2>1. PICK F : F = [i \in 0 .. 0 |-> <<>>]
    OBVIOUS
  <2>2. F \in [0 .. 0 -> Seq(S)] /\ OK(F, 0)
    BY <2>1
  <2>. QED
    BY <2>2
<1>4. ASSUME NEW k \in Nat, k \in T PROVE k + 1 \in T
  <2>1. SUFFICES ASSUME k + 1 <= n PROVE \E F \in [0 .. k + 1 -> Seq(S)] : OK(F, k + 1)
    <3> HIDE DEF OK
    <3>. QED
      OBVIOUS
  <2>2. PICK F \in [0 .. k -> Seq(S)] : OK(F, k)
    <3> HIDE DEF OK
    <3>. QED
      BY <1>1, <1>4, <2>1
  <2>3. PICK e \in Seq(S) : e = Turn(F[k], k + 1)
    BY <1>1, <1>2, <2>1
  <2>4. PICK H : H = [i \in 0 .. k + 1 |-> IF i = k + 1 THEN e ELSE F[i]]
    OBVIOUS
  <2>5. H \in [0 .. k + 1 -> Seq(S)]
    BY <2>4
  <2>6. H[0] = <<>> /\ H[k + 1] = e /\ \A i \in 0 .. k : H[i] = F[i]
    BY <2>2, <2>4
  <2>7. ASSUME NEW i \in 1 .. k + 1 PROVE H[i] = Turn(H[i - 1], i)
    <3>1. CASE i = k + 1
      BY <2>3, <2>6, <3>1
    <3>2. CASE i # k + 1
      <4>1. i \in 1 .. k /\ i \in 0 .. k /\ i - 1 \in 0 .. k
        BY <3>2
      <4>. QED
        BY <2>2, <2>6, <4>1
    <3>. QED
      BY <3>1, <3>2
  <2>. QED
    BY <2>5, <2>6, <2>7
<1>5. n \in T
  <2> HIDE DEF T
  <2>. QED
    BY <1>1, <1>3, <1>4, NatInd
<1>6. PICK F \in [0 .. n -> Seq(S)] : OK(F, n)
  <2> HIDE DEF OK
  <2>. QED
    BY <1>1, <1>5
<1> DEFINE Def(H) == [i \in 0 .. Len(list) |->
                        IF i = 0 THEN <<>>
                        ELSE IF list[i] \in D THEN H[i - 1] ELSE Append(H[i - 1], list[i])]
           W == CHOOSE H : H = Def(H)
<1>7. F = Def(F)
  <2>1. \A i \in 0 .. n : i = 0 \/ i \in 1 .. n
    BY <1>1
  <2>2. \A i \in 0 .. n : F[i] = IF i = 0 THEN <<>> ELSE Turn(F[i - 1], i)
    BY <1>6, <2>1
  <2>3. F = [i \in 0 .. n |-> IF i = 0 THEN <<>> ELSE Turn(F[i - 1], i)]
    BY <2>2
  <2>. QED
    BY <2>3 DEF n, Turn
<1>8. W = Def(W)
  <2> HIDE DEF Def
  <2>. QED
    BY <1>7
<1>9. Without(list, D) = W[n]
  BY DEF Without, n
<1> HIDE DEF W
<1> DEFINE U == {k \in Nat : k <= n => W[k] = F[k]}
<1>10. 0 \in U
  BY <1>1, <1>6, <1>8 DEF n
<1>11. ASSUME NEW k \in Nat, k \in U PROVE k + 1 \in U
  <2>1. SUFFICES ASSUME k + 1 <= n PROVE W[k + 1] = F[k + 1]
    OBVIOUS
  <2>2. W[k] = F[k] /\ k + 1 \in 1 .. n /\ (k + 1) - 1 = k
    BY <1>1, <1>11, <2>1
  <2>3. F[k + 1] = Turn(F[k], k + 1)
    BY <1>6, <2>2
  <2>4. W[k + 1] = Turn(W[k], k + 1)
    <3>1. k + 1 \in 0 .. Len(list) /\ k + 1 # 0
      BY <2>2 DEF n
    <3>2. W[k + 1] = IF list[k + 1] \in D THEN W[k] ELSE Append(W[k], list[k + 1])
      BY <1>8, <2>2, <3>1
    <3>. QED
      BY <3>2 DEF Turn
  <2>. QED
    BY <2>2, <2>3, <2>4
<1>12. n \in U
  <2> HIDE DEF U
  <2>. QED
    BY <1>1, <1>10, <1>11, NatInd
<1>13. W[n] = F[n]
  BY <1>1, <1>12
<1>14. TurnByTurn(F, list, D)
  BY <1>6, <1>9, <1>13 DEF n, Turn, TurnByTurn
<1>. QED
  BY <1>14 DEF n

\* What is left in a list, and in what order.
LEMMA WithoutIs ==
  ASSUME NEW S, NEW list \in Seq(S), NEW D
  PROVE  /\ Without(list, D) \in Seq(S)
         /\ Range(Without(list, D)) = Range(list) \ D
         /\ \A x, y : InOrder(Without(list, D), x, y) <=>
              InOrder(list, x, y) /\ x \notin D /\ y \notin D
<1> DEFINE n == Len(list)
           Members(t, k) == \A x : x \in Range(t) <=> x \notin D /\ \E i \in 1 .. k : list[i] = x
           Order(t, k) == \A x, y : InOrder(t, x, y) <=>
                            /\ x \notin D /\ y \notin D
                            /\ \E i, j \in 1 .. k : i < j /\ list[i] = x /\ list[j] = y
<1>1. n \in Nat /\ DOMAIN list = 1 .. n /\ \A i \in 1 .. n : list[i] \in S
  OBVIOUS
<1>2. PICK F \in [0 .. n -> Seq(S)] : TurnByTurn(F, list, D)
  BY WithoutLoop
<1>3. /\ F[0] = <<>>
      /\ \A i \in 1 .. n : F[i] = IF list[i] \in D THEN F[i - 1] ELSE Append(F[i - 1], list[i])
      /\ Without(list, D) = F[n]
  BY <1>2 DEF n, TurnByTurn
<1> HIDE DEF n
<1> DEFINE T == {k \in Nat : k <= n => Members(F[k], k) /\ Order(F[k], k)}
<1>4. 0 \in T
  BY <1>1, <1>3, EmptyList
<1>5. ASSUME NEW k \in Nat, k \in T PROVE k + 1 \in T
  <2>1. SUFFICES ASSUME k + 1 <= n PROVE Members(F[k + 1], k + 1) /\ Order(F[k + 1], k + 1)
    OBVIOUS
  <2>2. PICK t \in Seq(S) : t = F[k]
    BY <1>1, <1>2, <2>1
  <2>3. PICK e \in S : e = list[k + 1]
    BY <1>1, <2>1
  <2>4. Members(t, k) /\ Order(t, k)
    BY <1>1, <1>5, <2>1, <2>2
  <2>5. F[k + 1] = IF e \in D THEN t ELSE Append(t, e)
    <3>1. k + 1 \in 1 .. n /\ (k + 1) - 1 = k
      BY <1>1, <2>1
    <3>. QED
      BY <1>3, <2>2, <2>3, <3>1
  <2>6. \A i \in 1 .. k + 1 : i \in 1 .. k \/ i = k + 1
    OBVIOUS
  <2>7. \A i \in 1 .. k : i \in 1 .. k + 1 /\ i < k + 1 /\ k + 1 \in 1 .. k + 1
    OBVIOUS
  <2>8. CASE e \in D
    <3>1. F[k + 1] = t
      BY <2>5, <2>8
    <3>2. Members(t, k + 1)
      BY <2>3, <2>4, <2>6, <2>7, <2>8
    <3>3. ASSUME NEW x, NEW y, x \notin D, y \notin D
          PROVE  (\E i, j \in 1 .. k + 1 : i < j /\ list[i] = x /\ list[j] = y)
                   <=> (\E i, j \in 1 .. k : i < j /\ list[i] = x /\ list[j] = y)
      BY <2>3, <2>6, <2>7, <2>8, <3>3
    <3>4. Order(t, k + 1)
      BY <2>4, <3>3
    <3>. QED
      BY <3>1, <3>2, <3>4
  <2>9. CASE e \notin D
    <3>1. PICK u : u = Append(t, e)
      OBVIOUS
    <3>2. F[k + 1] = u
      BY <2>5, <2>9, <3>1
    <3>3. /\ Range(u) = Range(t) \cup {e}
          /\ \A x, y : InOrder(u, x, y) <=> InOrder(t, x, y) \/ (x \in Range(t) /\ y = e)
      BY <3>1, Appended
    <3>4. Members(u, k + 1)
      BY <2>3, <2>4, <2>6, <2>7, <2>9, <3>3
    <3>5. ASSUME NEW x, NEW y
          PROVE  (\E i, j \in 1 .. k + 1 : i < j /\ list[i] = x /\ list[j] = y)
                   <=> \/ \E i, j \in 1 .. k : i < j /\ list[i] = x /\ list[j] = y
                       \/ y = e /\ \E i \in 1 .. k : list[i] = x
      <4>1. ASSUME NEW i \in 1 .. k + 1, NEW j \in 1 .. k + 1, i < j, list[i] = x, list[j] = y
            PROVE  \/ \E i1, j1 \in 1 .. k : i1 < j1 /\ list[i1] = x /\ list[j1] = y
                   \/ y = e /\ \E i1 \in 1 .. k : list[i1] = x
        <5>1. i \in 1 .. k
          BY <4>1
        <5>2. j \in 1 .. k \/ j = k + 1
          BY <4>1
        <5>. QED
          BY <2>3, <4>1, <5>1, <5>2
      <4>2. ASSUME NEW i \in 1 .. k, NEW j \in 1 .. k, i < j, list[i] = x, list[j] = y
            PROVE  \E i1, j1 \in 1 .. k + 1 : i1 < j1 /\ list[i1] = x /\ list[j1] = y
        BY <2>7, <4>2
      <4>3. ASSUME y = e, NEW i \in 1 .. k, list[i] = x
            PROVE  \E i1, j1 \in 1 .. k + 1 : i1 < j1 /\ list[i1] = x /\ list[j1] = y
        BY <2>3, <2>7, <4>3
      <4> DEFINE A == \E i, j \in 1 .. k + 1 : i < j /\ list[i] = x /\ list[j] = y
                 B == \E i, j \in 1 .. k : i < j /\ list[i] = x /\ list[j] = y
                 C == \E i \in 1 .. k : list[i] = x
      <4>4. A => B \/ (y = e /\ C)
        BY <4>1, Zenon
      <4>5. B => A
        BY <4>2, Zenon
      <4>6. y = e /\ C => A
        BY <4>3, Zenon
      <4>. QED
        BY <4>4, <4>5, <4>6
    <3>6. Order(u, k + 1)
      <4>1. SUFFICES ASSUME NEW x, NEW y
                     PROVE  InOrder(u, x, y) <=>
                            /\ x \notin D /\ y \notin D
                            /\ \E i, j \in 1 .. k + 1 : i < j /\ list[i] = x /\ list[j] = y
        BY Zenon
      <4> DEFINE B == \E i, j \in 1 .. k : i < j /\ list[i] = x /\ list[j] = y
                 C == \E i \in 1 .. k : list[i] = x
      <4>2. InOrder(t, x, y) <=> x \notin D /\ y \notin D /\ B
        BY <2>4
      <4>3. x \in Range(t) <=> x \notin D /\ C
        BY <2>4, Zenon
      <4> HIDE DEF B, C
      <4>4. InOrder(u, x, y) <=> x \notin D /\ y \notin D /\ (B \/ (y = e /\ C))
        BY <2>9, <3>3, <4>2, <4>3
      <4>. QED
        BY <3>5, <4>4, Zenon DEF B, C
    <3>. QED
      BY <3>2, <3>4, <3>6
  <2>. QED
    BY <2>8, <2>9
<1>6. n \in T
  <2> HIDE DEF T
  <2>. QED
    BY <1>1, <1>4, <1>5, NatInd
<1>7. PICK w : w = Without(list, D)
  OBVIOUS
<1>8. Members(w, n) /\ Order(w, n) /\ w \in Seq(S)
  <2> HIDE DEF Members, Order
  <2>. QED
    BY <1>1, <1>3, <1>6, <1>7
<1>9. Range(w) = Range(list) \ D
  <2>1. \A x : x \in Range(list) <=> \E i \in 1 .. n : list[i] = x
    BY <1>1 DEF Range
  <2>. QED
    BY <1>8, <2>1
<1>10. \A x, y : InOrder(w, x, y) <=> InOrder(list, x, y) /\ x \notin D /\ y \notin D
  <2>1. SUFFICES ASSUME NEW x, NEW y
                 PROVE  InOrder(w, x, y) <=> InOrder(list, x, y) /\ x \notin D /\ y \notin D
    BY Zenon
  <2>2. InOrder(list, x, y) <=> \E i, j \in 1 .. n : i < j /\ list[i] = x /\ list[j] = y
    BY <1>1, Zenon DEF InOrder
  <2>. QED
    BY <1>8, <2>2
<1>. QED
  BY <1>7, <1>8, <1>9, <1>10

LEMMA HeadIs ==
  ASSUME NEW S, NEW list \in Seq(S), list # <<>>
  PROVE  /\ Head(list) \in S /\ Head(list) \in Range(list)
         /\ \A x \in Range(list) : x = Head(list) \/ InOrder(list, Head(list), x)
         /\ IsInjective(list) => \A x : ~InOrder(list, x, Head(list))
<1> DEFINE h == Head(list)
<1>1. h = list[1] /\ 1 \in DOMAIN list /\ DOMAIN list \subseteq Nat /\ h \in S
      /\ \A i \in DOMAIN list : i = 1 \/ 1 < i
  OBVIOUS
<1> HIDE DEF h
<1>2. h \in Range(list)
  BY <1>1 DEF Range
<1>3. \A x \in Range(list) : x = h \/ InOrder(list, h, x)
  BY <1>1 DEF Range, InOrder
<1>4. ASSUME IsInjective(list), NEW x, InOrder(list, x, h) PROVE FALSE
  <2>1. PICK i, j \in DOMAIN list : i < j /\ list[i] = x /\ list[j] = h
    BY <1>4 DEF InOrder
  <2>2. j = 1
    BY <1>1, <1>4, <2>1 DEF IsInjective
  <2>. QED
    BY <1>1, <2>1, <2>2
<1>. QED
  BY <1>1, <1>2, <1>3, <1>4 DEF h

LEMMA FirstIsHead ==
  ASSUME NEW S, NEW list \in Seq(S), NEW x \in Range(list),
         \A y \in S : ~InOrder(list, y, x)
  PROVE  list # <<>> /\ Head(list) = x
<1>1. list # <<>>
  BY EmptyList
<1>. QED
  BY <1>1, HeadIs

LEMMA HeadToTail ==
  ASSUME NEW S, NEW list \in Seq(S), list # <<>>, IsInjective(list)
  PROVE  /\ Append(Tail(list), Head(list)) \in Seq(S)
         /\ Range(Append(Tail(list), Head(list))) = Range(list)
         /\ \A x, y : InOrder(Append(Tail(list), Head(list)), x, y) <=>
              \/ InOrder(list, x, y) /\ x # Head(list)
              \/ x \in Range(list) \ {Head(list)} /\ y = Head(list)
<1>1. PICK h \in S : h = Head(list)
  OBVIOUS
<1>2. PICK t \in Seq(S) : t = Tail(list)
  <2>1. Tail(list) \in Seq(S)
    OBVIOUS
  <2>. QED
    BY <2>1, Zenon
<1>3. PICK o \in Seq(S) : o = <<h>>
  <2>1. <<h>> \in Seq(S)
    OBVIOUS
  <2>. QED
    BY <2>1, Zenon
<1>4. o \o t = list
  <2>1. <<Head(list)>> \o Tail(list) = list
    OBVIOUS
  <2>. QED
    BY <1>1, <1>2, <1>3, <2>1
<1>5. Range(o) = {h} /\ \A x, y : ~InOrder(o, x, y)
  BY <1>3, OneElement
<1>6. /\ Range(list) = Range(o) \cup Range(t)
      /\ \A x, y : InOrder(list, x, y) <=>
           \/ InOrder(o, x, y) \/ InOrder(t, x, y)
           \/ x \in Range(o) /\ y \in Range(t)
  BY <1>4, Joined
<1>7. \A x : ~InOrder(list, x, x)
  BY OnceMeans
<1>8. h \notin Range(t)
  BY <1>5, <1>6, <1>7
<1>9. \A x, y : InOrder(t, x, y) => x \in Range(t)
  BY ElementsOf
<1>10. \A x, y : InOrder(t, x, y) <=> InOrder(list, x, y) /\ x # h
  BY <1>5, <1>6, <1>8, <1>9
<1>11. PICK l : l = Append(t, h)
  OBVIOUS
<1>12. /\ l \in Seq(S) /\ Range(l) = Range(t) \cup {h}
       /\ \A x, y : InOrder(l, x, y) <=> InOrder(t, x, y) \/ (x \in Range(t) /\ y = h)
  BY <1>11, Appended
<1>13. Range(l) = Range(list) /\ Range(t) = Range(list) \ {h}
  BY <1>5, <1>6, <1>8, <1>12
<1>. QED
  BY <1>1, <1>2, <1>10, <1>11, <1>12, <1>13

LEMMA CountIs ==
  ASSUME NEW S, NEW list \in Seq(S), IsInjective(list)
  PROVE  IsFiniteSet(Range(list)) /\ Cardinality(Range(list)) = Len(list)
<1>1. /\ IsFiniteSet(1 .. Len(list)) /\ Cardinality(1 .. Len(list)) = Len(list)
  <2>1. Len(list) \in Nat
    OBVIOUS
  <2>. QED
    BY <2>1, FS_Interval
<1>2. list \in Bijection(1 .. Len(list), Range(list))
  <2>1. list \in [1 .. Len(list) -> Range(list)] /\ DOMAIN list = 1 .. Len(list)
    BY DEF Range
  <2>2. \A y \in Range(list) : \E i \in 1 .. Len(list) : list[i] = y
    BY DEF Range
  <2>. QED
    BY <2>1, <2>2 DEF Bijection, Injection, Surjection, IsInjective
<1>3. ExistsBijection(1 .. Len(list), Range(list))
  BY <1>2 DEF ExistsBijection
<1>. QED
  BY <1>1, <1>3, FS_Bijection

-----------------------------------------------------------------------------
(* What each function of GroupFile makes of the fields                     *)

SameGroups(s, t) ==
  /\ t.glist = s.glist /\ t.version = s.version
  /\ t.starting = s.starting /\ t.parent = s.parent

SameBackends(s, t) ==
  t.bes = s.bes /\ t.fe_running = s.fe_running /\ t.maturity = s.maturity

SameFrontends(s, t) ==
  t.run = s.run /\ t.fes = s.fes /\ t.backend = s.backend /\ t.sent_sig = s.sent_sig

LEMMA SignalIs ==
  ASSUME NEW s \in Files, NEW me, NEW D, NEW sig \in {"CHLD", "USR1", "TERM", "KILL"},
         NEW t, t = Signal(s, me, D, sig)
  PROVE  /\ t \in Files /\ SameGroups(s, t) /\ SameBackends(s, t) /\ SameFrontends(s, t)
         /\ t.sigs = [p \in Pids |-> IF p \in D \ {me} THEN s.sigs[p] \cup {sig} ELSE s.sigs[p]]
BY DEF Signal, Files, SameGroups, SameBackends, SameFrontends

LEMMA FreeFrontendIs ==
  ASSUME NEW s \in Files, NEW D, NEW t, t = FreeFrontend(s, D)
  PROVE  /\ t \in Files /\ SameGroups(s, t) /\ SameBackends(s, t)
         /\ t.run = s.run /\ t.fes = s.fes /\ t.sigs = s.sigs
         /\ t.backend = [c \in Frontends |-> IF c \in D THEN Nil ELSE s.backend[c]]
         /\ t.sent_sig = [c \in Frontends |-> c \notin D /\ s.sent_sig[c]]
BY DEF FreeFrontend, Files, SameGroups, SameBackends

LEMMA DisposeFrontendIs ==
  ASSUME NEW s \in Files, NEW D, NEW t, t = DisposeFrontend(s, D)
  PROVE  /\ t \in Files /\ SameGroups(s, t) /\ SameBackends(s, t)
         /\ t.run = s.run /\ t.sigs = s.sigs
         /\ t.fes = [g \in Groups |-> Without(s.fes[g], D)]
         /\ t.backend = [c \in Frontends |-> IF c \in D THEN Nil ELSE s.backend[c]]
         /\ t.sent_sig = [c \in Frontends |-> c \notin D /\ s.sent_sig[c]]
<1>1. PICK F : F = [g \in Groups |-> Without(s.fes[g], D)]
  OBVIOUS
<1>2. F \in [Groups -> Seq(Frontends)]
  <2>1. \A g \in Groups : s.fes[g] \in Seq(Frontends)
    BY DEF Files
  <2>2. \A g \in Groups : Without(s.fes[g], D) \in Seq(Frontends)
    BY <2>1, WithoutIs
  <2>. QED
    BY <1>1, <2>2
<1>3. PICK u : u = [s EXCEPT !.fes = F]
  OBVIOUS
<1>4. t = FreeFrontend(u, D)
  BY <1>1, <1>3 DEF DisposeFrontend
<1>5. /\ u \in Files /\ SameGroups(s, u) /\ SameBackends(s, u)
      /\ u.run = s.run /\ u.sigs = s.sigs /\ u.fes = F
      /\ u.backend = s.backend /\ u.sent_sig = s.sent_sig
  BY <1>2, <1>3 DEF Files, SameGroups, SameBackends
<1>6. /\ t \in Files /\ SameGroups(u, t) /\ SameBackends(u, t)
      /\ t.run = u.run /\ t.fes = u.fes /\ t.sigs = u.sigs
      /\ t.backend = [c \in Frontends |-> IF c \in D THEN Nil ELSE u.backend[c]]
      /\ t.sent_sig = [c \in Frontends |-> c \notin D /\ u.sent_sig[c]]
  BY <1>4, <1>5, FreeFrontendIs
<1>. QED
  BY <1>1, <1>5, <1>6 DEF SameGroups, SameBackends

LEMMA RemoveRunningIs ==
  ASSUME NEW s \in Files, NEW D, NEW t, t = RemoveRunning(s, D)
  PROVE  /\ t \in Files /\ SameGroups(s, t)
         /\ t.bes = s.bes /\ t.maturity = s.maturity /\ t.fes = s.fes /\ t.sigs = s.sigs
         /\ t.run = Without(s.run, D)
         /\ t.fe_running = [b \in Backends |->
              IF s.fe_running[b] \in D /\ s.backend[s.fe_running[b]] = b THEN b ELSE s.fe_running[b]]
         /\ t.backend = [c \in Frontends |-> IF c \in D THEN Nil ELSE s.backend[c]]
         /\ t.sent_sig = [c \in Frontends |-> c \notin D /\ s.sent_sig[c]]
<1>1. PICK F : F = [b \in Backends |->
              IF s.fe_running[b] \in D /\ s.backend[s.fe_running[b]] = b THEN b ELSE s.fe_running[b]]
  OBVIOUS
<1>2. PICK w : w = Without(s.run, D)
  OBVIOUS
<1>3. F \in [Backends -> Frontends \cup Backends \cup {Nil}] /\ w \in Seq(Frontends)
  <2>1. s.fe_running \in [Backends -> Frontends \cup Backends \cup {Nil}] /\ s.run \in Seq(Frontends)
    BY DEF Files
  <2>. QED
    BY <1>1, <1>2, <2>1, WithoutIs
<1>4. PICK u : u = [s EXCEPT !.fe_running = F, !.run = w]
  OBVIOUS
<1>5. t = FreeFrontend(u, D)
  BY <1>1, <1>2, <1>4 DEF RemoveRunning
<1>6. /\ u \in Files /\ SameGroups(s, u) /\ u.fe_running = F /\ u.run = w
      /\ u.bes = s.bes /\ u.maturity = s.maturity /\ u.sigs = s.sigs /\ u.fes = s.fes
      /\ u.backend = s.backend /\ u.sent_sig = s.sent_sig
  BY <1>3, <1>4 DEF Files, SameGroups
<1>7. /\ t \in Files /\ SameGroups(u, t) /\ SameBackends(u, t)
      /\ t.run = u.run /\ t.fes = u.fes /\ t.sigs = u.sigs
      /\ t.backend = [c \in Frontends |-> IF c \in D THEN Nil ELSE u.backend[c]]
      /\ t.sent_sig = [c \in Frontends |-> c \notin D /\ u.sent_sig[c]]
  BY <1>5, <1>6, FreeFrontendIs
<1>. QED
  BY <1>1, <1>2, <1>6, <1>7 DEF SameGroups, SameBackends

LEMMA ReportIs ==
  ASSUME NEW s \in Files, NEW D \in SUBSET Backends, NEW how,
         \A b \in D : how[b] \in {"none", "script", "exited", "killed"},
         NEW t, t = Report(s, D, how)
  PROVE  /\ t \in Files /\ SameGroups(s, t)
         /\ t.bes = s.bes /\ t.maturity = s.maturity /\ t.fes = s.fes /\ t.sigs = s.sigs
         /\ t.run = s.run /\ t.sent_sig = s.sent_sig
         /\ t.fe_running = [b \in Backends |->
              IF b \in D /\ s.fe_running[b] # Nil THEN b ELSE s.fe_running[b]]
         /\ t.backend = [c \in Frontends |-> IF c \in ServedBy(s, D) THEN Nil ELSE s.backend[c]]
<1> DEFINE Of(c) == CHOOSE b \in D : s.fe_running[b] = c
<1>1. PICK S : S = [c \in Frontends |-> IF c \in ServedBy(s, D) THEN how[Of(c)] ELSE s.status[c]]
  OBVIOUS
<1>2. S \in [Frontends -> {"none", "script", "exited", "killed"}]
  <2>1. ASSUME NEW c \in Frontends, c \in ServedBy(s, D) PROVE Of(c) \in D
    BY <2>1 DEF ServedBy
  <2>2. s.status \in [Frontends -> {"none", "script", "exited", "killed"}]
    BY DEF Files
  <2> HIDE DEF Of
  <2>. QED
    BY <1>1, <2>1, <2>2
<1>3. PICK F : F = [b \in Backends |-> IF b \in D /\ s.fe_running[b] # Nil THEN b ELSE s.fe_running[b]]
  OBVIOUS
<1>4. PICK B : B = [c \in Frontends |-> IF c \in ServedBy(s, D) THEN Nil ELSE s.backend[c]]
  OBVIOUS
<1>5. F \in [Backends -> Frontends \cup Backends \cup {Nil}]
  BY <1>3 DEF Files
<1>6. B \in [Frontends -> Backends \cup {Nil}]
  BY <1>4 DEF Files
<1>7. t = [s EXCEPT !.fe_running = F, !.backend = B, !.status = S]
  BY <1>1, <1>3, <1>4 DEF Report
<1>8. /\ t \in Files /\ SameGroups(s, t) /\ t.fe_running = F /\ t.backend = B
      /\ t.bes = s.bes /\ t.maturity = s.maturity /\ t.fes = s.fes /\ t.sigs = s.sigs
      /\ t.run = s.run /\ t.sent_sig = s.sent_sig
  <2>1. t \in Files
    <3>1. PICK u \in Files : u = [s EXCEPT !.fe_running = F]
      BY <1>5 DEF Files
    <3>2. PICK v \in Files : v = [u EXCEPT !.backend = B]
      BY <1>6 DEF Files
    <3>3. PICK w \in Files : w = [v EXCEPT !.status = S]
      BY <1>2 DEF Files
    <3>. QED
      BY <1>7, <3>1, <3>2, <3>3
  <2>2. /\ t.fe_running = F /\ t.backend = B
        /\ t.bes = s.bes /\ t.maturity = s.maturity /\ t.fes = s.fes /\ t.sigs = s.sigs
        /\ t.run = s.run /\ t.sent_sig = s.sent_sig
    BY <1>7 DEF Files
  <2>3. SameGroups(s, t)
    BY <1>7 DEF Files, SameGroups
  <2>. QED
    BY <2>1, <2>2, <2>3
<1>. QED
  BY <1>3, <1>4, <1>8

-----------------------------------------------------------------------------
(* Frontend slots and backend slots                                        *)

\* alive is what kill(pid, 0) finds when the processes are at P.
LivingOK(alive, P) ==
  /\ alive \subseteq Pids
  /\ \A c \in Frontends : c \in alive <=> P[c] \notin Gone
  /\ \A m \in Parents : m \in alive <=> P[m] # "none"
  /\ \A b \in Backends : b \notin alive => P[b] \in {"none"} \cup Defunct

LEMMA SignalInv ==
  ASSUME NEW s, NEW P, NEW M, NEW C, FileRest(s, P, M, C), NEW me, NEW D,
         NEW sig \in {"CHLD", "USR1", "TERM", "KILL"},
         sig = "TERM" => D \cap Parents = {},
         sig = "USR1" => \A m \in D \cap Parents : P[m] \notin Starting \cup {"none"},
         NEW t, t = Signal(s, me, D, sig)
  PROVE  FileRest(t, P, M, C)
<1>1. s \in Files
  BY DEF FileRest
<1>2. /\ t \in Files /\ SameGroups(s, t) /\ SameBackends(s, t) /\ SameFrontends(s, t)
      /\ t.sigs = [p \in Pids |-> IF p \in D \ {me} THEN s.sigs[p] \cup {sig} ELSE s.sigs[p]]
  BY <1>1, SignalIs
<1>3. \A m \in Parents : /\ m \in Pids
                         /\ t.sigs[m] = s.sigs[m] \/ (t.sigs[m] = s.sigs[m] \cup {sig} /\ m \in D)
  BY <1>2 DEF Pids
<1>4. ParentsOwn(t.parent, t.sigs, P, M)
  BY <1>2, <1>3 DEF FileRest, ParentsOwn, SameGroups
<1>5. QuietOK(t.sigs, P)
  BY <1>3 DEF FileRest, QuietOK
<1>. QED
  BY <1>2, <1>4, <1>5 DEF FileRest, SameGroups, SameBackends, SameFrontends

LEMMA FreeFrontendInv ==
  ASSUME NEW s, NEW P, NEW M, NEW C, FileRest(s, P, M, C), NEW D,
         \A b \in Backends : s.fe_running[b] \notin D,
         NEW t, t = FreeFrontend(s, D)
  PROVE  /\ FileRest(t, P, M, C) /\ SameGroups(s, t) /\ SameBackends(s, t)
         /\ t.run = s.run /\ t.fes = s.fes /\ t.sigs = s.sigs
         /\ \A c \in D \cap Frontends : ~t.sent_sig[c]
<1>1. s \in Files
  BY DEF FileRest
<1>2. /\ t \in Files /\ SameGroups(s, t) /\ SameBackends(s, t)
      /\ t.run = s.run /\ t.fes = s.fes /\ t.sigs = s.sigs
      /\ t.backend = [c \in Frontends |-> IF c \in D THEN Nil ELSE s.backend[c]]
      /\ t.sent_sig = [c \in Frontends |-> c \notin D /\ s.sent_sig[c]]
  BY <1>1, FreeFrontendIs
<1>3. \A c \in Frontends : t.backend[c] \in {Nil, s.backend[c]} /\ (t.sent_sig[c] => s.sent_sig[c])
                           /\ (c \notin D => t.backend[c] = s.backend[c])
                           /\ (c \in D => ~t.sent_sig[c])
  BY <1>2
<1>4. RunOwn(t.run, t.backend, P)
  BY <1>2, <1>3 DEF FileRest, RunOwn
<1>5. PairOK(t.run, t.fe_running, t.backend)
  BY <1>2, <1>3 DEF FileRest, PairOK, SameBackends
<1>6. StatusOK(t.backend, P, C)
  BY <1>3 DEF FileRest, StatusOK
<1>7. ToldOK(t.fes, t.sent_sig, P)
  BY <1>2, <1>3 DEF FileRest, ToldOK
<1>. QED
  BY <1>2, <1>3, <1>4, <1>5, <1>6, <1>7 DEF FileRest, SameGroups, SameBackends

LEMMA DisposeFrontendInv ==
  ASSUME NEW s, NEW P, NEW M, NEW C, FileRest(s, P, M, C), NEW D,
         \A c \in D \cap Frontends : P[c] \notin Waiting /\ c \notin Range(s.run),
         NEW t, t = DisposeFrontend(s, D)
  PROVE  /\ FileRest(t, P, M, C) /\ SameGroups(s, t) /\ SameBackends(s, t)
         /\ t.run = s.run /\ t.backend = s.backend /\ t.sigs = s.sigs
         /\ \A g \in Groups : Range(t.fes[g]) = Range(s.fes[g]) \ D
<1>1. s \in Files
  BY DEF FileRest
<1>2. /\ t \in Files /\ SameGroups(s, t) /\ SameBackends(s, t)
      /\ t.run = s.run /\ t.sigs = s.sigs
      /\ t.fes = [g \in Groups |-> Without(s.fes[g], D)]
      /\ t.backend = [c \in Frontends |-> IF c \in D THEN Nil ELSE s.backend[c]]
      /\ t.sent_sig = [c \in Frontends |-> c \notin D /\ s.sent_sig[c]]
  BY <1>1, DisposeFrontendIs
<1>3. ASSUME NEW g \in Groups
      PROVE  /\ s.fes[g] \in Seq(Frontends) /\ t.fes[g] \in Seq(Frontends)
             /\ Range(t.fes[g]) = Range(s.fes[g]) \ D
             /\ \A x, y : InOrder(t.fes[g], x, y) <=> InOrder(s.fes[g], x, y) /\ x \notin D /\ y \notin D
  <2>1. PICK l \in Seq(Frontends) : l = s.fes[g]
    BY <1>1 DEF Files
  <2>2. t.fes[g] = Without(l, D)
    BY <1>2, <2>1
  <2>. QED
    BY <2>1, <2>2, WithoutIs
<1>4. \A c \in Frontends : /\ t.backend[c] \in {Nil, s.backend[c]}
                           /\ t.sent_sig[c] => s.sent_sig[c] /\ c \notin D
                           /\ c \notin D => t.backend[c] = s.backend[c]
  BY <1>2
<1>5. \A c \in D \cap Frontends : s.backend[c] = Nil
  BY DEF FileRest, RunOwn
<1>6. t.backend = s.backend
  BY <1>1, <1>2, <1>5 DEF Files
<1>7. OnceOK(t.glist, t.run, t.bes, t.fes)
  <2>1. \A g \in Groups : IsInjective(t.fes[g])
    BY <1>3, OnceMeans DEF FileRest, OnceOK
  <2>. QED
    BY <1>2, <2>1 DEF FileRest, OnceOK, SameGroups, SameBackends
<1>8. ApartOK(t.run, t.bes, t.fes)
  <2>1. \A g, h \in Groups : g # h => Range(t.fes[g]) \cap Range(t.fes[h]) = {}
    BY <1>3 DEF FileRest, ApartOK
  <2>2. \A g \in Groups : Range(t.fes[g]) \cap Range(t.run) = {}
    BY <1>2, <1>3 DEF FileRest, ApartOK
  <2>. QED
    BY <1>2, <2>1, <2>2 DEF FileRest, ApartOK, SameBackends
<1>9. FreeOK(t.glist, t.version, t.starting, t.parent, t.bes, t.fes)
  <2>1. ASSUME NEW g \in Groups, s.fes[g] = <<>> PROVE t.fes[g] = <<>>
    BY <1>3, <2>1, EmptyList, ElementsOf
  <2>. QED
    BY <1>2, <2>1 DEF FileRest, FreeOK, SameGroups, SameBackends
<1>10. QueueOwn(t.fes, P, M)
  BY <1>3 DEF FileRest, QueueOwn
<1>11. ToldOK(t.fes, t.sent_sig, P)
  BY <1>3, <1>4 DEF FileRest, ToldOK
<1>. QED
  BY <1>2, <1>3, <1>6, <1>7, <1>8, <1>9, <1>10, <1>11 DEF FileRest, SameGroups, SameBackends

LEMMA RemoveRunningInv ==
  ASSUME NEW s, NEW P, NEW M, NEW C, NEW L, FileInv(s, L, P, M, C), NEW D \in SUBSET Frontends,
         \A c \in D : P[c] \notin Active,
         NEW t, t = RemoveRunning(s, D)
  PROVE  /\ FileInv(t, L, P, M, C) /\ SameGroups(s, t)
         /\ t.bes = s.bes /\ t.maturity = s.maturity /\ t.sigs = s.sigs
         /\ \A b \in Backends : /\ t.fe_running[b] \in {s.fe_running[b], b}
                                /\ t.fe_running[b] = Nil <=> s.fe_running[b] = Nil
<1>1. s \in Files
  BY DEF FileInv, FileRest
<1>2. /\ t \in Files /\ SameGroups(s, t)
      /\ t.bes = s.bes /\ t.maturity = s.maturity /\ t.fes = s.fes /\ t.sigs = s.sigs
      /\ t.run = Without(s.run, D)
      /\ t.fe_running = [b \in Backends |->
           IF s.fe_running[b] \in D /\ s.backend[s.fe_running[b]] = b THEN b ELSE s.fe_running[b]]
      /\ t.backend = [c \in Frontends |-> IF c \in D THEN Nil ELSE s.backend[c]]
      /\ t.sent_sig = [c \in Frontends |-> c \notin D /\ s.sent_sig[c]]
  BY <1>1, RemoveRunningIs
<1>3. \A b \in Backends : b # Nil /\ b \notin Frontends /\ Nil \notin Frontends
  BY KindsAssumption DEF Pids
<1>4. \A b \in Backends : s.fe_running[b] \in D => s.backend[s.fe_running[b]] = b
  BY DEF FileInv, FileRest, PairOK
<1>5. \A b \in Backends :
        /\ t.fe_running[b] = IF s.fe_running[b] \in D THEN b ELSE s.fe_running[b]
        /\ t.fe_running[b] \in {s.fe_running[b], b} /\ t.fe_running[b] \notin D
        /\ t.fe_running[b] = Nil <=> s.fe_running[b] = Nil
  BY <1>2, <1>3, <1>4
<1>6. \A c \in Frontends : /\ t.backend[c] \in {Nil, s.backend[c]}
                           /\ t.sent_sig[c] => s.sent_sig[c] /\ c \notin D
                           /\ c \notin D => t.backend[c] = s.backend[c]
                           /\ c \in D => t.backend[c] = Nil
  BY <1>2
<1>7. /\ t.run \in Seq(Frontends) /\ Range(t.run) = Range(s.run) \ D
      /\ \A x, y : InOrder(t.run, x, y) <=> InOrder(s.run, x, y) /\ x \notin D /\ y \notin D
  <2>1. s.run \in Seq(Frontends)
    BY <1>1 DEF Files
  <2>. QED
    BY <1>2, <2>1, WithoutIs
<1>8. SelfOK(t.fe_running)
  BY <1>5 DEF FileInv, FileRest, SelfOK
<1>9. OnceOK(t.glist, t.run, t.bes, t.fes)
  <2>1. IsInjective(t.run)
    BY <1>1, <1>7, OnceMeans DEF FileInv, FileRest, OnceOK, Files
  <2>. QED
    BY <1>2, <2>1 DEF FileInv, FileRest, OnceOK, SameGroups
<1>10. ApartOK(t.run, t.bes, t.fes)
  BY <1>2, <1>7 DEF FileInv, FileRest, ApartOK
<1>11. RunOwn(t.run, t.backend, P)
  BY <1>6, <1>7 DEF FileInv, FileRest, RunOwn
<1>12. PairOK(t.run, t.fe_running, t.backend)
  <2>1. ASSUME NEW c \in Frontends, t.backend[c] # Nil PROVE t.fe_running[t.backend[c]] = c
    <3>1. c \notin D /\ t.backend[c] = s.backend[c] /\ s.backend[c] \in Backends
      BY <1>1, <1>6, <2>1 DEF Files
    <3>2. s.fe_running[s.backend[c]] = c
      BY <2>1, <3>1 DEF FileInv, FileRest, PairOK
    <3>. QED
      BY <1>5, <3>1, <3>2
  <2>2. ASSUME NEW b \in Backends, t.fe_running[b] \in Frontends
        PROVE  t.fe_running[b] \in Range(t.run) /\ t.backend[t.fe_running[b]] = b
    <3>1. t.fe_running[b] = s.fe_running[b] /\ t.fe_running[b] \notin D
      BY <1>3, <1>5, <2>2
    <3>2. s.fe_running[b] \in Range(s.run) /\ s.backend[s.fe_running[b]] = b
      BY <2>2, <3>1 DEF FileInv, FileRest, PairOK
    <3>. QED
      BY <1>6, <1>7, <2>2, <3>1, <3>2
  <2>. QED
    BY <2>1, <2>2 DEF PairOK
<1>13. ConnOK(t.fe_running, P, C)
  BY <1>5 DEF FileInv, FileRest, ConnOK
<1>14. StatusOK(t.backend, P, C)
  BY <1>6 DEF FileInv, FileRest, StatusOK
<1>15. WaitingOK(t.bes, t.fe_running, t.maturity, L)
  BY <1>2, <1>5 DEF FileInv, WaitingOK
<1>16. ToldOK(t.fes, t.sent_sig, P)
  BY <1>2, <1>6 DEF FileInv, FileRest, ToldOK
<1>17. FileInv(t, L, P, M, C)
  BY <1>2, <1>8, <1>9, <1>10, <1>11, <1>12, <1>13, <1>14, <1>15, <1>16 DEF FileInv, FileRest, SameGroups
<1>. QED
  BY <1>2, <1>5, <1>17

LEMMA ReportInv ==
  ASSUME NEW s, NEW P, NEW M, NEW C, NEW L, FileInv(s, L, P, M, C), NEW D \in SUBSET Backends, NEW how,
         \A b \in D : how[b] \in {"none", "script", "exited", "killed"},
         NEW t, t = Report(s, D, how)
  PROVE  /\ FileInv(t, L, P, M, C) /\ SameGroups(s, t)
         /\ t.bes = s.bes /\ t.maturity = s.maturity /\ t.sigs = s.sigs
         /\ \A b \in Backends : /\ t.fe_running[b] \in {s.fe_running[b], b}
                                /\ t.fe_running[b] = Nil <=> s.fe_running[b] = Nil
                                /\ b \in D => t.fe_running[b] \in {b, Nil}
<1>1. s \in Files
  BY DEF FileInv, FileRest
<1>2. /\ t \in Files /\ SameGroups(s, t)
      /\ t.bes = s.bes /\ t.maturity = s.maturity /\ t.fes = s.fes /\ t.sigs = s.sigs
      /\ t.run = s.run /\ t.sent_sig = s.sent_sig
      /\ t.fe_running = [b \in Backends |->
           IF b \in D /\ s.fe_running[b] # Nil THEN b ELSE s.fe_running[b]]
      /\ t.backend = [c \in Frontends |-> IF c \in ServedBy(s, D) THEN Nil ELSE s.backend[c]]
  BY <1>1, ReportIs
<1>3. \A b \in Backends : b # Nil /\ b \notin Frontends /\ Nil \notin Frontends
  BY KindsAssumption DEF Pids
<1>4. \A b \in Backends :
        /\ b \notin D => t.fe_running[b] = s.fe_running[b]
        /\ t.fe_running[b] \in {s.fe_running[b], b}
        /\ t.fe_running[b] = Nil <=> s.fe_running[b] = Nil
        /\ b \in D => t.fe_running[b] \in {b, Nil}
  BY <1>2, <1>3
<1>5. \A c \in Frontends : /\ t.backend[c] \in {Nil, s.backend[c]}
                           /\ (\A b \in D : s.fe_running[b] # c) => t.backend[c] = s.backend[c]
                           /\ (\E b \in D : s.fe_running[b] = c) => t.backend[c] = Nil
  BY <1>2 DEF ServedBy
<1>6. SelfOK(t.fe_running)
  BY <1>4 DEF FileInv, FileRest, SelfOK
<1>7. RunOwn(t.run, t.backend, P)
  BY <1>2, <1>5 DEF FileInv, FileRest, RunOwn
<1>8. PairOK(t.run, t.fe_running, t.backend)
  <2>1. ASSUME NEW c \in Frontends, t.backend[c] # Nil PROVE t.fe_running[t.backend[c]] = c
    <3>1. t.backend[c] = s.backend[c] /\ s.backend[c] \in Backends
      BY <1>1, <1>5, <2>1 DEF Files
    <3>2. s.fe_running[s.backend[c]] = c
      BY <2>1, <3>1 DEF FileInv, FileRest, PairOK
    <3>3. s.backend[c] \notin D
      BY <1>5, <2>1, <3>2
    <3>. QED
      BY <1>4, <3>1, <3>2, <3>3
  <2>2. ASSUME NEW b \in Backends, t.fe_running[b] \in Frontends
        PROVE  t.fe_running[b] \in Range(t.run) /\ t.backend[t.fe_running[b]] = b
    <3>1. t.fe_running[b] = s.fe_running[b] /\ b \notin D
      BY <1>3, <1>4, <2>2
    <3>2. s.fe_running[b] \in Range(s.run) /\ s.backend[s.fe_running[b]] = b
      BY <2>2, <3>1 DEF FileInv, FileRest, PairOK
    <3>3. ASSUME NEW x \in D, s.fe_running[x] = s.fe_running[b] PROVE FALSE
      <4>1. s.backend[s.fe_running[x]] = x
        BY <2>2, <3>1, <3>3 DEF FileInv, FileRest, PairOK
      <4>. QED
        BY <3>1, <3>2, <3>3, <4>1
    <3>. QED
      BY <1>2, <1>5, <2>2, <3>1, <3>2, <3>3
  <2>. QED
    BY <2>1, <2>2 DEF PairOK
<1>9. ConnOK(t.fe_running, P, C)
  BY <1>4 DEF FileInv, FileRest, ConnOK
<1>10. StatusOK(t.backend, P, C)
  BY <1>5 DEF FileInv, FileRest, StatusOK
<1>11. WaitingOK(t.bes, t.fe_running, t.maturity, L)
  BY <1>2, <1>4 DEF FileInv, WaitingOK
<1>12. FileInv(t, L, P, M, C)
  BY <1>2, <1>6, <1>7, <1>8, <1>9, <1>10, <1>11 DEF FileInv, FileRest, SameGroups
<1>. QED
  BY <1>2, <1>4, <1>12

\* What the functions for backends leave alone.
RunsOnOrEnds(s, t, D) ==
  \A b \in Backends : /\ b \notin D => t.fe_running[b] \in {s.fe_running[b], b}
                      /\ b \notin D => (t.fe_running[b] = Nil <=> s.fe_running[b] = Nil)

SameForParents(s, t) == \A m \in Parents : t.sigs[m] = s.sigs[m]

HaveExited(s, t, D) ==
  /\ SameGroups(s, t) /\ t.bes = s.bes /\ t.maturity = s.maturity /\ SameForParents(s, t)
  /\ RunsOnOrEnds(s, t, {})
  /\ \A b \in D : t.fe_running[b] \in {b, Nil}

LEMMA BackendExitedInv ==
  ASSUME NEW s, NEW P, NEW M, NEW C, NEW L, FileInv(s, L, P, M, C), NEW alive, LivingOK(alive, P),
         NEW me, NEW D \in SUBSET Backends, NEW how,
         \A b \in D : how[b] \in {"none", "script", "exited", "killed"},
         NEW t, t = BackendExited(s, alive, me, D, how)
  PROVE  FileInv(t, L, P, M, C) /\ HaveExited(s, t, D)
<1>1. PICK u : u = Report(s, D, how)
  OBVIOUS
<1>2. /\ FileInv(u, L, P, M, C) /\ SameGroups(s, u)
      /\ u.bes = s.bes /\ u.maturity = s.maturity /\ u.sigs = s.sigs
      /\ \A b \in Backends : /\ u.fe_running[b] \in {s.fe_running[b], b}
                             /\ u.fe_running[b] = Nil <=> s.fe_running[b] = Nil
                             /\ b \in D => u.fe_running[b] \in {b, Nil}
  BY <1>1, ReportInv
<1>3. PICK E : E = ServedBy(s, D)
  OBVIOUS
<1>4. E \subseteq Frontends
  BY <1>3 DEF ServedBy
<1>5. PICK v : v = Signal(u, me, E \cap alive, "USR1")
  OBVIOUS
<1>6. E \cap Parents = {} /\ "USR1" \in {"CHLD", "USR1", "TERM", "KILL"} /\ "USR1" # "TERM"
  BY <1>4, KindsAssumption
<1>7. FileRest(u, P, M, C) /\ u \in Files
  BY <1>2 DEF FileInv, FileRest
<1>8. FileRest(v, P, M, C)
  BY <1>5, <1>6, <1>7, SignalInv
<1>9. /\ SameGroups(u, v) /\ SameBackends(u, v)
      /\ v.sigs = [p \in Pids |-> IF p \in (E \cap alive) \ {me} THEN u.sigs[p] \cup {"USR1"} ELSE u.sigs[p]]
  BY <1>5, <1>6, <1>7, SignalIs
<1>10. FileInv(v, L, P, M, C)
  BY <1>2, <1>8, <1>9 DEF FileInv, SameBackends
<1>11. t = RemoveRunning(v, E \ alive)
  BY <1>1, <1>3, <1>5 DEF BackendExited
<1>12. E \ alive \in SUBSET Frontends /\ \A c \in E \ alive : P[c] \notin Active
  BY <1>4 DEF LivingOK, Gone, Active
<1>13. /\ FileInv(t, L, P, M, C) /\ SameGroups(v, t)
       /\ t.bes = v.bes /\ t.maturity = v.maturity /\ t.sigs = v.sigs
       /\ \A b \in Backends : /\ t.fe_running[b] \in {v.fe_running[b], b}
                              /\ t.fe_running[b] = Nil <=> v.fe_running[b] = Nil
  BY <1>10, <1>11, <1>12, RemoveRunningInv
<1>14. SameForParents(s, t)
  BY <1>2, <1>6, <1>9, <1>13 DEF SameForParents, Pids
<1>15. RunsOnOrEnds(s, t, {}) /\ \A b \in D : t.fe_running[b] \in {b, Nil}
  BY <1>2, <1>9, <1>13 DEF SameBackends, RunsOnOrEnds
<1>. QED
  BY <1>2, <1>9, <1>13, <1>14, <1>15 DEF SameGroups, SameBackends, HaveExited

\* The slots of backends that serve nobody are freed.
FreedBackends(u, g, D) ==
  [u EXCEPT !.bes[g] = Without(@, D),
            !.fe_running = [b \in Backends |-> IF b \in D THEN Nil ELSE @[b]],
            !.maturity = [b \in Backends |-> IF b \in D THEN 0 ELSE @[b]]]

LEMMA FreedBackendsIs ==
  ASSUME NEW s \in Files, NEW g \in Groups, NEW D, NEW t, t = FreedBackends(s, g, D)
  PROVE  /\ t \in Files /\ SameGroups(s, t) /\ SameFrontends(s, t) /\ t.sigs = s.sigs
         /\ t.bes = [s.bes EXCEPT ![g] = Without(s.bes[g], D)]
         /\ t.fe_running = [b \in Backends |-> IF b \in D THEN Nil ELSE s.fe_running[b]]
         /\ t.maturity = [b \in Backends |-> IF b \in D THEN 0 ELSE s.maturity[b]]
<1>1. PICK F : F = [b \in Backends |-> IF b \in D THEN Nil ELSE s.fe_running[b]]
  OBVIOUS
<1>2. PICK N : N = [b \in Backends |-> IF b \in D THEN 0 ELSE s.maturity[b]]
  OBVIOUS
<1>3. PICK B : B = [s.bes EXCEPT ![g] = Without(s.bes[g], D)]
  OBVIOUS
<1>4. F \in [Backends -> Frontends \cup Backends \cup {Nil}] /\ N \in [Backends -> Nat]
  BY <1>1, <1>2 DEF Files
<1>5. B \in [Groups -> Seq(Backends)]
  <2>1. s.bes \in [Groups -> Seq(Backends)]
    BY DEF Files
  <2>2. Without(s.bes[g], D) \in Seq(Backends)
    BY <2>1, WithoutIs
  <2>. QED
    BY <1>3, <2>1, <2>2
<1>6. t = [s EXCEPT !.bes = B, !.fe_running = F, !.maturity = N]
  BY <1>1, <1>2, <1>3 DEF FreedBackends, Files
<1>7. /\ t \in Files /\ SameGroups(s, t) /\ SameFrontends(s, t) /\ t.sigs = s.sigs
      /\ t.bes = B /\ t.fe_running = F /\ t.maturity = N
  BY <1>4, <1>5, <1>6 DEF Files, SameGroups, SameFrontends
<1>. QED
  BY <1>1, <1>2, <1>3, <1>7

LEMMA FreedBackendsInv ==
  ASSUME NEW s, NEW P, NEW M, NEW C, NEW L, FileInv(s, L, P, M, C), NEW g \in Groups,
         NEW D, D \subseteq Range(s.bes[g]),
         \A b \in D : P[b] \in {"none"} \cup Defunct /\ s.fe_running[b] \in {b, Nil},
         NEW t, t = FreedBackends(s, g, D)
  PROVE  /\ FileInv(t, L, P, M, C) /\ SameGroups(s, t) /\ t.sigs = s.sigs /\ t.fes = s.fes
         /\ \A h \in Groups : h # g => t.bes[h] = s.bes[h]
         /\ Range(t.bes[g]) = Range(s.bes[g]) \ D
         /\ \A b \in Backends : b \notin D => t.fe_running[b] = s.fe_running[b]
<1>1. s \in Files
  BY DEF FileInv, FileRest
<1>2. /\ t \in Files /\ SameGroups(s, t) /\ SameFrontends(s, t) /\ t.sigs = s.sigs
      /\ t.bes = [s.bes EXCEPT ![g] = Without(s.bes[g], D)]
      /\ t.fe_running = [b \in Backends |-> IF b \in D THEN Nil ELSE s.fe_running[b]]
      /\ t.maturity = [b \in Backends |-> IF b \in D THEN 0 ELSE s.maturity[b]]
  BY <1>1, FreedBackendsIs
<1>3. PICK l \in Seq(Backends) : l = s.bes[g]
  BY <1>1 DEF Files
<1>4. /\ t.bes[g] = Without(l, D)
      /\ \A h \in Groups : h # g => t.bes[h] = s.bes[h]
  BY <1>1, <1>2, <1>3 DEF Files
<1>5. /\ t.bes[g] \in Seq(Backends) /\ Range(t.bes[g]) = Range(s.bes[g]) \ D
      /\ \A x, y : InOrder(t.bes[g], x, y) <=> InOrder(s.bes[g], x, y) /\ x \notin D /\ y \notin D
  BY <1>3, <1>4, WithoutIs
<1>6. D \subseteq Backends /\ \A h \in Groups : h # g => D \cap Range(s.bes[h]) = {}
  BY <1>3, ElementsOf DEF FileInv, FileRest, ApartOK
<1>7. \A h \in Groups :
        /\ Range(t.bes[h]) = Range(s.bes[h]) \ D
        /\ \A x, y : InOrder(t.bes[h], x, y) => InOrder(s.bes[h], x, y) /\ x \notin D /\ y \notin D
  <2>1. SUFFICES ASSUME NEW h \in Groups, h # g
                 PROVE  \A x, y : InOrder(s.bes[h], x, y) => x \notin D /\ y \notin D
    BY <1>4, <1>5, <1>6
  <2>2. s.bes[h] \in Seq(Backends)
    BY <1>1 DEF Files
  <2>. QED
    BY <1>6, <2>1, <2>2, ElementsOf
<1>8. /\ \A b \in Backends : b \notin D => t.fe_running[b] = s.fe_running[b] /\ t.maturity[b] = s.maturity[b]
      /\ \A b \in D : t.fe_running[b] = Nil
  BY <1>2, <1>6
<1>9. \A b \in Backends : b # Nil /\ b \notin Frontends /\ Nil \notin Frontends
  BY KindsAssumption DEF Pids
<1>10. SelfOK(t.fe_running)
  BY <1>8 DEF FileInv, FileRest, SelfOK
<1>11. OnceOK(t.glist, t.run, t.bes, t.fes)
  <2>1. \A h \in Groups : IsInjective(t.bes[h])
    <3>1. \A h \in Groups : s.bes[h] \in Seq(Backends) /\ t.bes[h] \in Seq(Backends)
      BY <1>1, <1>2 DEF Files
    <3>2. \A h \in Groups : \A x : ~InOrder(s.bes[h], x, x)
      BY <3>1, OnceMeans DEF FileInv, FileRest, OnceOK
    <3>. QED
      BY <1>7, <3>1, <3>2, OnceMeans
  <2>. QED
    BY <1>2, <2>1 DEF FileInv, FileRest, OnceOK, SameGroups, SameFrontends
<1>12. ApartOK(t.run, t.bes, t.fes)
  BY <1>2, <1>7 DEF FileInv, FileRest, ApartOK, SameFrontends
<1>13. FreeOK(t.glist, t.version, t.starting, t.parent, t.bes, t.fes)
  <2>1. ASSUME NEW h \in Groups, s.bes[h] = <<>> PROVE t.bes[h] = <<>>
    <3>1. t.bes[h] \in Seq(Backends) /\ Range(t.bes[h]) = {}
      BY <1>2, <1>7, <2>1, EmptyList DEF Files
    <3>. QED
      BY <3>1, ElementsOf
  <2>. QED
    BY <1>2, <2>1 DEF FileInv, FileRest, FreeOK, SameGroups, SameFrontends
<1>14. BackendsOwn(t.bes, P, M)
  BY <1>7 DEF FileInv, FileRest, BackendsOwn
<1>15. PairOK(t.run, t.fe_running, t.backend)
  <2>1. ASSUME NEW c \in Frontends, t.backend[c] # Nil PROVE t.fe_running[t.backend[c]] = c
    <3>1. s.backend[c] \in Backends /\ s.fe_running[s.backend[c]] = c /\ t.backend = s.backend
      BY <1>1, <1>2, <2>1 DEF FileInv, FileRest, PairOK, Files, SameFrontends
    <3>. QED
      BY <1>8, <1>9, <3>1
  <2>. QED
    BY <1>2, <1>8, <1>9, <2>1 DEF FileInv, FileRest, PairOK, SameFrontends
<1>16. ConnOK(t.fe_running, P, C)
  BY <1>6, <1>8 DEF FileInv, FileRest, ConnOK, Defunct
<1>17. WaitingOK(t.bes, t.fe_running, t.maturity, L)
  BY <1>7, <1>8 DEF FileInv, WaitingOK
<1>18. FileInv(t, L, P, M, C)
  BY <1>2, <1>10, <1>11, <1>12, <1>13, <1>14, <1>15, <1>16, <1>17
  DEF FileInv, FileRest, SameGroups, SameFrontends
<1>. QED
  BY <1>2, <1>4, <1>5, <1>8, <1>18 DEF SameFrontends

LEMMA DisposeBackendInv ==
  ASSUME NEW s, NEW P, NEW M, NEW C, NEW L, FileInv(s, L, P, M, C), NEW alive, LivingOK(alive, P),
         NEW me, NEW g \in Groups, NEW D, D \subseteq Range(s.bes[g]),
         \A b \in D : P[b] \in {"none"} \cup Defunct,
         NEW t, t = DisposeBackend(s, alive, me, g, D)
  PROVE  /\ FileInv(t, L, P, M, C) /\ SameGroups(s, t) /\ SameForParents(s, t)
         /\ \A h \in Groups : h # g => t.bes[h] = s.bes[h]
         /\ Range(t.bes[g]) = Range(s.bes[g]) \ D
         /\ RunsOnOrEnds(s, t, D)
<1>1. D \in SUBSET Backends
  <2>1. s.bes[g] \in Seq(Backends)
    BY DEF FileInv, FileRest, Files
  <2>. QED
    BY <2>1, ElementsOf
<1>2. PICK how : how = [b \in D |-> "killed"]
  OBVIOUS
<1>3. PICK u : u = BackendExited(s, alive, me, D, how)
  OBVIOUS
<1>4. \A b \in D : how[b] \in {"none", "script", "exited", "killed"}
  BY <1>2
<1>5. /\ FileInv(u, L, P, M, C) /\ SameGroups(s, u)
      /\ u.bes = s.bes /\ u.maturity = s.maturity /\ SameForParents(s, u)
      /\ RunsOnOrEnds(s, u, {})
      /\ \A b \in D : u.fe_running[b] \in {b, Nil}
  BY <1>1, <1>3, <1>4, BackendExitedInv DEF HaveExited
<1>6. t = FreedBackends(u, g, D)
  BY <1>2, <1>3 DEF DisposeBackend, BackendDied, FreedBackends
<1>7. /\ FileInv(t, L, P, M, C) /\ SameGroups(u, t) /\ t.sigs = u.sigs /\ t.fes = u.fes
      /\ \A h \in Groups : h # g => t.bes[h] = u.bes[h]
      /\ Range(t.bes[g]) = Range(u.bes[g]) \ D
      /\ \A b \in Backends : b \notin D => t.fe_running[b] = u.fe_running[b]
  BY <1>5, <1>6, FreedBackendsInv
<1>8. RunsOnOrEnds(s, t, D)
  BY <1>5, <1>7 DEF RunsOnOrEnds
<1>. QED
  BY <1>5, <1>7, <1>8 DEF SameGroups, SameForParents

-----------------------------------------------------------------------------
(* Groups and parents                                                      *)

SameElse(s, t) == SameBackends(s, t) /\ SameFrontends(s, t)

LEMMA WaitListIs ==
  ASSUME NEW s \in Files, NEW g \in Groups
  PROVE  WaitList(s, g) \subseteq Backends
<1>1. s.bes[g] \in Seq(Backends)
  BY DEF Files
<1>. QED
  BY <1>1 DEF WaitList

LEMMA InvalidateIs ==
  ASSUME NEW s \in Files, NEW alive, NEW me, NEW G \in SUBSET Groups,
         NEW t, t = Invalidate(s, alive, me, G)
  PROVE  /\ t \in Files /\ SameElse(s, t) /\ t.starting = s.starting /\ t.parent = s.parent
         /\ SameForParents(s, t)
         /\ \A g \in Groups : t.version[g] = IF g \in G THEN 0 ELSE s.version[g]
         /\ Range(t.glist) = Range(s.glist)
         /\ \A x, y : InOrder(t.glist, x, y) <=>
              \/ InOrder(s.glist, x, y) /\ (t.version[x] = s.version[x] <=> t.version[y] = s.version[y])
              \/ /\ x \in Range(s.glist) /\ t.version[x] = s.version[x]
                 /\ y \in Range(s.glist) /\ t.version[y] # s.version[y]
<1>1. PICK stale : stale = {g \in G : IsValid(s, g)}
  OBVIOUS
<1>2. stale \subseteq Groups /\ \A g \in Groups : g \in stale <=> g \in G /\ s.version[g] # 0
  BY <1>1 DEF IsValid
<1>3. PICK D : D = alive \cap UNION {WaitList(s, g) : g \in stale}
  OBVIOUS
<1>4. D \subseteq Backends
  <2>1. \A g \in stale : WaitList(s, g) \subseteq Backends
    BY <1>2, WaitListIs
  <2>. QED
    BY <1>3, <2>1
<1>5. PICK u : u = Signal(s, me, D, "TERM")
  OBVIOUS
<1>6. "TERM" \in {"CHLD", "USR1", "TERM", "KILL"}
  OBVIOUS
<1>7. /\ u \in Files /\ SameGroups(s, u) /\ SameBackends(s, u) /\ SameFrontends(s, u)
      /\ u.sigs = [p \in Pids |-> IF p \in D \ {me} THEN s.sigs[p] \cup {"TERM"} ELSE s.sigs[p]]
  BY <1>5, <1>6, SignalIs
<1>8. PICK one \in Seq(Groups) : one = Without(s.glist, stale)
  BY WithoutIs DEF Files
<1>9. PICK two \in Seq(Groups) : two = Without(s.glist, Groups \ stale)
  BY WithoutIs DEF Files
<1>10. PICK l \in Seq(Groups) : l = one \o two
  BY Joined
<1>11. PICK V : V = [g \in Groups |-> IF g \in stale THEN 0 ELSE s.version[g]]
  OBVIOUS
<1>12. V \in [Groups -> Nat]
  BY <1>11 DEF Files
<1>13. t = [u EXCEPT !.version = V, !.glist = l]
  BY <1>1, <1>3, <1>5, <1>7, <1>8, <1>9, <1>10, <1>11 DEF Invalidate, SameGroups
<1>14. /\ t \in Files /\ SameElse(s, t) /\ t.starting = s.starting /\ t.parent = s.parent
       /\ t.sigs = u.sigs /\ t.version = V /\ t.glist = l
  <2>1. t \in Files
    BY <1>7, <1>12, <1>13 DEF Files
  <2>2. /\ t.starting = u.starting /\ t.parent = u.parent
        /\ t.sigs = u.sigs /\ t.version = V /\ t.glist = l
        /\ SameElse(u, t)
    BY <1>7, <1>13 DEF Files, SameElse, SameBackends, SameFrontends
  <2>. QED
    BY <1>7, <2>1, <2>2 DEF SameGroups, SameElse, SameBackends, SameFrontends
<1>15. SameForParents(s, t)
  BY <1>4, <1>7, <1>14, KindsAssumption DEF SameForParents, Pids
<1>16. /\ \A g \in Groups : t.version[g] = IF g \in G THEN 0 ELSE s.version[g]
       /\ \A g \in Groups : g \in stale <=> t.version[g] # s.version[g]
  BY <1>2, <1>11, <1>14
<1>17. s.glist \in Seq(Groups) /\ Range(s.glist) \subseteq Groups
       /\ \A x, y : InOrder(s.glist, x, y) => x \in Range(s.glist) /\ y \in Range(s.glist)
  BY ElementsOf DEF Files
<1>18. /\ Range(one) = Range(s.glist) \ stale
       /\ \A x, y : InOrder(one, x, y) <=> InOrder(s.glist, x, y) /\ x \notin stale /\ y \notin stale
  BY <1>8, <1>17, WithoutIs
<1>19. /\ Range(two) = Range(s.glist) \ (Groups \ stale)
       /\ \A x, y : InOrder(two, x, y) <=>
            InOrder(s.glist, x, y) /\ x \notin Groups \ stale /\ y \notin Groups \ stale
  BY <1>9, <1>17, WithoutIs
<1>20. /\ Range(l) = Range(one) \cup Range(two)
       /\ \A x, y : InOrder(l, x, y) <=>
            \/ InOrder(one, x, y) \/ InOrder(two, x, y)
            \/ x \in Range(one) /\ y \in Range(two)
  BY <1>10, Joined
<1>21. Range(t.glist) = Range(s.glist)
  BY <1>2, <1>14, <1>17, <1>18, <1>19, <1>20
<1>22. ASSUME NEW x, NEW y
       PROVE  InOrder(t.glist, x, y) <=>
              \/ InOrder(s.glist, x, y) /\ (t.version[x] = s.version[x] <=> t.version[y] = s.version[y])
              \/ /\ x \in Range(s.glist) /\ t.version[x] = s.version[x]
                 /\ y \in Range(s.glist) /\ t.version[y] # s.version[y]
  <2>1. InOrder(t.glist, x, y) <=>
          \/ InOrder(s.glist, x, y) /\ x \notin stale /\ y \notin stale
          \/ InOrder(s.glist, x, y) /\ x \in stale /\ y \in stale
          \/ x \in Range(s.glist) \ stale /\ y \in Range(s.glist) \cap stale
    BY <1>14, <1>17, <1>18, <1>19, <1>20
  <2>2. /\ x \in Range(s.glist) => (x \in stale <=> t.version[x] # s.version[x])
        /\ y \in Range(s.glist) => (y \in stale <=> t.version[y] # s.version[y])
    BY <1>16, <1>17
  <2>3. InOrder(s.glist, x, y) => x \in Range(s.glist) /\ y \in Range(s.glist)
    BY <1>17
  <2>. QED
    BY <2>1, <2>2, <2>3
<1>. QED
  BY <1>14, <1>15, <1>16, <1>21, <1>22

LEMMA InvalidateInv ==
  ASSUME NEW s, NEW P, NEW M, NEW C, FileRest(s, P, M, C), NEW alive, NEW me,
         NEW G \in SUBSET Groups, NEW t, t = Invalidate(s, alive, me, G)
  PROVE  FileRest(t, P, M, C)
<1>1. s \in Files
  BY DEF FileRest
<1>2. /\ t \in Files /\ SameElse(s, t) /\ t.starting = s.starting /\ t.parent = s.parent
      /\ SameForParents(s, t)
      /\ \A g \in Groups : t.version[g] = IF g \in G THEN 0 ELSE s.version[g]
      /\ Range(t.glist) = Range(s.glist)
      /\ \A x, y : InOrder(t.glist, x, y) <=>
           \/ InOrder(s.glist, x, y) /\ (t.version[x] = s.version[x] <=> t.version[y] = s.version[y])
           \/ /\ x \in Range(s.glist) /\ t.version[x] = s.version[x]
              /\ y \in Range(s.glist) /\ t.version[y] # s.version[y]
  BY <1>1, InvalidateIs
<1>3. s.glist \in Seq(Groups) /\ t.glist \in Seq(Groups) /\ Range(s.glist) \subseteq Groups
  BY <1>1, <1>2, ElementsOf DEF Files
<1>4. \A x : ~InOrder(t.glist, x, x)
  BY <1>2, <1>3, OnceMeans DEF FileRest, OnceOK
<1>5. OnceOK(t.glist, t.run, t.bes, t.fes)
  <2>1. IsInjective(t.glist)
    BY <1>3, <1>4, OnceMeans
  <2>. QED
    BY <1>2, <2>1 DEF FileRest, OnceOK, SameElse, SameBackends, SameFrontends
<1>6. FreeOK(t.glist, t.version, t.starting, t.parent, t.bes, t.fes)
  BY <1>2 DEF FileRest, FreeOK, SameElse, SameBackends, SameFrontends
<1>7. ValidOK(t.glist, t.version)
  <2>1. ASSUME NEW x \in Groups, NEW y \in Groups, InOrder(t.glist, x, y) PROVE t.version[y] = 0
    <3>1. CASE t.version[y] # s.version[y]
      BY <1>2, <3>1
    <3>2. CASE t.version[y] = s.version[y]
      <4>1. InOrder(s.glist, x, y)
        BY <1>2, <2>1, <3>2
      <4>. QED
        BY <3>2, <4>1 DEF FileRest, ValidOK
    <3>. QED
      BY <3>1, <3>2
  <2>. QED
    BY <2>1 DEF ValidOK
<1>8. ParentsOwn(t.parent, t.sigs, P, M)
  BY <1>2 DEF FileRest, ParentsOwn, SameForParents
<1>9. QuietOK(t.sigs, P)
  BY <1>2 DEF FileRest, QuietOK, SameForParents
<1>. QED
  BY <1>2, <1>5, <1>6, <1>7, <1>8, <1>9 DEF FileRest, SameElse, SameBackends, SameFrontends

\* The groups that speedy_group_cleanup frees.
Emptied(s, G) == {g \in G : s.bes[g] = <<>> /\ s.fes[g] = <<>>}

LEMMA CleanupInv ==
  ASSUME NEW s, NEW P, NEW M, NEW C, FileRest(s, P, M, C), NEW alive, LivingOK(alive, P), NEW me,
         NEW G \in SUBSET Groups,
         me \in Parents /\ P[me] \in {"wait", "serve"} => M[me].group \notin Emptied(s, G),
         NEW t, t = Cleanup(s, alive, me, G)
  PROVE  /\ FileRest(t, P, M, C) /\ SameElse(s, t)
         /\ \A m \in Parents : t.sigs[m] \in {s.sigs[m], s.sigs[m] \cup {"KILL"}}
         /\ \A g \in Groups :
              /\ g \in Emptied(s, G) => t.version[g] = 0 /\ t.starting[g] = Nil /\ t.parent[g] = Nil
              /\ g \notin Emptied(s, G) => /\ t.version[g] = s.version[g]
                                           /\ t.starting[g] = s.starting[g] /\ t.parent[g] = s.parent[g]
         /\ Range(t.glist) = Range(s.glist) \ Emptied(s, G)
<1>1. s \in Files
  BY DEF FileRest
<1>2. PICK gone : gone = Emptied(s, G)
  OBVIOUS
<1>3. gone \in SUBSET Groups /\ \A g \in gone : s.bes[g] = <<>> /\ s.fes[g] = <<>>
  BY <1>2 DEF Emptied
<1>4. PICK D : D = alive \cap {s.parent[g] : g \in gone}
  OBVIOUS
<1>5. D \subseteq Parents \cup {Nil}
  BY <1>1, <1>3, <1>4 DEF Files
<1>6. PICK u : u = Signal(s, me, D, "KILL")
  OBVIOUS
<1>7. "KILL" \in {"CHLD", "USR1", "TERM", "KILL"} /\ "KILL" # "TERM" /\ "KILL" # "USR1"
  OBVIOUS
<1>8. /\ u \in Files /\ SameGroups(s, u) /\ SameBackends(s, u) /\ SameFrontends(s, u)
      /\ u.sigs = [p \in Pids |-> IF p \in D \ {me} THEN s.sigs[p] \cup {"KILL"} ELSE s.sigs[p]]
  BY <1>1, <1>6, <1>7, SignalIs
<1>9. FileRest(u, P, M, C)
  BY <1>6, <1>7, SignalInv
<1>10. PICK v : v = Invalidate(u, alive, me, gone)
  OBVIOUS
<1>11. FileRest(v, P, M, C)
  BY <1>3, <1>9, <1>10, InvalidateInv
<1>12. /\ v \in Files /\ SameElse(u, v) /\ v.starting = u.starting /\ v.parent = u.parent
       /\ SameForParents(u, v)
       /\ \A g \in Groups : v.version[g] = IF g \in gone THEN 0 ELSE u.version[g]
       /\ Range(v.glist) = Range(u.glist)
  BY <1>3, <1>8, <1>10, InvalidateIs
<1>13. PICK l \in Seq(Groups) : l = Without(v.glist, gone)
  BY <1>12, WithoutIs DEF Files
<1>14. PICK S : S = [g \in Groups |-> IF g \in gone THEN Nil ELSE v.starting[g]]
  OBVIOUS
<1>15. PICK Q : Q = [g \in Groups |-> IF g \in gone THEN Nil ELSE v.parent[g]]
  OBVIOUS
<1>16. S \in [Groups -> Backends \cup Parents \cup {Nil}] /\ Q \in [Groups -> Parents \cup {Nil}]
  BY <1>12, <1>14, <1>15 DEF Files
<1>17. t = [v EXCEPT !.glist = l, !.starting = S, !.parent = Q]
  <2>1. t = [v EXCEPT !.glist = Without(@, gone),
                      !.starting = [g \in Groups |-> IF g \in gone THEN Nil ELSE @[g]],
                      !.parent = [g \in Groups |-> IF g \in gone THEN Nil ELSE @[g]]]
    BY <1>2, <1>4, <1>6, <1>10 DEF Cleanup, Emptied
  <2>. QED
    BY <1>12, <1>13, <1>14, <1>15, <2>1 DEF Files
<1>18. /\ t \in Files /\ SameElse(v, t) /\ t.sigs = v.sigs /\ t.version = v.version
       /\ t.glist = l /\ t.starting = S /\ t.parent = Q
  <2>1. t \in Files
    <3>1. PICK u1 \in Files : u1 = [v EXCEPT !.glist = l]
      BY <1>12 DEF Files
    <3>2. PICK u2 \in Files : u2 = [u1 EXCEPT !.starting = S]
      BY <1>16 DEF Files
    <3>3. PICK u3 \in Files : u3 = [u2 EXCEPT !.parent = Q]
      BY <1>16 DEF Files
    <3>. QED
      BY <1>17, <3>1, <3>2, <3>3
  <2>2. /\ t.sigs = v.sigs /\ t.version = v.version
        /\ t.glist = l /\ t.starting = S /\ t.parent = Q
    BY <1>12, <1>17 DEF Files
  <2>3. SameElse(v, t)
    BY <1>12, <1>17 DEF Files, SameElse, SameBackends, SameFrontends
  <2>. QED
    BY <2>1, <2>2, <2>3
<1>19. SameElse(s, t)
  BY <1>8, <1>12, <1>18 DEF SameElse, SameBackends, SameFrontends
<1>20. \A m \in Parents : /\ m \in Pids
                          /\ t.sigs[m] = IF m \in D \ {me} THEN s.sigs[m] \cup {"KILL"} ELSE s.sigs[m]
  BY <1>8, <1>12, <1>18 DEF SameForParents, Pids
<1>21. \A g \in Groups :
         /\ g \in gone => t.version[g] = 0 /\ t.starting[g] = Nil /\ t.parent[g] = Nil
         /\ g \notin gone => /\ t.version[g] = s.version[g]
                             /\ t.starting[g] = s.starting[g] /\ t.parent[g] = s.parent[g]
  BY <1>8, <1>12, <1>14, <1>15, <1>18 DEF SameGroups
<1>22. v.glist \in Seq(Groups)
  BY <1>12 DEF Files
<1>23. /\ Range(t.glist) = Range(s.glist) \ gone
       /\ \A x, y : InOrder(t.glist, x, y) => InOrder(v.glist, x, y)
  <2>1. /\ Range(l) = Range(v.glist) \ gone
        /\ \A x, y : InOrder(l, x, y) => InOrder(v.glist, x, y)
    BY <1>13, <1>22, WithoutIs
  <2>. QED
    BY <1>8, <1>12, <1>18, <2>1 DEF SameGroups
<1>24. OnceOK(t.glist, t.run, t.bes, t.fes)
  <2>1. IsInjective(t.glist)
    BY <1>11, <1>18, <1>22, <1>23, OnceMeans DEF FileRest, OnceOK
  <2>. QED
    BY <1>11, <1>18, <2>1 DEF FileRest, OnceOK, SameElse, SameBackends, SameFrontends
<1>25. FreeOK(t.glist, t.version, t.starting, t.parent, t.bes, t.fes)
  BY <1>3, <1>19, <1>21, <1>23 DEF FileRest, FreeOK, SameElse, SameBackends, SameFrontends
<1>26. ValidOK(t.glist, t.version)
  BY <1>11, <1>18, <1>23 DEF FileRest, ValidOK
<1>27. ParentsOwn(t.parent, t.sigs, P, M)
  <2>1. SUFFICES ASSUME NEW m \in Parents, P[m] \in {"wait", "serve"}, "KILL" \notin t.sigs[m]
                 PROVE  M[m].group \in Groups /\ t.parent[M[m].group] = m
    BY DEF ParentsOwn
  <2>2. "KILL" \notin s.sigs[m] /\ m \notin D \ {me}
    BY <1>20, <2>1
  <2>3. M[m].group \in Groups /\ s.parent[M[m].group] = m
    BY <2>1, <2>2 DEF FileRest, ParentsOwn
  <2>4. m \in alive
    BY <2>1 DEF LivingOK
  <2>5. M[m].group \notin gone
    BY <1>2, <1>4, <2>1, <2>2, <2>3, <2>4
  <2>. QED
    BY <1>21, <2>3, <2>5
<1>28. StartsUpOK(t.starting, t.parent, P)
  <2>1. Nil \notin Parents
    BY KindsAssumption DEF Pids
  <2>. QED
    BY <1>21, <2>1 DEF FileRest, StartsUpOK
<1>29. QuietOK(t.sigs, P)
  BY <1>11, <1>18 DEF FileRest, QuietOK
<1>30. FileRest(t, P, M, C)
  BY <1>11, <1>18, <1>24, <1>25, <1>26, <1>27, <1>28, <1>29 DEF FileRest, SameElse, SameBackends, SameFrontends
<1>. QED
  BY <1>2, <1>19, <1>20, <1>21, <1>23, <1>30

\* Who starts, in one group.
SetStarting(s, g, x) == [s EXCEPT !.starting[g] = x]

LEMMA StartingInv ==
  ASSUME NEW s, NEW P, NEW M, NEW C, FileRest(s, P, M, C), NEW g \in Groups,
         NEW x \in Backends \cup Parents \cup {Nil},
         g \in Range(s.glist) \/ x = Nil,
         s.parent[g] \in Parents /\ P[s.parent[g]] \in Starting => x = s.parent[g],
         NEW t, t = SetStarting(s, g, x)
  PROVE  /\ FileRest(t, P, M, C) /\ SameElse(s, t) /\ t.sigs = s.sigs
         /\ t.glist = s.glist /\ t.version = s.version /\ t.parent = s.parent
         /\ \A h \in Groups : t.starting[h] = IF h = g THEN x ELSE s.starting[h]
<1>1. s \in Files
  BY DEF FileRest
<1>2. PICK S : S = [s.starting EXCEPT ![g] = x]
  OBVIOUS
<1>3. S \in [Groups -> Backends \cup Parents \cup {Nil}]
  BY <1>1, <1>2 DEF Files
<1>4. t = [s EXCEPT !.starting = S]
  BY <1>1, <1>2 DEF SetStarting, Files
<1>5. /\ t \in Files /\ SameElse(s, t) /\ t.sigs = s.sigs
      /\ t.glist = s.glist /\ t.version = s.version /\ t.parent = s.parent /\ t.starting = S
  BY <1>1, <1>3, <1>4 DEF Files, SameElse, SameBackends, SameFrontends
<1>6. \A h \in Groups : t.starting[h] = IF h = g THEN x ELSE s.starting[h]
  BY <1>1, <1>2, <1>5 DEF Files
<1>7. FreeOK(t.glist, t.version, t.starting, t.parent, t.bes, t.fes)
  BY <1>5, <1>6 DEF FileRest, FreeOK, SameElse, SameBackends, SameFrontends
<1>8. StartsUpOK(t.starting, t.parent, P)
  BY <1>5, <1>6 DEF FileRest, StartsUpOK
<1>. QED
  BY <1>5, <1>6, <1>7, <1>8 DEF FileRest, SameElse, SameBackends, SameFrontends

LEMMA CheckStartingInv ==
  ASSUME NEW s, NEW P, NEW M, NEW C, FileRest(s, P, M, C), NEW alive, LivingOK(alive, P),
         NEW g \in Groups, NEW t, t = CheckStarting(s, alive, g)
  PROVE  /\ FileRest(t, P, M, C) /\ SameElse(s, t) /\ t.sigs = s.sigs
         /\ t.glist = s.glist /\ t.version = s.version /\ t.parent = s.parent
         /\ \A h \in Groups : t.starting[h] =
              IF h = g /\ s.starting[g] \notin alive THEN Nil ELSE s.starting[h]
<1>1. CASE s.starting[g] \in alive
  BY <1>1 DEF CheckStarting, SameElse, SameBackends, SameFrontends
<1>2. CASE s.starting[g] \notin alive
  <2>1. PICK x \in Backends \cup Parents \cup {Nil} : x = Nil
    OBVIOUS
  <2>2. t = SetStarting(s, g, x)
    BY <1>2, <2>1 DEF CheckStarting, SetStarting
  <2>3. ASSUME s.parent[g] \in Parents, P[s.parent[g]] \in Starting PROVE FALSE
    <3>1. s.starting[g] = s.parent[g]
      BY <2>3 DEF FileRest, StartsUpOK
    <3>. QED
      BY <1>2, <2>3, <3>1 DEF LivingOK, Starting
  <2>4. /\ FileRest(t, P, M, C) /\ SameElse(s, t) /\ t.sigs = s.sigs
        /\ t.glist = s.glist /\ t.version = s.version /\ t.parent = s.parent
        /\ \A h \in Groups : t.starting[h] = IF h = g THEN x ELSE s.starting[h]
    BY <2>1, <2>2, <2>3, StartingInv
  <2>. QED
    BY <1>2, <2>1, <2>4
<1>. QED
  BY <1>1, <1>2

LEMMA ParentSigInv ==
  ASSUME NEW s, NEW P, NEW M, NEW C, FileRest(s, P, M, C), NEW alive, LivingOK(alive, P), NEW me,
         NEW g \in Groups, NEW sig \in {"0", "USR1"},
         sig = "USR1" /\ s.parent[g] \in Parents => P[s.parent[g]] \notin Starting,
         NEW t, t = ParentSig(s, alive, me, g, sig)
  PROVE  /\ FileRest(t, P, M, C) /\ SameElse(s, t) /\ t.starting = s.starting
         /\ \A m \in Parents : t.sigs[m] \in {s.sigs[m], s.sigs[m] \cup {"USR1"}}
         /\ \A h \in Groups :
              /\ t.version[h] = IF h = g /\ s.parent[g] \notin alive THEN 0 ELSE s.version[h]
              /\ t.parent[h] = IF h = g /\ s.parent[g] \notin alive THEN Nil ELSE s.parent[h]
         /\ Range(t.glist) = Range(s.glist)
<1>1. s \in Files
  BY DEF FileRest
<1>2. CASE s.parent[g] \notin alive
  <2>1. PICK u : u = Invalidate(s, alive, me, {g})
    OBVIOUS
  <2>2. FileRest(u, P, M, C)
    BY <2>1, InvalidateInv
  <2>3. /\ u \in Files /\ SameElse(s, u) /\ u.starting = s.starting /\ u.parent = s.parent
        /\ SameForParents(s, u)
        /\ \A h \in Groups : u.version[h] = IF h \in {g} THEN 0 ELSE s.version[h]
        /\ Range(u.glist) = Range(s.glist)
    BY <1>1, <2>1, InvalidateIs
  <2>4. t = [u EXCEPT !.parent[g] = Nil]
    BY <1>2, <2>1 DEF ParentSig, ParentThere
  <2>5. PICK Q : Q = [u.parent EXCEPT ![g] = Nil]
    OBVIOUS
  <2>6. Q \in [Groups -> Parents \cup {Nil}] /\ t = [u EXCEPT !.parent = Q]
    BY <2>3, <2>4, <2>5 DEF Files
  <2>7. /\ t \in Files /\ SameElse(u, t) /\ t.sigs = u.sigs
        /\ t.glist = u.glist /\ t.version = u.version /\ t.starting = u.starting /\ t.parent = Q
    BY <2>3, <2>6 DEF Files, SameElse, SameBackends, SameFrontends
  <2>8. \A h \in Groups : t.parent[h] = IF h = g THEN Nil ELSE u.parent[h]
    BY <2>3, <2>5, <2>7 DEF Files
  <2>9. FreeOK(t.glist, t.version, t.starting, t.parent, t.bes, t.fes)
    BY <2>2, <2>7, <2>8 DEF FileRest, FreeOK, SameElse, SameBackends, SameFrontends
  <2>10. ParentsOwn(t.parent, t.sigs, P, M)
    <3>1. \A m \in Parents : P[m] \in {"wait", "serve"} => u.parent[g] # m
      BY <1>2, <2>3 DEF LivingOK
    <3>. QED
      BY <2>2, <2>7, <2>8, <3>1 DEF FileRest, ParentsOwn
  <2>11. StartsUpOK(t.starting, t.parent, P)
    <3>1. Nil \notin Parents
      BY KindsAssumption DEF Pids
    <3>. QED
      BY <2>2, <2>7, <2>8, <3>1 DEF FileRest, StartsUpOK
  <2>12. FileRest(t, P, M, C)
    BY <2>2, <2>7, <2>9, <2>10, <2>11 DEF FileRest, SameElse, SameBackends, SameFrontends
  <2>13. \A m \in Parents : t.sigs[m] = s.sigs[m]
    BY <2>3, <2>7 DEF SameForParents
  <2>. QED
    BY <1>2, <2>3, <2>7, <2>8, <2>12, <2>13 DEF SameElse, SameBackends, SameFrontends
<1>3. CASE s.parent[g] \in alive /\ sig = "0"
  BY <1>3 DEF ParentSig, ParentThere, SameElse, SameBackends, SameFrontends
<1>4. CASE s.parent[g] \in alive /\ sig = "USR1"
  <2>1. t = Signal(s, me, {s.parent[g]}, "USR1")
    BY <1>4 DEF ParentSig, ParentThere
  <2>2. s.parent[g] \in Parents
    BY <1>1, <1>4, KindsAssumption DEF Files, LivingOK
  <2>3. P[s.parent[g]] \notin Starting \cup {"none"}
    BY <1>4, <2>2 DEF LivingOK
  <2>4. /\ t \in Files /\ SameGroups(s, t) /\ SameBackends(s, t) /\ SameFrontends(s, t)
        /\ t.sigs = [p \in Pids |-> IF p \in {s.parent[g]} \ {me} THEN s.sigs[p] \cup {"USR1"} ELSE s.sigs[p]]
    BY <1>1, <2>1, SignalIs
  <2>5. FileRest(t, P, M, C)
    BY <2>1, <2>3, SignalInv
  <2>6. \A m \in Parents : t.sigs[m] \in {s.sigs[m], s.sigs[m] \cup {"USR1"}}
    BY <2>4 DEF Pids
  <2>. QED
    BY <1>4, <2>4, <2>5, <2>6 DEF SameGroups, SameElse
<1>. QED
  BY <1>2, <1>3, <1>4

LEMMA StartBeInv ==
  ASSUME NEW s, NEW P, NEW M, NEW C, FileRest(s, P, M, C), NEW alive, LivingOK(alive, P), NEW me,
         NEW g \in Groups, NEW t, t = StartBe(s, alive, me, g)
  PROVE  /\ FileRest(t, P, M, C) /\ SameElse(s, t) /\ t.starting = s.starting
         /\ \A m \in Parents : t.sigs[m] \in {s.sigs[m], s.sigs[m] \cup {"USR1"}}
         /\ \A h \in Groups : /\ t.version[h] \in {0, s.version[h]}
                              /\ t.parent[h] \in {Nil, s.parent[h]}
                              /\ h # g \/ StartBeWorks(s, alive, g) =>
                                   t.version[h] = s.version[h] /\ t.parent[h] = s.parent[h]
         /\ ~StartBeWorks(s, alive, g) => t.version[g] = 0 /\ t.parent[g] = Nil
         /\ Range(t.glist) = Range(s.glist)
<1>1. CASE ParentStartsUp(s, g)
  BY <1>1 DEF StartBe, StartBeWorks, SameElse, SameBackends, SameFrontends
<1>2. CASE ~ParentStartsUp(s, g)
  <2>1. t = ParentSig(s, alive, me, g, "USR1")
    BY <1>2 DEF StartBe
  <2>2. Nil \notin Parents
    BY KindsAssumption DEF Pids
  <2>3. s.parent[g] \in Parents => P[s.parent[g]] \notin Starting
    BY <1>2, <2>2 DEF FileRest, StartsUpOK, ParentStartsUp
  <2>4. PICK sig \in {"0", "USR1"} : sig = "USR1"
    OBVIOUS
  <2>5. /\ FileRest(t, P, M, C) /\ SameElse(s, t) /\ t.starting = s.starting
        /\ \A m \in Parents : t.sigs[m] \in {s.sigs[m], s.sigs[m] \cup {"USR1"}}
        /\ \A h \in Groups :
             /\ t.version[h] = IF h = g /\ s.parent[g] \notin alive THEN 0 ELSE s.version[h]
             /\ t.parent[h] = IF h = g /\ s.parent[g] \notin alive THEN Nil ELSE s.parent[h]
        /\ Range(t.glist) = Range(s.glist)
    BY <2>1, <2>3, <2>4, ParentSigInv
  <2>. QED
    BY <1>2, <2>5 DEF StartBeWorks, ParentThere
<1>. QED
  BY <1>1, <1>2

-----------------------------------------------------------------------------
(* What is done to the queues, the fe_run list and the list of groups      *)

\* c is signalled if it is in T, else no longer.
SetTold(s, c, T) == [s EXCEPT !.sent_sig[c] = c \in T]

LEMMA ToldInv ==
  ASSUME NEW s, NEW P, NEW M, NEW C, FileRest(s, P, M, C), NEW g \in Groups, NEW c \in Frontends,
         NEW T,
         c \in T => c \in Range(s.fes[g]) /\ \A d \in Frontends : ~InOrder(s.fes[g], d, c),
         NEW t, t = SetTold(s, c, T)
  PROVE  /\ FileRest(t, P, M, C) /\ SameGroups(s, t) /\ SameBackends(s, t)
         /\ t.run = s.run /\ t.fes = s.fes /\ t.backend = s.backend /\ t.sigs = s.sigs
<1>1. s \in Files
  BY DEF FileRest
<1>2. PICK F : F = [s.sent_sig EXCEPT ![c] = c \in T]
  OBVIOUS
<1>3. F \in [Frontends -> BOOLEAN] /\ t = [s EXCEPT !.sent_sig = F]
  BY <1>1, <1>2 DEF SetTold, Files
<1>4. /\ t \in Files /\ SameGroups(s, t) /\ SameBackends(s, t)
      /\ t.run = s.run /\ t.fes = s.fes /\ t.backend = s.backend /\ t.sigs = s.sigs
      /\ t.sent_sig = F
  BY <1>1, <1>3 DEF Files, SameGroups, SameBackends
<1>5. \A d \in Frontends : t.sent_sig[d] = IF d = c THEN c \in T ELSE s.sent_sig[d]
  BY <1>1, <1>2, <1>4 DEF Files
<1>6. ToldOK(t.fes, t.sent_sig, P)
  BY <1>4, <1>5 DEF FileRest, ToldOK
<1>. QED
  BY <1>4, <1>6 DEF FileRest, SameGroups, SameBackends

LEMMA SendSigsInv ==
  ASSUME NEW s, NEW P, NEW M, NEW C, FileRest(s, P, M, C), NEW alive, LivingOK(alive, P),
         NEW g \in Groups, NEW t, t = SendSigs(s, alive, g)
  PROVE  /\ FileRest(t, P, M, C) /\ SameGroups(s, t) /\ SameBackends(s, t)
         /\ t.run = s.run /\ t.backend = s.backend /\ t.sigs = s.sigs
         /\ \A h \in Groups : \A c \in alive : c \in Range(s.fes[h]) => c \in Range(t.fes[h])
<1>1. s \in Files
  BY DEF FileRest
<1>2. PICK queue \in Seq(Frontends) : queue = s.fes[g]
  BY <1>1 DEF Files
<1>3. PICK dead : dead = {queue[i] : i \in {j \in DOMAIN queue : \A k \in 1 .. j : queue[k] \notin alive}}
  OBVIOUS
<1>4. \A c \in dead : c \in Range(s.fes[g]) /\ c \in Frontends /\ c \notin alive
  <2>1. \A j \in DOMAIN queue : j \in 1 .. j /\ queue[j] \in Range(queue) /\ queue[j] \in Frontends
    BY DEF Range
  <2>. QED
    BY <1>2, <1>3, <2>1
<1>5. PICK u : u = DisposeFrontend(s, dead)
  OBVIOUS
<1>6. \A c \in dead \cap Frontends : P[c] \notin Waiting /\ c \notin Range(s.run)
  BY <1>4 DEF FileRest, ApartOK, LivingOK, Gone, Waiting
<1>7. /\ FileRest(u, P, M, C) /\ SameGroups(s, u) /\ SameBackends(s, u)
      /\ u.run = s.run /\ u.backend = s.backend /\ u.sigs = s.sigs
      /\ \A h \in Groups : Range(u.fes[h]) = Range(s.fes[h]) \ dead
  BY <1>5, <1>6, DisposeFrontendInv
<1>8. t = IF s.bes[g] = <<>> \/ ~IsWaiting(s, Head(s.bes[g])) THEN s
          ELSE IF u.fes[g] = <<>> THEN u
          ELSE [u EXCEPT !.sent_sig[Head(u.fes[g])] = TRUE]
  BY <1>2, <1>3, <1>5 DEF SendSigs
<1>9. CASE t = s
  BY <1>9 DEF SameGroups, SameBackends
<1>10. CASE t = u
  BY <1>4, <1>7, <1>10
<1>11. CASE u.fes[g] # <<>> /\ t = [u EXCEPT !.sent_sig[Head(u.fes[g])] = TRUE]
  <2>1. u.fes[g] \in Seq(Frontends) /\ IsInjective(u.fes[g])
    BY <1>7 DEF FileRest, Files, OnceOK
  <2>2. PICK c \in Frontends : c = Head(u.fes[g])
    BY <1>11, <2>1
  <2>3. c \in Range(u.fes[g]) /\ \A d \in Frontends : ~InOrder(u.fes[g], d, c)
    BY <1>11, <2>1, <2>2, HeadIs
  <2>4. PICK T : T = {c}
    OBVIOUS
  <2>5. t = SetTold(u, c, T)
    BY <1>11, <2>2, <2>4 DEF SetTold
  <2>6. /\ FileRest(t, P, M, C) /\ SameGroups(u, t) /\ SameBackends(u, t)
        /\ t.run = u.run /\ t.fes = u.fes /\ t.backend = u.backend /\ t.sigs = u.sigs
    BY <1>7, <2>3, <2>5, ToldInv
  <2>. QED
    BY <1>4, <1>7, <2>6 DEF SameGroups, SameBackends
<1>. QED
  BY <1>8, <1>9, <1>10, <1>11

\* Nobody is sooner than himself.
LEMMA SoonerThanOneself ==
  ASSUME NEW s \in Files, NEW g \in Range(s.glist), NEW c \in Frontends, c \in Range(s.fes[g]),
         NEW p, p[1] \in Range(s.glist), p[2] \in Range(s.fes[p[1]])
  PROVE  ~IsSooner(s, g, c, p, p)
<1>1. ASSUME NEW S, NEW list \in Seq(S), NEW x \in Range(list) PROVE Position(list, x) \in 1 .. Len(list)
  <2>1. \E i \in DOMAIN list : list[i] = x
    BY DEF Range
  <2>2. Position(list, x) \in DOMAIN list
    BY <2>1 DEF Position
  <2>. QED
    BY <2>2
<1>2. s.glist \in Seq(Groups) /\ Range(s.glist) \subseteq Groups
  BY ElementsOf DEF Files
<1>3. s.fes[g] \in Seq(Frontends) /\ s.fes[p[1]] \in Seq(Frontends)
  BY <1>2 DEF Files
<1>4. PICK n : n = Len(s.glist)
  OBVIOUS
<1>5. PICK a, b, d : /\ a = Position(s.glist, p[1]) /\ b = Position(s.glist, g)
                     /\ d = Position(s.fes[p[1]], p[2])
  OBVIOUS
<1>6. n \in Nat /\ a \in 1 .. n /\ b \in 1 .. n /\ d \in Int
  BY <1>1, <1>2, <1>3, <1>4, <1>5
<1>7. (n + a - b) % n \in Int
  BY <1>6
<1>8. PICK h : h = Hops(s, g, c, p[1], p[2])
  OBVIOUS
<1>9. h \in Int
  BY <1>4, <1>5, <1>6, <1>7, <1>8 DEF Hops
<1>10. ~(h < h) /\ ~(d > d)
  BY <1>6, <1>9
<1>. QED
  BY <1>5, <1>8, <1>10 DEF IsSooner

LEMMA CheckPrevInv ==
  ASSUME NEW s, NEW P, NEW M, NEW C, FileRest(s, P, M, C), NEW alive, LivingOK(alive, P),
         NEW c \in Frontends, c \in alive, NEW g \in Groups, c \in Range(s.fes[g]),
         NEW t, t = CheckPrev(s, alive, c, g)
  PROVE  /\ FileRest(t, P, M, C) /\ SameBackends(s, t)
         /\ t.run = s.run /\ t.backend = s.backend
         /\ c \in Range(t.fes[g]) /\ g \in Range(t.glist)
         /\ \A m \in Parents : t.sigs[m] \in {s.sigs[m], s.sigs[m] \cup {"KILL"}}
         /\ \A h \in Groups :
              /\ t.version[h] \in {0, s.version[h]}
              /\ \/ t.starting[h] = s.starting[h] /\ t.parent[h] = s.parent[h]
                 \/ t.starting[h] = Nil /\ t.parent[h] = Nil /\ t.version[h] = 0
         /\ t.version[g] = s.version[g] /\ t.starting[g] = s.starting[g] /\ t.parent[g] = s.parent[g]
<1>1. s \in Files /\ s.glist \in Seq(Groups) /\ Range(s.glist) \subseteq Groups
  BY ElementsOf DEF FileRest, Files
<1>2. g \in Range(s.glist)
  BY EmptyList DEF FileRest, FreeOK
<1>3. PICK queued : queued = UNION {{h} \X Range(s.fes[h]) : h \in Range(s.glist)}
  OBVIOUS
<1>4. PICK passed : passed = {p \in queued : \A q \in queued : q[2] \in alive => IsSooner(s, g, c, p, q)}
  OBVIOUS
<1>5. \A p \in queued : p[1] \in Range(s.glist) /\ p[2] \in Range(s.fes[p[1]])
  BY <1>3
<1>6. \A p \in passed : p \in queued /\ p[2] \notin alive
  <2>1. ASSUME NEW p \in passed PROVE p[2] \notin alive
    <3>1. p \in queued /\ (p[2] \in alive => IsSooner(s, g, c, p, p))
      BY <1>4
    <3>2. ~IsSooner(s, g, c, p, p)
      BY <1>1, <1>2, <1>5, <3>1, SoonerThanOneself
    <3>. QED
      BY <3>1, <3>2
  <2>. QED
    BY <1>4, <2>1
<1>7. PICK D : D = {p[2] : p \in passed}
  OBVIOUS
<1>8. PICK G \in SUBSET Groups : G = {p[1] : p \in passed}
  BY <1>1, <1>5, <1>6
<1>9. \A d \in D : d \notin alive /\ \E h \in Groups : d \in Range(s.fes[h])
  BY <1>1, <1>5, <1>6, <1>7
<1>10. \A d \in D \cap Frontends : P[d] \notin Waiting /\ d \notin Range(s.run)
  BY <1>9 DEF FileRest, ApartOK, LivingOK, Gone, Waiting
<1>11. PICK u : u = DisposeFrontend(s, D)
  OBVIOUS
<1>12. /\ FileRest(u, P, M, C) /\ SameGroups(s, u) /\ SameBackends(s, u)
       /\ u.run = s.run /\ u.backend = s.backend /\ u.sigs = s.sigs
       /\ \A h \in Groups : Range(u.fes[h]) = Range(s.fes[h]) \ D
  BY <1>10, <1>11, DisposeFrontendInv
<1>13. t = Cleanup(u, alive, c, G)
  BY <1>3, <1>4, <1>7, <1>8, <1>11 DEF CheckPrev
<1>14. c \notin Parents
  BY KindsAssumption
<1>15. /\ FileRest(t, P, M, C) /\ SameElse(u, t)
       /\ \A m \in Parents : t.sigs[m] \in {u.sigs[m], u.sigs[m] \cup {"KILL"}}
       /\ \A h \in Groups :
            /\ h \in Emptied(u, G) => t.version[h] = 0 /\ t.starting[h] = Nil /\ t.parent[h] = Nil
            /\ h \notin Emptied(u, G) => /\ t.version[h] = u.version[h]
                                         /\ t.starting[h] = u.starting[h] /\ t.parent[h] = u.parent[h]
       /\ Range(t.glist) = Range(u.glist) \ Emptied(u, G)
  BY <1>12, <1>13, <1>14, CleanupInv
<1>16. c \in Range(u.fes[g])
  BY <1>9, <1>12
<1>17. g \notin Emptied(u, G)
  BY <1>16, EmptyList DEF Emptied
<1>18. SameBackends(s, t) /\ t.run = s.run /\ t.backend = s.backend /\ t.fes = u.fes
  BY <1>12, <1>15 DEF SameElse, SameBackends, SameFrontends
<1>. QED
  BY <1>2, <1>12, <1>15, <1>16, <1>17, <1>18 DEF SameGroups

\* The only valid group is the one in front.
LEMMA ValidIsHead ==
  ASSUME NEW s, s \in Files, OnceOK(s.glist, s.run, s.bes, s.fes),
         FreeOK(s.glist, s.version, s.starting, s.parent, s.bes, s.fes),
         ValidOK(s.glist, s.version), NEW g \in Groups, s.version[g] # 0
  PROVE  s.glist # <<>> /\ g = s.glist[1]
<1>1. s.glist \in Seq(Groups)
  BY DEF Files
<1>2. g \in Range(s.glist)
  BY DEF FreeOK
<1>3. \A h \in Groups : ~InOrder(s.glist, h, g)
  BY DEF ValidOK
<1>4. s.glist # <<>> /\ Head(s.glist) = g
  BY <1>1, <1>2, <1>3, FirstIsHead
<1>. QED
  BY <1>1, <1>4

\* speedy_script_find left the group g, with version v, in front.
HasFound(s, t, v, g) ==
  /\ SameElse(s, t) /\ t.starting = s.starting /\ t.parent = s.parent
  /\ SameForParents(s, t)
  /\ g \in Groups /\ Range(t.glist) = Range(s.glist) \cup {g}
  /\ g \in Range(s.glist) => s.version[g] = v
  /\ t.version[g] = v /\ \A h \in Groups \ {g} : t.version[h] = 0

LEMMA ScriptFindInv ==
  ASSUME NEW s, NEW P, NEW M, NEW C, FileRest(s, P, M, C), NEW alive, NEW me,
         NEW v \in Nat, NEW g, g \in Findable(s, v), NEW t, t = ScriptFind(s, alive, me, v, g)
  PROVE  FileRest(t, P, M, C) /\ HasFound(s, t, v, g)
<1>. SUFFICES /\ FileRest(t, P, M, C) /\ SameElse(s, t) /\ t.starting = s.starting /\ t.parent = s.parent
              /\ SameForParents(s, t)
              /\ g \in Groups /\ Range(t.glist) = Range(s.glist) \cup {g}
              /\ g \in Range(s.glist) => s.version[g] = v
              /\ t.version[g] = v /\ \A h \in Groups \ {g} : t.version[h] = 0
  BY DEF HasFound
<1>1. s \in Files
  BY DEF FileRest
<1>2. /\ s.glist \in Seq(Groups) /\ Range(s.glist) \subseteq Groups
      /\ \A j \in DOMAIN s.glist : /\ 1 \in 1 .. j /\ j \in 1 .. j /\ s.glist[j] \in Groups
                                   /\ j = 1 \/ 1 \in 1 .. j - 1
      /\ s.glist # <<>> => 1 \in DOMAIN s.glist
  <2>1. s.glist \in Seq(Groups)
    BY <1>1 DEF Files
  <2>. QED
    BY <2>1, ElementsOf
<1>3. PICK others : others = OtherVersions(s, v)
  OBVIOUS
<1>4. others \in SUBSET Groups
  BY <1>2, <1>3 DEF OtherVersions, Range
<1>5. g \in Groups
  <2>1. Found(s, v) \subseteq Range(s.glist)
    BY DEF Found, Range
  <2>. QED
    BY <1>2, <2>1 DEF Findable
<1>6. PICK u : u = Invalidate(s, alive, me, others)
  OBVIOUS
<1>7. FileRest(u, P, M, C)
  BY <1>4, <1>6, InvalidateInv
<1>8. /\ u \in Files /\ SameElse(s, u) /\ u.starting = s.starting /\ u.parent = s.parent
      /\ SameForParents(s, u)
      /\ \A h \in Groups : u.version[h] = IF h \in others THEN 0 ELSE s.version[h]
      /\ Range(u.glist) = Range(s.glist)
  BY <1>1, <1>4, <1>6, InvalidateIs
<1>9. ASSUME NEW h \in Groups, h # g, u.version[h] # 0 PROVE FALSE
  <2>1. s.version[h] # 0 /\ h \notin others
    BY <1>8, <1>9
  <2>2. s.glist # <<>> /\ h = s.glist[1]
    BY <2>1, ValidIsHead DEF FileRest
  <2>3. 1 \in DOMAIN s.glist
    BY <1>2, <2>2
  <2>4. s.version[h] = v
    BY <1>3, <2>1, <2>2, <2>3 DEF OtherVersions
  <2>5. h \in Found(s, v)
    BY <2>2, <2>3, <2>4 DEF Found
  <2>6. g \in Found(s, v)
    BY <2>5 DEF Findable
  <2>7. PICK j \in DOMAIN s.glist : g = s.glist[j] /\ \A k \in 1 .. j - 1 : s.glist[k] \in others
    BY <1>3, <2>6 DEF Found
  <2>8. h \in others
    BY <1>2, <1>9, <2>2, <2>7
  <2>. QED
    BY <2>1, <2>8
<1>10. PICK w \in Seq(Groups) : w = Without(u.glist, {g})
  BY <1>8, WithoutIs DEF Files
<1>11. PICK o \in Seq(Groups) : o = <<g>>
  <2>1. <<g>> \in Seq(Groups)
    BY <1>5
  <2>. QED
    BY <2>1, Zenon
<1>12. PICK l \in Seq(Groups) : l = o \o w
  BY Joined
<1>13. PICK V : V = [u.version EXCEPT ![g] = v]
  OBVIOUS
<1>14. V \in [Groups -> Nat] /\ \A h \in Groups : V[h] = IF h = g THEN v ELSE u.version[h]
  BY <1>5, <1>8, <1>13 DEF Files
<1>15. t = [u EXCEPT !.glist = l, !.version = V]
  <2>1. t = [u EXCEPT !.glist = <<g>> \o Without(@, {g}), !.version[g] = v]
    BY <1>3, <1>6 DEF ScriptFind
  <2>2. t = [u EXCEPT !.glist = <<g>> \o Without(u.glist, {g}), !.version = [u.version EXCEPT ![g] = v]]
    BY <1>8, <2>1 DEF Files
  <2>3. t = [u EXCEPT !.glist = o \o w, !.version = V]
    BY <1>10, <1>11, <1>13, <2>2, Zenon
  <2>. QED
    BY <1>12, <2>3, Zenon
<1>16. /\ t \in Files /\ SameElse(u, t) /\ t.sigs = u.sigs /\ t.starting = u.starting
       /\ t.parent = u.parent /\ t.glist = l /\ t.version = V
  BY <1>8, <1>14, <1>15 DEF Files, SameElse, SameBackends, SameFrontends
<1>17. /\ Range(o) = {g} /\ \A x, y : ~InOrder(o, x, y)
  BY <1>11, OneElement
<1>18. /\ Range(w) = Range(s.glist) \ {g}
       /\ \A x, y : InOrder(w, x, y) <=> InOrder(u.glist, x, y) /\ x \notin {g} /\ y \notin {g}
  <2>1. u.glist \in Seq(Groups)
    BY <1>8 DEF Files
  <2>2. PICK D : D = {g}
    OBVIOUS
  <2>3. w = Without(u.glist, D)
    BY <1>10, <2>2
  <2>4. /\ Range(w) = Range(u.glist) \ D
        /\ \A x, y : InOrder(w, x, y) <=> InOrder(u.glist, x, y) /\ x \notin D /\ y \notin D
    BY <2>1, <2>3, WithoutIs
  <2>. QED
    BY <1>8, <2>2, <2>4
<1>19. /\ Range(l) = Range(o) \cup Range(w)
       /\ \A x, y : InOrder(l, x, y) <=>
            \/ InOrder(o, x, y) \/ InOrder(w, x, y)
            \/ x \in Range(o) /\ y \in Range(w)
  BY <1>12, Joined
<1>20. \A x, y : InOrder(l, x, y) => y # g /\ (InOrder(u.glist, x, y) \/ x = g)
  <2>1. \A x, y : InOrder(w, x, y) => y \in Range(w)
    BY <1>10, ElementsOf
  <2>. QED
    BY <1>17, <1>18, <1>19
<1>21. OnceOK(t.glist, t.run, t.bes, t.fes)
  <2>1. u.glist \in Seq(Groups) /\ IsInjective(u.glist)
    BY <1>7, <1>8 DEF FileRest, OnceOK, Files
  <2>2. \A x : ~InOrder(u.glist, x, x)
    BY <2>1, OnceMeans
  <2>3. IsInjective(l)
    BY <1>20, <2>2, OnceMeans
  <2>. QED
    BY <1>7, <1>16, <2>3 DEF FileRest, OnceOK, SameElse, SameBackends, SameFrontends
<1>22. FreeOK(t.glist, t.version, t.starting, t.parent, t.bes, t.fes)
  <2>1. \A h \in Groups \ Range(t.glist) : h \notin Range(u.glist) /\ t.version[h] = u.version[h]
    BY <1>8, <1>14, <1>16, <1>17, <1>18, <1>19
  <2>. QED
    BY <1>7, <1>16, <2>1 DEF FileRest, FreeOK, SameElse, SameBackends, SameFrontends
<1>23. ValidOK(t.glist, t.version)
  BY <1>9, <1>14, <1>16, <1>20 DEF ValidOK
<1>24. FileRest(t, P, M, C)
  BY <1>7, <1>16, <1>21, <1>22, <1>23 DEF FileRest, SameElse, SameBackends, SameFrontends
<1>25. SameForParents(s, t) /\ SameElse(s, t) /\ t.starting = s.starting /\ t.parent = s.parent
  BY <1>8, <1>16 DEF SameForParents, SameElse, SameBackends, SameFrontends
<1>26. Range(t.glist) = Range(s.glist) \cup {g}
  BY <1>16, <1>17, <1>18, <1>19
<1>27. t.version[g] = v /\ \A h \in Groups \ {g} : t.version[h] = 0
  BY <1>5, <1>9, <1>14, <1>16
<1>28. g \in Range(s.glist) => s.version[g] = v
  BY DEF Findable, Found
<1>. QED
  BY <1>5, <1>24, <1>25, <1>26, <1>27, <1>28

LEMMA CleanRunningInv ==
  ASSUME NEW s, NEW P, NEW M, NEW C, NEW L, FileInv(s, L, P, M, C), NEW alive, LivingOK(alive, P),
         NEW t, t = CleanRunning(s, alive)
  PROVE  /\ FileInv(t, L, P, M, C) /\ SameGroups(s, t)
         /\ t.bes = s.bes /\ t.maturity = s.maturity /\ t.sigs = s.sigs
<1>1. s.run \in Seq(Frontends)
  BY DEF FileInv, FileRest, Files
<1>2. PICK D : D = {s.run[i] : i \in {j \in DOMAIN s.run : \A k \in j .. Len(s.run) : s.run[k] \notin alive}}
  OBVIOUS
<1>3. \A j \in DOMAIN s.run : j \in j .. Len(s.run) /\ s.run[j] \in Frontends
  BY <1>1
<1>4. D \in SUBSET Frontends /\ \A c \in D : c \notin alive
  BY <1>2, <1>3
<1>5. \A c \in D : P[c] \notin Active
  BY <1>4 DEF LivingOK, Gone, Active
<1>6. t = RemoveRunning(s, D)
  BY <1>2 DEF CleanRunning
<1>. QED
  BY <1>4, <1>5, <1>6, RemoveRunningInv

\* A group gets the parent m, that starts up.
SetBoth(s, g, m) == [s EXCEPT !.parent[g] = m, !.starting[g] = m]

LEMMA SpawnedInv ==
  ASSUME NEW s, NEW P, NEW M, NEW C, FileRest(s, P, M, C), NEW g \in Groups, g \in Range(s.glist),
         s.parent[g] = Nil, NEW m \in Parents, P[m] \in Starting,
         NEW t, t = SetBoth(s, g, m)
  PROVE  /\ FileRest(t, P, M, C) /\ SameElse(s, t) /\ t.sigs = s.sigs
         /\ t.glist = s.glist /\ t.version = s.version
         /\ \A h \in Groups : /\ t.parent[h] = IF h = g THEN m ELSE s.parent[h]
                              /\ t.starting[h] = IF h = g THEN m ELSE s.starting[h]
<1>1. s \in Files
  BY DEF FileRest
<1>2. PICK S : S = [s.starting EXCEPT ![g] = m]
  OBVIOUS
<1>3. PICK Q : Q = [s.parent EXCEPT ![g] = m]
  OBVIOUS
<1>4. S \in [Groups -> Backends \cup Parents \cup {Nil}] /\ Q \in [Groups -> Parents \cup {Nil}]
  BY <1>1, <1>2, <1>3 DEF Files
<1>5. t = [s EXCEPT !.parent = Q, !.starting = S]
  BY <1>1, <1>2, <1>3 DEF SetBoth, Files
<1>6. /\ t \in Files /\ SameElse(s, t) /\ t.sigs = s.sigs
      /\ t.glist = s.glist /\ t.version = s.version /\ t.starting = S /\ t.parent = Q
  BY <1>1, <1>4, <1>5 DEF Files, SameElse, SameBackends, SameFrontends
<1>7. \A h \in Groups : /\ t.parent[h] = IF h = g THEN m ELSE s.parent[h]
                        /\ t.starting[h] = IF h = g THEN m ELSE s.starting[h]
  BY <1>1, <1>2, <1>3, <1>6 DEF Files
<1>8. FreeOK(t.glist, t.version, t.starting, t.parent, t.bes, t.fes)
  BY <1>6, <1>7 DEF FileRest, FreeOK, SameElse, SameBackends, SameFrontends
<1>9. ParentsOwn(t.parent, t.sigs, P, M)
  BY <1>6, <1>7, KindsAssumption DEF FileRest, ParentsOwn, Pids
<1>10. StartsUpOK(t.starting, t.parent, P)
  BY <1>6, <1>7 DEF FileRest, StartsUpOK
<1>. QED
  BY <1>6, <1>7, <1>8, <1>9, <1>10 DEF FileRest, SameElse, SameBackends, SameFrontends

\* m, if there is one, is a parent that no group has yet.
IsNew(s, m, P) ==
  m \in Parents => /\ P[m] \in Starting
                   /\ \A h \in Groups : s.starting[h] # m /\ s.parent[h] # m

WithNew(alive, m) == alive \cup ({m} \cap Parents)

\* What a frontend's look at the group's parent makes of group g: who starts,
\* and who is the parent.
Checked(s, t, g, m, P) ==
  \/ t.version[g] = s.version[g] /\ t.starting[g] = s.starting[g] /\ t.parent[g] = s.parent[g]
  \/ t.version[g] = s.version[g] /\ t.starting[g] = Nil /\ t.parent[g] = s.parent[g]
  \/ t.version[g] = 0 /\ t.starting[g] = Nil /\ t.parent[g] = Nil
  \/ t.version[g] = s.version[g] /\ s.parent[g] = Nil /\ t.starting[g] = m /\ t.parent[g] = m
  \/ /\ t.version[g] = s.version[g] /\ t.starting[g] = s.parent[g] /\ t.parent[g] = s.parent[g]
     /\ t.parent[g] \in Parents /\ "USR1" \in t.sigs[t.parent[g]]
     /\ BelowMaxBackends(s, g)

AfterCheck(s, t, g, m, P) ==
  /\ SameElse(s, t) /\ Range(t.glist) = Range(s.glist)
  /\ \A p \in Parents : t.sigs[p] \in {s.sigs[p], s.sigs[p] \cup {"USR1"}}
  /\ \A h \in Groups : h # g =>
       t.version[h] = s.version[h] /\ t.starting[h] = s.starting[h] /\ t.parent[h] = s.parent[h]
  /\ Checked(s, t, g, m, P)

LEMMA BackendCheckInv ==
  ASSUME NEW s, NEW P, NEW M, NEW C, FileRest(s, P, M, C), NEW alive, NEW m \in Parents \cup {Nil},
         NEW pids, pids = WithNew(alive, m), LivingOK(pids, P),
         NEW me, me \notin Parents, NEW g \in Groups, g \in Range(s.glist), NEW did,
         IsNew(s, m, P),
         NEW r, r = BackendCheck(s, alive, me, g, did, m),
         NEW t, t = r.s
  PROVE  FileRest(t, P, M, C) /\ AfterCheck(s, t, g, m, P)
<1>. SUFFICES /\ FileRest(t, P, M, C) /\ SameElse(s, t) /\ Range(t.glist) = Range(s.glist)
              /\ \A p \in Parents : t.sigs[p] \in {s.sigs[p], s.sigs[p] \cup {"USR1"}}
              /\ \A h \in Groups : h # g =>
                   t.version[h] = s.version[h] /\ t.starting[h] = s.starting[h] /\ t.parent[h] = s.parent[h]
              /\ Checked(s, t, g, m, P)
  BY DEF AfterCheck
<1>1. s \in Files /\ s.starting[g] \in Backends \cup Parents \cup {Nil} /\ s.parent[g] \in Parents \cup {Nil}
  BY DEF FileRest, Files
<1>2. Nil \notin Parents
  BY KindsAssumption DEF Pids
<1>3. s.starting[g] \in alive <=> s.starting[g] \in pids
  BY <1>2 DEF IsNew, WithNew
<1>4. PICK u : u = CheckStarting(s, alive, g)
  OBVIOUS
<1>5. u = CheckStarting(s, pids, g)
  BY <1>3, <1>4 DEF CheckStarting
<1>6. /\ FileRest(u, P, M, C) /\ SameElse(s, u) /\ u.sigs = s.sigs
      /\ u.glist = s.glist /\ u.version = s.version /\ u.parent = s.parent
      /\ \A h \in Groups : u.starting[h] =
           IF h = g /\ s.starting[g] \notin pids THEN Nil ELSE s.starting[h]
  BY <1>5, CheckStartingInv
<1>7. CASE s.starting[g] \in alive
  <2>1. t = s
    BY <1>7 DEF BackendCheck, WithNew
  <2>. QED
    BY <2>1 DEF SameElse, SameBackends, SameFrontends, Checked
<1>8. CASE s.starting[g] \notin alive /\ did
  <2>1. t = u
    BY <1>4, <1>8 DEF BackendCheck, WithNew
  <2>. QED
    BY <1>3, <1>6, <1>8, <2>1 DEF Checked
<1>9. CASE s.starting[g] \notin alive /\ ~did
  <2>1. PICK w : w = IF u.parent[g] = Nil THEN [u EXCEPT !.parent[g] = m, !.starting[g] = m] ELSE u
    OBVIOUS
  <2>2. PICK x : x = StartBe(w, pids, me, g)
    OBVIOUS
  <2>3. r = IF ~BelowMaxBackends(w, g)
              THEN [s |-> ParentSig(w, pids, me, g, "0"), ok |-> TRUE, did_spawn |-> FALSE]
            ELSE IF StartBeWorks(w, pids, g)
              THEN [s |-> [x EXCEPT !.starting[g] = x.parent[g]], ok |-> TRUE, did_spawn |-> TRUE]
            ELSE [s |-> x, ok |-> TRUE, did_spawn |-> FALSE]
    BY <1>4, <1>9, <2>1, <2>2 DEF BackendCheck, WithNew
  <2>4. u.starting[g] = Nil
    BY <1>3, <1>6, <1>9
  <2>5. /\ FileRest(w, P, M, C) /\ SameElse(s, w) /\ w.sigs = s.sigs
        /\ w.glist = s.glist /\ w.version = s.version
        /\ \A h \in Groups : h # g => w.starting[h] = s.starting[h] /\ w.parent[h] = s.parent[h]
        /\ \/ w.starting[g] = Nil /\ w.parent[g] = s.parent[g]
           \/ s.parent[g] = Nil /\ m \in Parents /\ w.starting[g] = m /\ w.parent[g] = m
    <3>1. CASE u.parent[g] = Nil /\ m \in Parents
      <4>1. w = SetBoth(u, g, m)
        BY <2>1, <3>1 DEF SetBoth
      <4>2. /\ FileRest(w, P, M, C) /\ SameElse(u, w) /\ w.sigs = u.sigs
            /\ w.glist = u.glist /\ w.version = u.version
            /\ \A h \in Groups : /\ w.parent[h] = IF h = g THEN m ELSE u.parent[h]
                                 /\ w.starting[h] = IF h = g THEN m ELSE u.starting[h]
        <5>1. g \in Range(u.glist) /\ u.parent[g] = Nil /\ m \in Parents /\ P[m] \in Starting
          BY <1>6, <3>1 DEF IsNew
        <5>. QED
          BY <1>6, <4>1, <5>1, SpawnedInv
      <4>. QED
        BY <1>6, <3>1, <4>2 DEF SameElse, SameBackends, SameFrontends
    <3>2. CASE u.parent[g] = Nil /\ m = Nil
      <4>1. u \in Files
        BY <1>6 DEF FileRest
      <4>2. [u.parent EXCEPT ![g] = Nil] = u.parent /\ [u.starting EXCEPT ![g] = Nil] = u.starting
        BY <2>4, <3>2, <4>1 DEF Files
      <4>3. w = [u EXCEPT !.parent = [u.parent EXCEPT ![g] = Nil],
                          !.starting = [u.starting EXCEPT ![g] = Nil]]
        BY <2>1, <3>2, <4>1 DEF Files
      <4>4. w = [u EXCEPT !.parent = u.parent, !.starting = u.starting]
        BY <4>2, <4>3
      <4>5. w = u
        BY <4>1, <4>4 DEF Files
      <4>. QED
        BY <1>6, <2>4, <4>5
    <3>3. CASE u.parent[g] # Nil
      BY <1>6, <2>1, <2>4, <3>3
    <3>. QED
      BY <3>1, <3>2, <3>3
  <2>6. w.parent[g] \in Parents \cup {Nil} /\ Nil \notin pids
    <3>1. Nil \notin Pids
      BY KindsAssumption
    <3>. QED
      BY <1>1, <2>5, <3>1 DEF LivingOK
  <2>7. BelowMaxBackends(w, g) <=> BelowMaxBackends(s, g)
    BY <2>5 DEF BelowMaxBackends, SameElse, SameBackends
  <2>8. CASE ~BelowMaxBackends(w, g)
    <3>1. t = ParentSig(w, pids, me, g, "0")
      BY <2>3, <2>8
    <3>2. PICK sig \in {"0", "USR1"} : sig = "0"
      OBVIOUS
    <3>3. /\ FileRest(t, P, M, C) /\ SameElse(w, t) /\ t.starting = w.starting
          /\ \A p \in Parents : t.sigs[p] \in {w.sigs[p], w.sigs[p] \cup {"USR1"}}
          /\ \A h \in Groups :
               /\ t.version[h] = IF h = g /\ w.parent[g] \notin pids THEN 0 ELSE w.version[h]
               /\ t.parent[h] = IF h = g /\ w.parent[g] \notin pids THEN Nil ELSE w.parent[h]
          /\ Range(t.glist) = Range(w.glist)
      BY <2>5, <3>1, <3>2, ParentSigInv
    <3>4. Checked(s, t, g, m, P)
      <4>1. m \in Parents => m \in pids
        BY DEF WithNew
      <4>. QED
        BY <2>5, <3>3, <4>1 DEF Checked
    <3>. QED
      BY <2>5, <3>3, <3>4 DEF SameElse, SameBackends, SameFrontends
  <2>9. CASE BelowMaxBackends(w, g)
    <3>1. /\ FileRest(x, P, M, C) /\ SameElse(w, x) /\ x.starting = w.starting
          /\ \A p \in Parents : x.sigs[p] \in {w.sigs[p], w.sigs[p] \cup {"USR1"}}
          /\ \A h \in Groups : /\ x.version[h] \in {0, w.version[h]}
                               /\ x.parent[h] \in {Nil, w.parent[h]}
                               /\ h # g \/ StartBeWorks(w, pids, g) =>
                                    x.version[h] = w.version[h] /\ x.parent[h] = w.parent[h]
          /\ ~StartBeWorks(w, pids, g) => x.version[g] = 0 /\ x.parent[g] = Nil
          /\ Range(x.glist) = Range(w.glist)
      BY <2>2, <2>5, StartBeInv
    <3>2. CASE ~StartBeWorks(w, pids, g)
      <4>1. t = x
        BY <2>3, <2>9, <3>2
      <4>2. w.starting[g] = Nil
        BY <1>2, <2>5, <3>2 DEF StartBeWorks, ParentStartsUp
      <4>3. Checked(s, t, g, m, P)
        BY <3>1, <3>2, <4>1, <4>2 DEF Checked
      <4>. QED
        BY <2>5, <3>1, <4>1, <4>3 DEF SameElse, SameBackends, SameFrontends
    <3>3. CASE StartBeWorks(w, pids, g)
      <4>1. t = SetStarting(x, g, x.parent[g])
        BY <2>3, <2>9, <3>3 DEF SetStarting
      <4>2. PICK p : p = x.parent[g]
        OBVIOUS
      <4>3. p = w.parent[g] /\ p \in Backends \cup Parents \cup {Nil} /\ p \in Parents
        BY <2>6, <3>1, <3>3, <4>2 DEF StartBeWorks, ParentStartsUp, ParentThere
      <4>4. g \in Range(x.glist)
        BY <2>5, <3>1
      <4>5. /\ FileRest(t, P, M, C) /\ SameElse(x, t) /\ t.sigs = x.sigs
            /\ t.glist = x.glist /\ t.version = x.version /\ t.parent = x.parent
            /\ \A h \in Groups : t.starting[h] = IF h = g THEN p ELSE x.starting[h]
        BY <3>1, <4>1, <4>2, <4>3, <4>4, StartingInv
      <4>6. SameElse(s, t)
        BY <2>5, <3>1, <4>5 DEF SameElse, SameBackends, SameFrontends
      <4>7. Checked(s, t, g, m, P)
        <5>1. CASE w.parent[g] # w.starting[g]
          <6>1. w.parent[g] = s.parent[g] /\ w.starting[g] = Nil
            BY <2>5, <5>1
          <6>2. x = ParentSig(w, pids, me, g, "USR1") /\ w.parent[g] \in pids
            BY <2>2, <3>3, <5>1 DEF StartBe, StartBeWorks, ParentStartsUp, ParentThere
          <6>3. x = Signal(w, me, {p}, "USR1")
            BY <4>3, <6>2 DEF ParentSig, ParentThere
          <6>4. w \in Files
            BY <2>5 DEF FileRest
          <6>5. p # me /\ p \in Pids
            BY <4>3 DEF Pids
          <6>6. "USR1" \in x.sigs[p]
            BY <6>3, <6>4, <6>5 DEF Signal, Files
          <6>. QED
            BY <2>5, <2>7, <2>9, <3>1, <3>3, <4>2, <4>3, <4>5, <6>1, <6>6 DEF Checked
        <5>2. CASE w.parent[g] = w.starting[g]
          <6>1. s.parent[g] = Nil /\ p = m
            BY <1>2, <2>5, <4>3, <5>2
          <6>. QED
            BY <2>5, <3>1, <3>3, <4>2, <4>5, <6>1 DEF Checked
        <5>. QED
          BY <5>1, <5>2
      <4>. QED
        BY <2>5, <3>1, <4>5, <4>6, <4>7
    <3>. QED
      BY <3>2, <3>3
  <2>. QED
    BY <2>8, <2>9
<1>. QED
  BY <1>7, <1>8, <1>9

-----------------------------------------------------------------------------
(* Backends that wait, and backends that are taken                         *)

SetMaturity(s, b, n) == [s EXCEPT !.maturity[b] = n]

\* The list of be_wait_put: A are the backends of the list in front of b.
PutList(list, A, b) == Without(list, Backends \ A) \o <<b>> \o Without(list, A)

LEMMA PutListIs ==
  ASSUME NEW list \in Seq(Backends), NEW b \in Backends, NEW A \in SUBSET Backends,
         NEW l, l = PutList(list, A, b)
  PROVE  /\ l \in Seq(Backends) /\ Range(l) = Range(list) \cup {b}
         /\ \A x, y : InOrder(l, x, y) =>
              \/ InOrder(list, x, y) /\ (x \in A <=> y \in A)
              \/ x \in A /\ y \in Range(list) \ A /\ x \in Range(list)
              \/ x \in A /\ y = b /\ x \in Range(list)
              \/ x = b /\ y \in Range(list) \ A
<1>1. PICK one \in Seq(Backends) : one = Without(list, Backends \ A)
  BY WithoutIs
<1>2. PICK two \in Seq(Backends) : two = Without(list, A)
  BY WithoutIs
<1>3. PICK o \in Seq(Backends) : o = <<b>>
  <2>1. <<b>> \in Seq(Backends)
    OBVIOUS
  <2>. QED
    BY <2>1, Zenon
<1>4. PICK h \in Seq(Backends) : h = one \o o
  BY Joined
<1>5. PICK k \in Seq(Backends) : k = h \o two
  BY Joined
<1>6. k = l
  BY <1>1, <1>2, <1>3, <1>4, <1>5, Zenon DEF PutList
<1>7. Range(list) \subseteq Backends /\ \A x, y : InOrder(list, x, y) => x \in Range(list) /\ y \in Range(list)
  BY ElementsOf
<1>8. PICK D : D = Backends \ A
  OBVIOUS
<1>9. /\ Range(one) = Range(list) \ D
      /\ \A x, y : InOrder(one, x, y) <=> InOrder(list, x, y) /\ x \notin D /\ y \notin D
  <2>1. one = Without(list, D)
    BY <1>1, <1>8
  <2>. QED
    BY <2>1, WithoutIs
<1>10. /\ Range(two) = Range(list) \ A
       /\ \A x, y : InOrder(two, x, y) <=> InOrder(list, x, y) /\ x \notin A /\ y \notin A
  BY <1>2, WithoutIs
<1>11. Range(o) = {b} /\ \A x, y : ~InOrder(o, x, y)
  BY <1>3, OneElement
<1>12. /\ Range(h) = Range(one) \cup Range(o)
       /\ \A x, y : InOrder(h, x, y) <=>
            \/ InOrder(one, x, y) \/ InOrder(o, x, y)
            \/ x \in Range(one) /\ y \in Range(o)
  BY <1>4, Joined
<1>13. /\ Range(k) = Range(h) \cup Range(two)
       /\ \A x, y : InOrder(k, x, y) <=>
            \/ InOrder(h, x, y) \/ InOrder(two, x, y)
            \/ x \in Range(h) /\ y \in Range(two)
  BY <1>5, Joined
<1>14. Range(k) = Range(list) \cup {b}
  BY <1>7, <1>8, <1>9, <1>10, <1>11, <1>12, <1>13
<1>15. \A x, y : InOrder(k, x, y) =>
         \/ InOrder(list, x, y) /\ (x \in A <=> y \in A)
         \/ x \in A /\ y \in Range(list) \ A /\ x \in Range(list)
         \/ x \in A /\ y = b /\ x \in Range(list)
         \/ x = b /\ y \in Range(list) \ A
  <2>1. SUFFICES ASSUME NEW x, NEW y, InOrder(k, x, y)
                 PROVE  \/ InOrder(list, x, y) /\ (x \in A <=> y \in A)
                        \/ x \in A /\ y \in Range(list) \ A /\ x \in Range(list)
                        \/ x \in A /\ y = b /\ x \in Range(list)
                        \/ x = b /\ y \in Range(list) \ A
    BY Zenon
  <2>2. \A z : z \in Range(list) => (z \in D <=> z \notin A)
    BY <1>7, <1>8
  <2>3. CASE InOrder(one, x, y)
    BY <1>7, <1>9, <2>2, <2>3
  <2>4. CASE x \in Range(one) /\ y \in Range(o)
    BY <1>9, <1>11, <2>2, <2>4
  <2>5. CASE InOrder(two, x, y)
    BY <1>10, <2>5
  <2>6. CASE x \in Range(h) /\ y \in Range(two)
    BY <1>9, <1>10, <1>11, <1>12, <2>2, <2>6
  <2>. QED
    BY <1>11, <1>12, <1>13, <2>1, <2>3, <2>4, <2>5, <2>6
<1>. QED
  BY <1>6, <1>14, <1>15

LEMMA WaitPutInv ==
  ASSUME NEW s, NEW P, NEW M, NEW C, FileInv(s, {}, P, M, C), NEW b \in Backends, NEW g \in Groups,
         b \in Range(s.bes[g]), s.fe_running[b] = b, C[b] = <<>>,
         P[b] \notin {"born", "accepted", "perl"},
         NEW n \in Nat, NEW t, t = WaitPut(SetMaturity(s, b, n), g, b)
  PROVE  /\ FileInv(t, {}, P, M, C) /\ SameGroups(s, t) /\ SameFrontends(s, t) /\ t.sigs = s.sigs
         /\ \A h \in Groups : Range(t.bes[h]) = Range(s.bes[h])
<1>1. s \in Files
  BY DEF FileInv, FileRest
<1>2. \A x \in Backends : x # Nil /\ x \notin Frontends /\ Nil \notin Frontends
  BY KindsAssumption DEF Pids
<1>3. PICK N : N = [s.maturity EXCEPT ![b] = n]
  OBVIOUS
<1>4. N \in [Backends -> Nat] /\ \A x \in Backends : N[x] = IF x = b THEN n ELSE s.maturity[x]
  BY <1>1, <1>3 DEF Files
<1>5. PICK u : u = SetMaturity(s, b, n)
  OBVIOUS
<1>6. /\ u \in Files /\ SameGroups(s, u) /\ SameFrontends(s, u) /\ u.sigs = s.sigs
      /\ u.bes = s.bes /\ u.fe_running = s.fe_running /\ u.maturity = N
  BY <1>1, <1>3, <1>4, <1>5 DEF SetMaturity, Files, SameGroups, SameFrontends
<1>7. s.bes[g] \in Seq(Backends)
  BY <1>1 DEF Files
<1>8. PICK rest \in Seq(Backends) : rest = Without(s.bes[g], {b})
  BY <1>7, WithoutIs
<1>9. /\ Range(rest) = Range(s.bes[g]) \ {b}
      /\ \A x, y : InOrder(rest, x, y) <=> InOrder(s.bes[g], x, y) /\ x \notin {b} /\ y \notin {b}
  <2>1. PICK D : D = {b}
    OBVIOUS
  <2>2. rest = Without(s.bes[g], D)
    BY <1>8, <2>1
  <2>3. /\ Range(rest) = Range(s.bes[g]) \ D
        /\ \A x, y : InOrder(rest, x, y) <=> InOrder(s.bes[g], x, y) /\ x \notin D /\ y \notin D
    BY <1>7, <2>2, WithoutIs
  <2>. QED
    BY <2>1, <2>3
<1>10. PICK A : A = {rest[i] : i \in {j \in DOMAIN rest : \A k \in 1 .. j : ~SortsBefore(u, b, rest[k])}}
  OBVIOUS
<1>11. A \in SUBSET Backends /\ DOMAIN rest \subseteq Nat
       /\ \A i \in DOMAIN rest : i \in 1 .. i /\ rest[i] \in Backends
  BY <1>10
<1>12. PICK l : l = PutList(rest, A, b)
  OBVIOUS
<1>13. /\ l \in Seq(Backends) /\ Range(l) = Range(rest) \cup {b}
       /\ \A x, y : InOrder(l, x, y) =>
            \/ InOrder(rest, x, y) /\ (x \in A <=> y \in A)
            \/ x \in A /\ y \in Range(rest) \ A /\ x \in Range(rest)
            \/ x \in A /\ y = b /\ x \in Range(rest)
            \/ x = b /\ y \in Range(rest) \ A
  BY <1>11, <1>12, PutListIs
<1>14. PICK F : F = [s.fe_running EXCEPT ![b] = Nil]
  OBVIOUS
<1>15. PICK B : B = [s.bes EXCEPT ![g] = l]
  OBVIOUS
<1>16. F \in [Backends -> Frontends \cup Backends \cup {Nil}] /\ B \in [Groups -> Seq(Backends)]
  BY <1>1, <1>13, <1>14, <1>15 DEF Files
<1>17. /\ \A x \in Backends : F[x] = IF x = b THEN Nil ELSE s.fe_running[x]
       /\ \A h \in Groups : B[h] = IF h = g THEN l ELSE s.bes[h]
  BY <1>1, <1>14, <1>15 DEF Files
<1>18. t = [u EXCEPT !.fe_running = F, !.bes = B]
  <2>1. t = [u EXCEPT !.fe_running[b] = Nil, !.bes[g] = PutList(rest, A, b)]
    BY <1>5, <1>6, <1>8, <1>10 DEF WaitPut, PutList
  <2>. QED
    BY <1>6, <1>12, <1>14, <1>15, <2>1 DEF Files
<1>19. /\ t \in Files /\ SameGroups(s, t) /\ SameFrontends(s, t) /\ t.sigs = s.sigs
       /\ t.bes = B /\ t.fe_running = F /\ t.maturity = N
  <2>1. t \in Files
    <3>1. PICK w \in Files : w = [u EXCEPT !.fe_running = F]
      BY <1>6, <1>16 DEF Files
    <3>2. PICK x \in Files : x = [w EXCEPT !.bes = B]
      BY <1>16 DEF Files
    <3>. QED
      BY <1>18, <3>1, <3>2
  <2>2. t.bes = B /\ t.fe_running = F /\ t.maturity = N
    BY <1>4, <1>6, <1>18 DEF Files
  <2>3. SameGroups(u, t) /\ SameFrontends(u, t) /\ t.sigs = u.sigs
    BY <1>6, <1>18 DEF Files, SameGroups, SameFrontends
  <2>. QED
    BY <1>6, <2>1, <2>2, <2>3 DEF SameGroups, SameFrontends
<1>20. \A h \in Groups : Range(t.bes[h]) = Range(s.bes[h])
  <2>1. Range(l) = Range(s.bes[g])
    BY <1>9, <1>13
  <2>. QED
    BY <1>17, <1>19, <2>1
<1>21. \A x, y \in Backends : InOrder(s.bes[g], x, y) /\ s.fe_running[y] = Nil =>
         s.fe_running[x] = Nil /\ s.maturity[x] >= s.maturity[y]
  BY DEF FileInv, WaitingOK
<1>22. \A x, y \in Backends : InOrder(rest, x, y) /\ t.fe_running[y] = Nil =>
         t.fe_running[x] = Nil /\ t.maturity[x] >= t.maturity[y]
  BY <1>4, <1>9, <1>17, <1>19, <1>21
<1>23. \A x \in Backends : SortsBefore(u, b, x) <=> (s.fe_running[x] = Nil => N[x] <= N[b])
  BY <1>6 DEF SortsBefore, IsWaiting
<1>24. \A x \in A : x \in Backends /\ (x # b => t.fe_running[x] = Nil) /\ t.maturity[x] > t.maturity[b]
  <2>1. SUFFICES ASSUME NEW x \in A
                 PROVE  s.fe_running[x] = Nil /\ N[x] > N[b] /\ x \in Backends
    BY <1>17, <1>19
  <2>2. PICK i \in DOMAIN rest : x = rest[i] /\ \A k \in 1 .. i : ~SortsBefore(u, b, rest[k])
    BY <1>10
  <2>3. ~SortsBefore(u, b, x) /\ x \in Backends
    BY <1>11, <2>2
  <2>4. N[x] \in Nat /\ N[b] \in Nat
    BY <1>4, <2>3
  <2>. QED
    BY <1>23, <2>3, <2>4
<1>25. ASSUME NEW x \in A, NEW y \in Range(rest) \ A, x \in Range(rest) PROVE InOrder(rest, x, y)
  <2>1. PICK i \in DOMAIN rest : x = rest[i] /\ \A k \in 1 .. i : ~SortsBefore(u, b, rest[k])
    BY <1>10
  <2>2. PICK j \in DOMAIN rest : y = rest[j]
    BY DEF Range
  <2>3. CASE j <= i
    <3>1. j \in Nat /\ i \in Nat
      BY <1>11
    <3>2. \A k \in 1 .. j : k \in 1 .. i
      BY <2>3, <3>1
    <3>3. y \in A
      BY <1>10, <2>1, <2>2, <3>2
    <3>. QED
      BY <3>3
  <2>4. CASE ~(j <= i)
    <3>1. i < j
      BY <1>11, <2>4
    <3>. QED
      BY <2>1, <2>2, <3>1 DEF InOrder
  <2>. QED
    BY <2>3, <2>4
<1>26. ASSUME NEW y \in Range(rest) \ A, t.fe_running[y] = Nil PROVE t.maturity[b] >= t.maturity[y]
  <2>1. PICK j \in DOMAIN rest : y = rest[j]
    BY DEF Range
  <2>2. PICK k \in 1 .. j : SortsBefore(u, b, rest[k])
    BY <1>10, <2>1
  <2>3. PICK z \in Backends : z = rest[k]
    BY <1>11, <2>1, <2>2
  <2>4. k \in DOMAIN rest
    BY <2>1, <2>2
  <2>5. y \in Backends /\ y # b /\ s.fe_running[y] = Nil
    BY <1>2, <1>9, <1>11, <1>17, <1>19, <1>26, <2>1
  <2>6. t.maturity[y] \in Nat /\ t.maturity[z] \in Nat /\ t.maturity[b] \in Nat
    BY <1>4, <1>19, <2>3, <2>5
  <2>7. CASE z = y
    BY <1>19, <1>23, <2>2, <2>3, <2>5, <2>6, <2>7
  <2>8. CASE z # y
    <3>1. k < j
      BY <1>11, <2>1, <2>2, <2>3, <2>8
    <3>2. InOrder(rest, z, y)
      BY <2>1, <2>3, <2>4, <3>1 DEF InOrder
    <3>3. t.fe_running[z] = Nil /\ t.maturity[z] >= t.maturity[y]
      BY <1>22, <1>26, <2>3, <2>5, <3>2
    <3>4. z # b
      BY <1>9, <2>3, <2>4 DEF Range
    <3>5. s.fe_running[z] = Nil
      BY <1>17, <1>19, <2>3, <3>3, <3>4
    <3>6. t.maturity[z] <= t.maturity[b]
      BY <1>19, <1>23, <2>2, <2>3, <3>5
    <3>. QED
      BY <2>6, <3>3, <3>6
  <2>. QED
    BY <2>7, <2>8
<1>27. \A x, y \in Backends : InOrder(l, x, y) /\ t.fe_running[y] = Nil =>
         t.fe_running[x] = Nil /\ t.maturity[x] >= t.maturity[y]
  <2>1. SUFFICES ASSUME NEW x \in Backends, NEW y \in Backends, InOrder(l, x, y), t.fe_running[y] = Nil
                 PROVE  t.fe_running[x] = Nil /\ t.maturity[x] >= t.maturity[y]
    BY Zenon
  <2>2. t.maturity[x] \in Nat /\ t.maturity[y] \in Nat /\ t.maturity[b] \in Nat /\ t.fe_running[b] = Nil
    BY <1>4, <1>17, <1>19
  <2>3. CASE InOrder(rest, x, y)
    BY <1>22, <2>1, <2>3
  <2>4. CASE x \in A /\ y \in Range(rest) \ A /\ x \in Range(rest)
    BY <1>22, <1>25, <2>1, <2>4
  <2>5. CASE x \in A /\ y = b /\ x \in Range(rest)
    BY <1>24, <2>2, <2>5
  <2>6. CASE x = b /\ y \in Range(rest) \ A
    BY <1>26, <2>1, <2>2, <2>6
  <2>. QED
    BY <1>13, <2>1, <2>3, <2>4, <2>5, <2>6
<1>28. WaitingOK(t.bes, t.fe_running, t.maturity, {})
  <2>1. ASSUME NEW h \in Groups, h # g, NEW x \in Backends, NEW y \in Backends,
               InOrder(s.bes[h], x, y), t.fe_running[y] = Nil
        PROVE  t.fe_running[x] = Nil /\ t.maturity[x] >= t.maturity[y]
    <3>1. s.bes[h] \in Seq(Backends)
      BY <1>1 DEF Files
    <3>2. x \in Range(s.bes[h]) /\ y \in Range(s.bes[h])
      BY <2>1, <3>1, ElementsOf
    <3>3. x # b /\ y # b
      BY <2>1, <3>2 DEF FileInv, FileRest, ApartOK
    <3>. QED
      BY <1>4, <1>17, <1>19, <2>1, <3>3 DEF FileInv, WaitingOK
  <2>. QED
    BY <1>17, <1>19, <1>27, <2>1 DEF WaitingOK
<1>29. OnceOK(t.glist, t.run, t.bes, t.fes)
  <2>1. \A x : ~InOrder(s.bes[g], x, x)
    BY <1>7, OnceMeans DEF FileInv, FileRest, OnceOK
  <2>2. \A x : ~InOrder(l, x, x)
    BY <1>9, <1>13, <2>1
  <2>3. IsInjective(l)
    BY <1>13, <2>2, OnceMeans
  <2>. QED
    BY <1>17, <1>19, <2>3 DEF FileInv, FileRest, OnceOK, SameGroups, SameFrontends
<1>30. ApartOK(t.run, t.bes, t.fes)
  BY <1>19, <1>20 DEF FileInv, FileRest, ApartOK, SameFrontends
<1>31. FreeOK(t.glist, t.version, t.starting, t.parent, t.bes, t.fes)
  <2>1. s.bes[g] # <<>>
    BY EmptyList
  <2>. QED
    BY <1>17, <1>19, <2>1 DEF FileInv, FileRest, FreeOK, SameGroups, SameFrontends
<1>32. SelfOK(t.fe_running)
  BY <1>17, <1>19 DEF FileInv, FileRest, SelfOK
<1>33. BackendsOwn(t.bes, P, M)
  BY <1>20 DEF FileInv, FileRest, BackendsOwn
<1>34. PairOK(t.run, t.fe_running, t.backend)
  <2>1. ASSUME NEW c \in Frontends, t.backend[c] # Nil PROVE t.fe_running[t.backend[c]] = c
    <3>1. t.backend[c] = s.backend[c] /\ s.backend[c] \in Backends
      BY <1>1, <1>19, <2>1 DEF Files, SameFrontends
    <3>2. s.fe_running[s.backend[c]] = c
      BY <2>1, <3>1 DEF FileInv, FileRest, PairOK
    <3>. QED
      BY <1>2, <1>17, <1>19, <3>1, <3>2
  <2>2. ASSUME NEW x \in Backends, t.fe_running[x] \in Frontends
        PROVE  t.fe_running[x] \in Range(t.run) /\ t.backend[t.fe_running[x]] = x
    <3>1. t.fe_running[x] = s.fe_running[x]
      BY <1>2, <1>17, <1>19, <2>2
    <3>. QED
      BY <1>19, <2>2, <3>1 DEF FileInv, FileRest, PairOK, SameFrontends
  <2>. QED
    BY <2>1, <2>2 DEF PairOK
<1>35. ConnOK(t.fe_running, P, C)
  BY <1>17, <1>19 DEF FileInv, FileRest, ConnOK
<1>36. FileInv(t, {}, P, M, C)
  BY <1>19, <1>28, <1>29, <1>30, <1>31, <1>32, <1>33, <1>34, <1>35
  DEF FileInv, FileRest, SameGroups, SameFrontends
<1>. QED
  BY <1>19, <1>20, <1>36

-----------------------------------------------------------------------------
(* Who starts, from one file to the next                                   *)

\* What most of the functions do to StartInv's fields at most, while the
\* processes stay where they are.
Onward(s, t, P) ==
  /\ \A g \in Groups :
       /\ Range(t.bes[g]) \subseteq Range(s.bes[g])
       /\ \A b \in Range(s.bes[g]) : P[b] \notin {"none"} \cup Defunct => b \in Range(t.bes[g])
       /\ t.version[g] \in {0, s.version[g]}
       /\ \/ t.starting[g] = s.starting[g] /\ t.parent[g] = s.parent[g]
          \/ t.starting[g] = Nil /\ (t.parent[g] = s.parent[g] \/ t.version[g] = 0)
          \/ /\ t.starting[g] = s.starting[g] /\ t.parent[g] = Nil /\ t.version[g] = 0
             /\ s.parent[g] \in Parents => P[s.parent[g]] = "none"
  /\ \A m \in Parents : s.sigs[m] \subseteq t.sigs[m]

LEMMA OnwardOn ==
  ASSUME NEW s, NEW t, NEW u, NEW P, Onward(s, t, P), Onward(t, u, P)
  PROVE  Onward(s, u, P)
<1>1. Nil \notin Parents
  BY KindsAssumption DEF Pids
<1>2. SUFFICES ASSUME NEW g \in Groups
               PROVE  /\ Range(u.bes[g]) \subseteq Range(s.bes[g])
                      /\ \A b \in Range(s.bes[g]) : P[b] \notin {"none"} \cup Defunct => b \in Range(u.bes[g])
                      /\ u.version[g] \in {0, s.version[g]}
                      /\ \/ u.starting[g] = s.starting[g] /\ u.parent[g] = s.parent[g]
                         \/ u.starting[g] = Nil /\ (u.parent[g] = s.parent[g] \/ u.version[g] = 0)
                         \/ /\ u.starting[g] = s.starting[g] /\ u.parent[g] = Nil /\ u.version[g] = 0
                            /\ s.parent[g] \in Parents => P[s.parent[g]] = "none"
  BY DEF Onward
<1>3. /\ Range(u.bes[g]) \subseteq Range(s.bes[g])
      /\ \A b \in Range(s.bes[g]) : P[b] \notin {"none"} \cup Defunct => b \in Range(u.bes[g])
      /\ u.version[g] \in {0, s.version[g]}
  BY DEF Onward
<1>4. \/ u.starting[g] = s.starting[g] /\ u.parent[g] = s.parent[g]
      \/ u.starting[g] = Nil /\ (u.parent[g] = s.parent[g] \/ u.version[g] = 0)
      \/ /\ u.starting[g] = s.starting[g] /\ u.parent[g] = Nil /\ u.version[g] = 0
         /\ s.parent[g] \in Parents => P[s.parent[g]] = "none"
  BY <1>1 DEF Onward
<1>. QED
  BY <1>3, <1>4

\* It suffices that the fields are those of s, for a function that changes
\* others.
LEMMA OnwardSame ==
  ASSUME NEW s, NEW t, NEW P, SameGroups(s, t), t.bes = s.bes,
         \A m \in Parents : s.sigs[m] \subseteq t.sigs[m]
  PROVE  Onward(s, t, P)
BY DEF Onward, SameGroups

LEMMA FewerMembers ==
  ASSUME NEW s \in Files, NEW t \in Files, OnceOK(s.glist, s.run, s.bes, s.fes), NEW g \in Groups,
         Range(t.bes[g]) \subseteq Range(s.bes[g])
  PROVE  /\ Cardinality(Range(t.bes[g])) \in Nat /\ Cardinality(Range(s.bes[g])) \in Nat
         /\ Cardinality(Range(t.bes[g])) <= Cardinality(Range(s.bes[g]))
<1>1. s.bes[g] \in Seq(Backends) /\ IsInjective(s.bes[g])
  BY DEF Files, OnceOK
<1>2. IsFiniteSet(Range(s.bes[g]))
  BY <1>1, CountIs
<1>. QED
  BY <1>2, FS_Subset, FS_CardinalityType

LEMMA OnwardStarts ==
  ASSUME NEW s \in Files, NEW t \in Files, OnceOK(s.glist, s.run, s.bes, s.fes),
         NEW P, NEW M, NEW C, StartInv(s, P, M, C), Onward(s, t, P)
  PROVE  StartInv(t, P, M, C)
<1>1. Nil \notin Parents /\ Nil \notin Backends
  BY KindsAssumption DEF Pids
<1>2. MaxBackends \in Nat
  BY BoundsAssumption
<1>3. \A g \in Groups : /\ Cardinality(Range(t.bes[g])) \in Nat /\ Cardinality(Range(s.bes[g])) \in Nat
                        /\ Cardinality(Range(t.bes[g])) <= Cardinality(Range(s.bes[g]))
  BY FewerMembers DEF Onward
<1>4. FullOK(t.bes)
  BY <1>2, <1>3 DEF StartInv, FullOK
<1>5. NamedOK(t.starting, t.parent, P)
  BY <1>1 DEF StartInv, NamedOK, Onward
<1>6. InstalledOK(t.version, t.parent, P, M)
  BY <1>1 DEF StartInv, InstalledOK, Onward
<1>7. AskedOK(t.version, t.starting, t.bes, t.sigs, P, M)
  <2>1. SUFFICES ASSUME NEW g \in Groups, t.version[g] # 0, t.starting[g] \in Parents,
                        P[t.starting[g]] # "none", "KILL" \notin t.sigs[t.starting[g]]
                 PROVE  /\ P[t.starting[g]] \in Starting \/ "USR1" \in t.sigs[t.starting[g]] \cup M[t.starting[g]].got
                        /\ MaxBackends = 0 \/ Cardinality(Range(t.bes[g])) < MaxBackends
    BY DEF AskedOK
  <2>2. s.version[g] # 0 /\ s.starting[g] = t.starting[g]
    BY <1>1, <2>1 DEF Onward
  <2>3. s.sigs[t.starting[g]] \subseteq t.sigs[t.starting[g]]
    BY <2>1 DEF Onward
  <2>4. /\ P[s.starting[g]] \in Starting \/ "USR1" \in s.sigs[s.starting[g]] \cup M[s.starting[g]].got
        /\ MaxBackends = 0 \/ Cardinality(Range(s.bes[g])) < MaxBackends
    BY <2>1, <2>2, <2>3 DEF StartInv, AskedOK
  <2>. QED
    BY <1>2, <1>3, <2>2, <2>3, <2>4
<1>8. NewOK(t.version, t.parent, t.bes)
  <2>1. ASSUME NEW g \in Groups, t.version[g] # 0, t.parent[g] = Nil PROVE t.bes[g] = <<>>
    <3>1. s.version[g] # 0 /\ s.parent[g] = Nil
      BY <2>1 DEF Onward
    <3>2. s.bes[g] = <<>>
      BY <3>1 DEF StartInv, NewOK
    <3>3. Range(t.bes[g]) = {}
      BY <3>2, EmptyList DEF Onward
    <3>4. t.bes[g] \in Seq(Backends)
      BY DEF Files
    <3>. QED
      BY <3>3, <3>4, ElementsOf
  <2>. QED
    BY <2>1 DEF NewOK
<1>9. ComesOK(t.starting, t.bes, P, C)
  <2>1. \A g \in Groups : t.starting[g] \in Backends => t.starting[g] = s.starting[g]
    BY <1>1 DEF Onward
  <2>. QED
    BY <2>1 DEF StartInv, ComesOK, Onward
<1>. QED
  BY <1>4, <1>5, <1>6, <1>7, <1>8, <1>9 DEF StartInv

LEMMA OnwardSound ==
  ASSUME NEW s, NEW t, NEW L, NEW K, NEW P, NEW M, NEW C, Sound(s, L, P, M, C),
         FileInv(t, K, P, M, C), Onward(s, t, P)
  PROVE  Sound(t, K, P, M, C)
<1>1. s \in Files /\ t \in Files /\ OnceOK(s.glist, s.run, s.bes, s.fes)
  BY DEF Sound, FileInv, FileRest
<1>. QED
  BY <1>1, OnwardStarts DEF Sound

LEMMA SameSound ==
  ASSUME NEW s, NEW t, NEW L, NEW P, NEW M, NEW C, Sound(s, L, P, M, C),
         FileRest(t, P, M, C), SameBackends(s, t), Onward(s, t, P)
  PROVE  Sound(t, L, P, M, C)
<1>1. FileInv(t, L, P, M, C)
  BY DEF Sound, FileInv, SameBackends
<1>. QED
  BY <1>1, OnwardSound

LEMMA CleanupSound ==
  ASSUME NEW s, NEW P, NEW M, NEW C, NEW L, Sound(s, L, P, M, C), NEW alive, LivingOK(alive, P), NEW me,
         NEW G \in SUBSET Groups,
         me \in Parents /\ P[me] \in {"wait", "serve"} => M[me].group \notin Emptied(s, G),
         NEW t, t = Cleanup(s, alive, me, G)
  PROVE  /\ Sound(t, L, P, M, C) /\ SameElse(s, t) /\ Onward(s, t, P)
         /\ \A g \in Groups : t.starting[g] \in {Nil, s.starting[g]}
<1>1. FileRest(s, P, M, C)
  BY DEF Sound, FileInv
<1>2. /\ FileRest(t, P, M, C) /\ SameElse(s, t)
      /\ \A m \in Parents : t.sigs[m] \in {s.sigs[m], s.sigs[m] \cup {"KILL"}}
      /\ \A g \in Groups :
           /\ g \in Emptied(s, G) => t.version[g] = 0 /\ t.starting[g] = Nil /\ t.parent[g] = Nil
           /\ g \notin Emptied(s, G) => /\ t.version[g] = s.version[g]
                                        /\ t.starting[g] = s.starting[g] /\ t.parent[g] = s.parent[g]
  BY <1>1, CleanupInv
<1>3. t.bes = s.bes /\ SameBackends(s, t)
  BY <1>2 DEF SameElse, SameBackends
<1>4. Onward(s, t, P)
  BY <1>2, <1>3 DEF Onward
<1>. QED
  BY <1>2, <1>3, <1>4, SameSound

LEMMA SendSigsSound ==
  ASSUME NEW s, NEW P, NEW M, NEW C, NEW L, Sound(s, L, P, M, C), NEW alive, LivingOK(alive, P),
         NEW g \in Groups, NEW t, t = SendSigs(s, alive, g)
  PROVE  Sound(t, L, P, M, C) /\ Onward(s, t, P) /\ SameGroups(s, t) /\ t.backend = s.backend
<1>1. FileRest(s, P, M, C)
  BY DEF Sound, FileInv
<1>2. /\ FileRest(t, P, M, C) /\ SameGroups(s, t) /\ SameBackends(s, t) /\ t.sigs = s.sigs
      /\ t.backend = s.backend
  BY <1>1, SendSigsInv
<1>3. Onward(s, t, P)
  BY <1>2 DEF Onward, SameGroups, SameBackends
<1>. QED
  BY <1>2, <1>3, SameSound

LEMMA StartBeSound ==
  ASSUME NEW s, NEW P, NEW M, NEW C, NEW L, Sound(s, L, P, M, C), NEW alive, LivingOK(alive, P), NEW me,
         NEW g \in Groups, NEW t, t = StartBe(s, alive, me, g)
  PROVE  Sound(t, L, P, M, C) /\ SameElse(s, t) /\ Onward(s, t, P)
<1>1. FileRest(s, P, M, C) /\ s \in Files
  BY DEF Sound, FileInv, FileRest
<1>2. /\ FileRest(t, P, M, C) /\ SameElse(s, t) /\ t.starting = s.starting
      /\ \A m \in Parents : t.sigs[m] \in {s.sigs[m], s.sigs[m] \cup {"USR1"}}
      /\ \A h \in Groups : /\ t.version[h] \in {0, s.version[h]}
                           /\ t.parent[h] \in {Nil, s.parent[h]}
                           /\ h # g \/ StartBeWorks(s, alive, g) =>
                                t.version[h] = s.version[h] /\ t.parent[h] = s.parent[h]
      /\ ~StartBeWorks(s, alive, g) => t.version[g] = 0 /\ t.parent[g] = Nil
  BY <1>1, StartBeInv
<1>3. t.bes = s.bes /\ SameBackends(s, t)
  BY <1>2 DEF SameElse, SameBackends
<1>4. ~StartBeWorks(s, alive, g) /\ s.parent[g] \in Parents => P[s.parent[g]] = "none"
  BY DEF StartBeWorks, ParentThere, LivingOK
<1>5. \A h \in Groups :
        \/ t.version[h] = s.version[h] /\ t.parent[h] = s.parent[h]
        \/ /\ t.version[h] = 0 /\ t.parent[h] = Nil
           /\ s.parent[h] \in Parents => P[s.parent[h]] = "none"
  BY <1>2, <1>4
<1>6. Onward(s, t, P)
  BY <1>2, <1>3, <1>5 DEF Onward
<1>. QED
  BY <1>2, <1>3, <1>6, SameSound

LEMMA CheckPrevSound ==
  ASSUME NEW s, NEW P, NEW M, NEW C, NEW L, Sound(s, L, P, M, C), NEW alive, LivingOK(alive, P),
         NEW c \in Frontends, c \in alive, NEW g \in Groups, c \in Range(s.fes[g]),
         NEW t, t = CheckPrev(s, alive, c, g)
  PROVE  /\ Sound(t, L, P, M, C) /\ Onward(s, t, P)
         /\ c \in Range(t.fes[g]) /\ g \in Range(t.glist)
         /\ \A h \in Groups : /\ t.starting[h] \in {Nil, s.starting[h]}
                              /\ t.parent[h] \in {Nil, s.parent[h]}
<1>1. FileRest(s, P, M, C)
  BY DEF Sound, FileInv
<1>2. /\ FileRest(t, P, M, C) /\ SameBackends(s, t)
      /\ c \in Range(t.fes[g]) /\ g \in Range(t.glist)
      /\ \A m \in Parents : t.sigs[m] \in {s.sigs[m], s.sigs[m] \cup {"KILL"}}
      /\ \A h \in Groups :
           /\ t.version[h] \in {0, s.version[h]}
           /\ \/ t.starting[h] = s.starting[h] /\ t.parent[h] = s.parent[h]
              \/ t.starting[h] = Nil /\ t.parent[h] = Nil /\ t.version[h] = 0
  BY <1>1, CheckPrevInv
<1>3. Onward(s, t, P)
  BY <1>2 DEF Onward, SameBackends
<1>. QED
  BY <1>2, <1>3, SameSound

WithoutMembers(s, t, g, D) ==
  /\ \A h \in Groups : h # g => t.bes[h] = s.bes[h]
  /\ Range(t.bes[g]) = Range(s.bes[g]) \ D

LEMMA DisposeBackendSound ==
  ASSUME NEW s, NEW P, NEW M, NEW C, NEW L, Sound(s, L, P, M, C), NEW alive, LivingOK(alive, P),
         NEW me, NEW g \in Groups, NEW D, D \subseteq Range(s.bes[g]),
         \A b \in D : P[b] \in {"none"} \cup Defunct,
         NEW t, t = DisposeBackend(s, alive, me, g, D)
  PROVE  /\ Sound(t, L, P, M, C) /\ SameGroups(s, t) /\ Onward(s, t, P)
         /\ RunsOnOrEnds(s, t, D) /\ WithoutMembers(s, t, g, D)
<1>1. FileInv(s, L, P, M, C)
  BY DEF Sound
<1>2. /\ FileInv(t, L, P, M, C) /\ SameGroups(s, t) /\ SameForParents(s, t)
      /\ \A h \in Groups : h # g => t.bes[h] = s.bes[h]
      /\ Range(t.bes[g]) = Range(s.bes[g]) \ D
      /\ RunsOnOrEnds(s, t, D)
  BY <1>1, DisposeBackendInv
<1>3. Onward(s, t, P)
  BY <1>2 DEF Onward, SameGroups, SameForParents
<1>. QED
  BY <1>2, <1>3, OnwardSound DEF WithoutMembers

\* A taken backend whose slot has gone needs no exemption.
LEMMA NobodyTaken ==
  ASSUME NEW s, NEW P, NEW M, NEW C, NEW L, Sound(s, L, P, M, C),
         \A b \in L : \A g \in Groups : b \notin Range(s.bes[g])
  PROVE  Sound(s, {}, P, M, C)
<1>1. s \in Files
  BY DEF Sound, FileInv, FileRest
<1>2. ASSUME NEW g \in Groups, NEW x \in Backends, NEW y \in Backends, InOrder(s.bes[g], x, y)
      PROVE  y \notin L
  <2>1. s.bes[g] \in Seq(Backends)
    BY <1>1 DEF Files
  <2>2. y \in Range(s.bes[g])
    BY <1>2, <2>1, ElementsOf
  <2>. QED
    BY <2>2
<1>3. WaitingOK(s.bes, s.fe_running, s.maturity, {})
  BY <1>2 DEF Sound, FileInv, WaitingOK
<1>. QED
  BY <1>3 DEF Sound, FileInv

-----------------------------------------------------------------------------
(* A backend is taken                                                      *)

\* The list of a group's backends in another order.
SetMembers(s, g, l) == [s EXCEPT !.bes[g] = l]

LEMMA SetMembersInv ==
  ASSUME NEW s, NEW P, NEW M, NEW C, FileRest(s, P, M, C), NEW g \in Groups,
         NEW l \in Seq(Backends), IsInjective(l), Range(l) = Range(s.bes[g]),
         NEW t, t = SetMembers(s, g, l)
  PROVE  /\ FileRest(t, P, M, C) /\ SameGroups(s, t) /\ SameFrontends(s, t) /\ t.sigs = s.sigs
         /\ t.fe_running = s.fe_running /\ t.maturity = s.maturity
         /\ \A h \in Groups : t.bes[h] = IF h = g THEN l ELSE s.bes[h]
<1>1. s \in Files
  BY DEF FileRest
<1>2. PICK B : B = [s.bes EXCEPT ![g] = l]
  OBVIOUS
<1>3. B \in [Groups -> Seq(Backends)]
  BY <1>1, <1>2 DEF Files
<1>4. t = [s EXCEPT !.bes = B]
  BY <1>1, <1>2 DEF SetMembers, Files
<1>5. /\ t \in Files /\ SameGroups(s, t) /\ SameFrontends(s, t) /\ t.sigs = s.sigs
      /\ t.fe_running = s.fe_running /\ t.maturity = s.maturity /\ t.bes = B
  BY <1>1, <1>3, <1>4 DEF Files, SameGroups, SameFrontends
<1>6. \A h \in Groups : t.bes[h] = IF h = g THEN l ELSE s.bes[h]
  BY <1>1, <1>2, <1>5 DEF Files
<1>7. \A h \in Groups : Range(t.bes[h]) = Range(s.bes[h])
  BY <1>6
<1>8. OnceOK(t.glist, t.run, t.bes, t.fes)
  BY <1>5, <1>6 DEF FileRest, OnceOK, SameGroups, SameFrontends
<1>9. ApartOK(t.run, t.bes, t.fes)
  BY <1>5, <1>7 DEF FileRest, ApartOK, SameFrontends
<1>10. FreeOK(t.glist, t.version, t.starting, t.parent, t.bes, t.fes)
  <2>1. \A h \in Groups : s.bes[h] = <<>> => t.bes[h] = <<>>
    <3>1. \A h \in Groups : t.bes[h] \in Seq(Backends)
      BY <1>5 DEF Files
    <3>. QED
      BY <1>7, <3>1, EmptyList, ElementsOf
  <2>. QED
    BY <1>5, <2>1 DEF FileRest, FreeOK, SameGroups, SameFrontends
<1>11. BackendsOwn(t.bes, P, M)
  BY <1>7 DEF FileRest, BackendsOwn
<1>. QED
  BY <1>5, <1>6, <1>8, <1>9, <1>10, <1>11 DEF FileRest, SameGroups, SameFrontends

LEMMA WaitGetSound ==
  ASSUME NEW s, NEW P, NEW M, NEW C, Sound(s, {}, P, M, C), NEW alive, LivingOK(alive, P),
         NEW g \in Groups, CanGet(s, alive, g), NEW b, b = Head(s.bes[g]),
         NEW t, t = WaitGet(s, alive, g)
  PROVE  /\ Sound(t, {b}, P, M, C) /\ SameFrontends(s, t) /\ Onward(s, t, P)
         /\ b \in Backends /\ b \in Range(t.bes[g]) /\ t.fe_running[b] = Nil
         /\ \A y \in Backends : ~InOrder(t.bes[g], b, y)
         /\ t.starting[g] = Nil
<1>1. FileRest(s, P, M, C) /\ s \in Files
  BY DEF Sound, FileInv, FileRest
<1>2. PICK u : u = CheckStarting(s, alive, g)
  OBVIOUS
<1>3. /\ FileRest(u, P, M, C) /\ SameElse(s, u) /\ u.sigs = s.sigs
      /\ u.glist = s.glist /\ u.version = s.version /\ u.parent = s.parent
      /\ \A h \in Groups : u.starting[h] =
           IF h = g /\ s.starting[g] \notin alive THEN Nil ELSE s.starting[h]
  BY <1>1, <1>2, CheckStartingInv
<1>4. PICK l0 : l0 = s.bes[g]
  OBVIOUS
<1>5. l0 \in Seq(Backends) /\ l0 # <<>> /\ IsInjective(l0) /\ b = Head(l0)
  BY <1>1, <1>4 DEF CanGet, FileRest, OnceOK, Files
<1>6. PICK l : l = Append(Tail(l0), Head(l0))
  OBVIOUS
<1>7. /\ l \in Seq(Backends) /\ Range(l) = Range(l0)
      /\ \A x, y : InOrder(l, x, y) <=>
           \/ InOrder(l0, x, y) /\ x # b
           \/ x \in Range(l0) \ {b} /\ y = b
  BY <1>5, <1>6, HeadToTail
<1>8. b \in Backends /\ b \in Range(l0)
  BY <1>5, HeadIs
<1>9. IsInjective(l)
  BY <1>5, <1>7, OnceMeans
<1>10. u.bes = s.bes
  BY <1>3 DEF SameElse, SameBackends
<1>11. t = SetMembers(u, g, l)
  <2>1. t = [u EXCEPT !.bes[g] = Append(Tail(@), Head(@))]
    BY <1>2 DEF WaitGet
  <2>2. u \in Files
    BY <1>3 DEF FileRest
  <2>3. t = [u EXCEPT !.bes[g] = Append(Tail(l0), Head(l0))]
    BY <1>4, <1>10, <2>1, <2>2 DEF Files
  <2>. QED
    BY <1>6, <2>3, Zenon DEF SetMembers
<1>12. /\ FileRest(t, P, M, C) /\ SameGroups(u, t) /\ SameFrontends(u, t) /\ t.sigs = u.sigs
       /\ t.fe_running = u.fe_running /\ t.maturity = u.maturity
       /\ \A h \in Groups : t.bes[h] = IF h = g THEN l ELSE u.bes[h]
  BY <1>3, <1>4, <1>7, <1>9, <1>10, <1>11, SetMembersInv
<1>13. SameFrontends(s, t) /\ t.fe_running = s.fe_running /\ t.maturity = s.maturity
  BY <1>3, <1>12 DEF SameElse, SameBackends, SameFrontends
<1>14. WaitingOK(t.bes, t.fe_running, t.maturity, {b})
  <2>1. \A h \in Groups : \A x, y : InOrder(t.bes[h], x, y) => y = b \/ InOrder(s.bes[h], x, y)
    BY <1>4, <1>7, <1>10, <1>12
  <2>2. WaitingOK(s.bes, s.fe_running, s.maturity, {})
    BY DEF Sound, FileInv
  <2>. QED
    BY <1>13, <2>1, <2>2 DEF WaitingOK
<1>15. t.starting[g] = Nil /\ \A h \in Groups : t.starting[h] \in {Nil, s.starting[h]}
  BY <1>3, <1>12 DEF CanGet, SameGroups
<1>16. Onward(s, t, P)
  <2>1. \A h \in Groups : Range(t.bes[h]) = Range(s.bes[h])
    BY <1>4, <1>7, <1>10, <1>12
  <2>. QED
    BY <1>3, <1>12, <1>15, <2>1 DEF Onward, SameGroups
<1>17. Sound(t, {b}, P, M, C)
  BY <1>12, <1>14, <1>16, OnwardSound DEF FileInv
<1>18. b \in Range(t.bes[g]) /\ \A y \in Backends : ~InOrder(t.bes[g], b, y)
  BY <1>7, <1>8, <1>12
<1>19. t.fe_running[b] = Nil
  BY <1>5, <1>4, <1>13 DEF CanGet, IsWaiting
<1>. QED
  BY <1>8, <1>13, <1>15, <1>16, <1>17, <1>18, <1>19

\* What the file becomes when frontend c takes backend b.
SetPair(s, g, c, b) ==
  [s EXCEPT !.backend[c] = b, !.fe_running[b] = c, !.run = <<c>> \o @, !.starting[g] = b]

PairSet(s, t, g, c, b) ==
  /\ t \in Files /\ t.glist = s.glist /\ t.version = s.version /\ t.parent = s.parent
  /\ t.bes = s.bes /\ t.maturity = s.maturity
  /\ t.fes = s.fes /\ t.sent_sig = s.sent_sig /\ t.sigs = s.sigs
  /\ \A x \in Frontends : t.backend[x] = IF x = c THEN b ELSE s.backend[x]
  /\ \A x \in Backends : t.fe_running[x] = IF x = b THEN c ELSE s.fe_running[x]
  /\ \A h \in Groups : t.starting[h] = IF h = g THEN b ELSE s.starting[h]
  /\ \A x : x \in Range(t.run) <=> x = c \/ x \in Range(s.run)
  /\ IsInjective(s.run) /\ c \notin Range(s.run) => IsInjective(t.run)

LEMMA SetPairIs ==
  ASSUME NEW s \in Files, NEW g \in Groups, NEW c \in Frontends, NEW b \in Backends,
         NEW t, t = SetPair(s, g, c, b)
  PROVE  PairSet(s, t, g, c, b)
<1>1. PICK o : o = <<c>>
  OBVIOUS
<1>2. o \in Seq(Frontends)
  BY <1>1
<1>3. s.run \in Seq(Frontends)
  BY DEF Files
<1>4. PICK l : l = o \o s.run
  OBVIOUS
<1>5. /\ l \in Seq(Frontends)
      /\ Range(l) = Range(o) \cup Range(s.run)
      /\ \A x, y : InOrder(l, x, y) <=>
           \/ InOrder(o, x, y) \/ InOrder(s.run, x, y)
           \/ x \in Range(o) /\ y \in Range(s.run)
  BY <1>2, <1>3, <1>4, Joined
<1>6. Range(o) = {c} /\ \A x, y : ~InOrder(o, x, y)
  BY <1>1, OneElement
<1>7. IsInjective(s.run) /\ c \notin Range(s.run) => IsInjective(l)
  BY <1>3, <1>5, <1>6, OnceMeans
<1>8. PICK B : B = [s.backend EXCEPT ![c] = b]
  OBVIOUS
<1>9. PICK F : F = [s.fe_running EXCEPT ![b] = c]
  OBVIOUS
<1>10. PICK S : S = [s.starting EXCEPT ![g] = b]
  OBVIOUS
<1>11. /\ B \in [Frontends -> Backends \cup {Nil}]
       /\ \A x \in Frontends : B[x] = IF x = c THEN b ELSE s.backend[x]
  BY <1>8 DEF Files
<1>12. /\ F \in [Backends -> Frontends \cup Backends \cup {Nil}]
       /\ \A x \in Backends : F[x] = IF x = b THEN c ELSE s.fe_running[x]
  BY <1>9 DEF Files
<1>13. /\ S \in [Groups -> Backends \cup Parents \cup {Nil}]
       /\ \A h \in Groups : S[h] = IF h = g THEN b ELSE s.starting[h]
  BY <1>10 DEF Files
<1>14. t = [s EXCEPT !.backend = B, !.fe_running = F, !.run = l, !.starting = S]
  <2>1. t = [s EXCEPT !.backend[c] = b, !.fe_running[b] = c, !.run = <<c>> \o @, !.starting[g] = b]
    BY DEF SetPair
  <2>2. t = [s EXCEPT !.backend = [s.backend EXCEPT ![c] = b], !.fe_running = [s.fe_running EXCEPT ![b] = c],
                      !.run = <<c>> \o s.run, !.starting = [s.starting EXCEPT ![g] = b]]
    BY <2>1 DEF Files
  <2>. QED
    BY <1>1, <1>4, <1>8, <1>9, <1>10, <2>2, Zenon
<1>15. /\ t \in Files /\ t.glist = s.glist /\ t.version = s.version /\ t.parent = s.parent
       /\ t.bes = s.bes /\ t.maturity = s.maturity
       /\ t.fes = s.fes /\ t.sent_sig = s.sent_sig /\ t.sigs = s.sigs
       /\ t.backend = B /\ t.fe_running = F /\ t.run = l /\ t.starting = S
  <2>1. t \in Files
    <3>1. PICK u \in Files : u = [s EXCEPT !.backend = B]
      BY <1>11 DEF Files
    <3>2. PICK v \in Files : v = [u EXCEPT !.fe_running = F]
      BY <1>12 DEF Files
    <3>3. PICK w \in Files : w = [v EXCEPT !.run = l]
      BY <1>5 DEF Files
    <3>4. PICK x \in Files : x = [w EXCEPT !.starting = S]
      BY <1>13 DEF Files
    <3>. QED
      BY <1>14, <3>1, <3>2, <3>3, <3>4
  <2>2. /\ t.glist = s.glist /\ t.version = s.version /\ t.parent = s.parent
        /\ t.bes = s.bes /\ t.maturity = s.maturity
        /\ t.fes = s.fes /\ t.sent_sig = s.sent_sig /\ t.sigs = s.sigs
        /\ t.backend = B /\ t.fe_running = F /\ t.run = l /\ t.starting = S
    BY <1>14 DEF Files
  <2>. QED
    BY <2>1, <2>2
<1>. QED
  BY <1>5, <1>6, <1>7, <1>11, <1>12, <1>13, <1>15 DEF PairSet

\* The processes that are not in D are where they were.
OthersStay(D, P, M, P2, M2) == \A p \in Pids \ D : P2[p] = P[p] /\ M2[p] = M[p]

\* What speedy_backend_be_wait_get has taken: nobody, or b.
HasTaken(s, L, g, c, b) ==
  \/ b = Nil /\ L = {}
  \/ /\ b \in Backends /\ L = {b} /\ b \in Range(s.bes[g]) /\ s.fe_running[b] = Nil
     /\ \A y \in Backends : ~InOrder(s.bes[g], b, y)
     /\ s.starting[g] = Nil /\ ~s.sent_sig[c]

Connects(c, b, C, C2) ==
  C2[b] = Append(C[b], c) /\ \A x \in Backends \ {b} : C2[x] = C[x]

LEMMA TakenSound ==
  ASSUME NEW s, NEW P, NEW M, NEW C, NEW L, NEW b \in Backends, Sound(s, L, P, M, C),
         NEW g \in Groups, NEW c \in Frontends, HasTaken(s, L, g, c, b),
         P[b] \notin Defunct \cup {"none"},
         \A h \in Groups : c \notin Range(s.fes[h]), c \notin Range(s.run),
         NEW P2, NEW M2, NEW C2, OthersStay({c}, P, M, P2, M2), P2[c] = "connected",
         Connects(c, b, C, C2), NEW t, t = SetPair(s, g, c, b)
  PROVE  Sound(t, {}, P2, M2, C2)
<1>1. /\ b \in Range(s.bes[g]) /\ s.fe_running[b] = Nil
      /\ \A y \in Backends : ~InOrder(s.bes[g], b, y)
      /\ s.starting[g] = Nil /\ ~s.sent_sig[c]
      /\ \A y : y \in L => y = b
  BY KindsAssumption DEF HasTaken, Pids
<1>2. FileRest(s, P, M, C) /\ s \in Files
  BY DEF Sound, FileInv, FileRest
<1>3. /\ t \in Files /\ t.glist = s.glist /\ t.version = s.version /\ t.parent = s.parent
      /\ t.bes = s.bes /\ t.maturity = s.maturity
      /\ t.fes = s.fes /\ t.sent_sig = s.sent_sig /\ t.sigs = s.sigs
      /\ \A x \in Frontends : t.backend[x] = IF x = c THEN b ELSE s.backend[x]
      /\ \A x \in Backends : t.fe_running[x] = IF x = b THEN c ELSE s.fe_running[x]
      /\ \A h \in Groups : t.starting[h] = IF h = g THEN b ELSE s.starting[h]
      /\ \A x : x \in Range(t.run) <=> x = c \/ x \in Range(s.run)
      /\ IsInjective(s.run) /\ c \notin Range(s.run) => IsInjective(t.run)
  <2>1. PairSet(s, t, g, c, b)
    BY <1>2, SetPairIs
  <2>. QED
    BY <2>1 DEF PairSet
<1>4. /\ Nil \notin Frontends /\ Nil \notin Backends /\ b \notin Frontends /\ c \notin Backends
      /\ b \notin Parents
  BY KindsAssumption DEF Pids
<1>5. /\ \A x \in Backends : P2[x] = P[x] /\ M2[x] = M[x]
      /\ \A m \in Parents : P2[m] = P[m] /\ M2[m] = M[m]
      /\ \A x \in Frontends : x # c => P2[x] = P[x] /\ M2[x] = M[x]
  BY KindsAssumption DEF OthersStay, Pids
<1>6. C[b] = <<>>
  BY <1>1, <1>2 DEF FileRest, ConnOK
<1>7. C2[b] = <<c>> /\ \A x \in Backends \ {b} : C2[x] = C[x]
  BY <1>6 DEF Connects
<1>8. C2[b] \in Seq(Frontends) /\ Len(C2[b]) = 1 /\ C2[b] # <<>> /\ c \in Range(C2[b])
  <2>1. Range(<<c>>) = {c}
    BY OneElement
  <2>. QED
    BY <1>7, <2>1
<1>9. \A x \in Backends : Range(C[x]) \subseteq Range(C2[x]) /\ (C[x] # <<>> => C2[x] # <<>>)
  BY <1>6, <1>7, <1>8, EmptyList
<1>10. P[b] \notin {"born", "accepted", "perl"}
  BY <1>1, <1>2, <1>4, <1>6 DEF FileRest, ConnOK
<1>11. SelfOK(t.fe_running)
  BY <1>2, <1>3 DEF FileRest, SelfOK
<1>12. OnceOK(t.glist, t.run, t.bes, t.fes)
  BY <1>2, <1>3 DEF FileRest, OnceOK
<1>13. ApartOK(t.run, t.bes, t.fes)
  <2>1. \A h \in Groups : Range(s.fes[h]) \cap Range(s.run) = {}
    BY <1>2 DEF FileRest, ApartOK
  <2>2. \A h \in Groups : \A x \in Range(s.fes[h]) : x \notin Range(t.run)
    BY <1>3, <2>1
  <2>3. \A h \in Groups : Range(t.fes[h]) \cap Range(t.run) = {}
    BY <1>3, <2>2
  <2>. QED
    BY <1>2, <1>3, <2>3 DEF FileRest, ApartOK
<1>14. FreeOK(t.glist, t.version, t.starting, t.parent, t.bes, t.fes)
  BY <1>1, <1>2, <1>3, EmptyList DEF FileRest, FreeOK
<1>15. BackendsOwn(t.bes, P2, M2)
  BY <1>2, <1>3, <1>5 DEF FileRest, BackendsOwn
<1>16. QueueOwn(t.fes, P2, M2)
  BY <1>2, <1>3, <1>5 DEF FileRest, QueueOwn, Waiting
<1>17. RunOwn(t.run, t.backend, P2)
  BY <1>1, <1>2, <1>3, <1>5 DEF FileRest, RunOwn, Active
<1>18. ParentsOwn(t.parent, t.sigs, P2, M2)
  BY <1>2, <1>3, <1>5 DEF FileRest, ParentsOwn
<1>19. PairOK(t.run, t.fe_running, t.backend)
  <2>1. s.backend \in [Frontends -> Backends \cup {Nil}]
    BY <1>2 DEF Files
  <2>2. PairOK(s.run, s.fe_running, s.backend)
    BY <1>2 DEF FileRest
  <2>3. ASSUME NEW x \in Frontends, t.backend[x] # Nil PROVE t.fe_running[t.backend[x]] = x
    BY <1>1, <1>3, <1>4, <2>1, <2>2, <2>3 DEF PairOK
  <2>4. ASSUME NEW y \in Backends, t.fe_running[y] \in Frontends
        PROVE  t.fe_running[y] \in Range(t.run) /\ t.backend[t.fe_running[y]] = y
    BY <1>3, <2>2, <2>4 DEF PairOK
  <2>. QED
    BY <2>3, <2>4 DEF PairOK
<1>20. ConnOK(t.fe_running, P2, C2)
  <2>1. ASSUME NEW x \in Backends, x # b
        PROVE  /\ C2[x] \in Seq(Frontends) /\ Len(C2[x]) <= 1
               /\ t.fe_running[x] = Nil \/ P2[x] \in {"none", "born"} \cup Defunct => C2[x] = <<>>
               /\ P2[x] \in {"accepted", "perl"} => C2[x] # <<>>
               /\ P2[x] = "born" => t.fe_running[x] = x
    BY <1>2, <1>3, <1>5, <1>7, <2>1 DEF FileRest, ConnOK
  <2>2. /\ C2[b] \in Seq(Frontends) /\ Len(C2[b]) <= 1
        /\ ~(t.fe_running[b] = Nil \/ P2[b] \in {"none", "born"} \cup Defunct)
        /\ C2[b] # <<>> /\ P2[b] # "born"
    BY <1>3, <1>4, <1>5, <1>8, <1>10
  <2>. QED
    BY <2>1, <2>2 DEF ConnOK
<1>21. StatusOK(t.backend, P2, C2)
  <2>1. ASSUME NEW x \in Frontends, P2[x] \in Active, t.backend[x] # Nil
        PROVE  P2[t.backend[x]] \in {"none", "leaving"} \cup Defunct \/ x \in Range(C2[t.backend[x]])
    <3>1. CASE x = c
      BY <1>3, <1>8, <3>1
    <3>2. CASE x # c
      <4>1. s.backend[x] \in Backends /\ P[x] \in Active /\ t.backend[x] = s.backend[x]
        BY <1>2, <1>3, <1>5, <2>1, <3>2 DEF Files
      <4>2. P[s.backend[x]] \in {"none", "leaving"} \cup Defunct \/ x \in Range(C[s.backend[x]])
        BY <1>2, <1>4, <4>1 DEF FileRest, StatusOK
      <4>. QED
        BY <1>5, <1>9, <4>1, <4>2
    <3>. QED
      BY <3>1, <3>2
  <2>. QED
    BY <2>1 DEF StatusOK
<1>22. ToldOK(t.fes, t.sent_sig, P2)
  BY <1>1, <1>2, <1>3, <1>5 DEF FileRest, ToldOK
<1>23. StartsUpOK(t.starting, t.parent, P2)
  <2>1. s.parent[g] \in Parents => P[s.parent[g]] \notin Starting
    BY <1>1, <1>2, <1>4, KindsAssumption DEF FileRest, StartsUpOK, Pids
  <2>. QED
    BY <1>2, <1>3, <1>5, <2>1 DEF FileRest, StartsUpOK
<1>24. QuietOK(t.sigs, P2)
  BY <1>2, <1>3, <1>5 DEF FileRest, QuietOK
<1>25. WaitingOK(t.bes, t.fe_running, t.maturity, {})
  <2>1. SUFFICES ASSUME NEW h \in Groups, NEW x \in Backends, NEW y \in Backends,
                        InOrder(t.bes[h], x, y), t.fe_running[y] = Nil
                 PROVE  t.fe_running[x] = Nil /\ t.maturity[x] >= t.maturity[y]
    BY DEF WaitingOK
  <2>2. y # b /\ s.fe_running[y] = Nil
    BY <1>3, <1>4, <2>1
  <2>3. s.fe_running[x] = Nil /\ s.maturity[x] >= s.maturity[y]
    BY <1>1, <1>3, <2>1, <2>2 DEF Sound, FileInv, WaitingOK
  <2>4. x # b
    <3>1. s.bes[h] \in Seq(Backends)
      BY <1>2 DEF Files
    <3>2. x \in Range(s.bes[h])
      BY <1>3, <2>1, <3>1, ElementsOf
    <3>. QED
      BY <1>1, <1>2, <1>3, <2>1, <3>2 DEF FileRest, ApartOK
  <2>. QED
    BY <1>3, <2>3, <2>4
<1>26. FileInv(t, {}, P2, M2, C2)
  <2>1. ValidOK(t.glist, t.version)
    BY <1>2, <1>3 DEF FileRest
  <2>. QED
    BY <1>3, <1>11, <1>12, <1>13, <1>14, <1>15, <1>16, <1>17, <1>18, <1>19, <1>20, <1>21, <1>22,
       <1>23, <1>24, <1>25, <2>1 DEF FileInv, FileRest
<1>27. StartInv(t, P2, M2, C2)
  <2>1. StartInv(s, P, M, C)
    BY DEF Sound
  <2>2. FullOK(t.bes) /\ NewOK(t.version, t.parent, t.bes)
    BY <1>3, <2>1 DEF StartInv
  <2>3. NamedOK(t.starting, t.parent, P2)
    BY <1>3, <1>4, <1>5, <2>1 DEF StartInv, NamedOK
  <2>4. InstalledOK(t.version, t.parent, P2, M2)
    BY <1>3, <1>5, <2>1 DEF StartInv, InstalledOK
  <2>5. AskedOK(t.version, t.starting, t.bes, t.sigs, P2, M2)
    BY <1>3, <1>4, <1>5, <2>1 DEF StartInv, AskedOK
  <2>6. ComesOK(t.starting, t.bes, P2, C2)
    BY <1>1, <1>3, <1>5, <1>8, <1>9, <1>10, <2>1 DEF StartInv, ComesOK
  <2>. QED
    BY <2>2, <2>3, <2>4, <2>5, <2>6 DEF StartInv
<1>. QED
  BY <1>26, <1>27 DEF Sound

-----------------------------------------------------------------------------
(* A process goes on, and the file stays                                   *)

LEMMA FrontendMoves ==
  ASSUME NEW s, NEW P, NEW M, NEW C, NEW L, Sound(s, L, P, M, C), NEW c \in Frontends,
         NEW P2, NEW M2, OthersStay({c}, P, M, P2, M2),
         P2[c] \in Waiting => P[c] \in Waiting /\ M2[c].group = M[c].group,
         P2[c] \in Active => P[c] \in Active,
         \A g \in Groups : c \in Range(s.fes[g]) => P2[c] \in Waiting \cup Gone,
         c \in Range(s.run) => P2[c] \in Active \cup Gone,
         s.sent_sig[c] /\ P2[c] # "leaving" => P[c] # "leaving" /\ (P[c] \in Gone => P2[c] \in Gone)
  PROVE  Sound(s, L, P2, M2, C)
<1>1. FileRest(s, P, M, C) /\ s \in Files
  BY DEF Sound, FileInv, FileRest
<1>2. /\ \A x \in Backends : P2[x] = P[x] /\ M2[x] = M[x]
      /\ \A m \in Parents : P2[m] = P[m] /\ M2[m] = M[m]
      /\ \A x \in Frontends : x # c => P2[x] = P[x] /\ M2[x] = M[x]
  BY KindsAssumption DEF OthersStay, Pids
<1>3. s.starting \in [Groups -> Backends \cup Parents \cup {Nil}] /\ s.backend \in [Frontends -> Backends \cup {Nil}]
  BY <1>1 DEF Files
<1>4. BackendsOwn(s.bes, P2, M2)
  BY <1>1, <1>2 DEF FileRest, BackendsOwn
<1>5. QueueOwn(s.fes, P2, M2)
  <2>1. QueueOwn(s.fes, P, M)
    BY <1>1 DEF FileRest
  <2>2. ASSUME NEW x \in Frontends
        PROVE  /\ P2[x] \in Waiting => M2[x].group \in Groups /\ x \in Range(s.fes[M2[x].group])
               /\ \A g \in Groups : x \in Range(s.fes[g]) => P2[x] \in Waiting \cup Gone
    <3>1. CASE x = c
      BY <2>1, <3>1 DEF QueueOwn
    <3>2. CASE x # c
      BY <1>2, <2>1, <3>2 DEF QueueOwn
    <3>. QED
      BY <3>1, <3>2
  <2>. QED
    BY <2>2 DEF QueueOwn
<1>6. RunOwn(s.run, s.backend, P2)
  BY <1>1, <1>2 DEF FileRest, RunOwn
<1>7. ParentsOwn(s.parent, s.sigs, P2, M2)
  BY <1>1, <1>2 DEF FileRest, ParentsOwn
<1>8. ConnOK(s.fe_running, P2, C)
  BY <1>1, <1>2 DEF FileRest, ConnOK
<1>9. StatusOK(s.backend, P2, C)
  BY <1>1, <1>2, <1>3 DEF FileRest, StatusOK
<1>10. ToldOK(s.fes, s.sent_sig, P2)
  <2>1. ToldOK(s.fes, s.sent_sig, P)
    BY <1>1 DEF FileRest
  <2>2. ASSUME NEW x \in Frontends, s.sent_sig[x], P2[x] # "leaving"
        PROVE  \E g \in Groups : /\ x \in Range(s.fes[g])
                                 /\ P2[x] \notin Gone => \A d \in Frontends : ~InOrder(s.fes[g], d, x)
    <3>1. P[x] # "leaving" /\ (P[x] \in Gone => P2[x] \in Gone)
      BY <1>2, <2>2
    <3>. QED
      BY <2>1, <2>2, <3>1 DEF ToldOK
  <2>. QED
    BY <2>2 DEF ToldOK
<1>11. StartsUpOK(s.starting, s.parent, P2)
  BY <1>1, <1>2 DEF FileRest, StartsUpOK
<1>12. QuietOK(s.sigs, P2)
  BY <1>1, <1>2 DEF FileRest, QuietOK
<1>13. FileInv(s, L, P2, M2, C)
  BY <1>1, <1>4, <1>5, <1>6, <1>7, <1>8, <1>9, <1>10, <1>11, <1>12 DEF Sound, FileInv, FileRest
<1>14. StartInv(s, P, M, C)
  BY DEF Sound
<1>15. NamedOK(s.starting, s.parent, P2)
  BY <1>2, <1>14 DEF StartInv, NamedOK
<1>16. InstalledOK(s.version, s.parent, P2, M2)
  BY <1>2, <1>14 DEF StartInv, InstalledOK
<1>17. AskedOK(s.version, s.starting, s.bes, s.sigs, P2, M2)
  BY <1>2, <1>14 DEF StartInv, AskedOK
<1>18. ComesOK(s.starting, s.bes, P2, C)
  BY <1>2, <1>14 DEF StartInv, ComesOK
<1>. QED
  BY <1>13, <1>14, <1>15, <1>16, <1>17, <1>18 DEF Sound, StartInv

LEMMA ParentMoves ==
  ASSUME NEW s, NEW P, NEW M, NEW C, NEW L, Sound(s, L, P, M, C), NEW m \in Parents,
         NEW P2, NEW M2, OthersStay({m}, P, M, P2, M2),
         P2[m] \in {"wait", "serve"} /\ "KILL" \notin s.sigs[m] =>
           M2[m].group \in Groups /\ s.parent[M2[m].group] = m,
         P2[m] \in Starting \cup {"none"} => "USR1" \notin s.sigs[m],
         P2[m] \in Starting /\ P[m] \notin Starting => \A g \in Groups : s.parent[g] # m,
         P2[m] # "none" /\ P[m] = "none" => \A g \in Groups : s.starting[g] # m,
         \A g \in Groups : P2[m] \in {"wait", "serve"} /\ s.version[g] # 0 /\ s.parent[g] = m =>
           M2[m].group = g,
         \A g \in Groups : s.version[g] # 0 /\ s.starting[g] = m /\ P2[m] # "none" /\ "KILL" \notin s.sigs[m] =>
           P2[m] \in Starting \/ "USR1" \in s.sigs[m] \cup M2[m].got
  PROVE  Sound(s, L, P2, M2, C)
<1>1. FileRest(s, P, M, C) /\ s \in Files
  BY DEF Sound, FileInv, FileRest
<1>2. /\ \A x \in Backends : P2[x] = P[x] /\ M2[x] = M[x]
      /\ \A x \in Frontends : P2[x] = P[x] /\ M2[x] = M[x]
      /\ \A x \in Parents : x # m => P2[x] = P[x] /\ M2[x] = M[x]
  BY KindsAssumption DEF OthersStay, Pids
<1>3. s.backend \in [Frontends -> Backends \cup {Nil}]
  BY <1>1 DEF Files
<1>4. BackendsOwn(s.bes, P2, M2)
  BY <1>1, <1>2 DEF FileRest, BackendsOwn
<1>5. QueueOwn(s.fes, P2, M2)
  BY <1>1, <1>2 DEF FileRest, QueueOwn
<1>6. RunOwn(s.run, s.backend, P2)
  BY <1>1, <1>2 DEF FileRest, RunOwn
<1>7. ParentsOwn(s.parent, s.sigs, P2, M2)
  BY <1>1, <1>2 DEF FileRest, ParentsOwn
<1>8. ConnOK(s.fe_running, P2, C)
  BY <1>1, <1>2 DEF FileRest, ConnOK
<1>9. StatusOK(s.backend, P2, C)
  BY <1>1, <1>2, <1>3 DEF FileRest, StatusOK
<1>10. ToldOK(s.fes, s.sent_sig, P2)
  BY <1>1, <1>2 DEF FileRest, ToldOK
<1>11. StartsUpOK(s.starting, s.parent, P2)
  BY <1>1, <1>2 DEF FileRest, StartsUpOK
<1>12. QuietOK(s.sigs, P2)
  BY <1>1, <1>2 DEF FileRest, QuietOK
<1>13. FileInv(s, L, P2, M2, C)
  BY <1>1, <1>4, <1>5, <1>6, <1>7, <1>8, <1>9, <1>10, <1>11, <1>12 DEF Sound, FileInv, FileRest
<1>14. StartInv(s, P, M, C)
  BY DEF Sound
<1>15. NamedOK(s.starting, s.parent, P2)
  BY <1>2, <1>14 DEF StartInv, NamedOK
<1>16. InstalledOK(s.version, s.parent, P2, M2)
  BY <1>2, <1>14 DEF StartInv, InstalledOK
<1>17. AskedOK(s.version, s.starting, s.bes, s.sigs, P2, M2)
  <2>1. ASSUME NEW g \in Groups, s.version[g] # 0, s.starting[g] \in Parents,
               P2[s.starting[g]] # "none", "KILL" \notin s.sigs[s.starting[g]]
        PROVE  /\ P2[s.starting[g]] \in Starting \/ "USR1" \in s.sigs[s.starting[g]] \cup M2[s.starting[g]].got
               /\ MaxBackends = 0 \/ Cardinality(Range(s.bes[g])) < MaxBackends
    <3>1. P[s.starting[g]] # "none"
      BY <1>2, <2>1
    <3>. QED
      BY <1>2, <1>14, <2>1, <3>1 DEF StartInv, AskedOK
  <2>. QED
    BY <2>1 DEF AskedOK
<1>18. ComesOK(s.starting, s.bes, P2, C)
  BY <1>2, <1>14 DEF StartInv, ComesOK
<1>. QED
  BY <1>13, <1>14, <1>15, <1>16, <1>17, <1>18 DEF Sound, StartInv

OtherConns(b, C, C2) == \A x \in Backends \ {b} : C2[x] = C[x]

\* What is in the file about b, and its connection, fits where b is.
BackendFits(b, s, P, P2, M2, C2) ==
  /\ P2[b] \notin Defunct \cup {"none"} =>
       M2[b].group \in Groups /\ b \in Range(s.bes[M2[b].group])
  /\ C2[b] \in Seq(Frontends) /\ Len(C2[b]) <= 1
  /\ s.fe_running[b] = Nil \/ P2[b] \in {"none", "born"} \cup Defunct => C2[b] = <<>>
  /\ P2[b] \in {"accepted", "perl"} => C2[b] # <<>>
  /\ P2[b] = "born" => s.fe_running[b] = b
  /\ \A c \in Frontends : s.backend[c] = b /\ P[c] \in Active =>
       P2[b] \in {"none", "leaving"} \cup Defunct \/ c \in Range(C2[b])
  /\ \A g \in Groups : s.starting[g] = b =>
       /\ P2[b] \in {"none", "born", "leaving"} \cup Defunct \/ C2[b] # <<>>
       /\ P2[b] \notin {"none"} \cup Defunct => b \in Range(s.bes[g])
       /\ P2[b] # "perl"

LEMMA BackendMoves ==
  ASSUME NEW s, NEW P, NEW M, NEW C, NEW L, Sound(s, L, P, M, C), NEW b \in Backends,
         NEW P2, NEW M2, NEW C2, OthersStay({b}, P, M, P2, M2), OtherConns(b, C, C2),
         BackendFits(b, s, P, P2, M2, C2)
  PROVE  Sound(s, L, P2, M2, C2)
<1>. /\ \A x \in Backends \ {b} : C2[x] = C[x]
     /\ P2[b] \notin Defunct \cup {"none"} =>
          M2[b].group \in Groups /\ b \in Range(s.bes[M2[b].group])
     /\ C2[b] \in Seq(Frontends) /\ Len(C2[b]) <= 1
     /\ s.fe_running[b] = Nil \/ P2[b] \in {"none", "born"} \cup Defunct => C2[b] = <<>>
     /\ P2[b] \in {"accepted", "perl"} => C2[b] # <<>>
     /\ P2[b] = "born" => s.fe_running[b] = b
     /\ \A c \in Frontends : s.backend[c] = b /\ P[c] \in Active =>
          P2[b] \in {"none", "leaving"} \cup Defunct \/ c \in Range(C2[b])
     /\ \A g \in Groups : s.starting[g] = b =>
          /\ P2[b] \in {"none", "born", "leaving"} \cup Defunct \/ C2[b] # <<>>
          /\ P2[b] \notin {"none"} \cup Defunct => b \in Range(s.bes[g])
          /\ P2[b] # "perl"
  BY DEF OtherConns, BackendFits
<1>1. FileRest(s, P, M, C) /\ s \in Files
  BY DEF Sound, FileInv, FileRest
<1>2. /\ \A x \in Parents : P2[x] = P[x] /\ M2[x] = M[x]
      /\ \A x \in Frontends : P2[x] = P[x] /\ M2[x] = M[x]
      /\ \A x \in Backends : x # b => P2[x] = P[x] /\ M2[x] = M[x] /\ C2[x] = C[x]
  BY KindsAssumption DEF OthersStay, Pids
<1>3. s.backend \in [Frontends -> Backends \cup {Nil}]
  BY <1>1 DEF Files
<1>4. BackendsOwn(s.bes, P2, M2)
  BY <1>1, <1>2 DEF FileRest, BackendsOwn
<1>5. QueueOwn(s.fes, P2, M2)
  BY <1>1, <1>2 DEF FileRest, QueueOwn
<1>6. RunOwn(s.run, s.backend, P2)
  BY <1>1, <1>2 DEF FileRest, RunOwn
<1>7. ParentsOwn(s.parent, s.sigs, P2, M2)
  BY <1>1, <1>2 DEF FileRest, ParentsOwn
<1>8. ConnOK(s.fe_running, P2, C2)
  BY <1>1, <1>2 DEF FileRest, ConnOK
<1>9. StatusOK(s.backend, P2, C2)
  <2>1. ASSUME NEW c \in Frontends, P2[c] \in Active, s.backend[c] # Nil
        PROVE  P2[s.backend[c]] \in {"none", "leaving"} \cup Defunct \/ c \in Range(C2[s.backend[c]])
    <3>1. CASE s.backend[c] = b
      BY <1>2, <2>1, <3>1
    <3>2. CASE s.backend[c] # b
      <4>1. s.backend[c] \in Backends
        BY <1>3, <2>1
      <4>. QED
        BY <1>1, <1>2, <2>1, <3>2, <4>1 DEF FileRest, StatusOK
    <3>. QED
      BY <3>1, <3>2
  <2>. QED
    BY <2>1 DEF StatusOK
<1>10. ToldOK(s.fes, s.sent_sig, P2)
  BY <1>1, <1>2 DEF FileRest, ToldOK
<1>11. StartsUpOK(s.starting, s.parent, P2)
  BY <1>1, <1>2 DEF FileRest, StartsUpOK
<1>12. QuietOK(s.sigs, P2)
  BY <1>1, <1>2 DEF FileRest, QuietOK
<1>13. FileInv(s, L, P2, M2, C2)
  BY <1>1, <1>4, <1>5, <1>6, <1>7, <1>8, <1>9, <1>10, <1>11, <1>12 DEF Sound, FileInv, FileRest
<1>14. StartInv(s, P, M, C)
  BY DEF Sound
<1>15. NamedOK(s.starting, s.parent, P2)
  BY <1>2, <1>14 DEF StartInv, NamedOK
<1>16. InstalledOK(s.version, s.parent, P2, M2)
  BY <1>2, <1>14 DEF StartInv, InstalledOK
<1>17. AskedOK(s.version, s.starting, s.bes, s.sigs, P2, M2)
  BY <1>2, <1>14 DEF StartInv, AskedOK
<1>18. ComesOK(s.starting, s.bes, P2, C2)
  BY <1>2, <1>14 DEF StartInv, ComesOK
<1>. QED
  BY <1>13, <1>14, <1>15, <1>16, <1>17, <1>18 DEF Sound, StartInv

-----------------------------------------------------------------------------
(* Signals come and are taken, processes end                               *)

LEMMA SignalSound ==
  ASSUME NEW s, NEW P, NEW M, NEW C, NEW L, Sound(s, L, P, M, C), NEW me, NEW D,
         NEW sig \in {"CHLD", "USR1", "TERM", "KILL"},
         sig = "TERM" => D \cap Parents = {},
         sig = "USR1" => \A m \in D \cap Parents : P[m] \notin Starting \cup {"none"},
         NEW t, t = Signal(s, me, D, sig)
  PROVE  Sound(t, L, P, M, C)
<1>1. FileRest(s, P, M, C) /\ s \in Files
  BY DEF Sound, FileInv, FileRest
<1>2. FileRest(t, P, M, C)
  BY <1>1, SignalInv
<1>3. /\ SameGroups(s, t) /\ SameBackends(s, t)
      /\ t.sigs = [p \in Pids |-> IF p \in D \ {me} THEN s.sigs[p] \cup {sig} ELSE s.sigs[p]]
  BY <1>1, SignalIs
<1>4. \A m \in Parents : s.sigs[m] \subseteq t.sigs[m]
  BY <1>3 DEF Pids
<1>5. Onward(s, t, P)
  BY <1>3, <1>4, OnwardSame DEF SameBackends
<1>. QED
  BY <1>2, <1>3, <1>5, SameSound

\* A file that differs in the signals alone.
SameButSigs(s, t) ==
  SameGroups(s, t) /\ SameBackends(s, t) /\ SameFrontends(s, t)

LEMMA FewerSigs ==
  ASSUME NEW s, NEW P, NEW M, NEW C, NEW L, Sound(s, L, P, M, C),
         NEW t, t \in Files, SameButSigs(s, t),
         \A m \in Parents :
           /\ t.sigs[m] \subseteq s.sigs[m]
           /\ "KILL" \in s.sigs[m] /\ "KILL" \notin t.sigs[m] => P[m] = "none"
           /\ "USR1" \in s.sigs[m] /\ "USR1" \notin t.sigs[m] => P[m] = "none" \/ "USR1" \in M[m].got
  PROVE  Sound(t, L, P, M, C)
<1>1. FileRest(s, P, M, C) /\ s \in Files
  BY DEF Sound, FileInv, FileRest
<1>2. ParentsOwn(t.parent, t.sigs, P, M)
  BY <1>1 DEF FileRest, ParentsOwn, SameButSigs, SameGroups
<1>3. QuietOK(t.sigs, P)
  BY <1>1 DEF FileRest, QuietOK
<1>4. FileInv(t, L, P, M, C)
  BY <1>1, <1>2, <1>3
     DEF Sound, FileInv, FileRest, SameButSigs, SameGroups, SameBackends, SameFrontends
<1>5. StartInv(s, P, M, C)
  BY DEF Sound
<1>6. AskedOK(t.version, t.starting, t.bes, t.sigs, P, M)
  BY <1>5 DEF StartInv, AskedOK, SameButSigs, SameGroups, SameBackends
<1>. QED
  BY <1>4, <1>5, <1>6 DEF Sound, StartInv, SameButSigs, SameGroups, SameBackends

LEMMA ReapIs ==
  ASSUME NEW s \in Files, NEW D, NEW t, t = Reap(s, D)
  PROVE  /\ t \in Files /\ SameButSigs(s, t)
         /\ \A p \in Pids : t.sigs[p] = IF p \in D THEN {} ELSE s.sigs[p]
<1>1. PICK S : S = [p \in Pids |-> IF p \in D THEN {} ELSE s.sigs[p]]
  OBVIOUS
<1>2. S \in [Pids -> SUBSET {"CHLD", "USR1", "TERM", "KILL"}]
  BY <1>1 DEF Files
<1>3. t = [s EXCEPT !.sigs = S]
  BY <1>1 DEF Reap, Files
<1>4. t \in Files /\ SameButSigs(s, t) /\ t.sigs = S
  BY <1>2, <1>3 DEF Files, SameButSigs, SameGroups, SameBackends, SameFrontends
<1>. QED
  BY <1>1, <1>4

\* The processes in E end.
LEMMA ReapSound ==
  ASSUME NEW s, NEW P, NEW M, NEW C, NEW L, Sound(s, L, P, M, C), NEW E \in SUBSET Pids,
         NEW P2, NEW M2, NEW C2, OthersStay(E, P, M, P2, M2), \A x \in Backends \ E : C2[x] = C[x],
         \A c \in E \cap Frontends : P2[c] \in Gone /\ P[c] # "leaving",
         \A b \in E \cap Backends : P2[b] \in {"none"} \cup Defunct /\ C2[b] = <<>>,
         \A m \in E \cap Parents : P2[m] = "none",
         NEW t, t = Reap(s, E)
  PROVE  Sound(t, L, P2, M2, C2)
<1>1. FileRest(s, P, M, C) /\ s \in Files
  BY DEF Sound, FileInv, FileRest
<1>2. /\ t \in Files /\ SameButSigs(s, t)
      /\ \A p \in Pids : t.sigs[p] = IF p \in E THEN {} ELSE s.sigs[p]
  BY <1>1, ReapIs
<1>3. /\ \A x \in Parents : x \notin E => P2[x] = P[x] /\ M2[x] = M[x] /\ t.sigs[x] = s.sigs[x]
      /\ \A x \in Parents : x \in E => P2[x] = "none" /\ t.sigs[x] = {}
      /\ \A x \in Frontends : x \notin E => P2[x] = P[x] /\ M2[x] = M[x]
      /\ \A x \in Frontends : x \in E => P2[x] \in Gone /\ P[x] # "leaving"
      /\ \A x \in Backends : x \notin E => P2[x] = P[x] /\ M2[x] = M[x] /\ C2[x] = C[x]
      /\ \A x \in Backends : x \in E => P2[x] \in {"none"} \cup Defunct /\ C2[x] = <<>>
  BY <1>2 DEF OthersStay, Pids
<1>4. s.backend \in [Frontends -> Backends \cup {Nil}]
  BY <1>1 DEF Files
<1>5. BackendsOwn(s.bes, P2, M2)
  BY <1>1, <1>3 DEF FileRest, BackendsOwn
<1>6. QueueOwn(s.fes, P2, M2)
  <2>1. QueueOwn(s.fes, P, M)
    BY <1>1 DEF FileRest
  <2>2. ASSUME NEW x \in Frontends
        PROVE  /\ P2[x] \in Waiting => M2[x].group \in Groups /\ x \in Range(s.fes[M2[x].group])
               /\ \A g \in Groups : x \in Range(s.fes[g]) => P2[x] \in Waiting \cup Gone
    <3>1. CASE x \in E
      BY <1>3, <3>1 DEF Waiting, Gone
    <3>2. CASE x \notin E
      BY <1>3, <2>1, <3>2 DEF QueueOwn
    <3>. QED
      BY <3>1, <3>2
  <2>. QED
    BY <2>2 DEF QueueOwn
<1>7. RunOwn(s.run, s.backend, P2)
  BY <1>1, <1>3 DEF FileRest, RunOwn, Active, Gone
<1>8. ParentsOwn(s.parent, t.sigs, P2, M2)
  BY <1>1, <1>3 DEF FileRest, ParentsOwn
<1>9. ConnOK(s.fe_running, P2, C2)
  <2>1. PICK e : e = <<>>
    OBVIOUS
  <2>2. e \in Seq(Frontends) /\ Len(e) <= 1
    BY <2>1
  <2>3. ASSUME NEW x \in Backends, x \in E
        PROVE  /\ C2[x] \in Seq(Frontends) /\ Len(C2[x]) <= 1
               /\ C2[x] = <<>> /\ P2[x] \notin {"accepted", "perl", "born"}
    <3>1. C2[x] = e
      BY <1>3, <2>1, <2>3, Zenon
    <3>2. P2[x] \notin {"accepted", "perl", "born"}
      BY <1>3, <2>3 DEF Defunct
    <3>. QED
      BY <2>1, <2>2, <3>1, <3>2
  <2>. QED
    BY <1>1, <1>3, <2>3 DEF FileRest, ConnOK
<1>10. StatusOK(s.backend, P2, C2)
  <2>1. ASSUME NEW c \in Frontends, P2[c] \in Active, s.backend[c] # Nil
        PROVE  P2[s.backend[c]] \in {"none", "leaving"} \cup Defunct \/ c \in Range(C2[s.backend[c]])
    <3>1. c \notin E /\ P[c] \in Active /\ s.backend[c] \in Backends
      BY <1>3, <1>4, <2>1 DEF Active, Gone
    <3>. QED
      BY <1>1, <1>3, <2>1, <3>1 DEF FileRest, StatusOK
  <2>. QED
    BY <2>1 DEF StatusOK
<1>11. ToldOK(s.fes, s.sent_sig, P2)
  <2>1. ToldOK(s.fes, s.sent_sig, P)
    BY <1>1 DEF FileRest
  <2>2. ASSUME NEW x \in Frontends, s.sent_sig[x], P2[x] # "leaving"
        PROVE  \E g \in Groups : /\ x \in Range(s.fes[g])
                                 /\ P2[x] \notin Gone => \A d \in Frontends : ~InOrder(s.fes[g], d, x)
    <3>1. P[x] # "leaving" /\ (P[x] \in Gone => P2[x] \in Gone)
      BY <1>3, <2>2
    <3>. QED
      BY <2>1, <2>2, <3>1 DEF ToldOK
  <2>. QED
    BY <2>2 DEF ToldOK
<1>12. StartsUpOK(s.starting, s.parent, P2)
  BY <1>1, <1>3 DEF FileRest, StartsUpOK, Starting
<1>13. QuietOK(t.sigs, P2)
  BY <1>1, <1>3 DEF FileRest, QuietOK
<1>14. FileInv(t, L, P2, M2, C2)
  BY <1>1, <1>2, <1>5, <1>6, <1>7, <1>8, <1>9, <1>10, <1>11, <1>12, <1>13
     DEF Sound, FileInv, FileRest, SameButSigs, SameGroups, SameBackends, SameFrontends
<1>15. StartInv(s, P, M, C)
  BY DEF Sound
<1>16. NamedOK(s.starting, s.parent, P2)
  BY <1>3, <1>15 DEF StartInv, NamedOK
<1>17. InstalledOK(s.version, s.parent, P2, M2)
  BY <1>3, <1>15 DEF StartInv, InstalledOK
<1>18. AskedOK(s.version, s.starting, s.bes, t.sigs, P2, M2)
  <2>1. ASSUME NEW g \in Groups, s.version[g] # 0, s.starting[g] \in Parents,
               P2[s.starting[g]] # "none", "KILL" \notin t.sigs[s.starting[g]]
        PROVE  /\ P2[s.starting[g]] \in Starting \/ "USR1" \in t.sigs[s.starting[g]] \cup M2[s.starting[g]].got
               /\ MaxBackends = 0 \/ Cardinality(Range(s.bes[g])) < MaxBackends
    <3>1. s.starting[g] \notin E
      BY <1>3, <2>1
    <3>. QED
      BY <1>3, <1>15, <2>1, <3>1 DEF StartInv, AskedOK
  <2>. QED
    BY <2>1 DEF AskedOK
<1>19. ComesOK(s.starting, s.bes, P2, C2)
  <2>1. ASSUME NEW g \in Groups, s.starting[g] \in Backends
        PROVE  /\ P2[s.starting[g]] \in {"none", "born", "leaving"} \cup Defunct \/ C2[s.starting[g]] # <<>>
               /\ P2[s.starting[g]] \notin {"none"} \cup Defunct => s.starting[g] \in Range(s.bes[g])
               /\ P2[s.starting[g]] # "perl"
    <3>1. CASE s.starting[g] \in E
      BY <1>3, <2>1, <3>1 DEF Defunct
    <3>2. CASE s.starting[g] \notin E
      BY <1>3, <1>15, <2>1, <3>2 DEF StartInv, ComesOK
    <3>. QED
      BY <3>1, <3>2
  <2>. QED
    BY <2>1 DEF ComesOK
<1>. QED
  BY <1>2, <1>14, <1>15, <1>16, <1>17, <1>18, <1>19
     DEF Sound, StartInv, SameButSigs, SameGroups, SameBackends

-----------------------------------------------------------------------------
(* In and out of the queue                                                 *)

SetQueue(s, g, l) == [s EXCEPT !.fes[g] = l]

SameButQueues(s, t) ==
  /\ SameGroups(s, t) /\ SameBackends(s, t)
  /\ t.run = s.run /\ t.backend = s.backend /\ t.sent_sig = s.sent_sig /\ t.sigs = s.sigs

LEMMA SetQueueIs ==
  ASSUME NEW s \in Files, NEW g \in Groups, NEW l \in Seq(Frontends), NEW t, t = SetQueue(s, g, l)
  PROVE  /\ t \in Files /\ SameButQueues(s, t)
         /\ \A h \in Groups : t.fes[h] = IF h = g THEN l ELSE s.fes[h]
<1>1. PICK F : F = [s.fes EXCEPT ![g] = l]
  OBVIOUS
<1>2. F \in [Groups -> Seq(Frontends)] /\ \A h \in Groups : F[h] = IF h = g THEN l ELSE s.fes[h]
  BY <1>1 DEF Files
<1>3. t = [s EXCEPT !.fes = F]
  BY <1>1 DEF SetQueue, Files
<1>4. t \in Files /\ SameButQueues(s, t) /\ t.fes = F
  BY <1>2, <1>3 DEF Files, SameButQueues, SameGroups, SameBackends
<1>. QED
  BY <1>2, <1>4

\* c leaves the queue of group g, if it stands there.
Unqueued(s, g, c) == [s EXCEPT !.fes[g] = Without(@, {c})]

LEMMA UnqueueSound ==
  ASSUME NEW s, NEW P, NEW M, NEW C, NEW L, Sound(s, L, P, M, C), NEW g \in Groups,
         NEW c \in Frontends, P[c] \in {"connect", "again"} \cup Waiting,
         P[c] \in Waiting => M[c].group = g,
         NEW P2, NEW M2, OthersStay({c}, P, M, P2, M2), P2[c] = "leaving",
         NEW t, t = Unqueued(s, g, c)
  PROVE  /\ Sound(t, L, P2, M2, C) /\ SameButQueues(s, t)
         /\ \A h \in Groups : c \notin Range(t.fes[h])
         /\ c \notin Range(t.run) /\ t.backend[c] = Nil
<1>1. FileRest(s, P, M, C) /\ s \in Files
  BY DEF Sound, FileInv, FileRest
<1>2. PICK D : D = {c}
  OBVIOUS
<1>3. s.fes[g] \in Seq(Frontends)
  BY <1>1 DEF Files
<1>4. PICK l : l = Without(s.fes[g], D)
  OBVIOUS
<1>5. /\ l \in Seq(Frontends)
      /\ Range(l) = Range(s.fes[g]) \ D
      /\ \A x, y : InOrder(l, x, y) <=> InOrder(s.fes[g], x, y) /\ x \notin D /\ y \notin D
  BY <1>3, <1>4, WithoutIs
<1>6. /\ t \in Files /\ SameButQueues(s, t)
      /\ \A h \in Groups : t.fes[h] = IF h = g THEN l ELSE s.fes[h]
  <2>1. t = SetQueue(s, g, l)
    <3>1. t = [s EXCEPT !.fes[g] = Without(s.fes[g], {c})]
      BY <1>1 DEF Unqueued, Files
    <3>. QED
      BY <1>2, <1>4, <3>1, Zenon DEF SetQueue
  <2>. QED
    BY <1>1, <1>5, <2>1, SetQueueIs
<1>7. \A h \in Groups : \A x : x \in Range(t.fes[h]) <=>
        x \in Range(s.fes[h]) /\ ~(h = g /\ x = c)
  BY <1>2, <1>5, <1>6
<1>8. \A h \in Groups : \A x, y : InOrder(t.fes[h], x, y) => InOrder(s.fes[h], x, y)
  BY <1>5, <1>6
<1>9. \A h \in Groups : c \in Range(s.fes[h]) => h = g
  <2>1. ASSUME NEW h \in Groups, c \in Range(s.fes[h]) PROVE h = g
    <3>1. P[c] \in Waiting
      BY <1>1, <2>1 DEF FileRest, QueueOwn, Gone
    <3>2. c \in Range(s.fes[g])
      BY <1>1, <3>1 DEF FileRest, QueueOwn
    <3>. QED
      BY <1>1, <2>1, <3>2 DEF FileRest, ApartOK
  <2>. QED
    BY <2>1
<1>10. \A h \in Groups : c \notin Range(t.fes[h])
  BY <1>7, <1>9
<1>11. c \notin Range(s.run) /\ s.backend[c] = Nil
  BY <1>1 DEF FileRest, RunOwn, Active, Gone, Waiting
<1>12. /\ \A x \in Backends : P2[x] = P[x] /\ M2[x] = M[x]
       /\ \A m \in Parents : P2[m] = P[m] /\ M2[m] = M[m]
       /\ \A x \in Frontends : x # c => P2[x] = P[x] /\ M2[x] = M[x]
  BY KindsAssumption DEF OthersStay, Pids
<1>13. s.starting \in [Groups -> Backends \cup Parents \cup {Nil}] /\ s.backend \in [Frontends -> Backends \cup {Nil}]
  BY <1>1 DEF Files
<1>14. OnceOK(t.glist, t.run, t.bes, t.fes)
  <2>1. \A h \in Groups : IsInjective(t.fes[h])
    <3>1. \A h \in Groups : t.fes[h] \in Seq(Frontends) /\ s.fes[h] \in Seq(Frontends) /\ IsInjective(s.fes[h])
      BY <1>1, <1>6 DEF FileRest, OnceOK, Files
    <3>. QED
      BY <1>8, <3>1, OnceMeans
  <2>. QED
    BY <1>1, <1>6, <2>1 DEF FileRest, OnceOK, SameButQueues, SameGroups, SameBackends
<1>15. ApartOK(t.run, t.bes, t.fes)
  <2>1. \A h \in Groups : Range(t.fes[h]) \subseteq Range(s.fes[h])
    BY <1>7
  <2>2. ASSUME NEW h \in Groups, NEW k \in Groups, h # k PROVE Range(t.fes[h]) \cap Range(t.fes[k]) = {}
    <3>1. Range(s.fes[h]) \cap Range(s.fes[k]) = {}
      BY <1>1, <2>2 DEF FileRest, ApartOK
    <3>. QED
      BY <2>1, <3>1
  <2>3. \A h \in Groups : Range(t.fes[h]) \cap Range(t.run) = {}
    <3>1. \A h \in Groups : Range(s.fes[h]) \cap Range(s.run) = {}
      BY <1>1 DEF FileRest, ApartOK
    <3>. QED
      BY <1>6, <2>1, <3>1 DEF SameButQueues
  <2>. QED
    BY <1>1, <1>6, <2>2, <2>3 DEF FileRest, ApartOK, SameButQueues, SameBackends
<1>16. FreeOK(t.glist, t.version, t.starting, t.parent, t.bes, t.fes)
  <2>1. ASSUME NEW h \in Groups, s.fes[h] = <<>> PROVE t.fes[h] = <<>>
    <3>1. Range(t.fes[h]) = {}
      BY <1>7, <2>1, EmptyList
    <3>2. t.fes[h] \in Seq(Frontends)
      BY <1>6 DEF Files
    <3>. QED
      BY <3>1, <3>2, ElementsOf
  <2>. QED
    BY <1>1, <1>6, <2>1 DEF FileRest, FreeOK, SameButQueues, SameGroups, SameBackends
<1>17. QueueOwn(t.fes, P2, M2)
  <2>1. QueueOwn(s.fes, P, M)
    BY <1>1 DEF FileRest
  <2>2. ASSUME NEW x \in Frontends
        PROVE  /\ P2[x] \in Waiting => M2[x].group \in Groups /\ x \in Range(t.fes[M2[x].group])
               /\ \A h \in Groups : x \in Range(t.fes[h]) => P2[x] \in Waiting \cup Gone
    <3>1. CASE x = c
      BY <1>10, <3>1 DEF Waiting
    <3>2. CASE x # c
      BY <1>7, <1>12, <2>1, <3>2 DEF QueueOwn
    <3>. QED
      BY <3>1, <3>2
  <2>. QED
    BY <2>2 DEF QueueOwn
<1>18. ToldOK(t.fes, t.sent_sig, P2)
  <2>1. ToldOK(s.fes, s.sent_sig, P)
    BY <1>1 DEF FileRest
  <2>2. ASSUME NEW x \in Frontends, t.sent_sig[x], P2[x] # "leaving"
        PROVE  \E h \in Groups : /\ x \in Range(t.fes[h])
                                 /\ P2[x] \notin Gone => \A d \in Frontends : ~InOrder(t.fes[h], d, x)
    <3>1. x # c /\ s.sent_sig[x] /\ P2[x] = P[x]
      BY <1>6, <1>12, <2>2 DEF SameButQueues
    <3>2. PICK h \in Groups : /\ x \in Range(s.fes[h])
                              /\ P[x] \notin Gone => \A d \in Frontends : ~InOrder(s.fes[h], d, x)
      BY <2>1, <2>2, <3>1 DEF ToldOK
    <3>. QED
      BY <1>7, <1>8, <3>1, <3>2
  <2>. QED
    BY <2>2 DEF ToldOK
<1>19. BackendsOwn(s.bes, P2, M2)
  BY <1>1, <1>12 DEF FileRest, BackendsOwn
<1>20. RunOwn(s.run, s.backend, P2)
  BY <1>1, <1>11, <1>12 DEF FileRest, RunOwn, Active
<1>21. ParentsOwn(s.parent, s.sigs, P2, M2)
  BY <1>1, <1>12 DEF FileRest, ParentsOwn
<1>22. ConnOK(s.fe_running, P2, C)
  BY <1>1, <1>12 DEF FileRest, ConnOK
<1>23. StatusOK(s.backend, P2, C)
  BY <1>1, <1>11, <1>12, <1>13 DEF FileRest, StatusOK
<1>24. StartsUpOK(s.starting, s.parent, P2) /\ QuietOK(s.sigs, P2)
  BY <1>1, <1>12 DEF FileRest, StartsUpOK, QuietOK
<1>25. FileInv(t, L, P2, M2, C)
  BY <1>1, <1>6, <1>14, <1>15, <1>16, <1>17, <1>18, <1>19, <1>20, <1>21, <1>22, <1>23, <1>24
     DEF Sound, FileInv, FileRest, SameButQueues, SameGroups, SameBackends
<1>26. StartInv(s, P, M, C)
  BY DEF Sound
<1>27. NamedOK(s.starting, s.parent, P2) /\ InstalledOK(s.version, s.parent, P2, M2)
  BY <1>12, <1>26 DEF StartInv, NamedOK, InstalledOK
<1>28. AskedOK(s.version, s.starting, s.bes, s.sigs, P2, M2)
  BY <1>12, <1>26 DEF StartInv, AskedOK
<1>29. ComesOK(s.starting, s.bes, P2, C)
  BY <1>12, <1>26 DEF StartInv, ComesOK
<1>30. StartInv(t, P2, M2, C)
  BY <1>6, <1>26, <1>27, <1>28, <1>29 DEF StartInv, SameButQueues, SameGroups, SameBackends
<1>. QED
  BY <1>6, <1>10, <1>11, <1>25, <1>30 DEF Sound, SameButQueues

\* c joins the queue of group g.
Queued(s, g, c) == [s EXCEPT !.fes[g] = Append(@, c)]

LEMMA QueuedSound ==
  ASSUME NEW s, NEW P, NEW M, NEW C, NEW L, Sound(s, L, P, M, C), NEW g \in Groups, g \in Range(s.glist),
         NEW c \in Frontends, P[c] \in {"connect", "again"},
         NEW P2, NEW M2, OthersStay({c}, P, M, P2, M2), P2[c] = "queued", M2[c].group = g,
         NEW t, t = Queued(s, g, c)
  PROVE  /\ Sound(t, L, P2, M2, C) /\ SameButQueues(s, t)
         /\ c \in Range(t.fes[g]) /\ c \notin Range(t.run)
<1>1. FileRest(s, P, M, C) /\ s \in Files
  BY DEF Sound, FileInv, FileRest
<1>2. PICK l0 \in Seq(Frontends) : l0 = s.fes[g]
  BY <1>1 DEF Files
<1>3. PICK l : l = Append(l0, c)
  OBVIOUS
<1>4. /\ l \in Seq(Frontends)
      /\ Range(l) = Range(l0) \cup {c}
      /\ \A x, y : InOrder(l, x, y) <=> InOrder(l0, x, y) \/ (x \in Range(l0) /\ y = c)
  BY <1>3, Appended
<1>5. /\ t \in Files /\ SameButQueues(s, t)
      /\ \A h \in Groups : t.fes[h] = IF h = g THEN l ELSE s.fes[h]
  <2>1. t = SetQueue(s, g, l)
    <3>1. t = [s EXCEPT !.fes[g] = Append(s.fes[g], c)]
      BY <1>1 DEF Queued, Files
    <3>. QED
      BY <1>2, <1>3, <3>1, Zenon DEF SetQueue
  <2>. QED
    BY <1>1, <1>4, <2>1, SetQueueIs
<1>6. \A h \in Groups : \A x : x \in Range(t.fes[h]) <=> x \in Range(s.fes[h]) \/ (h = g /\ x = c)
  BY <1>2, <1>4, <1>5
<1>7. \A h \in Groups : \A x, y : InOrder(t.fes[h], x, y) =>
        InOrder(s.fes[h], x, y) \/ (h = g /\ y = c /\ x \in Range(s.fes[g]))
  BY <1>2, <1>4, <1>5
<1>8. \A h \in Groups : c \notin Range(s.fes[h])
  BY <1>1 DEF FileRest, QueueOwn, Gone, Waiting
<1>9. c \notin Range(s.run) /\ s.backend[c] = Nil
  BY <1>1 DEF FileRest, RunOwn, Active, Gone
<1>10. ~s.sent_sig[c]
  BY <1>1, <1>8 DEF FileRest, ToldOK
<1>11. /\ \A x \in Backends : P2[x] = P[x] /\ M2[x] = M[x]
       /\ \A m \in Parents : P2[m] = P[m] /\ M2[m] = M[m]
       /\ \A x \in Frontends : x # c => P2[x] = P[x] /\ M2[x] = M[x]
  BY KindsAssumption DEF OthersStay, Pids
<1>12. s.backend \in [Frontends -> Backends \cup {Nil}]
  BY <1>1 DEF Files
<1>13. OnceOK(t.glist, t.run, t.bes, t.fes)
  <2>1. \A h \in Groups : IsInjective(t.fes[h])
    <3>1. \A h \in Groups : t.fes[h] \in Seq(Frontends) /\ s.fes[h] \in Seq(Frontends) /\ IsInjective(s.fes[h])
      BY <1>1, <1>5 DEF FileRest, OnceOK, Files
    <3>2. ASSUME NEW h \in Groups, NEW x, InOrder(t.fes[h], x, x) PROVE FALSE
      <4>1. InOrder(s.fes[h], x, x)
        BY <1>7, <1>8, <3>2
      <4>. QED
        BY <3>1, <4>1, OnceMeans
    <3>. QED
      BY <3>1, <3>2, OnceMeans
  <2>. QED
    BY <1>1, <1>5, <2>1 DEF FileRest, OnceOK, SameButQueues, SameGroups, SameBackends
<1>14. ApartOK(t.run, t.bes, t.fes)
  <2>1. ASSUME NEW h \in Groups, NEW k \in Groups, h # k, NEW x, x \in Range(t.fes[h]), x \in Range(t.fes[k])
        PROVE  FALSE
    <3>1. Range(s.fes[h]) \cap Range(s.fes[k]) = {}
      BY <1>1, <2>1 DEF FileRest, ApartOK
    <3>2. x \in Range(s.fes[h]) \/ (h = g /\ x = c)
      BY <1>6, <2>1
    <3>3. x \in Range(s.fes[k]) \/ (k = g /\ x = c)
      BY <1>6, <2>1
    <3>. QED
      BY <1>8, <2>1, <3>1, <3>2, <3>3
  <2>2. ASSUME NEW h \in Groups, NEW x, x \in Range(t.fes[h]), x \in Range(t.run) PROVE FALSE
    <3>1. Range(s.fes[h]) \cap Range(s.run) = {}
      BY <1>1 DEF FileRest, ApartOK
    <3>2. x \in Range(s.run)
      BY <1>5, <2>2 DEF SameButQueues
    <3>3. x \in Range(s.fes[h]) \/ x = c
      BY <1>6, <2>2
    <3>. QED
      BY <1>9, <3>1, <3>2, <3>3
  <2>3. \A h, k \in Groups : h # k => Range(t.fes[h]) \cap Range(t.fes[k]) = {}
    BY <2>1
  <2>4. \A h \in Groups : Range(t.fes[h]) \cap Range(t.run) = {}
    BY <2>2
  <2>. QED
    BY <1>1, <1>5, <2>3, <2>4 DEF FileRest, ApartOK, SameButQueues, SameBackends
<1>15. FreeOK(t.glist, t.version, t.starting, t.parent, t.bes, t.fes)
  BY <1>1, <1>5 DEF FileRest, FreeOK, SameButQueues, SameGroups, SameBackends
<1>16. \A h \in Groups : \A x \in Frontends : x # c => (x \in Range(t.fes[h]) <=> x \in Range(s.fes[h]))
  BY <1>6
<1>17. \A h \in Groups : \A x, y \in Frontends : InOrder(t.fes[h], x, y) /\ y # c => InOrder(s.fes[h], x, y)
  BY <1>7
<1>18. c \in Range(t.fes[g]) /\ \A h \in Groups : c \in Range(t.fes[h]) => h = g
  BY <1>6, <1>8
<1>19. QueueOwn(t.fes, P2, M2)
  <2>1. QueueOwn(s.fes, P, M)
    BY <1>1 DEF FileRest
  <2>2. ASSUME NEW x \in Frontends
        PROVE  /\ P2[x] \in Waiting => M2[x].group \in Groups /\ x \in Range(t.fes[M2[x].group])
               /\ \A h \in Groups : x \in Range(t.fes[h]) => P2[x] \in Waiting \cup Gone
    <3>1. CASE x = c
      BY <1>18, <3>1 DEF Waiting
    <3>2. CASE x # c
      BY <1>11, <1>16, <2>1, <3>2 DEF QueueOwn
    <3>. QED
      BY <3>1, <3>2
  <2>. QED
    BY <2>2 DEF QueueOwn
<1>20. ToldOK(t.fes, t.sent_sig, P2)
  <2>1. ToldOK(s.fes, s.sent_sig, P)
    BY <1>1 DEF FileRest
  <2>2. ASSUME NEW x \in Frontends, t.sent_sig[x], P2[x] # "leaving"
        PROVE  \E h \in Groups : /\ x \in Range(t.fes[h])
                                 /\ P2[x] \notin Gone => \A d \in Frontends : ~InOrder(t.fes[h], d, x)
    <3>1. x # c /\ s.sent_sig[x] /\ P2[x] = P[x]
      BY <1>5, <1>10, <1>11, <2>2 DEF SameButQueues
    <3>2. PICK h \in Groups : /\ x \in Range(s.fes[h])
                              /\ P[x] \notin Gone => \A d \in Frontends : ~InOrder(s.fes[h], d, x)
      BY <2>1, <2>2, <3>1 DEF ToldOK
    <3>. QED
      BY <1>16, <1>17, <3>1, <3>2
  <2>. QED
    BY <2>2 DEF ToldOK
<1>21. BackendsOwn(s.bes, P2, M2)
  BY <1>1, <1>11 DEF FileRest, BackendsOwn
<1>22. RunOwn(s.run, s.backend, P2)
  BY <1>1, <1>9, <1>11 DEF FileRest, RunOwn, Active
<1>23. ParentsOwn(s.parent, s.sigs, P2, M2)
  BY <1>1, <1>11 DEF FileRest, ParentsOwn
<1>24. ConnOK(s.fe_running, P2, C)
  BY <1>1, <1>11 DEF FileRest, ConnOK
<1>25. StatusOK(s.backend, P2, C)
  BY <1>1, <1>9, <1>11, <1>12 DEF FileRest, StatusOK
<1>26. StartsUpOK(s.starting, s.parent, P2) /\ QuietOK(s.sigs, P2)
  BY <1>1, <1>11 DEF FileRest, StartsUpOK, QuietOK
<1>27. FileInv(t, L, P2, M2, C)
  BY <1>1, <1>5, <1>13, <1>14, <1>15, <1>19, <1>20, <1>21, <1>22, <1>23, <1>24, <1>25, <1>26
     DEF Sound, FileInv, FileRest, SameButQueues, SameGroups, SameBackends
<1>28. StartInv(s, P, M, C)
  BY DEF Sound
<1>29. NamedOK(s.starting, s.parent, P2) /\ InstalledOK(s.version, s.parent, P2, M2)
  BY <1>11, <1>28 DEF StartInv, NamedOK, InstalledOK
<1>30. AskedOK(s.version, s.starting, s.bes, s.sigs, P2, M2)
  BY <1>11, <1>28 DEF StartInv, AskedOK
<1>31. ComesOK(s.starting, s.bes, P2, C)
  BY <1>11, <1>28 DEF StartInv, ComesOK
<1>32. StartInv(t, P2, M2, C)
  BY <1>5, <1>28, <1>29, <1>30, <1>31 DEF StartInv, SameButQueues, SameGroups, SameBackends
<1>. QED
  BY <1>5, <1>6, <1>9, <1>27, <1>32 DEF Sound, SameButQueues

-----------------------------------------------------------------------------
(* The end of a process                                                    *)

LEMMA EndSound ==
  ASSUME NEW p \in Pids, NEW s, NEW how, NEW P, NEW L, Sound(s, L, P, mem, conn),
         OthersStay({p}, P, mem, pc, mem),
         p \in Frontends => P[p] # "leaving" /\ how \in Gone,
         p \in Backends => how \in Defunct,
         p \in Parents => how = "none",
         ProcsType, End(p, s, how)
  PROVE  Sound(file', L, pc', mem', conn')
<1>1. FileRest(s, P, mem, conn)
  BY DEF Sound, FileInv
<1>2. PICK reaped : reaped = {b \in Backends : ppid[b] = p /\ pc[b] \in Defunct}
  OBVIOUS
<1>3. PICK E \in SUBSET Pids : E = {p} \cup reaped
  BY <1>2 DEF Pids
<1>4. PICK reaper : reaper = IF p \in Backends THEN ppid[p] ELSE Nil
  OBVIOUS
<1>5. reaper \in Parents \cup {Nil}
  BY <1>4 DEF ProcsType
<1>6. PICK t : t = Reap(s, E)
  OBVIOUS
<1>7. /\ pc' = [q \in Pids |->
                  IF q = p THEN IF p \in Backends /\ reaper = Nil THEN "none" ELSE how
                  ELSE IF q \in reaped THEN "none" ELSE pc[q]]
      /\ conn' = [b \in Backends |-> IF b = p THEN <<>> ELSE conn[b]]
      /\ mem' = [mem EXCEPT ![p] = Blank]
      /\ file' = IF reaper = Nil THEN t ELSE [t EXCEPT !.sigs[reaper] = @ \cup {"CHLD"}]
  <2>1. reaped = {b \in {x \in Backends : ppid[x] = p} : pc[b] \in Defunct}
    BY <1>2
  <2>. QED
    BY <1>3, <1>4, <1>6, <2>1, Zenon DEF End
<1>8. OthersStay(E, P, mem, pc', mem')
  <2>1. \A q \in Pids \ E : pc'[q] = pc[q]
    BY <1>3, <1>7
  <2>2. \A q \in Pids \ E : mem'[q] = mem[q]
    BY <1>3, <1>7 DEF ProcsType
  <2>3. \A q \in Pids \ E : P[q] = pc[q]
    BY <1>3 DEF OthersStay
  <2>. QED
    BY <2>1, <2>2, <2>3 DEF OthersStay
<1>9. \A x \in Backends \ E : conn'[x] = conn[x]
  BY <1>3, <1>7
<1>10. \A c \in E \cap Frontends : pc'[c] \in Gone /\ P[c] # "leaving"
  <2>1. \A c \in E \cap Frontends : c = p
    BY <1>2, <1>3, KindsAssumption
  <2>. QED
    BY <1>7, <2>1, KindsAssumption
<1>11. \A b \in E \cap Backends : pc'[b] \in {"none"} \cup Defunct /\ conn'[b] = <<>>
  <2>1. ASSUME NEW b \in E \cap Backends PROVE pc'[b] \in {"none"} \cup Defunct
    BY <1>2, <1>3, <1>7
  <2>2. ASSUME NEW b \in E \cap Backends, b # p PROVE conn[b] = <<>>
    <3>1. b \in reaped /\ b \in Pids
      BY <1>3, <2>2
    <3>2. pc[b] \in Defunct /\ P[b] = pc[b]
      BY <1>2, <2>2, <3>1 DEF OthersStay
    <3>. QED
      BY <1>1, <3>2 DEF FileRest, ConnOK
  <2>3. \A b \in E \cap Backends : conn'[b] = <<>>
    BY <1>7, <2>2
  <2>. QED
    BY <2>1, <2>3
<1>12. \A m \in E \cap Parents : pc'[m] = "none"
  <2>1. \A m \in E \cap Parents : m = p
    BY <1>2, <1>3, KindsAssumption
  <2>. QED
    BY <1>7, <2>1
<1>13. Sound(t, L, pc', mem', conn')
  BY <1>6, <1>8, <1>9, <1>10, <1>11, <1>12, ReapSound
<1>14. CASE reaper = Nil
  BY <1>7, <1>13, <1>14
<1>15. CASE reaper # Nil
  <2>1. file' = [t EXCEPT !.sigs[reaper] = @ \cup {"CHLD"}] /\ t \in Files
    BY <1>7, <1>13, <1>15 DEF Sound, FileInv, FileRest
  <2>2. file' = Signal(t, Nil, {reaper}, "CHLD")
    <3>1. PICK S : S = [q \in Pids |-> IF q \in {reaper} \ {Nil} THEN t.sigs[q] \cup {"CHLD"} ELSE t.sigs[q]]
      OBVIOUS
    <3>2. PICK R : R = [t.sigs EXCEPT ![reaper] = t.sigs[reaper] \cup {"CHLD"}]
      OBVIOUS
    <3>3. t.sigs \in [Pids -> SUBSET {"CHLD", "USR1", "TERM", "KILL"}] /\ reaper \in Pids
      BY <1>5, <1>15, <2>1 DEF Files, Pids
    <3>4. S = R
      BY <1>15, <3>1, <3>2, <3>3
    <3>5. Signal(t, Nil, {reaper}, "CHLD") = [t EXCEPT !.sigs = S]
      BY <2>1, <3>1 DEF Signal, Files
    <3>6. file' = [t EXCEPT !.sigs = R]
      BY <2>1, <3>2 DEF Files
    <3>. QED
      BY <3>4, <3>5, <3>6
  <2>3. PICK D : D = {reaper}
    OBVIOUS
  <2>4. PICK sig \in {"CHLD", "USR1", "TERM", "KILL"} : sig = "CHLD"
    OBVIOUS
  <2>5. file' = Signal(t, Nil, D, sig)
    BY <2>2, <2>3, <2>4
  <2>. QED
    BY <1>13, <2>4, <2>5, SignalSound
<1>. QED
  BY <1>14, <1>15

-----------------------------------------------------------------------------
(* The actions of a frontend                                               *)

LEMMA AliveLives ==
  ASSUME ProcsType
  PROVE  LivingOK(Alive, pc)
BY DEF LivingOK, Alive, Gone, ProcsType, Pids, BackendPCs, ParentPCs, FrontendPCs, Starting, Defunct, Waiting

\* A frontend that is in no list frees its slot, and tries again or gives up.
LEMMA FreedSound ==
  ASSUME NEW s, NEW P, NEW M, NEW C, NEW L, Sound(s, L, P, M, C), NEW c \in Frontends, P[c] = "leaving",
         NEW P2, NEW M2, OthersStay({c}, P, M, P2, M2), P2[c] \notin Waiting \cup Active,
         NEW t, t = FreeFrontend(s, {c})
  PROVE  Sound(t, L, P2, M2, C)
<1>1. FileRest(s, P, M, C)
  BY DEF Sound, FileInv
<1>2. c \notin Range(s.run)
  BY <1>1 DEF FileRest, RunOwn, Active, Gone
<1>3. \A g \in Groups : c \notin Range(s.fes[g])
  BY <1>1 DEF FileRest, QueueOwn, Waiting, Gone
<1>4. PICK D : D = {c}
  OBVIOUS
<1>5. \A b \in Backends : s.fe_running[b] \notin D
  BY <1>1, <1>2, <1>4 DEF FileRest, PairOK
<1>6. t = FreeFrontend(s, D)
  BY <1>4
<1>7. /\ FileRest(t, P, M, C) /\ SameGroups(s, t) /\ SameBackends(s, t)
      /\ t.run = s.run /\ t.fes = s.fes /\ t.sigs = s.sigs
      /\ \A x \in D \cap Frontends : ~t.sent_sig[x]
  BY <1>1, <1>5, <1>6, FreeFrontendInv, Zenon
<1>8. Onward(s, t, P)
  BY <1>7, OnwardSame DEF SameBackends
<1>9. Sound(t, L, P, M, C)
  BY <1>7, <1>8, SameSound
<1>10. ~t.sent_sig[c] /\ c \notin Range(t.run) /\ \A g \in Groups : c \notin Range(t.fes[g])
  BY <1>2, <1>3, <1>4, <1>7
<1>. QED
  BY <1>9, <1>10, FrontendMoves

LEMMA LeaveQueueSound ==
  ASSUME ProcsType, NEW c \in Frontends, NEW g \in Groups, NEW v, NEW s, NEW P, NEW M, NEW L, NEW b,
         Sound(s, L, P, M, conn), OthersStay({c}, P, M, pc, mem), pc[c] \notin Gone,
         P[c] \in {"connect", "again"} \cup Waiting, P[c] \in Waiting => M[c].group = g,
         HasTaken(s, L, g, c, b),
         NEW spawn_working, LeaveQueue(c, g, v, s, spawn_working, b)
  PROVE  Sound(file', {}, pc', mem', conn')
<1>1. PICK P1 : P1 = [pc EXCEPT ![c] = "leaving"]
  OBVIOUS
<1>2. c \in Pids /\ DOMAIN pc = Pids /\ mem \in [Pids -> MemType]
  BY DEF Pids, ProcsType
<1>3. P1[c] = "leaving" /\ OthersStay({c}, P, M, P1, mem)
  BY <1>1, <1>2 DEF OthersStay
<1>4. \A p \in Pids \ {c} : P1[p] = pc[p]
  BY <1>1, <1>2
<1>5. PICK u : u = Unqueued(s, g, c)
  OBVIOUS
<1>6. /\ Sound(u, L, P1, mem, conn) /\ SameButQueues(s, u)
      /\ \A h \in Groups : c \notin Range(u.fes[h])
      /\ c \notin Range(u.run) /\ u.backend[c] = Nil
  BY <1>3, <1>5, UnqueueSound
<1>7. LivingOK(Alive, P1)
  <2>1. LivingOK(Alive, pc)
    BY AliveLives
  <2>2. \A p \in Pids : p # c => P1[p] = pc[p]
    BY <1>4
  <2>. QED
    BY <1>3, <2>1, <2>2, KindsAssumption DEF LivingOK, Gone, Pids
<1>8. PICK G \in SUBSET Groups : G = {g}
  OBVIOUS
<1>9. PICK x : x = Cleanup(u, Alive, c, G)
  OBVIOUS
<1>10. /\ Sound(x, L, P1, mem, conn) /\ SameElse(u, x)
       /\ \A h \in Groups : x.starting[h] \in {Nil, u.starting[h]}
  BY <1>6, <1>7, <1>9, KindsAssumption, CleanupSound
<1>11. LeaveQueue(c, g, v, s, spawn_working, b) =
         \/ /\ b # Nil
            /\ pc[b] \notin Defunct \cup {"none"}
            /\ file' = SetPair(x, g, c, b)
            /\ conn' = [conn EXCEPT ![b] = Append(@, c)]
            /\ pc' = [pc EXCEPT ![c] = "connected"]
            /\ mem' = [mem EXCEPT ![c] = Blank]
         \/ /\ b # Nil
            /\ pc[b] \in Defunct \cup {"none"}
            /\ file' = FreeFrontend(DisposeBackend(x, Alive, c, g, {b}), {c})
            /\ pc' = [pc EXCEPT ![c] = "again"]
            /\ mem' = [mem EXCEPT ![c] = [Blank EXCEPT !.version = v]]
            /\ UNCHANGED conn
         \/ /\ b = Nil
            /\ file' = FreeFrontend(x, {c})
            /\ pc' = [pc EXCEPT ![c] = IF spawn_working THEN "again" ELSE "failed"]
            /\ mem' = [mem EXCEPT ![c] = IF spawn_working THEN [Blank EXCEPT !.version = v] ELSE Blank]
            /\ UNCHANGED conn
  BY <1>5, <1>8, <1>9, Zenon DEF LeaveQueue, Unqueued, SetPair
<1>12. CASE /\ b # Nil
            /\ pc[b] \notin Defunct \cup {"none"}
            /\ file' = SetPair(x, g, c, b)
            /\ conn' = [conn EXCEPT ![b] = Append(@, c)]
            /\ pc' = [pc EXCEPT ![c] = "connected"]
            /\ mem' = [mem EXCEPT ![c] = Blank]
  <2>1. b \in Backends
    BY <1>12 DEF HasTaken
  <2>2. HasTaken(x, L, g, c, b)
    BY <1>6, <1>10, <1>12 DEF HasTaken, SameButQueues, SameGroups, SameElse, SameBackends, SameFrontends
  <2>3. c \notin Range(x.run) /\ \A h \in Groups : c \notin Range(x.fes[h])
    BY <1>6, <1>10 DEF SameElse, SameFrontends
  <2>4. P1[b] \notin Defunct \cup {"none"}
    BY <1>4, <1>12, <2>1, KindsAssumption DEF Pids
  <2>5. OthersStay({c}, P1, mem, pc', mem') /\ pc'[c] = "connected"
    BY <1>2, <1>4, <1>12 DEF OthersStay
  <2>6. Connects(c, b, conn, conn')
    BY <1>12, <2>1 DEF ProcsType, Connects
  <2>7. file' = SetPair(x, g, c, b)
    BY <1>12
  <2>. QED
    BY <1>10, <2>1, <2>2, <2>4, <2>5, <2>6, <2>3, <2>7, TakenSound
<1>13. CASE /\ b # Nil
            /\ pc[b] \in Defunct \cup {"none"}
            /\ file' = FreeFrontend(DisposeBackend(x, Alive, c, g, {b}), {c})
            /\ pc' = [pc EXCEPT ![c] = "again"]
            /\ mem' = [mem EXCEPT ![c] = [Blank EXCEPT !.version = v]]
            /\ UNCHANGED conn
  <2>1. b \in Backends /\ L = {b} /\ b \in Range(s.bes[g])
    BY <1>13 DEF HasTaken
  <2>2. PICK D : D = {b}
    OBVIOUS
  <2>3. PICK y : y = DisposeBackend(x, Alive, c, g, D)
    OBVIOUS
  <2>4. b \in Range(x.bes[g])
    BY <1>6, <1>10, <2>1 DEF SameButQueues, SameElse, SameBackends
  <2>5. D \subseteq Range(x.bes[g]) /\ \A z \in D : P1[z] \in {"none"} \cup Defunct
    BY <1>4, <1>13, <2>1, <2>2, <2>4, KindsAssumption DEF Pids
  <2>6. Sound(y, L, P1, mem, conn) /\ WithoutMembers(x, y, g, D)
    BY <1>7, <1>10, <2>3, <2>5, DisposeBackendSound
  <2>7. FileInv(x, L, P1, mem, conn)
    BY <1>10 DEF Sound
  <2>8. \A h \in Groups : b \notin Range(y.bes[h])
    <3>1. \A h \in Groups : h # g => b \notin Range(x.bes[h])
      BY <2>4, <2>7 DEF FileInv, FileRest, ApartOK
    <3>. QED
      BY <2>2, <2>6, <3>1 DEF WithoutMembers
  <2>9. Sound(y, {}, P1, mem, conn)
    BY <2>1, <2>6, <2>8, NobodyTaken
  <2>10. file' = FreeFrontend(y, {c})
    BY <1>13, <2>2, <2>3
  <2>11. OthersStay({c}, P1, mem, pc', mem') /\ pc'[c] = "again"
    BY <1>2, <1>4, <1>13 DEF OthersStay
  <2>12. pc'[c] \notin Waiting \cup Active /\ conn' = conn
    BY <1>13, <2>11 DEF Waiting, Active
  <2>. QED
    BY <1>3, <2>9, <2>10, <2>11, <2>12, FreedSound
<1>14. CASE /\ b = Nil
            /\ file' = FreeFrontend(x, {c})
            /\ pc' = [pc EXCEPT ![c] = IF spawn_working THEN "again" ELSE "failed"]
            /\ mem' = [mem EXCEPT ![c] = IF spawn_working THEN [Blank EXCEPT !.version = v] ELSE Blank]
            /\ UNCHANGED conn
  <2>1. L = {}
    BY <1>14, KindsAssumption DEF Pids, HasTaken
  <2>2. OthersStay({c}, P1, mem, pc', mem') /\ pc'[c] \in {"again", "failed"}
    BY <1>2, <1>4, <1>14 DEF OthersStay
  <2>3. pc'[c] \notin Waiting \cup Active /\ conn' = conn
    BY <1>14, <2>2 DEF Waiting, Active
  <2>. QED
    BY <1>3, <1>10, <1>14, <2>1, <2>2, <2>3, FreedSound
<1>. QED
  BY <1>11, <1>12, <1>13, <1>14

-----------------------------------------------------------------------------
(* One round of get_a_backend_hard                                         *)

\* The group g has been checked: whoever starts is there, and has room.
LEMMA CheckedSound ==
  ASSUME NEW s, NEW P, NEW M, NEW C, NEW L, Sound(s, L, P, M, C), NEW g \in Groups,
         NEW m \in Parents \cup {Nil}, IsNew(s, m, P),
         NEW t, FileRest(t, P, M, C), AfterCheck(s, t, g, m, P)
  PROVE  Sound(t, L, P, M, C)
<1>. /\ SameElse(s, t)
     /\ \A p \in Parents : t.sigs[p] \in {s.sigs[p], s.sigs[p] \cup {"USR1"}}
     /\ \A h \in Groups : h # g =>
          t.version[h] = s.version[h] /\ t.starting[h] = s.starting[h] /\ t.parent[h] = s.parent[h]
     /\ Checked(s, t, g, m, P)
  BY DEF AfterCheck
<1>1. s \in Files /\ t \in Files /\ StartInv(s, P, M, C) /\ FileRest(s, P, M, C)
  BY DEF Sound, FileInv, FileRest
<1>2. t.bes = s.bes /\ t.fe_running = s.fe_running /\ t.maturity = s.maturity
  BY DEF SameElse, SameBackends
<1>3. Nil \notin Parents /\ Nil \notin Backends /\ Backends \cap Parents = {} /\ MaxBackends \in Nat
  BY KindsAssumption, BoundsAssumption DEF Pids
<1>4. \A p \in Parents : s.sigs[p] \subseteq t.sigs[p] /\ ("KILL" \in t.sigs[p] => "KILL" \in s.sigs[p])
  <2>1. ASSUME NEW p \in Parents
        PROVE  s.sigs[p] \subseteq t.sigs[p] /\ ("KILL" \in t.sigs[p] => "KILL" \in s.sigs[p])
    <3>1. CASE t.sigs[p] = s.sigs[p]
      BY <3>1
    <3>2. CASE t.sigs[p] = s.sigs[p] \cup {"USR1"}
      BY <3>2
    <3>. QED
      BY <3>1, <3>2
  <2>. QED
    BY <2>1
<1>5. t.starting[g] \in {Nil, s.starting[g], s.parent[g], m}
  BY DEF Checked
<1>6. FullOK(t.bes)
  BY <1>1, <1>2 DEF StartInv
<1>7. NamedOK(t.starting, t.parent, P)
  <2>1. ASSUME t.starting[g] \in Parents, P[t.starting[g]] # "none"
        PROVE  t.parent[g] = t.starting[g]
    BY <1>1, <1>3, <2>1 DEF Checked, StartInv, NamedOK
  <2>. QED
    BY <1>1, <2>1 DEF StartInv, NamedOK
<1>8. InstalledOK(t.version, t.parent, P, M)
  <2>1. ASSUME t.version[g] # 0, t.parent[g] \in Parents, P[t.parent[g]] \in {"wait", "serve"}
        PROVE  M[t.parent[g]].group = g
    <3>1. t.parent[g] # s.parent[g] => t.parent[g] = m
      BY <1>3, <2>1 DEF Checked
    <3>2. t.parent[g] # m
      BY <2>1 DEF IsNew, Starting
    <3>3. t.version[g] = s.version[g]
      BY <2>1 DEF Checked
    <3>. QED
      BY <1>1, <2>1, <3>1, <3>2, <3>3 DEF StartInv, InstalledOK
  <2>. QED
    BY <1>1, <2>1 DEF StartInv, InstalledOK
<1>9. MaxBackends # 0 /\ BelowMaxBackends(s, g) => Cardinality(Range(s.bes[g])) < MaxBackends
  <2>1. s.bes[g] \in Seq(Backends) /\ IsInjective(s.bes[g])
    BY <1>1 DEF Files, FileRest, OnceOK
  <2>2. Cardinality(Range(s.bes[g])) = Len(s.bes[g])
    BY <2>1, CountIs
  <2>. QED
    BY <2>2 DEF BelowMaxBackends
<1>10. s.bes[g] = <<>> /\ MaxBackends # 0 => Cardinality(Range(s.bes[g])) < MaxBackends
  <2>1. Range(<<>>) = {}
    BY EmptyList
  <2>2. Cardinality({}) = 0
    BY FS_EmptySet
  <2>3. ASSUME s.bes[g] = <<>> PROVE Cardinality(Range(s.bes[g])) = 0
    BY <2>1, <2>2, <2>3, Zenon
  <2>. QED
    BY <1>3, <2>3
<1>11. AskedOK(t.version, t.starting, t.bes, t.sigs, P, M)
  <2>1. ASSUME NEW p \in Parents, p = t.starting[g], t.version[g] # 0, P[p] # "none", "KILL" \notin t.sigs[p]
        PROVE  /\ P[p] \in Starting \/ "USR1" \in t.sigs[p] \cup M[p].got
               /\ MaxBackends = 0 \/ Cardinality(Range(s.bes[g])) < MaxBackends
    <3>1. CASE t.version[g] = s.version[g] /\ t.starting[g] = s.starting[g] /\ t.parent[g] = s.parent[g]
      <4>1. "KILL" \notin s.sigs[p]
        BY <1>4, <2>1
      <4>2. /\ P[p] \in Starting \/ "USR1" \in s.sigs[p] \cup M[p].got
            /\ MaxBackends = 0 \/ Cardinality(Range(s.bes[g])) < MaxBackends
        BY <1>1, <2>1, <3>1, <4>1 DEF StartInv, AskedOK
      <4>. QED
        BY <1>4, <4>2
    <3>2. CASE t.version[g] = s.version[g] /\ s.parent[g] = Nil /\ t.starting[g] = m /\ t.parent[g] = m
      <4>1. P[p] \in Starting
        BY <2>1, <3>2 DEF IsNew
      <4>2. s.bes[g] = <<>>
        BY <1>1, <2>1, <3>2 DEF StartInv, NewOK
      <4>. QED
        BY <1>10, <4>1, <4>2
    <3>3. CASE /\ t.version[g] = s.version[g] /\ t.starting[g] = s.parent[g] /\ t.parent[g] = s.parent[g]
               /\ t.parent[g] \in Parents /\ "USR1" \in t.sigs[t.parent[g]]
               /\ BelowMaxBackends(s, g)
      BY <1>9, <2>1, <3>3
    <3>4. t.starting[g] # Nil
      BY <1>3, <2>1
    <3>. QED
      BY <3>1, <3>2, <3>3, <3>4 DEF Checked
  <2>2. ASSUME NEW h \in Groups, h # g, NEW p \in Parents, p = t.starting[h], t.version[h] # 0,
               P[p] # "none", "KILL" \notin t.sigs[p]
        PROVE  /\ P[p] \in Starting \/ "USR1" \in t.sigs[p] \cup M[p].got
               /\ MaxBackends = 0 \/ Cardinality(Range(s.bes[h])) < MaxBackends
    <3>1. "KILL" \notin s.sigs[p]
      BY <1>4, <2>2
    <3>2. p = s.starting[h] /\ s.version[h] # 0
      BY <2>2
    <3>3. /\ P[p] \in Starting \/ "USR1" \in s.sigs[p] \cup M[p].got
          /\ MaxBackends = 0 \/ Cardinality(Range(s.bes[h])) < MaxBackends
      BY <1>1, <2>2, <3>1, <3>2 DEF StartInv, AskedOK
    <3>. QED
      BY <1>4, <3>3
  <2>. QED
    BY <1>2, <2>1, <2>2 DEF AskedOK
<1>12. NewOK(t.version, t.parent, t.bes)
  <2>1. ASSUME t.version[g] # 0, t.parent[g] = Nil PROVE s.bes[g] = <<>>
    BY <1>1, <1>3, <2>1 DEF Checked, StartInv, NewOK
  <2>. QED
    BY <1>1, <1>2, <2>1 DEF StartInv, NewOK
<1>13. ComesOK(t.starting, t.bes, P, C)
  <2>1. s.parent[g] \notin Backends /\ m \notin Backends
    BY <1>1, <1>3 DEF Files
  <2>2. t.starting[g] \in Backends => t.starting[g] = s.starting[g]
    BY <1>3, <1>5, <2>1
  <2>. QED
    BY <1>1, <1>2, <2>2 DEF StartInv, ComesOK
<1>14. StartInv(t, P, M, C)
  BY <1>6, <1>7, <1>8, <1>11, <1>12, <1>13 DEF StartInv
<1>15. WaitingOK(t.bes, t.fe_running, t.maturity, L)
  BY <1>2 DEF Sound, FileInv
<1>. QED
  BY <1>14, <1>15 DEF Sound, FileInv

LEMMA BackendCheckSound ==
  ASSUME NEW s, NEW P, NEW M, NEW C, NEW L, Sound(s, L, P, M, C), NEW alive,
         NEW m \in Parents \cup {Nil}, NEW pids, pids = WithNew(alive, m), LivingOK(pids, P),
         NEW me, me \notin Parents, NEW g \in Groups, g \in Range(s.glist), NEW did,
         IsNew(s, m, P),
         NEW r, r = BackendCheck(s, alive, me, g, did, m),
         NEW t, t = r.s
  PROVE  Sound(t, L, P, M, C)
<1>1. FileRest(s, P, M, C)
  BY DEF Sound, FileInv
<1>2. FileRest(t, P, M, C) /\ AfterCheck(s, t, g, m, P)
  BY <1>1, BackendCheckInv
<1>. QED
  BY <1>2, CheckedSound

\* speedy_sig_wait: the frontend c waits in the queue where it stands.
LEMMA WaitsSound ==
  ASSUME NEW s, NEW P, NEW M, NEW C, NEW L, Sound(s, L, P, M, C), NEW c \in Frontends, P[c] \in Waiting,
         NEW P2, NEW M2, OthersStay({c}, P, M, P2, M2), P2[c] \in Waiting, M2[c].group = M[c].group
  PROVE  Sound(s, L, P2, M2, C)
<1>1. c \in Range(s.run) => P[c] \in Active \cup Gone
  BY DEF Sound, FileInv, FileRest, RunOwn
<1>2. P[c] \notin Active \cup Gone /\ P[c] # "leaving" /\ P2[c] \notin Active
  BY DEF Waiting, Active, Gone
<1>. QED
  BY <1>1, <1>2, FrontendMoves

\* No process that is forked anew is named in a group.
NamesNew(s) ==
  \A m \in Parents : Forgotten(m) => \A h \in Groups : s.starting[h] # m /\ s.parent[h] # m

\* The pcs with the parent m, if there is one, just forked.
WithStarting(P, m) == [p \in Pids |-> IF p = m THEN "starting" ELSE P[p]]

Waits(c, g, v, t, did, pcs) ==
  /\ file' = t
  /\ pc' = [pcs EXCEPT ![c] = "queued"]
  /\ mem' = [mem EXCEPT ![c] = [Blank EXCEPT !.group = g, !.version = v, !.did_spawn = did]]
  /\ UNCHANGED conn

Gets(s1, s2, g, c) == s1.sent_sig[c] /\ CanGet(s2, Alive, g)

Checks(s3, c, g, v, did_spawn, m, r) ==
  /\ r = BackendCheck(s3, Alive, c, g, did_spawn, m)
  /\ IF r.ok /\ IsValid(r.s, g)
     THEN Waits(c, g, v, r.s, r.did_spawn, WithStarting(pc, m))
     ELSE LeaveQueue(c, g, v, r.s, r.ok, Nil)

LEMMA IterateIs ==
  ASSUME NEW c, NEW g, NEW v, NEW s, NEW did_spawn, Iterate(c, g, v, s, did_spawn),
         NEW s1, s1 = SendSigs(s, Alive, g), NEW s2, s2 = SetTold(s1, c, {}),
         NEW s3, s3 = CheckPrev(s2, Alive, c, g), NEW x, x = WaitGet(s2, Alive, g)
  PROVE  \/ Gets(s1, s2, g, c) /\ LeaveQueue(c, g, v, x, TRUE, Head(s2.bes[g]))
         \/ Waits(c, g, v, s3, did_spawn, pc)
         \/ \E m \in Spawned \cup {Nil} : \E r : Checks(s3, c, g, v, did_spawn, m, r)
<1>1. s2 = [s1 EXCEPT !.sent_sig[c] = FALSE]
  <2>1. (c \in {}) = FALSE
    OBVIOUS
  <2>2. s2 = [s1 EXCEPT !.sent_sig[c] = (c \in {})]
    BY Zenon DEF SetTold
  <2>. QED
    BY <2>1, <2>2, Zenon
<1>2. \/ Gets(s1, s2, g, c) /\ LeaveQueue(c, g, v, x, TRUE, Head(s2.bes[g]))
      \/ Waits(c, g, v, s3, did_spawn, pc)
      \/ \E m \in IF WillSpawn(s3, Alive, g, did_spawn) THEN Spawned ELSE {Nil} :
           LET r == BackendCheck(s3, Alive, c, g, did_spawn, m)
           IN  IF r.ok /\ IsValid(r.s, g)
               THEN Waits(c, g, v, r.s, r.did_spawn, WithStarting(pc, m))
               ELSE LeaveQueue(c, g, v, r.s, r.ok, Nil)
  BY <1>1, Zenon DEF Iterate, Waits, Gets, WithStarting
<1>3. ASSUME NEW m \in IF WillSpawn(s3, Alive, g, did_spawn) THEN Spawned ELSE {Nil}
      PROVE  m \in Spawned \cup {Nil}
  OBVIOUS
<1>. QED
  BY <1>2, <1>3, Zenon DEF Checks

\* A parent that be_parent_spawn forks for c is on its way before the file
\* names it.
LEMMA SpawningSound ==
  ASSUME ProcsType, NEW s, NEW P, NEW M, NEW C, NEW L, Sound(s, L, P, M, C), NEW m \in Spawned \cup {Nil},
         NamesNew(s), \A p \in Parents : P[p] = pc[p], NEW c \in Frontends, P[c] \in Waiting,
         NEW P3, P3 = WithStarting(P, m)
  PROVE  /\ Sound(s, L, P3, M, C) /\ IsNew(s, m, P3) /\ m \in Parents \cup {Nil}
         /\ m \in Parents => Sound(s, L, P, M, C) /\ P[m] = "none"
<1>1. m = Nil \/ (m \in Parents /\ Forgotten(m))
  BY DEF Spawned
<1>2. Nil \notin Pids /\ c \notin Parents
  BY KindsAssumption DEF Pids
<1>3. CASE m = Nil
  <2>1. \A p \in Pids : P3[p] = P[p]
    BY <1>2, <1>3 DEF WithStarting
  <2>2. OthersStay({c}, P, M, P3, M) /\ P3[c] = P[c]
    BY <2>1 DEF OthersStay, Pids
  <2>3. Sound(s, L, P3, M, C)
    BY <2>2, WaitsSound
  <2>. QED
    BY <1>2, <1>3, <2>3 DEF IsNew, Pids
<1>4. CASE m \in Parents /\ Forgotten(m)
  <2>1. P[m] = "none"
    BY <1>4 DEF Forgotten, Alive, Pids, ProcsType, ParentPCs, Starting
  <2>2. P3[m] = "starting" /\ \A p \in Pids \ {m} : P3[p] = P[p]
    BY <1>4 DEF WithStarting, Pids
  <2>3. OthersStay({m}, P, M, P3, M)
    BY <2>2 DEF OthersStay
  <2>4. \A h \in Groups : s.starting[h] # m /\ s.parent[h] # m
    BY <1>4 DEF NamesNew
  <2>5. "USR1" \notin s.sigs[m]
    BY <1>4, <2>1 DEF Sound, FileInv, FileRest, QuietOK
  <2>6. P3[m] \in Starting /\ P3[m] \notin {"wait", "serve"}
    BY <2>2 DEF Starting
  <2>7. Sound(s, L, P3, M, C)
    BY <1>4, <2>3, <2>4, <2>5, <2>6, ParentMoves
  <2>. QED
    BY <1>2, <1>4, <2>1, <2>4, <2>6, <2>7 DEF IsNew, Pids
<1>. QED
  BY <1>1, <1>3, <1>4

LEMMA IterateSound ==
  ASSUME ProcsType, NEW c \in Frontends, NEW g \in Groups, NEW v, NEW s, NEW P, NEW M, NEW did_spawn,
         Sound(s, {}, P, M, conn), OthersStay({c}, P, M, pc, mem), pc[c] \notin Gone,
         P[c] \in Waiting, M[c].group = g, NamesNew(s),
         Iterate(c, g, v, s, did_spawn)
  PROVE  Sound(file', {}, pc', mem', conn')
<1>1. c \in Pids /\ DOMAIN pc = Pids /\ mem \in [Pids -> MemType] /\ P[c] \notin Gone /\ c \notin Parents
  BY KindsAssumption DEF Pids, ProcsType, Waiting, Gone
<1>2. \A p \in Pids : p # c => P[p] = pc[p] /\ M[p] = mem[p]
  BY DEF OthersStay
<1>3. LivingOK(Alive, P) /\ c \in Alive
  <2>1. LivingOK(Alive, pc)
    BY AliveLives
  <2>2. c \in Alive
    BY <2>1 DEF LivingOK
  <2>. QED
    BY <1>1, <1>2, <2>1, <2>2, KindsAssumption DEF LivingOK, Pids
<1>4. PICK s1 : s1 = SendSigs(s, Alive, g)
  OBVIOUS
<1>5. Sound(s1, {}, P, M, conn) /\ SameGroups(s, s1)
  BY <1>3, <1>4, SendSigsSound
<1>6. PICK T : T = {}
  OBVIOUS
<1>7. PICK s2 : s2 = SetTold(s1, c, T)
  OBVIOUS
<1>8. FileRest(s2, P, M, conn) /\ SameGroups(s1, s2) /\ SameBackends(s1, s2) /\ s2.sigs = s1.sigs
  <2>1. FileRest(s1, P, M, conn) /\ c \notin T
    BY <1>5, <1>6 DEF Sound, FileInv
  <2>. QED
    BY <1>7, <2>1, ToldInv
<1>9. Sound(s2, {}, P, M, conn)
  <2>1. Onward(s1, s2, P)
    BY <1>8, OnwardSame DEF SameBackends
  <2>. QED
    BY <1>5, <1>8, <2>1, SameSound
<1>10. c \in Range(s2.fes[g])
  BY <1>9 DEF Sound, FileInv, FileRest, QueueOwn
<1>11. PICK s3 : s3 = CheckPrev(s2, Alive, c, g)
  OBVIOUS
<1>12. /\ Sound(s3, {}, P, M, conn) /\ c \in Range(s3.fes[g]) /\ g \in Range(s3.glist)
       /\ \A h \in Groups : /\ s3.starting[h] \in {Nil, s2.starting[h]}
                            /\ s3.parent[h] \in {Nil, s2.parent[h]}
  BY <1>3, <1>9, <1>10, <1>11, CheckPrevSound
<1>13. NamesNew(s3)
  <2>1. \A h \in Groups : s2.starting[h] = s.starting[h] /\ s2.parent[h] = s.parent[h]
    BY <1>5, <1>8 DEF SameGroups
  <2>2. Nil \notin Parents
    BY KindsAssumption DEF Pids
  <2>. QED
    BY <1>12, <2>1, <2>2 DEF NamesNew
<1>14. PICK x : x = WaitGet(s2, Alive, g)
  OBVIOUS
<1>15. \/ Gets(s1, s2, g, c) /\ LeaveQueue(c, g, v, x, TRUE, Head(s2.bes[g]))
       \/ Waits(c, g, v, s3, did_spawn, pc)
       \/ \E m \in Spawned \cup {Nil} : \E r : Checks(s3, c, g, v, did_spawn, m, r)
  BY <1>4, <1>6, <1>7, <1>11, <1>14, IterateIs
<1>16. ASSUME Gets(s1, s2, g, c), LeaveQueue(c, g, v, x, TRUE, Head(s2.bes[g]))
       PROVE  Sound(file', {}, pc', mem', conn')
  <2>1. PICK b : b = Head(s2.bes[g])
    OBVIOUS
  <2>2. PICK L : L = {b}
    OBVIOUS
  <2>3. CanGet(s2, Alive, g)
    BY <1>16 DEF Gets
  <2>4. /\ Sound(x, L, P, M, conn) /\ SameFrontends(s2, x)
        /\ b \in Backends /\ b \in Range(x.bes[g]) /\ x.fe_running[b] = Nil
        /\ \A y \in Backends : ~InOrder(x.bes[g], b, y)
        /\ x.starting[g] = Nil
    BY <1>3, <1>9, <1>14, <2>1, <2>2, <2>3, WaitGetSound
  <2>5. ~s2.sent_sig[c]
    <3>1. s1 \in Files /\ c \notin T
      BY <1>5, <1>6 DEF Sound, FileInv, FileRest
    <3>. QED
      BY <1>7, <3>1 DEF SetTold, Files
  <2>6. HasTaken(x, L, g, c, b)
    BY <2>2, <2>4, <2>5 DEF HasTaken, SameFrontends
  <2>7. PICK w : w = TRUE
    OBVIOUS
  <2>8. LeaveQueue(c, g, v, x, w, b)
    BY <1>16, <2>1, <2>7
  <2>. QED
    BY <2>4, <2>6, <2>8, LeaveQueueSound
<1>17. ASSUME Waits(c, g, v, s3, did_spawn, pc)
       PROVE  Sound(file', {}, pc', mem', conn')
  <2>1. file' = s3 /\ conn' = conn
    BY <1>17 DEF Waits
  <2>2. /\ OthersStay({c}, P, M, pc', mem')
        /\ pc'[c] \in Waiting /\ mem'[c].group = g
    BY <1>1, <1>2, <1>17 DEF Waits, OthersStay, Waiting, Blank, MemType
  <2>. QED
    BY <1>12, <2>1, <2>2, WaitsSound
<1>18. ASSUME NEW m \in Spawned \cup {Nil}, NEW r, Checks(s3, c, g, v, did_spawn, m, r)
       PROVE  Sound(file', {}, pc', mem', conn')
  <2>1. PICK P3 : P3 = WithStarting(P, m)
    OBVIOUS
  <2>2. /\ Sound(s3, {}, P3, M, conn) /\ IsNew(s3, m, P3) /\ m \in Parents \cup {Nil}
        /\ m \in Parents => P[m] = "none"
    <3>1. \A p \in Parents : P[p] = pc[p]
      BY <1>1, <1>2 DEF Pids
    <3>. QED
      BY <1>12, <1>13, <2>1, <3>1, SpawningSound
  <2>3. \A p \in Pids : P3[p] = IF p = m THEN "starting" ELSE P[p]
    BY <2>1 DEF WithStarting
  <2>4. PICK pids : pids = WithNew(Alive, m)
    OBVIOUS
  <2>5. LivingOK(pids, P3)
    BY <1>3, <2>2, <2>3, <2>4, KindsAssumption DEF LivingOK, WithNew, Pids, Gone
  <2>6. PICK t : t = r.s
    OBVIOUS
  <2>7. r = BackendCheck(s3, Alive, c, g, did_spawn, m)
    BY <1>18 DEF Checks
  <2>8. /\ g \in Range(s3.glist) /\ c \notin Parents
        /\ Sound(s3, {}, P3, M, conn) /\ IsNew(s3, m, P3) /\ m \in Parents \cup {Nil}
    BY <1>1, <1>12, <2>2
  <2>9. Sound(t, {}, P3, M, conn)
    BY <2>4, <2>5, <2>6, <2>7, <2>8, BackendCheckSound
  <2>10. P3[c] = P[c]
    BY <1>1, <2>2, <2>3, KindsAssumption DEF Pids
  <2>11. CASE Waits(c, g, v, t, r.did_spawn, WithStarting(pc, m))
    <3>1. file' = t /\ conn' = conn
      BY <2>11 DEF Waits
    <3>2. PICK Q : Q = WithStarting(pc, m)
      OBVIOUS
    <3>3. DOMAIN Q = Pids /\ \A p \in Pids : p # c => Q[p] = P3[p]
      BY <1>2, <2>3, <3>2 DEF WithStarting
    <3>4. pc' = [Q EXCEPT ![c] = "queued"]
      BY <2>11, <3>2 DEF Waits
    <3>5. /\ \A p \in Pids : p # c => mem'[p] = mem[p]
          /\ mem'[c].group = g
      BY <1>1, <2>11 DEF Waits, Blank, MemType
    <3>6. OthersStay({c}, P3, M, pc', mem')
      BY <1>2, <3>3, <3>4, <3>5 DEF OthersStay
    <3>7. pc'[c] \in Waiting
      BY <1>1, <3>3, <3>4 DEF Waiting
    <3>. QED
      BY <2>9, <2>10, <3>1, <3>5, <3>6, <3>7, WaitsSound
  <2>12. CASE LeaveQueue(c, g, v, t, r.ok, Nil)
    <3>1. Sound(t, {}, P, M, conn)
      <4>1. CASE m \in Parents
        <5>1. OthersStay({m}, P3, M, P, M) /\ P[m] = "none" /\ P3[m] \in Starting
          BY <2>2, <2>3, <4>1 DEF OthersStay, Starting, Pids
        <5>2. "USR1" \notin t.sigs[m]
          BY <2>9, <4>1, <5>1 DEF Sound, FileInv, FileRest, QuietOK
        <5>3. P[m] \notin Starting /\ P[m] \notin {"wait", "serve"}
          BY <5>1 DEF Starting
        <5>. QED
          BY <2>9, <4>1, <5>1, <5>2, <5>3, ParentMoves
      <4>2. CASE m = Nil
        <5>1. \A p \in Pids : P3[p] = P[p]
          BY <2>3, <4>2, KindsAssumption
        <5>2. OthersStay({c}, P3, M, P, M)
          BY <5>1 DEF OthersStay
        <5>. QED
          BY <2>9, <2>10, <5>2, WaitsSound
      <4>. QED
        BY <2>2, <4>1, <4>2
    <3>2. PICK L : L = {}
      OBVIOUS
    <3>3. PICK b : b = Nil
      OBVIOUS
    <3>4. HasTaken(t, L, g, c, b) /\ Sound(t, L, P, M, conn) /\ LeaveQueue(c, g, v, t, r.ok, b)
      BY <2>12, <3>1, <3>2, <3>3 DEF HasTaken
    <3>5. PICK w : w = r.ok
      OBVIOUS
    <3>6. LeaveQueue(c, g, v, t, w, b)
      BY <3>4, <3>5
    <3>. QED
      BY <3>4, <3>6, LeaveQueueSound
  <2>. QED
    BY <1>18, <2>6, <2>11, <2>12 DEF Checks
<1>. QED
  BY <1>15, <1>16, <1>17, <1>18

-----------------------------------------------------------------------------
(* Frontends                                                               *)

LEMMA CleanRunningSound ==
  ASSUME NEW s, NEW P, NEW M, NEW C, NEW L, Sound(s, L, P, M, C), NEW alive, LivingOK(alive, P),
         NEW t, t = CleanRunning(s, alive)
  PROVE  Sound(t, L, P, M, C) /\ SameGroups(s, t)
<1>1. FileInv(s, L, P, M, C)
  BY DEF Sound
<1>2. /\ FileInv(t, L, P, M, C) /\ SameGroups(s, t)
      /\ t.bes = s.bes /\ t.maturity = s.maturity /\ t.sigs = s.sigs
  BY <1>1, CleanRunningInv
<1>3. Onward(s, t, P)
  BY <1>2, OnwardSame
<1>. QED
  BY <1>2, <1>3, OnwardSound

\* A slot that is taken for another version has been wiped, so nobody is
\* named in it.
LEMMA ScriptFindSound ==
  ASSUME NEW s, NEW P, NEW M, NEW C, NEW L, Sound(s, L, P, M, C), NEW alive, NEW me,
         NEW v \in Nat, NEW g, g \in Findable(s, v), NEW t, t = ScriptFind(s, alive, me, v, g)
  PROVE  /\ Sound(t, L, P, M, C) /\ SameElse(s, t) /\ t.starting = s.starting /\ t.parent = s.parent
         /\ g \in Groups /\ g \in Range(t.glist) /\ t.version[g] = v /\ SameForParents(s, t)
<1>1. FileRest(s, P, M, C) /\ StartInv(s, P, M, C)
  BY DEF Sound, FileInv
<1>2. /\ FileRest(t, P, M, C) /\ SameElse(s, t) /\ t.starting = s.starting /\ t.parent = s.parent
      /\ SameForParents(s, t)
      /\ g \in Groups /\ Range(t.glist) = Range(s.glist) \cup {g}
      /\ g \in Range(s.glist) => s.version[g] = v
      /\ t.version[g] = v /\ \A h \in Groups \ {g} : t.version[h] = 0
  <2>1. FileRest(t, P, M, C) /\ HasFound(s, t, v, g)
    BY <1>1, ScriptFindInv
  <2>. QED
    BY <2>1 DEF HasFound
<1>3. t.bes = s.bes /\ t.fe_running = s.fe_running /\ t.maturity = s.maturity
  BY <1>2 DEF SameElse, SameBackends
<1>4. /\ s.version[g] = v \/ (s.starting[g] = Nil /\ s.parent[g] = Nil /\ s.bes[g] = <<>>)
      /\ Nil \notin Parents
  BY <1>1, <1>2, KindsAssumption DEF FileRest, FreeOK, Pids
<1>5. InstalledOK(t.version, t.parent, P, M)
  BY <1>1, <1>2, <1>4 DEF StartInv, InstalledOK
<1>6. AskedOK(t.version, t.starting, t.bes, t.sigs, P, M)
  <2>1. AskedOK(s.version, s.starting, s.bes, s.sigs, P, M)
    BY <1>1 DEF StartInv
  <2>2. ASSUME NEW h \in Groups, t.version[h] # 0, t.starting[h] \in Parents
        PROVE  s.version[h] = t.version[h] /\ s.starting[h] = t.starting[h]
    BY <1>2, <1>4, <2>2
  <2>3. \A m \in Parents : t.sigs[m] = s.sigs[m]
    BY <1>2 DEF SameForParents
  <2>. QED
    BY <1>3, <2>1, <2>2, <2>3 DEF AskedOK
<1>7. NewOK(t.version, t.parent, t.bes)
  BY <1>1, <1>2, <1>3, <1>4 DEF StartInv, NewOK
<1>8. StartInv(t, P, M, C)
  BY <1>1, <1>2, <1>3, <1>5, <1>6, <1>7 DEF StartInv
<1>9. FileInv(t, L, P, M, C)
  BY <1>2, <1>3 DEF Sound, FileInv
<1>. QED
  BY <1>2, <1>8, <1>9 DEF Sound

LEMMA StartSound ==
  ASSUME IInv, NEW c \in Frontends, FrontendStart(c)
  PROVE  Sound(file', {}, pc', mem', conn')
<1>1. c \in Pids /\ DOMAIN pc = Pids /\ mem \in [Pids -> MemType]
  BY DEF Pids, IInv, ProcsType
<1>2. /\ OthersStay({c}, pc, mem, pc', mem') /\ pc'[c] = "connect" /\ file' = file /\ conn' = conn
  BY <1>1 DEF FrontendStart, OthersStay
<1>3. \A g \in Groups : c \notin Range(file.fes[g])
  BY DEF FrontendStart, Forgotten
<1>4. c \notin Range(file.run)
  BY DEF FrontendStart, Forgotten
<1>5. ~file.sent_sig[c]
  <2>1. ToldOK(file.fes, file.sent_sig, pc)
    BY DEF IInv, Sound, FileInv, FileRest
  <2>2. pc[c] # "leaving"
    BY DEF IInv, ProcsType, FrontendPCs, Waiting
  <2>. QED
    BY <1>3, <2>1, <2>2 DEF ToldOK
<1>6. pc'[c] \notin Waiting \cup Active
  BY <1>2 DEF Waiting, Active
<1>7. Sound(file, {}, pc, mem, conn)
  BY DEF IInv
<1>. QED
  BY <1>2, <1>3, <1>4, <1>5, <1>6, <1>7, FrontendMoves

LEMMA WakeSound ==
  ASSUME IInv, NEW c \in Frontends, FrontendWake(c)
  PROVE  Sound(file', {}, pc', mem', conn')
<1>1. c \in Pids /\ DOMAIN pc = Pids /\ mem \in [Pids -> MemType]
  BY DEF Pids, IInv, ProcsType
<1>2. PICK v : /\ pc' = [pc EXCEPT ![c] = IF v = mem[c].version THEN "woken" ELSE "changed"]
               /\ mem' = [mem EXCEPT ![c].version = v]
  BY DEF FrontendWake
<1>3. /\ OthersStay({c}, pc, mem, pc', mem') /\ pc'[c] \in {"woken", "changed"}
      /\ mem'[c].group = mem[c].group /\ file' = file /\ conn' = conn
  BY <1>1, <1>2 DEF FrontendWake, OthersStay, MemType
<1>4. pc[c] \in Waiting /\ pc'[c] \in Waiting
  BY <1>3 DEF FrontendWake, Waiting
<1>5. Sound(file, {}, pc, mem, conn)
  BY DEF IInv
<1>. QED
  BY <1>3, <1>4, <1>5, WaitsSound

LEMMA CatchesSound ==
  ASSUME IInv, NEW c \in Frontends, FrontendCatches(c)
  PROVE  Sound(file', {}, pc', mem', conn')
<1>1. c \in Pids /\ DOMAIN pc = Pids
  BY DEF Pids, IInv, ProcsType
<1>2. /\ OthersStay({c}, pc, mem, pc', mem') /\ pc'[c] = "running" /\ pc[c] = "connected"
      /\ file' = file /\ conn' = conn
  BY <1>1 DEF FrontendCatches, OthersStay
<1>3. pc'[c] \in Active /\ pc[c] \in Active /\ pc'[c] \notin Waiting /\ pc[c] \notin Waiting \cup Gone
  BY <1>2 DEF Waiting, Active, Gone
<1>4. Sound(file, {}, pc, mem, conn) /\ pc[c] # "leaving"
  BY <1>2 DEF IInv
<1>5. \A g \in Groups : c \notin Range(file.fes[g])
  BY <1>3, <1>4 DEF Sound, FileInv, FileRest, QueueOwn
<1>. QED
  BY <1>2, <1>3, <1>4, <1>5, FrontendMoves

LEMMA TooLateSound ==
  ASSUME IInv, NEW c \in Frontends, FrontendTooLate(c)
  PROVE  Sound(file', {}, pc', mem', conn')
<1>1. Sound(file, {}, pc, mem, conn) /\ ProcsType /\ c \in Pids /\ c \notin Backends /\ c \notin Parents
  BY KindsAssumption DEF IInv, Pids
<1>2. End(c, file, "none") /\ pc[c] # "leaving"
  BY DEF FrontendTooLate
<1>3. OthersStay({c}, pc, mem, pc, mem) /\ "none" \in Gone
  BY DEF OthersStay, Gone
<1>. QED
  BY <1>1, <1>2, <1>3, EndSound

LEMMA BackendExitedSound ==
  ASSUME NEW s, NEW P, NEW M, NEW C, NEW L, Sound(s, L, P, M, C), NEW alive, LivingOK(alive, P),
         NEW me, NEW D \in SUBSET Backends, NEW how,
         \A b \in D : how[b] \in {"none", "script", "exited", "killed"},
         NEW t, t = BackendExited(s, alive, me, D, how)
  PROVE  Sound(t, L, P, M, C) /\ HaveExited(s, t, D)
<1>1. FileInv(s, L, P, M, C)
  BY DEF Sound
<1>2. FileInv(t, L, P, M, C) /\ HaveExited(s, t, D)
  BY <1>1, BackendExitedInv
<1>3. Onward(s, t, P)
  BY <1>2, OnwardSame DEF HaveExited, SameForParents
<1>. QED
  BY <1>2, <1>3, OnwardSound

LEMMA RemoveRunningSound ==
  ASSUME NEW s, NEW P, NEW M, NEW C, NEW L, Sound(s, L, P, M, C), NEW D \in SUBSET Frontends,
         \A c \in D : P[c] \notin Active,
         NEW t, t = RemoveRunning(s, D)
  PROVE  Sound(t, L, P, M, C)
<1>1. FileInv(s, L, P, M, C)
  BY DEF Sound
<1>2. /\ FileInv(t, L, P, M, C) /\ SameGroups(s, t)
      /\ t.bes = s.bes /\ t.maturity = s.maturity /\ t.sigs = s.sigs
  BY <1>1, RemoveRunningInv
<1>3. Onward(s, t, P)
  BY <1>2, OnwardSame
<1>. QED
  BY <1>2, <1>3, OnwardSound

LEMMA CollectSound ==
  ASSUME IInv, NEW c \in Frontends, FrontendCollect(c)
  PROVE  Sound(file', {}, pc', mem', conn')
<1>1. /\ Sound(file, {}, pc, mem, conn) /\ ProcsType /\ c \in Pids /\ DOMAIN pc = Pids
      /\ c \notin Backends /\ c \notin Parents /\ pc[c] = "running"
  BY KindsAssumption DEF IInv, Pids, ProcsType, FrontendCollect
<1>2. LivingOK(Alive, pc)
  BY <1>1, AliveLives
<1>3. PICK b : b = file.backend[c]
  OBVIOUS
<1>4. b \in Backends \cup {Nil}
  BY <1>1, <1>3 DEF Sound, FileInv, FileRest, Files
<1>5. PICK D : D = {b}
  OBVIOUS
<1>6. PICK s1 : s1 = IF b # Nil /\ b \notin Alive THEN BackendDied(file, Alive, c, D) ELSE file
  OBVIOUS
<1>7. PICK E : E = {c}
  OBVIOUS
<1>8. PICK s2 : s2 = RemoveRunning(s1, E)
  OBVIOUS
<1>9. End(c, s2, "none")
  BY <1>3, <1>5, <1>6, <1>7, <1>8, Zenon DEF FrontendCollect
<1>10. Sound(s1, {}, pc, mem, conn)
  <2>1. CASE b # Nil /\ b \notin Alive
    <3>1. PICK how : how = [x \in D |-> "killed"]
      OBVIOUS
    <3>2. D \in SUBSET Backends /\ \A x \in D : how[x] \in {"none", "script", "exited", "killed"}
      BY <1>4, <1>5, <2>1, <3>1
    <3>3. s1 = BackendExited(file, Alive, c, D, how)
      BY <1>6, <2>1, <3>1 DEF BackendDied
    <3>. QED
      BY <1>1, <1>2, <3>2, <3>3, BackendExitedSound
  <2>. QED
    BY <1>1, <1>6, <2>1
<1>11. PICK P1 : P1 = [pc EXCEPT ![c] = "none"]
  OBVIOUS
<1>12. P1[c] = "none" /\ OthersStay({c}, pc, mem, P1, mem) /\ OthersStay({c}, P1, mem, pc, mem)
  BY <1>1, <1>11 DEF OthersStay
<1>13. P1[c] \notin Waiting /\ P1[c] \notin Active /\ P1[c] \in Gone /\ pc[c] # "leaving"
  BY <1>1, <1>12 DEF Waiting, Active, Gone
<1>14. Sound(s1, {}, P1, mem, conn)
  BY <1>10, <1>12, <1>13, FrontendMoves
<1>15. Sound(s2, {}, P1, mem, conn)
  <2>1. E \in SUBSET Frontends /\ \A x \in E : P1[x] \notin Active
    BY <1>7, <1>13
  <2>. QED
    BY <1>8, <1>14, <2>1, RemoveRunningSound
<1>16. P1[c] # "leaving" /\ "none" \in Gone
  BY <1>12 DEF Gone
<1>. QED
  BY <1>1, <1>9, <1>12, <1>15, <1>16, EndSound

LEMMA RecheckSound ==
  ASSUME IInv, NEW c \in Frontends, FrontendRecheck(c)
  PROVE  Sound(file', {}, pc', mem', conn')
<1>1. /\ Sound(file, {}, pc, mem, conn) /\ ProcsType /\ c \in Pids
      /\ pc[c] \in Waiting /\ pc[c] \notin Gone
  BY DEF IInv, Pids, FrontendRecheck, Waiting, Gone
<1>2. PICK g : g = mem[c].group
  OBVIOUS
<1>3. g \in Groups
  BY <1>1, <1>2 DEF Sound, FileInv, FileRest, QueueOwn
<1>4. PICK v : v = mem[c].version
  OBVIOUS
<1>5. OthersStay({c}, pc, mem, pc, mem)
  BY DEF OthersStay
<1>6. NamesNew(file)
  BY DEF NamesNew, Forgotten
<1>7. PICK did : did = mem[c].did_spawn
  OBVIOUS
<1>8. LeaveQueue(c, g, v, file, TRUE, Nil) \/ Iterate(c, g, v, file, did)
  BY <1>2, <1>4, <1>7 DEF FrontendRecheck
<1>9. CASE LeaveQueue(c, g, v, file, TRUE, Nil)
  <2>1. PICK L : L = {}
    OBVIOUS
  <2>2. PICK b : b = Nil
    OBVIOUS
  <2>3. PICK w : w = TRUE
    OBVIOUS
  <2>4. HasTaken(file, L, g, c, b) /\ Sound(file, L, pc, mem, conn)
    BY <1>1, <2>1, <2>2 DEF HasTaken
  <2>5. LeaveQueue(c, g, v, file, w, b)
    BY <1>9, <2>2, <2>3
  <2>. QED
    BY <1>1, <1>2, <1>3, <1>5, <2>4, <2>5, LeaveQueueSound
<1>10. CASE Iterate(c, g, v, file, did)
  BY <1>1, <1>2, <1>3, <1>5, <1>6, <1>10, IterateSound
<1>. QED
  BY <1>8, <1>9, <1>10

LEMMA ConnectSound ==
  ASSUME IInv, NEW c \in Frontends, FrontendConnect(c)
  PROVE  Sound(file', {}, pc', mem', conn')
<1>1. /\ Sound(file, {}, pc, mem, conn) /\ ProcsType /\ c \in Pids
      /\ DOMAIN pc = Pids /\ mem \in [Pids -> MemType]
      /\ pc[c] \in {"connect", "again"}
  BY DEF IInv, Pids, FrontendConnect, ProcsType
<1>2. LivingOK(Alive, pc)
  BY <1>1, AliveLives
<1>3. PICK s : s = IF pc[c] = "connect" THEN CleanRunning(file, Alive) ELSE file
  OBVIOUS
<1>4. PICK v \in Restat(c) : \E g \in Findable(s, v) :
        LET s1 == ScriptFind(s, Alive, c, v, g)
        IN  IF s1.fes[g] = <<>> /\ CanGet(s1, Alive, g)
            THEN LeaveQueue(c, g, v, WaitGet(s1, Alive, g), TRUE, Head(s1.bes[g]))
            ELSE Iterate(c, g, v, Queued(s1, g, c), FALSE)
  BY <1>3, Zenon DEF FrontendConnect, Queued
<1>5. PICK g \in Findable(s, v) :
        LET s1 == ScriptFind(s, Alive, c, v, g)
        IN  IF s1.fes[g] = <<>> /\ CanGet(s1, Alive, g)
            THEN LeaveQueue(c, g, v, WaitGet(s1, Alive, g), TRUE, Head(s1.bes[g]))
            ELSE Iterate(c, g, v, Queued(s1, g, c), FALSE)
  BY <1>4
<1>6. v \in Nat
  BY <1>1, BoundsAssumption DEF Restat, ProcsType, MemType
<1>7. Sound(s, {}, pc, mem, conn) /\ SameGroups(file, s)
  <2>1. CASE pc[c] = "connect"
    BY <1>1, <1>2, <1>3, <2>1, CleanRunningSound
  <2>2. CASE pc[c] # "connect"
    BY <1>1, <1>3, <2>2 DEF SameGroups
  <2>. QED
    BY <2>1, <2>2
<1>8. PICK s1 : s1 = ScriptFind(s, Alive, c, v, g)
  OBVIOUS
<1>9. /\ Sound(s1, {}, pc, mem, conn) /\ s1.starting = s.starting /\ s1.parent = s.parent
      /\ g \in Groups /\ g \in Range(s1.glist)
  BY <1>6, <1>7, <1>8, ScriptFindSound
<1>10. NamesNew(s1)
  <2>1. s1.starting = file.starting /\ s1.parent = file.parent
    BY <1>7, <1>9 DEF SameGroups
  <2>. QED
    BY <2>1 DEF NamesNew, Forgotten
<1>11. OthersStay({c}, pc, mem, pc, mem) /\ pc[c] \notin Gone /\ pc[c] \notin Waiting /\ pc[c] # "leaving"
  BY <1>1 DEF OthersStay, Gone, Waiting
<1>12. CASE LeaveQueue(c, g, v, WaitGet(s1, Alive, g), TRUE, Head(s1.bes[g])) /\ CanGet(s1, Alive, g)
  <2>1. PICK b : b = Head(s1.bes[g])
    OBVIOUS
  <2>2. PICK L : L = {b}
    OBVIOUS
  <2>3. PICK x : x = WaitGet(s1, Alive, g)
    OBVIOUS
  <2>4. /\ Sound(x, L, pc, mem, conn) /\ SameFrontends(s1, x)
        /\ b \in Backends /\ b \in Range(x.bes[g]) /\ x.fe_running[b] = Nil
        /\ \A y \in Backends : ~InOrder(x.bes[g], b, y)
        /\ x.starting[g] = Nil
    BY <1>2, <1>9, <1>12, <2>1, <2>2, <2>3, WaitGetSound
  <2>5. ~x.sent_sig[c]
    <3>1. ToldOK(x.fes, x.sent_sig, pc) /\ QueueOwn(x.fes, pc, mem)
      BY <2>4 DEF Sound, FileInv, FileRest
    <3>. QED
      BY <1>11, <3>1 DEF ToldOK, QueueOwn
  <2>6. HasTaken(x, L, g, c, b)
    BY <2>2, <2>4, <2>5 DEF HasTaken
  <2>7. PICK w : w = TRUE
    OBVIOUS
  <2>8. LeaveQueue(c, g, v, x, w, b)
    BY <1>12, <2>1, <2>3, <2>7
  <2>. QED
    BY <1>1, <1>9, <1>11, <2>4, <2>6, <2>8, LeaveQueueSound
<1>13. CASE Iterate(c, g, v, Queued(s1, g, c), FALSE)
  <2>1. PICK s2 : s2 = Queued(s1, g, c)
    OBVIOUS
  <2>2. PICK P2 : P2 = [pc EXCEPT ![c] = "queued"]
    OBVIOUS
  <2>3. PICK M2 : M2 = [mem EXCEPT ![c] = [Blank EXCEPT !.group = g]]
    OBVIOUS
  <2>4. /\ P2[c] = "queued" /\ M2[c].group = g
        /\ OthersStay({c}, pc, mem, P2, M2) /\ OthersStay({c}, P2, M2, pc, mem)
    BY <1>1, <2>2, <2>3 DEF OthersStay, Blank
  <2>5. Sound(s2, {}, P2, M2, conn) /\ SameButQueues(s1, s2)
    BY <1>1, <1>9, <2>1, <2>4, QueuedSound
  <2>6. NamesNew(s2)
    BY <1>10, <2>5 DEF NamesNew, SameButQueues, SameGroups
  <2>7. P2[c] \in Waiting
    BY <2>4 DEF Waiting
  <2>8. PICK did : did = FALSE
    OBVIOUS
  <2>9. Iterate(c, g, v, s2, did)
    BY <1>13, <2>1, <2>8
  <2>. QED
    BY <1>1, <1>9, <1>11, <2>4, <2>5, <2>6, <2>7, <2>9, IterateSound
<1>. QED
  BY <1>8, <1>12, <1>13, <1>5

-----------------------------------------------------------------------------
(* Backends                                                                *)

\* A backend is in the list of no group but its own, and be_starting names it
\* there or nowhere.
LEMMA OwnGroup ==
  ASSUME NEW s, NEW P, NEW M, NEW C, NEW L, Sound(s, L, P, M, C), NEW b \in Backends,
         P[b] \notin Defunct \cup {"none"}
  PROVE  /\ M[b].group \in Groups /\ b \in Range(s.bes[M[b].group])
         /\ \A h \in Groups : s.starting[h] = b => h = M[b].group
<1>1. M[b].group \in Groups /\ b \in Range(s.bes[M[b].group])
  BY DEF Sound, FileInv, FileRest, BackendsOwn
<1>2. ASSUME NEW h \in Groups, s.starting[h] = b PROVE h = M[b].group
  <2>1. b \in Range(s.bes[h])
    BY <1>2 DEF Sound, StartInv, ComesOK
  <2>. QED
    BY <1>1, <2>1 DEF Sound, FileInv, FileRest, ApartOK
<1>. QED
  BY <1>1, <1>2

LEMMA ClearStartingSound ==
  ASSUME NEW s, NEW P, NEW M, NEW C, NEW L, Sound(s, L, P, M, C), NEW b \in Backends,
         P[b] \notin Defunct \cup {"none"}, NEW g, g = M[b].group,
         NEW t, t = ClearStarting(s, g, b)
  PROVE  /\ Sound(t, L, P, M, C) /\ SameElse(s, t)
         /\ \A h \in Groups : t.starting[h] # b
<1>1. g \in Groups /\ \A h \in Groups : s.starting[h] = b => h = g
  BY OwnGroup
<1>2. FileRest(s, P, M, C) /\ Nil \notin Backends /\ b \notin Parents
  BY KindsAssumption DEF Sound, FileInv, Pids
<1>3. CASE s.starting[g] = b
  <2>1. PICK x : x = Nil
    OBVIOUS
  <2>2. t = SetStarting(s, g, x)
    BY <1>3, <2>1 DEF ClearStarting, SetStarting
  <2>3. s.parent[g] \in Parents => P[s.parent[g]] \notin Starting
    BY <1>1, <1>2, <1>3 DEF FileRest, StartsUpOK
  <2>4. /\ FileRest(t, P, M, C) /\ SameElse(s, t) /\ t.sigs = s.sigs
        /\ t.glist = s.glist /\ t.version = s.version /\ t.parent = s.parent
        /\ \A h \in Groups : t.starting[h] = IF h = g THEN x ELSE s.starting[h]
    BY <1>1, <1>2, <2>1, <2>2, <2>3, StartingInv
  <2>5. Onward(s, t, P)
    BY <2>1, <2>4 DEF Onward, SameElse, SameBackends
  <2>6. Sound(t, L, P, M, C)
    BY <2>4, <2>5, SameSound DEF SameElse
  <2>. QED
    BY <1>1, <1>2, <2>1, <2>4, <2>6
<1>4. CASE s.starting[g] # b
  <2>1. t = s
    BY <1>4 DEF ClearStarting
  <2>. QED
    BY <1>1, <1>4, <2>1 DEF SameElse, SameBackends, SameFrontends
<1>. QED
  BY <1>3, <1>4

\* all_done begins: what was to be done with b is done, or will be found
\* undone.
LEMMA LeavesSound ==
  ASSUME NEW s, NEW P, NEW M, NEW C, NEW L, Sound(s, L, P, M, C), NEW b \in Backends,
         P[b] \notin Defunct \cup {"none"},
         NEW P2, NEW M2, NEW C2, OthersStay({b}, P, M, P2, M2), OtherConns(b, C, C2),
         P2[b] = "leaving", M2[b].group = M[b].group, C2[b] = <<>> \/ C2[b] = C[b]
  PROVE  Sound(s, L, P2, M2, C2)
<1>1. M[b].group \in Groups /\ b \in Range(s.bes[M[b].group])
  BY OwnGroup
<1>2. ConnOK(s.fe_running, P, C) /\ ComesOK(s.starting, s.bes, P, C)
  BY DEF Sound, FileInv, FileRest, StartInv
<1>3. P2[b] \notin {"none", "born"} \cup Defunct /\ P2[b] \notin {"accepted", "perl"} /\ P2[b] # "born"
  BY DEF Defunct
<1>4. /\ C2[b] \in Seq(Frontends) /\ Len(C2[b]) <= 1
      /\ s.fe_running[b] = Nil => C2[b] = <<>>
  <2>1. C[b] \in Seq(Frontends) /\ Len(C[b]) <= 1 /\ (s.fe_running[b] = Nil => C[b] = <<>>)
    BY <1>2 DEF ConnOK
  <2>2. <<>> \in Seq(Frontends) /\ Len(<<>>) <= 1
    OBVIOUS
  <2>3. CASE C2[b] = <<>>
    BY <2>2, <2>3, Zenon
  <2>4. CASE C2[b] = C[b]
    BY <2>1, <2>4, Zenon
  <2>. QED
    BY <2>3, <2>4
<1>5. \A h \in Groups : s.starting[h] = b =>
        /\ P2[b] \in {"none", "born", "leaving"} \cup Defunct \/ C2[b] # <<>>
        /\ P2[b] \notin {"none"} \cup Defunct => b \in Range(s.bes[h])
        /\ P2[b] # "perl"
  BY <1>2 DEF ComesOK
<1>6. /\ s.fe_running[b] = Nil \/ P2[b] \in {"none", "born"} \cup Defunct => C2[b] = <<>>
      /\ P2[b] \in {"accepted", "perl"} => C2[b] # <<>>
      /\ P2[b] = "born" => s.fe_running[b] = b
  BY <1>3, <1>4
<1>7. \A c \in Frontends : s.backend[c] = b /\ P[c] \in Active =>
        P2[b] \in {"none", "leaving"} \cup Defunct \/ c \in Range(C2[b])
  OBVIOUS
<1>8. P2[b] \notin Defunct \cup {"none"} =>
        M2[b].group \in Groups /\ b \in Range(s.bes[M2[b].group])
  BY <1>1
<1>9. BackendFits(b, s, P, P2, M2, C2)
  BY <1>4, <1>5, <1>6, <1>7, <1>8 DEF BackendFits
<1>. QED
  BY <1>9, BackendMoves

\* In backend_accept nothing changes but how far b is.
LEMMA AcceptsSound ==
  ASSUME NEW s, NEW P, NEW M, NEW C, NEW L, Sound(s, L, P, M, C), NEW b \in Backends,
         P[b] \in {"arming", "accept"},
         NEW P2, OthersStay({b}, P, M, P2, M),
         P2[b] = "accept" \/ (P2[b] = "accepted" /\ C[b] # <<>>)
  PROVE  Sound(s, L, P2, M, C)
<1>1. P[b] \notin Defunct \cup {"none"} /\ P[b] \notin {"none", "born", "leaving"} \cup Defunct
  BY DEF Defunct
<1>2. M[b].group \in Groups /\ b \in Range(s.bes[M[b].group])
  BY <1>1, OwnGroup
<1>3. /\ ConnOK(s.fe_running, P, C) /\ ComesOK(s.starting, s.bes, P, C)
      /\ StatusOK(s.backend, P, C)
  BY DEF Sound, FileInv, FileRest, StartInv
<1>4. P2[b] \notin {"none", "born", "leaving"} \cup Defunct /\ P2[b] # "perl"
  BY DEF Defunct
<1>5. /\ C[b] \in Seq(Frontends) /\ Len(C[b]) <= 1
      /\ s.fe_running[b] = Nil => C[b] = <<>>
  BY <1>3 DEF ConnOK
<1>6. \A c \in Frontends : s.backend[c] = b /\ P[c] \in Active => c \in Range(C[b])
  BY <1>1, <1>3, KindsAssumption DEF StatusOK, Pids
<1>7. \A h \in Groups : s.starting[h] = b => C[b] # <<>> /\ b \in Range(s.bes[h])
  BY <1>1, <1>3 DEF ComesOK
<1>8. BackendFits(b, s, P, P2, M, C)
  BY <1>2, <1>4, <1>5, <1>6, <1>7 DEF BackendFits
<1>9. OtherConns(b, C, C)
  BY DEF OtherConns
<1>. QED
  BY <1>8, <1>9, BackendMoves

NoSigs(s, p) == [s EXCEPT !.sigs[p] = {}]

LEMMA NoSigsIs ==
  ASSUME NEW s \in Files, NEW p \in Pids, NEW t, t = NoSigs(s, p)
  PROVE  /\ t \in Files /\ SameButSigs(s, t)
         /\ \A q \in Pids : t.sigs[q] = IF q = p THEN {} ELSE s.sigs[q]
<1>1. PICK S : S = [s.sigs EXCEPT ![p] = {}]
  OBVIOUS
<1>2. t = [s EXCEPT !.sigs = S]
  BY <1>1 DEF NoSigs, Files
<1>3. /\ S \in [Pids -> SUBSET {"CHLD", "USR1", "TERM", "KILL"}]
      /\ \A q \in Pids : S[q] = IF q = p THEN {} ELSE s.sigs[q]
  BY <1>1 DEF Files
<1>4. t \in Files /\ t.sigs = S
  BY <1>2, <1>3 DEF Files
<1>5. SameButSigs(s, t)
  BY <1>2 DEF Files, SameButSigs, SameGroups, SameBackends, SameFrontends
<1>. QED
  BY <1>3, <1>4, <1>5

LEMMA NoSigsSound ==
  ASSUME NEW s, NEW P, NEW M, NEW C, NEW L, Sound(s, L, P, M, C), NEW b \in Backends,
         NEW t, t = NoSigs(s, b)
  PROVE  Sound(t, L, P, M, C)
<1>1. s \in Files /\ b \in Pids /\ b \notin Parents
  BY KindsAssumption DEF Sound, FileInv, FileRest, Pids
<1>2. /\ t \in Files /\ SameButSigs(s, t)
      /\ \A q \in Pids : t.sigs[q] = IF q = b THEN {} ELSE s.sigs[q]
  BY <1>1, NoSigsIs
<1>3. \A m \in Parents : t.sigs[m] = s.sigs[m]
  BY <1>1, <1>2 DEF Pids
<1>. QED
  BY <1>2, <1>3, FewerSigs

\* A slot that says that its backend serves nobody.
LEMMA NobodyServed ==
  ASSUME NEW s, NEW P, NEW M, NEW C, NEW L, Sound(s, L, P, M, C), NEW b \in Backends,
         s.fe_running[b] = b
  PROVE  \A c \in Frontends : s.backend[c] # b
BY KindsAssumption DEF Sound, FileInv, FileRest, PairOK, Pids

\* What of b changes in a step of its own: not its group, and its connection
\* is closed or stays.
OwnStep(b) ==
  /\ DOMAIN pc' = Pids
  /\ \A p \in Pids : p # b => pc'[p] = pc[p] /\ mem'[p] = mem[p]
  /\ mem'[b].group = mem[b].group
  /\ OtherConns(b, conn, conn')

\* The head of the loop: b waits, or finds that it is not wanted any more.
LEMMA OfferSound ==
  ASSUME ProcsType, NEW b \in Backends, NEW s, NEW n, Sound(s, {}, pc, mem, conn),
         pc[b] \in {"born", "perl"}, s.fe_running[b] = b, OwnStep(b), conn'[b] = <<>>,
         OfferItself(b, s, n)
  PROVE  Sound(file', {}, pc', mem', conn')
<1>1. PICK g : g = mem[b].group
  OBVIOUS
<1>2. pc[b] \notin Defunct \cup {"none"} /\ b \in Pids /\ DOMAIN pc = Pids
  BY DEF Defunct, Pids, ProcsType
<1>3. /\ g \in Groups /\ b \in Range(s.bes[g])
      /\ \A h \in Groups : s.starting[h] = b => h = g
  BY <1>1, <1>2, OwnGroup
<1>4. PICK P1 : P1 = [pc EXCEPT ![b] = "leaving"]
  OBVIOUS
<1>5. P1[b] = "leaving" /\ (\A p \in Pids : p # b => P1[p] = pc[p]) /\ DOMAIN P1 = Pids
  BY <1>2, <1>4
<1>6. OthersStay({b}, pc, mem, P1, mem')
  BY <1>5 DEF OthersStay, OwnStep
<1>7. Sound(s, {}, P1, mem', conn')
  BY <1>2, <1>5, <1>6, LeavesSound DEF OwnStep
<1>8. CASE file' = s /\ pc' = P1
  BY <1>7, <1>8
<1>9. CASE /\ file' = SendSigs(ClearStarting(WaitPut(SetMaturity(s, b, IF n = 0 THEN 1 ELSE 2), g, b), g, b), Alive, g)
           /\ pc' = [pc EXCEPT ![b] = "arming"]
  <2>1. PICK k \in Nat : k = IF n = 0 THEN 1 ELSE 2
    OBVIOUS
  <2>2. PICK u : u = WaitPut(SetMaturity(s, b, k), g, b)
    OBVIOUS
  <2>3. PICK w : w = ClearStarting(u, g, b)
    OBVIOUS
  <2>4. file' = SendSigs(w, Alive, g)
    BY <1>9, <2>1, <2>2, <2>3, Zenon
  <2>5. FileInv(s, {}, P1, mem', conn') /\ P1[b] \notin {"born", "accepted", "perl"}
    BY <1>5, <1>7 DEF Sound
  <2>6. /\ FileInv(u, {}, P1, mem', conn') /\ SameGroups(s, u) /\ SameFrontends(s, u) /\ u.sigs = s.sigs
        /\ \A h \in Groups : Range(u.bes[h]) = Range(s.bes[h])
    BY <1>3, <2>2, <2>5, WaitPutInv
  <2>7. Onward(s, u, P1)
    BY <2>6 DEF Onward, SameGroups
  <2>8. Sound(u, {}, P1, mem', conn')
    BY <1>7, <2>6, <2>7, OnwardSound
  <2>9. P1[b] \notin Defunct \cup {"none"} /\ mem'[b].group = g
    BY <1>1, <1>5 DEF Defunct, OwnStep
  <2>10. /\ Sound(w, {}, P1, mem', conn') /\ SameElse(u, w)
         /\ \A h \in Groups : w.starting[h] # b
    BY <2>3, <2>8, <2>9, ClearStartingSound
  <2>11. LivingOK(Alive, P1)
    <3>1. LivingOK(Alive, pc) /\ b \in Alive
      BY <1>2, AliveLives DEF Alive, Pids, ProcsType, BackendPCs
    <3>. QED
      BY <1>5, <3>1, KindsAssumption DEF LivingOK, Pids
  <2>12. /\ Sound(file', {}, P1, mem', conn') /\ SameGroups(w, file') /\ file'.backend = w.backend
    BY <1>3, <2>4, <2>10, <2>11, SendSigsSound
  <2>13. \A c \in Frontends : file'.backend[c] # b
    <3>1. \A c \in Frontends : s.backend[c] # b
      BY NobodyServed
    <3>. QED
      BY <2>6, <2>10, <2>12, <3>1 DEF SameFrontends, SameElse
  <2>14. \A h \in Groups : file'.starting[h] # b
    BY <2>10, <2>12 DEF SameGroups
  <2>15. pc'[b] = "arming" /\ \A p \in Pids : p # b => pc'[p] = P1[p]
    BY <1>2, <1>5, <1>9
  <2>16. OthersStay({b}, P1, mem', pc', mem') /\ OtherConns(b, conn', conn')
    BY <2>15 DEF OthersStay, OtherConns
  <2>17. mem'[b].group \in Groups /\ b \in Range(file'.bes[mem'[b].group])
    BY <2>9, <2>12, OwnGroup
  <2>18. BackendFits(b, file', P1, pc', mem', conn')
    BY <2>13, <2>14, <2>15, <2>17 DEF BackendFits
  <2>. QED
    BY <2>12, <2>16, <2>18, BackendMoves
<1>. QED
  BY <1>1, <1>4, <1>8, <1>9, Zenon DEF OfferItself, SetMaturity

LEMMA ReadySound ==
  ASSUME IInv, NEW b \in Backends, BackendReady(b)
  PROVE  Sound(file', {}, pc', mem', conn')
<1>1. Sound(file, {}, pc, mem, conn) /\ ProcsType /\ pc[b] = "born" /\ DOMAIN pc = Pids
  BY DEF IInv, BackendReady, ProcsType
<1>2. file.fe_running[b] = b /\ conn[b] = <<>>
  BY <1>1 DEF Sound, FileInv, FileRest, ConnOK
<1>3. mem' = mem /\ conn' = conn /\ OfferItself(b, file, 0)
  BY DEF BackendReady
<1>4. pc' = [pc EXCEPT ![b] = "leaving"] \/ pc' = [pc EXCEPT ![b] = "arming"]
  BY <1>3 DEF OfferItself
<1>5. OwnStep(b)
  BY <1>1, <1>3, <1>4 DEF OwnStep, OtherConns
<1>. QED
  BY <1>1, <1>2, <1>3, <1>5, OfferSound

LEMMA OnlyOne ==
  ASSUME NEW list \in Seq(Frontends), list # <<>>, Len(list) <= 1
  PROVE  Tail(list) = <<>>
<1>1. Len(list) = 1
  BY EmptySeq
<1>2. Tail(list) \in Seq(Frontends) /\ Len(Tail(list)) = 0
  BY <1>1
<1>. QED
  BY <1>2

LEMMA FinishSound ==
  ASSUME IInv, NEW b \in Backends, BackendFinish(b)
  PROVE  Sound(file', {}, pc', mem', conn')
<1>1. /\ Sound(file, {}, pc, mem, conn) /\ ProcsType /\ pc[b] = "perl" /\ DOMAIN pc = Pids
      /\ mem \in [Pids -> MemType] /\ b \in Pids /\ conn \in [Backends -> Seq(Frontends)]
      /\ pc[b] \notin Defunct \cup {"none"}
  BY DEF IInv, BackendFinish, ProcsType, Pids, Defunct
<1>2. LivingOK(Alive, pc)
  BY <1>1, AliveLives
<1>3. PICK g : g = mem[b].group
  OBVIOUS
<1>4. PICK D : D = {b}
  OBVIOUS
<1>5. PICK how : how = [x \in D |-> "script"]
  OBVIOUS
<1>6. PICK s : s = BackendExited(file, Alive, b, D, how)
  OBVIOUS
<1>7. D \in SUBSET Backends /\ \A x \in D : how[x] \in {"none", "script", "exited", "killed"}
  BY <1>4, <1>5
<1>8. Sound(s, {}, pc, mem, conn) /\ HaveExited(file, s, D)
  BY <1>1, <1>2, <1>6, <1>7, BackendExitedSound
<1>9. conn[b] # <<>> /\ Len(conn[b]) <= 1 /\ s.fe_running[b] = b
  <2>1. ConnOK(s.fe_running, pc, conn)
    BY <1>8 DEF Sound, FileInv, FileRest
  <2>2. s.fe_running[b] \in {b, Nil}
    <3>1. \A x \in D : s.fe_running[x] \in {x, Nil}
      BY <1>8, Zenon DEF HaveExited
    <3>2. b \in D
      BY <1>4
    <3>. QED
      BY <3>1, <3>2, Zenon
  <2>3. /\ Len(conn[b]) <= 1
        /\ s.fe_running[b] = Nil => conn[b] = <<>>
        /\ pc[b] = "perl" => conn[b] # <<>>
    BY <2>1 DEF ConnOK
  <2>. QED
    BY <1>1, <2>2, <2>3
<1>10. PICK n : n = mem[b].numrun + 1
  OBVIOUS
<1>11. /\ conn' = [conn EXCEPT ![b] = Tail(@)]
       /\ mem' = [mem EXCEPT ![b].numrun = IF MaxRuns = 0 THEN 1 ELSE n]
       /\ \/ /\ file' = IF IsValid(s, g) THEN StartBe(s, Alive, b, g) ELSE s
             /\ pc' = [pc EXCEPT ![b] = "leaving"]
          \/ OfferItself(b, s, n)
  BY <1>3, <1>4, <1>5, <1>6, <1>10, Zenon DEF BackendFinish
<1>12. conn'[b] = <<>> /\ OtherConns(b, conn, conn')
  <2>1. conn'[b] = Tail(conn[b]) /\ \A x \in Backends \ {b} : conn'[x] = conn[x]
    BY <1>1, <1>11
  <2>2. PICK l \in Seq(Frontends) : l = conn[b]
    BY <1>1
  <2>3. Tail(conn[b]) = <<>>
    <3>1. l # <<>> /\ Len(l) <= 1
      BY <1>9, <2>2
    <3>2. Tail(l) = <<>>
      BY <3>1, OnlyOne
    <3>. QED
      BY <2>2, <3>2
  <2>. QED
    BY <2>1, <2>3 DEF OtherConns
<1>13. /\ pc' = [pc EXCEPT ![b] = "leaving"] \/ pc' = [pc EXCEPT ![b] = "arming"]
  BY <1>11 DEF OfferItself
<1>14. OwnStep(b)
  <2>1. mem'[b].group = mem[b].group /\ \A p \in Pids : p # b => mem'[p] = mem[p]
    BY <1>1, <1>11 DEF MemType
  <2>2. DOMAIN pc' = Pids /\ \A p \in Pids : p # b => pc'[p] = pc[p]
    BY <1>1, <1>13
  <2>. QED
    BY <1>12, <2>1, <2>2 DEF OwnStep
<1>15. CASE OfferItself(b, s, n)
  BY <1>1, <1>8, <1>9, <1>12, <1>14, <1>15, OfferSound
<1>16. CASE /\ file' = IF IsValid(s, g) THEN StartBe(s, Alive, b, g) ELSE s
            /\ pc' = [pc EXCEPT ![b] = "leaving"]
  <2>1. g \in Groups
    BY <1>1, <1>3, <1>8, OwnGroup
  <2>2. Sound(file', {}, pc, mem, conn)
    <3>1. CASE file' = s
      BY <1>8, <3>1
    <3>2. CASE file' = StartBe(s, Alive, b, g)
      BY <1>2, <1>8, <2>1, <3>2, StartBeSound
    <3>. QED
      BY <1>16, <3>1, <3>2
  <2>3. OthersStay({b}, pc, mem, pc', mem') /\ pc'[b] = "leaving" /\ mem'[b].group = mem[b].group
    BY <1>1, <1>14, <1>16 DEF OthersStay, OwnStep
  <2>. QED
    BY <1>1, <1>12, <2>2, <2>3, LeavesSound
<1>. QED
  BY <1>11, <1>15, <1>16

LEMMA ArmSound ==
  ASSUME IInv, NEW b \in Backends, BackendArm(b)
  PROVE  Sound(file', {}, pc', mem', conn')
<1>1. /\ Sound(file, {}, pc, mem, conn) /\ ProcsType /\ pc[b] = "arming" /\ DOMAIN pc = Pids /\ b \in Pids
      /\ b \notin Frontends /\ b \notin Parents
  BY KindsAssumption DEF IInv, BackendArm, ProcsType, Pids
<1>2. CASE pc' = [pc EXCEPT ![b] = "accept"] /\ file' = NoSigs(file, b) /\ mem' = mem /\ conn' = conn
  <2>1. pc'[b] = "accept" /\ OthersStay({b}, pc, mem, pc', mem)
    BY <1>1, <1>2 DEF OthersStay
  <2>2. Sound(file, {}, pc', mem, conn)
    BY <1>1, <2>1, AcceptsSound
  <2>. QED
    BY <1>2, <2>2, NoSigsSound
<1>3. CASE End(b, file, "killed")
  <2>1. "killed" \in Defunct /\ OthersStay({b}, pc, mem, pc, mem)
    BY DEF Defunct, OthersStay
  <2>. QED
    BY <1>1, <1>3, <2>1, EndSound
<1>. QED
  BY <1>2, <1>3, Zenon DEF BackendArm, NoSigs

LEMMA AcceptSound ==
  ASSUME IInv, NEW b \in Backends, BackendAccept(b)
  PROVE  Sound(file', {}, pc', mem', conn')
<1>1. Sound(file, {}, pc, mem, conn) /\ pc[b] = "accept" /\ DOMAIN pc = Pids /\ b \in Pids
  BY DEF IInv, BackendAccept, ProcsType, Pids
<1>2. /\ pc'[b] = "accepted" /\ OthersStay({b}, pc, mem, pc', mem) /\ conn[b] # <<>>
      /\ file' = file /\ mem' = mem /\ conn' = conn
  BY <1>1 DEF BackendAccept, OthersStay
<1>. QED
  BY <1>1, <1>2, AcceptsSound

LEMMA TermSound ==
  ASSUME IInv, NEW b \in Backends, BackendTerm(b) \/ BackendTimeout(b)
  PROVE  Sound(file', {}, pc', mem', conn')
<1>1. /\ Sound(file, {}, pc, mem, conn) /\ pc[b] = "accept" /\ DOMAIN pc = Pids /\ b \in Pids
      /\ pc[b] \notin Defunct \cup {"none"}
  BY DEF IInv, BackendTerm, BackendTimeout, ProcsType, Pids, Defunct
<1>2. /\ pc'[b] = "leaving" /\ OthersStay({b}, pc, mem, pc', mem) /\ mem' = mem /\ conn' = conn
      /\ OtherConns(b, conn, conn)
  BY <1>1 DEF BackendTerm, BackendTimeout, OthersStay, OtherConns
<1>3. Sound(file, {}, pc', mem, conn)
  BY <1>1, <1>2, LeavesSound
<1>4. file' = file \/ file' = NoSigs(file, b)
  BY DEF BackendTerm, BackendTimeout, NoSigs
<1>. QED
  BY <1>2, <1>3, <1>4, NoSigsSound

LEMMA BeginSound ==
  ASSUME IInv, NEW b \in Backends, BackendBegin(b)
  PROVE  Sound(file', {}, pc', mem', conn')
<1>1. /\ Sound(file, {}, pc, mem, conn) /\ ProcsType /\ pc[b] = "accepted" /\ DOMAIN pc = Pids /\ b \in Pids
      /\ pc[b] \notin Defunct \cup {"none"} /\ mem' = mem /\ conn' = conn
  BY DEF IInv, BackendBegin, ProcsType, Pids, Defunct
<1>2. PICK g : g = mem[b].group
  OBVIOUS
<1>3. g \in Groups
  BY <1>1, <1>2, OwnGroup
<1>4. PICK w : w = ClearStarting(file, g, b)
  OBVIOUS
<1>5. \/ file' = SendSigs(w, Alive, g) /\ pc' = [pc EXCEPT ![b] = "perl"]
      \/ file' = file /\ pc' = [pc EXCEPT ![b] = "leaving"]
  BY <1>2, <1>4 DEF BackendBegin
<1>6. CASE file' = SendSigs(w, Alive, g) /\ pc' = [pc EXCEPT ![b] = "perl"]
  <2>1. Sound(w, {}, pc, mem, conn) /\ \A h \in Groups : w.starting[h] # b
    BY <1>1, <1>2, <1>4, ClearStartingSound
  <2>2. LivingOK(Alive, pc)
    BY <1>1, AliveLives
  <2>3. Sound(file', {}, pc, mem, conn) /\ SameGroups(w, file')
    BY <1>3, <1>6, <2>1, <2>2, SendSigsSound
  <2>4. \A h \in Groups : file'.starting[h] # b
    BY <2>1, <2>3 DEF SameGroups
  <2>5. ConnOK(file'.fe_running, pc, conn) /\ StatusOK(file'.backend, pc, conn)
    BY <2>3 DEF Sound, FileInv, FileRest
  <2>6. /\ conn[b] \in Seq(Frontends) /\ Len(conn[b]) <= 1 /\ conn[b] # <<>>
        /\ file'.fe_running[b] # Nil
    BY <1>1, <2>5 DEF ConnOK
  <2>7. \A c \in Frontends : file'.backend[c] = b /\ pc[c] \in Active => c \in Range(conn[b])
    BY <1>1, <2>5, KindsAssumption DEF StatusOK, Pids, Defunct
  <2>8. mem[b].group \in Groups /\ b \in Range(file'.bes[mem[b].group])
    BY <1>1, <2>3, OwnGroup
  <2>9. pc'[b] = "perl" /\ OthersStay({b}, pc, mem, pc', mem) /\ OtherConns(b, conn, conn)
    BY <1>1, <1>6 DEF OthersStay, OtherConns
  <2>10. "perl" \notin {"none", "born"} \cup Defunct /\ "perl" # "born"
    BY DEF Defunct
  <2>11. BackendFits(b, file', pc, pc', mem, conn)
    BY <2>4, <2>6, <2>7, <2>8, <2>9, <2>10 DEF BackendFits
  <2>. QED
    BY <1>1, <2>3, <2>9, <2>11, BackendMoves
<1>7. CASE file' = file /\ pc' = [pc EXCEPT ![b] = "leaving"]
  <2>1. pc'[b] = "leaving" /\ OthersStay({b}, pc, mem, pc', mem) /\ OtherConns(b, conn, conn)
    BY <1>1, <1>7 DEF OthersStay, OtherConns
  <2>. QED
    BY <1>1, <1>7, <2>1, LeavesSound
<1>. QED
  BY <1>5, <1>6, <1>7

LEMMA ExitSound ==
  ASSUME IInv, NEW b \in Backends, BackendGivesUp(b) \/ BackendExit(b)
  PROVE  Sound(file', {}, pc', mem', conn')
<1>1. /\ Sound(file, {}, pc, mem, conn) /\ ProcsType /\ b \in Pids
      /\ b \notin Frontends /\ b \notin Parents
  BY KindsAssumption DEF IInv, Pids
<1>2. PICK how \in Defunct : End(b, file, how)
  BY DEF BackendGivesUp, BackendExit, Defunct
<1>3. OthersStay({b}, pc, mem, pc, mem)
  BY DEF OthersStay
<1>. QED
  BY <1>1, <1>2, <1>3, EndSound

-----------------------------------------------------------------------------
(* Backend parents                                                         *)

LEMMA CompilesSound ==
  ASSUME IInv, NEW m \in Parents, ParentStat(m) \/ ParentParse(m)
  PROVE  Sound(file', {}, pc', mem', conn')
<1>1. Sound(file, {}, pc, mem, conn) /\ DOMAIN pc = Pids /\ mem \in [Pids -> MemType] /\ m \in Pids
  BY DEF IInv, ProcsType, Pids
<1>2. /\ pc[m] \in Starting /\ pc'[m] \in Starting /\ OthersStay({m}, pc, mem, pc', mem')
      /\ file' = file /\ conn' = conn
  BY <1>1 DEF ParentStat, ParentParse, Starting, OthersStay
<1>3. "USR1" \notin file.sigs[m]
  BY <1>1, <1>2 DEF Sound, FileInv, FileRest, QuietOK
<1>4. pc'[m] \notin {"wait", "serve"} /\ pc[m] # "none"
  BY <1>2 DEF Starting
<1>. QED
  BY <1>1, <1>2, <1>3, <1>4, ParentMoves

LEMMA KilledSound ==
  ASSUME IInv, NEW m \in Parents, ParentKilled(m)
  PROVE  Sound(file', {}, pc', mem', conn')
<1>1. /\ Sound(file, {}, pc, mem, conn) /\ ProcsType /\ m \in Pids
      /\ m \notin Frontends /\ m \notin Backends
  BY KindsAssumption DEF IInv, Pids
<1>2. End(m, file, "none") /\ OthersStay({m}, pc, mem, pc, mem)
  BY DEF ParentKilled, OthersStay
<1>. QED
  BY <1>1, <1>2, EndSound

LEMMA CrashSound ==
  ASSUME IInv, NEW p \in Pids, Crash(p)
  PROVE  Sound(file', {}, pc', mem', conn')
<1>1. Sound(file, {}, pc, mem, conn) /\ ProcsType
  BY DEF IInv
<1>2. OthersStay({p}, pc, mem, pc, mem)
  BY DEF OthersStay
<1>3. CASE p \in Backends
  <2>1. p \notin Frontends /\ p \notin Parents /\ "killed" \in Defunct
    BY <1>3, KindsAssumption DEF Defunct
  <2>2. End(p, file, "killed")
    BY <1>3 DEF Crash
  <2>. QED
    BY <1>1, <1>2, <2>1, <2>2, EndSound
<1>4. CASE p \notin Backends
  <2>1. End(p, file, "none") /\ "none" \in Gone
    BY <1>4 DEF Crash, Gone
  <2>2. p \in Frontends => pc[p] # "leaving"
    BY <1>1 DEF ProcsType, FrontendPCs, Waiting
  <2>. QED
    BY <1>1, <1>2, <1>4, <2>1, <2>2, EndSound
<1>. QED
  BY <1>3, <1>4

\* Everything pending is taken, so nothing that asked for a backend is lost.
LEMMA ParentWakeSound ==
  ASSUME IInv, NEW m \in Parents, ParentWake(m)
  PROVE  Sound(file', {}, pc', mem', conn')
<1>1. /\ Sound(file, {}, pc, mem, conn) /\ DOMAIN pc = Pids /\ mem \in [Pids -> MemType] /\ m \in Pids
      /\ pc[m] = "wait" /\ "KILL" \notin file.sigs[m]
  BY DEF IInv, ProcsType, Pids, ParentWake, Doomed
<1>2. mem[m].got = {}
  BY <1>1 DEF IInv, ProcsType
<1>3. PICK x : (x = file.sigs[m] \/ x = file.sigs[m] \cup {"ALRM"}) /\ mem' = [mem EXCEPT ![m].got = x]
  BY DEF ParentWake
<1>4. /\ pc'[m] = "serve" /\ file' = NoSigs(file, m) /\ conn' = conn
      /\ mem'[m].group = mem[m].group /\ mem'[m].got = x
      /\ OthersStay({m}, pc, mem, pc', mem')
  BY <1>1, <1>3 DEF ParentWake, NoSigs, OthersStay, MemType
<1>5. "USR1" \in x <=> "USR1" \in file.sigs[m]
  BY <1>3
<1>6. /\ mem[m].group \in Groups /\ file.parent[mem[m].group] = m
  BY <1>1 DEF Sound, FileInv, FileRest, ParentsOwn
<1>7. \A g \in Groups : file.version[g] # 0 /\ file.parent[g] = m => mem[m].group = g
  BY <1>1 DEF Sound, StartInv, InstalledOK
<1>8. \A g \in Groups : file.version[g] # 0 /\ file.starting[g] = m => "USR1" \in file.sigs[m]
  BY <1>1, <1>2 DEF Sound, StartInv, AskedOK, Starting
<1>9. pc'[m] \notin Starting /\ pc'[m] \notin Starting \cup {"none"} /\ pc[m] # "none"
  BY <1>1, <1>4 DEF Starting
<1>10. Sound(file, {}, pc', mem', conn)
  BY <1>1, <1>4, <1>6, <1>7, <1>8, <1>9, ParentMoves
<1>11. file \in Files
  BY <1>1 DEF Sound, FileInv, FileRest
<1>12. /\ file' \in Files /\ SameButSigs(file, file')
       /\ \A q \in Pids : file'.sigs[q] = IF q = m THEN {} ELSE file.sigs[q]
  BY <1>1, <1>4, <1>11, NoSigsIs
<1>13. \A q \in Parents : file'.sigs[q] = IF q = m THEN {} ELSE file.sigs[q]
  BY <1>12 DEF Pids
<1>14. \A q \in Parents :
         /\ file'.sigs[q] \subseteq file.sigs[q]
         /\ "KILL" \in file.sigs[q] /\ "KILL" \notin file'.sigs[q] => pc'[q] = "none"
         /\ "USR1" \in file.sigs[q] /\ "USR1" \notin file'.sigs[q] => pc'[q] = "none" \/ "USR1" \in mem'[q].got
  BY <1>1, <1>4, <1>5, <1>13
<1>. QED
  BY <1>4, <1>10, <1>12, <1>14, FewerSigs

CheckedStarting(s, t, alive, g) ==
  /\ SameElse(s, t) /\ t.sigs = s.sigs
  /\ t.glist = s.glist /\ t.version = s.version /\ t.parent = s.parent
  /\ \A h \in Groups : t.starting[h] =
       IF h = g /\ s.starting[g] \notin alive THEN Nil ELSE s.starting[h]

LEMMA CheckStartingSound ==
  ASSUME NEW s, NEW P, NEW M, NEW C, NEW L, Sound(s, L, P, M, C), NEW alive, LivingOK(alive, P),
         NEW g \in Groups, NEW t, t = CheckStarting(s, alive, g)
  PROVE  Sound(t, L, P, M, C) /\ CheckedStarting(s, t, alive, g)
<1>1. FileRest(s, P, M, C)
  BY DEF Sound, FileInv
<1>2. FileRest(t, P, M, C) /\ CheckedStarting(s, t, alive, g)
  BY <1>1, CheckStartingInv DEF CheckedStarting
<1>3. Onward(s, t, P)
  BY <1>2 DEF CheckedStarting, Onward, SameElse, SameBackends
<1>. QED
  BY <1>2, <1>3, SameSound DEF CheckedStarting, SameElse

\* A pid that has come free, as far as the file knows.
Unused(s, b) ==
  b \in Backends => /\ \A h \in Groups : b \notin Range(s.bes[h]) /\ s.starting[h] # b
                    /\ s.fe_running[b] \notin Frontends

\* What start_child writes for the child b.
Created(s, g, b) == [CreateBackend(s, g, b) EXCEPT !.starting[g] = b]

IsCreated(s, t, g, b) ==
  /\ t \in Files /\ SameFrontends(s, t) /\ t.sigs = s.sigs
  /\ t.glist = s.glist /\ t.version = s.version /\ t.parent = s.parent
  /\ \A h \in Groups : /\ t.starting[h] = IF h = g THEN b ELSE s.starting[h]
                       /\ t.bes[h] = IF h = g THEN Append(s.bes[g], b) ELSE s.bes[h]
  /\ \A x \in Backends : /\ t.fe_running[x] = IF x = b THEN b ELSE s.fe_running[x]
                         /\ x # b => t.maturity[x] = s.maturity[x]

LEMMA CreatedIs ==
  ASSUME NEW s \in Files, NEW g \in Groups, NEW b \in Backends, NEW t, t = Created(s, g, b)
  PROVE  IsCreated(s, t, g, b)
<1>1. PICK B : B = [s.bes EXCEPT ![g] = Append(s.bes[g], b)]
  OBVIOUS
<1>2. PICK F : F = [s.fe_running EXCEPT ![b] = b]
  OBVIOUS
<1>3. PICK N : N = [s.maturity EXCEPT ![b] = 0]
  OBVIOUS
<1>4. PICK S : S = [s.starting EXCEPT ![g] = b]
  OBVIOUS
<1>5. /\ B \in [Groups -> Seq(Backends)]
      /\ \A h \in Groups : B[h] = IF h = g THEN Append(s.bes[g], b) ELSE s.bes[h]
  BY <1>1 DEF Files
<1>6. /\ F \in [Backends -> Frontends \cup Backends \cup {Nil}]
      /\ \A x \in Backends : F[x] = IF x = b THEN b ELSE s.fe_running[x]
  BY <1>2 DEF Files
<1>7. /\ N \in [Backends -> Nat]
      /\ \A x \in Backends : x # b => N[x] = s.maturity[x]
  BY <1>3 DEF Files
<1>8. /\ S \in [Groups -> Backends \cup Parents \cup {Nil}]
      /\ \A h \in Groups : S[h] = IF h = g THEN b ELSE s.starting[h]
  BY <1>4 DEF Files
<1>9. t = [s EXCEPT !.bes = B, !.fe_running = F, !.maturity = N, !.starting = S]
  <2>1. t = [s EXCEPT !.bes = [s.bes EXCEPT ![g] = Append(s.bes[g], b)],
                      !.fe_running = [s.fe_running EXCEPT ![b] = b],
                      !.maturity = [s.maturity EXCEPT ![b] = 0],
                      !.starting = [s.starting EXCEPT ![g] = b]]
    BY DEF Created, CreateBackend, Files
  <2>. QED
    BY <1>1, <1>2, <1>3, <1>4, <2>1, Zenon
<1>10. /\ t \in Files /\ t.sigs = s.sigs
       /\ t.run = s.run /\ t.fes = s.fes /\ t.backend = s.backend /\ t.sent_sig = s.sent_sig
       /\ t.glist = s.glist /\ t.version = s.version /\ t.parent = s.parent
       /\ t.bes = B /\ t.fe_running = F /\ t.maturity = N /\ t.starting = S
  <2>1. t \in Files
    <3>1. PICK u \in Files : u = [s EXCEPT !.bes = B]
      BY <1>5 DEF Files
    <3>2. PICK v \in Files : v = [u EXCEPT !.fe_running = F]
      BY <1>6 DEF Files
    <3>3. PICK w \in Files : w = [v EXCEPT !.maturity = N]
      BY <1>7 DEF Files
    <3>4. PICK x \in Files : x = [w EXCEPT !.starting = S]
      BY <1>8 DEF Files
    <3>. QED
      BY <1>9, <3>1, <3>2, <3>3, <3>4
  <2>2. /\ t.sigs = s.sigs /\ t.run = s.run /\ t.fes = s.fes /\ t.backend = s.backend
        /\ t.sent_sig = s.sent_sig
        /\ t.glist = s.glist /\ t.version = s.version /\ t.parent = s.parent
        /\ t.bes = B /\ t.fe_running = F /\ t.maturity = N /\ t.starting = S
    BY <1>9 DEF Files
  <2>. QED
    BY <2>1, <2>2
<1>. QED
  BY <1>5, <1>6, <1>7, <1>8, <1>10 DEF IsCreated, SameFrontends

\* A child that start_child has made a slot for.
Offered(s, g, b) ==
  b \in Backends => /\ b \in Range(s.bes[g]) /\ s.fe_running[b] = b
                    /\ \A h \in Groups : s.starting[h] = b => h = g

LEMMA CreatedRest ==
  ASSUME NEW s, NEW P, NEW M, NEW C, FileRest(s, P, M, C), NEW b \in Backends,
         P[b] = "none", Unused(s, b), NEW g \in Groups, s.parent[g] \in Parents,
         P[s.parent[g]] \notin Starting,
         NEW t, t = Created(s, g, b)
  PROVE  /\ FileRest(t, P, M, C) /\ IsCreated(s, t, g, b) /\ Offered(t, g, b)
         /\ Range(t.bes[g]) = Range(s.bes[g]) \cup {b}
         /\ \A x, y : InOrder(t.bes[g], x, y) <=>
              InOrder(s.bes[g], x, y) \/ (x \in Range(s.bes[g]) /\ y = b)
<1>1. s \in Files
  BY DEF FileRest
<1>2. IsCreated(s, t, g, b)
  BY <1>1, CreatedIs
<1>3. /\ t \in Files /\ SameFrontends(s, t) /\ t.sigs = s.sigs
      /\ t.glist = s.glist /\ t.version = s.version /\ t.parent = s.parent
      /\ \A h \in Groups : /\ t.starting[h] = IF h = g THEN b ELSE s.starting[h]
                           /\ t.bes[h] = IF h = g THEN Append(s.bes[g], b) ELSE s.bes[h]
      /\ \A x \in Backends : t.fe_running[x] = IF x = b THEN b ELSE s.fe_running[x]
  BY <1>2 DEF IsCreated
<1>4. PICK l0 : l0 = s.bes[g]
  OBVIOUS
<1>5. l0 \in Seq(Backends)
  BY <1>1, <1>4 DEF Files
<1>6. PICK l : l = Append(l0, b)
  OBVIOUS
<1>7. /\ l \in Seq(Backends) /\ Range(l) = Range(l0) \cup {b}
      /\ \A x, y : InOrder(l, x, y) <=> InOrder(l0, x, y) \/ (x \in Range(l0) /\ y = b)
  BY <1>5, <1>6, Appended
<1>8. t.bes[g] = l /\ \A h \in Groups : h # g => t.bes[h] = s.bes[h]
  BY <1>3, <1>4, <1>6
<1>9. /\ \A h \in Groups : b \notin Range(s.bes[h]) /\ s.starting[h] # b
      /\ s.fe_running[b] \notin Frontends
  BY DEF Unused
<1>10. /\ Nil \notin Frontends /\ Nil \notin Backends /\ b \notin Frontends /\ b \notin Parents
       /\ Nil \notin Parents
  BY KindsAssumption DEF Pids
<1>11. SelfOK(t.fe_running)
  BY <1>3 DEF FileRest, SelfOK
<1>12. OnceOK(t.glist, t.run, t.bes, t.fes)
  <2>1. IsInjective(l0)
    BY <1>4 DEF FileRest, OnceOK
  <2>2. \A x : ~InOrder(l0, x, x)
    BY <1>5, <2>1, OnceMeans
  <2>3. IsInjective(l)
    BY <1>4, <1>7, <1>9, <2>2, OnceMeans
  <2>. QED
    BY <1>3, <1>8, <2>3 DEF FileRest, OnceOK, SameFrontends
<1>13. ApartOK(t.run, t.bes, t.fes)
  <2>1. ApartOK(s.run, s.bes, s.fes)
    BY DEF FileRest
  <2>2. \A h, k \in Groups : h # k => Range(s.bes[h]) \cap Range(s.bes[k]) = {}
    BY <2>1 DEF ApartOK
  <2>3. \A h, k \in Groups : h # k => Range(t.bes[h]) \cap Range(t.bes[k]) = {}
    BY <1>4, <1>7, <1>8, <1>9, <2>2
  <2>. QED
    BY <1>3, <2>1, <2>3 DEF ApartOK, SameFrontends
<1>14. g \in Range(s.glist)
  BY <1>10 DEF FileRest, FreeOK
<1>15. FreeOK(t.glist, t.version, t.starting, t.parent, t.bes, t.fes)
  BY <1>3, <1>14 DEF FileRest, FreeOK, SameFrontends
<1>16. BackendsOwn(t.bes, P, M)
  <2>1. \A h \in Groups : Range(s.bes[h]) \subseteq Range(t.bes[h])
    BY <1>4, <1>7, <1>8
  <2>. QED
    BY <2>1 DEF FileRest, BackendsOwn
<1>17. PairOK(t.run, t.fe_running, t.backend)
  <2>1. PairOK(s.run, s.fe_running, s.backend)
    BY DEF FileRest
  <2>2. \A c \in Frontends : t.backend[c] = s.backend[c] /\ s.backend[c] \in Backends \cup {Nil}
    BY <1>1, <1>3 DEF SameFrontends, Files
  <2>3. \A c \in Frontends : s.backend[c] # b
    BY <1>9, <1>10, <2>1 DEF PairOK
  <2>4. ASSUME NEW c \in Frontends, t.backend[c] # Nil PROVE t.fe_running[t.backend[c]] = c
    BY <1>3, <2>1, <2>2, <2>3, <2>4 DEF PairOK
  <2>5. ASSUME NEW y \in Backends, t.fe_running[y] \in Frontends
        PROVE  t.fe_running[y] \in Range(t.run) /\ t.backend[t.fe_running[y]] = y
    BY <1>3, <1>10, <2>1, <2>5 DEF PairOK, SameFrontends
  <2>. QED
    BY <2>4, <2>5 DEF PairOK
<1>18. ConnOK(t.fe_running, P, C)
  BY <1>3, <1>10 DEF FileRest, ConnOK
<1>19. StartsUpOK(t.starting, t.parent, P)
  BY <1>3 DEF FileRest, StartsUpOK
<1>20. FileRest(t, P, M, C)
  BY <1>3, <1>11, <1>12, <1>13, <1>15, <1>16, <1>17, <1>18, <1>19 DEF FileRest, SameFrontends
<1>21. Offered(t, g, b)
  BY <1>3, <1>7, <1>8, <1>9 DEF Offered
<1>. QED
  BY <1>2, <1>4, <1>7, <1>8, <1>20, <1>21

LEMMA CreateSound ==
  ASSUME NEW s, NEW P, NEW M, NEW C, NEW L, Sound(s, L, P, M, C), NEW b \in Backends,
         P[b] = "none", Unused(s, b), NEW g \in Groups, s.parent[g] \in Parents,
         P[s.parent[g]] \notin Starting, BelowMaxBackends(s, g),
         NEW t, t = Created(s, g, b)
  PROVE  Sound(t, L, P, M, C) /\ IsCreated(s, t, g, b) /\ Offered(t, g, b)
<1>1. FileRest(s, P, M, C) /\ s \in Files /\ StartInv(s, P, M, C)
  BY DEF Sound, FileInv, FileRest
<1>2. /\ FileRest(t, P, M, C) /\ IsCreated(s, t, g, b) /\ Offered(t, g, b)
      /\ Range(t.bes[g]) = Range(s.bes[g]) \cup {b}
      /\ \A x, y : InOrder(t.bes[g], x, y) <=>
           InOrder(s.bes[g], x, y) \/ (x \in Range(s.bes[g]) /\ y = b)
  BY <1>1, CreatedRest
<1>3. /\ t.version = s.version /\ t.parent = s.parent /\ t.sigs = s.sigs
      /\ \A h \in Groups : /\ t.starting[h] = IF h = g THEN b ELSE s.starting[h]
                           /\ h # g => t.bes[h] = s.bes[h]
      /\ \A x \in Backends : /\ t.fe_running[x] = IF x = b THEN b ELSE s.fe_running[x]
                             /\ x # b => t.maturity[x] = s.maturity[x]
  BY <1>2 DEF IsCreated
<1>4. /\ \A h \in Groups : b \notin Range(s.bes[h])
      /\ b # Nil /\ b \notin Parents /\ Nil \notin Parents
  BY KindsAssumption DEF Unused, Pids
<1>5. WaitingOK(t.bes, t.fe_running, t.maturity, L)
  <2>1. SUFFICES ASSUME NEW h \in Groups, NEW x \in Backends, NEW y \in Backends,
                        InOrder(t.bes[h], x, y), t.fe_running[y] = Nil, y \notin L
                 PROVE  t.fe_running[x] = Nil /\ t.maturity[x] >= t.maturity[y]
    BY DEF WaitingOK
  <2>2. y # b /\ s.fe_running[y] = Nil
    BY <1>3, <1>4, <2>1
  <2>3. InOrder(s.bes[h], x, y)
    BY <1>2, <1>3, <2>1, <2>2
  <2>4. s.fe_running[x] = Nil /\ s.maturity[x] >= s.maturity[y]
    BY <2>1, <2>2, <2>3 DEF Sound, FileInv, WaitingOK
  <2>5. x # b
    <3>1. s.bes[h] \in Seq(Backends)
      BY <1>1 DEF Files
    <3>. QED
      BY <1>4, <2>3, <3>1, ElementsOf
  <2>. QED
    BY <1>3, <2>2, <2>4, <2>5
<1>6. FullOK(t.bes)
  <2>1. s.bes[g] \in Seq(Backends) /\ IsInjective(s.bes[g])
    BY <1>1 DEF Files, FileRest, OnceOK
  <2>2. IsFiniteSet(Range(s.bes[g])) /\ Cardinality(Range(s.bes[g])) = Len(s.bes[g])
    BY <2>1, CountIs
  <2>3. Cardinality(Range(s.bes[g]) \cup {b}) = Len(s.bes[g]) + 1
    BY <1>4, <2>2, FS_AddElement
  <2>4. Len(s.bes[g]) \in Nat /\ MaxBackends \in Nat
    BY <2>1, BoundsAssumption
  <2>5. MaxBackends # 0 => Len(s.bes[g]) + 1 <= MaxBackends
    BY <2>4 DEF BelowMaxBackends
  <2>6. MaxBackends # 0 => Cardinality(Range(t.bes[g])) <= MaxBackends
    BY <1>2, <2>3, <2>5
  <2>. QED
    BY <1>1, <1>3, <2>6 DEF StartInv, FullOK
<1>7. NamedOK(t.starting, t.parent, P)
  BY <1>1, <1>3, <1>4 DEF StartInv, NamedOK
<1>8. AskedOK(t.version, t.starting, t.bes, t.sigs, P, M)
  BY <1>1, <1>3, <1>4 DEF StartInv, AskedOK
<1>9. NewOK(t.version, t.parent, t.bes)
  BY <1>1, <1>3, <1>4 DEF StartInv, NewOK
<1>10. ComesOK(t.starting, t.bes, P, C)
  BY <1>1, <1>3 DEF StartInv, ComesOK
<1>11. StartInv(t, P, M, C)
  BY <1>1, <1>3, <1>6, <1>7, <1>8, <1>9, <1>10 DEF StartInv
<1>. QED
  BY <1>2, <1>5, <1>11 DEF Sound, FileInv

\* start_child left no request for a backend of group g that m is to start.
Answered(t, g, m) ==
  t.version[g] # 0 /\ t.starting[g] = m => "KILL" \in t.sigs[m]

SameForStart(s, t) ==
  t.glist = s.glist /\ t.version = s.version /\ t.parent = s.parent /\ t.sigs = s.sigs

LEMMA StartChildSound ==
  ASSUME NEW s, NEW P, NEW M, NEW C, NEW L, Sound(s, L, P, M, C), NEW alive, LivingOK(alive, P),
         NEW m \in Parents, P[m] \in {"wait", "serve"}, NEW g \in Groups, s.parent[g] = m,
         NEW b \in Backends \cup {Nil},
         b \in Backends => P[b] = "none" /\ Unused(s, b) /\ WillFork(s, alive, m, g),
         NEW t, t = StartChild(s, alive, m, g, b)
  PROVE  /\ Sound(t, L, P, M, C) /\ Offered(t, g, b) /\ SameForStart(s, t) /\ Answered(t, g, m)
<1>1. /\ Nil \notin Backends /\ Nil \notin Parents /\ \A x \in Backends : x \notin Parents
      /\ P[m] \notin Starting
  BY KindsAssumption DEF Pids, Starting
<1>2. PICK u : u = CheckStarting(s, alive, g)
  OBVIOUS
<1>3. Sound(u, L, P, M, C) /\ CheckedStarting(s, u, alive, g)
  BY <1>2, CheckStartingSound
<1>4. /\ SameElse(s, u) /\ u.sigs = s.sigs
      /\ u.glist = s.glist /\ u.version = s.version /\ u.parent = s.parent
      /\ \A h \in Groups : u.starting[h] =
           IF h = g /\ s.starting[g] \notin alive THEN Nil ELSE s.starting[h]
  BY <1>3 DEF CheckedStarting
<1>5. CASE ~WillFork(s, alive, m, g)
  <2>1. t = u
    BY <1>2, <1>5 DEF StartChild
  <2>2. b \notin Backends
    BY <1>5
  <2>3. SUFFICES ASSUME t.version[g] # 0, t.starting[g] = m, "KILL" \notin t.sigs[m] PROVE FALSE
    BY <1>3, <1>4, <2>1, <2>2 DEF SameForStart, Offered, Answered
  <2>4. s.starting[g] = m /\ s.version[g] # 0 /\ "KILL" \notin s.sigs[m]
    BY <1>1, <1>4, <2>1, <2>3
  <2>5. AskedOK(s.version, s.starting, s.bes, s.sigs, P, M)
    BY DEF Sound, StartInv
  <2>6. MaxBackends = 0 \/ Cardinality(Range(s.bes[g])) < MaxBackends
    BY <2>4, <2>5 DEF AskedOK
  <2>7. s.bes[g] \in Seq(Backends) /\ IsInjective(s.bes[g])
    BY DEF Sound, FileInv, FileRest, Files, OnceOK
  <2>8. Cardinality(Range(s.bes[g])) = Len(s.bes[g])
    BY <2>7, CountIs
  <2>. QED
    BY <1>5, <2>4, <2>6, <2>8 DEF WillFork, BelowMaxBackends
<1>6. CASE WillFork(s, alive, m, g) /\ b = Nil
  <2>1. PICK x \in Backends \cup Parents \cup {Nil} : x = Nil
    OBVIOUS
  <2>2. t = SetStarting(u, g, x)
    BY <1>2, <1>6, <2>1 DEF StartChild, SetStarting
  <2>3. FileRest(u, P, M, C) /\ P[u.parent[g]] \notin Starting
    BY <1>1, <1>3, <1>4 DEF Sound, FileInv
  <2>4. /\ FileRest(t, P, M, C) /\ SameElse(u, t) /\ t.sigs = u.sigs
        /\ t.glist = u.glist /\ t.version = u.version /\ t.parent = u.parent
        /\ \A h \in Groups : t.starting[h] = IF h = g THEN x ELSE u.starting[h]
    BY <2>1, <2>2, <2>3, StartingInv
  <2>5. Onward(u, t, P)
    BY <2>1, <2>4 DEF Onward, SameElse, SameBackends
  <2>6. Sound(t, L, P, M, C)
    BY <1>3, <2>4, <2>5, SameSound DEF SameElse
  <2>7. t.starting[g] # m
    BY <1>1, <2>1, <2>4
  <2>. QED
    BY <1>1, <1>4, <1>6, <2>4, <2>6, <2>7 DEF SameForStart, Offered, Answered
<1>7. CASE WillFork(s, alive, m, g) /\ b \in Backends
  <2>1. t = Created(u, g, b)
    BY <1>1, <1>2, <1>7 DEF StartChild, Created
  <2>2. P[b] = "none" /\ Unused(s, b)
    BY <1>7
  <2>3. u.bes = s.bes /\ u.fe_running = s.fe_running
    BY <1>4 DEF SameElse, SameBackends
  <2>4. Unused(u, b)
    BY <1>1, <1>4, <2>2, <2>3 DEF Unused
  <2>5. BelowMaxBackends(u, g)
    BY <1>7, <2>3 DEF WillFork, BelowMaxBackends
  <2>6. u.parent[g] \in Parents /\ P[u.parent[g]] \notin Starting
    BY <1>1, <1>4
  <2>7. Sound(t, L, P, M, C) /\ IsCreated(u, t, g, b) /\ Offered(t, g, b)
    BY <1>3, <1>7, <2>1, <2>2, <2>4, <2>5, <2>6, CreateSound
  <2>8. SameForStart(u, t) /\ t.starting[g] = b
    BY <2>7 DEF IsCreated, SameForStart
  <2>9. t.starting[g] # m
    BY <1>1, <1>7, <2>8
  <2>. QED
    BY <1>4, <2>7, <2>8, <2>9 DEF SameForStart, Answered
<1>. QED
  BY <1>5, <1>6, <1>7

\* The dead children of m are buried, one group's at a time.
LEMMA CollectChildSound ==
  ASSUME NEW s, NEW P, NEW M, NEW C, NEW L, Sound(s, L, P, M, C), NEW alive, LivingOK(alive, P),
         NEW me, NEW g \in Groups, NEW dead \in SUBSET Backends, \A b \in dead : P[b] \in Defunct,
         NEW t, t = CollectChild(s, alive, me, g, dead, P)
  PROVE  /\ Sound(t, L, P, M, C) /\ SameGroups(s, t)
         /\ \A b : Unused(s, b) => Unused(t, b)
<1>1. PICK D \in SUBSET Backends : D = dead \cap Range(s.bes[g])
  OBVIOUS
<1>2. PICK u : u = BackendExited(s, alive, me, D, P)
  OBVIOUS
<1>3. \A b \in D : P[b] \in {"none", "script", "exited", "killed"} /\ P[b] \in {"none"} \cup Defunct
  BY <1>1 DEF Defunct
<1>4. Sound(u, L, P, M, C) /\ HaveExited(s, u, D)
  BY <1>2, <1>3, BackendExitedSound
<1>5. t = DisposeBackend(u, alive, me, g, D)
  BY <1>1, <1>2 DEF CollectChild
<1>6. D \subseteq Range(u.bes[g])
  BY <1>1, <1>4 DEF HaveExited
<1>7. Sound(t, L, P, M, C) /\ WithoutMembers(u, t, g, D)
  BY <1>3, <1>4, <1>5, <1>6, DisposeBackendSound
<1>8. SameGroups(s, t)
  BY <1>4, <1>5, <1>6, <1>3, DisposeBackendSound DEF HaveExited, SameGroups
<1>9. RunsOnOrEnds(s, u, {}) /\ RunsOnOrEnds(u, t, D) /\ u.bes = s.bes
  BY <1>3, <1>4, <1>5, <1>6, DisposeBackendSound DEF HaveExited
<1>10. \A h \in Groups : Range(t.bes[h]) \subseteq Range(s.bes[h])
  BY <1>7, <1>9 DEF WithoutMembers
<1>11. ASSUME NEW b \in Backends, Unused(s, b) PROVE Unused(t, b)
  <2>1. \A h \in Groups : b \notin Range(s.bes[h]) /\ s.starting[h] # b
    BY <1>11 DEF Unused
  <2>2. b \notin D /\ b \notin Frontends
    BY <1>1, <2>1, KindsAssumption
  <2>3. t.fe_running[b] \in {s.fe_running[b], b}
    BY <1>9, <2>2 DEF RunsOnOrEnds
  <2>4. t.fe_running[b] \notin Frontends
    BY <1>11, <2>2, <2>3 DEF Unused
  <2>. QED
    BY <1>8, <1>10, <2>1, <2>4 DEF Unused, SameGroups
<1>12. \A b : Unused(s, b) => Unused(t, b)
  BY <1>11 DEF Unused
<1>. QED
  BY <1>7, <1>8, <1>12

LEMMA PrevGroupIs ==
  ASSUME NEW s \in Files, NEW g \in Groups, g \in Range(s.glist)
  PROVE  PrevGroup(s, g) \in Groups
<1>1. s.glist \in Seq(Groups)
  BY DEF Files
<1>2. PICK i \in 1 .. Len(s.glist) : s.glist[i] = g
  BY <1>1, ElementsOf
<1>3. Len(s.glist) \in Nat /\ Len(s.glist) > 0 /\ DOMAIN s.glist = 1 .. Len(s.glist)
  BY <1>1, <1>2
<1>4. CASE g = Head(s.glist)
  <2>1. Last(s.glist) = s.glist[Len(s.glist)] /\ Len(s.glist) \in 1 .. Len(s.glist)
    BY <1>3 DEF Last
  <2>. QED
    BY <1>1, <1>4, <2>1, ElementsOf DEF PrevGroup
<1>5. CASE g # Head(s.glist)
  <2>1. PICK n : n = Position(s.glist, g)
    OBVIOUS
  <2>2. n \in DOMAIN s.glist /\ s.glist[n] = g
    BY <1>2, <1>3, <2>1 DEF Position
  <2>3. n # 1
    BY <1>1, <1>3, <1>5, <2>2
  <2>4. n - 1 \in 1 .. Len(s.glist)
    BY <1>3, <2>2, <2>3
  <2>. QED
    BY <1>1, <1>5, <2>1, <2>4, ElementsOf DEF PrevGroup
<1>. QED
  BY <1>4, <1>5

\* The group in front is looked after.  What m has in its own group stays.
LEMMA DoCleanupSound ==
  ASSUME NEW s, NEW P, NEW M, NEW C, NEW L, Sound(s, L, P, M, C), NEW alive, LivingOK(alive, P),
         NEW m \in Parents, NEW g \in Groups, M[m].group = g, g \in Range(s.glist),
         NEW t, t = DoCleanup(s, alive, m, g)
  PROVE  /\ Sound(t, L, P, M, C) /\ Onward(s, t, P)
         /\ \A h \in Groups : t.starting[h] \in {Nil, s.starting[h]}
         /\ \A b : Offered(s, g, b) => Offered(t, g, b)
<1>1. FileRest(s, P, M, C) /\ s \in Files
  BY DEF Sound, FileInv, FileRest
<1>2. PICK h \in Groups : h = PrevGroup(s, g)
  BY <1>1, PrevGroupIs
<1>3. CASE h = g \/ ParentThere(s, alive, h)
  <2>1. t = s
    BY <1>2, <1>3 DEF DoCleanup
  <2>. QED
    BY <2>1, OnwardSame DEF SameGroups
<1>4. CASE ~(h = g \/ ParentThere(s, alive, h))
  <2>1. PICK sig \in {"0", "USR1"} : sig = "0"
    OBVIOUS
  <2>2. PICK u : u = ParentSig(s, alive, m, h, sig)
    OBVIOUS
  <2>3. /\ FileRest(u, P, M, C) /\ SameElse(s, u) /\ u.starting = s.starting
        /\ \A p \in Parents : u.sigs[p] \in {s.sigs[p], s.sigs[p] \cup {"USR1"}}
        /\ \A k \in Groups :
             /\ u.version[k] = IF k = h /\ s.parent[h] \notin alive THEN 0 ELSE s.version[k]
             /\ u.parent[k] = IF k = h /\ s.parent[h] \notin alive THEN Nil ELSE s.parent[k]
    BY <1>1, <2>1, <2>2, ParentSigInv
  <2>4. s.parent[h] \in Parents => P[s.parent[h]] = "none"
    BY <1>4 DEF LivingOK, ParentThere
  <2>5. PICK G \in SUBSET Groups : G = {h}
    OBVIOUS
  <2>6. PICK v : v = Invalidate(u, alive, m, G)
    OBVIOUS
  <2>7. u \in Files
    BY <2>3 DEF FileRest
  <2>8. FileRest(v, P, M, C)
    BY <2>3, <2>6, InvalidateInv
  <2>9. /\ SameElse(u, v) /\ v.starting = u.starting /\ v.parent = u.parent
        /\ SameForParents(u, v)
        /\ \A k \in Groups : v.version[k] = IF k \in G THEN 0 ELSE u.version[k]
    BY <2>6, <2>7, InvalidateIs
  <2>10. SameElse(s, v) /\ v.bes = s.bes /\ v.fe_running = s.fe_running
    BY <2>3, <2>9 DEF SameElse, SameBackends, SameFrontends
  <2>11. Onward(s, v, P)
    BY <1>4, <2>3, <2>4, <2>5, <2>9, <2>10 DEF Onward, SameForParents, ParentThere
  <2>12. Sound(v, L, P, M, C)
    BY <2>8, <2>10, <2>11, SameSound DEF SameElse
  <2>13. PICK dead : dead = Range(s.bes[h]) \ alive
    OBVIOUS
  <2>14. dead \subseteq Range(v.bes[h])
    BY <2>10, <2>13
  <2>15. \A b \in dead : P[b] \in {"none"} \cup Defunct
    <3>1. s.bes[h] \in Seq(Backends)
      BY <1>1 DEF Files
    <3>2. Range(s.bes[h]) \subseteq Backends
      BY <3>1, ElementsOf
    <3>. QED
      BY <2>13, <3>2 DEF LivingOK
  <2>16. PICK w : w = DisposeBackend(v, alive, m, h, dead)
    OBVIOUS
  <2>17. /\ Sound(w, L, P, M, C) /\ SameGroups(v, w) /\ Onward(v, w, P)
         /\ RunsOnOrEnds(v, w, dead) /\ WithoutMembers(v, w, h, dead)
    BY <2>12, <2>14, <2>15, <2>16, DisposeBackendSound
  <2>18. t = Cleanup(w, alive, m, G)
    BY <1>2, <1>4, <2>1, <2>2, <2>5, <2>6, <2>13, <2>16 DEF DoCleanup
  <2>19. M[m].group \notin Emptied(w, G)
    BY <1>4, <2>5 DEF Emptied
  <2>20. /\ Sound(t, L, P, M, C) /\ SameElse(w, t) /\ Onward(w, t, P)
         /\ \A k \in Groups : t.starting[k] \in {Nil, w.starting[k]}
    BY <2>17, <2>18, <2>19, CleanupSound
  <2>21. Onward(s, t, P)
    BY <2>11, <2>17, <2>20, OnwardOn
  <2>22. \A k \in Groups : t.starting[k] \in {Nil, s.starting[k]}
    BY <2>3, <2>9, <2>17, <2>20 DEF SameGroups
  <2>23. ASSUME NEW b \in Backends, Offered(s, g, b) PROVE Offered(t, g, b)
    <3>1. b \in Range(s.bes[g]) /\ s.fe_running[b] = b
      BY <2>23 DEF Offered
    <3>2. b \notin dead
      BY <1>1, <1>4, <2>13, <3>1 DEF FileRest, ApartOK
    <3>3. t.bes = w.bes /\ t.fe_running = w.fe_running
      BY <2>20 DEF SameElse, SameBackends
    <3>4. w.bes[g] = s.bes[g]
      BY <1>4, <2>10, <2>17 DEF WithoutMembers
    <3>5. w.fe_running[b] = b
      BY <2>10, <2>17, <3>1, <3>2 DEF RunsOnOrEnds
    <3>6. b # Nil
      BY KindsAssumption DEF Pids
    <3>. QED
      BY <2>22, <2>23, <3>1, <3>3, <3>4, <3>5, <3>6 DEF Offered
  <2>. QED
    BY <2>20, <2>21, <2>22, <2>23 DEF Offered
<1>. QED
  BY <1>3, <1>4

\* m becomes the parent of group g, that has no other.  Until start_child is
\* done it counts as having been asked for a backend.
SetParent(s, g, m) == [s EXCEPT !.parent[g] = m]

LEMMA SetParentIs ==
  ASSUME NEW s \in Files, NEW g \in Groups, NEW m \in Parents, NEW t, t = SetParent(s, g, m)
  PROVE  /\ t \in Files /\ SameElse(s, t) /\ t.sigs = s.sigs
         /\ t.glist = s.glist /\ t.version = s.version /\ t.starting = s.starting
         /\ \A h \in Groups : t.parent[h] = IF h = g THEN m ELSE s.parent[h]
<1>1. PICK Q : Q = [s.parent EXCEPT ![g] = m]
  OBVIOUS
<1>2. /\ Q \in [Groups -> Parents \cup {Nil}]
      /\ \A h \in Groups : Q[h] = IF h = g THEN m ELSE s.parent[h]
  BY <1>1 DEF Files
<1>3. t = [s EXCEPT !.parent = Q]
  BY <1>1 DEF SetParent, Files
<1>4. /\ t \in Files /\ SameElse(s, t) /\ t.sigs = s.sigs
      /\ t.glist = s.glist /\ t.version = s.version /\ t.starting = s.starting /\ t.parent = Q
  BY <1>2, <1>3 DEF Files, SameElse, SameBackends, SameFrontends
<1>. QED
  BY <1>2, <1>4

LEMMA InstallSound ==
  ASSUME NEW s, NEW P, NEW M, NEW C, NEW L, Sound(s, L, P, M, C), NEW m \in Parents, P[m] \in Starting,
         NEW g \in Groups, g \in Range(s.glist), s.parent[g] \in {Nil, m},
         \A h \in Groups : h # g => s.version[h] = 0,
         NEW P2, NEW M2, OthersStay({m}, P, M, P2, M2), P2[m] = "serve",
         M2[m].group = g, "USR1" \in M2[m].got,
         NEW t, t = SetParent(s, g, m)
  PROVE  /\ Sound(t, L, P2, M2, C) /\ SameElse(s, t) /\ t.sigs = s.sigs
         /\ t.starting = s.starting /\ t.version = s.version /\ t.parent[g] = m
<1>1. FileRest(s, P, M, C) /\ s \in Files /\ StartInv(s, P, M, C)
  BY DEF Sound, FileInv, FileRest
<1>2. /\ t \in Files /\ SameElse(s, t) /\ t.sigs = s.sigs
      /\ t.glist = s.glist /\ t.version = s.version /\ t.starting = s.starting
      /\ \A h \in Groups : t.parent[h] = IF h = g THEN m ELSE s.parent[h]
  BY <1>1, SetParentIs
<1>3. /\ \A x \in Backends : P2[x] = P[x] /\ M2[x] = M[x]
      /\ \A x \in Frontends : P2[x] = P[x] /\ M2[x] = M[x]
      /\ \A x \in Parents : x # m => P2[x] = P[x] /\ M2[x] = M[x]
      /\ P2[m] \notin Starting \cup {"none"} /\ P[m] # "none" /\ m # Nil /\ Nil \notin Parents
  BY KindsAssumption DEF OthersStay, Pids, Starting
<1>4. s.backend \in [Frontends -> Backends \cup {Nil}]
  BY <1>1 DEF Files
<1>5. FreeOK(t.glist, t.version, t.starting, t.parent, t.bes, t.fes)
  BY <1>1, <1>2 DEF FileRest, FreeOK, SameElse, SameBackends, SameFrontends
<1>6. BackendsOwn(s.bes, P2, M2)
  BY <1>1, <1>3 DEF FileRest, BackendsOwn
<1>7. QueueOwn(s.fes, P2, M2)
  BY <1>1, <1>3 DEF FileRest, QueueOwn
<1>8. RunOwn(s.run, s.backend, P2)
  BY <1>1, <1>3 DEF FileRest, RunOwn
<1>9. ParentsOwn(t.parent, t.sigs, P2, M2)
  <2>1. ASSUME NEW p \in Parents, P2[p] \in {"wait", "serve"}, "KILL" \notin t.sigs[p]
        PROVE  M2[p].group \in Groups /\ t.parent[M2[p].group] = p
    <3>1. CASE p = m
      BY <1>2, <3>1
    <3>2. CASE p # m
      <4>1. M[p].group \in Groups /\ s.parent[M[p].group] = p
        BY <1>1, <1>2, <1>3, <2>1, <3>2 DEF FileRest, ParentsOwn
      <4>. QED
        BY <1>2, <1>3, <3>2, <4>1
    <3>. QED
      BY <3>1, <3>2
  <2>. QED
    BY <2>1 DEF ParentsOwn
<1>10. ConnOK(s.fe_running, P2, C)
  BY <1>1, <1>3 DEF FileRest, ConnOK
<1>11. StatusOK(s.backend, P2, C)
  BY <1>1, <1>3, <1>4 DEF FileRest, StatusOK
<1>12. ToldOK(s.fes, s.sent_sig, P2)
  BY <1>1, <1>3 DEF FileRest, ToldOK
<1>13. StartsUpOK(t.starting, t.parent, P2)
  BY <1>1, <1>2, <1>3 DEF FileRest, StartsUpOK
<1>14. QuietOK(s.sigs, P2)
  BY <1>1, <1>3 DEF FileRest, QuietOK
<1>15. FileInv(t, L, P2, M2, C)
  BY <1>1, <1>2, <1>5, <1>6, <1>7, <1>8, <1>9, <1>10, <1>11, <1>12, <1>13, <1>14
     DEF Sound, FileInv, FileRest, SameElse, SameBackends, SameFrontends
<1>16. NamedOK(t.starting, t.parent, P2)
  BY <1>1, <1>2, <1>3 DEF StartInv, NamedOK
<1>17. InstalledOK(t.version, t.parent, P2, M2)
  BY <1>2 DEF InstalledOK
<1>18. AskedOK(t.version, t.starting, t.bes, t.sigs, P2, M2)
  <2>1. ASSUME NEW h \in Groups, t.version[h] # 0, t.starting[h] \in Parents,
               P2[t.starting[h]] # "none", "KILL" \notin t.sigs[t.starting[h]]
        PROVE  /\ P2[t.starting[h]] \in Starting \/ "USR1" \in t.sigs[t.starting[h]] \cup M2[t.starting[h]].got
               /\ MaxBackends = 0 \/ Cardinality(Range(t.bes[h])) < MaxBackends
    <3>1. h = g /\ s.version[h] # 0 /\ P[s.starting[h]] # "none" /\ s.starting[h] \in Parents
      BY <1>2, <1>3, <2>1
    <3>2. s.starting[h] = m
      BY <1>1, <1>3, <3>1 DEF StartInv, NamedOK
    <3>3. MaxBackends = 0 \/ Cardinality(Range(s.bes[h])) < MaxBackends
      BY <1>1, <1>2, <2>1, <3>1 DEF StartInv, AskedOK
    <3>. QED
      BY <1>2, <3>2, <3>3 DEF SameElse, SameBackends
  <2>. QED
    BY <2>1 DEF AskedOK
<1>19. NewOK(t.version, t.parent, t.bes)
  BY <1>2, <1>3 DEF NewOK
<1>20. ComesOK(t.starting, t.bes, P2, C)
  BY <1>1, <1>2, <1>3 DEF StartInv, ComesOK, SameElse, SameBackends
<1>21. StartInv(t, P2, M2, C)
  BY <1>1, <1>2, <1>16, <1>17, <1>18, <1>19, <1>20 DEF StartInv, SameElse, SameBackends
<1>. QED
  BY <1>2, <1>15, <1>21 DEF Sound

\* The parent goes to sleep: whoever asked it for a backend has got one, or
\* has asked once more.
LEMMA SleepSound ==
  ASSUME NEW m \in Parents, NEW g \in Groups, NEW s, NEW P, NEW M, Sound(s, {}, P, M, conn),
         OthersStay({m}, P, M, pc, mem), P[m] = "serve", M[m].group = g,
         DOMAIN pc = Pids, NEW dead \in SUBSET Backends, \A b \in dead : pc[b] \in Defunct,
         NEW b \in Backends \cup {Nil}, b \in Backends => pc[b] = "none", Offered(s, g, b),
         \A h \in Groups : s.version[h] # 0 /\ s.starting[h] = m /\ "KILL" \notin s.sigs[m] => "USR1" \in s.sigs[m],
         NEW forks, Sleep(m, g, s, dead, b, forks)
  PROVE  Sound(file', {}, pc', mem', conn')
<1>1. /\ \A x \in Backends : x \in Pids /\ x # m /\ x \notin Parents /\ x \notin Frontends
      /\ Nil \notin Pids /\ m \in Pids /\ m \notin dead
  BY KindsAssumption DEF Pids
<1>2. /\ file' = Reap(s, dead) /\ conn' = conn
      /\ pc' = [p \in Pids |-> IF p = m THEN "wait" ELSE IF p = b THEN "born"
                               ELSE IF p \in dead THEN "none" ELSE pc[p]]
      /\ \A p \in Pids : p # m /\ p # b => mem'[p] = mem[p]
      /\ mem'[m].group = g
      /\ b \in Backends => mem'[b].group = g
  <2>1. /\ mem' = [p \in Pids |->
               IF p = m THEN [Blank EXCEPT !.group = g, !.code = mem[m].code,
                                           !.alarm = s.bes[g] = <<>> /\ pc[m] = "serve"]
               ELSE IF p = b THEN [Blank EXCEPT !.group = g, !.code = mem[m].code]
               ELSE mem[p]]
        /\ pc' = [p \in Pids |-> IF p = m THEN "wait" ELSE IF p = b THEN "born"
                               ELSE IF p \in dead THEN "none" ELSE pc[p]]
        /\ file' = Reap(s, dead) /\ conn' = conn
    BY DEF Sleep
  <2>2. mem'[m].group = g
    BY <1>1, <2>1 DEF Blank
  <2>3. b \in Backends => mem'[b].group = g
    BY <1>1, <2>1 DEF Blank
  <2>. QED
    BY <2>1, <2>2, <2>3
<1>3. PICK t : t = file'
  OBVIOUS
<1>4. PICK P2 : P2 = [p \in Pids |-> IF p \in dead THEN "none" ELSE P[p]]
  OBVIOUS
<1>5. /\ dead \in SUBSET Pids /\ OthersStay(dead, P, M, P2, M)
      /\ \A p \in dead : P2[p] = "none"
      /\ \A p \in dead : p \notin Frontends /\ p \notin Parents /\ P[p] \in Defunct
  BY <1>1, <1>4 DEF OthersStay
<1>6. \A x \in dead \cap Backends : P2[x] \in {"none"} \cup Defunct /\ conn[x] = <<>>
  BY <1>5 DEF Sound, FileInv, FileRest, ConnOK
<1>7. Sound(t, {}, P2, M, conn)
  BY <1>2, <1>3, <1>5, <1>6, ReapSound
<1>8. s \in Files
  BY DEF Sound, FileInv, FileRest
<1>9. SameButSigs(s, t) /\ t.sigs[m] = s.sigs[m]
  BY <1>1, <1>2, <1>3, <1>8, ReapIs
<1>10. PICK P3 : P3 = [p \in Pids |-> IF p = b THEN "born" ELSE P2[p]]
  OBVIOUS
<1>11. PICK M3 : M3 = [p \in Pids |-> IF p = b THEN mem'[p] ELSE M[p]]
  OBVIOUS
<1>12. Sound(t, {}, P3, M3, conn)
  <2>1. PICK E : E = {b}
    OBVIOUS
  <2>2. OthersStay(E, P2, M, P3, M3)
    BY <1>10, <1>11, <2>1 DEF OthersStay
  <2>3. CASE b \in Backends
    <3>1. P2[b] = "none" /\ P3[b] = "born" /\ M3[b].group = g
      BY <1>1, <1>2, <1>4, <1>5, <1>10, <1>11, <2>3 DEF OthersStay, Defunct
    <3>2. /\ b \in Range(t.bes[g]) /\ t.fe_running[b] = b
          /\ \A h \in Groups : t.starting[h] = b => h = g
      BY <1>9, <2>3 DEF Offered, SameButSigs, SameGroups, SameBackends
    <3>3. \A c \in Frontends : t.backend[c] # b
      BY <1>7, <2>3, <3>2, NobodyServed
    <3>4. conn[b] = <<>>
      BY <1>7, <2>3, <3>1 DEF Sound, FileInv, FileRest, ConnOK
    <3>5. conn[b] \in Seq(Frontends) /\ Len(conn[b]) <= 1
      BY <1>7, <2>3 DEF Sound, FileInv, FileRest, ConnOK
    <3>6. P3[b] \notin Defunct /\ P3[b] \notin {"none", "accepted", "perl"}
      BY <3>1 DEF Defunct
    <3>7. BackendFits(b, t, P2, P3, M3, conn)
      BY <3>1, <3>2, <3>3, <3>4, <3>5, <3>6 DEF BackendFits
    <3>8. OtherConns(b, conn, conn)
      BY DEF OtherConns
    <3>. QED
      BY <1>7, <2>1, <2>2, <2>3, <3>7, <3>8, BackendMoves
  <2>4. CASE b = Nil
    <3>1. \A p \in Pids : P3[p] = P2[p] /\ M3[p] = M[p]
      BY <1>1, <1>10, <1>11, <2>4
    <3>2. P2[m] = "serve" /\ OthersStay({m}, P2, M, P3, M3)
      BY <1>1, <1>4, <3>1 DEF OthersStay
    <3>3. P3[m] = "serve" /\ M3[m] = M[m]
      BY <1>1, <3>1, <3>2
    <3>4. "KILL" \notin t.sigs[m] => M[m].group \in Groups /\ t.parent[M[m].group] = m
      BY <1>7, <3>2 DEF Sound, FileInv, FileRest, ParentsOwn
    <3>5. \A h \in Groups : t.version[h] # 0 /\ t.parent[h] = m => M[m].group = h
      BY <1>7, <3>2 DEF Sound, StartInv, InstalledOK
    <3>6. \A h \in Groups : t.version[h] # 0 /\ t.starting[h] = m /\ "KILL" \notin t.sigs[m] =>
            "USR1" \in t.sigs[m] \cup M[m].got
      BY <1>7, <3>2 DEF Sound, StartInv, AskedOK, Starting
    <3>7. P3[m] \notin Starting \cup {"none"} /\ P2[m] # "none"
      BY <3>2, <3>3 DEF Starting
    <3>. QED
      BY <1>7, <3>2, <3>3, <3>4, <3>5, <3>6, <3>7, ParentMoves
  <2>. QED
    BY <2>3, <2>4
<1>13. P3[m] = "serve" /\ M3[m].group = g
  BY <1>1, <1>4, <1>10, <1>11
<1>14. "KILL" \notin t.sigs[m] => t.parent[g] = m
  BY <1>12, <1>13 DEF Sound, FileInv, FileRest, ParentsOwn
<1>15. \A h \in Groups : t.version[h] # 0 /\ t.parent[h] = m => h = g
  BY <1>12, <1>13 DEF Sound, StartInv, InstalledOK
<1>16. \A h \in Groups : t.version[h] # 0 /\ t.starting[h] = m /\ "KILL" \notin t.sigs[m] => "USR1" \in t.sigs[m]
  BY <1>9 DEF SameButSigs, SameGroups
<1>17. pc'[m] = "wait" /\ pc'[m] \notin Starting \cup {"none"} /\ P3[m] # "none"
  BY <1>1, <1>2, <1>13 DEF Starting
<1>18. OthersStay({m}, P3, M3, pc', mem')
  <2>1. ASSUME NEW p \in Pids, p # m PROVE pc'[p] = P3[p] /\ mem'[p] = M3[p]
    <3>1. P[p] = pc[p] /\ M[p] = mem[p]
      BY <2>1 DEF OthersStay
    <3>2. pc'[p] = P3[p]
      BY <1>2, <1>4, <1>10, <2>1, <3>1
    <3>3. mem'[p] = M3[p]
      BY <1>2, <1>11, <2>1, <3>1
    <3>. QED
      BY <3>2, <3>3
  <2>. QED
    BY <2>1 DEF OthersStay
<1>19. Sound(t, {}, pc', mem', conn)
  <2>1. "KILL" \notin t.sigs[m] => mem'[m].group \in Groups /\ t.parent[mem'[m].group] = m
    BY <1>2, <1>14
  <2>2. \A h \in Groups : t.version[h] # 0 /\ t.parent[h] = m => mem'[m].group = h
    BY <1>2, <1>15
  <2>3. \A h \in Groups : t.version[h] # 0 /\ t.starting[h] = m /\ "KILL" \notin t.sigs[m] =>
          "USR1" \in t.sigs[m] \cup mem'[m].got
    BY <1>16
  <2>4. PICK P4 : P4 = pc'
    OBVIOUS
  <2>5. PICK M4 : M4 = mem'
    OBVIOUS
  <2>6. Sound(t, {}, P4, M4, conn)
    BY <1>12, <1>17, <1>18, <2>1, <2>2, <2>3, <2>4, <2>5, ParentMoves
  <2>. QED
    BY <2>4, <2>5, <2>6
<1>. QED
  BY <1>2, <1>3, <1>19

\* Nobody waits for a backend of m's but who has asked again.
AllAnswered(s, m) ==
  \A h \in Groups :
    s.version[h] # 0 /\ s.starting[h] = m /\ "KILL" \notin s.sigs[m] => "USR1" \in s.sigs[m]

LEMMA AnswersAll ==
  ASSUME NEW s, NEW P, NEW M, NEW C, NEW L, Sound(s, L, P, M, C), NEW m \in Parents, P[m] = "serve",
         NEW g, M[m].group = g,
         Answered(s, g, m) \/ ~(s.version[g] # 0 /\ "USR1" \in M[m].got)
  PROVE  AllAnswered(s, m)
<1>1. SUFFICES ASSUME NEW h \in Groups, s.version[h] # 0, s.starting[h] = m, "KILL" \notin s.sigs[m]
               PROVE  "USR1" \in s.sigs[m]
  BY DEF AllAnswered
<1>2. s.parent[h] = m
  BY <1>1 DEF Sound, StartInv, NamedOK
<1>3. h = g
  BY <1>1, <1>2 DEF Sound, StartInv, InstalledOK
<1>4. P[m] \notin Starting
  BY DEF Starting
<1>5. "USR1" \in s.sigs[m] \cup M[m].got
  BY <1>1, <1>4 DEF Sound, StartInv, AskedOK
<1>. QED
  BY <1>1, <1>3, <1>5 DEF Answered

LEMMA AnsweredOn ==
  ASSUME NEW s, NEW t, NEW P, NEW m \in Parents, AllAnswered(s, m), Onward(s, t, P),
         \A h \in Groups : t.starting[h] \in {Nil, s.starting[h]}
  PROVE  AllAnswered(t, m)
<1>1. Nil # m
  BY KindsAssumption DEF Pids
<1>2. \A h \in Groups : t.version[h] \in {0, s.version[h]}
  BY DEF Onward
<1>3. s.sigs[m] \subseteq t.sigs[m]
  BY DEF Onward
<1>. QED
  BY <1>1, <1>2, <1>3 DEF AllAnswered

LEMMA ChildrenAre ==
  ASSUME IInv, NEW forks, NEW b \in Children(forks)
  PROVE  /\ b \in Backends \cup {Nil}
         /\ b \in Backends => pc[b] = "none" /\ Unused(file, b) /\ forks
<1>1. Nil \notin Backends
  BY KindsAssumption DEF Pids
<1>2. b = Nil \/ (b \in Backends /\ Forgotten(b) /\ forks)
  BY DEF Children
<1>3. CASE b \in Backends /\ Forgotten(b) /\ forks
  <2>1. b \notin Alive /\ b \in Pids /\ pc[b] \in BackendPCs
    BY <1>3 DEF Forgotten, IInv, ProcsType, Pids
  <2>2. pc[b] = "none"
    BY <2>1 DEF Alive, BackendPCs, Defunct
  <2>3. /\ \A h \in Groups : b \notin Range(file.bes[h]) \cup Range(file.fes[h])
                                       \cup {file.starting[h], file.parent[h]}
        /\ b \notin Range(file.run) \cup Range(file.fe_running) \cup Range(file.backend)
    BY <1>3 DEF Forgotten
  <2>4. file.fe_running[b] \notin Frontends
    <3>1. file.backend \in [Frontends -> Backends \cup {Nil}] /\ PairOK(file.run, file.fe_running, file.backend)
      BY DEF IInv, Sound, FileInv, FileRest, Files
    <3>2. \A c \in Frontends : file.backend[c] # b
      BY <2>3, <3>1 DEF Range
    <3>. QED
      BY <1>3, <3>1, <3>2 DEF PairOK
  <2>. QED
    BY <1>3, <2>2, <2>3, <2>4 DEF Unused
<1>. QED
  BY <1>1, <1>2, <1>3

HasOther(s, g, m) == s.parent[g] \notin {Nil, m}

AfterAsking(s, g, m) == IF HasOther(s, g, m) THEN StartBe(s, Alive, m, g) ELSE s

ExitsFor(m, s, g) ==
  /\ HasOther(s, g, m) /\ StartBeWorks(s, Alive, g)
  /\ End(m, AfterAsking(s, g, m), "none")
  /\ UNCHANGED left

InstallsIn(m, s, g) ==
  /\ ~(HasOther(s, g, m) /\ StartBeWorks(s, Alive, g))
  /\ \E b \in Children(WillFork(SetParent(AfterAsking(s, g, m), g, m), Alive, m, g)) :
       Sleep(m, g, StartChild(SetParent(AfterAsking(s, g, m), g, m), Alive, m, g, b), {}, b,
             WillFork(SetParent(AfterAsking(s, g, m), g, m), Alive, m, g))

LEMMA InstallIs ==
  ASSUME NEW m, ParentInstall(m)
  PROVE  \E v \in Restat(m) : \E g \in Findable(file, v) :
           ExitsFor(m, ScriptFind(file, Alive, m, v, g), g)
           \/ InstallsIn(m, ScriptFind(file, Alive, m, v, g), g)
BY Zenon DEF ParentInstall, ExitsFor, InstallsIn, HasOther, AfterAsking, SetParent

LEMMA InstallsSound ==
  ASSUME IInv, NEW m \in Parents, ParentInstall(m)
  PROVE  Sound(file', {}, pc', mem', conn')
<1>1. /\ Sound(file, {}, pc, mem, conn) /\ ProcsType /\ DOMAIN pc = Pids /\ mem \in [Pids -> MemType]
      /\ m \in Pids /\ m \notin Frontends /\ m \notin Backends /\ LivingOK(Alive, pc)
  BY AliveLives, KindsAssumption DEF IInv, ProcsType, Pids
<1>2. pc[m] = "parsed" /\ pc[m] \in Starting
  BY DEF ParentInstall, Starting
<1>3. PICK v \in Restat(m) : \E g \in Findable(file, v) :
        ExitsFor(m, ScriptFind(file, Alive, m, v, g), g)
        \/ InstallsIn(m, ScriptFind(file, Alive, m, v, g), g)
  BY InstallIs
<1>4. PICK g \in Findable(file, v) :
        ExitsFor(m, ScriptFind(file, Alive, m, v, g), g)
        \/ InstallsIn(m, ScriptFind(file, Alive, m, v, g), g)
  BY <1>3
<1>5. v \in Nat
  BY <1>1 DEF Restat, MemType, ProcsType
<1>6. PICK s : s = ScriptFind(file, Alive, m, v, g)
  OBVIOUS
<1>7. /\ Sound(s, {}, pc, mem, conn) /\ SameElse(file, s) /\ s.starting = file.starting
      /\ g \in Groups /\ g \in Range(s.glist)
  BY <1>1, <1>5, <1>6, ScriptFindSound
<1>8. \A h \in Groups \ {g} : s.version[h] = 0
  <2>1. FileRest(file, pc, mem, conn)
    BY <1>1 DEF Sound, FileInv
  <2>2. HasFound(file, s, v, g)
    BY <1>5, <1>6, <2>1, ScriptFindInv
  <2>. QED
    BY <2>2 DEF HasFound
<1>9. PICK u : u = AfterAsking(s, g, m)
  OBVIOUS
<1>10. FileRest(s, pc, mem, conn)
  BY <1>7 DEF Sound, FileInv
<1>11. CASE ExitsFor(m, s, g)
  <2>1. u = StartBe(s, Alive, m, g) /\ End(m, u, "none")
    BY <1>9, <1>11 DEF ExitsFor, AfterAsking
  <2>2. Sound(u, {}, pc, mem, conn)
    BY <1>1, <1>7, <2>1, StartBeSound
  <2>3. OthersStay({m}, pc, mem, pc, mem)
    BY DEF OthersStay
  <2>. QED
    BY <1>1, <2>1, <2>2, <2>3, EndSound
<1>12. CASE InstallsIn(m, s, g)
  <2>1. /\ Sound(u, {}, pc, mem, conn) /\ SameElse(s, u) /\ u.starting = s.starting
        /\ g \in Range(u.glist) /\ u.parent[g] \in {Nil, m}
        /\ \A h \in Groups : h # g => u.version[h] = 0
    <3>1. CASE HasOther(s, g, m)
      <4>1. u = StartBe(s, Alive, m, g) /\ ~StartBeWorks(s, Alive, g)
        BY <1>9, <1>12, <3>1 DEF AfterAsking, InstallsIn
      <4>2. Sound(u, {}, pc, mem, conn)
        BY <1>1, <1>7, <4>1, StartBeSound
      <4>3. /\ SameElse(s, u) /\ u.starting = s.starting
            /\ \A h \in Groups : u.version[h] \in {0, s.version[h]}
            /\ u.parent[g] = Nil
            /\ Range(u.glist) = Range(s.glist)
        BY <1>1, <1>7, <1>10, <4>1, StartBeInv
      <4>. QED
        BY <1>7, <1>8, <4>2, <4>3
    <3>2. CASE ~HasOther(s, g, m)
      <4>1. u = s
        BY <1>9, <3>2 DEF AfterAsking
      <4>2. SameElse(s, s)
        BY DEF SameElse, SameBackends, SameFrontends
      <4>. QED
        BY <1>7, <1>8, <3>2, <4>1, <4>2 DEF HasOther
    <3>. QED
      BY <3>1, <3>2
  <2>2. PICK x : x = [group |-> g, got |-> {"USR1"}]
    OBVIOUS
  <2>3. PICK P : P = [p \in Pids |-> IF p = m THEN "serve" ELSE pc[p]]
    OBVIOUS
  <2>4. PICK M : M = [p \in Pids |-> IF p = m THEN x ELSE mem[p]]
    OBVIOUS
  <2>5. /\ OthersStay({m}, pc, mem, P, M) /\ OthersStay({m}, P, M, pc, mem)
        /\ P[m] = "serve" /\ M[m].group = g /\ "USR1" \in M[m].got
    BY <1>1, <2>2, <2>3, <2>4 DEF OthersStay
  <2>6. PICK w : w = SetParent(u, g, m)
    OBVIOUS
  <2>7. /\ Sound(w, {}, P, M, conn) /\ SameElse(u, w) /\ w.starting = u.starting /\ w.parent[g] = m
    BY <1>2, <1>7, <2>1, <2>5, <2>6, InstallSound
  <2>8. LivingOK(Alive, P)
    BY <1>1, <1>2, <2>3 DEF LivingOK, Pids, Starting
  <2>9. PICK forks : forks = WillFork(w, Alive, m, g)
    OBVIOUS
  <2>10. PICK b \in Children(forks) : Sleep(m, g, StartChild(w, Alive, m, g, b), {}, b, forks)
    BY <1>9, <1>12, <2>6, <2>9 DEF InstallsIn
  <2>11. /\ b \in Backends \cup {Nil}
         /\ b \in Backends => pc[b] = "none" /\ Unused(file, b) /\ forks
    BY ChildrenAre
  <2>12. w.bes = file.bes /\ w.fe_running = file.fe_running /\ w.starting = file.starting
    BY <1>7, <2>1, <2>7 DEF SameElse, SameBackends
  <2>13. b \in Backends => P[b] = "none" /\ Unused(w, b) /\ WillFork(w, Alive, m, g)
    BY <1>1, <2>3, <2>9, <2>11, <2>12 DEF Unused, Pids
  <2>14. PICK t : t = StartChild(w, Alive, m, g, b)
    OBVIOUS
  <2>15. Sound(t, {}, P, M, conn) /\ Offered(t, g, b) /\ Answered(t, g, m)
    BY <1>7, <2>5, <2>7, <2>8, <2>11, <2>13, <2>14, StartChildSound
  <2>16. AllAnswered(t, m)
    BY <2>5, <2>15, AnswersAll
  <2>17. PICK dead \in SUBSET Backends : dead = {}
    OBVIOUS
  <2>18. Sleep(m, g, t, dead, b, forks)
    BY <2>10, <2>14, <2>17
  <2>19. \A y \in dead : pc[y] \in Defunct
    BY <2>17
  <2>. QED
    BY <1>1, <1>7, <2>5, <2>11, <2>15, <2>16, <2>18, <2>19, SleepSound DEF AllAnswered
<1>. QED
  BY <1>4, <1>6, <1>11, <1>12

\* What the parent does in one round, with the child b of its fork.
Round(m, g, dead, alive, s, asked, b) ==
  LET t == DoCleanup(IF asked THEN StartChild(s, alive, m, g, b) ELSE s, alive, m, g)
  IN  IF t.bes[g] = <<>> /\ "ALRM" \in mem[m].got
      THEN End(m, Cleanup(t, alive, m, {g}), "none")
      ELSE Sleep(m, g, t, dead, b, asked /\ WillFork(s, alive, m, g))

Asked(m, g, s) == IsValid(s, g) /\ "USR1" \in mem[m].got

LEMMA ServeIs ==
  ASSUME NEW m, ParentServe(m), NEW g, g = mem[m].group,
         NEW dead, dead = {b \in Backends : ppid[b] = m /\ pc[b] \in Defunct},
         NEW alive, alive = Alive \ dead,
         NEW s, s = CollectChild(file, alive, m, g, dead, pc)
  PROVE  \E b \in Children(Asked(m, g, s) /\ WillFork(s, alive, m, g)) :
           Round(m, g, dead, alive, s, Asked(m, g, s), b)
BY Zenon DEF ParentServe, Round, Asked

LEMMA ServeSound ==
  ASSUME IInv, NEW m \in Parents, ParentServe(m)
  PROVE  Sound(file', {}, pc', mem', conn')
<1>1. /\ Sound(file, {}, pc, mem, conn) /\ ProcsType /\ DOMAIN pc = Pids
      /\ m \in Pids /\ m \notin Frontends /\ m \notin Backends /\ LivingOK(Alive, pc)
  BY AliveLives, KindsAssumption DEF IInv, ProcsType, Pids
<1>2. pc[m] = "serve" /\ "KILL" \notin file.sigs[m]
  BY DEF ParentServe, Doomed
<1>3. PICK g : g = mem[m].group
  OBVIOUS
<1>4. g \in Groups /\ file.parent[g] = m
  BY <1>1, <1>2, <1>3 DEF Sound, FileInv, FileRest, ParentsOwn
<1>5. PICK dead \in SUBSET Backends : dead = {b \in Backends : ppid[b] = m /\ pc[b] \in Defunct}
  OBVIOUS
<1>6. \A b \in dead : pc[b] \in Defunct
  BY <1>5
<1>7. PICK alive : alive = Alive \ dead
  OBVIOUS
<1>8. LivingOK(alive, pc)
  <2>1. \A x \in dead : x \notin Frontends /\ x \notin Parents
    BY KindsAssumption
  <2>. QED
    BY <1>1, <1>6, <1>7, <2>1 DEF LivingOK
<1>9. PICK s : s = CollectChild(file, alive, m, g, dead, pc)
  OBVIOUS
<1>10. /\ Sound(s, {}, pc, mem, conn) /\ SameGroups(file, s)
       /\ \A b : Unused(file, b) => Unused(s, b)
  BY <1>1, <1>4, <1>6, <1>8, <1>9, CollectChildSound
<1>11. PICK asked \in {TRUE, FALSE} : asked = Asked(m, g, s)
  BY DEF Asked
<1>12. PICK forks : forks = (asked /\ WillFork(s, alive, m, g))
  OBVIOUS
<1>13. \E b \in Children(Asked(m, g, s) /\ WillFork(s, alive, m, g)) :
         Round(m, g, dead, alive, s, Asked(m, g, s), b)
  BY <1>3, <1>5, <1>7, <1>9, ServeIs
<1>14. PICK b \in Children(forks) : Round(m, g, dead, alive, s, asked, b)
  BY <1>11, <1>12, <1>13
<1>15. /\ b \in Backends \cup {Nil}
       /\ b \in Backends => pc[b] = "none" /\ Unused(file, b) /\ forks
  BY ChildrenAre
<1>16. s.parent[g] = m
  BY <1>4, <1>10 DEF SameGroups
<1>17. PICK u : u = IF asked THEN StartChild(s, alive, m, g, b) ELSE s
  OBVIOUS
<1>18. /\ Sound(u, {}, pc, mem, conn) /\ u.parent[g] = m
       /\ AllAnswered(u, m) /\ Offered(u, g, b)
  <2>1. CASE asked
    <3>1. u = StartChild(s, alive, m, g, b)
      BY <1>17, <2>1
    <3>2. b \in Backends => pc[b] = "none" /\ Unused(s, b) /\ WillFork(s, alive, m, g)
      BY <1>10, <1>12, <1>15
    <3>3. Sound(u, {}, pc, mem, conn) /\ Offered(u, g, b) /\ SameForStart(s, u) /\ Answered(u, g, m)
      BY <1>2, <1>4, <1>8, <1>10, <1>15, <1>16, <3>1, <3>2, StartChildSound
    <3>4. AllAnswered(u, m)
      BY <1>2, <1>3, <3>3, AnswersAll
    <3>. QED
      BY <1>16, <3>3, <3>4 DEF SameForStart
  <2>2. CASE ~asked
    <3>1. u = s /\ b \notin Backends
      BY <1>12, <1>15, <1>17, <2>2
    <3>2. ~(s.version[g] # 0 /\ "USR1" \in mem[m].got)
      BY <1>11, <2>2 DEF Asked, IsValid
    <3>3. AllAnswered(s, m)
      BY <1>2, <1>3, <1>10, <3>2, AnswersAll
    <3>. QED
      BY <1>10, <1>16, <3>1, <3>3 DEF Offered
  <2>. QED
    BY <2>1, <2>2
<1>19. g \in Range(u.glist)
  <2>1. m # Nil
    BY KindsAssumption DEF Pids
  <2>. QED
    BY <1>4, <1>18, <2>1 DEF Sound, FileInv, FileRest, FreeOK
<1>20. PICK t : t = DoCleanup(u, alive, m, g)
  OBVIOUS
<1>21. /\ Sound(t, {}, pc, mem, conn) /\ Onward(u, t, pc)
       /\ \A h \in Groups : t.starting[h] \in {Nil, u.starting[h]}
       /\ \A x : Offered(u, g, x) => Offered(t, g, x)
  BY <1>3, <1>4, <1>8, <1>18, <1>19, <1>20, DoCleanupSound
<1>22. AllAnswered(t, m) /\ Offered(t, g, b)
  BY <1>18, <1>21, AnsweredOn
<1>23. \/ End(m, Cleanup(t, alive, m, {g}), "none")
       \/ Sleep(m, g, t, dead, b, forks)
  <2>1. \/ End(m, Cleanup(t, alive, m, {g}), "none")
        \/ Sleep(m, g, t, dead, b, asked /\ WillFork(s, alive, m, g))
    BY <1>14, <1>17, <1>20, Zenon DEF Round
  <2>. QED
    BY <1>12, <2>1
<1>24. CASE Sleep(m, g, t, dead, b, forks)
  <2>1. \A h \in Groups : t.version[h] # 0 /\ t.starting[h] = m /\ "KILL" \notin t.sigs[m] => "USR1" \in t.sigs[m]
    BY <1>22 DEF AllAnswered
  <2>2. OthersStay({m}, pc, mem, pc, mem) /\ (b \in Backends => pc[b] = "none")
    BY <1>15 DEF OthersStay
  <2>. QED
    BY <1>1, <1>2, <1>3, <1>4, <1>6, <1>15, <1>21, <1>22, <1>24, <2>1, <2>2, SleepSound
<1>25. CASE End(m, Cleanup(t, alive, m, {g}), "none")
  <2>1. PICK P : P = [p \in Pids |-> IF p = m THEN "leaving" ELSE pc[p]]
    OBVIOUS
  <2>2. P[m] = "leaving" /\ OthersStay({m}, pc, mem, P, mem) /\ OthersStay({m}, P, mem, pc, mem)
    BY <1>1, <2>1 DEF OthersStay
  <2>3. P[m] \notin {"wait", "serve"} /\ P[m] \notin Starting \cup {"none"}
    BY <2>2 DEF Starting
  <2>4. \A h \in Groups : t.version[h] # 0 /\ t.starting[h] = m /\ "KILL" \notin t.sigs[m] =>
          "USR1" \in t.sigs[m] \cup mem[m].got
    BY <1>22 DEF AllAnswered
  <2>5. Sound(t, {}, P, mem, conn)
    BY <1>2, <1>21, <2>2, <2>3, <2>4, ParentMoves
  <2>6. LivingOK(alive, P)
    BY <1>1, <1>2, <1>8, <2>1 DEF LivingOK, Pids
  <2>7. PICK G \in SUBSET Groups : G = {g}
    BY <1>4
  <2>8. PICK w : w = Cleanup(t, alive, m, G)
    OBVIOUS
  <2>9. Sound(w, {}, P, mem, conn)
    BY <2>3, <2>5, <2>6, <2>8, CleanupSound
  <2>10. End(m, w, "none")
    BY <1>25, <2>7, <2>8
  <2>. QED
    BY <1>1, <2>2, <2>9, <2>10, EndSound
<1>. QED
  BY <1>23, <1>24, <1>25

-----------------------------------------------------------------------------
(* Where processes are and what they have in memory                        *)

\* A process p may be at x with r in memory.
Fits(p, x, r) ==
  /\ p \in Frontends => x \in FrontendPCs
  /\ p \in Backends => x \in BackendPCs
  /\ p \in Parents => x \in ParentPCs /\ (x = "wait" => r.got = {})
  /\ r \in MemType

LeftType(l, sc) ==
  /\ l \in [edits : Nat, faults : Nat, timeouts : Nat, idles : Nat]
  /\ sc \in 1 .. MaxEdits + 1 /\ sc + l.edits <= MaxEdits + 1

LEMMA SomeMove ==
  ASSUME ProcsType, LeftType(left', script'),
         DOMAIN pc' = Pids, mem' = [p \in Pids |-> mem'[p]],
         \A p \in Pids : (pc'[p] = pc[p] /\ mem'[p] = mem[p]) \/ Fits(p, pc'[p], mem'[p]),
         ppid' \in [Backends -> Parents \cup {Nil}], conn' \in [Backends -> Seq(Frontends)]
  PROVE  ProcsType'
<1>1. ASSUME NEW p \in Pids PROVE Fits(p, pc'[p], mem'[p])
  <2>1. Fits(p, pc[p], mem[p])
    BY DEF ProcsType, Fits
  <2>. QED
    BY <2>1
<1>2. mem' \in [Pids -> MemType]
  BY <1>1 DEF Fits
<1>3. \A c \in Frontends : pc'[c] \in FrontendPCs
  BY <1>1 DEF Fits, Pids
<1>4. \A b \in Backends : pc'[b] \in BackendPCs
  BY <1>1 DEF Fits, Pids
<1>5. \A m \in Parents : pc'[m] \in ParentPCs /\ (pc'[m] = "wait" => mem'[m].got = {})
  BY <1>1 DEF Fits, Pids
<1>. QED
  BY <1>2, <1>3, <1>4, <1>5 DEF ProcsType, LeftType

LEMMA OneMoves ==
  ASSUME ProcsType, NEW p \in Pids, NEW x, NEW r, Fits(p, x, r),
         pc' = [pc EXCEPT ![p] = x], mem' = [mem EXCEPT ![p] = r],
         LeftType(left', script'),
         ppid' \in [Backends -> Parents \cup {Nil}], conn' \in [Backends -> Seq(Frontends)]
  PROVE  ProcsType'
<1>1. DOMAIN pc = Pids /\ mem \in [Pids -> MemType]
  BY DEF ProcsType
<1>2. DOMAIN pc' = Pids /\ mem' = [q \in Pids |-> mem'[q]]
  BY <1>1
<1>3. \A q \in Pids : (pc'[q] = pc[q] /\ mem'[q] = mem[q]) \/ Fits(q, pc'[q], mem'[q])
  BY <1>1
<1>. QED
  BY <1>2, <1>3, SomeMove

LEMMA NothingLeft ==
  ASSUME ProcsType
  PROVE  /\ LeftType(left, script)
         /\ ppid \in [Backends -> Parents \cup {Nil}] /\ conn \in [Backends -> Seq(Frontends)]
         /\ mem \in [Pids -> MemType] /\ DOMAIN pc = Pids
         /\ \A p \in Pids : Fits(p, pc[p], mem[p]) /\ mem = [mem EXCEPT ![p] = mem[p]]
         /\ script \in 0 .. MaxEdits + 1 /\ MaxEdits \in Nat
BY BoundsAssumption DEF ProcsType, LeftType, Fits

\* What is in memory at the start, and of a frontend that queues.
Fresh(v) == [Blank EXCEPT !.version = v]
Queuing(g, v, d) == [Blank EXCEPT !.group = g, !.version = v, !.did_spawn = d]

LEMMA BlankIs == Blank \in MemType /\ Blank.got = {}
BY BoundsAssumption DEF Blank, MemType

LEMMA FreshIs == \A v \in 0 .. MaxEdits + 1 : Fresh(v) \in MemType
BY BlankIs DEF MemType, Fresh

LEMMA QueuingIs ==
  \A g \in Groups : \A v \in 0 .. MaxEdits + 1 : \A d \in BOOLEAN : Queuing(g, v, d) \in MemType
BY BlankIs DEF MemType, Queuing

LEMMA EndType ==
  ASSUME ProcsType, NEW p \in Pids, NEW s, NEW how, End(p, s, how), LeftType(left', script),
         p \in Frontends => how \in Gone,
         p \in Backends => how \in Defunct,
         p \in Parents => how = "none"
  PROVE  ProcsType'
<1>1. PICK reaper : reaper = IF p \in Backends THEN ppid[p] ELSE Nil
  OBVIOUS
<1>2. PICK reaped : reaped = {b \in Backends : ppid[b] = p /\ pc[b] \in Defunct}
  OBVIOUS
<1>3. reaped = {b \in {x \in Backends : ppid[x] = p} : pc[b] \in Defunct}
  BY <1>2
<1>4. /\ pc' = [q \in Pids |->
                  IF q = p THEN IF p \in Backends /\ reaper = Nil THEN "none" ELSE how
                  ELSE IF q \in reaped THEN "none" ELSE pc[q]]
      /\ ppid' = [b \in Backends |-> IF b \in {x \in Backends : ppid[x] = p} THEN Nil ELSE ppid[b]]
      /\ conn' = [b \in Backends |-> IF b = p THEN <<>> ELSE conn[b]]
      /\ mem' = [mem EXCEPT ![p] = Blank]
      /\ script' = script
  BY <1>1, <1>3, Zenon DEF End
<1>5. /\ ppid \in [Backends -> Parents \cup {Nil}] /\ conn \in [Backends -> Seq(Frontends)]
      /\ mem \in [Pids -> MemType] /\ DOMAIN pc = Pids
      /\ \A q \in Pids : Fits(q, pc[q], mem[q])
  BY NothingLeft
<1>6. PICK n \in MemType : n = Blank /\ n.got = {}
  BY BlankIs
<1>7. \A q \in Pids : \A r \in MemType : Fits(q, "none", r)
  BY DEF Fits, FrontendPCs, BackendPCs, ParentPCs
<1>8. Fits(p, how, n)
  BY <1>6, KindsAssumption DEF Fits, FrontendPCs, BackendPCs, ParentPCs, Gone
<1>9. ASSUME NEW q \in Pids PROVE (pc'[q] = pc[q] /\ mem'[q] = mem[q]) \/ Fits(q, pc'[q], mem'[q])
  <2>1. mem'[q] = IF q = p THEN n ELSE mem[q]
    BY <1>4, <1>5, <1>6
  <2>2. pc'[q] = pc[q] \/ pc'[q] = "none" \/ (q = p /\ pc'[q] = how)
    BY <1>4
  <2>3. mem'[q] \in MemType
    BY <1>5, <2>1
  <2>4. pc'[q] = "none" => Fits(q, pc'[q], mem'[q])
    BY <1>7, <2>3
  <2>5. q = p /\ pc'[q] = how => Fits(q, pc'[q], mem'[q])
    BY <1>8, <2>1
  <2>6. q # p => mem'[q] = mem[q]
    BY <2>1
  <2>7. q = p => pc'[q] = how \/ pc'[q] = "none"
    BY <1>4
  <2>. QED
    BY <2>2, <2>4, <2>5, <2>6, <2>7
<1>10. DOMAIN pc' = Pids /\ mem' = [q \in Pids |-> mem'[q]]
  BY <1>4, <1>5
<1>11. ppid' \in [Backends -> Parents \cup {Nil}]
  BY <1>4, <1>5
<1>12. conn' \in [Backends -> Seq(Frontends)]
  <2>1. PICK e \in Seq(Frontends) : e = <<>>
    BY EmptySeq
  <2>2. conn' = [b \in Backends |-> IF b = p THEN e ELSE conn[b]]
    BY <1>4, <2>1, Zenon
  <2>. QED
    BY <1>5, <2>2
<1>13. LeftType(left', script')
  BY <1>4
<1>. QED
  BY <1>9, <1>10, <1>11, <1>12, <1>13, SomeMove

LEMMA LeaveQueueType ==
  ASSUME ProcsType, NEW c \in Frontends, NEW g, NEW v \in 0 .. MaxEdits + 1, NEW s, NEW spawn_working,
         NEW b, LeaveQueue(c, g, v, s, spawn_working, b), script' = script, left' = left, ppid' = ppid
  PROVE  ProcsType'
<1>1. PICK n \in MemType : n = Blank
  BY BlankIs
<1>2. PICK r \in MemType : r = Fresh(v)
  BY FreshIs
<1>3. PICK x : x = Append(conn[b], c)
  OBVIOUS
<1>4. /\ conn' = conn \/ conn' = [conn EXCEPT ![b] = x]
      /\ \/ pc' = [pc EXCEPT ![c] = "connected"] /\ mem' = [mem EXCEPT ![c] = n]
         \/ pc' = [pc EXCEPT ![c] = "again"] /\ mem' = [mem EXCEPT ![c] = r]
         \/ pc' = [pc EXCEPT ![c] = "failed"] /\ mem' = [mem EXCEPT ![c] = n]
  <2>1. \/ /\ conn' = [conn EXCEPT ![b] = Append(@, c)]
           /\ pc' = [pc EXCEPT ![c] = "connected"]
           /\ mem' = [mem EXCEPT ![c] = Blank]
        \/ /\ pc' = [pc EXCEPT ![c] = "again"]
           /\ mem' = [mem EXCEPT ![c] = [Blank EXCEPT !.version = v]]
           /\ conn' = conn
        \/ /\ pc' = [pc EXCEPT ![c] = IF spawn_working THEN "again" ELSE "failed"]
           /\ mem' = [mem EXCEPT ![c] = IF spawn_working THEN [Blank EXCEPT !.version = v] ELSE Blank]
           /\ conn' = conn
    BY Zenon DEF LeaveQueue
  <2>2. r = [Blank EXCEPT !.version = v]
    BY <1>2 DEF Fresh
  <2>. QED
    BY <1>1, <1>3, <2>1, <2>2, Zenon
<1>5. /\ LeftType(left, script)
      /\ ppid \in [Backends -> Parents \cup {Nil}] /\ conn \in [Backends -> Seq(Frontends)]
  BY NothingLeft
<1>6. conn' \in [Backends -> Seq(Frontends)]
  <2>1. b \in Backends => x \in Seq(Frontends)
    BY <1>3, <1>5
  <2>2. [conn EXCEPT ![b] = x] \in [Backends -> Seq(Frontends)]
    BY <1>5, <2>1
  <2>. QED
    BY <1>4, <1>5, <2>2
<1>7. PICK x3 \in {"connected", "again", "failed"} : \E q \in MemType :
        pc' = [pc EXCEPT ![c] = x3] /\ mem' = [mem EXCEPT ![c] = q]
  BY <1>4, Zenon
<1>8. PICK q \in MemType : pc' = [pc EXCEPT ![c] = x3] /\ mem' = [mem EXCEPT ![c] = q]
  BY <1>7
<1>9. c \in Pids /\ Fits(c, x3, q)
  BY KindsAssumption DEF Fits, FrontendPCs, Pids
<1>10. LeftType(left', script') /\ ppid' \in [Backends -> Parents \cup {Nil}]
  BY <1>5
<1>. QED
  BY <1>6, <1>8, <1>9, <1>10, OneMoves

LEMMA WaitsType ==
  ASSUME ProcsType, NEW c \in Frontends, NEW g \in Groups, NEW v \in 0 .. MaxEdits + 1,
         NEW t, NEW did \in {TRUE, FALSE}, NEW m \in Parents \cup {Nil}, NEW P1,
         P1 = pc \/ P1 = WithStarting(pc, m),
         Waits(c, g, v, t, did, P1), script' = script, left' = left, ppid' = ppid
  PROVE  ProcsType'
<1>1. /\ LeftType(left, script) /\ DOMAIN pc = Pids /\ mem \in [Pids -> MemType]
      /\ ppid \in [Backends -> Parents \cup {Nil}] /\ conn \in [Backends -> Seq(Frontends)]
  BY NothingLeft
<1>2. PICK q : q = Queuing(g, v, did)
  OBVIOUS
<1>3. q \in MemType
  BY <1>2, QueuingIs
<1>4. mem' = [mem EXCEPT ![c] = q] /\ pc' = [P1 EXCEPT ![c] = "queued"] /\ conn' = conn
  BY <1>2, Zenon DEF Waits, Queuing
<1>5. DOMAIN P1 = Pids /\ c \in Pids
  BY <1>1 DEF WithStarting, Pids
<1>6. DOMAIN pc' = Pids /\ mem' = [p \in Pids |-> mem'[p]]
  BY <1>1, <1>4, <1>5
<1>7. Fits(c, pc'[c], mem'[c])
  BY <1>1, <1>3, <1>4, <1>5, KindsAssumption DEF Fits, FrontendPCs, Waiting
<1>8. ASSUME NEW p \in Pids, p # c PROVE (pc'[p] = pc[p] /\ mem'[p] = mem[p]) \/ Fits(p, pc'[p], mem'[p])
  <2>1. mem'[p] = mem[p] /\ pc'[p] = P1[p] /\ mem[p] \in MemType
    BY <1>1, <1>4, <1>5, <1>8
  <2>2. P1[p] = pc[p] \/ (p = m /\ P1[p] = "starting")
    BY DEF WithStarting
  <2>3. CASE p = m /\ P1[p] = "starting"
    <3>1. p \in Parents /\ p \notin Frontends /\ p \notin Backends
      BY <2>3, KindsAssumption
    <3>. QED
      BY <2>1, <2>3, <3>1 DEF Fits, ParentPCs, Starting
  <2>. QED
    BY <2>1, <2>2, <2>3
<1>9. LeftType(left', script')
  BY <1>1
<1>. QED
  BY <1>1, <1>4, <1>6, <1>7, <1>8, <1>9, SomeMove

LEMMA DidSpawnIs ==
  ASSUME NEW s, NEW alive, NEW me, NEW g, NEW did \in {TRUE, FALSE}, NEW m, NEW r,
         r = BackendCheck(s, alive, me, g, did, m)
  PROVE  r.did_spawn \in {TRUE, FALSE}
<1>1. PICK u : u = CheckStarting(s, alive, g)
  OBVIOUS
<1>2. PICK w : w = IF u.parent[g] = Nil THEN [u EXCEPT !.parent[g] = m, !.starting[g] = m] ELSE u
  OBVIOUS
<1>3. PICK pids : pids = alive \cup ({m} \cap Parents)
  OBVIOUS
<1>4. PICK x : x = StartBe(w, pids, me, g)
  OBVIOUS
<1>5. PICK y : y = ParentSig(w, pids, me, g, "0")
  OBVIOUS
<1>6. PICK z : z = [x EXCEPT !.starting[g] = x.parent[g]]
  OBVIOUS
<1>7. r = IF s.starting[g] \in alive THEN [s |-> s, ok |-> TRUE, did_spawn |-> did]
          ELSE IF did THEN [s |-> u, ok |-> FALSE, did_spawn |-> TRUE]
          ELSE IF ~BelowMaxBackends(w, g) THEN [s |-> y, ok |-> TRUE, did_spawn |-> FALSE]
          ELSE IF StartBeWorks(w, pids, g) THEN [s |-> z, ok |-> TRUE, did_spawn |-> TRUE]
          ELSE [s |-> x, ok |-> TRUE, did_spawn |-> FALSE]
  BY <1>1, <1>2, <1>3, <1>4, <1>5, <1>6, Zenon DEF BackendCheck
<1>8. PICK d \in {TRUE, FALSE} : \E e, ok : r = [s |-> e, ok |-> ok, did_spawn |-> d]
  BY <1>7, Zenon
<1>9. r.did_spawn = d
  BY <1>8
<1>. QED
  BY <1>9, Zenon

LEMMA IterateType ==
  ASSUME ProcsType, NEW c \in Frontends, NEW g \in Groups, NEW v \in 0 .. MaxEdits + 1, NEW s,
         NEW did \in {TRUE, FALSE}, Iterate(c, g, v, s, did),
         script' = script, left' = left, ppid' = ppid
  PROVE  ProcsType'
<1>1. PICK s1 : s1 = SendSigs(s, Alive, g)
  OBVIOUS
<1>2. PICK s2 : s2 = SetTold(s1, c, {})
  OBVIOUS
<1>3. PICK s3 : s3 = CheckPrev(s2, Alive, c, g)
  OBVIOUS
<1>4. PICK x : x = WaitGet(s2, Alive, g)
  OBVIOUS
<1>5. \/ Gets(s1, s2, g, c) /\ LeaveQueue(c, g, v, x, TRUE, Head(s2.bes[g]))
      \/ Waits(c, g, v, s3, did, pc)
      \/ \E m \in Spawned \cup {Nil} : \E r : Checks(s3, c, g, v, did, m, r)
  BY <1>1, <1>2, <1>3, <1>4, IterateIs
<1>6. CASE LeaveQueue(c, g, v, x, TRUE, Head(s2.bes[g]))
  <2>1. PICK b, w : b = Head(s2.bes[g]) /\ w = TRUE
    OBVIOUS
  <2>2. LeaveQueue(c, g, v, x, w, b)
    BY <1>6, <2>1
  <2>. QED
    BY <2>2, LeaveQueueType
<1>7. CASE Waits(c, g, v, s3, did, pc)
  <2>1. PICK m \in Parents \cup {Nil} : m = Nil
    OBVIOUS
  <2>2. PICK P1 : P1 = pc
    OBVIOUS
  <2>3. Waits(c, g, v, s3, did, P1)
    BY <1>7, <2>2
  <2>. QED
    BY <2>2, <2>3, WaitsType
<1>8. ASSUME NEW m \in Spawned \cup {Nil}, NEW r, Checks(s3, c, g, v, did, m, r)
      PROVE  ProcsType'
  <2>1. m \in Parents \cup {Nil}
    BY DEF Spawned
  <2>2. PICK b, t, ok : b = Nil /\ t = r.s /\ ok = r.ok
    OBVIOUS
  <2>3. r = BackendCheck(s3, Alive, c, g, did, m)
    BY <1>8 DEF Checks
  <2>4. PICK d \in {TRUE, FALSE} : d = r.did_spawn
    <3>1. PICK alive : alive = Alive
      OBVIOUS
    <3>2. r = BackendCheck(s3, alive, c, g, did, m)
      BY <2>3, <3>1
    <3>3. r.did_spawn \in {TRUE, FALSE}
      BY <3>2, DidSpawnIs
    <3>. QED
      BY <3>3
  <2>5. PICK P1 : P1 = WithStarting(pc, m)
    OBVIOUS
  <2>6. Waits(c, g, v, t, d, P1) \/ LeaveQueue(c, g, v, t, ok, b)
    BY <1>8, <2>2, <2>4, <2>5, Zenon DEF Checks
  <2>7. CASE Waits(c, g, v, t, d, P1)
    BY <2>1, <2>5, <2>7, WaitsType
  <2>8. CASE LeaveQueue(c, g, v, t, ok, b)
    BY <2>8, LeaveQueueType
  <2>. QED
    BY <2>6, <2>7, <2>8
<1>. QED
  BY <1>5, <1>6, <1>7, <1>8

LEMMA VersionsAre ==
  ASSUME ProcsType, NEW p \in Pids, NEW v \in Restat(p)
  PROVE  v \in 0 .. MaxEdits + 1
BY BoundsAssumption DEF ProcsType, Restat, MemType

LEMMA ConnectType ==
  ASSUME IInv, NEW c \in Frontends, FrontendConnect(c)
  PROVE  ProcsType'
<1>1. /\ Sound(file, {}, pc, mem, conn) /\ ProcsType /\ c \in Pids
      /\ script' = script /\ left' = left /\ ppid' = ppid
  BY DEF IInv, Pids, FrontendConnect
<1>2. LivingOK(Alive, pc)
  BY <1>1, AliveLives
<1>3. PICK s : s = IF pc[c] = "connect" THEN CleanRunning(file, Alive) ELSE file
  OBVIOUS
<1>4. PICK v \in Restat(c) : \E g \in Findable(s, v) :
        LET s1 == ScriptFind(s, Alive, c, v, g)
        IN  IF s1.fes[g] = <<>> /\ CanGet(s1, Alive, g)
            THEN LeaveQueue(c, g, v, WaitGet(s1, Alive, g), TRUE, Head(s1.bes[g]))
            ELSE Iterate(c, g, v, Queued(s1, g, c), FALSE)
  BY <1>3, Zenon DEF FrontendConnect, Queued
<1>5. PICK g \in Findable(s, v) :
        LET s1 == ScriptFind(s, Alive, c, v, g)
        IN  IF s1.fes[g] = <<>> /\ CanGet(s1, Alive, g)
            THEN LeaveQueue(c, g, v, WaitGet(s1, Alive, g), TRUE, Head(s1.bes[g]))
            ELSE Iterate(c, g, v, Queued(s1, g, c), FALSE)
  BY <1>4
<1>6. v \in 0 .. MaxEdits + 1 /\ v \in Nat
  BY <1>1, VersionsAre
<1>7. Sound(s, {}, pc, mem, conn)
  <2>1. CASE pc[c] = "connect"
    BY <1>1, <1>2, <1>3, <2>1, CleanRunningSound
  <2>2. CASE pc[c] # "connect"
    BY <1>1, <1>3, <2>2
  <2>. QED
    BY <2>1, <2>2
<1>8. PICK s1 : s1 = ScriptFind(s, Alive, c, v, g)
  OBVIOUS
<1>9. g \in Groups
  BY <1>6, <1>7, <1>8, ScriptFindSound
<1>10. PICK b, x, w, u : b = Head(s1.bes[g]) /\ x = WaitGet(s1, Alive, g) /\ w = TRUE /\ u = Queued(s1, g, c)
  OBVIOUS
<1>11. PICK did \in {TRUE, FALSE} : did = FALSE
  OBVIOUS
<1>12. LeaveQueue(c, g, v, x, w, b) \/ Iterate(c, g, v, u, did)
  BY <1>5, <1>8, <1>10, <1>11
<1>13. CASE LeaveQueue(c, g, v, x, w, b)
  BY <1>1, <1>6, <1>13, LeaveQueueType
<1>14. CASE Iterate(c, g, v, u, did)
  BY <1>1, <1>6, <1>9, <1>14, IterateType
<1>. QED
  BY <1>12, <1>13, <1>14

LEMMA RecheckType ==
  ASSUME IInv, NEW c \in Frontends, FrontendRecheck(c)
  PROVE  ProcsType'
<1>1. /\ Sound(file, {}, pc, mem, conn) /\ ProcsType /\ c \in Pids /\ pc[c] \in Waiting
      /\ script' = script /\ left' = left /\ ppid' = ppid
  BY DEF IInv, Pids, FrontendRecheck, Waiting
<1>2. PICK g : g = mem[c].group
  OBVIOUS
<1>3. g \in Groups
  BY <1>1, <1>2 DEF Sound, FileInv, FileRest, QueueOwn
<1>4. mem[c] \in MemType
  BY <1>1 DEF ProcsType
<1>5. PICK v \in 0 .. MaxEdits + 1 : v = mem[c].version
  BY <1>4 DEF MemType
<1>6. PICK did \in {TRUE, FALSE} : did = mem[c].did_spawn
  BY <1>4 DEF MemType
<1>7. PICK b, w : b = Nil /\ w = TRUE
  OBVIOUS
<1>8. LeaveQueue(c, g, v, file, w, b) \/ Iterate(c, g, v, file, did)
  BY <1>2, <1>5, <1>6, <1>7 DEF FrontendRecheck
<1>9. CASE LeaveQueue(c, g, v, file, w, b)
  BY <1>1, <1>9, LeaveQueueType
<1>10. CASE Iterate(c, g, v, file, did)
  BY <1>1, <1>3, <1>10, IterateType
<1>. QED
  BY <1>8, <1>9, <1>10

LEMMA LeftIs ==
  ASSUME ProcsType
  PROVE  /\ left.timeouts > 0 => LeftType([left EXCEPT !.timeouts = @ - 1], script)
         /\ left.faults > 0 => LeftType(LeftAfterFault, script)
         /\ left.idles > 0 => LeftType([left EXCEPT !.idles = @ - 1, !.faults = 0], script)
         /\ left.edits > 0 => LeftType([left EXCEPT !.edits = @ - 1, !.faults = 0], script + 1)
<1>1. /\ left \in [edits : Nat, faults : Nat, timeouts : Nat, idles : Nat] /\ MaxEdits \in Nat
      /\ script \in 1 .. MaxEdits + 1 /\ script + left.edits <= MaxEdits + 1
  BY BoundsAssumption DEF ProcsType
<1>2. \A n \in Nat : n > 0 => n - 1 \in Nat
  OBVIOUS
<1>3. ASSUME left.timeouts > 0 PROVE LeftType([left EXCEPT !.timeouts = @ - 1], script)
  <2>1. PICK n \in Nat : n = left.timeouts - 1
    BY <1>1, <1>2, <1>3
  <2>2. PICK l : l = [left EXCEPT !.timeouts = n]
    OBVIOUS
  <2>3. l \in [edits : Nat, faults : Nat, timeouts : Nat, idles : Nat] /\ l.edits = left.edits
    BY <1>1, <2>2
  <2>4. LeftType(l, script)
    BY <1>1, <2>3 DEF LeftType
  <2>. QED
    BY <2>1, <2>2, <2>4, Zenon
<1>4. ASSUME left.faults > 0 PROVE LeftType(LeftAfterFault, script)
  <2>1. PICK n, z \in Nat : n = left.faults - 1 /\ z = 0
    BY <1>1, <1>2, <1>4
  <2>2. PICK l : l = [left EXCEPT !.faults = n, !.edits = z, !.idles = z]
    OBVIOUS
  <2>3. l \in [edits : Nat, faults : Nat, timeouts : Nat, idles : Nat] /\ l.edits = 0
    BY <1>1, <2>1, <2>2
  <2>4. LeftType(l, script)
    BY <1>1, <2>3 DEF LeftType
  <2>. QED
    BY <2>1, <2>2, <2>4, Zenon DEF LeftAfterFault
<1>5. ASSUME left.idles > 0 PROVE LeftType([left EXCEPT !.idles = @ - 1, !.faults = 0], script)
  <2>1. PICK n, z \in Nat : n = left.idles - 1 /\ z = 0
    BY <1>1, <1>2, <1>5
  <2>2. PICK l : l = [left EXCEPT !.idles = n, !.faults = z]
    OBVIOUS
  <2>3. l \in [edits : Nat, faults : Nat, timeouts : Nat, idles : Nat] /\ l.edits = left.edits
    BY <1>1, <2>1, <2>2
  <2>4. LeftType(l, script)
    BY <1>1, <2>3 DEF LeftType
  <2>. QED
    BY <2>1, <2>2, <2>4, Zenon
<1>6. ASSUME left.edits > 0 PROVE LeftType([left EXCEPT !.edits = @ - 1, !.faults = 0], script + 1)
  <2>1. PICK n, z \in Nat : n = left.edits - 1 /\ z = 0
    BY <1>1, <1>2, <1>6
  <2>2. PICK l : l = [left EXCEPT !.edits = n, !.faults = z]
    OBVIOUS
  <2>3. l \in [edits : Nat, faults : Nat, timeouts : Nat, idles : Nat] /\ l.edits = n
    BY <1>1, <2>1, <2>2
  <2>4. LeftType(l, script + 1)
    <3>1. left.edits \in Nat
      BY <1>1
    <3>. QED
      BY <1>1, <1>6, <2>1, <2>3, <3>1 DEF LeftType
  <2>. QED
    BY <2>1, <2>2, <2>4, Zenon
<1>. QED
  BY <1>3, <1>4, <1>5, <1>6

\* A step that only moves p from one place to another.
LEMMA PlaceType ==
  ASSUME ProcsType, NEW p \in Pids, NEW x, pc' = [pc EXCEPT ![p] = x], mem' = mem,
         LeftType(left', script'), ppid' = ppid, conn' = conn,
         p \in Frontends => x \in FrontendPCs, p \in Backends => x \in BackendPCs,
         p \in Parents => x \in ParentPCs \ {"wait"}
  PROVE  ProcsType'
<1>1. /\ ppid \in [Backends -> Parents \cup {Nil}] /\ conn \in [Backends -> Seq(Frontends)]
      /\ mem = [mem EXCEPT ![p] = mem[p]] /\ mem[p] \in MemType
  BY NothingLeft
<1>2. PICK r \in MemType : r = mem[p]
  BY <1>1
<1>3. Fits(p, x, r)
  BY DEF Fits
<1>4. mem' = [mem EXCEPT ![p] = r]
  BY <1>1, <1>2
<1>. QED
  BY <1>1, <1>3, <1>4, OneMoves

LEMMA VersionSet ==
  ASSUME NEW r \in MemType, NEW v \in 0 .. MaxEdits + 1
  PROVE  [r EXCEPT !.version = v] \in MemType /\ [r EXCEPT !.code = v] \in MemType
BY DEF MemType

\* A step in which p sees the script.
LEMMA SeesType ==
  ASSUME ProcsType, NEW p \in Pids, NEW x, NEW v \in 0 .. MaxEdits + 1, pc' = [pc EXCEPT ![p] = x],
         mem' = [mem EXCEPT ![p].version = v] \/ mem' = [mem EXCEPT ![p].code = v],
         left' = left, script' = script, ppid' = ppid, conn' = conn,
         p \in Frontends => x \in FrontendPCs, p \in Backends => x \in BackendPCs,
         p \in Parents => x \in ParentPCs \ {"wait"}
  PROVE  ProcsType'
<1>1. /\ ppid \in [Backends -> Parents \cup {Nil}] /\ conn \in [Backends -> Seq(Frontends)]
      /\ LeftType(left, script) /\ mem[p] \in MemType /\ mem \in [Pids -> MemType]
  BY NothingLeft
<1>2. PICK r \in MemType : mem' = [mem EXCEPT ![p] = r]
  <2>1. PICK q \in MemType : q = mem[p]
    BY <1>1
  <2>2. [q EXCEPT !.version = v] \in MemType /\ [q EXCEPT !.code = v] \in MemType
    BY VersionSet
  <2>3. \/ mem' = [mem EXCEPT ![p] = [q EXCEPT !.version = v]]
        \/ mem' = [mem EXCEPT ![p] = [q EXCEPT !.code = v]]
    BY <2>1, Zenon
  <2>. QED
    BY <2>2, <2>3, Zenon
<1>3. Fits(p, x, r)
  BY DEF Fits
<1>4. LeftType(left', script')
  BY <1>1
<1>. QED
  BY <1>1, <1>2, <1>3, <1>4, OneMoves

LEMMA ScriptIs ==
  ASSUME ProcsType
  PROVE  script \in 0 .. MaxEdits + 1 /\ LeftType(left, script)
BY NothingLeft

LEMMA StartType ==
  ASSUME IInv, NEW c \in Frontends, FrontendStart(c)
  PROVE  ProcsType'
<1>1. ProcsType /\ c \in Pids /\ c \notin Backends /\ c \notin Parents
  BY KindsAssumption DEF IInv, Pids
<1>2. script \in 0 .. MaxEdits + 1
  BY <1>1, ScriptIs
<1>3. /\ pc' = [pc EXCEPT ![c] = "connect"] /\ mem' = [mem EXCEPT ![c].version = script]
      /\ left' = left /\ script' = script /\ ppid' = ppid /\ conn' = conn
  BY DEF FrontendStart
<1>4. "connect" \in FrontendPCs
  BY DEF FrontendPCs
<1>. QED
  BY <1>1, <1>2, <1>3, <1>4, SeesType

LEMMA WakeType ==
  ASSUME IInv, NEW c \in Frontends, FrontendWake(c)
  PROVE  ProcsType'
<1>1. ProcsType /\ c \in Pids /\ c \notin Backends /\ c \notin Parents
  BY KindsAssumption DEF IInv, Pids
<1>2. PICK v \in Restat(c) :
        /\ pc' = [pc EXCEPT ![c] = IF v = mem[c].version THEN "woken" ELSE "changed"]
        /\ mem' = [mem EXCEPT ![c].version = v]
  BY DEF FrontendWake
<1>3. v \in 0 .. MaxEdits + 1
  BY <1>1, VersionsAre
<1>4. left' = left /\ script' = script /\ ppid' = ppid /\ conn' = conn
  BY DEF FrontendWake
<1>5. PICK x : x = IF v = mem[c].version THEN "woken" ELSE "changed"
  OBVIOUS
<1>6. x \in FrontendPCs /\ pc' = [pc EXCEPT ![c] = x]
  BY <1>2, <1>5 DEF FrontendPCs, Waiting
<1>. QED
  BY <1>1, <1>2, <1>3, <1>4, <1>6, SeesType

LEMMA CompilesType ==
  ASSUME IInv, NEW m \in Parents, ParentStat(m) \/ ParentParse(m)
  PROVE  ProcsType'
<1>1. ProcsType /\ m \in Pids /\ m \notin Backends /\ m \notin Frontends
  BY KindsAssumption DEF IInv, Pids
<1>2. script \in 0 .. MaxEdits + 1
  BY <1>1, ScriptIs
<1>3. PICK x \in {"stated", "parsed"} : pc' = [pc EXCEPT ![m] = x]
  BY DEF ParentStat, ParentParse
<1>4. /\ mem' = [mem EXCEPT ![m].version = script] \/ mem' = [mem EXCEPT ![m].code = script]
      /\ left' = left /\ script' = script /\ ppid' = ppid /\ conn' = conn
  BY DEF ParentStat, ParentParse
<1>5. x \in ParentPCs \ {"wait"}
  BY DEF ParentPCs, Starting
<1>. QED
  BY <1>1, <1>2, <1>3, <1>4, <1>5, SeesType

LEMMA CatchesType ==
  ASSUME IInv, NEW c \in Frontends, FrontendCatches(c)
  PROVE  ProcsType'
<1>1. ProcsType /\ c \in Pids /\ c \notin Backends /\ c \notin Parents
  BY KindsAssumption DEF IInv, Pids
<1>2. LeftType(left, script) /\ "running" \in FrontendPCs
  BY <1>1, ScriptIs DEF FrontendPCs
<1>3. /\ pc' = [pc EXCEPT ![c] = "running"] /\ mem' = mem
      /\ LeftType(left', script') /\ ppid' = ppid /\ conn' = conn
  BY <1>2 DEF FrontendCatches
<1>. QED
  BY <1>1, <1>2, <1>3, PlaceType

LEMMA FrontendEndsType ==
  ASSUME IInv, NEW c \in Frontends, FrontendTooLate(c) \/ FrontendCollect(c)
  PROVE  ProcsType'
<1>1. ProcsType /\ c \in Pids /\ c \notin Backends /\ c \notin Parents
  BY KindsAssumption DEF IInv, Pids
<1>2. PICK s : End(c, s, "none")
  BY DEF FrontendTooLate, FrontendCollect
<1>3. LeftType(left', script)
  BY <1>1, ScriptIs DEF FrontendTooLate, FrontendCollect
<1>4. "none" \in Gone
  BY DEF Gone
<1>. QED
  BY <1>1, <1>2, <1>3, <1>4, EndType

\* The steps of a backend that only move it.
LEMMA BackendPlaceType ==
  ASSUME IInv, NEW b \in Backends,
         BackendReady(b) \/ BackendAccept(b) \/ BackendTerm(b) \/ BackendTimeout(b) \/ BackendBegin(b)
  PROVE  ProcsType'
<1>1. ProcsType /\ b \in Pids /\ b \notin Frontends /\ b \notin Parents
  BY KindsAssumption DEF IInv, Pids
<1>2. PICK x \in {"arming", "accepted", "leaving", "perl"} : pc' = [pc EXCEPT ![b] = x]
  BY DEF BackendReady, OfferItself, BackendAccept, BackendTerm, BackendTimeout, BackendBegin
<1>3. mem' = mem /\ ppid' = ppid /\ conn' = conn /\ script' = script
  BY DEF BackendReady, BackendAccept, BackendTerm, BackendTimeout, BackendBegin
<1>4. left' = left \/ (left.timeouts > 0 /\ left' = [left EXCEPT !.timeouts = @ - 1])
  BY DEF BackendReady, BackendAccept, BackendTerm, BackendTimeout, BackendBegin
<1>5. LeftType(left', script')
  BY <1>1, <1>3, <1>4, ScriptIs, LeftIs
<1>6. x \in BackendPCs
  BY DEF BackendPCs
<1>. QED
  BY <1>1, <1>2, <1>3, <1>5, <1>6, PlaceType

LEMMA BackendEndsType ==
  ASSUME IInv, NEW b \in Backends, BackendGivesUp(b) \/ BackendExit(b)
  PROVE  ProcsType'
<1>1. ProcsType /\ b \in Pids /\ b \notin Frontends /\ b \notin Parents
  BY KindsAssumption DEF IInv, Pids
<1>2. PICK how \in Defunct : End(b, file, how)
  BY DEF BackendGivesUp, BackendExit, Defunct
<1>3. LeftType(left', script)
  BY <1>1, ScriptIs DEF BackendGivesUp, BackendExit
<1>. QED
  BY <1>1, <1>2, <1>3, EndType

LEMMA ArmType ==
  ASSUME IInv, NEW b \in Backends, BackendArm(b)
  PROVE  ProcsType'
<1>1. ProcsType /\ b \in Pids /\ b \notin Frontends /\ b \notin Parents
  BY KindsAssumption DEF IInv, Pids
<1>2. left' = left /\ LeftType(left, script)
  BY <1>1, ScriptIs DEF BackendArm
<1>3. \/ /\ pc' = [pc EXCEPT ![b] = "accept"]
         /\ script' = script /\ mem' = mem /\ ppid' = ppid /\ conn' = conn
      \/ End(b, file, "killed")
  BY DEF BackendArm
<1>4. CASE End(b, file, "killed")
  <2>1. "killed" \in Defunct /\ LeftType(left', script)
    BY <1>2 DEF Defunct
  <2>. QED
    BY <1>1, <1>4, <2>1, EndType
<1>5. CASE /\ pc' = [pc EXCEPT ![b] = "accept"]
           /\ script' = script /\ mem' = mem /\ ppid' = ppid /\ conn' = conn
  <2>1. "accept" \in BackendPCs /\ LeftType(left', script')
    BY <1>2, <1>5 DEF BackendPCs
  <2>. QED
    BY <1>1, <1>5, <2>1, PlaceType
<1>. QED
  BY <1>3, <1>4, <1>5

LEMMA FinishType ==
  ASSUME IInv, NEW b \in Backends, BackendFinish(b)
  PROVE  ProcsType'
<1>1. ProcsType /\ b \in Pids /\ b \notin Frontends /\ b \notin Parents
  BY KindsAssumption DEF IInv, Pids
<1>2. /\ LeftType(left, script) /\ mem[b] \in MemType /\ conn[b] \in Seq(Frontends)
      /\ ppid \in [Backends -> Parents \cup {Nil}] /\ conn \in [Backends -> Seq(Frontends)]
  BY <1>1, NothingLeft
<1>3. conn[b] # <<>> /\ Len(conn[b]) <= 1
  <2>1. pc[b] = "perl"
    BY DEF BackendFinish
  <2>. QED
    BY <2>1 DEF IInv, Sound, FileInv, FileRest, ConnOK
<1>4. PICK list \in Seq(Frontends) : list = Tail(conn[b])
  BY <1>2, <1>3, OnlyOne, EmptySeq
<1>5. PICK n \in Nat : n = IF MaxRuns = 0 THEN 1 ELSE mem[b].numrun + 1
  BY <1>2 DEF MemType
<1>6. PICK r : r = [mem[b] EXCEPT !.numrun = n]
  OBVIOUS
<1>7. PICK x \in {"arming", "leaving"} : pc' = [pc EXCEPT ![b] = x]
  BY DEF BackendFinish, OfferItself
<1>8. conn' = [conn EXCEPT ![b] = list] /\ script' = script /\ left' = left /\ ppid' = ppid
  BY <1>4 DEF BackendFinish
<1>9. mem' = [mem EXCEPT ![b] = r]
  BY <1>5, <1>6, Zenon DEF BackendFinish
<1>10. r \in MemType
  BY <1>2, <1>6 DEF MemType
<1>11. Fits(b, x, r)
  BY <1>1, <1>10 DEF Fits, BackendPCs
<1>12. conn' \in [Backends -> Seq(Frontends)]
  BY <1>2, <1>8
<1>13. LeftType(left', script') /\ ppid' \in [Backends -> Parents \cup {Nil}]
  BY <1>2, <1>8
<1>. QED
  BY <1>1, <1>7, <1>9, <1>11, <1>12, <1>13, OneMoves

LEMMA CrashType ==
  ASSUME IInv, NEW p \in Pids, Crash(p)
  PROVE  ProcsType'
<1>1. ProcsType
  BY DEF IInv
<1>2. PICK how : how = IF p \in Backends THEN "killed" ELSE "none"
  OBVIOUS
<1>3. End(p, file, how) /\ left' = LeftAfterFault /\ left.faults > 0
  BY <1>2, Zenon DEF Crash
<1>4. LeftType(left', script)
  BY <1>1, <1>3, LeftIs
<1>5. /\ p \in Frontends => how \in Gone
      /\ p \in Backends => how \in Defunct
      /\ p \in Parents => how = "none"
  BY <1>2, KindsAssumption DEF Gone, Defunct
<1>. QED
  BY <1>1, <1>3, <1>4, <1>5, EndType

LEMMA KilledType ==
  ASSUME IInv, NEW m \in Parents, ParentKilled(m)
  PROVE  ProcsType'
<1>1. ProcsType /\ m \in Pids /\ m \notin Frontends /\ m \notin Backends
  BY KindsAssumption DEF IInv, Pids
<1>2. End(m, file, "none") /\ LeftType(left', script)
  BY <1>1, ScriptIs DEF ParentKilled
<1>. QED
  BY <1>1, <1>2, EndType

LEMMA EditIs ==
  ASSUME IInv, Edit
  PROVE  IInv'
<1>1. ProcsType /\ Sound(file, {}, pc, mem, conn)
  BY DEF IInv
<1>2. /\ left' = [left EXCEPT !.edits = @ - 1, !.faults = 0] /\ left.edits > 0 /\ script' = script + 1
      /\ file' = file /\ pc' = pc /\ mem' = mem /\ ppid' = ppid /\ conn' = conn
  BY DEF Edit
<1>3. LeftType(left', script')
  BY <1>1, <1>2, LeftIs
<1>4. ProcsType'
  BY <1>1, <1>2, <1>3 DEF ProcsType, LeftType
<1>5. Sound(file, {}, pc, mem, conn)'
  BY <1>1, <1>2
<1>. QED
  BY <1>4, <1>5 DEF IInv

LEMMA ParentWakeType ==
  ASSUME IInv, NEW m \in Parents, ParentWake(m)
  PROVE  ProcsType'
<1>1. ProcsType /\ m \in Pids /\ m \notin Frontends /\ m \notin Backends
  BY KindsAssumption DEF IInv, Pids
<1>2. /\ LeftType(left, script) /\ mem[m] \in MemType
      /\ ppid \in [Backends -> Parents \cup {Nil}] /\ conn \in [Backends -> Seq(Frontends)]
  BY <1>1, NothingLeft
<1>3. PICK S : S = file.sigs[m]
  OBVIOUS
<1>4. S \in SUBSET {"CHLD", "USR1"}
  <2>1. S \in SUBSET {"CHLD", "USR1", "TERM", "KILL"}
    BY <1>1, <1>3 DEF IInv, Sound, FileInv, FileRest, Files
  <2>2. "TERM" \notin S
    BY <1>3 DEF IInv, Sound, FileInv, FileRest, QuietOK
  <2>3. "KILL" \notin S
    BY <1>3 DEF ParentWake, Doomed
  <2>. QED
    BY <2>1, <2>2, <2>3
<1>5. PICK got \in SUBSET {"CHLD", "USR1", "ALRM"} : mem' = [mem EXCEPT ![m].got = got]
  <2>1. S \in SUBSET {"CHLD", "USR1", "ALRM"} /\ S \cup {"ALRM"} \in SUBSET {"CHLD", "USR1", "ALRM"}
    BY <1>4
  <2>2. mem' = [mem EXCEPT ![m].got = S] \/ mem' = [mem EXCEPT ![m].got = S \cup {"ALRM"}]
    BY <1>3, Zenon DEF ParentWake
  <2>. QED
    BY <2>1, <2>2, Zenon
<1>6. PICK r : r = [mem[m] EXCEPT !.got = got]
  OBVIOUS
<1>7. r \in MemType
  BY <1>2, <1>6 DEF MemType
<1>8. mem' = [mem EXCEPT ![m] = r]
  BY <1>5, <1>6, Zenon
<1>9. /\ left' = left \/ (left.idles > 0 /\ left' = [left EXCEPT !.idles = @ - 1, !.faults = 0])
      /\ pc' = [pc EXCEPT ![m] = "serve"] /\ script' = script /\ ppid' = ppid /\ conn' = conn
  BY DEF ParentWake
<1>10. LeftType(left', script')
  BY <1>1, <1>2, <1>9, LeftIs
<1>11. Fits(m, "serve", r)
  BY <1>1, <1>7 DEF Fits, ParentPCs
<1>. QED
  BY <1>1, <1>2, <1>8, <1>9, <1>10, <1>11, OneMoves

\* What is in memory of a parent that sleeps, and of its new child.
AsleepWith(g, v, a) == [Blank EXCEPT !.group = g, !.code = v, !.alarm = a]
BornWith(g, v) == [Blank EXCEPT !.group = g, !.code = v]

LEMMA NewParentIs ==
  ASSUME NEW g \in Groups, NEW v \in 0 .. MaxEdits + 1, NEW a \in BOOLEAN
  PROVE  /\ AsleepWith(g, v, a) \in MemType /\ AsleepWith(g, v, a).got = {}
         /\ BornWith(g, v) \in MemType
<1>1. Blank \in MemType /\ Blank.got = {}
  BY BlankIs
<1>2. AsleepWith(g, v, a) \in MemType
  BY <1>1 DEF MemType, AsleepWith
<1>3. BornWith(g, v) \in MemType
  BY <1>1 DEF MemType, BornWith
<1>4. AsleepWith(g, v, a).got = {}
  BY <1>1 DEF MemType, AsleepWith
<1>. QED
  BY <1>2, <1>3, <1>4

LEMMA SleepType ==
  ASSUME IInv, NEW m \in Parents, NEW g \in Groups, NEW s, NEW dead \in SUBSET Backends,
         NEW forks, NEW b \in Children(forks), Sleep(m, g, s, dead, b, forks)
  PROVE  ProcsType'
<1>1. /\ ProcsType /\ m \in Pids /\ m \notin Backends /\ m \notin Frontends
      /\ \A x \in Backends : x \in Pids /\ x \notin Parents /\ x \notin Frontends
      /\ Nil \notin Pids
  BY KindsAssumption DEF IInv, Pids
<1>2. /\ LeftType(left, script) /\ mem \in [Pids -> MemType] /\ DOMAIN pc = Pids
      /\ ppid \in [Backends -> Parents \cup {Nil}] /\ conn \in [Backends -> Seq(Frontends)]
  BY <1>1, NothingLeft
<1>3. b \in Backends \cup {Nil}
  BY ChildrenAre
<1>4. PICK a \in BOOLEAN : a = (s.bes[g] = <<>> /\ pc[m] = "serve")
  OBVIOUS
<1>5. PICK v \in 0 .. MaxEdits + 1 : v = mem[m].code
  BY <1>1, <1>2 DEF MemType
<1>6. PICK x, y : x = AsleepWith(g, v, a) /\ y = BornWith(g, v)
  OBVIOUS
<1>7. x \in MemType /\ x.got = {} /\ y \in MemType
  BY <1>6, NewParentIs
<1>8. /\ pc' = [p \in Pids |-> IF p = m THEN "wait" ELSE IF p = b THEN "born"
                               ELSE IF p \in dead THEN "none" ELSE pc[p]]
      /\ ppid' = [z \in Backends |-> IF z = b THEN m ELSE IF z \in dead THEN Nil ELSE ppid[z]]
      /\ left' = IF b = Nil /\ Children(forks) # {Nil} THEN LeftAfterFault ELSE left
      /\ script' = script /\ conn' = conn
  BY DEF Sleep
<1>9. mem' = [p \in Pids |-> IF p = m THEN x ELSE IF p = b THEN y ELSE mem[p]]
  BY <1>4, <1>5, <1>6, Zenon DEF Sleep, AsleepWith, BornWith
<1>10. LeftType(left', script')
  <2>1. CASE b = Nil /\ Children(forks) # {Nil}
    <3>1. left.faults > 0
      BY <1>1, <2>1 DEF Children, Pids
    <3>. QED
      BY <1>1, <1>8, <2>1, <3>1, LeftIs
  <2>2. CASE ~(b = Nil /\ Children(forks) # {Nil})
    BY <1>2, <1>8, <2>2
  <2>. QED
    BY <2>1, <2>2
<1>11. ASSUME NEW p \in Pids PROVE (pc'[p] = pc[p] /\ mem'[p] = mem[p]) \/ Fits(p, pc'[p], mem'[p])
  <2>1. CASE p = m
    <3>1. pc'[p] = "wait" /\ mem'[p] = x
      BY <1>8, <1>9, <2>1
    <3>. QED
      BY <1>1, <1>7, <2>1, <3>1 DEF Fits, ParentPCs
  <2>2. CASE p = b
    <3>1. pc'[p] = "born" /\ mem'[p] = y /\ p \in Backends
      BY <1>1, <1>3, <1>8, <1>9, <2>2
    <3>. QED
      BY <1>1, <1>7, <3>1 DEF Fits, BackendPCs
  <2>3. CASE p # m /\ p # b /\ p \in dead
    <3>1. pc'[p] = "none" /\ mem'[p] = mem[p] /\ p \in Backends /\ mem[p] \in MemType
      BY <1>2, <1>8, <1>9, <2>3
    <3>. QED
      BY <1>1, <3>1 DEF Fits, BackendPCs
  <2>4. CASE p # m /\ p # b /\ p \notin dead
    BY <1>8, <1>9, <2>4
  <2>. QED
    BY <2>1, <2>2, <2>3, <2>4
<1>12. DOMAIN pc' = Pids /\ mem' = [p \in Pids |-> mem'[p]]
  BY <1>8, <1>9
<1>13. ppid' \in [Backends -> Parents \cup {Nil}]
  BY <1>2, <1>8
<1>. QED
  BY <1>1, <1>2, <1>8, <1>10, <1>11, <1>12, <1>13, SomeMove

LEMMA InstallsType ==
  ASSUME IInv, NEW m \in Parents, ParentInstall(m)
  PROVE  ProcsType'
<1>1. /\ Sound(file, {}, pc, mem, conn) /\ ProcsType
      /\ m \in Pids /\ m \notin Frontends /\ m \notin Backends
  BY KindsAssumption DEF IInv, Pids
<1>2. PICK v \in Restat(m) : \E g \in Findable(file, v) :
        ExitsFor(m, ScriptFind(file, Alive, m, v, g), g)
        \/ InstallsIn(m, ScriptFind(file, Alive, m, v, g), g)
  BY InstallIs
<1>3. PICK g \in Findable(file, v) :
        ExitsFor(m, ScriptFind(file, Alive, m, v, g), g)
        \/ InstallsIn(m, ScriptFind(file, Alive, m, v, g), g)
  BY <1>2
<1>4. v \in Nat
  BY <1>1, VersionsAre
<1>5. PICK s : s = ScriptFind(file, Alive, m, v, g)
  OBVIOUS
<1>6. g \in Groups
  BY <1>1, <1>4, <1>5, ScriptFindSound
<1>7. CASE ExitsFor(m, s, g)
  <2>1. PICK t : End(m, t, "none")
    BY <1>7 DEF ExitsFor
  <2>2. LeftType(left', script)
    BY <1>1, <1>7, ScriptIs DEF ExitsFor
  <2>. QED
    BY <1>1, <2>1, <2>2, EndType
<1>8. CASE InstallsIn(m, s, g)
  <2>1. PICK forks : forks = WillFork(SetParent(AfterAsking(s, g, m), g, m), Alive, m, g)
    OBVIOUS
  <2>2. PICK b \in Children(forks) :
          Sleep(m, g, StartChild(SetParent(AfterAsking(s, g, m), g, m), Alive, m, g, b), {}, b, forks)
    BY <1>8, <2>1 DEF InstallsIn
  <2>3. PICK t : t = StartChild(SetParent(AfterAsking(s, g, m), g, m), Alive, m, g, b)
    OBVIOUS
  <2>4. PICK dead \in SUBSET Backends : dead = {}
    OBVIOUS
  <2>5. Sleep(m, g, t, dead, b, forks)
    BY <2>2, <2>3, <2>4
  <2>. QED
    BY <1>6, <2>5, SleepType
<1>. QED
  BY <1>3, <1>5, <1>7, <1>8

LEMMA ServeType ==
  ASSUME IInv, NEW m \in Parents, ParentServe(m)
  PROVE  ProcsType'
<1>1. /\ Sound(file, {}, pc, mem, conn) /\ ProcsType
      /\ m \in Pids /\ m \notin Frontends /\ m \notin Backends
  BY KindsAssumption DEF IInv, Pids
<1>2. PICK g : g = mem[m].group
  OBVIOUS
<1>3. g \in Groups
  <2>1. pc[m] = "serve" /\ "KILL" \notin file.sigs[m]
    BY DEF ParentServe, Doomed
  <2>. QED
    BY <1>1, <1>2, <2>1 DEF Sound, FileInv, FileRest, ParentsOwn
<1>4. PICK dead \in SUBSET Backends : dead = {b \in Backends : ppid[b] = m /\ pc[b] \in Defunct}
  OBVIOUS
<1>5. PICK s, t, forks, b :
        \/ End(m, s, "none") /\ left' = left
        \/ b \in Children(forks) /\ Sleep(m, g, t, dead, b, forks)
  BY <1>2, <1>4, Zenon DEF ParentServe
<1>6. CASE End(m, s, "none") /\ left' = left
  <2>1. LeftType(left', script)
    BY <1>1, <1>6, ScriptIs
  <2>. QED
    BY <1>1, <1>6, <2>1, EndType
<1>7. CASE b \in Children(forks) /\ Sleep(m, g, t, dead, b, forks)
  BY <1>3, <1>7, SleepType
<1>. QED
  BY <1>5, <1>6, <1>7

-----------------------------------------------------------------------------
(* The invariant holds                                                     *)

LEMMA EmptyIs ==
  /\ EmptyFile \in Files
  /\ EmptyFile.glist = <<>> /\ EmptyFile.run = <<>>
  /\ \A g \in Groups : /\ EmptyFile.version[g] = 0 /\ EmptyFile.starting[g] = Nil
                       /\ EmptyFile.parent[g] = Nil
                       /\ EmptyFile.bes[g] = <<>> /\ EmptyFile.fes[g] = <<>>
  /\ \A b \in Backends : EmptyFile.fe_running[b] = Nil
  /\ \A c \in Frontends : EmptyFile.backend[c] = Nil /\ ~EmptyFile.sent_sig[c]
  /\ \A p \in Pids : EmptyFile.sigs[p] = {}
<1>1. \A S : <<>> \in Seq(S)
  BY EmptySeq
<1>2. EmptyFile \in Files
  BY <1>1 DEF EmptyFile, Files
<1>. QED
  BY <1>2 DEF EmptyFile

LEMMA StartsSound ==
  ASSUME Init
  PROVE  Sound(file, {}, pc, mem, conn)
<1>1. PICK s : s = file
  OBVIOUS
<1>2. /\ s \in Files /\ s.glist = <<>> /\ s.run = <<>>
      /\ \A g \in Groups : /\ s.version[g] = 0 /\ s.starting[g] = Nil /\ s.parent[g] = Nil
                           /\ s.bes[g] = <<>> /\ s.fes[g] = <<>>
      /\ \A b \in Backends : s.fe_running[b] = Nil
      /\ \A c \in Frontends : s.backend[c] = Nil /\ ~s.sent_sig[c]
      /\ \A p \in Pids : s.sigs[p] = {}
  BY <1>1, EmptyIs DEF Init
<1>3. /\ \A p \in Pids : pc[p] = "none"
      /\ \A b \in Backends : conn[b] = <<>>
  BY DEF Init
<1>4. /\ Range(<<>>) = {} /\ (\A x, y : ~InOrder(<<>>, x, y)) /\ IsInjective(<<>>)
      /\ Nil \notin Pids
  BY EmptyList, KindsAssumption DEF IsInjective
<1>5. /\ SelfOK(s.fe_running) /\ OnceOK(s.glist, s.run, s.bes, s.fes)
      /\ ApartOK(s.run, s.bes, s.fes)
      /\ FreeOK(s.glist, s.version, s.starting, s.parent, s.bes, s.fes)
      /\ ValidOK(s.glist, s.version)
  BY <1>2, <1>4 DEF SelfOK, OnceOK, ApartOK, FreeOK, ValidOK
<1>6. BackendsOwn(s.bes, pc, mem) /\ QueueOwn(s.fes, pc, mem) /\ RunOwn(s.run, s.backend, pc)
  BY <1>2, <1>3, <1>4 DEF BackendsOwn, QueueOwn, RunOwn, Pids, Waiting, Active
<1>7. ParentsOwn(s.parent, s.sigs, pc, mem) /\ PairOK(s.run, s.fe_running, s.backend)
  BY <1>2, <1>3, <1>4 DEF ParentsOwn, PairOK, Pids
<1>8. ConnOK(s.fe_running, pc, conn)
  <2>1. PICK e \in Seq(Frontends) : e = <<>>
    BY EmptySeq
  <2>2. Len(e) = 0
    BY <2>1, EmptySeq
  <2>3. \A b \in Backends : conn[b] = e
    BY <1>3, <2>1
  <2>4. e \in Seq(Frontends) /\ Len(e) <= 1
    BY <2>2
  <2>5. \A b \in Backends : pc[b] \notin {"accepted", "perl"} /\ pc[b] # "born"
    BY <1>3 DEF Pids
  <2>. QED
    BY <1>3, <2>3, <2>4, <2>5, Zenon DEF ConnOK
<1>9. StatusOK(s.backend, pc, conn) /\ WaitingOK(s.bes, s.fe_running, s.maturity, {})
  BY <1>2, <1>3, <1>4 DEF StatusOK, WaitingOK, Pids, Active
<1>10. ToldOK(s.fes, s.sent_sig, pc) /\ StartsUpOK(s.starting, s.parent, pc) /\ QuietOK(s.sigs, pc)
  BY <1>2, <1>4 DEF ToldOK, StartsUpOK, QuietOK, Pids
<1>11. FileInv(s, {}, pc, mem, conn)
  BY <1>2, <1>5, <1>6, <1>7, <1>8, <1>9, <1>10 DEF FileInv, FileRest
<1>12. FullOK(s.bes)
  <2>1. PICK z : z = {} /\ Cardinality(z) = 0
    BY FS_EmptySet
  <2>2. \A g \in Groups : Range(s.bes[g]) = z
    BY <1>2, <1>4, <2>1
  <2>3. MaxBackends \in Nat
    BY BoundsAssumption
  <2>. QED
    BY <2>1, <2>2, <2>3 DEF FullOK
<1>13. /\ NamedOK(s.starting, s.parent, pc) /\ InstalledOK(s.version, s.parent, pc, mem)
       /\ AskedOK(s.version, s.starting, s.bes, s.sigs, pc, mem)
       /\ NewOK(s.version, s.parent, s.bes) /\ ComesOK(s.starting, s.bes, pc, conn)
  BY <1>2, <1>4 DEF NamedOK, InstalledOK, AskedOK, NewOK, ComesOK, Pids
<1>. QED
  BY <1>1, <1>11, <1>12, <1>13 DEF Sound, StartInv

LEMMA InitIInv == Init => IInv
<1>. SUFFICES ASSUME Init PROVE IInv
  OBVIOUS
<1>1. Sound(file, {}, pc, mem, conn)
  BY StartsSound
<1>2. /\ script = 1 /\ (\A p \in Pids : pc[p] = "none") /\ DOMAIN pc = Pids
      /\ left = [edits |-> MaxEdits, faults |-> MaxFaults, timeouts |-> MaxTimeouts, idles |-> MaxIdles]
  BY DEF Init
<1>3. MaxEdits \in Nat /\ MaxFaults \in Nat /\ MaxTimeouts \in Nat /\ MaxIdles \in Nat
  BY BoundsAssumption
<1>4. /\ script \in 1 .. MaxEdits + 1 /\ script + left.edits <= MaxEdits + 1
      /\ left \in [edits : Nat, faults : Nat, timeouts : Nat, idles : Nat]
  BY <1>2, <1>3
<1>5. mem \in [Pids -> MemType]
  <2>1. PICK r \in MemType : r = Blank
    BY BlankIs
  <2>2. mem = [p \in Pids |-> r]
    BY <2>1, Zenon DEF Init
  <2>. QED
    BY <2>2
<1>6. conn \in [Backends -> Seq(Frontends)] /\ ppid \in [Backends -> Parents \cup {Nil}]
  BY EmptySeq DEF Init
<1>7. /\ \A c \in Frontends : pc[c] \in FrontendPCs
      /\ \A b \in Backends : pc[b] \in BackendPCs
      /\ \A m \in Parents : pc[m] \in ParentPCs
      /\ \A m \in Parents : pc[m] = "wait" => mem[m].got = {}
  BY <1>2 DEF Pids, FrontendPCs, BackendPCs, ParentPCs
<1>8. ProcsType
  BY <1>2, <1>4, <1>5, <1>6, <1>7 DEF ProcsType
<1>. QED
  BY <1>1, <1>8 DEF IInv

LEMMA FrontendKeeps ==
  ASSUME IInv, NEW c \in Frontends, FrontendStart(c) \/ Frontend(c)
  PROVE  IInv'
<1>1. CASE FrontendStart(c)
  BY <1>1, StartSound, StartType DEF IInv
<1>2. CASE FrontendConnect(c)
  BY <1>2, ConnectSound, ConnectType DEF IInv
<1>3. CASE FrontendWake(c)
  BY <1>3, WakeSound, WakeType DEF IInv
<1>4. CASE FrontendRecheck(c)
  BY <1>4, RecheckSound, RecheckType DEF IInv
<1>5. CASE FrontendCatches(c)
  BY <1>5, CatchesSound, CatchesType DEF IInv
<1>6. CASE FrontendTooLate(c)
  BY <1>6, TooLateSound, FrontendEndsType DEF IInv
<1>7. CASE FrontendCollect(c)
  BY <1>7, CollectSound, FrontendEndsType DEF IInv
<1>. QED
  BY <1>1, <1>2, <1>3, <1>4, <1>5, <1>6, <1>7 DEF Frontend

LEMMA BackendKeeps ==
  ASSUME IInv, NEW b \in Backends, BackendTimeout(b) \/ Backend(b)
  PROVE  IInv'
<1>1. CASE BackendReady(b)
  BY <1>1, ReadySound, BackendPlaceType DEF IInv
<1>2. CASE BackendArm(b)
  BY <1>2, ArmSound, ArmType DEF IInv
<1>3. CASE BackendAccept(b)
  BY <1>3, AcceptSound, BackendPlaceType DEF IInv
<1>4. CASE BackendTerm(b) \/ BackendTimeout(b)
  BY <1>4, TermSound, BackendPlaceType DEF IInv
<1>5. CASE BackendBegin(b)
  BY <1>5, BeginSound, BackendPlaceType DEF IInv
<1>6. CASE BackendFinish(b)
  BY <1>6, FinishSound, FinishType DEF IInv
<1>7. CASE BackendGivesUp(b) \/ BackendExit(b)
  BY <1>7, ExitSound, BackendEndsType DEF IInv
<1>. QED
  BY <1>1, <1>2, <1>3, <1>4, <1>5, <1>6, <1>7 DEF Backend

LEMMA ParentKeeps ==
  ASSUME IInv, NEW m \in Parents, Parent(m)
  PROVE  IInv'
<1>1. CASE ParentStat(m) \/ ParentParse(m)
  BY <1>1, CompilesSound, CompilesType DEF IInv
<1>2. CASE ParentInstall(m)
  BY <1>2, InstallsSound, InstallsType DEF IInv
<1>3. CASE ParentWake(m)
  BY <1>3, ParentWakeSound, ParentWakeType DEF IInv
<1>4. CASE ParentServe(m)
  BY <1>4, ServeSound, ServeType DEF IInv
<1>5. CASE ParentKilled(m)
  BY <1>5, KilledSound, KilledType DEF IInv
<1>. QED
  BY <1>1, <1>2, <1>3, <1>4, <1>5 DEF Parent

LEMMA StepIInv == IInv /\ [Next]_vars => IInv'
<1>. SUFFICES ASSUME IInv, [Next]_vars PROVE IInv'
  OBVIOUS
<1>1. CASE \E c \in Frontends : FrontendStart(c) \/ Frontend(c)
  BY <1>1, FrontendKeeps
<1>2. CASE \E b \in Backends : BackendTimeout(b) \/ Backend(b)
  BY <1>2, BackendKeeps
<1>3. CASE \E m \in Parents : Parent(m)
  BY <1>3, ParentKeeps
<1>4. ASSUME NEW p \in Pids, Crash(p) PROVE IInv'
  BY <1>4, CrashSound, CrashType DEF IInv
<1>5. CASE Edit
  BY <1>5, EditIs
<1>6. CASE UNCHANGED vars
  BY <1>6 DEF vars, IInv, ProcsType
<1>. QED
  BY <1>1, <1>2, <1>3, <1>4, <1>5, <1>6 DEF Next


-----------------------------------------------------------------------------
(* The theorems                                                            *)

LEMMA InUse ==
  ASSUME IInv, NEW g \in Groups, file.bes[g] # <<>> \/ file.fes[g] # <<>> \/ file.parent[g] # Nil
  PROVE  g \in Range(file.glist)
BY DEF IInv, Sound, FileInv, FileRest, FreeOK

\* The invariant is one: whatever the processes do, whenever one of them is
\* killed, and however many there are, the temp file fits what they are at.
THEOREM InvariantHolds == Spec => []IInv
BY InitIInv, StepIInv, PTL DEF Spec

\* Processes are only ever at the places of the model, have in memory what
\* fits there, and the lists of the temp file name each slot once.
THEOREM TypeCorrect == Spec => []TypeOK
<1>1. ASSUME IInv PROVE TypeOK
  <2>1. ProcsType /\ FileRest(file, pc, mem, conn)
    BY <1>1 DEF IInv, Sound, FileInv
  <2>2. ASSUME NEW b \in Backends PROVE IsInjective(conn[b]) /\ Range(conn[b]) \subseteq Frontends
    <3>1. PICK list \in Seq(Frontends) : list = conn[b] /\ Len(list) <= 1
      BY <2>1 DEF FileRest, ConnOK
    <3>2. DOMAIN list = 1 .. Len(list) /\ Len(list) \in Nat /\ Range(list) \subseteq Frontends
      BY ElementsOf
    <3>3. \A i, j \in DOMAIN list : i = j
      BY <3>1, <3>2
    <3>. QED
      BY <3>1, <3>2, <3>3 DEF IsInjective
  <2>3. /\ IsInjective(file.glist) /\ Range(file.glist) \subseteq Groups
        /\ IsInjective(file.run) /\ Range(file.run) \subseteq Frontends
    BY <2>1, ElementsOf DEF FileRest, Files, OnceOK
  <2>4. ASSUME NEW g \in Groups
        PROVE  /\ IsInjective(file.bes[g]) /\ Range(file.bes[g]) \subseteq Backends
               /\ IsInjective(file.fes[g]) /\ Range(file.fes[g]) \subseteq Frontends
               /\ file.starting[g] \in Backends \cup Parents \cup {Nil}
               /\ file.parent[g] \in Parents \cup {Nil}
    <3>1. file.bes[g] \in Seq(Backends) /\ file.fes[g] \in Seq(Frontends)
      BY <2>1 DEF FileRest, Files
    <3>2. Range(file.bes[g]) \subseteq Backends /\ Range(file.fes[g]) \subseteq Frontends
      BY <3>1, ElementsOf
    <3>. QED
      BY <2>1, <3>2 DEF FileRest, Files, OnceOK
  <2>5. /\ \A b \in Backends : file.fe_running[b] \in Frontends \cup {b, Nil}
        /\ \A c \in Frontends : file.backend[c] \in Backends \cup {Nil}
    BY <2>1 DEF FileRest, Files, SelfOK
  <2>. QED
    BY <2>1, <2>2, <2>3, <2>4, <2>5 DEF TypeOK, ProcsType, MemType
<1>. QED
  BY <1>1, InvariantHolds, PTL

\* Nobody frees the slot of a process that goes on to use it, whoever buries
\* the dead (speedy_frontend_dispose, speedy_backend_dispose, collect_child,
\* do_cleanup, speedy_group_cleanup).
THEOREM SlotsOwnedHolds == Spec => []SlotsOwned
<1>1. ASSUME IInv PROVE SlotsOwned
  <2>1. FileRest(file, pc, mem, conn)
    BY <1>1 DEF IInv, Sound, FileInv
  <2>2. ASSUME NEW b \in Backends, Lives(b)
        PROVE  mem[b].group \in Range(file.glist) /\ b \in Range(file.bes[mem[b].group])
    <3>1. pc[b] \notin Defunct \cup {"none"}
      BY <2>2 DEF Lives, Alive
    <3>2. PICK g \in Groups : g = mem[b].group /\ b \in Range(file.bes[g])
      BY <2>1, <3>1 DEF FileRest, BackendsOwn
    <3>3. file.bes[g] # <<>>
      BY <3>2, EmptyList
    <3>. QED
      BY <1>1, <3>2, <3>3, InUse
  <2>3. ASSUME NEW c \in Frontends, pc[c] \in Waiting
        PROVE  mem[c].group \in Range(file.glist) /\ c \in Range(file.fes[mem[c].group])
    <3>1. PICK g \in Groups : g = mem[c].group /\ c \in Range(file.fes[g])
      BY <2>1, <2>3 DEF FileRest, QueueOwn
    <3>2. file.fes[g] # <<>>
      BY <3>1, EmptyList
    <3>. QED
      BY <1>1, <3>1, <3>2, InUse
  <2>4. ASSUME NEW c \in Frontends, pc[c] \in {"connected", "running"} PROVE c \in Range(file.run)
    BY <2>1, <2>4 DEF FileRest, RunOwn, Active
  <2>5. ASSUME NEW m \in Parents, pc[m] \in {"wait", "serve"}, ~Doomed(m)
        PROVE  mem[m].group \in Range(file.glist) /\ file.parent[mem[m].group] = m
    <3>1. mem[m].group \in Groups /\ file.parent[mem[m].group] = m /\ m # Nil
      BY <2>1, <2>5, KindsAssumption DEF FileRest, ParentsOwn, Doomed, Pids
    <3>. QED
      BY <1>1, <3>1, InUse
  <2>. QED
    BY <2>2, <2>3, <2>4, <2>5 DEF SlotsOwned
<1>. QED
  BY <1>1, InvariantHolds, PTL

\* A backend belongs to one frontend at most, and the slots of both say so
\* (speedy_frontend_connect, speedy_backend_exited, speedy_frontend_dispose).
THEOREM PairedHolds == Spec => []Paired
<1>1. ASSUME IInv PROVE Paired
  <2>1. PairOK(file.run, file.fe_running, file.backend) /\ file.run \in Seq(Frontends)
    BY <1>1 DEF IInv, Sound, FileInv, FileRest, Files
  <2>2. Range(file.run) \subseteq Frontends
    BY <2>1, ElementsOf
  <2>. QED
    BY <2>1, <2>2 DEF PairOK, Paired
<1>. QED
  BY <1>1, InvariantHolds, PTL

\* The backend that the slot of a frontend names is still to send its status,
\* or to be found dead: a frontend does not wait for nothing
\* (speedy_frontend_collect_status, speedy_backend_exited).
THEOREM StatusWillCome == Spec => []StatusComes
<1>1. ASSUME IInv PROVE StatusComes
  <2>1. StatusOK(file.backend, pc, conn) /\ file \in Files
    BY <1>1 DEF IInv, Sound, FileInv, FileRest
  <2>2. ASSUME NEW c \in Frontends, pc[c] \in {"connected", "running"}, file.backend[c] # Nil,
               NEW b, b = file.backend[c]
        PROVE  b \notin Alive \/ pc[b] \in Defunct \cup {"leaving"} \/ c \in Range(conn[b])
    <3>1. pc[b] \in {"none", "leaving"} \cup Defunct \/ c \in Range(conn[b])
      BY <2>1, <2>2 DEF StatusOK, Active
    <3>2. pc[b] = "none" => b \notin Alive
      BY DEF Alive
    <3>. QED
      BY <3>1, <3>2
  <2>. QED
    BY <2>2 DEF StatusComes
<1>. QED
  BY <1>1, InvariantHolds, PTL

\* The backends that wait are in front, the most mature first, so the head is
\* the one to take (speedy_backend_be_wait_put, speedy_backend_be_wait_get).
THEOREM WaitingInFront == Spec => []WaitingFirst
<1>1. ASSUME IInv PROVE WaitingFirst
  <2>1. WaitingOK(file.bes, file.fe_running, file.maturity, {}) /\ file \in Files
    BY <1>1 DEF IInv, Sound, FileInv, FileRest
  <2>2. ASSUME NEW g \in Groups, NEW i \in DOMAIN file.bes[g], NEW j \in DOMAIN file.bes[g],
               i < j, IsWaiting(file, file.bes[g][j])
        PROVE  /\ IsWaiting(file, file.bes[g][i])
               /\ file.maturity[file.bes[g][i]] >= file.maturity[file.bes[g][j]]
    <3>1. PICK x, y \in Backends : x = file.bes[g][i] /\ y = file.bes[g][j]
      BY <2>1 DEF Files
    <3>2. InOrder(file.bes[g], x, y) /\ file.fe_running[y] = Nil
      BY <2>2, <3>1 DEF InOrder, IsWaiting
    <3>3. file.fe_running[x] = Nil /\ file.maturity[x] >= file.maturity[y]
      BY <2>1, <3>2 DEF WaitingOK
    <3>. QED
      BY <3>1, <3>3 DEF IsWaiting
  <2>. QED
    BY <2>2 DEF WaitingFirst
<1>. QED
  BY <1>1, InvariantHolds, PTL

\* Behind the head of the group list all groups are invalid, so nothing is
\* missed by speedy_script_find, which stops at the first that is.
THEOREM ValidInFront == Spec => []ValidFirst
<1>1. ASSUME IInv PROVE ValidFirst
  <2>1. ValidOK(file.glist, file.version) /\ file.glist \in Seq(Groups)
    BY <1>1 DEF IInv, Sound, FileInv, FileRest, Files
  <2>2. ASSUME NEW i \in DOMAIN file.glist, NEW j \in DOMAIN file.glist, i < j
        PROVE  ~IsValid(file, file.glist[j])
    <3>1. PICK x, y \in Groups : x = file.glist[i] /\ y = file.glist[j]
      BY <2>1
    <3>2. InOrder(file.glist, x, y)
      BY <2>2, <3>1 DEF InOrder
    <3>3. file.version[y] = 0
      BY <2>1, <3>2 DEF ValidOK
    <3>. QED
      BY <3>1, <3>3 DEF IsValid
  <2>. QED
    BY <2>2 DEF ValidFirst
<1>. QED
  BY <1>1, InvariantHolds, PTL

\* Frontends are served in turn: whoever is told to take a backend stands in
\* front of its queue (speedy_group_sendsigs, frontend_check_prev).
THEOREM OnlyHeadIsTold == Spec => []HeadIsTold
<1>1. ASSUME IInv PROVE HeadIsTold
  <2>1. /\ ToldOK(file.fes, file.sent_sig, pc) /\ QueueOwn(file.fes, pc, mem)
        /\ ApartOK(file.run, file.bes, file.fes) /\ file \in Files /\ ProcsType
    BY <1>1 DEF IInv, Sound, FileInv, FileRest
  <2>2. ASSUME NEW c \in Frontends, file.sent_sig[c], c \in Alive
        PROVE  pc[c] \in Waiting /\ file.fes[mem[c].group] # <<>> /\ Head(file.fes[mem[c].group]) = c
    <3>1. pc[c] \notin Gone /\ pc[c] # "leaving"
      BY <2>1, <2>2 DEF Alive, Gone, ProcsType, FrontendPCs, Waiting
    <3>2. PICK g \in Groups : c \in Range(file.fes[g]) /\ \A d \in Frontends : ~InOrder(file.fes[g], d, c)
      BY <2>1, <2>2, <3>1 DEF ToldOK
    <3>3. pc[c] \in Waiting
      BY <2>1, <3>1, <3>2 DEF QueueOwn
    <3>4. mem[c].group = g
      BY <2>1, <3>2, <3>3 DEF QueueOwn, ApartOK
    <3>5. PICK list \in Seq(Frontends) : list = file.fes[g]
      BY <2>1 DEF Files
    <3>6. DOMAIN list = 1 .. Len(list) /\ Len(list) \in Nat
      BY ElementsOf
    <3>7. PICK i \in 1 .. Len(list) : list[i] = c
      BY <3>2, <3>5, ElementsOf
    <3>8. 1 \in DOMAIN list /\ list[1] \in Frontends
      BY <3>6
    <3>9. i = 1
      <4>1. SUFFICES ASSUME 1 < i PROVE FALSE
        BY <3>6
      <4>2. InOrder(list, list[1], c)
        BY <3>6, <3>7, <3>8, <4>1 DEF InOrder
      <4>. QED
        BY <3>2, <3>5, <3>8, <4>2
    <3>10. list # <<>> /\ Head(list) = c
      BY <3>6, <3>7, <3>8, <3>9, EmptySeq
    <3>. QED
      BY <3>3, <3>4, <3>5, <3>10
  <2>. QED
    BY <2>2 DEF HeadIsTold
<1>. QED
  BY <1>1, InvariantHolds, PTL

\* Nobody sends SIGUSR1 to a parent that has not come to speedy_sig_init.
THEOREM NoEarlySignalHolds == Spec => []NoEarlySignal
<1>1. ASSUME IInv PROVE NoEarlySignal
  BY <1>1 DEF IInv, Sound, FileInv, FileRest, QuietOK, NoEarlySignal
<1>. QED
  BY <1>1, InvariantHolds, PTL

\* A backend has the connections of one frontend only (speedy_ipc_accept).
THEOREM OneConnectionHolds == Spec => []OneConnection
<1>1. ASSUME IInv PROVE OneConnection
  BY <1>1 DEF IInv, Sound, FileInv, FileRest, ConnOK, OneConnection
<1>. QED
  BY <1>1, InvariantHolds, PTL

\* The process be_starting names will clear it, or will be gone: spawning is
\* not held up for ever (backend_check, start_child, speedy_group_start_be).
THEOREM StartingWillEnd == Spec => []StartingEnds
<1>1. ASSUME IInv PROVE StartingEnds
  <2>1. /\ AskedOK(file.version, file.starting, file.bes, file.sigs, pc, mem)
        /\ ComesOK(file.starting, file.bes, pc, conn) /\ file \in Files
    BY <1>1 DEF IInv, Sound, StartInv, FileInv, FileRest
  <2>2. ASSUME NEW g \in Range(file.glist), NEW p, p = file.starting[g], IsValid(file, g), p \in Alive
        PROVE  IF p \in Parents
               THEN \/ pc[p] \in Starting \/ Doomed(p)
                    \/ "USR1" \in file.sigs[p] \cup mem[p].got
               ELSE pc[p] \in {"born", "leaving"} \cup Defunct \/ conn[p] # <<>>
    <3>1. g \in Groups
      BY <2>1, ElementsOf DEF Files
    <3>2. p \in Pids /\ pc[p] # "none" /\ p \in Backends \cup Parents /\ file.version[g] # 0
      BY <2>1, <2>2, <3>1, KindsAssumption DEF Alive, Files, IsValid
    <3>3. CASE p \in Parents
      BY <2>1, <2>2, <3>1, <3>2, <3>3 DEF AskedOK, Doomed
    <3>4. CASE p \in Backends /\ p \notin Parents
      BY <2>1, <2>2, <3>1, <3>2, <3>4 DEF ComesOK
    <3>. QED
      BY <3>2, <3>3, <3>4
  <2>. QED
    BY <2>2 DEF StartingEnds
<1>. QED
  BY <1>1, InvariantHolds, PTL

\* There are never more than MaxBackends backends for one version of the
\* script (speedy_backend_below_maxbe, start_child).
THEOREM MaxBackendsHolds == Spec => []MaxBackendsKept
<1>1. ASSUME IInv PROVE MaxBackendsKept
  <2>1. /\ FullOK(file.bes) /\ BackendsOwn(file.bes, pc, mem) /\ file \in Files
        /\ \A g \in Groups : IsInjective(file.bes[g])
    BY <1>1 DEF IInv, Sound, StartInv, FileInv, FileRest, OnceOK
  <2>2. ASSUME NEW g \in Groups, MaxBackends # 0
        PROVE  Cardinality({b \in Backends : Lives(b) /\ mem[b].group = g}) <= MaxBackends
    <3>1. PICK T : T = {b \in Backends : Lives(b) /\ mem[b].group = g}
      OBVIOUS
    <3>2. PICK list \in Seq(Backends) : list = file.bes[g]
      BY <2>1 DEF Files
    <3>3. IsFiniteSet(Range(list)) /\ Cardinality(Range(list)) <= MaxBackends
      BY <2>1, <2>2, <3>2, CountIs DEF FullOK
    <3>4. T \subseteq Range(list)
      BY <2>1, <3>1, <3>2 DEF BackendsOwn, Lives, Alive
    <3>5. Cardinality(T) \in Nat /\ Cardinality(Range(list)) \in Nat /\ Cardinality(T) <= Cardinality(Range(list))
      BY <3>3, <3>4, FS_Subset, FS_CardinalityType
    <3>6. MaxBackends \in Nat
      BY BoundsAssumption
    <3>. QED
      BY <3>1, <3>3, <3>5, <3>6
  <2>. QED
    BY <2>2 DEF MaxBackendsKept
<1>. QED
  BY <1>1, InvariantHolds, PTL
=============================================================================
