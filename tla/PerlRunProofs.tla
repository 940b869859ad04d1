---------------------------- MODULE PerlRunProofs ----------------------------
(***************************************************************************)
(* Proofs about PerlRun: for any directories, paths, scripts and requests, *)
(* the structures that remember directories are counted right, and nothing *)
(* points to one that was freed; and the script gets the request as the    *)
(* frontend sent it, or does not run.                                      *)
(***************************************************************************)
EXTENDS PerlRun, RequestProofs, FiniteSetTheorems

\* A backend by its parts
Bk(cwd, fd, mem, hash, last) ==
  [cwd |-> cwd, fd |-> fd, mem |-> mem, hash |-> hash, last |-> last]

Users(last, id) == {s \in Scripts : last[s] = id}

Hashed(mem, hash) ==
  \A k \in DevInos \cup Paths : hash[k] # Nil =>
    hash[k] \in DOMAIN mem /\ k \in {mem[hash[k]].path, mem[hash[k]].devino}

Remembered(mem, last) == \A s \in Scripts : last[s] # Nil => last[s] \in DOMAIN mem

Counted(mem, last) == \A id \in DOMAIN mem : mem[id].refcnt = Cardinality(Users(last, id))

\* Consistent, but for a structure that nothing counts yet
Pending(x, new) ==
  /\ x \in Backends
  /\ Hashed(x.mem, x.hash) /\ Remembered(x.mem, x.last) /\ Counted(x.mem, x.last)
  /\ \A id \in DOMAIN x.mem \ {new} : x.mem[id].refcnt > 0

Consistent(x) ==
  /\ x \in Backends
  /\ Hashed(x.mem, x.hash) /\ Remembered(x.mem, x.last) /\ Counted(x.mem, x.last)
  /\ \A id \in DOMAIN x.mem : x.mem[id].refcnt > 0

\* The descriptor of the directory and the directory are all that differs.
SameMemory(x, y) == y.mem = x.mem /\ y.hash = x.hash /\ y.last = x.last

-----------------------------------------------------------------------------
(* Types *)

LEMMA BkFields ==
  ASSUME NEW c, NEW f, NEW m, NEW h, NEW l, NEW d
  PROVE  /\ Bk(c, f, m, h, l).cwd = c /\ Bk(c, f, m, h, l).fd = f /\ Bk(c, f, m, h, l).mem = m
         /\ Bk(c, f, m, h, l).hash = h /\ Bk(c, f, m, h, l).last = l
         /\ [Bk(c, f, m, h, l) EXCEPT !.cwd = d] = Bk(d, f, m, h, l)
         /\ [Bk(c, f, m, h, l) EXCEPT !.fd = d] = Bk(c, d, m, h, l)
         /\ [Bk(c, f, m, h, l) EXCEPT !.mem = d] = Bk(c, f, d, h, l)
         /\ [Bk(c, f, m, h, l) EXCEPT !.hash = d] = Bk(c, f, m, d, l)
         /\ [Bk(c, f, m, h, l) EXCEPT !.last = d] = Bk(c, f, m, h, d)
  BY DEF Bk

\* The assignments of several fields that the code makes
Rehash(x, n, k1, k2, v) == [x EXCEPT !.mem = n, !.hash[k1] = v, !.hash[k2] = v]
Increment(x, id, s) == [x EXCEPT !.mem[id].refcnt = @ + 1, !.last[s] = id]
Decrement(x, id) == [x EXCEPT !.mem[id].refcnt = @ - 1]
CountUp(m, id) == [m EXCEPT ![id].refcnt = @ + 1]
CountDown(m, id) == [m EXCEPT ![id].refcnt = @ - 1]

LEMMA BkRehash ==
  ASSUME NEW c, NEW f, NEW m, NEW h, NEW l, NEW n, NEW k1, NEW k2, NEW v
  PROVE  Rehash(Bk(c, f, m, h, l), n, k1, k2, v)
           = Bk(c, f, n, [h EXCEPT ![k1] = v, ![k2] = v], l)
<1>1. [Bk(c, f, m, h, l) EXCEPT !.mem = n] = Bk(c, f, n, h, l)
  BY BkFields
<1>2. ASSUME NEW g, NEW k
      PROVE  [Bk(c, f, n, g, l) EXCEPT !.hash[k] = v] = Bk(c, f, n, [g EXCEPT ![k] = v], l)
  <2>1. Bk(c, f, n, g, l).hash = g
    BY BkFields
  <2>2. [Bk(c, f, n, g, l) EXCEPT !.hash = [g EXCEPT ![k] = v]]
          = Bk(c, f, n, [g EXCEPT ![k] = v], l)
    BY BkFields
  <2>3. QED
    BY <2>1, <2>2
<1>3. [Bk(c, f, n, h, l) EXCEPT !.hash[k1] = v] = Bk(c, f, n, [h EXCEPT ![k1] = v], l)
  BY <1>2
<1>4. [Bk(c, f, n, [h EXCEPT ![k1] = v], l) EXCEPT !.hash[k2] = v]
        = Bk(c, f, n, [h EXCEPT ![k1] = v, ![k2] = v], l)
  BY <1>2
<1>5. [Bk(c, f, m, h, l) EXCEPT !.mem = n, !.hash[k1] = v]
        = Bk(c, f, n, [h EXCEPT ![k1] = v], l)
  BY <1>1, <1>3
<1>6. QED
  BY <1>4, <1>5 DEF Rehash

LEMMA BkIncrement ==
  ASSUME NEW c, NEW f, NEW m, NEW h, NEW l, NEW id, NEW s
  PROVE  Increment(Bk(c, f, m, h, l), id, s)
           = Bk(c, f, CountUp(m, id), h, [l EXCEPT ![s] = id])
<1>1. [Bk(c, f, m, h, l) EXCEPT !.mem[id].refcnt = @ + 1]
        = Bk(c, f, [m EXCEPT ![id].refcnt = @ + 1], h, l)
  BY BkFields
<1>2. ASSUME NEW n
      PROVE  [Bk(c, f, n, h, l) EXCEPT !.last[s] = id] = Bk(c, f, n, h, [l EXCEPT ![s] = id])
  BY BkFields
<1>3. [Bk(c, f, m, h, l) EXCEPT !.mem[id].refcnt = @ + 1, !.last[s] = id]
        = [[Bk(c, f, m, h, l) EXCEPT !.mem[id].refcnt = @ + 1] EXCEPT !.last[s] = id]
  OBVIOUS
<1>4. QED
  BY <1>1, <1>2, <1>3 DEF Increment, CountUp

LEMMA BkDecrement ==
  ASSUME NEW c, NEW f, NEW m, NEW h, NEW l, NEW id
  PROVE  Decrement(Bk(c, f, m, h, l), id) = Bk(c, f, CountDown(m, id), h, l)
<1>1. [Bk(c, f, m, h, l) EXCEPT !.mem[id].refcnt = @ - 1]
        = Bk(c, f, [m EXCEPT ![id].refcnt = @ - 1], h, l)
  BY BkFields
<1>2. QED
  BY <1>1 DEF Decrement, CountDown

BkType(c, f, m, h, l) ==
  /\ c \in Dirs /\ f \in Dirs \cup {None, Foreign, "closed"}
  /\ DOMAIN m \subseteq Ids /\ m \in [DOMAIN m -> Structs]
  /\ h \in [DevInos \cup Paths -> Ids \cup {Nil}]
  /\ l \in [Scripts -> Ids \cup {Nil}]

LEMMA BackendParts ==
  ASSUME NEW x \in Backends
  PROVE  \E c, f, m, h, l : x = Bk(c, f, m, h, l) /\ BkType(c, f, m, h, l)
<1>1. x \in [cwd : Dirs, fd : Dirs \cup {None, Foreign, "closed"},
             mem : UNION {[S -> Structs] : S \in SUBSET Ids},
             hash : [DevInos \cup Paths -> Ids \cup {Nil}],
             last : [Scripts -> Ids \cup {Nil}]]
  BY DEF Backends
<1>2. x = Bk(x.cwd, x.fd, x.mem, x.hash, x.last)
  BY <1>1 DEF Bk
<1>3. PICK S \in SUBSET Ids : x.mem \in [S -> Structs]
  BY <1>1
<1>4. BkType(x.cwd, x.fd, x.mem, x.hash, x.last)
  BY <1>1, <1>3 DEF BkType
<1>5. QED
  BY <1>2, <1>4

LEMMA BackendMade ==
  ASSUME NEW c, NEW f, NEW m, NEW h, NEW l, BkType(c, f, m, h, l)
  PROVE  Bk(c, f, m, h, l) \in Backends
<1>1. m \in UNION {[T -> Structs] : T \in SUBSET Ids}
  BY DEF BkType
<1>2. QED
  BY <1>1 DEF Bk, Backends, BkType

LEMMA SameConsistent ==
  ASSUME NEW x, NEW y \in Backends, Consistent(x), SameMemory(x, y)
  PROVE  Consistent(y)
  BY DEF Consistent, SameMemory

-----------------------------------------------------------------------------
(* Going to a directory leaves the structures alone. *)

LEMMA MovedBackend ==
  ASSUME NEW x \in Backends, NEW dir \in Dirs
  PROVE  [x EXCEPT !.cwd = dir] \in Backends /\ SameMemory(x, [x EXCEPT !.cwd = dir])
<1>1. PICK c, f, m, h, l : x = Bk(c, f, m, h, l) /\ BkType(c, f, m, h, l)
  BY BackendParts
<1>2. [x EXCEPT !.cwd = dir] = Bk(dir, f, m, h, l)
  BY <1>1, BkFields
<1>3. BkType(dir, f, m, h, l)
  BY <1>1 DEF BkType
<1>4. QED
  BY <1>1, <1>2, <1>3, BkFields, BackendMade DEF SameMemory

LEMMA OtherDescriptor ==
  ASSUME NEW x \in Backends, NEW fd \in Dirs \cup {None, Foreign, "closed"}
  PROVE  [x EXCEPT !.fd = fd] \in Backends /\ SameMemory(x, [x EXCEPT !.fd = fd])
<1>1. PICK c, f, m, h, l : x = Bk(c, f, m, h, l) /\ BkType(c, f, m, h, l)
  BY BackendParts
<1>2. [x EXCEPT !.fd = fd] = Bk(c, fd, m, h, l)
  BY <1>1, BkFields
<1>3. BkType(c, fd, m, h, l)
  BY <1>1 DEF BkType
<1>4. QED
  BY <1>1, <1>2, <1>3, BkFields, BackendMade DEF SameMemory

LEMMA ChdirKeeps ==
  ASSUME NEW x \in Backends, at \in [Paths -> Dirs \cup {Gone}], NEW path \in Paths \cup {"."}
  PROVE  /\ chdir_path(x, path) \in Backends
         /\ SameMemory(x, chdir_path(x, path))
         /\ chdir_path(x, path).fd \in Dirs \cup {None}
<1>1. PICK c, f, m, h, l : x = Bk(c, f, m, h, l) /\ BkType(c, f, m, h, l)
  BY BackendParts
<1>2. CASE ~chdir_works(x, path)
  <2>1. chdir_path(x, path) = Bk(c, None, m, h, l)
    BY <1>1, <1>2, BkFields DEF chdir_path
  <2>2. BkType(c, None, m, h, l)
    BY <1>1 DEF BkType
  <2>3. QED
    BY <1>1, <2>1, <2>2, BkFields, BackendMade DEF SameMemory
<1>3. CASE chdir_works(x, path)
  <2> DEFINE dir == Lookup(x, path)
             fd  == IF Mode[dir] = "all" THEN dir ELSE None
  <2>1. dir \in Dirs
    <3>1. CASE path = "."
      BY <3>1, <1>1, BkFields DEF Lookup, BkType
    <3>2. CASE path # "."
      BY <3>2, <1>3 DEF Lookup, chdir_works, Enterable
    <3>3. QED
      BY <3>1, <3>2
  <2>2. chdir_path(x, path) = [x EXCEPT !.cwd = dir, !.fd = fd]
    BY <1>3 DEF chdir_path
  <2>3. fd \in Dirs \cup {None}
    BY <2>1
  <2> HIDE DEF dir, fd
  <2>4. [x EXCEPT !.cwd = dir, !.fd = fd] = Bk(dir, fd, m, h, l)
    <3>1. [x EXCEPT !.cwd = dir] = Bk(dir, f, m, h, l)
      BY <1>1, BkFields
    <3>2. [Bk(dir, f, m, h, l) EXCEPT !.fd = fd] = Bk(dir, fd, m, h, l)
      BY BkFields
    <3>3. QED
      BY <3>1, <3>2
  <2>5. BkType(dir, fd, m, h, l)
    BY <1>1, <2>1, <2>3 DEF BkType
  <2>6. QED
    BY <1>1, <2>2, <2>4, <2>3, <2>5, BkFields, BackendMade DEF SameMemory
<1>4. QED
  BY <1>2, <1>3

\* Where it is after that, and what cwd_fd is
LEMMA ChdirGoes ==
  ASSUME NEW x \in Backends, NEW path \in Paths \cup {"."}, chdir_works(x, path)
  PROVE  LET dir == Lookup(x, path)
             y   == chdir_path(x, path)
         IN  y.cwd = dir /\ y.fd = IF Mode[dir] = "all" THEN dir ELSE None
<1>1. PICK c, f, m, h, l : x = Bk(c, f, m, h, l) /\ BkType(c, f, m, h, l)
  BY BackendParts
<1>2. PICK dir : dir = Lookup(x, path)
  OBVIOUS
<1>3. PICK fd : fd = IF Mode[dir] = "all" THEN dir ELSE None
  OBVIOUS
<1>4. chdir_path(x, path) = [x EXCEPT !.cwd = dir, !.fd = fd]
  BY <1>2, <1>3, Zenon DEF chdir_path
<1>5. [x EXCEPT !.cwd = dir, !.fd = fd] = Bk(dir, fd, m, h, l)
  <2>1. [x EXCEPT !.cwd = dir] = Bk(dir, f, m, h, l)
    BY <1>1, BkFields
  <2>2. [Bk(dir, f, m, h, l) EXCEPT !.fd = fd] = Bk(dir, fd, m, h, l)
    BY BkFields
  <2>. QED
    BY <2>1, <2>2
<1>. QED
  BY <1>2, <1>3, <1>4, <1>5, BkFields

\* A name is not ".".
LEMMA NamesLead ==
  ASSUME NEW x, NEW path \in Paths
  PROVE  Lookup(x, path) = at[path] /\ (chdir_works(x, path) <=> Enterable(at[path]))
<1>1. path # "."
  BY PerlRunAssumption
<1>. QED
  BY <1>1, Zenon DEF Lookup, chdir_works

LEMMA QuickKeeps ==
  ASSUME NEW x \in Backends, at \in [Paths -> Dirs \cup {Gone}], NEW dest,
         NEW quick \in quick_cd(x, dest)
  PROVE  quick.b \in Backends /\ SameMemory(x, quick.b) /\ quick.blind \in BOOLEAN
<1> DEFINE fd  == stat_cwd_fd(x)
           y   == [x EXCEPT !.fd = fd]
           new == chdir_path(y, ".")
<1>1. fd \in Dirs \cup {None, Foreign, "closed"}
  BY DEF stat_cwd_fd, Backends
<1>2. y \in Backends /\ SameMemory(x, y)
  BY <1>1, OtherDescriptor
<1> HIDE DEF y, fd
<1>3. new \in Backends /\ SameMemory(y, new)
  BY <1>2, ChdirKeeps
<1> HIDE DEF new
<1>4. CASE fd = dest /\ Enterable(fd)
  <2>1. quick = [b |-> [x EXCEPT !.cwd = fd], done |-> TRUE, blind |-> FALSE]
    BY <1>4 DEF quick_cd, fd
  <2>2. fd \in Dirs
    BY <1>4 DEF Enterable
  <2>3. QED
    BY <2>1, <2>2, MovedBackend
<1>5. CASE ~(fd = dest /\ Enterable(fd))
  <2>1. quick.b = new /\ quick.blind \in BOOLEAN
    <3>1. \E garbage \in Garbled(new) :
            quick = [b |-> new,
                     done |-> devino_of(new, IF fd = None THEN garbage ELSE fd) = dest,
                     blind |-> fd = None /\ unset(new)]
      BY <1>5 DEF quick_cd, fd, new, y
    <3>2. QED
      BY <3>1
  <2>2. QED
    BY <2>1, <1>2, <1>3 DEF SameMemory
<1>6. QED
  BY <1>4, <1>5

-----------------------------------------------------------------------------
(* Counting the scripts that were last in a directory *)

LEMMA UsersFinite ==
  ASSUME NEW l, NEW id
  PROVE  /\ IsFiniteSet(Users(l, id)) /\ Cardinality(Users(l, id)) \in Nat
         /\ Cardinality(Users(l, id)) <= Cardinality(Scripts)
<1>1. Users(l, id) \in SUBSET Scripts
  BY DEF Users
<1>2. QED
  BY <1>1, PerlRunAssumption, FS_Subset, FS_CardinalityType

\* now is l, with id in s.
Stored(now, l, s, id) ==
  l \in [Scripts -> Ids \cup {Nil}] /\ now = [l EXCEPT ![s] = id]

LEMMA UsersStored ==
  ASSUME NEW l, NEW now, NEW s \in Scripts, NEW id, Stored(now, l, s, id), l[s] # id
  PROVE  /\ Cardinality(Users(now, id)) = Cardinality(Users(l, id)) + 1
         /\ Cardinality(Users(now, l[s])) = Cardinality(Users(l, l[s])) - 1
         /\ \A j : j \notin {id, l[s]} => Users(now, j) = Users(l, j)
<1>1. Users(now, id) = Users(l, id) \cup {s} /\ s \notin Users(l, id)
  BY DEF Users, Stored
<1>2. Users(now, l[s]) = Users(l, l[s]) \ {s} /\ s \in Users(l, l[s])
  BY DEF Users, Stored
<1>3. \A j : j \notin {id, l[s]} => Users(now, j) = Users(l, j)
  BY DEF Users, Stored
<1>4. Cardinality(Users(now, id)) = Cardinality(Users(l, id)) + 1
  BY <1>1, UsersFinite, FS_AddElement
<1>5. Cardinality(Users(now, l[s])) = Cardinality(Users(l, l[s])) - 1
  BY <1>2, UsersFinite, FS_RemoveElement
<1>6. QED
  BY <1>3, <1>4, <1>5

\* A consistent backend has memory for one more structure: each it has is
\* the last one of some script.
LEMMA FreeId ==
  ASSUME NEW x, Consistent(x)
  PROVE  Free(x) # {}
<1> DEFINE T == {s \in Scripts : x.last[s] \in DOMAIN x.mem}
           f == [s \in T |-> x.last[s]]
<1>1. \A id \in DOMAIN x.mem : \E s \in T : f[s] = id
  <2>1. SUFFICES ASSUME NEW id \in DOMAIN x.mem
                 PROVE  \E s \in T : f[s] = id
    OBVIOUS
  <2>2. Cardinality(Users(x.last, id)) # 0
    <3>1. x.mem[id].refcnt = Cardinality(Users(x.last, id)) /\ x.mem[id].refcnt > 0
      BY DEF Consistent, Counted
    <3>2. QED
      BY <3>1, UsersFinite
  <2>3. Users(x.last, id) # {}
    BY <2>2, FS_EmptySet
  <2>4. PICK s \in Users(x.last, id) : TRUE
    BY <2>3
  <2>5. QED
    BY <2>4 DEF Users
<1>2. f \in Surjection(T, DOMAIN x.mem)
  BY <1>1 DEF Surjection
<1>3. T \in SUBSET Scripts
  OBVIOUS
<1> HIDE DEF T, f
<1>4. IsFiniteSet(T) /\ Cardinality(T) <= Cardinality(Scripts)
  BY <1>3, PerlRunAssumption, FS_Subset
<1>5. IsFiniteSet(DOMAIN x.mem) /\ Cardinality(DOMAIN x.mem) <= Cardinality(T)
  BY <1>2, <1>4, FS_Surjection
<1>6. /\ Cardinality(T) \in Nat /\ Cardinality(Scripts) \in Nat /\ Cardinality(Ids) \in Nat
      /\ Cardinality(DOMAIN x.mem) \in Nat
  BY <1>4, <1>5, PerlRunAssumption, FS_CardinalityType
<1>7. DOMAIN x.mem # Ids
  BY <1>4, <1>5, <1>6, PerlRunAssumption
<1>8. DOMAIN x.mem \subseteq Ids
  BY DEF Consistent, Backends
<1>9. QED
  BY <1>7, <1>8 DEF Free

-----------------------------------------------------------------------------
(* cwd_new *)

\* What a consistent backend is in its parts
Parts(m, h, l) == Hashed(m, h) /\ Remembered(m, l) /\ Counted(m, l)

LEMMA Added ==
  ASSUME NEW c, NEW f, NEW m, NEW h, NEW l, BkType(c, f, m, h, l), Parts(m, h, l),
         \A i \in DOMAIN m : m[i].refcnt > 0,
         NEW id \in Ids \ DOMAIN m, NEW path \in Paths, NEW dv \in DevInos, NEW cwd,
         cwd = [refcnt |-> 0, path |-> path, devino |-> dv]
  PROVE  Pending(Bk(c, f, [i \in DOMAIN m \cup {id} |-> IF i = id THEN cwd ELSE m[i]],
                    [h EXCEPT ![dv] = id, ![path] = id], l), id)
<1> DEFINE n == [i \in DOMAIN m \cup {id} |-> IF i = id THEN cwd ELSE m[i]]
           g == [h EXCEPT ![dv] = id, ![path] = id]
<1>1. cwd.refcnt = 0 /\ cwd.path = path /\ cwd.devino = dv /\ cwd \in Structs
  <2>1. 0 \in 0 .. Cardinality(Scripts) + 1
    BY PerlRunAssumption, FS_CardinalityType
  <2>2. QED
    BY <2>1 DEF Structs
<1>2. DOMAIN n = DOMAIN m \cup {id} /\ n[id] = cwd /\ \A i \in DOMAIN m : n[i] = m[i]
  OBVIOUS
<1>3. /\ g \in [DevInos \cup Paths -> Ids \cup {Nil}]
      /\ \A k \in DevInos \cup Paths : g[k] = IF k \in {dv, path} THEN id ELSE h[k]
  BY DEF BkType
<1>4. n \in [DOMAIN n -> Structs]
  BY <1>1, <1>2 DEF BkType
<1>5. Bk(c, f, n, g, l) \in Backends
  BY <1>2, <1>3, <1>4, BackendMade DEF BkType
<1> HIDE DEF n, g
<1>6. Hashed(n, g)
  <2>1. SUFFICES ASSUME NEW k \in DevInos \cup Paths, g[k] # Nil
                 PROVE  g[k] \in DOMAIN n /\ k \in {n[g[k]].path, n[g[k]].devino}
    BY DEF Hashed
  <2>2. CASE k \in {dv, path}
    BY <2>2, <1>1, <1>2, <1>3
  <2>3. CASE k \notin {dv, path}
    BY <2>1, <2>3, <1>2, <1>3 DEF Parts, Hashed
  <2>4. QED
    BY <2>2, <2>3
<1>7. Remembered(n, l)
  BY <1>2 DEF Parts, Remembered
<1>8. Counted(n, l)
  <2>1. Users(l, id) = {}
    BY PerlRunAssumption DEF Users, Parts, Remembered
  <2>2. n[id].refcnt = Cardinality(Users(l, id))
    BY <2>1, <1>1, <1>2, FS_EmptySet
  <2>3. \A i \in DOMAIN m : n[i].refcnt = Cardinality(Users(l, i))
    BY <1>2 DEF Parts, Counted
  <2>4. QED
    BY <2>2, <2>3, <1>2 DEF Counted
<1>9. \A i \in DOMAIN n \ {id} : n[i].refcnt > 0
  BY <1>2
<1>10. Pending(Bk(c, f, n, g, l), id)
  BY <1>5, <1>6, <1>7, <1>8, <1>9, BkFields DEF Pending
<1>11. QED
  BY <1>10 DEF n, g

LEMMA CwdNew ==
  ASSUME NEW x, Consistent(x), at \in [Paths -> Dirs \cup {Gone}], NEW path \in Paths,
         NEW new \in cwd_new(x, path)
  PROVE  /\ new.blind \in BOOLEAN
         /\ \/ new.cwd = Nil /\ Consistent(new.b)
            \/ new.cwd \in DOMAIN new.b.mem /\ Pending(new.b, new.cwd)
         /\ IF chdir_works(x, path) THEN new.cwd # Nil /\ new.b.cwd = at[path] ELSE new.cwd = Nil
<1> DEFINE y  == chdir_path(x, path)
           id == CHOOSE i \in Free(x) : TRUE
<1>1. y \in Backends /\ SameMemory(x, y) /\ y.fd \in Dirs \cup {None}
  BY ChdirKeeps DEF Consistent
<1>2. Consistent(y)
  BY <1>1, SameConsistent
<1>3. CASE ~chdir_works(x, path)
  <2>1. new = [b |-> y, cwd |-> Nil, blind |-> FALSE]
    BY <1>3 DEF cwd_new
  <2>2. QED
    BY <2>1, <1>2, <1>3
<1>4. CASE chdir_works(x, path)
  <2>1. id \in Ids \ DOMAIN x.mem
    BY FreeId DEF Free
  <2>2. y.cwd = at[path]
    BY <1>4, ChdirGoes, NamesLead DEF Consistent
  <2> DEFINE With(cwd) == [y EXCEPT !.mem = [i \in DOMAIN @ \cup {id} |-> IF i = id THEN cwd ELSE @[i]],
                                    !.hash[cwd.devino] = id, !.hash[path] = id]
  <2>3. PICK garbage \in Garbled(y) :
          new = [b |-> With([refcnt |-> 0, path |-> path, devino |-> devino_of(y, garbage)]),
                 cwd |-> id, blind |-> unset(y)]
    BY <1>4 DEF cwd_new
  <2> DEFINE dv  == devino_of(y, garbage)
             cwd == [refcnt |-> 0, path |-> path, devino |-> dv]
  <2>4. dv \in DevInos
    <3>1. garbage \in DevInos
      BY DEF Garbled, DevInos
    <3>2. CASE y.fd # None
      BY <3>2, <1>1 DEF devino_of, DevInos
    <3>3. CASE y.fd = None
      BY <3>1, <3>3 DEF devino_of, DevInos
    <3>4. QED
      BY <3>2, <3>3
  <2>5. new.b = With(cwd) /\ new.cwd = id /\ new.blind \in BOOLEAN
    BY <2>3 DEF unset
  <2>6. PICK c, f, m, h, l : y = Bk(c, f, m, h, l) /\ BkType(c, f, m, h, l)
    BY <1>1, BackendParts
  <2>7. y.mem = m /\ y.hash = h /\ y.last = l /\ DOMAIN x.mem = DOMAIN m
    BY <2>6, <1>1, BkFields DEF SameMemory
  <2> HIDE DEF y, id, dv
  <2>8. cwd.devino = dv
    OBVIOUS
  <2> DEFINE n == [i \in DOMAIN m \cup {id} |-> IF i = id THEN cwd ELSE m[i]]
  <2> HIDE DEF cwd
  <2>9. With(cwd) = Bk(c, f, n, [h EXCEPT ![dv] = id, ![path] = id], l)
    <3>1. With(cwd) = Rehash(y, n, dv, path, id)
      BY <2>7, <2>8 DEF Rehash
    <3> HIDE DEF With
    <3>2. QED
      BY <3>1, <2>6, BkRehash
  <2>10. Pending(Bk(c, f, n, [h EXCEPT ![dv] = id, ![path] = id], l), id)
    <3>1. Parts(m, h, l) /\ \A i \in DOMAIN m : m[i].refcnt > 0
      BY <1>2, <2>7 DEF Consistent, Parts
    <3>2. cwd = [refcnt |-> 0, path |-> path, devino |-> dv]
      BY DEF cwd
    <3>3. id \in Ids \ DOMAIN m /\ BkType(c, f, m, h, l)
      BY <2>1, <2>6, <2>7
    <3> HIDE DEF n
    <3>4. Pending(Bk(c, f, [i \in DOMAIN m \cup {id} |-> IF i = id THEN cwd ELSE m[i]],
                     [h EXCEPT ![dv] = id, ![path] = id], l), id)
      BY <3>1, <3>2, <3>3, <2>4, Added
    <3>5. QED
      BY <3>4 DEF n
  <2>11. id \in DOMAIN n
    OBVIOUS
  <2> HIDE DEF n
  <2>12. new.cwd \in DOMAIN new.b.mem /\ Pending(new.b, new.cwd)
    BY <2>5, <2>9, <2>10, <2>11, BkFields
  <2>13. new.b.cwd = at[path]
    BY <2>2, <2>5, <2>6, <2>9, BkFields
  <2>14. new.cwd # Nil
    BY <2>1, <2>5, PerlRunAssumption
  <2>15. QED
    BY <1>4, <2>5, <2>12, <2>13, <2>14
<1>5. QED
  BY <1>3, <1>4

-----------------------------------------------------------------------------
(* store_last_cwd *)

\* Structures whose count may be any
AnyCount == [refcnt : Int, path : Paths, devino : DevInos]

\* n is m, but for the count of id, which is d more.
Recounted(m, n, id, d) ==
  /\ DOMAIN n = DOMAIN m /\ n \in [DOMAIN m -> AnyCount]
  /\ n[id].refcnt = m[id].refcnt + d
  /\ \A i \in DOMAIN m : /\ n[i].path = m[i].path /\ n[i].devino = m[i].devino
                         /\ i # id => n[i].refcnt = m[i].refcnt

LEMMA Recount ==
  ASSUME NEW m, m \in [DOMAIN m -> AnyCount], NEW id \in DOMAIN m, NEW k \in Int
  PROVE  Recounted(m, [m EXCEPT ![id] = [@ EXCEPT !.refcnt = k]], id, k - m[id].refcnt)
<1> DEFINE n == [m EXCEPT ![id] = [@ EXCEPT !.refcnt = k]]
<1>1. m[id] \in AnyCount
  OBVIOUS
<1>2. m[id] = [refcnt |-> m[id].refcnt, path |-> m[id].path, devino |-> m[id].devino]
  BY <1>1 DEF AnyCount
<1>3. [m[id] EXCEPT !.refcnt = k] = [refcnt |-> k, path |-> m[id].path, devino |-> m[id].devino]
  BY <1>2
<1>4. DOMAIN n = DOMAIN m /\ n[id] = [m[id] EXCEPT !.refcnt = k]
  OBVIOUS
<1>5. \A i \in DOMAIN m : i # id => n[i] = m[i]
  OBVIOUS
<1>6. n = [i \in DOMAIN m |-> n[i]]
  OBVIOUS
<1> HIDE DEF n
<1>7. \A i \in DOMAIN m : n[i] \in AnyCount
  BY <1>1, <1>3, <1>4, <1>5 DEF AnyCount
<1>8. n \in [DOMAIN m -> AnyCount]
  BY <1>6, <1>7
<1>9. m[id].refcnt \in Int
  BY <1>1 DEF AnyCount
<1>10. n[id].refcnt = m[id].refcnt + (k - m[id].refcnt)
  BY <1>3, <1>4, <1>9
<1>11. n[id].path = m[id].path /\ n[id].devino = m[id].devino
  BY <1>3, <1>4
<1>12. QED
  BY <1>4, <1>5, <1>8, <1>10, <1>11 DEF n, Recounted

LEMMA OneMore ==
  ASSUME NEW m, m \in [DOMAIN m -> AnyCount], NEW id \in DOMAIN m
  PROVE  Recounted(m, CountUp(m, id), id, 1) /\ Recounted(m, CountDown(m, id), id, -1)
<1>1. m[id].refcnt \in Int
  BY DEF AnyCount
<1>2. \A k \in Int : Recounted(m, [m EXCEPT ![id] = [@ EXCEPT !.refcnt = k]], id, k - m[id].refcnt)
  BY Recount
<1>3. Recounted(m, [m EXCEPT ![id] = [@ EXCEPT !.refcnt = m[id].refcnt + 1]], id, 1)
  <2> DEFINE k == m[id].refcnt + 1
  <2>1. k \in Int /\ k - m[id].refcnt = 1
    BY <1>1
  <2> HIDE DEF k
  <2>2. Recounted(m, [m EXCEPT ![id] = [@ EXCEPT !.refcnt = k]], id, 1)
    BY <2>1, <1>2
  <2>3. QED
    BY <2>2 DEF k
<1>4. Recounted(m, [m EXCEPT ![id] = [@ EXCEPT !.refcnt = m[id].refcnt - 1]], id, -1)
  <2> DEFINE k == m[id].refcnt - 1
  <2>1. k \in Int /\ k - m[id].refcnt = -1
    BY <1>1
  <2> HIDE DEF k
  <2>2. Recounted(m, [m EXCEPT ![id] = [@ EXCEPT !.refcnt = k]], id, -1)
    BY <2>1, <1>2
  <2>3. QED
    BY <2>2 DEF k
<1>5. QED
  BY <1>3, <1>4 DEF CountUp, CountDown

\* What store_last_cwd leaves is consistent when its parts are.
LEMMA Built ==
  ASSUME NEW c \in Dirs, NEW f \in Dirs \cup {None, Foreign, "closed"},
         NEW m, m \in [DOMAIN m -> AnyCount], DOMAIN m \subseteq Ids,
         NEW h \in [DevInos \cup Paths -> Ids \cup {Nil}],
         NEW l \in [Scripts -> Ids \cup {Nil}], Parts(m, h, l),
         \A id \in DOMAIN m : m[id].refcnt > 0
  PROVE  Consistent(Bk(c, f, m, h, l))
<1>1. \A id \in DOMAIN m : m[id] \in Structs
  <2>1. SUFFICES ASSUME NEW id \in DOMAIN m
                 PROVE  m[id] \in Structs
    OBVIOUS
  <2>2. m[id] \in AnyCount
    OBVIOUS
  <2>3. m[id].refcnt = Cardinality(Users(l, id))
    BY DEF Parts, Counted
  <2>4. Cardinality(Scripts) \in Nat
    BY PerlRunAssumption, FS_CardinalityType
  <2>5. m[id].refcnt \in 0 .. Cardinality(Scripts) + 1
    BY <2>3, <2>4, UsersFinite
  <2>6. m[id] = [refcnt |-> m[id].refcnt, path |-> m[id].path, devino |-> m[id].devino]
    BY <2>2 DEF AnyCount
  <2>7. m[id].path \in Paths /\ m[id].devino \in DevInos
    BY <2>2 DEF AnyCount
  <2>8. QED
    BY <2>5, <2>6, <2>7 DEF Structs
<1>2. m \in [DOMAIN m -> Structs]
  BY <1>1
<1>3. BkType(c, f, m, h, l)
  BY <1>2 DEF BkType
<1>4. QED
  BY <1>3, BackendMade, BkFields DEF Consistent, Parts

\* The structure that is stored is counted once more, and the one that was is
\* counted once less and freed when nothing else counts it.
LEMMA StoreLast ==
  ASSUME NEW x, NEW id, Pending(x, id), id \in DOMAIN x.mem, NEW s \in Scripts
  PROVE  Consistent(store_last_cwd(x, s, id))
<1>1. PICK c, f, m, h, l : x = Bk(c, f, m, h, l) /\ BkType(c, f, m, h, l)
  BY BackendParts DEF Pending
<1> DEFINE prev == l[s]
           up   == CountUp(m, id)
           now  == [l EXCEPT ![s] = id]
           kept == Increment(x, id, s)
<1>2. Stored(now, l, s, id)
  BY <1>1 DEF BkType, Stored
<1>3. /\ Parts(m, h, l) /\ \A i \in DOMAIN m \ {id} : m[i].refcnt > 0
      /\ id \in DOMAIN m /\ x.last = l /\ DOMAIN m \subseteq Ids
  BY <1>1, BkFields DEF Pending, Parts, BkType
<1>4. m \in [DOMAIN m -> AnyCount]
  BY <1>1, PerlRunAssumption, FS_CardinalityType DEF BkType, Structs, AnyCount
<1>5. Recounted(m, up, id, 1)
  BY <1>3, <1>4, OneMore
<1>6. now \in [Scripts -> Ids \cup {Nil}]
  BY <1>1, <1>3 DEF BkType
<1>7. kept = Bk(c, f, up, h, now)
  BY <1>1, BkIncrement
<1>8. kept.mem = up /\ kept.hash = h
  BY <1>7, BkFields
<1>9. store_last_cwd(x, s, id) = IF prev = Nil THEN kept ELSE cwd_refcnt_dec(kept, prev)
  BY <1>3 DEF store_last_cwd, Increment
<1>10. Hashed(up, h)
  BY <1>3, <1>5 DEF Parts, Hashed, Recounted
<1>11. id # Nil /\ m[id].refcnt = Cardinality(Users(l, id))
  BY <1>3, PerlRunAssumption DEF Parts, Counted
<1>12. CASE prev = Nil
  <2>1. l[s] # id
    BY <1>11, <1>12
  <2> HIDE DEF up, now
  <2>2. /\ Cardinality(Users(now, id)) = Cardinality(Users(l, id)) + 1
        /\ \A j : j \notin {id, Nil} => Users(now, j) = Users(l, j)
    BY <2>1, <1>2, <1>12, UsersStored
  <2>3. Counted(up, now)
    <3>1. SUFFICES ASSUME NEW i \in DOMAIN m
                   PROVE  up[i].refcnt = Cardinality(Users(now, i))
      BY <1>5 DEF Counted, Recounted
    <3>2. CASE i = id
      BY <3>2, <2>2, <1>5, <1>11 DEF Recounted
    <3>3. CASE i # id
      <4>1. i # Nil
        BY <1>3, PerlRunAssumption
      <4>2. up[i].refcnt = Cardinality(Users(l, i))
        BY <3>3, <1>3, <1>5 DEF Recounted, Parts, Counted
      <4>3. QED
        BY <3>3, <4>1, <4>2, <2>2
    <3>4. QED
      BY <3>2, <3>3
  <2>4. Remembered(up, now)
    <3>1. \A t \in Scripts : now[t] = IF t = s THEN id ELSE l[t]
      BY <1>1 DEF now, BkType
    <3>2. QED
      BY <3>1, <1>3, <1>5 DEF Remembered, Recounted, Parts
  <2>5. \A i \in DOMAIN up : up[i].refcnt > 0
    BY <1>3, <1>5, <1>11, UsersFinite DEF Recounted
  <2>6. Consistent(Bk(c, f, up, h, now))
    BY <2>3, <2>4, <2>5, <1>1, <1>3, <1>5, <1>6, <1>10, Built DEF Parts, Recounted, BkType
  <2>7. QED
    BY <2>6, <1>7, <1>9, <1>12
<1>13. CASE prev = id
  <2>1. now = l
    BY <1>2, <1>13 DEF Stored
  <2>2. s \in Users(l, id) /\ Cardinality(Users(l, id)) > 0
    <3>1. s \in Users(l, id)
      BY <1>13 DEF Users
    <3>2. QED
      BY <3>1, UsersFinite, FS_EmptySet
  <2>3. up[id].refcnt = Cardinality(Users(l, id)) + 1 /\ up[id].refcnt # 1
    BY <2>2, <1>5, <1>11, UsersFinite DEF Recounted
  <2> DEFINE down == CountDown(up, id)
  <2>4. cwd_refcnt_dec(kept, prev) = Decrement(kept, id)
    BY <2>3, <1>8, <1>13 DEF cwd_refcnt_dec, Decrement
  <2>5. Decrement(kept, id) = Bk(c, f, down, h, now)
    BY <1>7, BkDecrement
  <2> HIDE DEF up, now
  <2>6. Recounted(up, down, id, -1)
    BY <1>3, <1>5, OneMore DEF Recounted
  <2> HIDE DEF down
  <2>7. \A i \in DOMAIN m : down[i].refcnt = m[i].refcnt /\ down[i].refcnt > 0
    BY <2>2, <2>3, <2>6, <1>3, <1>5, <1>11, UsersFinite DEF Recounted
  <2>8. Hashed(down, h) /\ Remembered(down, l) /\ Counted(down, l)
    BY <2>6, <2>7, <1>3, <1>5, <1>10 DEF Recounted, Hashed, Remembered, Counted, Parts
  <2>9. Consistent(Bk(c, f, down, h, l))
    BY <2>6, <2>7, <2>8, <1>2, <1>1, <1>3, <1>5, Built DEF Parts, Recounted, BkType, Stored
  <2>10. QED
    BY <2>1, <2>4, <2>5, <2>9, <1>9, <1>11, <1>13
<1>14. CASE prev \notin {Nil, id}
  <2> HIDE DEF up, now
  <2>1. /\ prev \in DOMAIN m /\ up[prev].refcnt = m[prev].refcnt
        /\ m[prev].refcnt = Cardinality(Users(l, prev)) /\ m[prev].refcnt > 0
    BY <1>14, <1>3, <1>5 DEF Parts, Remembered, Recounted, Counted
  <2>2. /\ Cardinality(Users(now, id)) = Cardinality(Users(l, id)) + 1
        /\ Cardinality(Users(now, prev)) = Cardinality(Users(l, prev)) - 1
        /\ \A j : j \notin {id, prev} => Users(now, j) = Users(l, j)
    BY <1>2, <1>14, UsersStored
  <2>3. \A t \in Scripts : now[t] = IF t = s THEN id ELSE l[t]
    BY <1>2 DEF Stored
  <2> HIDE DEF prev
  <2>4. \A i \in DOMAIN m \ {prev} :
          up[i].refcnt = Cardinality(Users(now, i)) /\ up[i].refcnt > 0
    <3>1. SUFFICES ASSUME NEW i \in DOMAIN m \ {prev}
                   PROVE  up[i].refcnt = Cardinality(Users(now, i)) /\ up[i].refcnt > 0
      OBVIOUS
    <3>2. CASE i = id
      BY <3>2, <2>2, <1>5, <1>11, UsersFinite DEF Recounted
    <3>3. CASE i # id
      BY <3>3, <2>2, <1>3, <1>5 DEF Recounted, Parts, Counted
    <3>4. QED
      BY <3>2, <3>3
  <2>5. CASE up[prev].refcnt = 1
    <3> DEFINE n  == [i \in DOMAIN up \ {prev} |-> up[i]]
               dv == up[prev].devino
               pa == up[prev].path
               g  == [h EXCEPT ![dv] = Nil, ![pa] = Nil]
    <3>1. cwd_refcnt_dec(kept, prev) = Rehash(kept, n, dv, pa, Nil)
      BY <2>5, <1>8 DEF cwd_refcnt_dec, Freed, Rehash
    <3>2. /\ DOMAIN n = DOMAIN m \ {prev} /\ \A i \in DOMAIN n : n[i] = up[i]
          /\ n \in [DOMAIN n -> AnyCount]
      BY <1>5 DEF Recounted
    <3>3. dv \in DevInos /\ pa \in Paths
      BY <2>1, <1>5 DEF Recounted, AnyCount
    <3>4. /\ g \in [DevInos \cup Paths -> Ids \cup {Nil}]
          /\ \A k \in DevInos \cup Paths : g[k] = IF k \in {dv, pa} THEN Nil ELSE h[k]
      BY <3>3, <1>1 DEF BkType
    <3> HIDE DEF n, g
    <3>5. Rehash(kept, n, dv, pa, Nil) = Bk(c, f, n, g, now)
      <4> HIDE DEF dv, pa, kept
      <4>1. Rehash(kept, n, dv, pa, Nil) = Bk(c, f, n, [h EXCEPT ![dv] = Nil, ![pa] = Nil], now)
        BY <1>7, BkRehash
      <4>2. QED
        BY <4>1 DEF g
    <3>6. Hashed(n, g)
      <4>1. SUFFICES ASSUME NEW k \in DevInos \cup Paths, g[k] # Nil
                     PROVE  g[k] \in DOMAIN n /\ k \in {n[g[k]].path, n[g[k]].devino}
        BY DEF Hashed
      <4>2. k \notin {dv, pa} /\ g[k] = h[k]
        BY <4>1, <3>4
      <4>3. h[k] \in DOMAIN up /\ k \in {up[h[k]].path, up[h[k]].devino}
        BY <4>1, <4>2, <1>10 DEF Hashed
      <4>4. h[k] # prev
        BY <4>2, <4>3
      <4>5. QED
        BY <4>2, <4>3, <4>4, <3>2, <1>5 DEF Recounted
    <3>7. Users(now, prev) = {}
      BY <2>1, <2>2, <2>5, UsersFinite, FS_EmptySet
    <3>8. Remembered(n, now)
      BY <3>2, <3>7, <2>3, <1>3 DEF Remembered, Parts, Users
    <3>9. Counted(n, now) /\ \A i \in DOMAIN n : n[i].refcnt > 0
      BY <3>2, <2>4 DEF Counted
    <3>10. Consistent(Bk(c, f, n, g, now))
      BY <3>2, <3>4, <3>6, <3>8, <3>9, <1>1, <1>3, <1>6, Built DEF Parts, BkType
    <3>11. QED
      BY <3>1, <3>5, <3>10, <1>9, <1>14 DEF prev
  <2>6. CASE up[prev].refcnt # 1
    <3> DEFINE down == CountDown(up, prev)
    <3>1. cwd_refcnt_dec(kept, prev) = Decrement(kept, prev)
      BY <2>6, <1>8 DEF cwd_refcnt_dec, Decrement
    <3>2. Decrement(kept, prev) = Bk(c, f, down, h, now)
      <4> HIDE DEF kept
      <4>1. QED
        BY <1>7, BkDecrement
    <3>3. Recounted(up, down, prev, -1)
      BY <2>1, <1>5, OneMore DEF Recounted
    <3> HIDE DEF down
    <3>4. \A i \in DOMAIN m : down[i].refcnt = Cardinality(Users(now, i)) /\ down[i].refcnt > 0
      <4>1. down[prev].refcnt = Cardinality(Users(now, prev)) /\ down[prev].refcnt > 0
        BY <3>3, <2>1, <2>2, <2>6, UsersFinite DEF Recounted
      <4>2. QED
        BY <4>1, <3>3, <2>4, <1>5 DEF Recounted
    <3>5. Hashed(down, h)
      BY <3>3, <1>5, <1>10 DEF Recounted, Hashed
    <3>6. Remembered(down, now)
      BY <3>3, <2>3, <1>3, <1>5 DEF Recounted, Remembered, Parts
    <3>7. Consistent(Bk(c, f, down, h, now))
      BY <3>3, <3>4, <3>5, <3>6, <1>1, <1>3, <1>5, <1>6, Built
        DEF Parts, Recounted, Counted, BkType
    <3>8. QED
      BY <3>1, <3>2, <3>7, <1>9, <1>14 DEF prev
  <2>7. QED
    BY <2>5, <2>6
<1>15. QED
  BY <1>12, <1>13, <1>14

\* It does not move the backend, and the structure stays what it was.
LEMMA StorePlace ==
  ASSUME NEW x, NEW id, Pending(x, id), id \in DOMAIN x.mem, NEW s \in Scripts
  PROVE  LET y == store_last_cwd(x, s, id)
         IN  /\ y.cwd = x.cwd /\ id \in DOMAIN y.mem
             /\ y.mem[id].path = x.mem[id].path /\ y.mem[id].devino = x.mem[id].devino
<1>1. PICK c, f, m, h, l : x = Bk(c, f, m, h, l) /\ BkType(c, f, m, h, l)
  BY BackendParts DEF Pending
<1> DEFINE prev == l[s]
           up   == CountUp(m, id)
           now  == [l EXCEPT ![s] = id]
           kept == Increment(x, id, s)
           y    == store_last_cwd(x, s, id)
<1>2. /\ Remembered(m, l) /\ id \in DOMAIN m /\ x.last = l /\ x.cwd = c /\ x.mem = m
  BY <1>1, BkFields DEF Pending
<1>3. m \in [DOMAIN m -> AnyCount]
  BY <1>1, PerlRunAssumption, FS_CardinalityType DEF BkType, Structs, AnyCount
<1>4. Recounted(m, up, id, 1)
  BY <1>2, <1>3, OneMore
<1>5. kept = Bk(c, f, up, h, now)
  BY <1>1, BkIncrement
<1>6. kept.mem = up
  BY <1>5, BkFields
<1>7. y = IF prev = Nil THEN kept ELSE cwd_refcnt_dec(kept, prev)
  BY <1>2 DEF store_last_cwd, Increment
<1>8. id # Nil /\ now[s] = id
  BY <1>1, <1>2, PerlRunAssumption DEF BkType
<1>9. \E n, g : y = Bk(c, f, n, g, now) /\ \A i \in DOMAIN n : n[i].path = m[i].path /\ n[i].devino = m[i].devino
  <2>1. CASE prev = Nil
    BY <1>4, <1>5, <1>7, <2>1 DEF Recounted
  <2>2. CASE prev # Nil /\ up[prev].refcnt = 1
    <3> DEFINE n  == [i \in DOMAIN up \ {prev} |-> up[i]]
               dv == up[prev].devino
               pa == up[prev].path
    <3>1. cwd_refcnt_dec(kept, prev) = Rehash(kept, n, dv, pa, Nil)
      BY <1>6, <2>2 DEF cwd_refcnt_dec, Freed, Rehash
    <3>2. \A i \in DOMAIN n : n[i].path = m[i].path /\ n[i].devino = m[i].devino
      BY <1>4 DEF Recounted
    <3> HIDE DEF n, dv, pa, kept, up, now
    <3>3. \E g : Rehash(kept, n, dv, pa, Nil) = Bk(c, f, n, g, now)
      <4>1. Rehash(kept, n, dv, pa, Nil) = Bk(c, f, n, [h EXCEPT ![dv] = Nil, ![pa] = Nil], now)
        BY <1>5, BkRehash
      <4>. QED
        BY <4>1
    <3>. QED
      BY <1>7, <2>2, <3>1, <3>2, <3>3
  <2>3. CASE prev # Nil /\ up[prev].refcnt # 1
    <3> DEFINE down == CountDown(up, prev)
    <3>1. cwd_refcnt_dec(kept, prev) = Decrement(kept, prev)
      BY <1>6, <2>3 DEF cwd_refcnt_dec, Decrement
    <3>2. prev \in DOMAIN m
      BY <1>2, <2>3 DEF Remembered
    <3> HIDE DEF kept, up, now, prev
    <3>3. Decrement(kept, prev) = Bk(c, f, down, h, now)
      BY <1>5, BkDecrement
    <3>4. Recounted(up, down, prev, -1)
      BY <1>4, <3>2, OneMore DEF Recounted
    <3>5. \A i \in DOMAIN down : down[i].path = m[i].path /\ down[i].devino = m[i].devino
      BY <1>4, <3>4 DEF Recounted
    <3>. QED
      BY <1>7, <2>3, <3>1, <3>3, <3>5
  <2>. QED
    BY <2>1, <2>2, <2>3
<1>10. Consistent(y)
  BY StoreLast
<1> HIDE DEF y, now, up, kept, prev
<1>11. PICK n, g : y = Bk(c, f, n, g, now) /\ \A i \in DOMAIN n : n[i].path = m[i].path /\ n[i].devino = m[i].devino
  BY <1>9
<1>12. y.cwd = c /\ y.mem = n /\ y.last = now
  BY <1>11, BkFields
<1>13. id \in DOMAIN n
  BY <1>8, <1>10, <1>12 DEF Consistent, Remembered
<1>. QED
  BY <1>2, <1>11, <1>12, <1>13 DEF y

-----------------------------------------------------------------------------
(* The variables of onerun *)

Rec(pc, in, env, argv, fname, script, fe_cwd, cwd, dir) ==
  [pc |-> pc, in |-> in, env |-> env, argv |-> argv, fname |-> fname,
   script |-> script, fe_cwd |-> fe_cwd, cwd |-> cwd, dir |-> dir]

IsRun(q) == \E pc, in, env, argv, fname, script, fe_cwd, cwd, dir :
              q = Rec(pc, in, env, argv, fname, script, fe_cwd, cwd, dir)

\* What the proof looks at
Seen(q) == <<q.pc, q.script, q.fe_cwd, q.cwd, q.dir>>

SetPc(q, v)     == [q EXCEPT !.pc = v]
SetIn(q, v)     == [q EXCEPT !.in = v]
SetEnv(q, v)    == [q EXCEPT !.env = v]
SetArgv(q, v)   == [q EXCEPT !.argv = v]
SetFname(q, v)  == [q EXCEPT !.fname = v]
SetScript(q, v) == [q EXCEPT !.script = v]
SetFeCwd(q, v)  == [q EXCEPT !.fe_cwd = v]
SetCwd(q, v)    == [q EXCEPT !.cwd = v]
SetDir(q, v)    == [q EXCEPT !.dir = v]

LEMMA RecSeen ==
  ASSUME NEW p, NEW i, NEW e, NEW a, NEW f, NEW s, NEW w, NEW c, NEW d
  PROVE  /\ IsRun(Rec(p, i, e, a, f, s, w, c, d))
         /\ Seen(Rec(p, i, e, a, f, s, w, c, d)) = <<p, s, w, c, d>>
<1>1. IsRun(Rec(p, i, e, a, f, s, w, c, d))
  BY DEF IsRun
<1>2. Seen(Rec(p, i, e, a, f, s, w, c, d)) = <<p, s, w, c, d>>
  BY DEF Rec, Seen
<1>3. QED
  BY <1>1, <1>2

LEMMA RecSet ==
  ASSUME NEW p, NEW i, NEW e, NEW a, NEW f, NEW s, NEW w, NEW c, NEW d, NEW v
  PROVE  LET q == Rec(p, i, e, a, f, s, w, c, d)
         IN  /\ SetPc(q, v) = Rec(v, i, e, a, f, s, w, c, d)
             /\ SetIn(q, v) = Rec(p, v, e, a, f, s, w, c, d)
             /\ SetEnv(q, v) = Rec(p, i, v, a, f, s, w, c, d)
             /\ SetArgv(q, v) = Rec(p, i, e, v, f, s, w, c, d)
             /\ SetFname(q, v) = Rec(p, i, e, a, v, s, w, c, d)
             /\ SetScript(q, v) = Rec(p, i, e, a, f, v, w, c, d)
             /\ SetFeCwd(q, v) = Rec(p, i, e, a, f, s, v, c, d)
             /\ SetCwd(q, v) = Rec(p, i, e, a, f, s, w, v, d)
             /\ SetDir(q, v) = Rec(p, i, e, a, f, s, w, c, v)
<1>1. SetPc(Rec(p, i, e, a, f, s, w, c, d), v) = Rec(v, i, e, a, f, s, w, c, d)
  BY DEF Rec, SetPc
<1>2. SetIn(Rec(p, i, e, a, f, s, w, c, d), v) = Rec(p, v, e, a, f, s, w, c, d)
  BY DEF Rec, SetIn
<1>3. SetEnv(Rec(p, i, e, a, f, s, w, c, d), v) = Rec(p, i, v, a, f, s, w, c, d)
  BY DEF Rec, SetEnv
<1>4. SetArgv(Rec(p, i, e, a, f, s, w, c, d), v) = Rec(p, i, e, v, f, s, w, c, d)
  BY DEF Rec, SetArgv
<1>5. SetFname(Rec(p, i, e, a, f, s, w, c, d), v) = Rec(p, i, e, a, v, s, w, c, d)
  BY DEF Rec, SetFname
<1>6. SetScript(Rec(p, i, e, a, f, s, w, c, d), v) = Rec(p, i, e, a, f, v, w, c, d)
  BY DEF Rec, SetScript
<1>7. SetFeCwd(Rec(p, i, e, a, f, s, w, c, d), v) = Rec(p, i, e, a, f, s, v, c, d)
  BY DEF Rec, SetFeCwd
<1>8. SetCwd(Rec(p, i, e, a, f, s, w, c, d), v) = Rec(p, i, e, a, f, s, w, v, d)
  BY DEF Rec, SetCwd
<1>9. SetDir(Rec(p, i, e, a, f, s, w, c, d), v) = Rec(p, i, e, a, f, s, w, c, v)
  BY DEF Rec, SetDir
<1>10. QED
  BY <1>1, <1>2, <1>3, <1>4, <1>5, <1>6, <1>7, <1>8, <1>9

LEMMA SetKeeps ==
  ASSUME NEW q, IsRun(q), NEW v
  PROVE  /\ IsRun(SetPc(q, v)) /\ Seen(SetPc(q, v)) = <<v, q.script, q.fe_cwd, q.cwd, q.dir>>
         /\ IsRun(SetIn(q, v)) /\ Seen(SetIn(q, v)) = Seen(q)
         /\ IsRun(SetEnv(q, v)) /\ Seen(SetEnv(q, v)) = Seen(q)
         /\ IsRun(SetArgv(q, v)) /\ Seen(SetArgv(q, v)) = Seen(q)
         /\ IsRun(SetFname(q, v)) /\ Seen(SetFname(q, v)) = Seen(q)
         /\ IsRun(SetScript(q, v)) /\ Seen(SetScript(q, v)) = <<q.pc, v, q.fe_cwd, q.cwd, q.dir>>
         /\ IsRun(SetFeCwd(q, v)) /\ Seen(SetFeCwd(q, v)) = <<q.pc, q.script, v, q.cwd, q.dir>>
         /\ IsRun(SetCwd(q, v)) /\ Seen(SetCwd(q, v)) = <<q.pc, q.script, q.fe_cwd, v, q.dir>>
         /\ IsRun(SetDir(q, v)) /\ Seen(SetDir(q, v)) = <<q.pc, q.script, q.fe_cwd, q.cwd, v>>
<1>1. PICK p, i, e, a, f, s, w, c, d : q = Rec(p, i, e, a, f, s, w, c, d)
  BY DEF IsRun
<1>2. Seen(q) = <<p, s, w, c, d>>
  BY <1>1, RecSeen
<1>3. q.pc = p /\ q.script = s /\ q.fe_cwd = w /\ q.cwd = c /\ q.dir = d
  BY <1>2 DEF Seen
<1>4. SetPc(q, v) = Rec(v, i, e, a, f, s, w, c, d)
  BY <1>1, RecSet
<1>5. SetIn(q, v) = Rec(p, v, e, a, f, s, w, c, d)
  BY <1>1, RecSet
<1>6. SetEnv(q, v) = Rec(p, i, v, a, f, s, w, c, d)
  BY <1>1, RecSet
<1>7. SetArgv(q, v) = Rec(p, i, e, v, f, s, w, c, d)
  BY <1>1, RecSet
<1>8. SetFname(q, v) = Rec(p, i, e, a, v, s, w, c, d)
  BY <1>1, RecSet
<1>9. SetScript(q, v) = Rec(p, i, e, a, f, v, w, c, d)
  BY <1>1, RecSet
<1>10. SetFeCwd(q, v) = Rec(p, i, e, a, f, s, v, c, d)
  BY <1>1, RecSet
<1>11. SetCwd(q, v) = Rec(p, i, e, a, f, s, w, v, d)
  BY <1>1, RecSet
<1>12. SetDir(q, v) = Rec(p, i, e, a, f, s, w, c, v)
  BY <1>1, RecSet
<1>13. QED
  BY <1>2, <1>3, <1>4, <1>5, <1>6, <1>7, <1>8, <1>9, <1>10, <1>11, <1>12, RecSeen

LEMMA IdleIsRun ==
  /\ IsRun(Idle) /\ Seen(Idle) = <<"idle", Nil, Nil, Nil, Nil>>
  /\ IsRun(Dead) /\ Seen(Dead) = <<"dead", Nil, Nil, Nil, Nil>>
<1>1. Idle = Rec("idle", << >>, << >>, << >>, << >>, Nil, Nil, Nil, Nil)
  BY DEF Idle, Rec
<1>2. IsRun(Idle) /\ Seen(Idle) = <<"idle", Nil, Nil, Nil, Nil>>
  BY <1>1, RecSeen
<1>3. Dead = SetPc(Idle, "dead")
  BY DEF Dead, SetPc
<1>4. QED
  BY <1>2, <1>3, SetKeeps DEF Seen

-----------------------------------------------------------------------------
(* The inductive invariant *)

AtType == at \in [Paths -> Dirs \cup {Gone}]

RunType(q) ==
  /\ q.pc \in {"idle", "env", "argv", "script", "inscript", "quick", "last", "hash", "ask",
               "answer", "run", "dead"}
  /\ q.pc \in {"inscript", "quick", "last", "hash", "ask", "answer", "run"} => q.script \in Scripts
  /\ q.pc \in {"quick", "last", "hash"} => q.fe_cwd \in DevInos
  /\ q.pc = "answer" => q.dir \in Paths \cup {NULL}

\* The structure that onerun keeps is one that is in memory.
Kept(x, q) == q.cwd # Nil => q.cwd \in DOMAIN x.mem

IInv ==
  /\ Consistent(b) /\ AtType /\ blind \in BOOLEAN
  /\ IsRun(r) /\ RunType(r) /\ Kept(b, r)

\* A consistent backend may as well be one with a structure that is not
\* counted yet.
LEMMA ConsistentPending ==
  ASSUME NEW x, Consistent(x), NEW id
  PROVE  Pending(x, id)
  BY DEF Consistent, Pending

LEMMA ArriveKeeps ==
  ASSUME NEW x, NEW cwd, Arrive(x, cwd), IsRun(r), r.script \in Scripts,
         \/ cwd = Nil /\ Consistent(x)
         \/ cwd \in DOMAIN x.mem /\ Pending(x, cwd)
  PROVE  Consistent(b') /\ IsRun(r') /\ RunType(r') /\ Kept(b', r')
<1>1. Consistent(b')
  <2>1. CASE cwd = Nil /\ Consistent(x)
    BY <2>1 DEF Arrive
  <2>2. CASE cwd \in DOMAIN x.mem /\ Pending(x, cwd)
    <3>1. cwd # Nil
      BY <2>2, PerlRunAssumption DEF Pending, Backends
    <3>2. QED
      BY <2>2, <3>1, StoreLast DEF Arrive
  <2>3. QED
    BY <2>1, <2>2
<1> DEFINE q1 == SetPc(r, "run")
           q2 == SetCwd(q1, Nil)
           q3 == SetFeCwd(q2, Nil)
           q4 == SetDir(q3, Nil)
<1>2. r' = q4
  BY DEF Arrive, SetPc, SetCwd, SetFeCwd, SetDir
<1>3. IsRun(q1) /\ q1.pc = "run" /\ q1.script = r.script
  BY SetKeeps DEF Seen
<1> HIDE DEF q1
<1>4. IsRun(q2) /\ q2.pc = "run" /\ q2.script = r.script /\ q2.cwd = Nil
  BY <1>3, SetKeeps DEF Seen
<1> HIDE DEF q2
<1>5. IsRun(q3) /\ q3.pc = "run" /\ q3.script = r.script /\ q3.cwd = Nil
  BY <1>4, SetKeeps DEF Seen
<1> HIDE DEF q3
<1>6. IsRun(q4) /\ q4.pc = "run" /\ q4.script = r.script /\ q4.cwd = Nil
  BY <1>5, SetKeeps DEF Seen
<1> HIDE DEF q4
<1>7. QED
  BY <1>1, <1>2, <1>6 DEF RunType, Kept

\* It reads the next part of the request, or goes on to what is read next.
LEMMA StillReads ==
  ASSUME NEW q, IsRun(q), q.pc \in {"env", "argv"}, NEW v, NEW w, NEW pc \in {"argv", "script"},
         NEW now \in {SetIn(SetPc(q, pc), v), SetIn(SetEnv(q, w), v), SetIn(SetArgv(q, w), v)}
  PROVE  IsRun(now) /\ RunType(now) /\ now.cwd = q.cwd
<1>1. /\ IsRun(now) /\ now.pc \in {"env", "argv", "script"} /\ now.cwd = q.cwd
  <2>1. CASE now = SetIn(SetPc(q, pc), v)
    <3>1. IsRun(SetPc(q, pc)) /\ SetPc(q, pc).pc = pc /\ SetPc(q, pc).cwd = q.cwd
      BY SetKeeps DEF Seen
    <3>2. QED
      BY <2>1, <3>1, SetKeeps DEF Seen
  <2>2. CASE now = SetIn(SetEnv(q, w), v)
    <3>1. IsRun(SetEnv(q, w)) /\ SetEnv(q, w).pc = q.pc /\ SetEnv(q, w).cwd = q.cwd
      BY SetKeeps DEF Seen
    <3>2. QED
      BY <2>2, <3>1, SetKeeps DEF Seen
  <2>3. CASE now = SetIn(SetArgv(q, w), v)
    <3>1. IsRun(SetArgv(q, w)) /\ SetArgv(q, w).pc = q.pc /\ SetArgv(q, w).cwd = q.cwd
      BY SetKeeps DEF Seen
    <3>2. QED
      BY <2>3, <3>1, SetKeeps DEF Seen
  <2>4. QED
    BY <2>1, <2>2, <2>3
<1>2. QED
  BY <1>1 DEF RunType

LEMMA IdleType ==
  RunType(Idle) /\ RunType(Dead) /\ Idle.cwd = Nil /\ Dead.cwd = Nil
  BY IdleIsRun DEF RunType, Seen

LEMMA NewBackendConsistent ==
  ASSUME NEW dir \in Dirs
  PROVE  Consistent(NewBackend(dir))
<1> DEFINE h == [k \in DevInos \cup Paths |-> Nil]
           l == [s \in Scripts |-> Nil]
<1>1. NewBackend(dir) = Bk(dir, None, << >>, h, l)
  BY DEF NewBackend, Bk
<1>2. DOMAIN << >> = {} /\ << >> \in [DOMAIN << >> -> AnyCount]
  OBVIOUS
<1>3. h \in [DevInos \cup Paths -> Ids \cup {Nil}] /\ l \in [Scripts -> Ids \cup {Nil}]
  OBVIOUS
<1>4. Parts(<< >>, h, l)
  BY <1>2 DEF Parts, Hashed, Remembered, Counted
<1> HIDE DEF h, l
<1>5. Consistent(Bk(dir, None, << >>, h, l))
  BY <1>2, <1>3, <1>4, Built
<1>6. QED
  BY <1>1, <1>5

-----------------------------------------------------------------------------
(* Every action keeps it. *)

LEMMA InitIInv == Init => IInv
<1> SUFFICES ASSUME Init
             PROVE  IInv
  OBVIOUS
<1>1. PICK dir \in Dirs : b = NewBackend(dir)
  BY DEF Init
<1>2. Consistent(b)
  BY <1>1, NewBackendConsistent
<1>3. IsRun(r) /\ RunType(r) /\ Kept(b, r)
  BY IdleIsRun, IdleType DEF Init, Kept
<1>4. AtType /\ blind \in BOOLEAN
  BY PerlRunAssumption DEF Init, AtType
<1>5. QED
  BY <1>2, <1>3, <1>4 DEF IInv

\* What becomes of the backend when onerun exits, or the run is over
LEMMA Ends ==
  ASSUME Consistent(b'), AtType', blind' \in BOOLEAN, r' \in {Idle, Dead}
  PROVE  IInv'
<1>1. IsRun(r') /\ RunType(r') /\ r'.cwd = Nil
  BY IdleIsRun, IdleType
<1>2. QED
  BY <1>1 DEF IInv, Kept

LEMMA FrontendKeeps ==
  ASSUME IInv, FrontendSends \/ FrontendDies
  PROVE  IInv'
<1>1. CASE FrontendSends
  <2>1. \E v : r' = SetIn(SetPc(Idle, "env"), v)
    BY <1>1 DEF FrontendSends, Request, SetIn, SetPc
  <2>2. IsRun(SetPc(Idle, "env")) /\ Seen(SetPc(Idle, "env")) = <<"env", Nil, Nil, Nil, Nil>>
    BY IdleIsRun, SetKeeps DEF Seen
  <2>3. IsRun(r') /\ Seen(r') = <<"env", Nil, Nil, Nil, Nil>>
    BY <2>1, <2>2, SetKeeps
  <2>4. r'.pc = "env" /\ r'.cwd = Nil
    BY <2>3 DEF Seen
  <2>5. b' = b /\ at' = at /\ blind' = blind
    BY <1>1 DEF FrontendSends
  <2>6. QED
    BY <2>3, <2>4, <2>5 DEF IInv, AtType, RunType, Kept
<1>2. CASE FrontendDies
  <2>1. r.pc = "env" /\ \E v : r' = SetIn(r, v)
    BY <1>2 DEF FrontendDies, SetIn
  <2>2. PICK v : r' = SetIn(r, v)
    BY <2>1
  <2>3. IsRun(r') /\ r'.pc = "env" /\ r'.cwd = r.cwd
    BY <2>1, <2>2, SetKeeps DEF IInv, Seen
  <2>4. b' = b /\ at' = at /\ blind' = blind
    BY <1>2 DEF FrontendDies
  <2>5. QED
    BY <2>3, <2>4 DEF IInv, AtType, RunType, Kept
<1>3. QED
  BY <1>1, <1>2

LEMMA ReadKeeps ==
  ASSUME IInv, ReadEnv \/ ReadArgv
  PROVE  IInv'
<1>1. b' = b /\ at' = at /\ blind' = blind
  BY DEF ReadEnv, ReadArgv
<1>2. r.pc \in {"env", "argv"}
  BY DEF ReadEnv, ReadArgv
<1>3. \/ r' = Dead
      \/ \E v, w : \E pc \in {"argv", "script"} :
           r' \in {SetIn(SetPc(r, pc), v), SetIn(SetEnv(r, w), v), SetIn(SetArgv(r, w), v)}
  <2>1. CASE ReadEnv
    <3>1. \/ r' = Dead
          \/ \E v : r' = SetIn(SetPc(r, "argv"), v)
          \/ \E v, w : r' = SetIn(SetEnv(r, w), v)
      BY <2>1 DEF ReadEnv, Exits, SetIn, SetPc, SetEnv
    <3>2. QED
      BY <3>1
  <2>2. CASE ReadArgv
    <3>1. \/ r' = Dead
          \/ \E v : r' = SetIn(SetPc(r, "script"), v)
          \/ \E v, w : r' = SetIn(SetArgv(r, w), v)
      BY <2>2 DEF ReadArgv, Exits, SetIn, SetPc, SetArgv
    <3>2. QED
      BY <3>1
  <2>3. QED
    BY <2>1, <2>2
<1>4. CASE r' = Dead
  BY <1>1, <1>4, Ends DEF IInv, AtType
<1>5. CASE r' # Dead
  <2>1. PICK v, w : \E pc \in {"argv", "script"} :
          r' \in {SetIn(SetPc(r, pc), v), SetIn(SetEnv(r, w), v), SetIn(SetArgv(r, w), v)}
    BY <1>3, <1>5
  <2>2. IsRun(r') /\ RunType(r') /\ r'.cwd = r.cwd
    BY <2>1, <1>2, StillReads DEF IInv
  <2>3. QED
    BY <2>2, <1>1 DEF IInv, AtType, Kept
<1>6. QED
  BY <1>4, <1>5

LEMMA ReadScriptKeeps ==
  ASSUME IInv, ReadScript
  PROVE  IInv'
<1>1. b' = b /\ at' = at /\ blind' = blind
  BY DEF ReadScript
<1>2. CASE r' = Dead
  BY <1>1, <1>2, Ends DEF IInv, AtType
<1>3. CASE r' # Dead
  <2> DEFINE Read(fname, w, script, fe_cwd) ==
               r' = [r EXCEPT !.in = << >>, !.fname = fname, !.script = script,
                              !.pc = CASE w = SPEEDY_CWD_IN_SCRIPT -> "inscript"
                                       [] w = SPEEDY_CWD_DEVINO    -> "quick"
                                       [] OTHER                    -> "ask",
                              !.fe_cwd = IF w = SPEEDY_CWD_DEVINO THEN fe_cwd ELSE Nil]
  <2>1. \E fname, w : \E script \in Scripts, fe_cwd \in DevInos : Read(fname, w, script, fe_cwd)
    <3> DEFINE got == get_string(r.in)
               w   == IF Len(got.rest) < 2 THEN SPEEDY_CWD_UNKNOWN ELSE got.rest[2]
    <3>1. ASSUME NEW kind, NEW bytes, NEW n, NEW v \in ReadAs(kind, bytes, n)
          PROVE  v \in kind
      BY DEF ReadAs
    <3>2. \E script \in ReadAs(Scripts, got.rest, 1), fe_cwd \in ReadAs(DevInos, got.rest, 3) :
            Read(got.str, w, script, fe_cwd)
      BY <1>3 DEF ReadScript, Exits
    <3> HIDE DEF got, w, Read
    <3>3. QED
      BY <3>1, <3>2
  <2>2. PICK fname, where : \E script \in Scripts, fe_cwd \in DevInos :
          Read(fname, where, script, fe_cwd)
    <3> HIDE DEF Read
    <3>1. QED
      BY <2>1
  <2>3. PICK script \in Scripts, fe_cwd \in DevInos : Read(fname, where, script, fe_cwd)
    <3> HIDE DEF Read
    <3>1. QED
      BY <2>2
  <2> DEFINE pc == CASE where = SPEEDY_CWD_IN_SCRIPT -> "inscript"
                     [] where = SPEEDY_CWD_DEVINO    -> "quick"
                     [] OTHER                        -> "ask"
             fe == IF where = SPEEDY_CWD_DEVINO THEN fe_cwd ELSE Nil
             q1 == SetIn(r, << >>)
             q2 == SetFname(q1, fname)
             q3 == SetScript(q2, script)
             q4 == SetPc(q3, pc)
             q5 == SetFeCwd(q4, fe)
  <2>4. r' = q5
    BY <2>3 DEF SetIn, SetFname, SetScript, SetPc, SetFeCwd
  <2>5. /\ pc \in {"inscript", "quick", "ask"}
        /\ pc = "quick" => fe \in DevInos
    BY DEF SPEEDY_CWD_IN_SCRIPT, SPEEDY_CWD_DEVINO
  <2> HIDE DEF pc, fe
  <2>6. IsRun(q1) /\ q1.cwd = r.cwd
    BY SetKeeps DEF Seen, IInv
  <2> HIDE DEF q1
  <2>7. IsRun(q2) /\ q2.cwd = r.cwd
    BY <2>6, SetKeeps DEF Seen
  <2> HIDE DEF q2
  <2>8. IsRun(q3) /\ q3.cwd = r.cwd /\ q3.script = script
    BY <2>7, SetKeeps DEF Seen
  <2> HIDE DEF q3
  <2>9. IsRun(q4) /\ q4.cwd = r.cwd /\ q4.script = script /\ q4.pc = pc
    BY <2>8, SetKeeps DEF Seen
  <2> HIDE DEF q4
  <2>10. IsRun(q5) /\ q5.cwd = r.cwd /\ q5.script = script /\ q5.pc = pc /\ q5.fe_cwd = fe
    BY <2>9, SetKeeps DEF Seen
  <2> HIDE DEF q5
  <2>11. RunType(r')
    BY <2>4, <2>5, <2>10 DEF RunType
  <2>12. QED
    BY <2>4, <2>10, <2>11, <1>1 DEF IInv, AtType, Kept
<1>4. QED
  BY <1>2, <1>3

LEMMA GotoScriptKeeps ==
  ASSUME IInv, GotoScript
  PROVE  IInv'
<1> DEFINE path == fname_dir(r.fname)
           cwd  == b.hash[path]
           New(x, seen) == \E new \in cwd_new(x, path) :
                             /\ IF new.cwd = Nil THEN Exits /\ b' = new.b ELSE Arrive(new.b, new.cwd)
                             /\ blind' = (seen \/ new.blind)
<1>1. at' = at /\ r.script \in Scripts
  BY DEF GotoScript, IInv, RunType
<1>2. CASE path = NULL
  <2>1. Arrive(b, Nil) /\ blind' = blind
    BY <1>2 DEF GotoScript
  <2>2. QED
    BY <2>1, <1>1, ArriveKeeps DEF IInv, AtType
<1>3. CASE path # NULL
  <2>1. path \in Paths
    BY <1>3 DEF fname_dir
  <2>2. ASSUME NEW x, Consistent(x), NEW seen \in BOOLEAN, New(x, seen)
        PROVE  IInv'
    <3>1. PICK new \in cwd_new(x, path) :
            /\ IF new.cwd = Nil THEN Exits /\ b' = new.b ELSE Arrive(new.b, new.cwd)
            /\ blind' = (seen \/ new.blind)
      BY <2>2
    <3>2. /\ new.blind \in BOOLEAN
          /\ \/ new.cwd = Nil /\ Consistent(new.b)
             \/ new.cwd \in DOMAIN new.b.mem /\ Pending(new.b, new.cwd)
      BY <2>1, <2>2, CwdNew DEF IInv, AtType
    <3>3. blind' \in BOOLEAN
      BY <3>1, <3>2
    <3>4. CASE new.cwd = Nil
      <4>1. Consistent(new.b)
        BY <3>2, <3>4, PerlRunAssumption DEF Pending, Backends
      <4>2. QED
        BY <4>1, <3>1, <3>3, <3>4, <1>1, Ends DEF Exits, IInv, AtType
    <3>5. CASE new.cwd # Nil
      BY <3>1, <3>2, <3>3, <3>5, <1>1, ArriveKeeps DEF IInv, AtType
    <3>6. QED
      BY <3>4, <3>5
  <2>3. CASE cwd = Nil
    <3>1. New(b, blind)
      BY <2>3, <1>3 DEF GotoScript
    <3>2. QED
      BY <3>1, <2>2 DEF IInv
  <2>4. CASE cwd # Nil
    <3>1. PICK quick \in quick_cd(b, b.mem[cwd].devino) :
            IF quick.done THEN Arrive(quick.b, cwd) /\ blind' = (blind \/ quick.blind)
                          ELSE New(quick.b, blind \/ quick.blind)
      BY <2>4, <1>3 DEF GotoScript
    <3>2. b \in Backends /\ at \in [Paths -> Dirs \cup {Gone}] /\ blind \in BOOLEAN
      BY DEF IInv, Consistent, AtType
    <3>3. quick.b \in Backends /\ SameMemory(b, quick.b) /\ quick.blind \in BOOLEAN
      BY <3>1, <3>2, QuickKeeps
    <3>4. Consistent(quick.b)
      BY <3>3, SameConsistent DEF IInv
    <3>5. cwd \in DOMAIN quick.b.mem
      BY <3>3, <2>1, <2>4 DEF IInv, Consistent, Hashed, SameMemory
    <3> HIDE DEF cwd, New
    <3>6. CASE quick.done
      <4>1. Arrive(quick.b, cwd) /\ blind' \in BOOLEAN
        BY <3>1, <3>2, <3>3, <3>6
      <4>2. QED
        BY <4>1, <3>4, <3>5, <1>1, ConsistentPending, ArriveKeeps DEF IInv, AtType
    <3>7. CASE ~quick.done
      <4>1. New(quick.b, blind \/ quick.blind) /\ (blind \/ quick.blind) \in BOOLEAN
        BY <3>1, <3>2, <3>3, <3>7
      <4>2. QED
        BY <4>1, <3>4, <2>2
    <3>8. QED
      BY <3>6, <3>7
  <2>5. QED
    BY <2>3, <2>4
<1>4. QED
  BY <1>2, <1>3

LEMMA TryQuickKeeps ==
  ASSUME IInv, TryQuick
  PROVE  IInv'
<1>1. PICK quick \in quick_cd(b, r.fe_cwd) :
        /\ IF quick.done THEN Arrive(quick.b, Nil)
                         ELSE b' = quick.b /\ r' = [r EXCEPT !.pc = "last"]
        /\ blind' = (blind \/ quick.blind)
  BY DEF TryQuick
<1>2. at' = at /\ r.script \in Scripts /\ r.fe_cwd \in DevInos
  BY DEF TryQuick, IInv, RunType
<1>3. b \in Backends /\ at \in [Paths -> Dirs \cup {Gone}] /\ blind \in BOOLEAN
  BY DEF IInv, Consistent, AtType
<1>4. quick.b \in Backends /\ SameMemory(b, quick.b) /\ quick.blind \in BOOLEAN
  BY <1>1, <1>3, QuickKeeps
<1>5. Consistent(quick.b) /\ blind' \in BOOLEAN
  BY <1>1, <1>3, <1>4, SameConsistent DEF IInv
<1>6. CASE quick.done
  BY <1>1, <1>2, <1>5, <1>6, ArriveKeeps DEF IInv, AtType
<1>7. CASE ~quick.done
  <2>1. b' = quick.b /\ r' = SetPc(r, "last")
    BY <1>1, <1>7 DEF SetPc
  <2>2. /\ IsRun(r') /\ r'.pc = "last" /\ r'.script = r.script /\ r'.fe_cwd = r.fe_cwd
        /\ r'.cwd = r.cwd
    BY <2>1, SetKeeps DEF Seen, IInv
  <2>3. RunType(r')
    BY <2>2, <1>2 DEF RunType
  <2>4. Kept(b', r')
    BY <2>1, <2>2, <1>4 DEF Kept, SameMemory, IInv
  <2>5. QED
    BY <2>1, <2>2, <2>3, <2>4, <1>2, <1>5 DEF IInv, AtType
<1>8. QED
  BY <1>6, <1>7

\* A structure that is in memory has a path that can be gone to.
LEMMA PathOf ==
  ASSUME Consistent(b), AtType, NEW id \in DOMAIN b.mem
  PROVE  LET x == chdir_path(b, b.mem[id].path)
         IN  Consistent(x) /\ DOMAIN x.mem = DOMAIN b.mem
<1>1. b.mem[id].path \in Paths
  <2>1. PICK c, f, m, h, l : b = Bk(c, f, m, h, l) /\ BkType(c, f, m, h, l)
    BY BackendParts DEF Consistent
  <2>2. b.mem = m
    BY <2>1, BkFields
  <2>3. m[id] \in Structs
    BY <2>1, <2>2 DEF BkType
  <2>4. QED
    BY <2>2, <2>3 DEF Structs
<1> DEFINE x == chdir_path(b, b.mem[id].path)
<1>2. x \in Backends /\ SameMemory(b, x)
  BY <1>1, ChdirKeeps DEF Consistent, AtType
<1>3. QED
  BY <1>2, SameConsistent DEF SameMemory

LEMMA TryLastKeeps ==
  ASSUME IInv, TryLast
  PROVE  IInv'
<1> DEFINE last == b.last[r.script]
           same == last # Nil /\ b.mem[last].devino = r.fe_cwd
           x    == chdir_path(b, b.mem[last].path)
<1>1. at' = at /\ blind' = blind /\ r.script \in Scripts /\ r.fe_cwd \in DevInos
  BY DEF TryLast, IInv, RunType
<1>2. same => Consistent(x) /\ DOMAIN x.mem = DOMAIN b.mem
  <2>1. SUFFICES ASSUME same
                 PROVE  Consistent(x) /\ DOMAIN x.mem = DOMAIN b.mem
    OBVIOUS
  <2>2. last \in DOMAIN b.mem
    BY <2>1, <1>1 DEF IInv, Consistent, Remembered
  <2> HIDE DEF last
  <2>3. QED
    BY <2>2, PathOf DEF IInv
<1>3. \/ same /\ Arrive(x, Nil)
      \/ b' = (IF same THEN x ELSE b) /\ r' = SetPc(r, "hash")
  BY DEF TryLast, SetPc
<1> HIDE DEF same, x
<1>4. CASE same /\ Arrive(x, Nil)
  BY <1>1, <1>2, <1>4, ArriveKeeps DEF IInv, AtType
<1>5. CASE b' = (IF same THEN x ELSE b) /\ r' = SetPc(r, "hash")
  <2>1. Consistent(b') /\ DOMAIN b'.mem = DOMAIN b.mem
    BY <1>2, <1>5 DEF IInv
  <2>2. /\ IsRun(r') /\ r'.pc = "hash" /\ r'.script = r.script /\ r'.fe_cwd = r.fe_cwd
        /\ r'.cwd = r.cwd
    BY <1>5, SetKeeps DEF Seen, IInv
  <2>3. RunType(r') /\ Kept(b', r')
    BY <2>1, <2>2, <1>1 DEF RunType, Kept, IInv
  <2>4. QED
    BY <2>1, <2>2, <2>3, <1>1 DEF IInv, AtType
<1>6. QED
  BY <1>3, <1>4, <1>5

LEMMA TryHashKeeps ==
  ASSUME IInv, TryHash
  PROVE  IInv'
<1> DEFINE cwd == b.hash[r.fe_cwd]
           x   == chdir_path(b, b.mem[cwd].path)
<1>1. at' = at /\ blind' = blind /\ r.script \in Scripts /\ r.fe_cwd \in DevInos
  BY DEF TryHash, IInv, RunType
<1>2. cwd # Nil => cwd \in DOMAIN b.mem
  BY <1>1 DEF IInv, Consistent, Hashed
<1>3. \/ cwd # Nil /\ Arrive(x, cwd)
      \/ b' = (IF cwd # Nil THEN x ELSE b) /\ r' = SetCwd(SetPc(r, "ask"), cwd)
  BY DEF TryHash, SetPc, SetCwd
<1>4. cwd # Nil => Consistent(x) /\ DOMAIN x.mem = DOMAIN b.mem
  <2> HIDE DEF cwd
  <2>1. QED
    BY <1>2, PathOf DEF IInv
<1> HIDE DEF cwd, x
<1>5. CASE cwd # Nil /\ Arrive(x, cwd)
  BY <1>1, <1>2, <1>4, <1>5, ConsistentPending, ArriveKeeps DEF IInv, AtType
<1>6. CASE b' = (IF cwd # Nil THEN x ELSE b) /\ r' = SetCwd(SetPc(r, "ask"), cwd)
  <2>1. Consistent(b') /\ DOMAIN b'.mem = DOMAIN b.mem
    BY <1>4, <1>6 DEF IInv
  <2>2. IsRun(SetPc(r, "ask")) /\ Seen(SetPc(r, "ask")) = <<"ask", r.script, r.fe_cwd, r.cwd, r.dir>>
    BY SetKeeps DEF IInv
  <2>3. IsRun(r') /\ r'.pc = "ask" /\ r'.script = r.script /\ r'.cwd = cwd
    BY <2>2, <1>6, SetKeeps DEF Seen
  <2>4. RunType(r') /\ Kept(b', r')
    BY <2>1, <2>3, <1>1, <1>2 DEF RunType, Kept
  <2>5. QED
    BY <2>1, <2>3, <2>4, <1>1 DEF IInv, AtType
<1>7. QED
  BY <1>3, <1>5, <1>6

LEMMA AskKeeps ==
  ASSUME IInv, AskFrontend
  PROVE  IInv'
<1>1. b' = b /\ at' = at /\ blind' = blind /\ r.script \in Scripts
  BY DEF AskFrontend, IInv, RunType
<1>2. CASE r' = Dead
  BY <1>1, <1>2, Ends DEF IInv, AtType
<1>3. CASE r' # Dead
  <2>1. PICK dir \in speedy_util_getcwd(req.dir) : r' = SetDir(SetPc(r, "answer"), dir)
    BY <1>3 DEF AskFrontend, Exits, SetDir, SetPc
  <2>2. dir \in Paths \cup {NULL}
    BY <2>1 DEF speedy_util_getcwd
  <2>3. /\ IsRun(SetPc(r, "answer"))
        /\ Seen(SetPc(r, "answer")) = <<"answer", r.script, r.fe_cwd, r.cwd, r.dir>>
    BY SetKeeps DEF IInv
  <2>4. IsRun(r') /\ r'.pc = "answer" /\ r'.script = r.script /\ r'.cwd = r.cwd /\ r'.dir = dir
    BY <2>1, <2>3, SetKeeps DEF Seen
  <2>5. RunType(r') /\ Kept(b', r')
    BY <2>2, <2>4, <1>1 DEF RunType, Kept, IInv
  <2>6. QED
    BY <2>4, <2>5, <1>1 DEF IInv, AtType
<1>4. QED
  BY <1>2, <1>3

LEMMA GotoAnswerKeeps ==
  ASSUME IInv, GotoAnswer
  PROVE  IInv'
<1>1. at' = at /\ r.script \in Scripts /\ r.dir \in Paths \cup {NULL}
  BY DEF GotoAnswer, IInv, RunType
<1>2. CASE r.dir = NULL
  <2>1. Arrive(b, r.cwd) /\ blind' = blind
    BY <1>2 DEF GotoAnswer
  <2>2. \/ r.cwd = Nil /\ Consistent(b)
        \/ r.cwd \in DOMAIN b.mem /\ Pending(b, r.cwd)
    BY ConsistentPending DEF IInv, Kept
  <2>3. QED
    BY <2>1, <2>2, <1>1, ArriveKeeps DEF IInv, AtType
<1>3. CASE r.dir # NULL
  <2>1. PICK new \in cwd_new(b, r.dir) : Arrive(new.b, new.cwd) /\ blind' = (blind \/ new.blind)
    BY <1>3 DEF GotoAnswer
  <2>2. /\ new.blind \in BOOLEAN
        /\ \/ new.cwd = Nil /\ Consistent(new.b)
           \/ new.cwd \in DOMAIN new.b.mem /\ Pending(new.b, new.cwd)
    BY <1>1, <1>3, <2>1, CwdNew DEF IInv, AtType
  <2>3. blind' \in BOOLEAN
    BY <2>1, <2>2 DEF IInv
  <2>4. QED
    BY <2>1, <2>2, <2>3, <1>1, ArriveKeeps DEF IInv, AtType
<1>4. QED
  BY <1>2, <1>3

\* The script runs, and what goes on around the backend
LEMMA AroundKeeps ==
  ASSUME IInv, RunEnds \/ ScriptChdirs \/ ScriptMeddles \/ Move \/ Restart
  PROVE  IInv'
<1>1. b \in Backends
  BY DEF IInv, Consistent
<1>2. CASE RunEnds
  BY <1>2, Ends DEF RunEnds, IInv, AtType
<1>3. CASE ScriptChdirs
  <2>1. PICK dir \in Dirs : b' = [b EXCEPT !.cwd = dir]
    BY <1>3 DEF ScriptChdirs
  <2>2. Consistent(b')
    BY <2>1, <1>1, MovedBackend, SameConsistent DEF IInv
  <2>3. QED
    BY <2>2, <1>3, Ends DEF ScriptChdirs, IInv, AtType
<1>4. CASE ScriptMeddles
  <2>1. PICK fd \in {"closed", Foreign} : b' = [b EXCEPT !.fd = fd]
    BY <1>4 DEF ScriptMeddles
  <2>2. Consistent(b')
    BY <2>1, <1>1, OtherDescriptor, SameConsistent DEF IInv
  <2>3. QED
    BY <2>2, <1>4, Ends DEF ScriptMeddles, IInv, AtType
<1>5. CASE Move
  <2>1. AtType'
    BY <1>5 DEF Move, IInv, AtType
  <2>2. b' = b /\ r' = r /\ blind' = blind
    BY <1>5 DEF Move
  <2>3. QED
    BY <2>1, <2>2 DEF IInv, Kept
<1>6. CASE Restart
  <2>1. Consistent(b')
    BY <1>6, NewBackendConsistent DEF Restart
  <2>2. QED
    BY <2>1, <1>6, Ends DEF Restart, IInv, AtType
<1>7. QED
  BY <1>2, <1>3, <1>4, <1>5, <1>6

LEMMA StepIInv == IInv /\ [Next]_vars => IInv'
<1> SUFFICES ASSUME IInv, [Next]_vars
             PROVE  IInv'
  OBVIOUS
<1>1. CASE FrontendSends \/ FrontendDies
  BY <1>1, FrontendKeeps
<1>2. CASE ReadEnv \/ ReadArgv
  BY <1>2, ReadKeeps
<1>3. CASE ReadScript
  BY <1>3, ReadScriptKeeps
<1>4. CASE GotoScript
  BY <1>4, GotoScriptKeeps
<1>5. CASE TryQuick
  BY <1>5, TryQuickKeeps
<1>6. CASE TryLast
  BY <1>6, TryLastKeeps
<1>7. CASE TryHash
  BY <1>7, TryHashKeeps
<1>8. CASE AskFrontend
  BY <1>8, AskKeeps
<1>9. CASE GotoAnswer
  BY <1>9, GotoAnswerKeeps
<1>10. CASE RunEnds \/ ScriptChdirs \/ ScriptMeddles \/ Move \/ Restart
  BY <1>10, AroundKeeps
<1>11. CASE UNCHANGED vars
  BY <1>11 DEF vars, IInv, AtType, Kept
<1>12. QED
  BY <1>1, <1>2, <1>3, <1>4, <1>5, <1>6, <1>7, <1>8, <1>9, <1>10, <1>11 DEF Next, onerun

LEMMA IInvAlways == Spec => []IInv
  BY InitIInv, StepIInv, PTL DEF Spec

-----------------------------------------------------------------------------
(* The environment *)

IsPair(s)  == Equals \in ToSet(s)
KeyOf(s)   == Upto(s, KeyEnd(s) - 1)
ValueOf(s) == After(s, KeyEnd(s))

Pairs(l) == {i \in DOMAIN l : IsPair(l[i])}
KeysOf(l) == {KeyOf(l[i]) : i \in Pairs(l)}
IsLatest(l, k, i) == i \in Pairs(l) /\ KeyOf(l[i]) = k /\ \A j \in Pairs(l) : KeyOf(l[j]) = k => j <= i
Latest(l, k) == CHOOSE i : IsLatest(l, k, i)

\* Of the pairs with a key there is a last one.
LEMMA LatestIs ==
  ASSUME NEW L, NEW l \in Seq(L), NEW k \in KeysOf(l)
  PROVE  IsLatest(l, k, Latest(l, k)) /\ \A i : IsLatest(l, k, i) => i = Latest(l, k)
<1>1. PICK n \in Nat : n = Len(l) /\ DOMAIN l = 1 .. n
  OBVIOUS
<1> DEFINE T == {j \in Nat : \E i \in Pairs(l) : KeyOf(l[i]) = k /\ j = n - i}
<1>2. Pairs(l) \subseteq 1 .. n
  BY <1>1 DEF Pairs
<1>3. PICK i0 \in Pairs(l) : KeyOf(l[i0]) = k
  BY DEF KeysOf
<1>4. n - i0 \in T
  BY <1>2, <1>3
<1>5. PICK x \in T : \A y \in T : x <= y
  <2>1. T \subseteq Nat /\ T # {}
    BY <1>4
  <2> HIDE DEF T
  <2>. QED
    BY <2>1, LeastNat
<1>6. PICK i \in Pairs(l) : KeyOf(l[i]) = k /\ x = n - i
  BY <1>5
<1>7. \A j \in Pairs(l) : KeyOf(l[j]) = k => j <= i
  <2>1. SUFFICES ASSUME NEW j \in Pairs(l), KeyOf(l[j]) = k PROVE j <= i
    OBVIOUS
  <2>2. n - j \in T
    BY <1>2, <2>1
  <2>3. n - i <= n - j
    BY <1>5, <1>6, <2>2
  <2>. QED
    BY <1>2, <2>3
<1>8. IsLatest(l, k, i)
  BY <1>6, <1>7 DEF IsLatest
<1>9. IsLatest(l, k, Latest(l, k))
  BY <1>8, Zenon DEF Latest
<1>10. ASSUME NEW j, IsLatest(l, k, j) PROVE j = Latest(l, k)
  <2>1. PICK m : m = Latest(l, k) /\ IsLatest(l, k, m)
    BY <1>9
  <2>2. m <= j /\ j <= m /\ m \in 1 .. n /\ j \in 1 .. n
    BY <1>2, <1>10, <2>1 DEF IsLatest
  <2>. QED
    BY <2>1, <2>2
<1>. QED
  BY <1>9, <1>10

EnvIs(l) == [k \in KeysOf(l) |-> ValueOf(l[Latest(l, k)])]

LEMMA EnvOfIs ==
  ASSUME NEW L, NEW l \in Seq(L)
  PROVE  EnvOf(l) = EnvIs(l)
<1> DEFINE latest(k) == CHOOSE i \in Pairs(l) : KeyOf(l[i]) = k /\ \A j \in Pairs(l) : KeyOf(l[j]) = k => j <= i
<1>1. EnvOf(l) = [k \in KeysOf(l) |-> ValueOf(l[latest(k)])]
  BY Zenon DEF EnvOf, KeysOf, KeyOf, ValueOf, Pairs, IsPair
<1>2. ASSUME NEW k \in KeysOf(l) PROVE latest(k) = Latest(l, k)
  <2>1. IsLatest(l, k, Latest(l, k))
    BY LatestIs
  <2>2. IsLatest(l, k, latest(k))
    BY <2>1, Zenon DEF IsLatest
  <2> HIDE DEF latest
  <2>. QED
    BY <2>2, LatestIs
<1> HIDE DEF latest
<1>. QED
  BY <1>1, <1>2, Zenon DEF EnvIs

\* A string more is what Setenv makes of it.
LEMMA EnvOfAppend ==
  ASSUME NEW l \in Seq(Strings), NEW s \in Strings
  PROVE  EnvOf(Append(l, s)) = Setenv(EnvOf(l), s)
<1>1. PICK n \in Nat : n = Len(l) /\ DOMAIN l = 1 .. n
  OBVIOUS
<1>2. PICK m \in Seq(Strings) : m = Append(l, s)
  BY AppendProperties
<1>3. DOMAIN m = 1 .. n + 1 /\ m[n + 1] = s /\ \A i \in 1 .. n : m[i] = l[i]
  BY <1>1, <1>2, AppendProperties
<1>4. s # Garbage
  BY PerlRunAssumption
<1>5. PICK e : e = EnvIs(l)
  OBVIOUS
<1>6. /\ DOMAIN e = KeysOf(l)
      /\ \A k \in KeysOf(l) : e[k] = ValueOf(l[Latest(l, k)])
      /\ e = [k \in KeysOf(l) |-> ValueOf(l[Latest(l, k)])]
  BY <1>5 DEF EnvIs
<1>7. Pairs(l) \subseteq 1 .. n /\ Pairs(m) = IF IsPair(s) THEN Pairs(l) \cup {n + 1} ELSE Pairs(l)
  BY <1>1, <1>3 DEF Pairs
<1>8. Setenv(e, s) = IF ~IsPair(s) THEN e
                     ELSE [k \in KeysOf(l) \cup {KeyOf(s)} |-> IF k = KeyOf(s) THEN ValueOf(s) ELSE e[k]]
  <2>1. Setenv(e, s) = IF ~IsPair(s) THEN e
                       ELSE [k \in DOMAIN e \cup {KeyOf(s)} |-> IF k = KeyOf(s) THEN ValueOf(s) ELSE e[k]]
    BY <1>4, Zenon DEF Setenv, IsPair, KeyOf, ValueOf
  <2>. QED
    BY <1>6, <2>1, Zenon
<1>9. CASE ~IsPair(s)
  <2>1. Pairs(m) = Pairs(l)
    BY <1>7, <1>9
  <2>2. \A i \in Pairs(l) : m[i] = l[i]
    BY <1>3, <1>7
  <2>3. KeysOf(m) = KeysOf(l)
    BY <2>1, <2>2 DEF KeysOf
  <2>4. ASSUME NEW k \in KeysOf(l) PROVE m[Latest(m, k)] = l[Latest(l, k)]
    <3>1. PICK i : i = Latest(l, k) /\ IsLatest(l, k, i)
      BY LatestIs
    <3>2. IsLatest(m, k, i)
      BY <2>1, <2>2, <3>1 DEF IsLatest
    <3>3. i = Latest(m, k)
      BY <2>3, <3>2, LatestIs
    <3>4. m[i] = l[i]
      BY <2>2, <3>1 DEF IsLatest
    <3>. QED
      BY <3>1, <3>3, <3>4
  <2>5. EnvIs(m) = e
    BY <1>6, <2>3, <2>4, Zenon DEF EnvIs
  <2>. QED
    BY <1>2, <1>5, <1>8, <1>9, <2>5, EnvOfIs, Zenon
<1>10. CASE IsPair(s)
  <2>1. Pairs(m) = Pairs(l) \cup {n + 1}
    BY <1>7, <1>10
  <2>2. \A i \in Pairs(l) : m[i] = l[i] /\ i <= n /\ i \in Nat
    BY <1>3, <1>7
  <2>3. KeysOf(m) = KeysOf(l) \cup {KeyOf(s)}
    BY <1>3, <2>1, <2>2 DEF KeysOf
  <2>4. ASSUME NEW k \in KeysOf(m)
        PROVE  ValueOf(m[Latest(m, k)]) = IF k = KeyOf(s) THEN ValueOf(s) ELSE e[k]
    <3>1. CASE k = KeyOf(s)
      <4>1. IsLatest(m, k, n + 1)
        <5>1. n + 1 \in Pairs(m) /\ KeyOf(m[n + 1]) = k
          BY <1>3, <2>1, <3>1
        <5>2. \A j \in Pairs(m) : j <= n + 1
          BY <2>1, <2>2
        <5>. QED
          BY <5>1, <5>2 DEF IsLatest
      <4>2. Latest(m, k) = n + 1
        BY <4>1, LatestIs
      <4>. QED
        BY <1>3, <3>1, <4>2
    <3>2. CASE k # KeyOf(s)
      <4>1. k \in KeysOf(l)
        BY <2>3, <3>2
      <4>2. PICK i : i = Latest(l, k) /\ IsLatest(l, k, i)
        BY <4>1, LatestIs
      <4>3. IsLatest(m, k, i)
        <5>1. i \in Pairs(m) /\ KeyOf(m[i]) = k
          BY <2>1, <2>2, <4>2 DEF IsLatest
        <5>2. ASSUME NEW j \in Pairs(m), KeyOf(m[j]) = k PROVE j <= i
          <6>1. j # n + 1
            BY <1>3, <3>2, <5>2
          <6>2. j \in Pairs(l) /\ KeyOf(l[j]) = k
            BY <2>1, <2>2, <5>2, <6>1
          <6>. QED
            BY <4>2, <6>2 DEF IsLatest
        <5>. QED
          BY <5>1, <5>2 DEF IsLatest
      <4>4. Latest(m, k) = i
        BY <4>3, LatestIs
      <4>5. m[i] = l[i]
        BY <2>2, <4>2 DEF IsLatest
      <4>. QED
        BY <1>6, <3>2, <4>1, <4>2, <4>4, <4>5
    <3>. QED
      BY <3>1, <3>2
  <2>5. EnvIs(m) = [k \in KeysOf(m) |-> IF k = KeyOf(s) THEN ValueOf(s) ELSE e[k]]
    BY <2>4, Zenon DEF EnvIs
  <2>6. EnvIs(m) = Setenv(e, s)
    BY <1>8, <1>10, <2>3, <2>5, Zenon
  <2>. QED
    BY <1>2, <1>5, <2>6, EnvOfIs, Zenon
<1>. QED
  BY <1>9, <1>10

\* Empty strings make no difference to it.
LEMMA EnvOfNonEmpty ==
  ASSUME NEW list \in Seq(Strings)
  PROVE  EnvOf(NonEmpty(list)) = EnvOf(list)
<1> DEFINE X == {l \in Seq(Strings) : EnvOf(NonEmpty(l)) = EnvOf(l)}
<1>1. << >> \in X
  <2>1. NonEmpty(<< >>) = << >>
    BY NonEmptyNone
  <2>. QED
    BY <2>1, EmptySeq
<1>2. ASSUME NEW l \in Seq(Strings), l \in X, NEW s \in Strings PROVE Append(l, s) \in X
  <2>1. l \in Seq(Seq(Bytes)) /\ s \in Seq(Bytes)
    BY DEF Strings
  <2>2. NonEmpty(Append(l, s)) = IF s = << >> THEN NonEmpty(l) ELSE Append(NonEmpty(l), s)
    BY <2>1, NonEmptyAppend
  <2>3. NonEmpty(l) \in Seq(Strings)
    BY <2>1, NonEmptyType DEF Strings
  <2>4. EnvOf(Append(l, s)) = Setenv(EnvOf(l), s)
    BY EnvOfAppend
  <2>5. EnvOf(NonEmpty(l)) = EnvOf(l) /\ Append(l, s) \in Seq(Strings)
    BY <1>2, AppendProperties
  <2>6. CASE s = << >>
    <3>1. ToSet(<< >>) = {}
      BY DEF ToSet
    <3>2. Setenv(EnvOf(l), s) = EnvOf(l)
      BY <2>6, <3>1 DEF Setenv
    <3>. QED
      BY <2>2, <2>4, <2>5, <2>6, <3>2
  <2>7. CASE s # << >>
    <3>1. EnvOf(Append(NonEmpty(l), s)) = Setenv(EnvOf(NonEmpty(l)), s)
      BY <2>3, EnvOfAppend
    <3>. QED
      BY <2>2, <2>4, <2>5, <2>7, <3>1
  <2>. QED
    BY <2>6, <2>7
<1> HIDE DEF X
<1>3. list \in X
  BY <1>1, <1>2, SeqInd
<1>. QED
  BY <1>3 DEF X

LEMMA EnvOfNone == EnvOf(<< >>) = << >>
<1>1. KeysOf(<< >>) = {}
  BY DEF KeysOf, Pairs
<1>2. EnvIs(<< >>) = << >>
  BY <1>1 DEF EnvIs
<1>3. << >> \in Seq(Strings)
  BY EmptySeq
<1>. QED
  BY <1>2, <1>3, EnvOfIs

-----------------------------------------------------------------------------
(* What of the request has arrived *)

LEMMA RecFields ==
  ASSUME NEW p, NEW i, NEW e, NEW a, NEW f, NEW s, NEW w, NEW c, NEW d
  PROVE  LET q == Rec(p, i, e, a, f, s, w, c, d)
         IN  /\ q.pc = p /\ q.in = i /\ q.env = e /\ q.argv = a /\ q.fname = f
             /\ q.script = s /\ q.fe_cwd = w /\ q.cwd = c /\ q.dir = d
BY DEF Rec

Rq(dir, script, where, fits, payload, cut, moved) ==
  [dir |-> dir, script |-> script, where |-> where, fits |-> fits,
   payload |-> payload, cut |-> cut, moved |-> moved]

IsRq(x) ==
  \E dir, script, where, fits, payload, cut, moved : x = Rq(dir, script, where, fits, payload, cut, moved)

SetCut(x, v)   == [x EXCEPT !.cut = v]
SetMoved(x, v) == [x EXCEPT !.moved = v]

LEMMA RqFields ==
  ASSUME NEW d, NEW s, NEW w, NEW f, NEW p, NEW c, NEW m
  PROVE  LET x == Rq(d, s, w, f, p, c, m)
         IN  /\ x.dir = d /\ x.script = s /\ x.where = w /\ x.fits = f /\ x.payload = p
             /\ x.cut = c /\ x.moved = m
BY DEF Rq

\* What a request says of what arrives
Asks(x) == <<x.dir, x.script, x.where, x.fits, x.payload>>

LEMMA RqSet ==
  ASSUME NEW x, IsRq(x), NEW v
  PROVE  /\ IsRq(SetCut(x, v)) /\ Asks(SetCut(x, v)) = Asks(x)
         /\ SetCut(x, v).cut = v /\ SetCut(x, v).moved = x.moved
         /\ IsRq(SetMoved(x, v)) /\ Asks(SetMoved(x, v)) = Asks(x)
         /\ SetMoved(x, v).cut = x.cut /\ SetMoved(x, v).moved = v
<1>1. PICK d, s, w, f, p, c, m : x = Rq(d, s, w, f, p, c, m)
  BY DEF IsRq
<1>2. SetCut(x, v) = Rq(d, s, w, f, p, v, m)
  BY <1>1 DEF SetCut, Rq
<1>3. SetMoved(x, v) = Rq(d, s, w, f, p, c, v)
  BY <1>1 DEF SetMoved, Rq
<1>4. IsRq(SetCut(x, v)) /\ IsRq(SetMoved(x, v))
  BY <1>2, <1>3, Zenon DEF IsRq
<1>5. /\ Asks(SetCut(x, v)) = Asks(x)
      /\ SetCut(x, v).cut = v /\ SetCut(x, v).moved = x.moved
  BY <1>1, <1>2, RqFields DEF Asks
<1>6. /\ Asks(SetMoved(x, v)) = Asks(x)
      /\ SetMoved(x, v).cut = x.cut /\ SetMoved(x, v).moved = v
  BY <1>1, <1>3, RqFields DEF Asks
<1>. QED
  BY <1>4, <1>5, <1>6

EnvSent(x)  == Payloads[x.payload].env
ArgvSent(x) == Payloads[x.payload].argv

\* The parts of the message
ScriptPart(x, path) == Code(<<path, x.script>>) \o Place(x.script, x.where, x.dir)
ArgvPart(x, path, rest) == Listed(rest, ScriptPart(x, path))
EnvPart(x, path, rest)  == Listed(rest, ArgvPart(x, path, NonEmpty(ArgvSent(x))))

\* The directories the path of the script may be in
Named(a, x) == {path \in Paths : x.where = SPEEDY_CWD_IN_SCRIPT => a[path] = x.dir}

\* Nothing more comes.
Lost(q, x) == x.cut /\ q.in = << >>

Lists == Seq(Full(Bytes))

\* Some strings of the environment were read, and the rest is to come.
EnvComes(q, x, a) ==
  \E path \in Named(a, x), done, rest \in Lists :
    /\ done \o rest = NonEmpty(EnvSent(x)) /\ q.env = EnvOf(done) /\ q.argv = << >>
    /\ PartOf(q.in, EnvPart(x, path, rest), x.cut)

ArgvComes(q, x, a) ==
  \E path \in Named(a, x), rest \in Lists :
    /\ q.argv \in Lists /\ q.argv \o rest = NonEmpty(ArgvSent(x)) /\ q.env = EnvOf(EnvSent(x))
    /\ PartOf(q.in, ArgvPart(x, path, rest), x.cut)

Read(q, x) == q.argv = NonEmpty(ArgvSent(x)) /\ q.env = EnvOf(EnvSent(x))

ScriptComes(q, x, a) ==
  \E path \in Named(a, x) : Read(q, x) /\ PartOf(q.in, ScriptPart(x, path), x.cut)

Arrived(q, x) == Read(q, x) /\ q.script = x.script

Sent(x) ==
  /\ x.dir \in Dirs /\ x.script \in Scripts /\ x.payload \in DOMAIN Payloads
  /\ x.where \in {SPEEDY_CWD_IN_SCRIPT, SPEEDY_CWD_DEVINO, SPEEDY_CWD_UNKNOWN}
  /\ x.fits = TRUE

\* What the directory was sent as leads there.
Headed(q, x, a) ==
  /\ q.pc = "inscript" /\ ~x.cut /\ ~x.moved =>
       \E path \in Paths : q.fname = <<path, x.script>> /\ a[path] = x.dir
  /\ q.pc \in {"quick", "last", "hash"} /\ ~x.cut => q.fe_cwd = x.dir
  /\ q.pc = "answer" /\ ~x.moved =>
       IF q.dir = NULL THEN \A path \in Paths : a[path] # x.dir ELSE a[q.dir] = x.dir

Arrival(q, x, a) ==
  /\ IsRun(q) /\ IsRq(x)
  /\ q.pc \notin {"idle", "dead"} => Sent(x)
  /\ q.pc = "env" => EnvComes(q, x, a) \/ Lost(q, x)
  /\ q.pc = "argv" => ArgvComes(q, x, a) \/ Lost(q, x)
  /\ q.pc = "script" => ScriptComes(q, x, a) \/ Lost(q, x)
  /\ q.pc \in {"inscript", "quick", "last", "hash", "answer", "run"} => Arrived(q, x)
  /\ q.pc = "ask" => Arrived(q, x) \/ x.cut
  /\ Headed(q, x, a)

LEMMA PayloadTypes ==
  ASSUME NEW x, Sent(x)
  PROVE  /\ EnvSent(x) \in Seq(Seq(Bytes)) /\ ArgvSent(x) \in Seq(Seq(Bytes))
         /\ NonEmpty(EnvSent(x)) \in Lists /\ NonEmpty(ArgvSent(x)) \in Lists
         /\ EnvOf(NonEmpty(EnvSent(x))) = EnvOf(EnvSent(x))
<1>1. EnvSent(x) \in Seq(Strings) /\ ArgvSent(x) \in Seq(Strings)
  BY PerlRunAssumption DEF Sent, EnvSent, ArgvSent
<1>2. EnvSent(x) \in Seq(Seq(Bytes)) /\ ArgvSent(x) \in Seq(Seq(Bytes))
  BY <1>1 DEF Strings
<1>3. NonEmpty(EnvSent(x)) \in Lists /\ NonEmpty(ArgvSent(x)) \in Lists
  BY <1>2, NonEmptyType DEF Lists
<1>. QED
  BY <1>1, <1>2, <1>3, EnvOfNonEmpty

LEMMA BytesHold ==
  /\ Nat \subseteq Bytes /\ Paths \subseteq Bytes /\ Scripts \subseteq Bytes /\ Dirs \subseteq Bytes
  /\ SPEEDY_CWD_IN_SCRIPT \in Nat /\ SPEEDY_CWD_DEVINO \in Nat /\ SPEEDY_CWD_UNKNOWN \in Nat
BY DEF Bytes, SPEEDY_CWD_IN_SCRIPT, SPEEDY_CWD_DEVINO, SPEEDY_CWD_UNKNOWN

LEMMA ListsAre ==
  ASSUME NEW l \in Lists
  PROVE  l \in Seq(Seq(Bytes)) /\ l \in Seq(Strings)
<1>1. Full(Bytes) \subseteq Seq(Bytes)
  BY DEF Full
<1>. QED
  BY <1>1, SeqMonotonic DEF Lists, Strings

LEMMA PartTypes ==
  ASSUME NEW x, Sent(x), NEW path \in Paths, NEW rest \in Lists
  PROVE  /\ <<path, x.script>> \in Full(Bytes)
         /\ Place(x.script, x.where, x.dir) \in Seq(Bytes)
         /\ ScriptPart(x, path) \in Seq(Bytes)
         /\ ArgvPart(x, path, rest) \in Seq(Bytes)
         /\ EnvPart(x, path, rest) \in Seq(Bytes)
<1>1. path \in Bytes /\ x.script \in Bytes /\ x.where \in Bytes /\ x.dir \in Bytes
  BY BytesHold DEF Sent
<1>2. <<path, x.script>> \in Full(Bytes)
  BY <1>1 DEF Full
<1>3. PICK place \in Seq(Bytes) : place = Place(x.script, x.where, x.dir)
  BY <1>1, PlaceIs
<1>4. PICK fname \in Seq(Bytes) : fname = <<path, x.script>>
  BY <1>2 DEF Full
<1>5. PICK code \in Seq(Bytes) : code = Code(fname)
  BY CodeType, BytesHold
<1>6. PICK script \in Seq(Bytes) : script = ScriptPart(x, path)
  <2>1. code \o place \in Seq(Bytes)
    BY ConcatProperties
  <2>. QED
    BY <1>3, <1>4, <1>5, <2>1 DEF ScriptPart
<1>7. \A l \in Lists : Listed(l, script) \in Seq(Bytes)
  BY ListsAre, ListedIs, BytesHold
<1>8. ArgvPart(x, path, rest) \in Seq(Bytes)
  BY <1>6, <1>7 DEF ArgvPart
<1>9. PICK argv \in Seq(Bytes) : argv = ArgvPart(x, path, NonEmpty(ArgvSent(x)))
  BY <1>6, <1>7, PayloadTypes DEF ArgvPart
<1>10. \A l \in Lists : Listed(l, argv) \in Seq(Bytes)
  BY ListsAre, ListedIs, BytesHold
<1>11. EnvPart(x, path, rest) \in Seq(Bytes)
  BY <1>9, <1>10 DEF EnvPart
<1>. QED
  BY <1>2, <1>3, <1>6, <1>8, <1>11

\* The first string of a list, if there is one
LEMMA FirstOf ==
  ASSUME NEW S, NEW l \in Seq(S), l # << >>
  PROVE  \E s \in S, t \in Seq(S) : l = <<s>> \o t
<1>1. Head(l) \in S /\ Tail(l) \in Seq(S) /\ l = <<Head(l)>> \o Tail(l)
  BY HeadTailProperties
<1>. QED
  BY <1>1

LEMMA IdleRec ==
  /\ Idle = Rec("idle", << >>, << >>, << >>, << >>, Nil, Nil, Nil, Nil)
  /\ Dead = Rec("dead", << >>, << >>, << >>, << >>, Nil, Nil, Nil, Nil)
BY DEF Idle, Dead, Rec

\* What the frontend sends is the message, all of it.
LEMMA SendsArrival ==
  ASSUME FrontendSends, AtType
  PROVE  Arrival(r, req, at)'
<1>1. PICK dir \in Dirs, script \in Scripts, path \in Paths, payload \in DOMAIN Payloads, has_cwd \in BOOLEAN :
        Request(dir, script, path, payload, has_cwd) /\ (has_cwd => at[path] = dir)
  <2>1. Plain \in Paths /\ FALSE \in BOOLEAN /\ TRUE \in BOOLEAN
    BY PerlRunAssumption
  <2>2. PICK script \in Scripts, payload \in DOMAIN Payloads :
          \/ \E dir \in Dirs : Request(dir, script, Plain, payload, FALSE)
          \/ \E path \in Paths : at[path] # Gone /\ Request(at[path], script, path, payload, TRUE)
    BY Zenon DEF FrontendSends
  <2>3. \A path \in Paths : at[path] # Gone => at[path] \in Dirs
    BY DEF AtType
  <2>. QED
    BY <2>1, <2>2, <2>3, Zenon
<1> DEFINE env == Payloads[payload].env
           argv == Payloads[payload].argv
           fname == <<path, script>>
<1>2. PICK where : /\ where \in {SPEEDY_CWD_IN_SCRIPT, SPEEDY_CWD_DEVINO, SPEEDY_CWD_UNKNOWN}
                   /\ where = IF has_cwd THEN SPEEDY_CWD_IN_SCRIPT
                              ELSE IF Mode[dir] # "none" THEN SPEEDY_CWD_DEVINO ELSE SPEEDY_CWD_UNKNOWN
  OBVIOUS
<1>3. PICK sb : sb = speedy_frontend_mkenv(env, argv, fname, script, where, dir)
  OBVIOUS
<1>4. /\ req' = Rq(dir, script, where, sb.fits, payload, FALSE, FALSE)
      /\ r' = SetIn(SetPc(Idle, "env"), sb.bytes)
  <2>1. req' = Rq(dir, script, where, sb.fits, payload, FALSE, FALSE)
    BY <1>1, <1>2, <1>3, Zenon DEF Request, Rq
  <2>2. r' = [Idle EXCEPT !.pc = "env", !.in = sb.bytes]
    BY <1>1, <1>2, <1>3, Zenon DEF Request
  <2>. QED
    BY <2>1, <2>2 DEF SetIn, SetPc
<1>5. /\ env \in Seq(Seq(Bytes)) /\ argv \in Seq(Seq(Bytes)) /\ fname \in Seq(Bytes)
      /\ script \in Bytes /\ where \in Nat /\ dir \in Bytes
  <2>1. env \in Seq(Strings) /\ argv \in Seq(Strings)
    BY PerlRunAssumption
  <2>2. path \in Bytes /\ script \in Bytes /\ dir \in Bytes /\ where \in Nat
    BY <1>2, BytesHold
  <2>. QED
    BY <2>1, <2>2 DEF Strings
<1>6. sb.fits = TRUE /\ sb.bytes = Message(env, argv, fname, Place(script, where, dir))
  <2> HIDE DEF env, argv, fname
  <2>1. Nat \subseteq Bytes
    BY BytesHold
  <2>2. LET buf == speedy_frontend_mkenv(env, argv, fname, script, where, dir)
        IN  buf.fits = TRUE /\ buf.bytes = Message(env, argv, fname, Place(script, where, dir))
    BY <1>5, <2>1, MkenvBuilds, Zenon
  <2>. QED
    BY <1>3, <2>2, Zenon
<1> DEFINE x == req'
           q == r'
<1>7. at' = at
  BY DEF FrontendSends
<1>8. /\ x.dir = dir /\ x.script = script /\ x.where = where /\ x.payload = payload /\ x.cut = FALSE
      /\ x.fits = sb.fits
  <2>1. PICK fits, no : fits = sb.fits /\ no = FALSE
    OBVIOUS
  <2>2. x = Rq(dir, script, where, fits, payload, no, no)
    BY <1>4, <2>1, Zenon
  <2>3. /\ x.dir = dir /\ x.script = script /\ x.where = where /\ x.payload = payload /\ x.cut = no
        /\ x.fits = fits
    BY <2>2, RqFields
  <2>. QED
    BY <2>1, <2>3, Zenon
<1>9. Sent(x)
  BY <1>2, <1>6, <1>8, Zenon DEF Sent
<1>10. q = Rec("env", sb.bytes, << >>, << >>, << >>, Nil, Nil, Nil, Nil)
  <2>1. SetPc(Idle, "env") = Rec("env", << >>, << >>, << >>, << >>, Nil, Nil, Nil, Nil)
    BY IdleRec, RecSet
  <2>. QED
    BY <1>4, <2>1, RecSet
<1>11. q.pc = "env" /\ q.in = sb.bytes /\ q.env = << >> /\ q.argv = << >> /\ IsRun(q)
  BY <1>10, RecFields, RecSeen
<1>12. EnvPart(x, path, NonEmpty(EnvSent(x))) = sb.bytes
  BY <1>6, <1>8, Zenon DEF EnvPart, ArgvPart, ScriptPart, EnvSent, ArgvSent, Message
<1>13. path \in Named(at, x)
  <2>1. x.where = SPEEDY_CWD_IN_SCRIPT => has_cwd
    BY <1>2, <1>8 DEF SPEEDY_CWD_IN_SCRIPT, SPEEDY_CWD_DEVINO, SPEEDY_CWD_UNKNOWN
  <2>. QED
    BY <1>1, <1>8, <2>1, Zenon DEF Named
<1>14. EnvComes(q, x, at)
  <2>1. << >> \in Lists /\ << >> \o NonEmpty(EnvSent(x)) = NonEmpty(EnvSent(x))
    BY <1>9, PayloadTypes, EmptySeq, ConcatEmptySeq DEF Lists
  <2>2. NonEmpty(EnvSent(x)) \in Lists
    BY <1>9, PayloadTypes
  <2>3. PartOf(sb.bytes, sb.bytes, FALSE)
    <3>1. sb.bytes \in Seq(Bytes)
      BY <1>9, <1>12, <2>2, PartTypes
    <3>. QED
      BY <3>1, PartOfAll
  <2>. QED
    BY <1>8, <1>11, <1>12, <1>13, <2>1, <2>2, <2>3, EnvOfNone, Zenon DEF EnvComes
<1>15. IsRq(x)
  BY <1>4, Zenon DEF IsRq
<1> HIDE DEF x, q
<1>16. Arrival(q, x, at)
  BY <1>9, <1>11, <1>14, <1>15 DEF Arrival, Headed
<1>. QED
  BY <1>7, <1>16 DEF x, q

\* The frontend dies: what comes is a part of it.
LEMMA DiesArrival ==
  ASSUME FrontendDies, Arrival(r, req, at)
  PROVE  Arrival(r, req, at)'
<1>1. PICK n \in 0 .. Len(r.in) : r' = SetIn(r, Upto(r.in, n))
  BY DEF FrontendDies, SetIn
<1>2. req' = SetCut(req, TRUE) /\ ~req.cut /\ r.pc = "env" /\ at' = at
  BY DEF FrontendDies, SetCut
<1>3. EnvComes(r, req, at) /\ Sent(req) /\ IsRun(r) /\ IsRq(req)
  BY <1>2 DEF Arrival, Lost
<1>4. PICK p, i, e, a, f, s, w, c, d : r = Rec(p, i, e, a, f, s, w, c, d)
  BY <1>3 DEF IsRun
<1>5. r.pc = p /\ r.in = i /\ r.env = e /\ r.argv = a
  BY <1>4, RecFields
<1>6. r' = Rec(p, Upto(i, n), e, a, f, s, w, c, d)
  BY <1>1, <1>4, <1>5, RecSet
<1> DEFINE x == req'
           q == r'
<1>7. q.pc = "env" /\ q.in = Upto(i, n) /\ q.env = e /\ q.argv = a /\ IsRun(q)
  BY <1>2, <1>5, <1>6, RecFields, RecSeen
<1>8. IsRq(x) /\ Asks(x) = Asks(req) /\ x.cut = TRUE
  BY <1>2, <1>3, RqSet
<1>9. /\ x.dir = req.dir /\ x.script = req.script /\ x.where = req.where
      /\ x.payload = req.payload /\ x.fits = req.fits
  BY <1>8 DEF Asks
<1>10. Sent(x)
  BY <1>3, <1>9, Zenon DEF Sent
<1>11. PICK path \in Named(at, req), done \in Lists, rest \in Lists :
         /\ done \o rest = NonEmpty(EnvSent(req)) /\ e = EnvOf(done) /\ a = << >>
         /\ PartOf(i, EnvPart(req, path, rest), req.cut)
  BY <1>3, <1>5, Zenon DEF EnvComes
<1>12. PartOf(Upto(i, n), EnvPart(req, path, rest), TRUE)
  <2>1. EnvPart(req, path, rest) \in Seq(Bytes)
    BY <1>3, PartTypes DEF Named
  <2>2. n \in 0 .. Len(i)
    BY <1>5
  <2>. QED
    BY <1>11, <2>1, <2>2, PartOfPart
<1>13. EnvPart(x, path, rest) = EnvPart(req, path, rest) /\ EnvSent(x) = EnvSent(req)
  BY <1>9, Zenon DEF EnvPart, ArgvPart, ScriptPart, EnvSent, ArgvSent
<1>14. EnvComes(q, x, at)
  <2>1. path \in Named(at, x)
    BY <1>9, <1>11, Zenon DEF Named
  <2>. QED
    BY <1>7, <1>8, <1>11, <1>12, <1>13, <2>1, Zenon DEF EnvComes
<1> HIDE DEF x, q
<1>15. Arrival(q, x, at)
  BY <1>7, <1>8, <1>10, <1>14 DEF Arrival, Headed
<1>. QED
  BY <1>2, <1>15 DEF x, q

LEMMA DeadArrival ==
  ASSUME NEW x, IsRq(x), NEW a
  PROVE  Arrival(Dead, x, a) /\ Arrival(Idle, x, a)
<1>1. /\ IsRun(Dead) /\ Dead.pc = "dead" /\ IsRun(Idle) /\ Idle.pc = "idle"
  BY IdleRec, RecFields, RecSeen
<1>. QED
  BY <1>1 DEF Arrival, Headed

\* One more string is read from a list, or its end.
LEMMA ListNext ==
  ASSUME NEW rest \in Lists, NEW tail \in Seq(Bytes), NEW cut, NEW in,
         PartOf(in, Listed(rest, tail), cut), in # << >>
  PROVE  \/ /\ rest = << >>
            /\ \E left \in Seq(Bytes) : get_string(in) = Got(NULL, left) /\ PartOf(left, tail, cut)
         \/ cut /\ get_string(in) = Got(Garbage, << >>)
         \/ \E s \in Full(Bytes), more \in Lists, left \in Seq(Bytes) :
              /\ rest = <<s>> \o more /\ get_string(in) = Got(s, left)
              /\ PartOf(left, Listed(more, tail), cut)
<1>1. \A str \in Seq(Bytes), list \in Seq(Seq(Bytes)) :
        Listed(<<str>> \o list, tail) = Code(str) \o Listed(list, tail)
  <2>1. Nat \subseteq Bytes
    BY BytesHold
  <2>. QED
    BY <2>1, ListedIs, Zenon
<1>2. CASE rest = << >>
  <2>1. PartOf(in, EndThen(tail), cut)
    <3>1. Listed(<< >>, tail) = <<0>> \o tail
      BY ListedIs, BytesHold
    <3>. QED
      BY <1>2, <3>1, Zenon DEF EndThen
  <2>2. \E left \in Seq(Bytes) : get_string(in) = Got(NULL, left) /\ PartOf(left, tail, cut)
    BY <2>1, GetEnd, BytesHold
  <2>. QED
    BY <1>2, <2>2
<1>3. CASE rest # << >>
  <2>1. PICK s \in Full(Bytes), more \in Lists : rest = <<s>> \o more
    BY <1>3, FirstOf DEF Lists
  <2>2. s \in Seq(Bytes) /\ more \in Seq(Seq(Bytes))
    BY ListsAre DEF Full
  <2>3. PICK then \in Seq(Bytes) : then = Listed(more, tail)
    BY <2>2, ListedIs, BytesHold
  <2>4. PartOf(in, Code(s) \o then, cut)
    <3>1. Listed(<<s>> \o more, tail) = Code(s) \o Listed(more, tail)
      BY <1>1, <2>2, Zenon
    <3>. QED
      BY <2>1, <2>3, <3>1, Zenon
  <2>5. \/ cut /\ get_string(in) = Got(Garbage, << >>)
        \/ \E left \in Seq(Bytes) : get_string(in) = Got(s, left) /\ PartOf(left, then, cut)
    BY <2>4, GetStringTakes, BytesHold
  <2>. QED
    BY <2>1, <2>3, <2>5, Zenon
<1>. QED
  BY <1>2, <1>3

LEMMA GotFields ==
  ASSUME NEW str, NEW left
  PROVE  Got(str, left).str = str /\ Got(str, left).rest = left
BY DEF Got

\* A string of a list is appended to those before it.
LEMMA OneOver ==
  ASSUME NEW done \in Lists, NEW s \in Full(Bytes), NEW more \in Lists
  PROVE  /\ Append(done, s) \in Lists
         /\ Append(done, s) \o more = done \o (<<s>> \o more)
<1>1. PICK one \in Lists : one = <<s>>
  BY OneIs DEF Lists
<1>2. Append(done, s) = done \o one
  BY <1>1, AppendIsConcat DEF Lists
<1>3. (done \o one) \o more = done \o (one \o more)
  BY Assoc DEF Lists
<1>4. Append(done, s) \in Lists
  BY AppendProperties DEF Lists
<1>. QED
  BY <1>1, <1>2, <1>3, <1>4, Zenon

\* A string is set, or the environment is read.
LEMMA ReadEnvArrival ==
  ASSUME ReadEnv, Arrival(r, req, at)
  PROVE  Arrival(r, req, at)'
<1>1. r.pc = "env" /\ req' = req /\ at' = at
  BY DEF ReadEnv
<1>2. Sent(req) /\ IsRun(r) /\ IsRq(req) /\ (EnvComes(r, req, at) \/ Lost(r, req))
  BY <1>1 DEF Arrival
<1>3. CASE r' = Dead
  BY <1>1, <1>2, <1>3, DeadArrival
<1>4. CASE r' # Dead
  <2>1. PICK got : got = get_string(r.in)
    OBVIOUS
  <2>2. /\ r.in # << >>
        /\ r' = IF got.str = NULL THEN SetIn(SetPc(r, "argv"), got.rest)
                ELSE SetIn(SetEnv(r, Setenv(r.env, got.str)), got.rest)
    BY <1>4, <2>1 DEF ReadEnv, Exits, ProtocolError, SetIn, SetPc, SetEnv
  <2>3. PICK path \in Named(at, req), done \in Lists, rest \in Lists :
          /\ done \o rest = NonEmpty(EnvSent(req)) /\ r.env = EnvOf(done) /\ r.argv = << >>
          /\ PartOf(r.in, EnvPart(req, path, rest), req.cut)
    BY <1>2, <2>2, Zenon DEF EnvComes, Lost
  <2>4. PICK p, i, e, a, f, s, w, c, d : r = Rec(p, i, e, a, f, s, w, c, d)
    BY <1>2 DEF IsRun
  <2>5. r.pc = p /\ r.in = i /\ r.env = e /\ r.argv = a
    BY <2>4, RecFields
  <2>6. r' = IF got.str = NULL THEN Rec("argv", got.rest, e, a, f, s, w, c, d)
             ELSE Rec(p, got.rest, Setenv(e, got.str), a, f, s, w, c, d)
    BY <2>2, <2>4, <2>5, RecSet
  <2> DEFINE q == r'
  <2>7. PICK argv \in Seq(Bytes) : argv = ArgvPart(req, path, NonEmpty(ArgvSent(req)))
    BY <1>2, <2>3, PartTypes, PayloadTypes DEF Named
  <2>8. PartOf(i, Listed(rest, argv), req.cut) /\ i # << >>
    BY <2>2, <2>3, <2>5, <2>7, Zenon DEF EnvPart
  <2>9. CASE rest = << >> /\ \E left \in Seq(Bytes) : get_string(i) = Got(NULL, left) /\ PartOf(left, argv, req.cut)
    <3>1. PICK left \in Seq(Bytes) : get_string(i) = Got(NULL, left) /\ PartOf(left, argv, req.cut)
      BY <2>9
    <3>2. got.str = NULL /\ got.rest = left
      BY <2>1, <2>5, <3>1, GotFields
    <3>3. q = Rec("argv", left, e, a, f, s, w, c, d)
      BY <2>6, <3>2
    <3>4. q.pc = "argv" /\ q.in = left /\ q.env = e /\ q.argv = << >> /\ IsRun(q)
      BY <2>3, <2>5, <3>3, RecFields, RecSeen
    <3>5. e = EnvOf(EnvSent(req))
      <4>1. done \o << >> = done
        BY ConcatEmptySeq DEF Lists
      <4>2. done = NonEmpty(EnvSent(req))
        BY <2>3, <2>9, <4>1
      <4>. QED
        BY <1>2, <2>3, <2>5, <4>2, PayloadTypes
    <3>6. ArgvComes(q, req, at)
      <4>1. NonEmpty(ArgvSent(req)) \in Lists
        BY <1>2, PayloadTypes
      <4>2. << >> \in Lists /\ << >> \o NonEmpty(ArgvSent(req)) = NonEmpty(ArgvSent(req))
        BY <4>1, EmptySeq, ConcatEmptySeq DEF Lists
      <4>. QED
        BY <2>7, <3>1, <3>4, <3>5, <4>1, <4>2, Zenon DEF ArgvComes
    <3> HIDE DEF q
    <3>7. Arrival(q, req, at)
      BY <1>2, <3>4, <3>6 DEF Arrival, Headed
    <3>. QED
      BY <1>1, <3>7 DEF q
  <2>10. CASE req.cut /\ get_string(i) = Got(Garbage, << >>)
    <3>1. got.str = Garbage /\ got.rest = << >>
      BY <2>1, <2>5, <2>10, GotFields
    <3>2. q.pc \in {"env", "argv"} /\ q.in = << >> /\ IsRun(q)
      BY <1>1, <2>5, <2>6, <3>1, RecFields, RecSeen
    <3>3. Lost(q, req)
      BY <2>10, <3>2 DEF Lost
    <3> HIDE DEF q
    <3>4. Arrival(q, req, at)
      BY <1>2, <3>2, <3>3 DEF Arrival, Headed
    <3>. QED
      BY <1>1, <3>4 DEF q
  <2>11. CASE \E str \in Full(Bytes), more \in Lists, left \in Seq(Bytes) :
                /\ rest = <<str>> \o more /\ get_string(i) = Got(str, left)
                /\ PartOf(left, Listed(more, argv), req.cut)
    <3>1. PICK str \in Full(Bytes), more \in Lists, left \in Seq(Bytes) :
            /\ rest = <<str>> \o more /\ get_string(i) = Got(str, left)
            /\ PartOf(left, Listed(more, argv), req.cut)
      BY <2>11
    <3>2. str \in Strings /\ str # NULL
      BY PerlRunAssumption DEF Full, Strings
    <3>3. got.str = str /\ got.rest = left
      BY <2>1, <2>5, <3>1, GotFields
    <3>4. q = Rec(p, left, Setenv(e, str), a, f, s, w, c, d)
      BY <2>6, <3>2, <3>3
    <3>5. q.pc = "env" /\ q.in = left /\ q.env = Setenv(e, str) /\ q.argv = << >> /\ IsRun(q)
      BY <1>1, <2>3, <2>5, <3>4, RecFields, RecSeen
    <3>6. PICK longer \in Lists : longer = Append(done, str) /\ longer \o more = done \o rest
      BY <3>1, OneOver
    <3>7. q.env = EnvOf(longer)
      <4>1. done \in Seq(Strings)
        BY ListsAre
      <4>2. EnvOf(Append(done, str)) = Setenv(EnvOf(done), str)
        BY <3>2, <4>1, EnvOfAppend
      <4>. QED
        BY <2>3, <2>5, <3>5, <3>6, <4>2
    <3>8. PartOf(q.in, EnvPart(req, path, more), req.cut)
      BY <2>7, <3>1, <3>5, Zenon DEF EnvPart
    <3>9. EnvComes(q, req, at)
      BY <2>3, <3>5, <3>6, <3>7, <3>8, Zenon DEF EnvComes
    <3> HIDE DEF q
    <3>10. Arrival(q, req, at)
      BY <1>2, <3>5, <3>9 DEF Arrival, Headed
    <3>. QED
      BY <1>1, <3>10 DEF q
  <2>12. \/ /\ rest = << >>
            /\ \E left \in Seq(Bytes) : get_string(i) = Got(NULL, left) /\ PartOf(left, argv, req.cut)
         \/ req.cut /\ get_string(i) = Got(Garbage, << >>)
         \/ \E str \in Full(Bytes), more \in Lists, left \in Seq(Bytes) :
              /\ rest = <<str>> \o more /\ get_string(i) = Got(str, left)
              /\ PartOf(left, Listed(more, argv), req.cut)
    BY <2>8, ListNext
  <2>. QED
    BY <2>9, <2>10, <2>11, <2>12
<1>. QED
  BY <1>3, <1>4

\* An argument is added, or the arguments are read.
LEMMA ReadArgvArrival ==
  ASSUME ReadArgv, Arrival(r, req, at)
  PROVE  Arrival(r, req, at)'
<1>1. r.pc = "argv" /\ req' = req /\ at' = at
  BY DEF ReadArgv
<1>2. Sent(req) /\ IsRun(r) /\ IsRq(req) /\ (ArgvComes(r, req, at) \/ Lost(r, req))
  BY <1>1 DEF Arrival
<1>3. CASE r' = Dead
  BY <1>1, <1>2, <1>3, DeadArrival
<1>4. CASE r' # Dead
  <2>1. PICK got : got = get_string(r.in)
    OBVIOUS
  <2>2. /\ r.in # << >>
        /\ r' = IF got.str = NULL THEN SetIn(SetPc(r, "script"), got.rest)
                ELSE SetIn(SetArgv(r, Append(r.argv, got.str)), got.rest)
    BY <1>4, <2>1 DEF ReadArgv, Exits, ProtocolError, SetIn, SetPc, SetArgv
  <2>3. PICK path \in Named(at, req), rest \in Lists :
          /\ r.argv \in Lists /\ r.argv \o rest = NonEmpty(ArgvSent(req)) /\ r.env = EnvOf(EnvSent(req))
          /\ PartOf(r.in, ArgvPart(req, path, rest), req.cut)
    BY <1>2, <2>2, Zenon DEF ArgvComes, Lost
  <2>4. PICK p, i, e, a, f, s, w, c, d : r = Rec(p, i, e, a, f, s, w, c, d)
    BY <1>2 DEF IsRun
  <2>5. r.pc = p /\ r.in = i /\ r.env = e /\ r.argv = a
    BY <2>4, RecFields
  <2>6. r' = IF got.str = NULL THEN Rec("script", got.rest, e, a, f, s, w, c, d)
             ELSE Rec(p, got.rest, e, Append(a, got.str), f, s, w, c, d)
    BY <2>2, <2>4, <2>5, RecSet
  <2> DEFINE q == r'
  <2>7. PICK script \in Seq(Bytes) : script = ScriptPart(req, path)
    BY <1>2, <2>3, PartTypes DEF Named
  <2>8. PartOf(i, Listed(rest, script), req.cut) /\ i # << >>
    BY <2>2, <2>3, <2>5, <2>7, Zenon DEF ArgvPart
  <2>9. CASE rest = << >> /\ \E left \in Seq(Bytes) : get_string(i) = Got(NULL, left) /\ PartOf(left, script, req.cut)
    <3>1. PICK left \in Seq(Bytes) : get_string(i) = Got(NULL, left) /\ PartOf(left, script, req.cut)
      BY <2>9
    <3>2. got.str = NULL /\ got.rest = left
      BY <2>1, <2>5, <3>1, GotFields
    <3>3. q = Rec("script", left, e, a, f, s, w, c, d)
      BY <2>6, <3>2
    <3>4. q.pc = "script" /\ q.in = left /\ q.env = e /\ q.argv = a /\ IsRun(q)
      BY <2>5, <3>3, RecFields, RecSeen
    <3>5. a = NonEmpty(ArgvSent(req))
      <4>1. a \in Lists /\ a \o rest = NonEmpty(ArgvSent(req))
        BY <2>3, <2>5
      <4>2. a \o << >> = a
        BY <4>1, ConcatEmptySeq DEF Lists
      <4>. QED
        BY <2>9, <4>1, <4>2
    <3>6. ScriptComes(q, req, at)
      <4>1. Read(q, req)
        BY <2>3, <2>5, <3>4, <3>5 DEF Read
      <4>. QED
        BY <2>7, <3>1, <3>4, <4>1, Zenon DEF ScriptComes
    <3> HIDE DEF q
    <3>7. Arrival(q, req, at)
      BY <1>2, <3>4, <3>6 DEF Arrival, Headed
    <3>. QED
      BY <1>1, <3>7 DEF q
  <2>10. CASE req.cut /\ get_string(i) = Got(Garbage, << >>)
    <3>1. got.str = Garbage /\ got.rest = << >>
      BY <2>1, <2>5, <2>10, GotFields
    <3>2. q.pc \in {"argv", "script"} /\ q.in = << >> /\ IsRun(q)
      BY <1>1, <2>5, <2>6, <3>1, RecFields, RecSeen
    <3>3. Lost(q, req)
      BY <2>10, <3>2 DEF Lost
    <3> HIDE DEF q
    <3>4. Arrival(q, req, at)
      BY <1>2, <3>2, <3>3 DEF Arrival, Headed
    <3>. QED
      BY <1>1, <3>4 DEF q
  <2>11. CASE \E str \in Full(Bytes), more \in Lists, left \in Seq(Bytes) :
                /\ rest = <<str>> \o more /\ get_string(i) = Got(str, left)
                /\ PartOf(left, Listed(more, script), req.cut)
    <3>1. PICK str \in Full(Bytes), more \in Lists, left \in Seq(Bytes) :
            /\ rest = <<str>> \o more /\ get_string(i) = Got(str, left)
            /\ PartOf(left, Listed(more, script), req.cut)
      BY <2>11
    <3>2. str \in Strings /\ str # NULL
      BY PerlRunAssumption DEF Full, Strings
    <3>3. got.str = str /\ got.rest = left
      BY <2>1, <2>5, <3>1, GotFields
    <3>4. q = Rec(p, left, e, Append(a, str), f, s, w, c, d)
      BY <2>6, <3>2, <3>3
    <3>5. q.pc = "argv" /\ q.in = left /\ q.env = e /\ q.argv = Append(a, str) /\ IsRun(q)
      <4>1. PICK longer : longer = Append(a, str)
        OBVIOUS
      <4>2. q = Rec(p, left, e, longer, f, s, w, c, d)
        BY <3>4, <4>1, Zenon
      <4>3. q.pc = p /\ q.in = left /\ q.env = e /\ q.argv = longer /\ IsRun(q)
        BY <4>2, RecFields, RecSeen
      <4>. QED
        BY <1>1, <2>5, <4>1, <4>3
    <3>6. q.argv \in Lists /\ q.argv \o more = a \o rest
      <4>1. a \in Lists
        BY <2>3, <2>5
      <4>2. Append(a, str) \in Lists /\ Append(a, str) \o more = a \o (<<str>> \o more)
        BY <4>1, OneOver
      <4>. QED
        BY <3>1, <3>5, <4>2
    <3>7. PartOf(q.in, ArgvPart(req, path, more), req.cut)
      BY <2>7, <3>1, <3>5, Zenon DEF ArgvPart
    <3>8. ArgvComes(q, req, at)
      BY <2>3, <2>5, <3>5, <3>6, <3>7, Zenon DEF ArgvComes
    <3> HIDE DEF q
    <3>9. Arrival(q, req, at)
      BY <1>2, <3>5, <3>8 DEF Arrival, Headed
    <3>. QED
      BY <1>1, <3>9 DEF q
  <2>12. \/ /\ rest = << >>
            /\ \E left \in Seq(Bytes) : get_string(i) = Got(NULL, left) /\ PartOf(left, script, req.cut)
         \/ req.cut /\ get_string(i) = Got(Garbage, << >>)
         \/ \E str \in Full(Bytes), more \in Lists, left \in Seq(Bytes) :
              /\ rest = <<str>> \o more /\ get_string(i) = Got(str, left)
              /\ PartOf(left, Listed(more, script), req.cut)
    BY <2>8, ListNext
  <2>. QED
    BY <2>9, <2>10, <2>11, <2>12
<1>. QED
  BY <1>3, <1>4

LEMMA ReadAsIs ==
  ASSUME NEW kind, NEW bytes, NEW n, n <= Len(bytes), bytes[n] \in kind
  PROVE  ReadAs(kind, bytes, n) = {bytes[n]}
BY Zenon DEF ReadAs

\* The variables of onerun after the script was read
ScriptRead(q, fname, script, where, fe_cwd) ==
  LET q1 == SetIn(q, << >>)
      q2 == SetFname(q1, fname)
      q3 == SetScript(q2, script)
      q4 == SetPc(q3, CASE where = SPEEDY_CWD_IN_SCRIPT -> "inscript"
                        [] where = SPEEDY_CWD_DEVINO    -> "quick"
                        [] OTHER                        -> "ask")
  IN  SetFeCwd(q4, IF where = SPEEDY_CWD_DEVINO THEN fe_cwd ELSE Nil)

LEMMA ReadScriptIs ==
  ASSUME ReadScript, r' # Dead
  PROVE  /\ r.in # << >> /\ r.pc = "script" /\ req' = req
         /\ LET got   == get_string(r.in)
                where == IF Len(got.rest) < 2 THEN SPEEDY_CWD_UNKNOWN ELSE got.rest[2]
            IN  \E script \in ReadAs(Scripts, got.rest, 1), fe_cwd \in ReadAs(DevInos, got.rest, 3) :
                  r' = ScriptRead(r, got.str, script, where, fe_cwd)
<1>1. r.in # << >> /\ r.pc = "script" /\ req' = req
  BY DEF ReadScript, Exits, ProtocolError
<1> DEFINE got   == get_string(r.in)
           where == IF Len(got.rest) < 2 THEN SPEEDY_CWD_UNKNOWN ELSE got.rest[2]
           Now(script, fe_cwd) ==
             [r EXCEPT !.in = << >>, !.fname = got.str, !.script = script,
                       !.pc = CASE where = SPEEDY_CWD_IN_SCRIPT -> "inscript"
                                [] where = SPEEDY_CWD_DEVINO    -> "quick"
                                [] OTHER                        -> "ask",
                       !.fe_cwd = IF where = SPEEDY_CWD_DEVINO THEN fe_cwd ELSE Nil]
<1>2. \E script \in ReadAs(Scripts, got.rest, 1), fe_cwd \in ReadAs(DevInos, got.rest, 3) :
        r' = Now(script, fe_cwd)
  BY <1>1 DEF ReadScript, Exits
<1> HIDE DEF Now
<1>3. PICK script \in ReadAs(Scripts, got.rest, 1), fe_cwd \in ReadAs(DevInos, got.rest, 3) :
        r' = Now(script, fe_cwd)
  BY <1>2, Zenon
<1> USE DEF Now
<1> HIDE DEF got, where
<1>4. PICK pc, fe : /\ pc = CASE where = SPEEDY_CWD_IN_SCRIPT -> "inscript"
                              [] where = SPEEDY_CWD_DEVINO    -> "quick"
                              [] OTHER                        -> "ask"
                    /\ fe = IF where = SPEEDY_CWD_DEVINO THEN fe_cwd ELSE Nil
  OBVIOUS
<1>5. r' = [r EXCEPT !.in = << >>, !.fname = got.str, !.script = script, !.pc = pc, !.fe_cwd = fe]
  BY <1>3, <1>4, Zenon
<1>6. r' = SetFeCwd(SetPc(SetScript(SetFname(SetIn(r, << >>), got.str), script), pc), fe)
  BY <1>5 DEF SetIn, SetFname, SetScript, SetPc, SetFeCwd
<1>7. r' = ScriptRead(r, got.str, script, where, fe_cwd)
  BY <1>4, <1>6, Zenon DEF ScriptRead
<1>. QED
  BY <1>1, <1>3, <1>7, Zenon DEF got, where

LEMMA ScriptReadIs ==
  ASSUME NEW q, IsRun(q), NEW fname, NEW script, NEW where, NEW fe_cwd
  PROVE  LET now == ScriptRead(q, fname, script, where, fe_cwd)
         IN  /\ IsRun(now) /\ now.env = q.env /\ now.argv = q.argv /\ now.script = script
             /\ now.fname = fname
             /\ now.pc \in {"inscript", "quick", "ask"}
             /\ where = SPEEDY_CWD_UNKNOWN => now.pc = "ask"
             /\ now.pc = "inscript" => where = SPEEDY_CWD_IN_SCRIPT
             /\ now.pc = "quick" => where = SPEEDY_CWD_DEVINO /\ now.fe_cwd = fe_cwd
             /\ now.cwd = q.cwd /\ now.dir = q.dir
<1>1. PICK p, i, e, a, f, s, w, c, d : q = Rec(p, i, e, a, f, s, w, c, d)
  BY DEF IsRun
<1>2. PICK pc, fe : /\ pc = CASE where = SPEEDY_CWD_IN_SCRIPT -> "inscript"
                              [] where = SPEEDY_CWD_DEVINO    -> "quick"
                              [] OTHER                        -> "ask"
                    /\ fe = IF where = SPEEDY_CWD_DEVINO THEN fe_cwd ELSE Nil
  OBVIOUS
<1>3. ScriptRead(q, fname, script, where, fe_cwd) =
        SetFeCwd(SetPc(SetScript(SetFname(SetIn(q, << >>), fname), script), pc), fe)
  BY <1>2, Zenon DEF ScriptRead
<1>4. SetIn(q, << >>) = Rec(p, << >>, e, a, f, s, w, c, d)
  BY <1>1, RecSet
<1>5. SetFname(SetIn(q, << >>), fname) = Rec(p, << >>, e, a, fname, s, w, c, d)
  BY <1>4, RecSet
<1>6. SetScript(SetFname(SetIn(q, << >>), fname), script) = Rec(p, << >>, e, a, fname, script, w, c, d)
  BY <1>5, RecSet
<1>7. SetPc(SetScript(SetFname(SetIn(q, << >>), fname), script), pc) = Rec(pc, << >>, e, a, fname, script, w, c, d)
  BY <1>6, RecSet
<1>8. ScriptRead(q, fname, script, where, fe_cwd) = Rec(pc, << >>, e, a, fname, script, fe, c, d)
  BY <1>3, <1>7, RecSet
<1>9. /\ pc \in {"inscript", "quick", "ask"}
      /\ where = SPEEDY_CWD_UNKNOWN => pc = "ask"
      /\ pc = "inscript" => where = SPEEDY_CWD_IN_SCRIPT
      /\ pc = "quick" => where = SPEEDY_CWD_DEVINO /\ fe = fe_cwd
  BY <1>2 DEF SPEEDY_CWD_IN_SCRIPT, SPEEDY_CWD_DEVINO, SPEEDY_CWD_UNKNOWN
<1>. QED
  BY <1>1, <1>8, <1>9, RecFields, RecSeen

\* What is left after the path of the script: the script, and where the
\* directory is
LEMMA PlaceArrives ==
  ASSUME NEW sent \in Scripts, NEW dir \in Dirs, NEW cut, NEW left,
         NEW where \in {SPEEDY_CWD_IN_SCRIPT, SPEEDY_CWD_DEVINO, SPEEDY_CWD_UNKNOWN},
         PartOf(left, Place(sent, where, dir), cut),
         NEW script \in ReadAs(Scripts, left, 1), NEW fe_cwd \in ReadAs(DevInos, left, 3)
  PROVE  /\ Len(left) < 2 => cut
         /\ ~(Len(left) < 2) => left[2] = where /\ script = sent
         /\ ~cut /\ where = SPEEDY_CWD_DEVINO => fe_cwd = dir
<1>1. PICK place \in Seq(Bytes), k \in Nat :
        /\ place = Place(sent, where, dir) /\ k = Len(place)
        /\ k = IF where = SPEEDY_CWD_DEVINO THEN 3 ELSE 2
        /\ place[1] = sent /\ place[2] = where
        /\ where = SPEEDY_CWD_DEVINO => place[3] = dir
  <2>1. sent \in Bytes /\ where \in Bytes /\ dir \in Bytes
    BY BytesHold
  <2>2. PICK p \in Seq(Bytes) : p = Place(sent, where, dir)
    BY <2>1, PlaceIs
  <2>3. /\ Len(p) = IF where = SPEEDY_CWD_DEVINO THEN 3 ELSE 2
        /\ p[1] = sent /\ p[2] = where
        /\ where = SPEEDY_CWD_DEVINO => p[3] = dir
    <3>1. PICK w \in Bytes : w = where
      BY <2>1
    <3>2. p = Place(sent, w, dir)
      BY <2>2, <3>1, Zenon
    <3>3. /\ Len(p) = IF w = SPEEDY_CWD_DEVINO THEN 3 ELSE 2
          /\ p[1] = sent /\ p[2] = w
          /\ w = SPEEDY_CWD_DEVINO => p[3] = dir
      <4>1. \A de, wh, di \in Bytes :
              /\ Len(Place(de, wh, di)) = IF wh = SPEEDY_CWD_DEVINO THEN 3 ELSE 2
              /\ Place(de, wh, di)[1] = de /\ Place(de, wh, di)[2] = wh
              /\ wh = SPEEDY_CWD_DEVINO => Place(de, wh, di)[3] = di
        BY PlaceIs
      <4>. QED
        BY <2>1, <3>2, <4>1
    <3>. QED
      BY <3>1, <3>3
  <2>4. PICK k \in Nat : k = Len(p)
    BY LenProperties
  <2>. QED
    BY <2>2, <2>3, <2>4
<1>2. PICK n \in Nat : /\ n = Len(left) /\ n <= k /\ \A i \in 1 .. n : left[i] = place[i]
                       /\ ~cut => n = k
  <2>1. PartOf(left, place, cut)
    BY <1>1, Zenon
  <2>2. /\ left \in Seq(Bytes) /\ Len(left) <= Len(place) /\ \A i \in 1 .. Len(left) : left[i] = place[i]
        /\ ~cut => left = place
    BY <2>1, PartIs
  <2>3. PICK n \in Nat : n = Len(left)
    BY <2>2, LenProperties
  <2>4. ASSUME ~cut PROVE n = k
    BY <1>1, <2>2, <2>3, <2>4
  <2>. QED
    BY <1>1, <2>2, <2>3, <2>4
<1>3. n < 2 => cut
  BY <1>1, <1>2
<1>4. ASSUME ~(n < 2) PROVE left[2] = where /\ script = sent
  <2>1. left[1] = sent /\ left[2] = where
    BY <1>1, <1>2, <1>4
  <2>2. ReadAs(Scripts, left, 1) = {left[1]}
    BY <1>2, <1>4, <2>1, ReadAsIs
  <2>. QED
    BY <2>1, <2>2
<1>5. ASSUME ~cut, where = SPEEDY_CWD_DEVINO PROVE fe_cwd = dir
  <2>1. n = 3 /\ left[3] = dir
    BY <1>1, <1>2, <1>5
  <2>2. ReadAs(DevInos, left, 3) = {left[3]}
    <3>1. 3 <= Len(left) /\ left[3] \in DevInos
      BY <1>2, <2>1 DEF DevInos
    <3>. QED
      BY <3>1, ReadAsIs
  <2>. QED
    BY <2>1, <2>2
<1>. QED
  BY <1>2, <1>3, <1>4, <1>5

LEMMA ReadScriptArrival ==
  ASSUME ReadScript, Arrival(r, req, at)
  PROVE  Arrival(r, req, at)'
<1>1. r.pc = "script" /\ req' = req /\ at' = at
  BY DEF ReadScript
<1>2. Sent(req) /\ IsRun(r) /\ IsRq(req) /\ (ScriptComes(r, req, at) \/ Lost(r, req))
  BY <1>1 DEF Arrival
<1>3. CASE r' = Dead
  BY <1>1, <1>2, <1>3, DeadArrival
<1>4. CASE r' # Dead
  <2>1. PICK got : got = get_string(r.in)
    OBVIOUS
  <2>2. PICK where : where = IF Len(got.rest) < 2 THEN SPEEDY_CWD_UNKNOWN ELSE got.rest[2]
    OBVIOUS
  <2>3. PICK script \in ReadAs(Scripts, got.rest, 1), fe_cwd \in ReadAs(DevInos, got.rest, 3) :
          r' = ScriptRead(r, got.str, script, where, fe_cwd)
    BY <1>4, <2>1, <2>2, ReadScriptIs, Zenon
  <2>4. r.in # << >>
    BY <1>4, ReadScriptIs
  <2> DEFINE q == r'
  <2>5. /\ IsRun(q) /\ q.env = r.env /\ q.argv = r.argv /\ q.script = script
        /\ q.pc \in {"inscript", "quick", "ask"}
        /\ where = SPEEDY_CWD_UNKNOWN => q.pc = "ask"
        /\ q.fname = got.str /\ (q.pc = "inscript" => where = SPEEDY_CWD_IN_SCRIPT)
        /\ q.pc = "quick" => where = SPEEDY_CWD_DEVINO /\ q.fe_cwd = fe_cwd
    BY <1>2, <2>3, ScriptReadIs
  <2>6. PICK path \in Named(at, req) : Read(r, req) /\ PartOf(r.in, ScriptPart(req, path), req.cut)
    BY <1>2, <2>4, Zenon DEF ScriptComes, Lost
  <2>7. Read(q, req)
    BY <2>5, <2>6 DEF Read
  <2>8. PICK fname \in Full(Bytes), place \in Seq(Bytes) :
          fname = <<path, req.script>> /\ place = Place(req.script, req.where, req.dir)
    <3>1. << >> \in Lists
      BY EmptySeq DEF Lists
    <3>. QED
      BY <1>2, <2>6, <3>1, PartTypes DEF Named
  <2>9. \/ req.cut /\ get_string(r.in) = Got(Garbage, << >>)
        \/ \E left \in Seq(Bytes) : get_string(r.in) = Got(fname, left) /\ PartOf(left, place, req.cut)
    <3>1. PartOf(r.in, Code(fname) \o place, req.cut)
      BY <2>6, <2>8, Zenon DEF ScriptPart
    <3>. QED
      BY <2>4, <3>1, GetStringTakes, BytesHold
  <2>10. /\ Arrived(q, req) \/ (req.cut /\ q.pc = "ask")
         /\ Headed(q, req, at)
    <3>1. CASE req.cut /\ get_string(r.in) = Got(Garbage, << >>)
      <4>1. got.rest = << >>
        BY <2>1, <3>1, GotFields
      <4>2. where = SPEEDY_CWD_UNKNOWN
        BY <2>2, <4>1
      <4>. QED
        BY <2>5, <3>1, <4>2 DEF Headed
    <3>2. CASE \E left \in Seq(Bytes) : get_string(r.in) = Got(fname, left) /\ PartOf(left, place, req.cut)
      <4>1. PICK left \in Seq(Bytes) : get_string(r.in) = Got(fname, left) /\ PartOf(left, place, req.cut)
        BY <3>2
      <4>2. got.rest = left /\ got.str = fname
        BY <2>1, <4>1, GotFields
      <4>3. PICK cut : cut = req.cut
        OBVIOUS
      <4>4. /\ Len(left) < 2 => cut
            /\ ~(Len(left) < 2) => left[2] = req.where /\ script = req.script
            /\ ~cut /\ req.where = SPEEDY_CWD_DEVINO => fe_cwd = req.dir
        <5>1. PartOf(left, Place(req.script, req.where, req.dir), cut)
          BY <2>8, <4>1, <4>3, Zenon
        <5>2. /\ req.script \in Scripts /\ req.dir \in Dirs
              /\ req.where \in {SPEEDY_CWD_IN_SCRIPT, SPEEDY_CWD_DEVINO, SPEEDY_CWD_UNKNOWN}
          BY <1>2 DEF Sent
        <5>. QED
          BY <2>3, <4>2, <5>1, <5>2, PlaceArrives
      <4>5. CASE Len(left) < 2
        BY <2>2, <2>5, <4>2, <4>3, <4>4, <4>5 DEF Headed
      <4>6. CASE ~(Len(left) < 2)
        <5>1. Arrived(q, req)
          BY <2>5, <2>7, <4>4, <4>6 DEF Arrived
        <5>2. where = req.where
          BY <2>2, <4>2, <4>4, <4>6
        <5>3. ASSUME q.pc = "inscript", ~cut PROVE \E dir \in Paths : q.fname = <<dir, req.script>> /\ at[dir] = req.dir
          <6>1. path \in Paths /\ at[path] = req.dir
            BY <2>5, <2>6, <5>2, <5>3 DEF Named
          <6>. QED
            BY <2>5, <2>8, <4>2, <6>1
        <5>4. ASSUME q.pc = "quick", ~cut PROVE q.fe_cwd = req.dir
          BY <2>5, <4>4, <5>2, <5>4
        <5>5. q.pc \notin {"last", "hash", "answer"}
          BY <2>5
        <5>6. Headed(q, req, at)
          BY <4>3, <5>3, <5>4, <5>5, Zenon DEF Headed
        <5>. QED
          BY <5>1, <5>6
      <4>. QED
        BY <4>5, <4>6
    <3>. QED
      BY <2>9, <3>1, <3>2, Zenon
  <2> HIDE DEF q
  <2>11. Arrival(q, req, at)
    BY <1>2, <2>5, <2>10 DEF Arrival
  <2>. QED
    BY <1>1, <2>11 DEF q
<1>. QED
  BY <1>3, <1>4

\* What was read
Content(q) == <<q.env, q.argv, q.script, q.fname>>

LEMMA ContentSet ==
  ASSUME NEW q, IsRun(q), NEW v
  PROVE  /\ Content(SetPc(q, v)) = Content(q) /\ SetPc(q, v).pc = v /\ IsRun(SetPc(q, v))
         /\ Content(SetCwd(q, v)) = Content(q) /\ SetCwd(q, v).pc = q.pc /\ IsRun(SetCwd(q, v))
         /\ Content(SetFeCwd(q, v)) = Content(q) /\ SetFeCwd(q, v).pc = q.pc /\ IsRun(SetFeCwd(q, v))
         /\ Content(SetDir(q, v)) = Content(q) /\ SetDir(q, v).pc = q.pc /\ IsRun(SetDir(q, v))
<1>1. PICK p, i, e, a, f, s, w, c, d : q = Rec(p, i, e, a, f, s, w, c, d)
  BY DEF IsRun
<1>2. /\ SetPc(q, v) = Rec(v, i, e, a, f, s, w, c, d)
      /\ SetCwd(q, v) = Rec(p, i, e, a, f, s, w, v, d)
      /\ SetFeCwd(q, v) = Rec(p, i, e, a, f, s, v, c, d)
      /\ SetDir(q, v) = Rec(p, i, e, a, f, s, w, c, v)
  BY <1>1, RecSet
<1>3. Content(SetPc(q, v)) = Content(q) /\ SetPc(q, v).pc = v /\ IsRun(SetPc(q, v))
  BY <1>1, <1>2, RecFields, RecSeen DEF Content
<1>4. Content(SetCwd(q, v)) = Content(q) /\ SetCwd(q, v).pc = q.pc /\ IsRun(SetCwd(q, v))
  BY <1>1, <1>2, RecFields, RecSeen DEF Content
<1>5. Content(SetFeCwd(q, v)) = Content(q) /\ SetFeCwd(q, v).pc = q.pc /\ IsRun(SetFeCwd(q, v))
  BY <1>1, <1>2, RecFields, RecSeen DEF Content
<1>6. Content(SetDir(q, v)) = Content(q) /\ SetDir(q, v).pc = q.pc /\ IsRun(SetDir(q, v))
  BY <1>1, <1>2, RecFields, RecSeen DEF Content
<1>. QED
  BY <1>3, <1>4, <1>5, <1>6

LEMMA ArriveContent ==
  ASSUME NEW x, NEW cwd, Arrive(x, cwd), IsRun(r)
  PROVE  IsRun(r') /\ r'.pc = "run" /\ Content(r') = Content(r)
<1> DEFINE q1 == SetPc(r, "run")
           q2 == SetCwd(q1, Nil)
           q3 == SetFeCwd(q2, Nil)
           q4 == SetDir(q3, Nil)
<1>1. r' = q4
  BY DEF Arrive, SetPc, SetCwd, SetFeCwd, SetDir
<1>2. IsRun(q1) /\ q1.pc = "run" /\ Content(q1) = Content(r)
  BY ContentSet
<1> HIDE DEF q1
<1>3. IsRun(q2) /\ q2.pc = "run" /\ Content(q2) = Content(r)
  BY <1>2, ContentSet
<1> HIDE DEF q2
<1>4. IsRun(q3) /\ q3.pc = "run" /\ Content(q3) = Content(r)
  BY <1>3, ContentSet
<1> HIDE DEF q3
<1>5. IsRun(q4) /\ q4.pc = "run" /\ Content(q4) = Content(r)
  BY <1>4, ContentSet
<1> HIDE DEF q4
<1>. QED
  BY <1>1, <1>5

Going == {"inscript", "quick", "last", "hash", "ask", "answer"}

\* What onerun does once the request was read: it exits, goes on, or runs the
\* script, which it does not when the frontend could not be asked.
LEMMA GoesOn ==
  ASSUME GotoScript \/ TryQuick \/ TryLast \/ TryHash \/ AskFrontend \/ GotoAnswer, IsRun(r)
  PROVE  /\ req' = req /\ at' = at /\ r.pc \in Going
         /\ \/ r' = Dead
            \/ /\ IsRun(r') /\ Content(r') = Content(r) /\ r'.pc \in {"last", "hash", "ask", "answer", "run"}
               /\ r.pc = "ask" => ~req.cut
               /\ r'.pc \in {"last", "hash"} => r.pc \in {"quick", "last"} /\ r'.fe_cwd = r.fe_cwd
               /\ r'.pc = "answer" => r'.dir \in speedy_util_getcwd(req.dir)
<1>1. req' = req /\ at' = at /\ r.pc \in Going
  BY DEF GotoScript, TryQuick, TryLast, TryHash, AskFrontend, GotoAnswer, Going
<1>2. CASE GotoScript
  <2>1. r' = Dead \/ \E x, cwd : Arrive(x, cwd)
    BY <1>2, Zenon DEF GotoScript, Exits
  <2>2. r.pc = "inscript"
    BY <1>2 DEF GotoScript
  <2>. QED
    BY <1>1, <2>1, <2>2, ArriveContent
<1>3. CASE TryQuick
  <2>1. (\E x, cwd : Arrive(x, cwd)) \/ r' = SetPc(r, "last")
    BY <1>3 DEF TryQuick, SetPc
  <2>2. r.pc = "quick"
    BY <1>3 DEF TryQuick
  <2>. QED
    BY <1>1, <2>1, <2>2, ArriveContent, ContentSet, SetKeeps DEF Seen
<1>4. CASE TryLast
  <2>1. (\E x, cwd : Arrive(x, cwd)) \/ r' = SetPc(r, "hash")
    BY <1>4 DEF TryLast, SetPc
  <2>2. r.pc = "last"
    BY <1>4 DEF TryLast
  <2>. QED
    BY <1>1, <2>1, <2>2, ArriveContent, ContentSet, SetKeeps DEF Seen
<1>5. CASE TryHash
  <2>1. (\E x, cwd : Arrive(x, cwd)) \/ \E cwd : r' = SetCwd(SetPc(r, "ask"), cwd)
    BY <1>5 DEF TryHash, SetPc, SetCwd
  <2>2. r.pc = "hash"
    BY <1>5 DEF TryHash
  <2>3. IsRun(SetPc(r, "ask")) /\ Content(SetPc(r, "ask")) = Content(r) /\ SetPc(r, "ask").pc = "ask"
    BY ContentSet
  <2>. QED
    BY <1>1, <2>1, <2>2, <2>3, ArriveContent, ContentSet
<1>6. CASE AskFrontend
  <2>1. r' = Dead \/ (~req.cut /\ \E dir \in speedy_util_getcwd(req.dir) :
                                     r' = SetDir(SetPc(r, "answer"), dir))
    BY <1>6 DEF AskFrontend, Exits, SetPc, SetDir
  <2>2. /\ IsRun(SetPc(r, "answer")) /\ Content(SetPc(r, "answer")) = Content(r)
        /\ SetPc(r, "answer").pc = "answer"
    BY ContentSet
  <2>3. r.pc = "ask"
    BY <1>6 DEF AskFrontend
  <2>4. CASE r' = Dead
    BY <1>1, <2>4
  <2>5. CASE ~req.cut /\ \E dir \in speedy_util_getcwd(req.dir) : r' = SetDir(SetPc(r, "answer"), dir)
    <3>1. PICK dir \in speedy_util_getcwd(req.dir) : r' = SetDir(SetPc(r, "answer"), dir)
      BY <2>5
    <3>2. r'.dir = dir
      BY <2>2, <3>1, SetKeeps DEF Seen
    <3>. QED
      BY <1>1, <2>2, <2>5, <3>1, <3>2, ContentSet
  <2>. QED
    BY <2>1, <2>4, <2>5
<1>7. CASE GotoAnswer
  <2>1. \E x, cwd : Arrive(x, cwd)
    BY <1>7, Zenon DEF GotoAnswer
  <2>2. r.pc = "answer"
    BY <1>7 DEF GotoAnswer
  <2>. QED
    BY <1>1, <2>1, <2>2, ArriveContent
<1>. QED
  BY <1>2, <1>3, <1>4, <1>5, <1>6, <1>7

LEMMA GoesOnArrival ==
  ASSUME GotoScript \/ TryQuick \/ TryLast \/ TryHash \/ AskFrontend \/ GotoAnswer,
         Arrival(r, req, at)
  PROVE  Arrival(r, req, at)'
<1>1. IsRun(r) /\ IsRq(req)
  BY DEF Arrival
<1>2. req' = req /\ at' = at /\ r.pc \in Going
  BY <1>1, GoesOn
<1>3. CASE r' = Dead
  BY <1>1, <1>2, <1>3, DeadArrival
<1>4. CASE r' # Dead
  <2> DEFINE q == r'
  <2>1. /\ IsRun(q) /\ Content(q) = Content(r) /\ q.pc \in {"last", "hash", "ask", "answer", "run"}
        /\ r.pc = "ask" => ~req.cut
        /\ q.pc \in {"last", "hash"} => r.pc \in {"quick", "last"} /\ q.fe_cwd = r.fe_cwd
        /\ q.pc = "answer" => q.dir \in speedy_util_getcwd(req.dir)
    BY <1>1, <1>4, GoesOn
  <2>2. Sent(req) /\ Arrived(r, req) /\ Headed(r, req, at)
    BY <1>2, <2>1 DEF Arrival, Going
  <2> HIDE DEF q
  <2>3. Headed(q, req, at)
    <3>1. q.pc \notin {"inscript", "quick"}
      BY <2>1
    <3>2. q.pc \in {"last", "hash"} /\ ~req.cut => q.fe_cwd = req.dir
      BY <2>1, <2>2 DEF Headed
    <3>3. q.pc = "answer" => IF q.dir = NULL THEN \A path \in Paths : at[path] # req.dir
                             ELSE at[q.dir] = req.dir
      <4>1. NULL \notin Paths
        BY PerlRunAssumption
      <4>. QED
        BY <2>1, <4>1 DEF speedy_util_getcwd
    <3>. QED
      BY <3>1, <3>2, <3>3 DEF Headed
  <2>4. Arrived(q, req)
    BY <2>1, <2>2 DEF Arrived, Read, Content
  <2>5. Arrival(q, req, at)
    BY <1>1, <2>1, <2>2, <2>3, <2>4 DEF Arrival
  <2>. QED
    BY <1>2, <2>5 DEF q
<1>. QED
  BY <1>3, <1>4

\* The run is over, or a directory is moved.
LEMMA AroundArrival ==
  ASSUME RunEnds \/ ScriptChdirs \/ ScriptMeddles \/ Move \/ Restart, Arrival(r, req, at)
  PROVE  Arrival(r, req, at)'
<1>1. CASE RunEnds \/ ScriptChdirs \/ ScriptMeddles \/ Restart
  <2>1. r' = Idle /\ req' = NoRequest
    BY <1>1 DEF RunEnds, ScriptChdirs, ScriptMeddles, Restart
  <2>2. IsRq(NoRequest)
    <3>1. NoRequest = Rq(Gone, Nil, SPEEDY_CWD_UNKNOWN, TRUE, Nil, FALSE, FALSE)
      BY Zenon DEF NoRequest, Rq
    <3>. QED
      BY <3>1, Zenon DEF IsRq
  <2>. QED
    BY <2>1, <2>2, DeadArrival
<1>2. CASE Move
  <2>1. r' = r /\ req' = SetMoved(req, r.pc # "idle") /\ r.pc \notin {"env", "argv", "script", "dead"}
    BY <1>2 DEF Move, SetMoved
  <2> DEFINE x == req'
  <2>2. IsRq(x) /\ Asks(x) = Asks(req) /\ x.cut = req.cut /\ (r.pc # "idle" => x.moved)
    <3>1. \A v : /\ IsRq(SetMoved(req, v)) /\ Asks(SetMoved(req, v)) = Asks(req)
                 /\ SetMoved(req, v).cut = req.cut /\ SetMoved(req, v).moved = v
      BY RqSet, Zenon DEF Arrival
    <3>. QED
      BY <2>1, <3>1, Zenon
  <2>3. /\ x.dir = req.dir /\ x.script = req.script /\ x.where = req.where
        /\ x.payload = req.payload /\ x.fits = req.fits
    BY <2>2 DEF Asks
  <2>4. Sent(req) => Sent(x)
    BY <2>3, Zenon DEF Sent
  <2>5. Arrived(r, req) => Arrived(r, x)
    BY <2>3 DEF Arrived, Read, EnvSent, ArgvSent
  <2>6. Headed(r, x, at')
    <3>1. r.pc \in {"quick", "last", "hash"} /\ ~x.cut => r.fe_cwd = x.dir
      <4>1. PICK cut : cut = req.cut /\ cut = x.cut
        BY <2>2
      <4>. QED
        BY <2>3, <4>1 DEF Arrival, Headed
    <3>. QED
      BY <2>2, <3>1 DEF Headed
  <2> HIDE DEF x
  <2>7. Arrival(r, x, at')
    BY <2>1, <2>2, <2>4, <2>5, <2>6 DEF Arrival
  <2>. QED
    BY <2>1, <2>7 DEF x
<1>. QED
  BY <1>1, <1>2

ArrivalInv == Arrival(r, req, at)

LEMMA ArrivalAlways == Spec => []ArrivalInv
<1>1. Init => ArrivalInv
  <2>1. IsRq(NoRequest)
    <3>1. NoRequest = Rq(Gone, Nil, SPEEDY_CWD_UNKNOWN, TRUE, Nil, FALSE, FALSE)
      BY Zenon DEF NoRequest, Rq
    <3>. QED
      BY <3>1, Zenon DEF IsRq
  <2>. QED
    BY <2>1, DeadArrival DEF Init, ArrivalInv
<1>2. ArrivalInv /\ IInv /\ [Next]_vars => ArrivalInv'
  <2> SUFFICES ASSUME Arrival(r, req, at), AtType, [Next]_vars
               PROVE  Arrival(r, req, at)'
    BY DEF ArrivalInv, IInv
  <2>1. CASE FrontendSends
    BY <2>1, SendsArrival
  <2>2. CASE FrontendDies
    BY <2>2, DiesArrival
  <2>3. CASE ReadEnv
    BY <2>3, ReadEnvArrival
  <2>4. CASE ReadArgv
    BY <2>4, ReadArgvArrival
  <2>5. CASE ReadScript
    BY <2>5, ReadScriptArrival
  <2>6. CASE GotoScript \/ TryQuick \/ TryLast \/ TryHash \/ AskFrontend \/ GotoAnswer
    BY <2>6, GoesOnArrival
  <2>7. CASE RunEnds \/ ScriptChdirs \/ ScriptMeddles \/ Move \/ Restart
    BY <2>7, AroundArrival
  <2>8. CASE UNCHANGED vars
    BY <2>8 DEF vars
  <2>. QED
    BY <2>1, <2>2, <2>3, <2>4, <2>5, <2>6, <2>7, <2>8 DEF Next, onerun
<1>. QED
  BY <1>1, <1>2, IInvAlways, PTL DEF Spec

-----------------------------------------------------------------------------
(* The directory the backend goes to *)

\* quick_cd takes no other directory for the one it is to go to, unless what it
\* compares was never set.
LEMMA QuickRight ==
  ASSUME NEW x \in Backends, AtType, NEW dest \in Dirs, Enterable(dest),
         NEW quick \in quick_cd(x, dest), quick.done, ~quick.blind
  PROVE  quick.b.cwd = dest
<1> DEFINE fd  == stat_cwd_fd(x)
           y   == [x EXCEPT !.fd = fd]
           new == chdir_path(y, ".")
<1>1. fd \in Dirs \cup {None, Foreign, "closed"}
  BY DEF stat_cwd_fd, Backends
<1>2. y \in Backends /\ y.cwd = x.cwd
  <2>1. y \in Backends
    BY <1>1, OtherDescriptor
  <2>. QED
    BY <2>1 DEF Backends
<1>3. CASE fd = dest
  <2>1. quick = [b |-> [x EXCEPT !.cwd = fd], done |-> TRUE, blind |-> FALSE]
    BY <1>3 DEF quick_cd, fd
  <2>2. [x EXCEPT !.cwd = fd].cwd = fd
    BY DEF Backends
  <2>. QED
    BY <1>3, <2>1, <2>2
<1>4. CASE fd # dest
  <2>1. new.cwd = x.cwd /\ new.fd = IF Mode[x.cwd] = "all" THEN x.cwd ELSE None
    <3> HIDE DEF y
    <3>1. chdir_works(y, ".") /\ Lookup(y, ".") = x.cwd
      BY <1>2 DEF chdir_works, Lookup
    <3>. QED
      BY <1>2, <3>1, ChdirGoes
  <2>2. PICK garbage \in Garbled(new) :
          quick = [b |-> new,
                   done |-> devino_of(new, IF fd = None THEN garbage ELSE fd) = dest,
                   blind |-> fd = None /\ unset(new)]
    BY <1>4 DEF quick_cd, fd, new, y
  <2> HIDE DEF new, y, fd
  <2>3. PICK was : was = IF fd = None THEN garbage ELSE fd
    OBVIOUS
  <2>4. PICK done : done = (devino_of(new, was) = dest)
    OBVIOUS
  <2>5. PICK no : no = (fd = None /\ unset(new))
    OBVIOUS
  <2>6. quick = [b |-> new, done |-> done, blind |-> no]
    BY <2>2, <2>3, <2>4, <2>5, Zenon
  <2>7. quick.b = new /\ quick.done = done /\ quick.blind = no
    BY <2>6
  <2>8. devino_of(new, was) = dest
    BY <2>4, <2>7, Zenon
  <2>9. ~(fd = None /\ unset(new))
    BY <2>5, <2>7, Zenon
  <2>10. Junk \notin Dirs /\ None \notin Dirs
    BY PerlRunAssumption
  <2>11. CASE new.fd # None
    <3>1. devino_of(new, was) = new.fd
      BY <2>11 DEF devino_of
    <3>. QED
      BY <2>1, <2>7, <2>8, <2>11, <3>1
  <2>12. CASE new.fd = None /\ Mode[new.cwd] = "none"
    <3>1. devino_of(new, was) = Junk
      BY <2>12 DEF devino_of
    <3>. QED
      BY <2>8, <2>10, <3>1
  <2>13. CASE new.fd = None /\ Mode[new.cwd] # "none"
    <3>1. devino_of(new, was) = was
      BY <2>13 DEF devino_of
    <3>2. was = fd
      BY <2>3, <2>9, <2>13 DEF unset
    <3>. QED
      BY <1>4, <2>8, <3>1, <3>2
  <2>. QED
    BY <2>11, <2>12, <2>13
<1>. QED
  BY <1>3, <1>4

LEMMA ArriveAt ==
  ASSUME NEW x, NEW cwd, Arrive(x, cwd), r.script \in Scripts,
         cwd = Nil \/ (cwd \in DOMAIN x.mem /\ Pending(x, cwd))
  PROVE  /\ b'.cwd = x.cwd
         /\ cwd = Nil => b' = x
         /\ cwd # Nil => /\ cwd \in DOMAIN b'.mem
                         /\ b'.mem[cwd].path = x.mem[cwd].path
                         /\ b'.mem[cwd].devino = x.mem[cwd].devino
<1>1. b' = IF cwd = Nil THEN x ELSE store_last_cwd(x, r.script, cwd)
  BY DEF Arrive
<1>. QED
  BY <1>1, StorePlace

\* A structure in memory is of a path and of what that path led to.
LEMMA StructOf ==
  ASSUME NEW x \in Backends, NEW id \in DOMAIN x.mem
  PROVE  x.mem[id].path \in Paths /\ x.mem[id].devino \in DevInos
<1>1. PICK c, f, m, h, l : x = Bk(c, f, m, h, l) /\ BkType(c, f, m, h, l)
  BY BackendParts
<1>2. x.mem = m
  BY <1>1, BkFields
<1>3. m[id] \in Structs
  BY <1>1, <1>2 DEF BkType
<1>. QED
  BY <1>2, <1>3 DEF Structs

\* The directory the request is for can be gone to, and its paths lead there.
Meant(dir) == dir \in Dirs /\ Enterable(dir) /\ \E path \in Paths : at[path] = dir

Trusted(mem) == \A id \in DOMAIN mem : at[mem[id].path] = mem[id].devino

LEMMA ScriptRight ==
  ASSUME IInv, Arrival(r, req, at), GotoScript, r' # Dead,
         ~req.cut, ~req.moved, ~blind', Meant(req.dir), Trusted(b'.mem)
  PROVE  b'.cwd = req.dir
<1>1. b \in Backends /\ Consistent(b) /\ AtType /\ r.script \in Scripts /\ r.pc = "inscript"
  BY DEF GotoScript, IInv, Consistent, RunType
<1>2. PICK path \in Paths : r.fname = <<path, req.script>> /\ at[path] = req.dir
  BY <1>1, Zenon DEF Arrival, Headed
<1>3. fname_dir(r.fname) = path /\ path # NULL
  <2>1. path \in Bytes /\ req.script \in Bytes
    BY <1>1, BytesHold DEF Arrival, Sent
  <2>2. r.fname \in Strings /\ Head(r.fname) = path
    BY <1>2, <2>1 DEF Strings
  <2>. QED
    BY <2>2, PerlRunAssumption DEF fname_dir
<1> DEFINE cwd == b.hash[path]
           New(x, seen) == \E new \in cwd_new(x, path) :
                             /\ IF new.cwd = Nil THEN Exits /\ b' = new.b ELSE Arrive(new.b, new.cwd)
                             /\ blind' = (seen \/ new.blind)
<1>4. ASSUME NEW x, Consistent(x), NEW seen, New(x, seen)
      PROVE  b'.cwd = req.dir
  <2>1. PICK new \in cwd_new(x, path) :
          IF new.cwd = Nil THEN Exits /\ b' = new.b ELSE Arrive(new.b, new.cwd)
    BY <1>4, Zenon
  <2>2. new.cwd # Nil /\ Arrive(new.b, new.cwd)
    BY <2>1 DEF Exits
  <2>3. new.cwd \in DOMAIN new.b.mem /\ Pending(new.b, new.cwd) /\ new.b.cwd = at[path]
    BY <1>1, <1>4, <2>2, CwdNew DEF AtType
  <2>. QED
    BY <1>1, <1>2, <2>2, <2>3, ArriveAt
<1>5. CASE cwd = Nil
  <2>1. New(b, blind)
    BY <1>3, <1>5 DEF GotoScript
  <2>. QED
    BY <1>1, <1>4, <2>1
<1>6. CASE cwd # Nil
  <2>1. PICK quick \in quick_cd(b, b.mem[cwd].devino) :
          IF quick.done THEN Arrive(quick.b, cwd) /\ blind' = (blind \/ quick.blind)
                        ELSE New(quick.b, blind \/ quick.blind)
    BY <1>3, <1>6 DEF GotoScript
  <2>2. quick.b \in Backends /\ SameMemory(b, quick.b) /\ Consistent(quick.b)
    BY <1>1, <2>1, QuickKeeps, SameConsistent DEF AtType
  <2>3. CASE ~quick.done
    <3> HIDE DEF New
    <3>. QED
      BY <1>4, <2>1, <2>2, <2>3
  <2>4. CASE quick.done
    <3>1. Arrive(quick.b, cwd) /\ ~quick.blind
      BY <2>1, <2>4, Zenon
    <3>2. cwd \in DOMAIN b.mem /\ path \in {b.mem[cwd].path, b.mem[cwd].devino}
      BY <1>1, <1>6 DEF Consistent, Hashed
    <3> HIDE DEF cwd
    <3>3. b.mem[cwd].path = path
      <4>1. path \notin DevInos
        BY PerlRunAssumption DEF DevInos
      <4>. QED
        BY <1>1, <3>2, <4>1, StructOf
    <3>4. /\ b'.cwd = quick.b.cwd /\ cwd \in DOMAIN b'.mem
          /\ b'.mem[cwd].path = path /\ b'.mem[cwd].devino = b.mem[cwd].devino
      <4>1. cwd \in DOMAIN quick.b.mem /\ Pending(quick.b, cwd) /\ quick.b.mem[cwd] = b.mem[cwd]
        BY <2>2, <3>2, ConsistentPending DEF SameMemory
      <4>. QED
        BY <1>1, <1>6, <3>1, <3>3, <4>1, ArriveAt
    <3>5. b.mem[cwd].devino = req.dir
      BY <1>2, <3>4 DEF Trusted
    <3>6. quick.b.cwd = req.dir
      BY <1>1, <2>1, <2>4, <3>1, <3>5, QuickRight DEF Meant
    <3>. QED
      BY <3>4, <3>6
  <2>. QED
    BY <2>3, <2>4
<1>. QED
  BY <1>5, <1>6

LEMMA QuickGoesRight ==
  ASSUME IInv, Arrival(r, req, at), TryQuick, r'.pc = "run",
         ~req.cut, ~blind', Meant(req.dir)
  PROVE  b'.cwd = req.dir
<1>1. b \in Backends /\ AtType /\ r.script \in Scripts /\ r.pc = "quick" /\ IsRun(r)
  BY DEF TryQuick, IInv, Consistent, RunType
<1>2. r.fe_cwd = req.dir
  BY <1>1, Zenon DEF Arrival, Headed
<1>3. PICK quick \in quick_cd(b, r.fe_cwd) :
        /\ IF quick.done THEN Arrive(quick.b, Nil)
                         ELSE b' = quick.b /\ r' = [r EXCEPT !.pc = "last"]
        /\ blind' = (blind \/ quick.blind)
  BY DEF TryQuick
<1>4. CASE ~quick.done
  <2>1. r' = SetPc(r, "last")
    BY <1>3, <1>4 DEF SetPc
  <2>. QED
    BY <1>1, <2>1, SetKeeps DEF Seen
<1>5. CASE quick.done
  <2>1. Arrive(quick.b, Nil) /\ ~quick.blind
    BY <1>3, <1>5, Zenon
  <2>2. quick.b.cwd = req.dir
    BY <1>1, <1>2, <1>3, <1>5, <2>1, QuickRight DEF Meant
  <2>. QED
    BY <1>1, <2>1, <2>2, ArriveAt
<1>. QED
  BY <1>4, <1>5

\* A path that is trusted leads to what the structure says.
LEMMA PathRight ==
  ASSUME IInv, NEW id \in DOMAIN b.mem, chdir_works(b, b.mem[id].path)
  PROVE  LET x == chdir_path(b, b.mem[id].path)
         IN  /\ x.cwd = at[b.mem[id].path] /\ x.mem = b.mem /\ Consistent(x)
<1>1. b \in Backends /\ Consistent(b) /\ AtType
  BY DEF IInv, Consistent
<1>2. b.mem[id].path \in Paths
  BY <1>1, StructOf
<1>. QED
  BY <1>1, <1>2, ChdirGoes, NamesLead, ChdirKeeps, SameConsistent DEF AtType, SameMemory

LEMMA LastRight ==
  ASSUME IInv, Arrival(r, req, at), TryLast, r'.pc = "run", ~req.cut, Trusted(b'.mem)
  PROVE  b'.cwd = req.dir
<1> DEFINE last == b.last[r.script]
           same == last # Nil /\ b.mem[last].devino = r.fe_cwd
           x    == chdir_path(b, b.mem[last].path)
<1>1. Consistent(b) /\ r.script \in Scripts /\ r.pc = "last" /\ IsRun(r)
  BY DEF TryLast, IInv, RunType
<1>2. r.fe_cwd = req.dir
  BY <1>1, Zenon DEF Arrival, Headed
<1>3. \/ same /\ chdir_works(b, b.mem[last].path) /\ Arrive(x, Nil)
      \/ r' = SetPc(r, "hash")
  BY DEF TryLast, SetPc
<1>4. r' # SetPc(r, "hash")
  BY <1>1, SetKeeps DEF Seen
<1>5. last \in DOMAIN b.mem
  BY <1>1, <1>3, <1>4 DEF Consistent, Remembered
<1>6. b.mem[last].devino = req.dir /\ chdir_works(b, b.mem[last].path) /\ Arrive(x, Nil)
  BY <1>2, <1>3, <1>4
<1> HIDE DEF last, same
<1>7. x.cwd = at[b.mem[last].path] /\ x.mem = b.mem
  BY <1>5, <1>6, PathRight
<1> HIDE DEF x
<1>8. b' = x
  BY <1>1, <1>6, ArriveAt
<1>. QED
  BY <1>5, <1>6, <1>7, <1>8 DEF Trusted

LEMMA HashRight ==
  ASSUME IInv, Arrival(r, req, at), TryHash, r'.pc = "run", ~req.cut, req.dir \in Dirs,
         Trusted(b'.mem)
  PROVE  b'.cwd = req.dir
<1> DEFINE cwd == b.hash[r.fe_cwd]
           x   == chdir_path(b, b.mem[cwd].path)
<1>1. b \in Backends /\ Consistent(b) /\ r.script \in Scripts /\ r.pc = "hash" /\ IsRun(r)
  BY DEF TryHash, IInv, RunType, Consistent
<1>2. r.fe_cwd = req.dir
  BY <1>1, Zenon DEF Arrival, Headed
<1>3. \/ cwd # Nil /\ chdir_works(b, b.mem[cwd].path) /\ Arrive(x, cwd)
      \/ r' = SetCwd(SetPc(r, "ask"), cwd)
  BY DEF TryHash, SetPc, SetCwd
<1>4. r' # SetCwd(SetPc(r, "ask"), cwd)
  <2>1. IsRun(SetPc(r, "ask")) /\ SetPc(r, "ask").pc = "ask"
    BY <1>1, SetKeeps DEF Seen
  <2>. QED
    BY <2>1, SetKeeps DEF Seen
<1>5. cwd \in DOMAIN b.mem /\ req.dir \in {b.mem[cwd].path, b.mem[cwd].devino}
  BY <1>1, <1>2, <1>3, <1>4 DEF Consistent, Hashed, DevInos
<1>6. cwd # Nil /\ chdir_works(b, b.mem[cwd].path) /\ Arrive(x, cwd)
  BY <1>3, <1>4
<1> HIDE DEF cwd
<1>7. b.mem[cwd].devino = req.dir
  <2>1. req.dir \notin Paths
    BY PerlRunAssumption
  <2>. QED
    BY <1>1, <1>5, <2>1, StructOf
<1>8. x.cwd = at[b.mem[cwd].path] /\ x.mem = b.mem /\ Consistent(x)
  BY <1>5, <1>6, PathRight
<1> HIDE DEF x
<1>9. /\ b'.cwd = x.cwd /\ cwd \in DOMAIN b'.mem
      /\ b'.mem[cwd].path = b.mem[cwd].path /\ b'.mem[cwd].devino = b.mem[cwd].devino
  BY <1>1, <1>5, <1>6, <1>8, ArriveAt, ConsistentPending
<1>. QED
  BY <1>7, <1>8, <1>9 DEF Trusted

LEMMA AnswerRight ==
  ASSUME IInv, Arrival(r, req, at), GotoAnswer, ~req.moved, Meant(req.dir)
  PROVE  b'.cwd = req.dir
<1>1. Consistent(b) /\ AtType /\ r.script \in Scripts /\ r.pc = "answer" /\ r.dir \in Paths \cup {NULL}
  BY DEF GotoAnswer, IInv, RunType
<1>2. IF r.dir = NULL THEN \A path \in Paths : at[path] # req.dir ELSE at[r.dir] = req.dir
  BY <1>1, Zenon DEF Arrival, Headed
<1>3. r.dir \in Paths /\ r.dir # NULL /\ at[r.dir] = req.dir
  BY <1>1, <1>2 DEF Meant
<1>4. PICK new \in cwd_new(b, r.dir) : Arrive(new.b, new.cwd)
  BY <1>3 DEF GotoAnswer
<1>5. chdir_works(b, r.dir)
  BY <1>3, NamesLead DEF Meant
<1>6. new.cwd # Nil /\ new.b.cwd = at[r.dir] /\ new.cwd \in DOMAIN new.b.mem /\ Pending(new.b, new.cwd)
  BY <1>1, <1>3, <1>4, <1>5, CwdNew DEF AtType
<1>. QED
  BY <1>1, <1>3, <1>4, <1>6, ArriveAt

\* All ways to run the script
LEMMA GoesRight ==
  ASSUME IInv, Arrival(r, req, at),
         GotoScript \/ TryQuick \/ TryLast \/ TryHash \/ GotoAnswer
  PROVE  RightDirectory'
<1>1. req' = req /\ at' = at
  BY DEF GotoScript, TryQuick, TryLast, TryHash, GotoAnswer
<1> SUFFICES ASSUME r'.pc = "run", ~req.cut, ~req.moved, ~blind', Trusted(b'.mem),
                    Enterable(req.dir), \E path \in Paths : at[path] = req.dir
             PROVE  b'.cwd = req.dir
  BY <1>1, Zenon DEF RightDirectory, Reachable, Trustworthy, Trusted
<1>2. Meant(req.dir) /\ req.dir \in Dirs
  BY DEF Meant, Enterable
<1>3. r' # Dead
  BY IdleIsRun DEF Seen
<1>. QED
  BY <1>2, <1>3, ScriptRight, QuickGoesRight, LastRight, HashRight, AnswerRight

\* The other actions do not.
LEMMA NotYet ==
  ASSUME IInv, ReadEnv \/ ReadArgv \/ ReadScript \/ AskFrontend \/ FrontendSends \/ FrontendDies
  PROVE  r'.pc # "run"
<1>1. IsRun(r) /\ IsRun(Idle) /\ Dead.pc = "dead"
  BY IdleIsRun DEF IInv, Seen
<1>2. CASE ReadEnv \/ ReadArgv
  <2>1. r.pc \in {"env", "argv"}
    BY <1>2 DEF ReadEnv, ReadArgv
  <2>2. CASE r' = Dead
    BY <1>1, <2>2
  <2>3. CASE r' # Dead
    <3>1. \/ \E v : r' = SetIn(SetPc(r, "argv"), v)
          \/ \E v : r' = SetIn(SetPc(r, "script"), v)
          \/ \E v, w : r' = SetIn(SetEnv(r, w), v)
          \/ \E v, w : r' = SetIn(SetArgv(r, w), v)
      <4>1. CASE ReadEnv
        BY <2>3, <4>1 DEF ReadEnv, Exits, SetIn, SetPc, SetEnv
      <4>2. CASE ReadArgv
        BY <2>3, <4>2 DEF ReadArgv, Exits, SetIn, SetPc, SetArgv
      <4>. QED
        BY <1>2, <4>1, <4>2
    <3>2. \A v : /\ IsRun(SetPc(r, v)) /\ SetPc(r, v).pc = v
                 /\ IsRun(SetEnv(r, v)) /\ SetEnv(r, v).pc = r.pc
                 /\ IsRun(SetArgv(r, v)) /\ SetArgv(r, v).pc = r.pc
      BY <1>1, SetKeeps DEF Seen
    <3>3. \A q, v : IsRun(q) => SetIn(q, v).pc = q.pc
      BY SetKeeps DEF Seen
    <3>. QED
      BY <2>1, <3>1, <3>2, <3>3
  <2>. QED
    BY <2>2, <2>3
<1>3. CASE ReadScript
  <2>1. CASE r' = Dead
    BY <1>1, <2>1
  <2>2. CASE r' # Dead
    <3>1. \E fname, script, where, fe_cwd : r' = ScriptRead(r, fname, script, where, fe_cwd)
      BY <1>3, <2>2, ReadScriptIs, Zenon
    <3>. QED
      BY <1>1, <3>1, ScriptReadIs
  <2>. QED
    BY <2>1, <2>2
<1>4. CASE AskFrontend
  <2>1. r' = Dead \/ \E dir : r' = SetDir(SetPc(r, "answer"), dir)
    BY <1>4 DEF AskFrontend, Exits, SetPc, SetDir
  <2>2. IsRun(SetPc(r, "answer")) /\ SetPc(r, "answer").pc = "answer"
    BY <1>1, SetKeeps DEF Seen
  <2>. QED
    BY <1>1, <2>1, <2>2, SetKeeps DEF Seen
<1>5. CASE FrontendSends
  <2>1. \E v : r' = SetIn(SetPc(Idle, "env"), v)
    BY <1>5 DEF FrontendSends, Request, SetIn, SetPc
  <2>2. IsRun(SetPc(Idle, "env")) /\ SetPc(Idle, "env").pc = "env"
    BY <1>1, SetKeeps DEF Seen
  <2>. QED
    BY <2>1, <2>2, SetKeeps DEF Seen
<1>6. CASE FrontendDies
  <2>1. r.pc = "env" /\ \E v : r' = SetIn(r, v)
    BY <1>6 DEF FrontendDies, SetIn
  <2>. QED
    BY <1>1, <2>1, SetKeeps DEF Seen
<1>. QED
  BY <1>2, <1>3, <1>4, <1>5, <1>6

LEMMA AroundRight ==
  ASSUME IInv, Arrival(r, req, at), RunEnds \/ ScriptChdirs \/ ScriptMeddles \/ Move \/ Restart
  PROVE  RightDirectory'
<1>1. CASE RunEnds \/ ScriptChdirs \/ ScriptMeddles \/ Restart
  <2>1. r' = Idle
    BY <1>1 DEF RunEnds, ScriptChdirs, ScriptMeddles, Restart
  <2>. QED
    BY <2>1, IdleIsRun DEF RightDirectory, Seen
<1>2. CASE Move
  <2>1. r' = r /\ req' = SetMoved(req, r.pc # "idle")
    BY <1>2 DEF Move, SetMoved
  <2>2. r.pc = "run" => req'.moved
    <3>1. \A v : SetMoved(req, v).moved = v
      BY RqSet, Zenon DEF Arrival
    <3>2. r.pc = "run" => r.pc # "idle"
      OBVIOUS
    <3>. QED
      BY <2>1, <3>1, <3>2, Zenon
  <2>. QED
    BY <2>1, <2>2 DEF RightDirectory
<1>. QED
  BY <1>1, <1>2

-----------------------------------------------------------------------------
(* The theorems *)

\* The backend and the variables of onerun have the values they should.
THEOREM TypeCorrect == Spec => []TypeOK
<1>1. IInv => TypeOK
  <2> SUFFICES ASSUME IInv
               PROVE  TypeOK
    OBVIOUS
  <2>1. b \in Backends
    BY DEF IInv, Consistent
  <2>2. DOMAIN b.mem \subseteq Ids
    BY <2>1 DEF Backends
  <2>3. r.cwd \in Ids \cup {Nil}
    BY <2>2 DEF IInv, Kept
  <2>4. QED
    BY <2>1, <2>3 DEF TypeOK, IInv, AtType, RunType
<1>2. QED
  BY <1>1, IInvAlways, PTL

\* However many scripts and directories there are and however they move, no
\* SpeedyCwd structure is used that was freed, none is left in the hash under
\* a key that is not its own, and each is counted once for every script that
\* was in it last (cwd_new, store_last_cwd, cwd_refcnt_dec, onerun).
THEOREM NothingDangles == Spec => []NoDangling
<1>1. IInv => NoDangling
  <2> SUFFICES ASSUME IInv
               PROVE  NoDangling
    OBVIOUS
  <2>1. DOMAIN b.hash = DevInos \cup Paths
    BY DEF IInv, Consistent, Backends
  <2>2. \A k \in DOMAIN b.hash : b.hash[k] # Nil =>
          b.hash[k] \in DOMAIN b.mem /\ k \in {b.mem[b.hash[k]].path, b.mem[b.hash[k]].devino}
    BY <2>1 DEF IInv, Consistent, Hashed
  <2>3. r.cwd # Nil => r.cwd \in DOMAIN b.mem
    BY DEF IInv, Kept
  <2>4. \A s \in Scripts : b.last[s] # Nil => b.last[s] \in DOMAIN b.mem
    BY DEF IInv, Consistent, Remembered
  <2>5. \A id \in DOMAIN b.mem :
          b.mem[id].refcnt = Cardinality({s \in Scripts : b.last[s] = id}) /\ b.mem[id].refcnt > 0
    BY DEF IInv, Consistent, Counted, Users
  <2>6. QED
    BY <2>2, <2>3, <2>4, <2>5 DEF NoDangling
<1>2. QED
  BY <1>1, IInvAlways, PTL

\* Whatever the environment and the arguments of the frontend, and whatever
\* their lengths, the script gets them as they were sent, but for empty
\* strings, and it is the script that was asked for; nothing was written past
\* the end of the buffer (speedy_frontend_mkenv, get_string, onerun).
THEOREM RequestArrivesAlways == Spec => []RequestArrives
<1>1. ArrivalInv => RequestArrives
  <2> SUFFICES ASSUME Arrival(r, req, at), r.pc \in {"inscript", "quick", "last", "hash", "ask", "answer", "run"},
                      ~req.cut
               PROVE  /\ r.argv = NonEmpty(Payloads[req.payload].argv)
                      /\ r.env = EnvOf(Payloads[req.payload].env)
                      /\ r.script = req.script /\ req.fits
    BY Zenon DEF ArrivalInv, RequestArrives
  <2>1. Sent(req) /\ Arrived(r, req)
    BY DEF Arrival
  <2>. QED
    BY <2>1, Zenon DEF Sent, Arrived, Read, EnvSent, ArgvSent
<1>. QED
  BY <1>1, ArrivalAlways, PTL

\* Wherever in the request its frontend died, the script does not run unless
\* all of its environment, its arguments and the script itself have arrived
\* (get_string, do_proto2, onerun).
THEOREM NeverRunsPartAlways == Spec => []NeverRunsPart
<1>1. ArrivalInv => NeverRunsPart
  <2> SUFFICES ASSUME Arrival(r, req, at), r.pc = "run"
               PROVE  /\ r.argv = NonEmpty(Payloads[req.payload].argv)
                      /\ r.env = EnvOf(Payloads[req.payload].env)
                      /\ r.script = req.script
    BY Zenon DEF ArrivalInv, NeverRunsPart
  <2>1. Arrived(r, req)
    BY DEF Arrival
  <2>. QED
    BY <2>1, Zenon DEF Arrived, Read, EnvSent, ArgvSent
<1>. QED
  BY <1>1, ArrivalAlways, PTL
\* However many scripts, directories and paths there are, whatever scripts did
\* to the directory and the descriptors of the backend, and by whichever of its
\* ways it goes there, the script runs in the directory of its frontend (or its
\* own, under Apache): as long as what the backend remembers is still so and
\* all directories it met were readable (quick_cd, cwd_new, onerun).
THEOREM RightDirectoryAlways == Spec => []RightDirectory
<1>1. Init => RightDirectory
  BY IdleIsRun DEF Init, RightDirectory, Seen
<1>2. RightDirectory /\ IInv /\ ArrivalInv /\ [Next]_vars => RightDirectory'
  <2> SUFFICES ASSUME RightDirectory, IInv, Arrival(r, req, at), [Next]_vars
               PROVE  RightDirectory'
    BY DEF ArrivalInv
  <2>1. CASE GotoScript \/ TryQuick \/ TryLast \/ TryHash \/ GotoAnswer
    BY <2>1, GoesRight
  <2>2. CASE ReadEnv \/ ReadArgv \/ ReadScript \/ AskFrontend \/ FrontendSends \/ FrontendDies
    BY <2>2, NotYet DEF RightDirectory
  <2>3. CASE RunEnds \/ ScriptChdirs \/ ScriptMeddles \/ Move \/ Restart
    BY <2>3, AroundRight
  <2>4. CASE UNCHANGED vars
    BY <2>4 DEF vars, RightDirectory, Trustworthy, Reachable
  <2>. QED
    BY <2>1, <2>2, <2>3, <2>4 DEF Next, onerun
<1>. QED
  BY <1>1, <1>2, IInvAlways, ArrivalAlways, PTL DEF Spec
=============================================================================
