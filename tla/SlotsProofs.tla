----------------------------- MODULE SlotsProofs -----------------------------
(***************************************************************************)
(* Proofs about Slots, for any number of slots, any lists and any ranks.   *)
(*                                                                         *)
(* That the links of a list agree is not inductive: two slots that are     *)
(* linked in a ring also agree, and taking one out leaves the other linked *)
(* to itself, as a freed slot is.  So the invariant says as well that the  *)
(* slots of a list can be numbered upwards along the list.                 *)
(***************************************************************************)
EXTENDS Slots, TLAPS

LEMMA Numbers ==
  /\ 0 \in Nums /\ Slot = Nums \ {0} /\ Nums \subseteq Nat
  /\ Singly \subseteq Lists /\ "free" \notin Lists /\ "held" \notin Lists
  BY SlotsAssumption DEF SlotsAssumption, Slot, Nums

USE Numbers

Owner == Lists \cup {"free", "held"}

LinksType == [next : [Slot -> Nums], prev : [Slot -> Nums],
              head : [Lists -> Nums], tail : [Lists -> Nums]]

\* WellLinked of the list l, for any links and owners of the slots
Linked(k, wh, l) ==
  /\ k.head[l] # 0 => wh[k.head[l]] = l
  /\ \A n \in Slot : wh[n] = l =>
       /\ k.next[n] # 0 => wh[k.next[n]] = l /\ k.prev[k.next[n]] = n
       /\ k.prev[n] # 0 => wh[k.prev[n]] = l /\ k.next[k.prev[n]] = n
       /\ k.prev[n] = 0 <=> k.head[l] = n
       /\ l \notin Singly => (k.next[n] = 0 <=> k.tail[l] = n)
  /\ l \notin Singly =>
       /\ k.tail[l] # 0 => wh[k.tail[l]] = l
       /\ k.head[l] = 0 <=> k.tail[l] = 0

\* The links lead upwards.
Upwards(k, wh, pos) ==
  \A n \in Slot : wh[n] \in Lists /\ k.next[n] # 0 => pos[n] < pos[k.next[n]]

Chain(k, wh) ==
  /\ k \in LinksType /\ wh \in [Slot -> Owner]
  /\ \A n \in Slot : wh[n] # "free" => k.prev[n] # n
  /\ \A l \in Lists : Linked(k, wh, l)
  /\ \E pos \in [Slot -> Int] : Upwards(k, wh, pos)

\* What an operation on lists leaves alone
FreeKept(k, j, wh) ==
  \A n \in Slot : wh[n] = "free" => j.next[n] = k.next[n] /\ j.prev[n] = k.prev[n]

-----------------------------------------------------------------------------
(* The operations on lists *)

\* Two slots of a list are not each other's neighbours twice.
LEMMA NoRing ==
  ASSUME NEW k, NEW wh, Chain(k, wh), NEW n \in Slot, wh[n] \in Lists, k.next[n] # 0
  PROVE  k.next[n] # k.prev[n] /\ k.next[n] # n
<1>1. PICK pos \in [Slot -> Int] : Upwards(k, wh, pos)
  BY DEF Chain
<1>2. k.next[n] \in Slot /\ (k.prev[n] # 0 => k.prev[n] \in Slot)
  BY DEF Chain, LinksType
<1>3. pos[n] < pos[k.next[n]]
  BY <1>1 DEF Upwards
<1>4. ASSUME k.next[n] = k.prev[n] PROVE FALSE
  <2>1. k.next[k.prev[n]] = n /\ wh[k.prev[n]] \in Lists
    BY <1>4 DEF Chain, Linked
  <2>2. pos[k.prev[n]] < pos[n]
    BY <2>1, <1>1, <1>2, <1>4 DEF Upwards, Slot
  <2>3. QED
    <3>1. pos[n] \in Int /\ pos[k.next[n]] \in Int /\ pos[k.prev[n]] = pos[k.next[n]]
      BY <1>1, <1>2, <1>4
    <3>2. QED
      BY <3>1, <2>2, <1>3
<1>5. QED
  BY <1>2, <1>3, <1>4

LEMMA RemovedChain ==
  ASSUME NEW k, NEW wh, Chain(k, wh), NEW n \in Slot, NEW l \in Lists, wh[n] = l
  PROVE  /\ Chain(removed(k, n, l), [wh EXCEPT ![n] = "held"])
         /\ FreeKept(k, removed(k, n, l), wh)
<1> DEFINE j  == removed(k, n, l)
           nx == k.next[n]
           pv == k.prev[n]
           w  == [wh EXCEPT ![n] = "held"]
<1>1. /\ k \in LinksType /\ wh \in [Slot -> Owner] /\ nx \in Nums /\ pv \in Nums
      /\ \A m \in Slot : wh[m] # "free" => k.prev[m] # m
      /\ Linked(k, wh, l)
  BY DEF Chain, LinksType
<1>2. j \in LinksType
  BY <1>1 DEF removed, Set, LinksType
<1>3. \A m \in Slot : /\ j.next[m] = IF m = pv THEN nx ELSE k.next[m]
                      /\ j.prev[m] = IF m = nx THEN pv ELSE k.prev[m]
  BY <1>1 DEF removed, Set, LinksType
<1>4. \A i \in Lists :
        /\ j.head[i] = IF i = l /\ k.head[l] = n THEN nx ELSE k.head[i]
        /\ j.tail[i] = IF i = l /\ l \notin Singly /\ k.tail[l] = n THEN pv ELSE k.tail[i]
  BY <1>1 DEF removed, LinksType
<1>5. /\ w \in [Slot -> Owner]
      /\ \A m \in Slot : w[m] = IF m = n THEN "held" ELSE wh[m]
  BY <1>1 DEF Owner
<1> HIDE DEF j, w
<1>6. nx # 0 => nx # pv /\ nx # n /\ nx \in Slot /\ wh[nx] = l /\ k.prev[nx] = n
  BY NoRing, <1>1 DEF Linked
<1>7. pv # 0 => pv # n /\ pv \in Slot /\ wh[pv] = l /\ k.next[pv] = n
  BY <1>1 DEF Linked
<1>8. \A m \in Slot : w[m] # "free" => j.prev[m] # m
  BY <1>1, <1>3, <1>5, <1>6, <1>7
<1>9. ASSUME NEW i \in Lists PROVE Linked(j, w, i)
  <2>1. CASE i = l
    <3>1. \A m \in Slot : w[m] = l <=> wh[m] = l /\ m # n
      BY <1>5
    <3>2. \A m \in Slot : k.next[m] \in Nums /\ k.prev[m] \in Nums
      BY <1>1 DEF LinksType
    <3>3. k.head[l] \in Nums /\ k.tail[l] \in Nums
      BY <1>1 DEF LinksType
    <3>4. ASSUME NEW m \in Slot, w[m] = l
          PROVE  /\ j.next[m] # 0 => w[j.next[m]] = l /\ j.prev[j.next[m]] = m
                 /\ j.prev[m] # 0 => w[j.prev[m]] = l /\ j.next[j.prev[m]] = m
      <4>1. /\ wh[m] = l /\ m # n
            /\ k.next[m] # 0 => /\ k.next[m] \in Slot /\ wh[k.next[m]] = l
                                /\ k.prev[k.next[m]] = m
            /\ k.prev[m] # 0 => /\ k.prev[m] \in Slot /\ wh[k.prev[m]] = l
                                /\ k.next[k.prev[m]] = m
        BY <3>1, <3>2, <3>4, <1>1 DEF Linked
      <4>2. j.next[m] # 0 => w[j.next[m]] = l /\ j.prev[j.next[m]] = m
        <5>1. CASE m = pv
          <6>1. j.next[m] = nx
            BY <5>1, <1>3
          <6>2. nx # 0 => w[nx] = l /\ j.prev[nx] = pv
            BY <1>3, <1>5, <1>6
          <6>3. QED
            BY <6>1, <6>2, <5>1
        <5>2. CASE m # pv
          <6>1. j.next[m] = k.next[m]
            BY <5>2, <1>3
          <6>2. k.next[m] # 0 => k.next[m] # n /\ k.next[m] # nx
            <7>1. k.next[m] = n => k.prev[n] = m
              BY <4>1
            <7>2. k.next[m] = nx /\ nx # 0 => m = n
              BY <4>1, <1>6
            <7>3. QED
              BY <7>1, <7>2, <5>2, <4>1
          <6>3. k.next[m] # 0 => /\ w[k.next[m]] = wh[k.next[m]]
                                 /\ j.prev[k.next[m]] = k.prev[k.next[m]]
            BY <6>2, <4>1, <1>3, <1>5
          <6>4. QED
            BY <6>1, <6>3, <4>1
        <5>3. QED
          BY <5>1, <5>2
      <4>3. j.prev[m] # 0 => w[j.prev[m]] = l /\ j.next[j.prev[m]] = m
        <5>1. CASE m = nx
          <6>1. j.prev[m] = pv
            BY <5>1, <1>3
          <6>2. pv # 0 => w[pv] = l /\ j.next[pv] = nx
            BY <1>3, <1>5, <1>7
          <6>3. QED
            BY <6>1, <6>2, <5>1
        <5>2. CASE m # nx
          <6>1. j.prev[m] = k.prev[m]
            BY <5>2, <1>3
          <6>2. k.prev[m] # 0 => k.prev[m] # n /\ k.prev[m] # pv
            <7>1. k.prev[m] = n => k.next[n] = m
              BY <4>1
            <7>2. k.prev[m] = pv /\ pv # 0 => m = n
              BY <4>1, <1>7
            <7>3. QED
              BY <7>1, <7>2, <5>2, <4>1
          <6>3. k.prev[m] # 0 => /\ w[k.prev[m]] = wh[k.prev[m]]
                                 /\ j.next[k.prev[m]] = k.next[k.prev[m]]
            BY <6>2, <4>1, <1>3, <1>5
          <6>4. QED
            BY <6>1, <6>3, <4>1
        <5>3. QED
          BY <5>1, <5>2
      <4>4. QED
        BY <4>2, <4>3
    <3>5. ASSUME NEW m \in Slot, w[m] = l
          PROVE  /\ j.prev[m] = 0 <=> j.head[l] = m
                 /\ l \notin Singly => (j.next[m] = 0 <=> j.tail[l] = m)
      <4>1. wh[m] = l /\ m # n /\ k.next[m] \in Nums /\ k.prev[m] \in Nums
        BY <3>1, <3>2, <3>5
      <4>2. /\ k.prev[m] = 0 <=> k.head[l] = m
            /\ l \notin Singly => (k.next[m] = 0 <=> k.tail[l] = m)
            /\ k.prev[m] # 0 => k.next[k.prev[m]] = m
            /\ k.next[m] # 0 => k.prev[k.next[m]] = m
            /\ pv = 0 <=> k.head[l] = n
            /\ l \notin Singly => (nx = 0 <=> k.tail[l] = n)
        BY <4>1, <1>1 DEF Linked
      <4>3. j.prev[m] = 0 <=> j.head[l] = m
        BY <4>1, <4>2, <1>3, <1>4, <1>6, <1>7
      <4>4. l \notin Singly => (j.next[m] = 0 <=> j.tail[l] = m)
        BY <4>1, <4>2, <1>3, <1>4, <1>6, <1>7
      <4>5. QED
        BY <4>3, <4>4
    <3>6. j.head[l] # 0 => w[j.head[l]] = l
      BY <3>1, <3>3, <1>1, <1>4, <1>6 DEF Linked
    <3>7. l \notin Singly => /\ j.tail[l] # 0 => w[j.tail[l]] = l
                             /\ j.head[l] = 0 <=> j.tail[l] = 0
      <4> SUFFICES ASSUME l \notin Singly
                   PROVE  /\ j.tail[l] # 0 => w[j.tail[l]] = l
                          /\ j.head[l] = 0 <=> j.tail[l] = 0
        OBVIOUS
      <4>1. /\ pv = 0 <=> k.head[l] = n
            /\ nx = 0 <=> k.tail[l] = n
            /\ k.tail[l] # 0 => wh[k.tail[l]] = l
            /\ k.head[l] = 0 <=> k.tail[l] = 0
        BY <1>1 DEF Linked
      <4>2. /\ j.head[l] = IF k.head[l] = n THEN nx ELSE k.head[l]
            /\ j.tail[l] = IF k.tail[l] = n THEN pv ELSE k.tail[l]
        BY <1>4
      <4>3. j.tail[l] # 0 => w[j.tail[l]] = l
        BY <4>1, <4>2, <3>1, <3>3, <1>7
      <4>4. j.head[l] = 0 <=> j.tail[l] = 0
        BY <4>1, <4>2
      <4>5. QED
        BY <4>3, <4>4
    <3>8. Linked(j, w, l)
      <4>1. \A m \in Slot : w[m] = l =>
               /\ j.next[m] # 0 => w[j.next[m]] = l /\ j.prev[j.next[m]] = m
               /\ j.prev[m] # 0 => w[j.prev[m]] = l /\ j.next[j.prev[m]] = m
               /\ j.prev[m] = 0 <=> j.head[l] = m
               /\ l \notin Singly => (j.next[m] = 0 <=> j.tail[l] = m)
        BY <3>4, <3>5
      <4>2. QED
        BY <4>1, <3>6, <3>7 DEF Linked
    <3>9. QED
      BY <2>1, <3>8
  <2>2. CASE i # l
    <3>1. Linked(k, wh, i)
      BY DEF Chain
    <3>2. \A m \in Slot : w[m] = i <=> wh[m] = i
      BY <2>2, <1>5
    <3>3. \A m \in Slot : wh[m] = i => m # nx /\ m # pv /\ m # n
      BY <2>2, <1>6, <1>7
    <3>4. j.head[i] = k.head[i] /\ j.tail[i] = k.tail[i] /\ k.head[i] \in Nums /\ k.tail[i] \in Nums
      BY <2>2, <1>1, <1>4 DEF LinksType
    <3>5. \A m \in Slot : k.next[m] \in Nums /\ k.prev[m] \in Nums
      BY <1>1 DEF LinksType
    <3>6. \A m \in Slot : wh[m] = i => j.next[m] = k.next[m] /\ j.prev[m] = k.prev[m]
      BY <3>3, <1>3
    <3>7. \A m \in Slot : w[m] = i =>
             /\ j.next[m] # 0 => w[j.next[m]] = i /\ j.prev[j.next[m]] = m
             /\ j.prev[m] # 0 => w[j.prev[m]] = i /\ j.next[j.prev[m]] = m
             /\ j.prev[m] = 0 <=> j.head[i] = m
             /\ i \notin Singly => (j.next[m] = 0 <=> j.tail[i] = m)
      <4> SUFFICES ASSUME NEW m \in Slot, wh[m] = i
                   PROVE  /\ j.next[m] # 0 => w[j.next[m]] = i /\ j.prev[j.next[m]] = m
                          /\ j.prev[m] # 0 => w[j.prev[m]] = i /\ j.next[j.prev[m]] = m
                          /\ j.prev[m] = 0 <=> j.head[i] = m
                          /\ i \notin Singly => (j.next[m] = 0 <=> j.tail[i] = m)
        BY <3>2
      <4>1. /\ k.next[m] # 0 => /\ k.next[m] \in Slot /\ wh[k.next[m]] = i
                                /\ k.prev[k.next[m]] = m
            /\ k.prev[m] # 0 => /\ k.prev[m] \in Slot /\ wh[k.prev[m]] = i
                                /\ k.next[k.prev[m]] = m
            /\ k.prev[m] = 0 <=> k.head[i] = m
            /\ i \notin Singly => (k.next[m] = 0 <=> k.tail[i] = m)
        BY <3>1, <3>5 DEF Linked
      <4>2. j.next[m] = k.next[m] /\ j.prev[m] = k.prev[m]
        BY <3>6
      <4>3. k.next[m] # 0 => w[k.next[m]] = i /\ j.prev[k.next[m]] = m
        <5>1. k.next[m] # 0 => j.prev[k.next[m]] = k.prev[k.next[m]]
          BY <4>1, <3>6
        <5>2. k.next[m] # 0 => w[k.next[m]] = i
          BY <4>1, <3>2
        <5>3. QED
          BY <5>1, <5>2, <4>1
      <4>4. k.prev[m] # 0 => w[k.prev[m]] = i /\ j.next[k.prev[m]] = m
        <5>1. k.prev[m] # 0 => j.next[k.prev[m]] = k.next[k.prev[m]]
          BY <4>1, <3>6
        <5>2. k.prev[m] # 0 => w[k.prev[m]] = i
          BY <4>1, <3>2
        <5>3. QED
          BY <5>1, <5>2, <4>1
      <4>5. QED
        BY <4>1, <4>2, <4>3, <4>4, <3>4
    <3>8. /\ j.head[i] # 0 => w[j.head[i]] = i
          /\ i \notin Singly => /\ j.tail[i] # 0 => w[j.tail[i]] = i
                                /\ j.head[i] = 0 <=> j.tail[i] = 0
      <4>1. /\ k.head[i] # 0 => wh[k.head[i]] = i /\ k.head[i] \in Slot
            /\ i \notin Singly => /\ k.tail[i] # 0 => wh[k.tail[i]] = i /\ k.tail[i] \in Slot
                                  /\ k.head[i] = 0 <=> k.tail[i] = 0
        BY <3>1, <3>4 DEF Linked
      <4>2. k.head[i] # 0 => w[k.head[i]] = i
        BY <4>1, <3>2
      <4>3. i \notin Singly /\ k.tail[i] # 0 => w[k.tail[i]] = i
        BY <4>1, <3>2
      <4>4. QED
        BY <4>1, <4>2, <4>3, <3>4
    <3>9. QED
      BY <3>7, <3>8 DEF Linked
  <2>3. QED
    BY <2>1, <2>2
<1>10. \E pos \in [Slot -> Int] : Upwards(j, w, pos)
  <2>1. PICK pos \in [Slot -> Int] : Upwards(k, wh, pos)
    BY DEF Chain
  <2>2. \A m \in Slot : k.next[m] \in Nums
    BY <1>1 DEF LinksType
  <2>3. ASSUME NEW m \in Slot, w[m] \in Lists, j.next[m] # 0
        PROVE  pos[m] < pos[j.next[m]]
    <3>1. m # n /\ wh[m] \in Lists
      BY <2>3, <1>5
    <3>2. CASE m = pv
      <4>1. j.next[m] = nx /\ nx \in Slot /\ pv \in Slot /\ k.next[pv] = n
        BY <3>2, <2>3, <1>3, <1>6, <1>7
      <4>2. pos[pv] < pos[n]
        BY <4>1, <3>1, <3>2, <2>1 DEF Upwards
      <4>3. pos[n] < pos[nx]
        BY <4>1, <2>1 DEF Upwards
      <4>4. pos[pv] \in Int /\ pos[n] \in Int /\ pos[nx] \in Int
        BY <4>1, <2>1
      <4>5. QED
        BY <4>1, <4>2, <4>3, <4>4, <3>2
    <3>3. CASE m # pv
      BY <3>1, <3>3, <2>1, <2>3, <1>3 DEF Upwards
    <3>4. QED
      BY <3>2, <3>3
  <2>4. QED
    BY <2>1, <2>3 DEF Upwards
<1>11. FreeKept(k, j, wh)
  BY <1>3, <1>6, <1>7 DEF FreeKept
<1>12. QED
  BY <1>2, <1>5, <1>8, <1>9, <1>10, <1>11 DEF Chain, j, w

\* n goes in l between a and b, which are neighbours or an end of the list.
Between(k, wh, l, a, b) ==
  /\ a \in Nums /\ b \in Nums
  /\ a # 0 => wh[a] = l /\ k.next[a] = b
  /\ b # 0 => wh[b] = l /\ k.prev[b] = a
  /\ a = 0 => k.head[l] = b
  /\ l \notin Singly /\ b = 0 => k.tail[l] = a

PutBetween(k, j, n, l, a, b) ==
  /\ j \in LinksType
  /\ \A m \in Slot : /\ j.next[m] = IF m = n THEN b ELSE IF m = a THEN n ELSE k.next[m]
                     /\ j.prev[m] = IF m = n THEN a ELSE IF m = b THEN n ELSE k.prev[m]
  /\ \A i \in Lists : j.head[i] = IF i = l /\ a = 0 THEN n ELSE k.head[i]
  /\ \A i \in Lists \ Singly : j.tail[i] = IF i = l /\ b = 0 THEN n ELSE k.tail[i]

LEMMA InsertedChain ==
  ASSUME NEW k, NEW j, NEW wh, Chain(k, wh), NEW n \in Slot, NEW l \in Lists, wh[n] = "held",
         NEW a, NEW b, Between(k, wh, l, a, b), PutBetween(k, j, n, l, a, b)
  PROVE  /\ Chain(j, [wh EXCEPT ![n] = l])
         /\ FreeKept(k, j, wh)
<1> DEFINE w == [wh EXCEPT ![n] = l]
<1>1. /\ k \in LinksType /\ wh \in [Slot -> Owner]
      /\ \A m \in Slot : wh[m] # "free" => k.prev[m] # m
      /\ Linked(k, wh, l)
  BY DEF Chain
<1>2. j \in LinksType
  BY DEF PutBetween
<1>3. \A m \in Slot : /\ j.next[m] = IF m = n THEN b ELSE IF m = a THEN n ELSE k.next[m]
                      /\ j.prev[m] = IF m = n THEN a ELSE IF m = b THEN n ELSE k.prev[m]
  BY DEF PutBetween
<1>4. /\ \A i \in Lists : j.head[i] = IF i = l /\ a = 0 THEN n ELSE k.head[i]
      /\ \A i \in Lists \ Singly : j.tail[i] = IF i = l /\ b = 0 THEN n ELSE k.tail[i]
  BY DEF PutBetween
<1>5. /\ w \in [Slot -> Owner]
      /\ \A m \in Slot : w[m] = IF m = n THEN l ELSE wh[m]
  BY <1>1 DEF Owner
<1> HIDE DEF w
<1>6. /\ a # 0 => a \in Slot /\ wh[a] = l /\ a # n /\ k.next[a] = b
      /\ b # 0 => b \in Slot /\ wh[b] = l /\ b # n /\ k.prev[b] = a
      /\ b # 0 => a # b
  BY <1>1 DEF Between
<1>7. \A m \in Slot : k.next[m] \in Nums /\ k.prev[m] \in Nums
  BY <1>1 DEF LinksType
<1>8. \A m \in Slot : w[m] # "free" => j.prev[m] # m
  BY <1>1, <1>3, <1>5, <1>6
<1>9. ASSUME NEW i \in Lists PROVE Linked(j, w, i)
  <2>1. CASE i = l
    <3>1. \A m \in Slot : w[m] = l <=> wh[m] = l \/ m = n
      BY <1>5
    <3>2. k.head[l] \in Nums /\ k.tail[l] \in Nums
      BY <1>1 DEF LinksType
    <3>3. \A m \in Slot : wh[m] = l =>
             /\ k.next[m] # 0 => /\ k.next[m] \in Slot /\ wh[k.next[m]] = l
                                 /\ k.prev[k.next[m]] = m
             /\ k.prev[m] # 0 => /\ k.prev[m] \in Slot /\ wh[k.prev[m]] = l
                                 /\ k.next[k.prev[m]] = m
             /\ k.prev[m] = 0 <=> k.head[l] = m
             /\ l \notin Singly => (k.next[m] = 0 <=> k.tail[l] = m)
      BY <1>1, <1>7 DEF Linked
    <3>4. /\ k.head[l] # 0 => wh[k.head[l]] = l
          /\ l \notin Singly => /\ k.tail[l] # 0 => wh[k.tail[l]] = l
                                /\ k.head[l] = 0 <=> k.tail[l] = 0
      BY <1>1 DEF Linked
    <3>5. /\ a = 0 => k.head[l] = b
          /\ l \notin Singly /\ b = 0 => k.tail[l] = a
      BY DEF Between
    <3>6. ASSUME NEW m \in Slot, w[m] = l
          PROVE  j.next[m] # 0 => w[j.next[m]] = l /\ j.prev[j.next[m]] = m
      <4>1. CASE m = n
        BY <4>1, <1>3, <1>6, <3>1
      <4>2. CASE m = a
        BY <4>2, <1>3, <1>6, <3>1
      <4>3. CASE m # n /\ m # a
        <5>1. wh[m] = l /\ j.next[m] = k.next[m]
          BY <4>3, <3>1, <3>6, <1>3
        <5>2. k.next[m] # 0 => /\ k.next[m] \in Slot /\ wh[k.next[m]] = l
                             /\ k.prev[k.next[m]] = m
          BY <5>1, <3>3
        <5>3. k.next[m] # 0 => k.next[m] # n /\ k.next[m] # b
          BY <5>1, <5>2, <4>3, <1>6
        <5>4. k.next[m] # 0 => w[k.next[m]] = l /\ j.prev[k.next[m]] = m
          BY <5>2, <5>3, <3>1, <1>3
        <5>5. QED
          BY <5>1, <5>4
      <4>4. QED
        BY <4>1, <4>2, <4>3
    <3>7. ASSUME NEW m \in Slot, w[m] = l
          PROVE  j.prev[m] # 0 => w[j.prev[m]] = l /\ j.next[j.prev[m]] = m
      <4>1. CASE m = n
        BY <4>1, <1>3, <1>6, <3>1
      <4>2. CASE m = b
        BY <4>2, <1>3, <1>6, <3>1
      <4>3. CASE m # n /\ m # b
        <5>1. wh[m] = l /\ j.prev[m] = k.prev[m]
          BY <4>3, <3>1, <3>7, <1>3
        <5>2. k.prev[m] # 0 => /\ k.prev[m] \in Slot /\ wh[k.prev[m]] = l
                             /\ k.next[k.prev[m]] = m
          BY <5>1, <3>3
        <5>3. k.prev[m] # 0 => k.prev[m] # n /\ k.prev[m] # a
          BY <5>1, <5>2, <4>3, <1>6
        <5>4. k.prev[m] # 0 => w[k.prev[m]] = l /\ j.next[k.prev[m]] = m
          BY <5>2, <5>3, <3>1, <1>3
        <5>5. QED
          BY <5>1, <5>4
      <4>4. QED
        BY <4>1, <4>2, <4>3
    <3>8. ASSUME NEW m \in Slot, w[m] = l
          PROVE  j.prev[m] = 0 <=> j.head[l] = m
      <4>1. j.head[l] = IF a = 0 THEN n ELSE k.head[l]
        BY <1>4
      <4>2. CASE m = n
        <5>1. k.head[l] # n
          BY <3>4
        <5>2. QED
          BY <5>1, <4>1, <4>2, <1>3
      <4>3. CASE m # n
        <5>1. wh[m] = l
          BY <4>3, <3>1, <3>8
        <5>2. CASE m = b
          BY <5>1, <5>2, <4>1, <4>3, <3>3, <1>3, <1>6
        <5>3. CASE m # b
          BY <5>1, <5>3, <4>1, <4>3, <3>3, <3>5, <1>3
        <5>4. QED
          BY <5>2, <5>3
      <4>4. QED
        BY <4>2, <4>3
    <3>9. ASSUME NEW m \in Slot, w[m] = l, l \notin Singly
          PROVE  j.next[m] = 0 <=> j.tail[l] = m
      <4>1. j.tail[l] = IF b = 0 THEN n ELSE k.tail[l]
        BY <1>4, <3>9
      <4>2. CASE m = n
        <5>1. k.tail[l] # n
          BY <3>4, <3>9
        <5>2. QED
          BY <5>1, <4>1, <4>2, <1>3
      <4>3. CASE m # n
        <5>1. wh[m] = l
          BY <4>3, <3>1, <3>9
        <5>2. CASE m = a
          BY <5>1, <5>2, <4>1, <4>3, <3>3, <3>9, <1>3, <1>6
        <5>3. CASE m # a
          BY <5>1, <5>3, <4>1, <4>3, <3>3, <3>5, <3>9, <1>3
        <5>4. QED
          BY <5>2, <5>3
      <4>4. QED
        BY <4>2, <4>3
    <3>10. j.head[l] # 0 => w[j.head[l]] = l
      BY <3>1, <3>2, <3>4, <1>4
    <3>11. l \notin Singly => /\ j.tail[l] # 0 => w[j.tail[l]] = l
                              /\ j.head[l] = 0 <=> j.tail[l] = 0
      <4> SUFFICES ASSUME l \notin Singly
                   PROVE  /\ j.tail[l] # 0 => w[j.tail[l]] = l
                          /\ j.head[l] = 0 <=> j.tail[l] = 0
        OBVIOUS
      <4>1. /\ j.head[l] = IF a = 0 THEN n ELSE k.head[l]
            /\ j.tail[l] = IF b = 0 THEN n ELSE k.tail[l]
        BY <1>4
      <4>2. j.tail[l] # 0 => w[j.tail[l]] = l
        BY <4>1, <3>1, <3>2, <3>4
      <4>3. j.head[l] = 0 <=> j.tail[l] = 0
        <5>1. CASE a = 0
          BY <5>1, <4>1, <3>4, <3>5
        <5>2. CASE a # 0
          BY <5>2, <4>1, <3>4, <3>5
        <5>3. QED
          BY <5>1, <5>2
      <4>4. QED
        BY <4>2, <4>3
    <3>12. \A m \in Slot : w[m] = l =>
             /\ j.next[m] # 0 => w[j.next[m]] = l /\ j.prev[j.next[m]] = m
             /\ j.prev[m] # 0 => w[j.prev[m]] = l /\ j.next[j.prev[m]] = m
             /\ j.prev[m] = 0 <=> j.head[l] = m
             /\ l \notin Singly => (j.next[m] = 0 <=> j.tail[l] = m)
      BY <3>6, <3>7, <3>8, <3>9
    <3>13. Linked(j, w, l)
      BY <3>10, <3>11, <3>12 DEF Linked
    <3>14. QED
      BY <2>1, <3>13
  <2>2. CASE i # l
    <3>1. Linked(k, wh, i)
      BY DEF Chain
    <3>2. \A m \in Slot : w[m] = i <=> wh[m] = i
      BY <2>2, <1>5
    <3>3. \A m \in Slot : wh[m] = i => m # a /\ m # b /\ m # n
      BY <2>2, <1>6
    <3>4. /\ j.head[i] = k.head[i] /\ k.head[i] \in Nums /\ k.tail[i] \in Nums
          /\ i \notin Singly => j.tail[i] = k.tail[i]
      BY <2>2, <1>1, <1>4 DEF LinksType
    <3>5. \A m \in Slot : wh[m] = i => j.next[m] = k.next[m] /\ j.prev[m] = k.prev[m]
      BY <3>3, <1>3
    <3>6. \A m \in Slot : w[m] = i =>
             /\ j.next[m] # 0 => w[j.next[m]] = i /\ j.prev[j.next[m]] = m
             /\ j.prev[m] # 0 => w[j.prev[m]] = i /\ j.next[j.prev[m]] = m
             /\ j.prev[m] = 0 <=> j.head[i] = m
             /\ i \notin Singly => (j.next[m] = 0 <=> j.tail[i] = m)
      <4> SUFFICES ASSUME NEW m \in Slot, wh[m] = i
                   PROVE  /\ j.next[m] # 0 => w[j.next[m]] = i /\ j.prev[j.next[m]] = m
                          /\ j.prev[m] # 0 => w[j.prev[m]] = i /\ j.next[j.prev[m]] = m
                          /\ j.prev[m] = 0 <=> j.head[i] = m
                          /\ i \notin Singly => (j.next[m] = 0 <=> j.tail[i] = m)
        BY <3>2
      <4>1. /\ k.next[m] # 0 => /\ k.next[m] \in Slot /\ wh[k.next[m]] = i
                                /\ k.prev[k.next[m]] = m
            /\ k.prev[m] # 0 => /\ k.prev[m] \in Slot /\ wh[k.prev[m]] = i
                                /\ k.next[k.prev[m]] = m
            /\ k.prev[m] = 0 <=> k.head[i] = m
            /\ i \notin Singly => (k.next[m] = 0 <=> k.tail[i] = m)
        BY <3>1, <1>7 DEF Linked
      <4>2. j.next[m] = k.next[m] /\ j.prev[m] = k.prev[m]
        BY <3>5
      <4>3. k.next[m] # 0 => w[k.next[m]] = i /\ j.prev[k.next[m]] = m
        <5>1. k.next[m] # 0 => j.prev[k.next[m]] = k.prev[k.next[m]]
          BY <4>1, <3>5
        <5>2. k.next[m] # 0 => w[k.next[m]] = i
          BY <4>1, <3>2
        <5>3. QED
          BY <5>1, <5>2, <4>1
      <4>4. k.prev[m] # 0 => w[k.prev[m]] = i /\ j.next[k.prev[m]] = m
        <5>1. k.prev[m] # 0 => j.next[k.prev[m]] = k.next[k.prev[m]]
          BY <4>1, <3>5
        <5>2. k.prev[m] # 0 => w[k.prev[m]] = i
          BY <4>1, <3>2
        <5>3. QED
          BY <5>1, <5>2, <4>1
      <4>5. QED
        BY <4>1, <4>2, <4>3, <4>4, <3>4
    <3>7. /\ j.head[i] # 0 => w[j.head[i]] = i
          /\ i \notin Singly => /\ j.tail[i] # 0 => w[j.tail[i]] = i
                                /\ j.head[i] = 0 <=> j.tail[i] = 0
      <4>1. /\ k.head[i] # 0 => wh[k.head[i]] = i /\ k.head[i] \in Slot
            /\ i \notin Singly => /\ k.tail[i] # 0 => wh[k.tail[i]] = i /\ k.tail[i] \in Slot
                                  /\ k.head[i] = 0 <=> k.tail[i] = 0
        BY <3>1, <3>4 DEF Linked
      <4>2. k.head[i] # 0 => w[k.head[i]] = i
        BY <4>1, <3>2
      <4>3. i \notin Singly /\ k.tail[i] # 0 => w[k.tail[i]] = i
        BY <4>1, <3>2
      <4>4. QED
        BY <4>1, <4>2, <4>3, <3>4
    <3>8. QED
      BY <3>6, <3>7 DEF Linked
  <2>3. QED
    BY <2>1, <2>2
<1>10. \E pos \in [Slot -> Int] : Upwards(j, w, pos)
  <2>1. PICK pos \in [Slot -> Int] : Upwards(k, wh, pos)
    BY DEF Chain
  <2> DEFINE mid == IF b # 0 THEN 2 * pos[b] - 1 ELSE IF a # 0 THEN 2 * pos[a] + 1 ELSE 0
             new == [m \in Slot |-> IF m = n THEN mid ELSE 2 * pos[m]]
  <2>2. \A m \in Slot : pos[m] \in Int
    BY <2>1
  <2>3. mid \in Int
    <3>1. (b # 0 => pos[b] \in Int) /\ (a # 0 => pos[a] \in Int)
      BY <2>2, <1>6
    <3>2. QED
      BY <3>1
  <2> HIDE DEF mid
  <2>4. /\ new \in [Slot -> Int]
        /\ \A m \in Slot : new[m] = IF m = n THEN mid ELSE 2 * pos[m]
    BY <2>2, <2>3
  <2> HIDE DEF new
  <2>5. ASSUME NEW m \in Slot, w[m] \in Lists, j.next[m] # 0
        PROVE  new[m] < new[j.next[m]]
    <3>1. CASE m = n
      <4>1. j.next[m] = b /\ b \in Slot /\ b # n
        BY <3>1, <2>5, <1>3, <1>6
      <4>2. new[m] = 2 * pos[b] - 1 /\ new[b] = 2 * pos[b]
        BY <4>1, <3>1, <2>4, <2>5 DEF mid
      <4>3. QED
        BY <4>1, <4>2, <2>2
    <3>2. CASE m = a
      <4>1. j.next[m] = n /\ m # n /\ wh[m] = l /\ k.next[m] = b
        BY <3>2, <1>3, <1>6
      <4>2. new[m] = 2 * pos[m] /\ new[n] = mid
        BY <4>1, <2>4
      <4>3. CASE b # 0
        <5>1. pos[m] < pos[b] /\ mid = 2 * pos[b] - 1 /\ b \in Slot
          BY <4>1, <4>3, <2>1, <1>6 DEF Upwards, mid
        <5>2. new[m] < new[n]
          BY <5>1, <4>2, <2>2
        <5>3. QED
          BY <5>2, <4>1
      <4>4. CASE b = 0
        <5>1. mid = 2 * pos[m] + 1
          BY <3>2, <4>4 DEF mid
        <5>2. QED
          BY <5>1, <4>1, <4>2, <2>2
      <4>5. QED
        BY <4>3, <4>4
    <3>3. CASE m # n /\ m # a
      <4>1. j.next[m] = k.next[m] /\ wh[m] \in Lists /\ k.next[m] \in Slot
        BY <3>3, <2>5, <1>3, <1>5, <1>7
      <4>2. pos[m] < pos[k.next[m]]
        BY <4>1, <2>1 DEF Upwards
      <4>3. k.next[m] # n
        <5>1. Linked(k, wh, wh[m])
          BY <4>1 DEF Chain
        <5>2. wh[k.next[m]] = wh[m]
          BY <5>1, <4>1 DEF Linked
        <5>3. QED
          BY <5>2, <4>1
      <4>4. new[m] = 2 * pos[m] /\ new[k.next[m]] = 2 * pos[k.next[m]]
        BY <4>1, <4>3, <3>3, <2>4
      <4>5. pos[m] \in Int /\ pos[k.next[m]] \in Int
        BY <4>1, <2>2
      <4>6. QED
        BY <4>1, <4>2, <4>4, <4>5
    <3>4. QED
      BY <3>1, <3>2, <3>3
  <2>6. QED
    BY <2>4, <2>5 DEF Upwards
<1>11. FreeKept(k, j, wh)
  BY <1>3, <1>6 DEF FreeKept
<1>12. QED
  BY <1>2, <1>5, <1>8, <1>9, <1>10, <1>11 DEF Chain, w

LEMMA InsertFirstChain ==
  ASSUME NEW k, NEW wh, Chain(k, wh), NEW n \in Slot, NEW l \in Lists, wh[n] = "held"
  PROVE  /\ Chain(inserted(k, n, l), [wh EXCEPT ![n] = l])
         /\ FreeKept(k, inserted(k, n, l), wh)
<1> DEFINE j == inserted(k, n, l)
           first == k.head[l]
<1>1. k \in LinksType /\ Linked(k, wh, l) /\ first \in Nums
  BY DEF Chain, LinksType
<1>2. first # 0 => wh[first] = l /\ k.prev[first] = 0
  BY <1>1 DEF Linked
<1>3. l \notin Singly => (first = 0 <=> k.tail[l] = 0)
  BY <1>1 DEF Linked
<1>4. Between(k, wh, l, 0, first)
  BY <1>1, <1>2, <1>3 DEF Between
<1>5. j \in LinksType
  BY <1>1 DEF inserted, Set, LinksType
<1>6. \A m \in Slot : /\ j.next[m] = IF m = n THEN first ELSE IF m = 0 THEN n ELSE k.next[m]
                      /\ j.prev[m] = IF m = n THEN 0 ELSE IF m = first THEN n ELSE k.prev[m]
  BY <1>1, <1>2 DEF inserted, Set, LinksType
<1>7. /\ \A i \in Lists : j.head[i] = IF i = l /\ 0 = 0 THEN n ELSE k.head[i]
      /\ \A i \in Lists \ Singly : j.tail[i] = IF i = l /\ first = 0 THEN n ELSE k.tail[i]
  BY <1>1, <1>3 DEF inserted, LinksType
<1>8. PutBetween(k, j, n, l, 0, first)
  BY <1>5, <1>6, <1>7 DEF PutBetween
<1>9. QED
  BY <1>4, <1>8, InsertedChain

LEMMA AppendChain ==
  ASSUME NEW k, NEW wh, Chain(k, wh), NEW n \in Slot, NEW l \in Lists \ Singly, wh[n] = "held"
  PROVE  /\ Chain(appended(k, n, l), [wh EXCEPT ![n] = l])
         /\ FreeKept(k, appended(k, n, l), wh)
<1> DEFINE j == appended(k, n, l)
           last == k.tail[l]
<1>1. k \in LinksType /\ Linked(k, wh, l) /\ last \in Nums
  BY DEF Chain, LinksType
<1>2. last # 0 => wh[last] = l /\ k.next[last] = 0
  BY <1>1 DEF Linked
<1>3. last = 0 <=> k.head[l] = 0
  BY <1>1 DEF Linked
<1>4. Between(k, wh, l, last, 0)
  BY <1>1, <1>2, <1>3 DEF Between
<1>5. j \in LinksType
  BY <1>1 DEF appended, Set, LinksType
<1>6. \A m \in Slot : /\ j.next[m] = IF m = n THEN 0 ELSE IF m = last THEN n ELSE k.next[m]
                      /\ j.prev[m] = IF m = n THEN last ELSE IF m = 0 THEN n ELSE k.prev[m]
  BY <1>1, <1>2 DEF appended, Set, LinksType
<1>7. /\ \A i \in Lists : j.head[i] = IF i = l /\ last = 0 THEN n ELSE k.head[i]
      /\ \A i \in Lists \ Singly : j.tail[i] = IF i = l /\ 0 = 0 THEN n ELSE k.tail[i]
  BY <1>1, <1>3 DEF appended, LinksType
<1>8. PutBetween(k, j, n, l, last, 0)
  BY <1>5, <1>6, <1>7 DEF PutBetween
<1>9. QED
  BY <1>4, <1>8, InsertedChain

LEMMA InsertAtChain ==
  ASSUME NEW k, NEW wh, Chain(k, wh), NEW n \in Slot, NEW l \in Lists \ Singly, wh[n] = "held",
         NEW before \in Nums, before # 0 => wh[before] = l,
         NEW at \in Slot, at = IF before = 0 THEN k.head[l] ELSE k.next[before]
  PROVE  /\ Chain(insertedAt(k, n, l, before, at), [wh EXCEPT ![n] = l])
         /\ FreeKept(k, insertedAt(k, n, l, before, at), wh)
<1> DEFINE j == insertedAt(k, n, l, before, at)
<1>1. k \in LinksType /\ Linked(k, wh, l)
  BY DEF Chain
<1>2. wh[at] = l /\ k.prev[at] = before
  <2>1. CASE before = 0
    BY <2>1, <1>1 DEF Linked
  <2>2. CASE before # 0
    BY <2>2, <1>1 DEF Linked
  <2>3. QED
    BY <2>1, <2>2
<1>3. Between(k, wh, l, before, at)
  BY <1>2 DEF Between
<1>4. j \in LinksType
  BY <1>1, <1>2 DEF insertedAt, Set, LinksType
<1>5. \A m \in Slot : /\ j.next[m] = IF m = n THEN at ELSE IF m = before THEN n ELSE k.next[m]
                      /\ j.prev[m] = IF m = n THEN before ELSE IF m = at THEN n ELSE k.prev[m]
  BY <1>1, <1>2 DEF insertedAt, Set, LinksType
<1>6. /\ \A i \in Lists : j.head[i] = IF i = l /\ before = 0 THEN n ELSE k.head[i]
      /\ \A i \in Lists \ Singly : j.tail[i] = IF i = l /\ at = 0 THEN n ELSE k.tail[i]
  BY <1>1 DEF insertedAt, LinksType
<1>7. PutBetween(k, j, n, l, before, at)
  BY <1>4, <1>5, <1>6 DEF PutBetween
<1>8. QED
  BY <1>3, <1>7, InsertedChain

-----------------------------------------------------------------------------
(* The inductive invariant *)

\* The loop of speedy_slot_insert_sorted
WalkOK ==
  /\ walk.slot # 0 => /\ walk.list \in Lists \ Singly
                      /\ where[walk.slot] = "held"
                      /\ walk.before # 0 => where[walk.before] = walk.list
  /\ walk.slot = 0 => walk.list = "held"

IInv ==
  /\ TypeOK
  /\ Chain(Links, where)
  /\ WalkOK
  /\ FreeList
  /\ FreeSeen
  /\ RoomInFile

LEMMA ListsKept ==
  ASSUME FreeList, FreeSeen, Chain(Links, where),
         UNCHANGED <<links, where, slot_free, slots_alloced>>
  PROVE  FreeList' /\ FreeSeen' /\ Chain(Links, where)'
<1>1. /\ next_slot' = next_slot /\ prev_slot' = prev_slot /\ head' = head /\ tail' = tail
      /\ where' = where /\ slot_free' = slot_free /\ slots_alloced' = slots_alloced
  BY DEF links
<1>2. FreeList'
  BY <1>1 DEF FreeList
<1>3. FreeSeen'
  BY <1>1 DEF FreeSeen
<1>4. Links' = Links
  BY <1>1 DEF Links
<1>5. Chain(Links, where)'
  BY <1>1, <1>4
<1>6. QED
  BY <1>2, <1>3, <1>5

LEMMA AllocedSlots ==
  ASSUME NEW a \in Nums
  PROVE  a \in Nat /\ 1 .. a \subseteq Slot
<1>1. MAX_SLOTS \in Nat \ {0}
  BY SlotsAssumption DEF SlotsAssumption
<1>2. QED
  BY <1>1 DEF Slot, Nums

LEMMA BecomesLinks ==
  ASSUME NEW k \in LinksType, Becomes(k)
  PROVE  /\ Links' = k
         /\ next_slot' \in [Slot -> Nums] /\ prev_slot' \in [Slot -> Nums]
         /\ head' \in [Lists -> Nums] /\ tail' \in [Lists -> Nums]
  BY DEF Becomes, Links, LinksType

\* An operation on the lists that keeps the rest of the file as it was.
LEMMA ListStep ==
  ASSUME IInv, NEW j, Chain(j, where'), FreeKept(Links, j, where), Becomes(j),
         UNCHANGED <<slot_free, slots_alloced, size, locked, allocs, died, doublefrees>>,
         rank' \in [Slot -> Ranks],
         \A m \in Slot : where'[m] = "free" <=> where[m] = "free",
         walk' \in [slot : Nums, list : Lists \cup {"held"}, key : Ranks, before : Nums],
         WalkOK'
  PROVE  IInv'
<1>1. /\ Links' = j
      /\ next_slot' \in [Slot -> Nums] /\ prev_slot' \in [Slot -> Nums]
      /\ head' \in [Lists -> Nums] /\ tail' \in [Lists -> Nums]
  BY BecomesLinks DEF Chain
<1>2. where' \in [Slot -> Owner]
  BY DEF Chain
<1>3. TypeOK'
  BY <1>1, <1>2 DEF IInv, TypeOK, Owner
<1>4. \A m \in Slot : where[m] = "free" =>
         next_slot'[m] = next_slot[m] /\ prev_slot'[m] = prev_slot[m]
  BY DEF FreeKept, Becomes, Links
<1>5. slots_alloced \in Nums /\ \A m \in 1 .. slots_alloced : m \in Slot
  BY AllocedSlots DEF IInv, TypeOK
<1>6. FreeList'
  <2>1. slot_free # 0 => where'[slot_free] = "free" /\ slot_free <= slots_alloced
    BY DEF IInv, FreeList, TypeOK
  <2>2. ASSUME NEW m \in 1 .. slots_alloced, where[m] = "free", next_slot[m] # 0
        PROVE  /\ where[next_slot[m]] = "free" /\ next_slot[m] \in Slot
               /\ next_slot[m] <= slots_alloced /\ next_slot[m] # slot_free
               /\ \A i \in 1 .. slots_alloced :
                     where[i] = "free" /\ next_slot[i] = next_slot[m] => i = m
    BY <2>2, <1>5 DEF IInv, FreeList, TypeOK
  <2>3. ASSUME NEW m \in 1 .. slots_alloced, where'[m] = "free", next_slot'[m] # 0
        PROVE  /\ where'[next_slot'[m]] = "free"
               /\ next_slot'[m] <= slots_alloced /\ next_slot'[m] # slot_free
               /\ \A i \in 1 .. slots_alloced :
                     where'[i] = "free" /\ next_slot'[i] = next_slot'[m] => i = m
    <3>1. m \in Slot /\ where[m] = "free" /\ next_slot'[m] = next_slot[m]
      BY <2>3, <1>4, <1>5
    <3>2. ASSUME NEW i \in 1 .. slots_alloced, where'[i] = "free", next_slot'[i] = next_slot'[m]
          PROVE  i = m
      <4>1. i \in Slot /\ where[i] = "free" /\ next_slot[i] = next_slot[m]
        BY <3>1, <3>2, <1>4, <1>5
      <4>2. QED
        BY <4>1, <3>1, <2>2, <2>3
    <3>3. next_slot[m] \in Slot /\ where[next_slot[m]] = "free"
          /\ next_slot[m] <= slots_alloced /\ next_slot[m] # slot_free
      BY <3>1, <2>2, <2>3
    <3>4. QED
      BY <3>1, <3>2, <3>3
  <2>4. QED
    BY <2>1, <2>3 DEF FreeList
<1>7. FreeSeen'
  <2>1. \A m \in Slot : where'[m] # "free" => prev_slot'[m] # m
    BY DEF Chain, Becomes
  <2>2. QED
    BY <2>1, <1>4, <1>5 DEF IInv, FreeSeen
<1>8. RoomInFile'
  BY DEF IInv, RoomInFile
<1>9. QED
  BY <1>1, <1>3, <1>6, <1>7, <1>8 DEF IInv

LEMMA InvInit == Init => IInv
<1> SUFFICES ASSUME Init PROVE IInv
  OBVIOUS
<1>1. MAX_SLOTS \in Nat \ {0} /\ MIN_SLOTS_FREE \in Nat /\ MaxAllocs \in Nat /\ 0 \in Ranks
  BY SlotsAssumption DEF SlotsAssumption
<1>2. TypeOK
  <2>1. /\ next_slot \in [Slot -> Nums] /\ prev_slot \in [Slot -> Nums]
        /\ rank \in [Slot -> Ranks]
        /\ head \in [Lists -> Nums] /\ tail \in [Lists -> Nums]
        /\ where \in [Slot -> Lists \cup {"free", "held"}]
    BY <1>1 DEF Init
  <2>2. walk \in [slot : Nums, list : Lists \cup {"held"}, key : Ranks, before : Nums]
    BY <1>1 DEF Init, NoWalk
  <2>3. /\ slot_free \in Nums /\ slots_alloced \in Nums
        /\ size \in Nat /\ doublefrees \in Nat
    BY DEF Init
  <2>4. allocs \in 0 .. MaxAllocs
    BY <1>1 DEF Init
  <2>5. locked \in BOOLEAN /\ died \in {"no", "out of slots", "file too small", "freeing free slot"}
    BY DEF Init
  <2>6. QED
    BY <2>1, <2>2, <2>3, <2>4, <2>5 DEF TypeOK
<1>3. Chain(Links, where)
  <2>1. Links \in LinksType /\ where \in [Slot -> Owner]
    BY DEF Init, Links, LinksType, Owner
  <2>2. \A l \in Lists : Linked(Links, where, l)
    BY DEF Init, Links, Linked
  <2>3. [n \in Slot |-> 0] \in [Slot -> Int] /\ Upwards(Links, where, [n \in Slot |-> 0])
    BY DEF Init, Upwards
  <2>4. \A n \in Slot : where[n] # "free" => Links.prev[n] # n
    BY DEF Init
  <2>5. QED
    BY <2>1, <2>2, <2>3, <2>4 DEF Chain
<1>4. WalkOK /\ FreeList /\ FreeSeen
  BY DEF Init, NoWalk, WalkOK, FreeList, FreeSeen
<1>5. RoomInFile
  BY <1>1 DEF Init, RoomInFile
<1>6. QED
  BY <1>2, <1>3, <1>4, <1>5 DEF IInv

\* The operations on lists take a held slot to a list, or back, or within one.
LEMMA MoveStep ==
  ASSUME IInv, NEW n \in Slot, NEW to \in Lists \cup {"held"}, NEW j,
         Working, where[n] # "free", Becomes(j), Moves(n, to), UNCHANGED rank,
         Chain(j, [where EXCEPT ![n] = to]), FreeKept(Links, j, where)
  PROVE  IInv'
<1>1. where' = [where EXCEPT ![n] = to] /\ where \in [Slot -> Owner]
  BY DEF Moves, IInv, TypeOK, Owner
<1>2. Chain(j, where')
  BY <1>1
<1>3. \A m \in Slot : where'[m] = "free" <=> where[m] = "free"
  BY <1>1
<1>4. WalkOK'
  BY DEF Working, Moves, IInv, WalkOK
<1>5. rank' \in [Slot -> Ranks]
  BY DEF IInv, TypeOK
<1>6. walk' \in [slot : Nums, list : Lists \cup {"held"}, key : Ranks, before : Nums]
  BY DEF IInv, TypeOK, Moves
<1>7. UNCHANGED <<slot_free, slots_alloced, size, locked, allocs, died, doublefrees>>
  BY DEF Moves, Others
<1>8. QED
  BY <1>2, <1>3, <1>4, <1>5, <1>6, <1>7, ListStep

LEMMA RemoveStep ==
  ASSUME IInv, NEW n \in Slot, NEW l \in Lists, speedy_slot_remove(n, l)
  PROVE  IInv'
<1>1. Chain(Links, where) /\ where[n] = l
  BY DEF IInv, speedy_slot_remove
<1>2. /\ Chain(removed(Links, n, l), [where EXCEPT ![n] = "held"])
      /\ FreeKept(Links, removed(Links, n, l), where)
  BY <1>1, RemovedChain
<1>3. QED
  BY <1>1, <1>2, MoveStep DEF speedy_slot_remove

LEMMA InsertStep ==
  ASSUME IInv, NEW n \in Slot, NEW l \in Lists, speedy_slot_insert(n, l)
  PROVE  IInv'
<1>1. Chain(Links, where) /\ where[n] = "held"
  BY DEF IInv, speedy_slot_insert
<1>2. /\ Chain(inserted(Links, n, l), [where EXCEPT ![n] = l])
      /\ FreeKept(Links, inserted(Links, n, l), where)
  BY <1>1, InsertFirstChain
<1>3. QED
  BY <1>1, <1>2, MoveStep DEF speedy_slot_insert

LEMMA AppendStep ==
  ASSUME IInv, NEW n \in Slot, NEW l \in Lists, speedy_slot_append(n, l)
  PROVE  IInv'
<1>1. Chain(Links, where) /\ where[n] = "held" /\ l \in Lists \ Singly
  BY DEF IInv, speedy_slot_append
<1>2. /\ Chain(appended(Links, n, l), [where EXCEPT ![n] = l])
      /\ FreeKept(Links, appended(Links, n, l), where)
  BY <1>1, AppendChain
<1>3. QED
  BY <1>1, <1>2, MoveStep DEF speedy_slot_append

\* Taken out of a list and put back into it
LEMMA Requeued ==
  ASSUME NEW k, NEW j, NEW wh, NEW n \in Slot, NEW l \in Lists, wh[n] = l, wh \in [Slot -> Owner],
         FreeKept(k, removed(k, n, l), wh),
         FreeKept(removed(k, n, l), j, [wh EXCEPT ![n] = "held"]),
         Chain(j, [[wh EXCEPT ![n] = "held"] EXCEPT ![n] = l])
  PROVE  Chain(j, [wh EXCEPT ![n] = l]) /\ FreeKept(k, j, wh)
<1>1. [[wh EXCEPT ![n] = "held"] EXCEPT ![n] = l] = [wh EXCEPT ![n] = l]
  OBVIOUS
<1>2. \A m \in Slot : wh[m] = "free" => [wh EXCEPT ![n] = "held"][m] = "free"
  OBVIOUS
<1>3. FreeKept(k, j, wh)
  BY <1>2 DEF FreeKept
<1>4. QED
  BY <1>1, <1>3

LEMMA MoveHeadStep ==
  ASSUME IInv, NEW n \in Slot, NEW l \in Lists, speedy_slot_move_head(n, l)
  PROVE  IInv'
<1> DEFINE w == [where EXCEPT ![n] = "held"]
           r == removed(Links, n, l)
<1>1. Chain(Links, where) /\ where[n] = l /\ where \in [Slot -> Owner]
  BY DEF IInv, Chain, speedy_slot_move_head
<1>2. Chain(r, w) /\ FreeKept(Links, r, where)
  BY <1>1, RemovedChain
<1>3. w[n] = "held"
  BY <1>1
<1>4. Chain(inserted(r, n, l), [w EXCEPT ![n] = l]) /\ FreeKept(r, inserted(r, n, l), w)
  BY <1>2, <1>3, InsertFirstChain
<1>5. /\ Chain(inserted(r, n, l), [where EXCEPT ![n] = l])
      /\ FreeKept(Links, inserted(r, n, l), where)
  BY <1>1, <1>2, <1>4, Requeued
<1>6. QED
  BY <1>1, <1>5, MoveStep DEF speedy_slot_move_head

LEMMA MoveTailStep ==
  ASSUME IInv, NEW n \in Slot, NEW l \in Lists, speedy_slot_move_tail(n, l)
  PROVE  IInv'
<1> DEFINE w == [where EXCEPT ![n] = "held"]
           r == removed(Links, n, l)
<1>1. Chain(Links, where) /\ where[n] = l /\ where \in [Slot -> Owner] /\ l \in Lists \ Singly
  BY DEF IInv, Chain, speedy_slot_move_tail
<1>2. Chain(r, w) /\ FreeKept(Links, r, where)
  BY <1>1, RemovedChain
<1>3. w[n] = "held"
  BY <1>1
<1>4. Chain(appended(r, n, l), [w EXCEPT ![n] = l]) /\ FreeKept(r, appended(r, n, l), w)
  BY <1>1, <1>2, <1>3, AppendChain
<1>5. /\ Chain(appended(r, n, l), [where EXCEPT ![n] = l])
      /\ FreeKept(Links, appended(r, n, l), where)
  BY <1>1, <1>2, <1>4, Requeued
<1>6. QED
  BY <1>1, <1>5, MoveStep DEF speedy_slot_move_tail

LEMMA SortedBeginStep ==
  ASSUME IInv, NEW n \in Slot, NEW l \in Lists, NEW r \in Ranks, SortedBegin(n, l, r)
  PROVE  IInv'
<1>1. /\ l \in Lists \ Singly /\ where[n] = "held"
      /\ walk' = [slot |-> n, list |-> l, key |-> r, before |-> 0]
      /\ UNCHANGED <<links, rank, where, slot_free, slots_alloced, size, locked, allocs, died,
                     doublefrees>>
  BY DEF SortedBegin, Others
<1>2. WalkOK'
  BY <1>1 DEF WalkOK
<1>3. TypeOK'
  BY <1>1 DEF IInv, TypeOK, links
<1>4. FreeList' /\ FreeSeen' /\ Chain(Links, where)'
  BY <1>1, ListsKept DEF IInv
<1>5. RoomInFile'
  BY <1>1 DEF IInv, RoomInFile
<1>6. QED
  BY <1>2, <1>3, <1>4, <1>5 DEF IInv

\* The loop stays in its list.
LEMMA WalkAt ==
  ASSUME IInv, walk.slot # 0
  PROVE  /\ walk.slot \in Slot /\ walk.list \in Lists \ Singly /\ walk.before \in Nums
         /\ walk.key \in Ranks
         /\ where[walk.slot] = "held"
         /\ walk.before # 0 => where[walk.before] = walk.list
         /\ walk_at \in Nums
         /\ walk_at # 0 => where[walk_at] = walk.list
<1>1. /\ walk.slot \in Slot /\ walk.list \in Lists \ Singly /\ walk.before \in Nums
      /\ walk.key \in Ranks
      /\ where[walk.slot] = "held"
      /\ walk.before # 0 => where[walk.before] = walk.list
  BY DEF IInv, TypeOK, WalkOK
<1>2. Linked(Links, where, walk.list)
  BY <1>1 DEF IInv, Chain
<1>3. walk_at = IF walk.before = 0 THEN Links.head[walk.list] ELSE Links.next[walk.before]
  BY DEF walk_at, Links
<1>4. walk_at \in Nums
  BY <1>1 DEF walk_at, IInv, TypeOK
<1>5. walk_at # 0 => where[walk_at] = walk.list
  BY <1>1, <1>2, <1>3 DEF Linked
<1>6. QED
  BY <1>1, <1>4, <1>5

LEMMA SortedNextStep ==
  ASSUME IInv, SortedNext
  PROVE  IInv'
<1>1. /\ walk.slot # 0 /\ walk_at # 0
      /\ walk' = [walk EXCEPT !.before = walk_at]
      /\ UNCHANGED <<links, rank, where, slot_free, slots_alloced, size, locked, allocs, died,
                     doublefrees>>
  BY DEF SortedNext, Others
<1>2. walk \in [slot : Nums, list : Lists \cup {"held"}, key : Ranks, before : Nums]
  BY DEF IInv, TypeOK
<1>3. WalkOK'
  BY <1>1, <1>2, WalkAt DEF WalkOK
<1>4. TypeOK'
  <2>1. walk' \in [slot : Nums, list : Lists \cup {"held"}, key : Ranks, before : Nums]
    BY <1>1, <1>2, WalkAt
  <2>2. QED
    BY <1>1, <2>1 DEF IInv, TypeOK, links
<1>5. Chain(Links, where)'
  BY <1>1 DEF IInv, links, Links
<1>6. FreeList' /\ FreeSeen' /\ RoomInFile'
  BY <1>1 DEF IInv, FreeList, FreeSeen, RoomInFile, links
<1>7. QED
  BY <1>3, <1>4, <1>5, <1>6 DEF IInv

LEMMA SortedEndStep ==
  ASSUME IInv, SortedEnd
  PROVE  IInv'
<1> DEFINE n == walk.slot
           l == walk.list
<1>1. /\ n \in Slot /\ l \in Lists \ Singly /\ walk.before \in Nums /\ walk.key \in Ranks
      /\ where[n] = "held"
      /\ walk.before # 0 => where[walk.before] = l
      /\ walk_at \in Nums
  BY WalkAt DEF SortedEnd
<1>2. Chain(Links, where) /\ where \in [Slot -> Owner]
  BY DEF IInv, Chain
<1>3. PICK j : /\ Becomes(j)
               /\ Chain(j, [where EXCEPT ![n] = l]) /\ FreeKept(Links, j, where)
  <2>1. CASE walk_at = 0
    <3>1. Becomes(appended(Links, n, l))
      BY <2>1 DEF SortedEnd
    <3>2. QED
      BY <3>1, <1>1, <1>2, AppendChain
  <2>2. CASE walk_at # 0
    <3>1. Becomes(insertedAt(Links, n, l, walk.before, walk_at))
      BY <2>2 DEF SortedEnd
    <3>2. walk_at = IF walk.before = 0 THEN Links.head[l] ELSE Links.next[walk.before]
      BY DEF walk_at, Links
    <3>3. /\ Chain(insertedAt(Links, n, l, walk.before, walk_at), [where EXCEPT ![n] = l])
          /\ FreeKept(Links, insertedAt(Links, n, l, walk.before, walk_at), where)
      BY <2>2, <3>2, <1>1, <1>2, InsertAtChain
    <3>4. QED
      BY <3>1, <3>3
  <2>3. QED
    BY <2>1, <2>2
<1>4. where' = [where EXCEPT ![n] = l]
  BY DEF SortedEnd
<1>5. Chain(j, where')
  BY <1>3, <1>4
<1>6. \A m \in Slot : where'[m] = "free" <=> where[m] = "free"
  BY <1>1, <1>2, <1>4
<1>7. WalkOK' /\ walk' \in [slot : Nums, list : Lists \cup {"held"}, key : Ranks, before : Nums]
  <2>1. walk' = NoWalk /\ 0 \in Ranks
    BY SlotsAssumption DEF SortedEnd, SlotsAssumption
  <2>2. QED
    BY <2>1 DEF WalkOK, NoWalk
<1>8. rank' \in [Slot -> Ranks]
  BY <1>1 DEF SortedEnd, IInv, TypeOK
<1>9. UNCHANGED <<slot_free, slots_alloced, size, locked, allocs, died, doublefrees>>
  BY DEF SortedEnd, Others
<1>10. QED
  BY <1>3, <1>5, <1>6, <1>7, <1>8, <1>9, ListStep

\* A slot that is in no list changes hands: the lists do not see its links.
LEMMA OutsideChain ==
  ASSUME NEW k, NEW j, NEW wh, Chain(k, wh), NEW n \in Slot, wh[n] \notin Lists,
         NEW to \in {"free", "held"}, j \in LinksType,
         j.head = k.head, j.tail = k.tail,
         \A m \in Slot \ {n} : j.next[m] = k.next[m] /\ j.prev[m] = k.prev[m],
         to # "free" => j.prev[n] # n
  PROVE  Chain(j, [wh EXCEPT ![n] = to])
<1> DEFINE w == [wh EXCEPT ![n] = to]
<1>1. /\ k \in LinksType /\ wh \in [Slot -> Owner]
      /\ \A m \in Slot : wh[m] # "free" => k.prev[m] # m
  BY DEF Chain
<1>2. w \in [Slot -> Owner] /\ \A m \in Slot : w[m] = IF m = n THEN to ELSE wh[m]
  BY <1>1 DEF Owner
<1> HIDE DEF w
<1>3. \A m \in Slot : w[m] # "free" => j.prev[m] # m
  BY <1>1, <1>2
<1>4. \A m \in Slot : w[m] \in Lists => wh[m] = w[m] /\ m # n
  BY <1>2
<1>5. \A m \in Slot : wh[m] \in Lists => w[m] = wh[m] /\ m # n
  BY <1>2
<1>6. ASSUME NEW i \in Lists PROVE Linked(j, w, i)
  <2>1. Linked(k, wh, i)
    BY DEF Chain
  <2>2. /\ j.head[i] = k.head[i] /\ k.head[i] \in Nums
        /\ j.tail[i] = k.tail[i] /\ k.tail[i] \in Nums
    BY <1>1 DEF LinksType
  <2>3. ASSUME NEW m \in Slot, w[m] = i
        PROVE  /\ j.next[m] # 0 => w[j.next[m]] = i /\ j.prev[j.next[m]] = m
               /\ j.prev[m] # 0 => w[j.prev[m]] = i /\ j.next[j.prev[m]] = m
               /\ j.prev[m] = 0 <=> j.head[i] = m
               /\ i \notin Singly => (j.next[m] = 0 <=> j.tail[i] = m)
    <3>1. wh[m] = i /\ j.next[m] = k.next[m] /\ j.prev[m] = k.prev[m]
          /\ k.next[m] \in Nums /\ k.prev[m] \in Nums
      BY <1>1, <1>4, <2>3 DEF LinksType
    <3>2. /\ k.next[m] # 0 => wh[k.next[m]] = i /\ k.prev[k.next[m]] = m
          /\ k.prev[m] # 0 => wh[k.prev[m]] = i /\ k.next[k.prev[m]] = m
          /\ k.prev[m] = 0 <=> k.head[i] = m
          /\ i \notin Singly => (k.next[m] = 0 <=> k.tail[i] = m)
      BY <2>1, <3>1 DEF Linked
    <3>3. k.next[m] # 0 => w[k.next[m]] = i /\ j.prev[k.next[m]] = m
      BY <3>1, <3>2, <1>5
    <3>4. k.prev[m] # 0 => w[k.prev[m]] = i /\ j.next[k.prev[m]] = m
      BY <3>1, <3>2, <1>5
    <3>5. QED
      BY <3>1, <3>2, <3>3, <3>4, <2>2
  <2>4. /\ j.head[i] # 0 => w[j.head[i]] = i
        /\ i \notin Singly => /\ j.tail[i] # 0 => w[j.tail[i]] = i
                              /\ j.head[i] = 0 <=> j.tail[i] = 0
    <3>1. /\ k.head[i] # 0 => wh[k.head[i]] = i
          /\ i \notin Singly => /\ k.tail[i] # 0 => wh[k.tail[i]] = i
                                /\ k.head[i] = 0 <=> k.tail[i] = 0
      BY <2>1 DEF Linked
    <3>2. /\ k.head[i] # 0 => k.head[i] \in Slot
          /\ k.tail[i] # 0 => k.tail[i] \in Slot
      BY <2>2
    <3>3. k.head[i] # 0 => w[k.head[i]] = i
      BY <3>1, <3>2, <1>5
    <3>4. i \notin Singly /\ k.tail[i] # 0 => w[k.tail[i]] = i
      BY <3>1, <3>2, <1>5
    <3>5. QED
      BY <3>1, <3>3, <3>4, <2>2
  <2>5. QED
    BY <2>3, <2>4 DEF Linked
<1>7. \E pos \in [Slot -> Int] : Upwards(j, w, pos)
  <2>1. PICK pos \in [Slot -> Int] : Upwards(k, wh, pos)
    BY DEF Chain
  <2>2. Upwards(j, w, pos)
    BY <2>1, <1>4 DEF Upwards
  <2>3. QED
    BY <2>1, <2>2
<1>8. QED
  BY <1>2, <1>3, <1>6, <1>7 DEF Chain, w

\* speedy_slot_alloc hands out a slot that is free.
LEMMA ClearedChain ==
  ASSUME IInv, NEW n \in Slot, where[n] = "free", Cleared(n)
  PROVE  Chain(Links, where)'
<1>1. /\ Chain(Links, where)
      /\ next_slot \in [Slot -> Nums] /\ prev_slot \in [Slot -> Nums]
      /\ head \in [Lists -> Nums] /\ tail \in [Lists -> Nums]
  BY DEF IInv, TypeOK
<1>2. /\ next_slot' = [next_slot EXCEPT ![n] = 0] /\ prev_slot' = [prev_slot EXCEPT ![n] = 0]
      /\ where' = [where EXCEPT ![n] = "held"] /\ head' = head /\ tail' = tail
  BY DEF Cleared
<1>3. Links' \in LinksType
  BY <1>1, <1>2 DEF Links, LinksType
<1>4. \A m \in Slot \ {n} : Links'.next[m] = Links.next[m] /\ Links'.prev[m] = Links.prev[m]
  BY <1>1, <1>2 DEF Links
<1>5. Links'.head = Links.head /\ Links'.tail = Links.tail /\ Links'.prev[n] # n
  BY <1>1, <1>2 DEF Links
<1>6. Chain(Links', [where EXCEPT ![n] = "held"])
  BY <1>1, <1>3, <1>4, <1>5, OutsideChain
<1>7. QED
  BY <1>2, <1>6

\* What has been handed out does not point back to itself.
LEMMA ClearedSeen ==
  ASSUME TypeOK, FreeSeen, NEW n \in Slot, Cleared(n),
         slots_alloced \in Nat, 1 .. slots_alloced \subseteq Slot,
         slots_alloced' \in Nat, 1 .. slots_alloced' = (1 .. slots_alloced) \cup {n},
         slots_alloced <= slots_alloced'
  PROVE  FreeSeen'
<1>1. /\ prev_slot' = [prev_slot EXCEPT ![n] = 0] /\ prev_slot \in [Slot -> Nums]
      /\ where' = [where EXCEPT ![n] = "held"] /\ where \in [Slot -> Lists \cup {"free", "held"}]
  BY DEF Cleared, TypeOK
<1>2. ASSUME NEW m \in 1 .. slots_alloced' PROVE prev_slot'[m] = m <=> where'[m] = "free"
  <2>1. CASE m = n
    BY <2>1, <1>1
  <2>2. CASE m # n
    <3>1. m \in 1 .. slots_alloced /\ m \in Slot
      BY <2>2
    <3>2. prev_slot'[m] = prev_slot[m] /\ where'[m] = where[m]
      BY <2>2, <3>1, <1>1
    <3>3. QED
      BY <3>1, <3>2 DEF FreeSeen
  <2>3. QED
    BY <2>1, <2>2
<1>3. ASSUME NEW m \in Slot, where'[m] # "free" PROVE m <= slots_alloced'
  <2>1. CASE m = n
    <3>1. m \in 1 .. slots_alloced'
      BY <2>1
    <3>2. QED
      BY <3>1
  <2>2. CASE m # n
    <3>1. m <= slots_alloced
      BY <2>2, <1>1, <1>3 DEF FreeSeen
    <3>2. m \in Nat
      OBVIOUS
    <3>3. QED
      BY <3>1, <3>2
  <2>3. QED
    BY <2>1, <2>2
<1>4. QED
  BY <1>2, <1>3 DEF FreeSeen

LEMMA AllocStep ==
  ASSUME IInv, speedy_slot_alloc
  PROVE  IInv'
<1>1. /\ Working /\ allocs < MaxAllocs /\ allocs' = allocs + 1
  BY DEF speedy_slot_alloc
<1>2. /\ MAX_SLOTS \in Nat \ {0} /\ MaxAllocs \in Nat /\ MIN_SLOTS_FREE \in Nat
      /\ MaxAllocs <= MIN_SLOTS_FREE /\ 0 \in Ranks
  BY SlotsAssumption DEF SlotsAssumption
<1>3. TypeOK /\ WalkOK /\ FreeList /\ FreeSeen /\ RoomInFile
  BY DEF IInv
<1>4. allocs \in Nat /\ slots_alloced \in Nat /\ size \in Nat /\ 1 .. slots_alloced \subseteq Slot
  <2>1. slots_alloced \in Nums /\ size \in Nat /\ allocs \in 0 .. MaxAllocs
    BY <1>3 DEF TypeOK
  <2>2. allocs \in Nat
    BY <2>1, <1>2
  <2>3. QED
    BY <2>1, <2>2, AllocedSlots
<1>5. slots_alloced + 1 <= size /\ slots_alloced + (MIN_SLOTS_FREE - allocs) <= size
  BY <1>1, <1>2, <1>3, <1>4 DEF Working, RoomInFile
<1>6. allocs' \in 0 .. MaxAllocs
  BY <1>1, <1>2, <1>4
<1>7. CASE slot_free # 0
  <2>1. /\ slot_free' = next_slot[slot_free] /\ Cleared(slot_free) /\ UNCHANGED slots_alloced
    BY <1>7 DEF speedy_slot_alloc
  <2>2. slot_free \in Slot /\ where[slot_free] = "free" /\ slot_free \in 1 .. slots_alloced
    <3>1. slot_free \in Slot
      BY <1>3, <1>7 DEF TypeOK
    <3>2. where[slot_free] = "free" /\ slot_free <= slots_alloced
      BY <1>3, <1>7 DEF FreeList
    <3>3. slot_free \in Nat /\ slot_free >= 1
      BY <3>1
    <3>4. QED
      BY <3>1, <3>2, <3>3, <1>4
  <2>3. Chain(Links, where)'
    BY <2>1, <2>2, ClearedChain
  <2>4. TypeOK'
    BY <2>1, <2>2, <1>2, <1>3, <1>6 DEF Cleared, TypeOK
  <2>5. WalkOK'
    BY <2>1, <1>1, <1>3 DEF Cleared, WalkOK, Working
  <2>6. FreeList'
    <3>1. /\ where' = [where EXCEPT ![slot_free] = "held"]
          /\ next_slot' = [next_slot EXCEPT ![slot_free] = 0]
          /\ where \in [Slot -> Lists \cup {"free", "held"}] /\ next_slot \in [Slot -> Nums]
      BY <2>1, <1>3 DEF Cleared, TypeOK
    <3>2. \A m \in 1 .. slots_alloced : where'[m] = "free" =>
             m # slot_free /\ where[m] = "free" /\ next_slot'[m] = next_slot[m]
      BY <3>1, <2>2, <1>4
    <3>3. ASSUME NEW m \in 1 .. slots_alloced, where[m] = "free", next_slot[m] # 0
          PROVE  /\ where[next_slot[m]] = "free" /\ next_slot[m] \in Slot
                 /\ next_slot[m] <= slots_alloced /\ next_slot[m] # slot_free
                 /\ \A i \in 1 .. slots_alloced :
                       where[i] = "free" /\ next_slot[i] = next_slot[m] => i = m
      BY <3>1, <3>3, <1>3, <1>4 DEF FreeList
    <3>4. slot_free' # 0 => where'[slot_free'] = "free" /\ slot_free' <= slots_alloced
      BY <2>1, <2>2, <3>1, <3>3
    <3>5. ASSUME NEW m \in 1 .. slots_alloced, where'[m] = "free", next_slot'[m] # 0
          PROVE  /\ where'[next_slot'[m]] = "free" /\ next_slot'[m] <= slots_alloced
                 /\ next_slot'[m] # slot_free'
                 /\ \A i \in 1 .. slots_alloced :
                       where'[i] = "free" /\ next_slot'[i] = next_slot'[m] => i = m
      <4>1. m # slot_free /\ where[m] = "free" /\ next_slot'[m] = next_slot[m]
        BY <3>2, <3>5
      <4>2. /\ where[next_slot[m]] = "free" /\ next_slot[m] \in Slot
            /\ next_slot[m] <= slots_alloced /\ next_slot[m] # slot_free
            /\ \A i \in 1 .. slots_alloced :
                  where[i] = "free" /\ next_slot[i] = next_slot[m] => i = m
        BY <3>3, <3>5, <4>1
      <4>3. next_slot[m] # slot_free'
        BY <4>1, <4>2, <2>1, <2>2
      <4>4. where'[next_slot[m]] = "free"
        BY <4>2, <3>1
      <4>5. ASSUME NEW i \in 1 .. slots_alloced, where'[i] = "free", next_slot'[i] = next_slot'[m]
            PROVE  i = m
        <5>1. where[i] = "free" /\ next_slot[i] = next_slot[m]
          BY <4>1, <4>5, <3>2
        <5>2. QED
          BY <5>1, <4>2
      <4>6. QED
        BY <4>1, <4>2, <4>3, <4>4, <4>5
    <3>6. QED
      BY <2>1, <3>4, <3>5 DEF FreeList
  <2>7. FreeSeen'
    BY <2>1, <2>2, <1>4, <1>3, ClearedSeen
  <2>8. RoomInFile'
    BY <2>1, <1>1, <1>2, <1>3, <1>4 DEF Cleared, RoomInFile, Working
  <2>9. QED
    BY <2>3, <2>4, <2>5, <2>6, <2>7, <2>8 DEF IInv
<1>8. CASE slot_free = 0 /\ slots_alloced + 1 >= MAX_SLOTS
  <2>1. /\ died' = "out of slots"
        /\ UNCHANGED <<links, rank, slot_free, slots_alloced, size, locked, where, walk,
                       doublefrees>>
    BY <1>8 DEF speedy_slot_alloc
  <2>2. TypeOK'
    BY <2>1, <1>6, <1>3 DEF TypeOK, links
  <2>3. WalkOK' /\ FreeList' /\ FreeSeen' /\ Chain(Links, where)'
    <3>1. WalkOK'
      BY <1>3, <2>1 DEF WalkOK
    <3>2. QED
      BY <1>3, <2>1, <3>1, ListsKept DEF IInv
  <2>4. RoomInFile'
    <3>1. /\ slots_alloced' = slots_alloced /\ size' = size /\ locked' = locked
          /\ allocs' = allocs + 1
      BY <2>1, <1>1
    <3>2. slots_alloced + (MIN_SLOTS_FREE - (allocs + 1)) <= size
      BY <1>2, <1>4, <1>5
    <3>3. slots_alloced <= size /\ died' # "file too small"
      BY <2>1, <1>3 DEF RoomInFile
    <3>4. QED
      BY <3>1, <3>2, <3>3 DEF RoomInFile
  <2>5. QED
    BY <2>2, <2>3, <2>4 DEF IInv
<1>9. CASE slot_free = 0 /\ slots_alloced + 1 < MAX_SLOTS
  <2> DEFINE n == slots_alloced + 1
  <2>1. slots_alloced' = n /\ Cleared(n) /\ UNCHANGED slot_free
    <3>1. ~(n >= MAX_SLOTS \/ n > size)
      BY <1>2, <1>4, <1>5, <1>9
    <3>2. QED
      BY <3>1, <1>9 DEF speedy_slot_alloc
  <2>2. n \in Nat /\ n > slots_alloced /\ n \in Slot /\ n \notin 1 .. slots_alloced /\ 1 .. n = (1 .. slots_alloced) \cup {n}
    BY <1>2, <1>4, <1>9 DEF Slot
  <2> HIDE DEF n
  <2>3. where[n] = "free"
    BY <2>2, <1>3, <1>4 DEF FreeSeen
  <2>4. Chain(Links, where)'
    BY <2>1, <2>2, <2>3, ClearedChain
  <2>5. TypeOK'
    BY <2>1, <2>2, <1>2, <1>3, <1>6 DEF Cleared, TypeOK
  <2>6. WalkOK'
    BY <2>1, <1>1, <1>3 DEF Cleared, WalkOK, Working
  <2>7. FreeList'
    <3>1. /\ where' = [where EXCEPT ![n] = "held"]
          /\ next_slot' = [next_slot EXCEPT ![n] = 0]
          /\ where \in [Slot -> Lists \cup {"free", "held"}] /\ next_slot \in [Slot -> Nums]
      BY <2>1, <1>3 DEF Cleared, TypeOK
    <3>2. \A m \in 1 .. n : where'[m] = "free" =>
             m \in 1 .. slots_alloced /\ where[m] = "free" /\ next_slot'[m] = next_slot[m]
      BY <3>1, <2>2, <1>4
    <3>3. ASSUME NEW m \in 1 .. n, where'[m] = "free", next_slot'[m] # 0
          PROVE  /\ where'[next_slot'[m]] = "free" /\ next_slot'[m] <= n
                 /\ \A i \in 1 .. n :
                       where'[i] = "free" /\ next_slot'[i] = next_slot'[m] => i = m
      <4>1. m \in 1 .. slots_alloced /\ where[m] = "free" /\ next_slot'[m] = next_slot[m]
        BY <3>2, <3>3
      <4>2. /\ where[next_slot[m]] = "free" /\ next_slot[m] <= slots_alloced
            /\ \A i \in 1 .. slots_alloced :
                  where[i] = "free" /\ next_slot[i] = next_slot[m] => i = m
        BY <3>3, <4>1, <1>3 DEF FreeList
      <4>3. next_slot[m] \in Slot /\ next_slot[m] \in Nat
        BY <3>1, <3>3, <4>1, <1>4
      <4>4. next_slot[m] # n /\ next_slot[m] <= n
        BY <4>2, <4>3, <2>2, <1>4
      <4>5. where'[next_slot[m]] = "free"
        BY <4>2, <4>3, <4>4, <3>1
      <4>6. QED
        BY <4>1, <4>2, <4>4, <4>5, <3>2
    <3>4. QED
      BY <2>1, <3>3, <1>9 DEF FreeList
  <2>8. FreeSeen'
    BY <2>1, <2>2, <1>3, <1>4, ClearedSeen
  <2>9. RoomInFile'
    <3>1. /\ slots_alloced' = slots_alloced + 1 /\ size' = size /\ locked' = locked
          /\ died' = died /\ allocs' = allocs + 1
      BY <2>1, <1>1 DEF Cleared, n
    <3>2. (slots_alloced + 1) + (MIN_SLOTS_FREE - (allocs + 1)) <= size
      BY <1>2, <1>4, <1>5
    <3>3. QED
      BY <3>1, <3>2, <1>3, <1>5 DEF RoomInFile
  <2>10. QED
    BY <2>4, <2>5, <2>6, <2>7, <2>8, <2>9 DEF IInv
<1>10. QED
  BY <1>2, <1>4, <1>7, <1>8, <1>9

LEMMA FreeStep ==
  ASSUME IInv, NEW n \in Slot, speedy_slot_free(n)
  PROVE  IInv'
<1>1. /\ Working /\ n <= slots_alloced
      /\ where[n] = "held" \/ where[n] = "free"
      /\ where' = [where EXCEPT ![n] = "free"]
      /\ UNCHANGED <<rank, slots_alloced, size, locked, allocs, walk>>
      /\ doublefrees' = IF where[n] = "held" THEN doublefrees ELSE doublefrees + 1
  BY DEF speedy_slot_free
<1>2. TypeOK /\ WalkOK /\ FreeList /\ FreeSeen /\ RoomInFile /\ Chain(Links, where)
  BY DEF IInv
<1>3. slots_alloced \in Nat /\ 1 .. slots_alloced \subseteq Slot /\ n \in 1 .. slots_alloced
  <2>1. slots_alloced \in Nums
    BY <1>2 DEF TypeOK
  <2>2. n \in Nat /\ n >= 1
    OBVIOUS
  <2>3. QED
    BY <1>1, <2>1, <2>2, AllocedSlots
<1>4. /\ next_slot \in [Slot -> Nums] /\ prev_slot \in [Slot -> Nums]
      /\ head \in [Lists -> Nums] /\ tail \in [Lists -> Nums]
      /\ where \in [Slot -> Lists \cup {"free", "held"}]
      /\ slot_free \in Nums
  BY <1>2 DEF TypeOK
<1>5. doublefrees' \in Nat
  <2>1. doublefrees \in Nat
    BY <1>2 DEF TypeOK
  <2>2. doublefrees' = doublefrees \/ doublefrees' = doublefrees + 1
    BY <1>1
  <2>3. QED
    BY <2>1, <2>2
<1>6. WalkOK'
  BY <1>1, <1>2 DEF WalkOK, Working
<1>7. CASE where[n] = "free"
  <2>1. prev_slot[n] = n
    BY <1>2, <1>3, <1>7 DEF FreeSeen
  <2>2. died' = "freeing free slot" /\ UNCHANGED <<links, slot_free>>
    BY <2>1 DEF speedy_slot_free
  <2>3. where' = where
    BY <1>1, <1>4, <1>7
  <2>4. TypeOK'
    BY <1>1, <1>2, <1>5, <2>2, <2>3 DEF TypeOK, links
  <2>5. FreeList' /\ FreeSeen' /\ Chain(Links, where)'
    BY <1>1, <1>2, <2>2, <2>3, ListsKept
  <2>6. RoomInFile'
    BY <1>1, <1>2, <2>2 DEF RoomInFile
  <2>7. QED
    BY <1>6, <2>4, <2>5, <2>6 DEF IInv
<1>8. CASE where[n] = "held"
  <2>1. prev_slot[n] # n
    BY <1>2, <1>3, <1>8 DEF FreeSeen
  <2>2. /\ prev_slot' = [prev_slot EXCEPT ![n] = n]
        /\ next_slot' = [next_slot EXCEPT ![n] = slot_free]
        /\ slot_free' = n /\ UNCHANGED <<head, tail, died>>
    BY <2>1 DEF speedy_slot_free
  <2>3. TypeOK'
    BY <1>1, <1>2, <1>4, <1>5, <2>2 DEF TypeOK
  <2>4. Chain(Links, where)'
    <3>1. Links' \in LinksType
      BY <1>4, <2>2 DEF Links, LinksType
    <3>2. \A m \in Slot \ {n} : Links'.next[m] = Links.next[m] /\ Links'.prev[m] = Links.prev[m]
      BY <1>4, <2>2 DEF Links
    <3>3. Links'.head = Links.head /\ Links'.tail = Links.tail
      BY <2>2 DEF Links
    <3>4. Chain(Links', [where EXCEPT ![n] = "free"])
      BY <1>2, <1>8, <3>1, <3>2, <3>3, OutsideChain
    <3>5. QED
      BY <1>1, <3>4
  <2>5. FreeList'
    <3>1. \A m \in 1 .. slots_alloced : where'[m] = "free" /\ m # n =>
             where[m] = "free" /\ next_slot'[m] = next_slot[m]
      BY <1>1, <1>3, <1>4, <2>2
    <3>2. ASSUME NEW m \in 1 .. slots_alloced, where[m] = "free", next_slot[m] # 0
          PROVE  /\ where[next_slot[m]] = "free" /\ next_slot[m] \in Slot
                 /\ next_slot[m] <= slots_alloced /\ next_slot[m] # slot_free
                 /\ \A i \in 1 .. slots_alloced :
                       where[i] = "free" /\ next_slot[i] = next_slot[m] => i = m
      BY <3>2, <1>2, <1>3, <1>4 DEF FreeList
    <3>3. where'[n] = "free" /\ next_slot'[n] = slot_free
      BY <1>1, <1>4, <2>2
    <3>4. slot_free # 0 => /\ slot_free \in Slot /\ where[slot_free] = "free"
                           /\ slot_free <= slots_alloced /\ slot_free # n
                           /\ where'[slot_free] = "free"
      BY <1>1, <1>2, <1>4, <1>8 DEF FreeList
    <3>5. ASSUME NEW m \in 1 .. slots_alloced, where'[m] = "free", next_slot'[m] # 0
          PROVE  /\ where'[next_slot'[m]] = "free" /\ next_slot'[m] <= slots_alloced
                 /\ next_slot'[m] # n
      <4>1. CASE m = n
        BY <4>1, <3>3, <3>4, <3>5
      <4>2. CASE m # n
        <5>1. where[m] = "free" /\ next_slot'[m] = next_slot[m]
          BY <4>2, <3>1, <3>5
        <5>2. /\ where[next_slot[m]] = "free" /\ next_slot[m] \in Slot
              /\ next_slot[m] <= slots_alloced
          BY <5>1, <3>2, <3>5
        <5>3. next_slot[m] # n /\ where'[next_slot[m]] = "free"
          BY <5>2, <1>1, <1>4, <1>8
        <5>4. QED
          BY <5>1, <5>2, <5>3
      <4>3. QED
        BY <4>1, <4>2
    <3>6. ASSUME NEW m \in 1 .. slots_alloced, where'[m] = "free", next_slot'[m] # 0,
                 NEW i \in 1 .. slots_alloced, where'[i] = "free", next_slot'[i] = next_slot'[m]
          PROVE  i = m
      <4>1. CASE m = n \/ i = n
        <5>1. \A x \in 1 .. slots_alloced :
                 where'[x] = "free" /\ x # n /\ next_slot'[x] # 0 => next_slot'[x] # slot_free
          BY <3>1, <3>2
        <5>2. QED
          BY <4>1, <5>1, <3>3, <3>6
      <4>2. CASE m # n /\ i # n
        <5>1. /\ where[m] = "free" /\ next_slot'[m] = next_slot[m]
              /\ where[i] = "free" /\ next_slot'[i] = next_slot[i]
          BY <4>2, <3>1, <3>6
        <5>2. QED
          BY <5>1, <3>2, <3>6
      <4>3. QED
        BY <4>1, <4>2
    <3>7. slot_free' # 0 => where'[slot_free'] = "free" /\ slot_free' <= slots_alloced
      BY <1>1, <2>2, <3>3
    <3>8. slots_alloced' = slots_alloced /\ slot_free' = n
      BY <1>1, <2>2
    <3>9. QED
      BY <3>5, <3>6, <3>7, <3>8 DEF FreeList
  <2>6. FreeSeen'
    <3>1. \A m \in 1 .. slots_alloced : prev_slot'[m] = m <=> where'[m] = "free"
      BY <1>1, <1>2, <1>3, <1>4, <2>2 DEF FreeSeen
    <3>2. \A m \in Slot : where'[m] # "free" => m <= slots_alloced
      BY <1>1, <1>2, <1>4 DEF FreeSeen
    <3>3. QED
      BY <1>1, <3>1, <3>2 DEF FreeSeen
  <2>7. RoomInFile'
    BY <1>1, <1>2, <2>2 DEF RoomInFile
  <2>8. QED
    BY <1>6, <2>3, <2>4, <2>5, <2>6, <2>7 DEF IInv
<1>9. QED
  BY <1>1, <1>7, <1>8

LEMMA LockStep ==
  ASSUME IInv, file_lock \/ file_unlock
  PROVE  IInv'
<1> HIDE Numbers
<1>1. /\ UNCHANGED <<links, rank, slot_free, slots_alloced, where, walk, died, doublefrees>>
      /\ locked' \in BOOLEAN
  BY DEF file_lock, file_unlock
<1>2. /\ MIN_SLOTS_FREE \in Nat /\ FILE_ALLOC_CHUNK \in Nat /\ MaxAllocs \in Nat
      /\ MIN_SLOTS_FREE <= FILE_ALLOC_CHUNK
  BY SlotsAssumption DEF SlotsAssumption
<1>3. size \in Nat /\ allocs \in 0 .. MaxAllocs /\ slots_alloced \in Nat /\ slots_alloced <= size
      /\ died # "file too small"
  BY AllocedSlots DEF IInv, TypeOK, RoomInFile
<1>4. size' \in Nat /\ allocs' \in 0 .. MaxAllocs
  <2>1. CASE file_lock
    <3>1. size' \in {size, size + FILE_ALLOC_CHUNK} /\ allocs' = 0
      BY <2>1 DEF file_lock
    <3>2. size \in Nat /\ FILE_ALLOC_CHUNK \in Nat
      BY <1>2, <1>3
    <3>3. size' \in Nat
      BY <3>1, <3>2
    <3>4. QED
      BY <3>1, <3>3, <1>2
  <2>2. CASE file_unlock
    BY <2>2, <1>3 DEF file_unlock
  <2>3. QED
    BY <2>1, <2>2
<1>5. TypeOK'
  BY <1>1, <1>4 DEF IInv, TypeOK, links
<1>6. WalkOK' /\ FreeList' /\ FreeSeen' /\ Chain(Links, where)'
  BY <1>1 DEF IInv, WalkOK, FreeList, FreeSeen, links, Links
<1>7. RoomInFile'
  <2>1. CASE file_lock
    <3>1. allocs' = 0 /\ slots_alloced' = slots_alloced /\ died' = died
      BY <2>1 DEF file_lock
    <3>2. size' = IF size < slots_alloced + MIN_SLOTS_FREE THEN size + FILE_ALLOC_CHUNK ELSE size
      BY <2>1 DEF file_lock
    <3>3. slots_alloced <= size' /\ slots_alloced + (MIN_SLOTS_FREE - 0) <= size'
      <4>1. /\ size \in Nat /\ slots_alloced \in Nat /\ slots_alloced <= size
            /\ MIN_SLOTS_FREE \in Nat /\ FILE_ALLOC_CHUNK \in Nat
            /\ MIN_SLOTS_FREE <= FILE_ALLOC_CHUNK
        BY <1>2, <1>3
      <4>2. CASE size < slots_alloced + MIN_SLOTS_FREE
        <5>1. size' = size + FILE_ALLOC_CHUNK
          BY <4>2, <3>2
        <5>2. QED
          BY <5>1, <4>1
      <4>3. CASE ~(size < slots_alloced + MIN_SLOTS_FREE)
        <5>1. size' = size
          BY <4>3, <3>2
        <5>2. QED
          BY <5>1, <4>1, <4>3
      <4>4. QED
        BY <4>2, <4>3
    <3>4. QED
      BY <3>1, <3>3, <1>3 DEF RoomInFile
  <2>2. CASE file_unlock
    BY <2>2, <1>1, <1>3 DEF file_unlock, RoomInFile
  <2>3. QED
    BY <2>1, <2>2
<1>8. QED
  BY <1>5, <1>6, <1>7 DEF IInv

LEMMA InvStep == IInv /\ [Next]_vars => IInv'
<1> SUFFICES ASSUME IInv, [Next]_vars PROVE IInv'
  OBVIOUS
<1>1. CASE file_lock \/ file_unlock
  BY <1>1, LockStep
<1>2. CASE speedy_slot_alloc
  BY <1>2, AllocStep
<1>3. CASE SortedNext \/ SortedEnd
  BY <1>3, SortedNextStep, SortedEndStep
<1>4. ASSUME NEW n \in Slot, speedy_slot_free(n) PROVE IInv'
  BY <1>4, FreeStep
<1>5. ASSUME NEW n \in Slot, NEW l \in Lists,
             \/ speedy_slot_remove(n, l) \/ speedy_slot_insert(n, l) \/ speedy_slot_append(n, l)
             \/ speedy_slot_move_head(n, l) \/ speedy_slot_move_tail(n, l)
      PROVE  IInv'
  BY <1>5, RemoveStep, InsertStep, AppendStep, MoveHeadStep, MoveTailStep
<1>6. ASSUME NEW n \in Slot, NEW l \in Lists, NEW r \in Ranks, SortedBegin(n, l, r) PROVE IInv'
  BY <1>6, SortedBeginStep
<1>7. CASE UNCHANGED vars
  <2>1. UNCHANGED <<next_slot, prev_slot, rank, head, tail, slot_free, slots_alloced, size, locked,
                    allocs, where, walk, died, doublefrees>>
    BY <1>7 DEF vars, links
  <2>2. TypeOK'
    BY <2>1 DEF IInv, TypeOK
  <2>3. WalkOK' /\ FreeSeen' /\ RoomInFile'
    BY <2>1 DEF IInv, WalkOK, FreeSeen, RoomInFile
  <2>4. FreeList'
    BY <2>1 DEF IInv, FreeList
  <2>5. Links' = Links /\ where' = where
    BY <2>1 DEF Links
  <2>6. QED
    BY <2>2, <2>3, <2>4, <2>5 DEF IInv
<1>8. QED
  BY <1>1, <1>2, <1>3, <1>4, <1>5, <1>6, <1>7 DEF Next

LEMMA Invariant == Spec => []IInv
  BY InvInit, InvStep, PTL DEF Spec

-----------------------------------------------------------------------------
(* The theorems *)

\* Types.
THEOREM TypeCorrect == Spec => []TypeOK
<1>1. IInv => TypeOK
  BY DEF IInv
<1>2. QED
  BY <1>1, Invariant, PTL

\* Whatever the order of the operations, however many slots and lists there are,
\* the links of a list agree with each other and with its ends.
THEOREM ListsWellLinked == Spec => []WellLinked
<1>1. IInv => WellLinked
  <2> SUFFICES ASSUME IInv, NEW l \in Lists
               PROVE  /\ head[l] # 0 => where[head[l]] = l
                      /\ \A n \in Slot : where[n] = l =>
                           /\ prev_slot[n] # n
                           /\ next_slot[n] # 0 => /\ where[next_slot[n]] = l
                                                 /\ prev_slot[next_slot[n]] = n
                           /\ prev_slot[n] # 0 => /\ where[prev_slot[n]] = l
                                                 /\ next_slot[prev_slot[n]] = n
                           /\ prev_slot[n] = 0 <=> head[l] = n
                           /\ l \notin Singly => (next_slot[n] = 0 <=> tail[l] = n)
                      /\ l \notin Singly /\ tail[l] # 0 => where[tail[l]] = l
                      /\ walk.list = l => /\ walk.slot # 0 /\ where[walk.slot] = "held"
                                          /\ l \notin Singly
                                          /\ walk.before # 0 => where[walk.before] = l
    BY DEF WellLinked
  <2>1. Linked(Links, where, l)
    BY DEF IInv, Chain
  <2>2. \A n \in Slot : where[n] = l => prev_slot[n] # n
    BY DEF IInv, Chain, Links
  <2>3. walk.list = l => /\ walk.slot # 0 /\ where[walk.slot] = "held" /\ l \notin Singly
                         /\ walk.before # 0 => where[walk.before] = l
    BY DEF IInv, WalkOK
  <2>4. QED
    BY <2>1, <2>2, <2>3 DEF Linked, Links
<1>2. QED
  BY <1>1, Invariant, PTL

\* The free list holds free slots only, each once.
THEOREM FreeListHoldsTheFree == Spec => []FreeList
<1>1. IInv => FreeList
  BY DEF IInv
<1>2. QED
  BY <1>1, Invariant, PTL

\* speedy_slot_free knows a free slot from one in use.
THEOREM DoubleFreesAreSeen == Spec => []FreeSeen
<1>1. IInv => FreeSeen
  BY DEF IInv
<1>2. QED
  BY <1>1, Invariant, PTL

\* A process that has the file locked finds room for every slot it allocates.
THEOREM MinSlotsFreeSuffice == Spec => []RoomInFile
<1>1. IInv => RoomInFile
  BY DEF IInv
<1>2. QED
  BY <1>1, Invariant, PTL

=============================================================================
