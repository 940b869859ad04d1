------------------------------ MODULE Induction -----------------------------
(***************************************************************************)
(* Induction, for a set in place of a property: a set that contains 0 and  *)
(* with n also n + 1 contains all natural numbers, and a set that contains *)
(* the empty sequence and with l also Append(l, e) contains all sequences. *)
(* Then loops: f[i] is what there is after i turns.                        *)
(***************************************************************************)
EXTENDS Integers, Sequences, SequenceTheorems, WellFoundedInduction, TLAPS

\* Every set of natural numbers has a least element.
LEMMA LeastNat ==
  ASSUME NEW T, T \subseteq Nat, T # {}
  PROVE  \E x \in T : \A y \in T : x <= y
<1>1. PICK R : R = OpToRel(<, Nat)
  OBVIOUS
<1>2. IsWellFoundedOn(R, Nat)
  BY <1>1, NatLessThanWellFounded
<1>3. PICK x \in T : \A y \in T : ~(<<y, x>> \in R)
  BY <1>2, WFMin
<1>4. R = {ss \in Nat \X Nat : ss[1] < ss[2]}
  BY <1>1 DEF OpToRel
<1>5. ASSUME NEW y \in T PROVE x <= y
  <2>1. x \in Nat /\ y \in Nat
    OBVIOUS
  <2>2. SUFFICES ASSUME y < x PROVE FALSE
    BY <2>1
  <2>3. PICK p : p = <<y, x>>
    OBVIOUS
  <2>4. p \in Nat \X Nat /\ p[1] = y /\ p[2] = x
    BY <2>1, <2>3
  <2>5. p \in R
    BY <1>4, <2>2, <2>4
  <2>. QED
    BY <1>3, <2>3, <2>5
<1>. QED
  BY <1>5

\* Induction over the natural numbers.
LEMMA NatInd ==
  ASSUME NEW S, 0 \in S, \A n \in Nat : n \in S => n + 1 \in S
  PROVE  Nat \subseteq S
<1>1. SUFFICES ASSUME Nat \ S # {} PROVE FALSE
  OBVIOUS
<1>2. PICK x \in Nat \ S : \A y \in Nat \ S : x <= y
  BY <1>1, LeastNat
<1>3. x # 0
  BY <1>2
<1>4. x - 1 \in Nat /\ ~(x <= x - 1)
  BY <1>2, <1>3
<1>5. x - 1 \in S
  BY <1>2, <1>4
<1>6. (x - 1) + 1 \in S
  BY <1>4, <1>5
<1>. QED
  BY <1>2, <1>6

\* Induction over sequences.
LEMMA SeqInd ==
  ASSUME NEW S, NEW X, << >> \in X,
         \A l \in Seq(S) : l \in X => \A e \in S : Append(l, e) \in X
  PROVE  Seq(S) \subseteq X
<1> DEFINE T == {n \in Nat : \A l \in Seq(S) : Len(l) = n => l \in X}
<1>1. 0 \in T
  <2>1. \A l \in Seq(S) : Len(l) = 0 => l = << >>
    OBVIOUS
  <2>. QED
    BY <2>1
<1>2. ASSUME NEW n \in Nat, n \in T PROVE n + 1 \in T
  <2>1. SUFFICES ASSUME NEW l \in Seq(S), Len(l) = n + 1 PROVE l \in X
    BY <1>2
  <2>2. PICK k \in Seq(S), e \in S : l = Append(k, e)
    BY <1>2, <2>1, SequenceEmptyOrAppend
  <2>3. Len(k) = n
    BY <1>2, <2>1, <2>2
  <2>. QED
    BY <1>2, <2>2, <2>3
<1> HIDE DEF T
<1>3. Nat \subseteq T
  BY <1>1, <1>2, NatInd
<1>4. ASSUME NEW l \in Seq(S) PROVE l \in X
  <2>1. Len(l) \in T
    BY <1>3
  <2>. QED
    BY <2>1 DEF T
<1>. QED
  BY <1>4

-----------------------------------------------------------------------------
(* Loops                                                                   *)

Turns(turn, n, V) == turn \in [1 .. n -> [V -> V]]

Loop(f, n, V, start, turn) ==
  f \in [0 .. n -> V] /\ f[0] = start /\ \A i \in 1 .. n : f[i] = turn[i][f[i - 1]]

\* A loop of n turns comes to an end, if each turn leads from V to V.
LEMMA LoopEnds ==
  ASSUME NEW V, NEW n \in Nat, NEW start \in V, NEW turn, Turns(turn, n, V)
  PROVE  \E f : Loop(f, n, V, start, turn)
<1> DEFINE OK(f, k) == f[0] = start /\ \A i \in 1 .. k : f[i] = turn[i][f[i - 1]]
           T == {k \in Nat : k <= n => \E f \in [0 .. k -> V] : OK(f, k)}
<1>1. 0 \in T
  <2>1. PICK f : f = [i \in 0 .. 0 |-> start]
    OBVIOUS
  <2>2. f \in [0 .. 0 -> V] /\ OK(f, 0)
    BY <2>1
  <2>. QED
    BY <2>2
<1>2. ASSUME NEW k \in Nat, k \in T PROVE k + 1 \in T
  <2>1. SUFFICES ASSUME k + 1 <= n PROVE \E f \in [0 .. k + 1 -> V] : OK(f, k + 1)
    <3> HIDE DEF OK
    <3>. QED
      OBVIOUS
  <2>2. PICK f \in [0 .. k -> V] : OK(f, k)
    <3> HIDE DEF OK
    <3>. QED
      BY <1>2, <2>1
  <2>3. PICK e \in V : e = turn[k + 1][f[k]]
    <3>1. k + 1 \in 1 .. n /\ f[k] \in V
      BY <2>1
    <3>. QED
      BY <3>1 DEF Turns
  <2>4. PICK h : h = [i \in 0 .. k + 1 |-> IF i = k + 1 THEN e ELSE f[i]]
    OBVIOUS
  <2>5. h \in [0 .. k + 1 -> V]
    BY <2>4
  <2>6. h[0] = start /\ h[k + 1] = e /\ \A i \in 0 .. k : h[i] = f[i]
    BY <2>2, <2>4
  <2>7. ASSUME NEW i \in 1 .. k + 1 PROVE h[i] = turn[i][h[i - 1]]
    <3>1. CASE i = k + 1
      BY <2>3, <2>6, <3>1
    <3>2. CASE i # k + 1
      <4>1. i \in 1 .. k /\ i \in 0 .. k /\ i - 1 \in 0 .. k
        BY <3>2
      <4>. QED
        BY <2>2, <2>6, <4>1
    <3>. QED
      BY <3>1, <3>2
  <2>. QED
    BY <2>5, <2>6, <2>7
<1> HIDE DEF T
<1>3. n \in T
  BY <1>1, <1>2, NatInd
<1>. QED
  BY <1>3 DEF T, Loop

\* A loop stays in V, if each turn does.
LEMMA LoopStays ==
  ASSUME NEW V, NEW n \in Nat, NEW f, f[0] \in V,
         \A i \in 1 .. n : f[i - 1] \in V => f[i] \in V
  PROVE  \A i \in 0 .. n : f[i] \in V
<1> DEFINE T == {i \in Nat : i <= n => f[i] \in V}
<1>1. 0 \in T
  OBVIOUS
<1>2. ASSUME NEW i \in Nat, i \in T PROVE i + 1 \in T
  <2>1. SUFFICES ASSUME i + 1 <= n PROVE f[i + 1] \in V
    OBVIOUS
  <2>2. i + 1 \in 1 .. n /\ (i + 1) - 1 = i /\ f[i] \in V
    BY <1>2, <2>1
  <2>. QED
    BY <2>2
<1> HIDE DEF T
<1>3. Nat \subseteq T
  BY <1>1, <1>2, NatInd
<1>. QED
  BY <1>3 DEF T

\* Two loops that go on alike are at the same value after every turn.
LEMMA LoopsAgree ==
  ASSUME NEW n \in Nat, NEW f, NEW h, f[0] = h[0],
         \A i \in 1 .. n : f[i - 1] = h[i - 1] => f[i] = h[i]
  PROVE  \A k \in 0 .. n : f[k] = h[k]
<1> DEFINE T == {k \in Nat : k <= n => f[k] = h[k]}
<1>1. 0 \in T
  OBVIOUS
<1>2. ASSUME NEW k \in Nat, k \in T PROVE k + 1 \in T
  <2>1. SUFFICES ASSUME k + 1 <= n PROVE f[k + 1] = h[k + 1]
    OBVIOUS
  <2>2. k + 1 \in 1 .. n /\ (k + 1) - 1 = k /\ f[k] = h[k]
    BY <1>2, <2>1
  <2>. QED
    BY <2>2
<1> HIDE DEF T
<1>3. Nat \subseteq T
  BY <1>1, <1>2, NatInd
<1>. QED
  BY <1>3 DEF T
=============================================================================
