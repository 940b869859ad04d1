--------------------------- MODULE FrontendIOProofs ---------------------------
(***************************************************************************)
(* The invariants of FrontendIO, for all sizes of the buffers, the sockets *)
(* and the pipes, and all requests: IInv is inductive and implies them.    *)
(***************************************************************************)
EXTENDS FrontendIO, CopyBufProofs

-----------------------------------------------------------------------------
(* The script's own bytes in a sequence *)

LEMMA OwnIs ==
  ASSUME NEW s \in Seq(Int)
  PROVE  \A k : k \in Own(s) <=> k \in 1 .. Len(s) /\ s[k] \notin {ByKid, Wants, Not}
  BY DEF Own

LEMMA OwnAt ==
  ASSUME NEW s \in Seq(Int), NEW l, Len(s) = l
  PROVE  /\ l \in Nat
         /\ \A k \in Own(s) : k \in 1 .. l /\ s[k] \notin {ByKid, Wants, Not}
         /\ \A k \in 1 .. l : s[k] \notin {ByKid, Wants, Not} => k \in Own(s)
  BY OwnIs

LEMMA Appended ==
  ASSUME NEW s \in Seq(Int), NEW v \in Int, NEW l, Len(s) = l
  PROVE  /\ Append(s, v) \in Seq(Int) /\ l \in Nat /\ Len(Append(s, v)) = l + 1
         /\ Append(s, v)[l + 1] = v
         /\ \A k \in 1 .. l : Append(s, v)[k] = s[k]
<1>1. /\ Append(s, v) \in Seq(Int) /\ Len(Append(s, v)) = Len(s) + 1
      /\ \A k \in 1 .. Len(s) : Append(s, v)[k] = s[k]
      /\ Append(s, v)[Len(s) + 1] = v
  BY AppendProperties
<1>2. Len(s) \in Nat
  OBVIOUS
<1>3. QED
  BY <1>1, <1>2

\* What comes before k in s is 1 .. s[k] - 1.
Before(s, k) ==
  /\ \A j \in Own(s) : j < k => s[j] \in 1 .. s[k] - 1
  /\ \A v \in 1 .. s[k] - 1 : \E j \in Own(s) : j < k /\ s[j] = v

LEMMA BeforeIs ==
  ASSUME NEW s, NEW k
  PROVE  {s[j] : j \in {i \in Own(s) : i < k}} = 1 .. s[k] - 1 <=> Before(s, k)
<1> DEFINE A == {s[j] : j \in {i \in Own(s) : i < k}}
           B == 1 .. s[k] - 1
<1>1. A = B <=> \A v : v \in A <=> v \in B
  OBVIOUS
<1>2. \A v : v \in A <=> \E j \in Own(s) : j < k /\ s[j] = v
  OBVIOUS
<1> HIDE DEF A
<1>3. QED
  BY <1>1, <1>2 DEF Before

LEMMA BeginsIs ==
  ASSUME NEW s, NEW n
  PROVE  Begins(s, n) <=> \A k \in Own(s) : s[k] \in 1 .. n /\ Before(s, k)
  BY BeforeIs DEF Begins

\* Two sequences with the same bytes of the script
LEMMA SameOwn ==
  ASSUME NEW s, NEW u, Own(s) = Own(u), \A k \in Own(s) : u[k] = s[k], NEW n
  PROVE  Whole(s, n) <=> Whole(u, n)
<1>1. ASSUME NEW k \in Own(s) PROVE Before(s, k) <=> Before(u, k)
  BY DEF Before
<1>2. Begins(s, n) <=> Begins(u, n)
  BY <1>1, BeginsIs
<1>3. QED
  BY <1>2 DEF Whole

LEMMA BeginsMore ==
  ASSUME NEW s, NEW n \in Nat, Begins(s, n)
  PROVE  Begins(s, n + 1)
  BY DEF Begins

\* A part at the front
LEMMA BeginsFront ==
  ASSUME NEW s \in Seq(Int), NEW t \in Seq(Int), NEW n, Begins(s \o t, n)
  PROVE  Begins(s, n)
<1>1. PICK u, l, m : u = s \o t /\ l = Len(s) /\ m = Len(t)
  OBVIOUS
<1>2. /\ u \in Seq(Int) /\ l \in Nat /\ m \in Nat /\ Len(u) = l + m
      /\ \A k \in 1 .. l + m : u[k] = IF k <= l THEN s[k] ELSE t[k - l]
  BY <1>1, Concat
<1>3. \A k \in 1 .. l : k \in 1 .. l + m /\ u[k] = s[k]
  BY <1>2
<1>4. ASSUME NEW k \in Own(s) PROVE s[k] \in 1 .. n /\ Before(s, k)
  <2>1. ASSUME NEW j \in Own(s) PROVE j \in 1 .. l /\ j \in Own(u) /\ u[j] = s[j]
    <3>1. j \in 1 .. l /\ s[j] \notin {ByKid, Wants, Not}
      BY <1>1, OwnAt
    <3>2. j \in 1 .. l + m /\ u[j] = s[j]
      BY <1>3, <3>1
    <3>3. QED
      BY <1>2, <3>1, <3>2, OwnAt
  <2>2. u[k] \in 1 .. n /\ Before(u, k)
    BY <1>1, <2>1, BeginsIs
  <2>3. ASSUME NEW j \in Own(u), j < k PROVE j \in Own(s) /\ u[j] = s[j]
    <3>1. j \in 1 .. l + m /\ u[j] \notin {ByKid, Wants, Not}
      BY <1>2, OwnAt
    <3>2. j \in 1 .. l /\ u[j] = s[j]
      <4>1. k \in 1 .. l
        BY <2>1
      <4>2. j \in 1 .. l
        BY <1>2, <2>3, <3>1, <4>1
      <4>3. QED
        BY <1>3, <4>2
    <3>3. QED
      BY <1>1, <3>1, <3>2, OwnAt
  <2>4. ASSUME NEW j \in Own(s) PROVE j \in Own(u) /\ u[j] = s[j]
    BY <2>1
  <2>5. QED
    BY <2>1, <2>2, <2>3, <2>4 DEF Before
<1>5. QED
  BY <1>4, BeginsIs

\* One more byte of the script
LEMMA WholeNext ==
  ASSUME NEW s \in Seq(Int), NEW n \in Nat, Whole(s, n)
  PROVE  Whole(Append(s, n + 1), n + 1)
<1>1. PICK u, l : u = Append(s, n + 1) /\ l = Len(s)
  OBVIOUS
<1>2. /\ u \in Seq(Int) /\ l \in Nat /\ Len(u) = l + 1 /\ u[l + 1] = n + 1
      /\ \A k \in 1 .. l : u[k] = s[k]
  BY <1>1, Appended
<1>3. \A k : k \in Own(u) <=> k \in Own(s) \/ k = l + 1
  <2>1. n + 1 \notin {ByKid, Wants, Not} /\ l + 1 \in 1 .. l + 1
    BY <1>2 DEF ByKid, Wants, Not
  <2>2. ASSUME NEW k \in Own(u) PROVE k \in Own(s) \/ k = l + 1
    <3>1. k \in 1 .. l + 1 /\ u[k] \notin {ByKid, Wants, Not}
      BY <1>2, OwnAt
    <3>2. k = l + 1 \/ (k \in 1 .. l /\ u[k] = s[k])
      BY <1>2, <3>1
    <3>3. QED
      BY <1>1, <3>1, <3>2, OwnAt
  <2>3. ASSUME NEW k \in Own(s) PROVE k \in Own(u)
    <3>1. k \in 1 .. l /\ s[k] \notin {ByKid, Wants, Not}
      BY <1>1, OwnAt
    <3>2. k \in 1 .. l + 1 /\ u[k] = s[k]
      BY <1>2, <3>1
    <3>3. QED
      BY <1>2, <3>1, <3>2, OwnAt
  <2>4. l + 1 \in Own(u)
    BY <1>2, <2>1, OwnAt
  <2>5. QED
    BY <2>2, <2>3, <2>4
<1>4. \A k \in Own(s) : k \in 1 .. l /\ u[k] = s[k]
  BY <1>1, <1>2, OwnAt
<1>5. ASSUME NEW k \in Own(s) PROVE s[k] \in 1 .. n /\ Before(s, k)
  BY BeginsIs DEF Whole
<1>6. ASSUME NEW v \in 1 .. n PROVE \E k \in Own(s) : s[k] = v
  BY DEF Whole
<1>7. ASSUME NEW k \in Own(u) PROVE u[k] \in 1 .. n + 1 /\ Before(u, k)
  <2>1. CASE k \in Own(s)
    <3>1. k \in 1 .. l /\ u[k] = s[k] /\ s[k] \in 1 .. n /\ Before(s, k)
      BY <1>4, <1>5, <2>1
    <3>2. ASSUME NEW j \in Own(u), j < k PROVE j \in Own(s) /\ u[j] = s[j]
      BY <1>2, <1>3, <1>4, <3>1, <3>2
    <3>3. ASSUME NEW j \in Own(s) PROVE j \in Own(u) /\ u[j] = s[j]
      BY <1>3, <1>4
    <3>4. Before(u, k)
      BY <3>1, <3>2, <3>3 DEF Before
    <3>5. QED
      BY <3>1, <3>4
  <2>2. CASE k = l + 1
    <3>1. u[k] = n + 1 /\ u[k] - 1 = n
      BY <1>2, <2>2
    <3>2. ASSUME NEW j \in Own(u), j < k PROVE u[j] \in 1 .. n
      BY <1>2, <1>3, <1>4, <1>5, <2>2, <3>2
    <3>3. ASSUME NEW v \in 1 .. n PROVE \E j \in Own(u) : j < k /\ u[j] = v
      <4>1. PICK j \in Own(s) : s[j] = v
        BY <1>6
      <4>2. QED
        BY <1>2, <1>3, <1>4, <2>2, <4>1
    <3>4. QED
      BY <3>1, <3>2, <3>3 DEF Before
  <2>3. QED
    BY <1>3, <2>1, <2>2
<1>8. ASSUME NEW v \in 1 .. n + 1 PROVE \E k \in Own(u) : u[k] = v
  <2>1. CASE v = n + 1
    BY <1>2, <1>3, <2>1
  <2>2. CASE v # n + 1
    <3>1. v \in 1 .. n
      BY <2>2
    <3>2. QED
      BY <1>3, <1>4, <1>6, <3>1
  <2>3. QED
    BY <2>1, <2>2
<1>9. QED
  BY <1>1, <1>7, <1>8, BeginsIs DEF Whole

\* A byte that is not the script's own
LEMMA WholeOther ==
  ASSUME NEW s \in Seq(Int), NEW n, Whole(s, n), NEW v \in {ByKid, Wants, Not}
  PROVE  Whole(Append(s, v), n)
<1>1. PICK u, l : u = Append(s, v) /\ l = Len(s)
  OBVIOUS
<1>2. v \in Int
  BY DEF ByKid, Wants, Not
<1>3. /\ u \in Seq(Int) /\ l \in Nat /\ Len(u) = l + 1 /\ u[l + 1] = v
      /\ \A k \in 1 .. l : u[k] = s[k]
  BY <1>1, <1>2, Appended
<1>4. ASSUME NEW k \in Own(u) PROVE k \in Own(s)
  <2>1. k \in 1 .. l + 1 /\ u[k] \notin {ByKid, Wants, Not}
    BY <1>3, OwnAt
  <2>2. k \in 1 .. l /\ u[k] = s[k]
    BY <1>3, <2>1
  <2>3. QED
    BY <1>1, <2>1, <2>2, OwnAt
<1>5. ASSUME NEW k \in Own(s) PROVE k \in Own(u) /\ u[k] = s[k]
  <2>1. k \in 1 .. l /\ s[k] \notin {ByKid, Wants, Not}
    BY <1>1, OwnAt
  <2>2. k \in 1 .. l + 1 /\ u[k] = s[k]
    BY <1>3, <2>1
  <2>3. QED
    BY <1>3, <2>1, <2>2, OwnAt
<1>6. Own(s) = Own(u)
  BY <1>4, <1>5
<1>7. QED
  BY <1>1, <1>5, <1>6, SameOwn

\* A rest without bytes of the script
LEMMA WholeRest ==
  ASSUME NEW s \in Seq(Int), NEW t \in Seq(Int), NEW n, Whole(s \o t, n),
         \A k \in DOMAIN t : t[k] \in {ByKid, Wants, Not}
  PROVE  Whole(s, n)
<1>1. PICK u, l, m : u = s \o t /\ l = Len(s) /\ m = Len(t)
  OBVIOUS
<1>2. /\ u \in Seq(Int) /\ l \in Nat /\ m \in Nat /\ Len(u) = l + m
      /\ \A k \in 1 .. l + m : u[k] = IF k <= l THEN s[k] ELSE t[k - l]
  BY <1>1, Concat
<1>3. \A k \in 1 .. m : t[k] \in {ByKid, Wants, Not}
  <2>1. DOMAIN t = 1 .. m
    BY <1>1
  <2>2. QED
    BY <2>1
<1>4. ASSUME NEW k \in Own(u) PROVE k \in Own(s)
  <2>1. k \in 1 .. l + m /\ u[k] \notin {ByKid, Wants, Not}
    BY <1>2, OwnAt
  <2>2. ASSUME k > l PROVE FALSE
    <3>1. k - l \in 1 .. m /\ u[k] = t[k - l]
      BY <1>2, <2>1, <2>2
    <3>2. QED
      BY <1>3, <2>1, <3>1
  <2>3. k \in 1 .. l /\ u[k] = s[k]
    BY <1>2, <2>1, <2>2
  <2>4. QED
    BY <1>1, <2>1, <2>3, OwnAt
<1>5. ASSUME NEW k \in Own(s) PROVE k \in Own(u) /\ u[k] = s[k]
  <2>1. k \in 1 .. l /\ s[k] \notin {ByKid, Wants, Not}
    BY <1>1, OwnAt
  <2>2. k \in 1 .. l + m /\ u[k] = s[k]
    BY <1>2, <2>1
  <2>3. QED
    BY <1>2, <2>1, <2>2, OwnAt
<1>6. Own(s) = Own(u)
  BY <1>4, <1>5
<1>7. QED
  BY <1>1, <1>5, <1>6, SameOwn

\* A first byte that is not the script's own
LEMMA WholeTail ==
  ASSUME NEW s \in Seq(Int), s # << >>, NEW n, Whole(s, n), s[1] \in {ByKid, Wants, Not}
  PROVE  Whole(Tail(s), n)
<1>1. PICK u, l : u = Tail(s) /\ l = Len(s)
  OBVIOUS
<1>2. /\ u \in Seq(Int) /\ l \in Nat /\ Len(u) = l - 1
      /\ \A k \in 1 .. l - 1 : u[k] = s[k + 1]
  BY <1>1, HeadTailProperties
<1>3. ASSUME NEW k \in Own(s) PROVE k \in Int /\ k - 1 \in Own(u) /\ u[k - 1] = s[k]
  <2>1. k \in 1 .. l /\ s[k] \notin {ByKid, Wants, Not}
    BY <1>1, OwnAt
  <2>2. k # 1
    BY <2>1
  <2>3. k - 1 \in 1 .. l - 1 /\ (k - 1) + 1 = k
    BY <1>2, <2>1, <2>2
  <2>4. u[k - 1] = s[k]
    BY <1>2, <2>3
  <2>5. k - 1 \in Own(u)
    BY <1>2, <2>1, <2>3, <2>4, OwnAt
  <2>6. QED
    BY <2>1, <2>4, <2>5
<1>4. ASSUME NEW k \in Own(u) PROVE k \in Int /\ k + 1 \in Own(s) /\ u[k] = s[k + 1]
  <2>1. k \in 1 .. l - 1 /\ u[k] \notin {ByKid, Wants, Not}
    BY <1>2, OwnAt
  <2>2. k + 1 \in 1 .. l /\ u[k] = s[k + 1]
    BY <1>2, <2>1
  <2>3. QED
    BY <1>1, <2>1, <2>2, OwnAt
<1>5. ASSUME NEW k \in Own(s) PROVE s[k] \in 1 .. n /\ Before(s, k)
  BY BeginsIs DEF Whole
<1>6. ASSUME NEW k \in Own(u) PROVE u[k] \in 1 .. n /\ Before(u, k)
  <2>1. k \in Int /\ k + 1 \in Own(s) /\ u[k] = s[k + 1] /\ s[k + 1] \in 1 .. n /\ Before(s, k + 1)
    BY <1>4, <1>5
  <2>2. ASSUME NEW j \in Own(u), j < k PROVE u[j] \in 1 .. u[k] - 1
    <3>1. j \in Int /\ j + 1 \in Own(s) /\ u[j] = s[j + 1] /\ j + 1 < k + 1
      BY <1>4, <2>1, <2>2
    <3>2. s[j + 1] \in 1 .. s[k + 1] - 1
      BY <2>1, <3>1 DEF Before
    <3>3. QED
      BY <2>1, <3>1, <3>2
  <2>3. ASSUME NEW v \in 1 .. u[k] - 1 PROVE \E j \in Own(u) : j < k /\ u[j] = v
    <3>1. PICK j \in Own(s) : j < k + 1 /\ s[j] = v
      BY <2>1 DEF Before
    <3>2. j \in Int /\ j - 1 \in Own(u) /\ u[j - 1] = v /\ j - 1 < k
      BY <1>3, <2>1, <3>1
    <3>3. QED
      BY <3>2
  <2>4. Before(u, k)
    BY <2>2, <2>3 DEF Before
  <2>5. QED
    BY <2>1, <2>4
<1>7. ASSUME NEW v \in 1 .. n PROVE \E k \in Own(u) : u[k] = v
  <2>1. PICK k \in Own(s) : s[k] = v
    BY DEF Whole
  <2>2. k - 1 \in Own(u) /\ u[k - 1] = v
    BY <1>3, <2>1
  <2>3. QED
    BY <2>2
<1>8. QED
  BY <1>1, <1>6, <1>7, BeginsIs DEF Whole

-----------------------------------------------------------------------------
(* Sequences cut and joined *)

AllIn(s, V) == \A k \in DOMAIN s : s[k] \in V

LEMMA Cut ==
  ASSUME NEW s \in Seq(Int), NEW l, Len(s) = l, NEW n \in 0 .. l
  PROVE  /\ SubSeq(s, 1, n) \in Seq(Int) /\ SubSeq(s, n + 1, l) \in Seq(Int)
         /\ l \in Nat /\ Len(SubSeq(s, 1, n)) = n /\ Len(SubSeq(s, n + 1, l)) = l - n
         /\ \A k \in 1 .. n : SubSeq(s, 1, n)[k] = s[k]
         /\ \A k \in 1 .. l - n : SubSeq(s, n + 1, l)[k] = s[n + k]
         /\ SubSeq(s, 1, n) \o SubSeq(s, n + 1, l) = s
<1>1. l \in Nat /\ n \in Nat /\ \A k \in 1 .. l : s[k] \in Int
  OBVIOUS
<1>2. /\ SubSeq(s, 1, n) \in Seq(Int)
      /\ Len(SubSeq(s, 1, n)) = IF 1 <= n THEN n - 1 + 1 ELSE 0
      /\ \A k \in 1 .. n - 1 + 1 : SubSeq(s, 1, n)[k] = s[1 + k - 1]
  <2>1. 1 \in Int /\ n \in Int /\ \A k \in 1 .. n : s[k] \in Int
    BY <1>1
  <2>2. QED
    BY <2>1, SubSeqProperties
<1>3. /\ SubSeq(s, n + 1, l) \in Seq(Int)
      /\ Len(SubSeq(s, n + 1, l)) = IF n + 1 <= l THEN l - (n + 1) + 1 ELSE 0
      /\ \A k \in 1 .. l - (n + 1) + 1 : SubSeq(s, n + 1, l)[k] = s[(n + 1) + k - 1]
  <2>1. n + 1 \in Int /\ l \in Int /\ \A k \in n + 1 .. l : s[k] \in Int
    BY <1>1
  <2>2. QED
    BY <2>1, SubSeqProperties
<1>4. SubSeq(s, 1, n) \o SubSeq(s, n + 1, l) = s
  <2>1. 1 \in 1 .. l + 1 /\ n \in 1 - 1 .. l /\ l \in n .. l
    BY <1>1
  <2>2. SubSeq(s, 1, n) \o SubSeq(s, n + 1, l) = SubSeq(s, 1, l)
    BY <2>1, ConcatAdjacentSubSeq
  <2>3. SubSeq(s, 1, l) = s
    BY SubSeqFull
  <2>4. QED
    BY <2>2, <2>3
<1>5. Len(SubSeq(s, 1, n)) = n /\ Len(SubSeq(s, n + 1, l)) = l - n
  BY <1>1, <1>2, <1>3
<1>6. ASSUME NEW k \in 1 .. n PROVE SubSeq(s, 1, n)[k] = s[k]
  <2>1. k \in 1 .. n - 1 + 1 /\ 1 + k - 1 = k
    BY <1>1
  <2>2. QED
    BY <1>2, <2>1
<1>7. ASSUME NEW k \in 1 .. l - n PROVE SubSeq(s, n + 1, l)[k] = s[n + k]
  <2>1. k \in 1 .. l - (n + 1) + 1 /\ (n + 1) + k - 1 = n + k
    BY <1>1
  <2>2. QED
    BY <1>3, <2>1
<1>8. QED
  BY <1>1, <1>2, <1>3, <1>4, <1>5, <1>6, <1>7

LEMMA Regrouped ==
  ASSUME NEW l \in Seq(Int), NEW x \in Seq(Int), NEW y \in Seq(Int)
  PROVE  (l \o x) \o y = l \o (x \o y) /\ l \o x \in Seq(Int)
<1>1. (l \o x) \o y = l \o (x \o y)
  BY ConcatAssociative
<1>2. l \o x \in Seq(Int)
  BY ConcatProperties
<1>3. QED
  BY <1>1, <1>2

\* From the front of h \o t to the end of d
HandsOver(l, d, h, t) == l \o (d \o h) \o t = l \o d \o (h \o t)

LEMMA MovedBack ==
  ASSUME NEW l \in Seq(Int), NEW d \in Seq(Int), NEW h \in Seq(Int), NEW t \in Seq(Int)
  PROVE  HandsOver(l, d, h, t)
<1>1. (l \o d) \o h = l \o (d \o h) /\ l \o d \in Seq(Int)
  BY Regrouped
<1>2. PICK u : u = l \o d
  OBVIOUS
<1>3. (u \o h) \o t = u \o (h \o t)
  <2>1. u \in Seq(Int)
    BY <1>1, <1>2
  <2>2. QED
    BY <2>1, Regrouped
<1>4. QED
  BY <1>1, <1>2, <1>3 DEF HandsOver

LEMMA OneMoved ==
  ASSUME NEW l \in Seq(Int), NEW s \in Seq(Int), s # << >>
  PROVE  Append(l, Head(s)) \o Tail(s) = l \o s
<1>1. PICK h, t : h = Head(s) /\ t = Tail(s)
  OBVIOUS
<1>2. PICK m : m = Len(s)
  OBVIOUS
<1>3. /\ m \in Nat /\ m >= 1 /\ h \in Int /\ h = s[1] /\ t \in Seq(Int) /\ Len(t) = m - 1
      /\ \A k \in 1 .. m - 1 : t[k] = s[k + 1]
  <2>1. m \in Nat /\ m >= 1 /\ h = s[1]
    BY <1>1, <1>2
  <2>2. h \in Int /\ t \in Seq(Int) /\ Len(t) = m - 1 /\ \A k \in 1 .. m - 1 : t[k] = s[k + 1]
    BY <1>1, <1>2, HeadTailProperties
  <2>3. QED
    BY <2>1, <2>2
<1>4. <<h>> \in Seq(Int) /\ Len(<<h>>) = 1 /\ <<h>>[1] = h
  BY <1>3
<1>5. <<h>> \o t = s
  <2>1. PICK u : u = <<h>> \o t
    OBVIOUS
  <2>2. /\ u \in Seq(Int) /\ Len(u) = 1 + (m - 1)
        /\ \A k \in 1 .. 1 + (m - 1) : u[k] = IF k <= 1 THEN <<h>>[k] ELSE t[k - 1]
    BY <1>3, <1>4, <2>1, Concat
  <2>3. ASSUME NEW k \in 1 .. m PROVE u[k] = s[k]
    <3>1. k \in 1 .. 1 + (m - 1)
      BY <1>3
    <3>2. CASE k = 1
      BY <1>3, <1>4, <2>2, <3>1, <3>2
    <3>3. CASE k # 1
      <4>1. k - 1 \in 1 .. m - 1 /\ (k - 1) + 1 = k /\ ~(k <= 1)
        BY <1>3, <3>3
      <4>2. u[k] = t[k - 1]
        BY <2>2, <3>1, <4>1
      <4>3. QED
        BY <1>3, <4>1, <4>2
    <3>4. QED
      BY <3>2, <3>3
  <2>4. Len(u) = Len(s)
    BY <1>2, <1>3, <2>2
  <2>5. QED
    BY <1>2, <2>1, <2>2, <2>3, <2>4, SeqEqual
<1>6. Append(l, h) = l \o <<h>>
  BY <1>3, AppendIsConcat
<1>7. (l \o <<h>>) \o t = l \o (<<h>> \o t)
  BY <1>3, <1>4, ConcatAssociative
<1>8. QED
  BY <1>1, <1>5, <1>6, <1>7

LEMMA ConcatAppend ==
  ASSUME NEW l \in Seq(Int), NEW s \in Seq(Int), NEW v \in Int
  PROVE  l \o Append(s, v) = Append(l \o s, v)
<1>1. Append(s, v) = s \o <<v>> /\ <<v>> \in Seq(Int)
  BY AppendIsConcat
<1>2. l \o s \in Seq(Int)
  BY ConcatProperties
<1>3. Append(l \o s, v) = (l \o s) \o <<v>>
  BY <1>2, AppendIsConcat
<1>4. (l \o s) \o <<v>> = l \o (s \o <<v>>)
  BY <1>1, ConcatAssociative
<1>5. QED
  BY <1>1, <1>3, <1>4

LEMMA AllInAt ==
  ASSUME NEW s \in Seq(Int), NEW l, Len(s) = l, NEW V
  PROVE  AllIn(s, V) <=> \A k \in 1 .. l : s[k] \in V
  BY DEF AllIn

LEMMA AllInEmpty ==
  ASSUME NEW V PROVE AllIn(<< >>, V)
  BY DEF AllIn

LEMMA AllInConcat ==
  ASSUME NEW s \in Seq(Int), NEW t \in Seq(Int), NEW V, AllIn(s, V), AllIn(t, V)
  PROVE  AllIn(s \o t, V)
<1>1. PICK u, l, m : u = s \o t /\ l = Len(s) /\ m = Len(t)
  OBVIOUS
<1>2. /\ u \in Seq(Int) /\ l \in Nat /\ m \in Nat /\ Len(u) = l + m
      /\ \A k \in 1 .. l + m : u[k] = IF k <= l THEN s[k] ELSE t[k - l]
  BY <1>1, Concat
<1>3. (\A k \in 1 .. l : s[k] \in V) /\ (\A k \in 1 .. m : t[k] \in V)
  BY <1>1, AllInAt
<1>4. ASSUME NEW k \in 1 .. l + m PROVE u[k] \in V
  <2>1. CASE k <= l
    <3>1. k \in 1 .. l
      BY <1>2, <2>1
    <3>2. QED
      BY <1>2, <1>3, <2>1, <3>1
  <2>2. CASE k > l
    <3>1. k - l \in 1 .. m /\ ~(k <= l)
      BY <1>2, <2>2
    <3>2. QED
      BY <1>2, <1>3, <3>1
  <2>3. QED
    BY <1>2, <2>1, <2>2
<1>5. QED
  BY <1>1, <1>2, <1>4, AllInAt

LEMMA AllInCut ==
  ASSUME NEW s \in Seq(Int), NEW l, Len(s) = l, NEW n \in 0 .. l, NEW V, AllIn(s, V)
  PROVE  AllIn(SubSeq(s, 1, n), V) /\ AllIn(SubSeq(s, n + 1, l), V)
<1>1. PICK x, y : x = SubSeq(s, 1, n) /\ y = SubSeq(s, n + 1, l)
  OBVIOUS
<1>2. /\ x \in Seq(Int) /\ y \in Seq(Int) /\ l \in Nat /\ Len(x) = n /\ Len(y) = l - n
      /\ \A k \in 1 .. n : x[k] = s[k]
      /\ \A k \in 1 .. l - n : y[k] = s[n + k]
  BY <1>1, Cut
<1>3. \A k \in 1 .. l : s[k] \in V
  BY AllInAt
<1>4. ASSUME NEW k \in 1 .. n PROVE x[k] \in V
  <2>1. k \in 1 .. l
    BY <1>2
  <2>2. QED
    BY <1>2, <1>3, <2>1
<1>5. ASSUME NEW k \in 1 .. l - n PROVE y[k] \in V
  <2>1. n + k \in 1 .. l
    BY <1>2
  <2>2. QED
    BY <1>2, <1>3, <2>1
<1>6. QED
  BY <1>1, <1>2, <1>4, <1>5, AllInAt

LEMMA AllInAppend ==
  ASSUME NEW s \in Seq(Int), NEW v \in Int, NEW V, v \in V, AllIn(s, V)
  PROVE  AllIn(Append(s, v), V)
<1>1. PICK u, l : u = Append(s, v) /\ l = Len(s)
  OBVIOUS
<1>2. /\ u \in Seq(Int) /\ l \in Nat /\ Len(u) = l + 1 /\ u[l + 1] = v
      /\ \A k \in 1 .. l : u[k] = s[k]
  BY <1>1, Appended
<1>3. \A k \in 1 .. l : s[k] \in V
  BY <1>1, AllInAt
<1>4. ASSUME NEW k \in 1 .. l + 1 PROVE u[k] \in V
  <2>1. k = l + 1 \/ k \in 1 .. l
    BY <1>2
  <2>2. QED
    BY <1>2, <1>3, <2>1
<1>5. QED
  BY <1>1, <1>2, <1>4, AllInAt

\* The bytes of stdin in order
LEMMA StreamGrows ==
  ASSUME NEW m \in Nat, NEW a \in Nat, NEW n \in 0 .. a
  PROVE  /\ [k \in 1 .. a |-> (m + 1) + k - 1] \in Seq(Int)
         /\ Len([k \in 1 .. a |-> (m + 1) + k - 1]) = a
         /\ Stream(m) \o SubSeq([k \in 1 .. a |-> (m + 1) + k - 1], 1, n) = Stream(m + n)
<1>1. PICK in : in = [k \in 1 .. a |-> (m + 1) + k - 1]
  OBVIOUS
<1>2. in \in Seq(Int) /\ Len(in) = a /\ \A k \in 1 .. a : in[k] = m + k
  <2>1. \A k \in 1 .. a : (m + 1) + k - 1 \in Int /\ (m + 1) + k - 1 = m + k
    OBVIOUS
  <2>2. QED
    BY <1>1, <2>1
<1>3. PICK x : x = SubSeq(in, 1, n)
  OBVIOUS
<1>4. x \in Seq(Int) /\ Len(x) = n /\ \A k \in 1 .. n : x[k] = m + k
  <2>1. x \in Seq(Int) /\ Len(x) = n /\ \A k \in 1 .. n : x[k] = in[k]
    BY <1>2, <1>3, Cut
  <2>2. QED
    BY <1>2, <2>1
<1>5. PICK s : s = Stream(m)
  OBVIOUS
<1>6. s \in Seq(Int) /\ Len(s) = m /\ \A k \in 1 .. m : s[k] = k
  BY <1>5 DEF Stream
<1>7. PICK f : f = Stream(m + n)
  OBVIOUS
<1>8. OnFirst(f, m + n) /\ (\A k \in 1 .. m : f[k] = s[k]) /\ (\A k \in 1 .. n : f[m + k] = x[k])
  <2>1. f = [k \in 1 .. m + n |-> k]
    BY <1>7 DEF Stream
  <2>2. OnFirst(f, m + n)
    BY <2>1 DEF OnFirst
  <2>3. \A k \in 1 .. m : k \in 1 .. m + n /\ f[k] = k
    BY <2>1
  <2>4. \A k \in 1 .. n : m + k \in 1 .. m + n /\ f[m + k] = m + k
    BY <2>1
  <2>5. QED
    BY <1>4, <1>6, <2>2, <2>3, <2>4
<1>9. f = s \o x
  BY <1>4, <1>6, <1>8, Joined
<1>10. QED
  BY <1>1, <1>2, <1>3, <1>5, <1>7, <1>9
-----------------------------------------------------------------------------
(* The inductive invariant *)

Ends == {"r", "w"}
Fds == (0 .. 3) \X Ends

\* The frontend, with C the set that its copy buffers are in
FeShape(C) ==
  [ pc : {"io", "check", "ack", "poll", "end"}, i : Bufs,
    do_read : BOOLEAN, do_write : BOOLEAN, cb : [Bufs -> C], ready : SUBSET Fds,
    got_stdout : BOOLEAN, stop_sock_reads : BOOLEAN, read_stopped : SUBSET Bufs,
    backend_exited : BOOLEAN, am_child : BOOLEAN, got_sig : BOOLEAN, sig_pipe : Int,
    closed : SUBSET Fds ]

IsFe(f) == \E C : f \in FeShape(C)

Over == {"finished", "died", "error"}
Early == {"header", "proto", "cwd"}

Types ==
  /\ IsFe(fe) /\ ended \in BOOLEAN /\ sig \in BOOLEAN
  /\ be \in [pc : Early \cup {"script"} \cup Over, open : SUBSET Bufs, got : Seq(Int),
             wrote : [Outputs -> Nat]]
  /\ kid \in [open : SUBSET Bufs, wrote : BOOLEAN]
  /\ status \in {"none", "posted", "gone"}
  /\ sock \in [Bufs -> Seq(Int)] /\ Len(sock[0]) <= SockSize
  /\ src \in [left : Nat, avail : Nat, next : Nat \ {0}, eof : BOOLEAN]
  /\ sink \in [Outputs -> [room : Nat, log : Seq(Int), reader : BOOLEAN]]
  /\ load \in [closed : SUBSET Bufs, nin : Nat, nout : [Outputs -> Nat], odd : Nat]

Buffers == \A b \in Bufs : IsCb(fe.cb[b], MaxSz[b])

\* In the loop for a buffer there is something to read or write there.
Turn(f) ==
  f.pc = "io" =>
    /\ f.do_read \/ f.do_write
    /\ f.do_read => my_canread(f, f.i)
    /\ f.do_write => cb_canwrite(f.cb[f.i])

\* What is closed is done with.
DoneWith(f) ==
  \A b \in Bufs :
    /\ <<b, "r">> \in f.closed =>
          f.cb[b].eof \/ (f.cb[b].write_err /\ (b # 1 \/ f.got_stdout))
    /\ <<b, "w">> \in f.closed =>
          f.cb[b].write_err \/ (f.cb[b].eof /\ cb_data_len(f.cb[b]) = 0)

\* There is something in the signal pipe when it is read.
Woke(f) ==
  ~f.backend_exited /\ (f.got_sig \/ SigFd \in f.ready \/ f.pc = "check") => f.sig_pipe >= 1

Signals ==
  /\ Woke(fe)
  /\ fe.pc = "ack" => fe.sig_pipe >= 1
  /\ status = "none" => ~sig
  /\ status = "none" \/ sig => fe.sig_pipe <= 1
  /\ fe.sig_pipe \in 0 .. 3

Lives ==
  /\ fe.backend_exited => status # "none"
  /\ fe.pc = "end" \/ ended \/ fe.stop_sock_reads => fe.backend_exited
  /\ status # "none" => be.pc \in Over
  /\ be.pc \in Over => be.open = {}
  /\ be.pc \in Early => /\ be.open = Bufs /\ kid.open = {} /\ ~kid.wrote
                        /\ \A b \in Outputs : be.wrote[b] = 0
  /\ be.pc = "error" => fe.cb[2].write_err

\* Stdin, up to the next byte, is with the backend, in its socket, or in the
\* buffer; the rest is lost if the backend does not read.
Input ==
  \E rest \in Seq(Int) :
    /\ be.got \o sock[0] \o Data(fe.cb[0].circ) \o rest = Stream(src.next - 1)
    /\ ~fe.cb[0].write_err => rest = << >>

\* The end of a socket is seen when nobody holds it and nothing is in it.
Eofs == \A b \in Outputs : fe.cb[b].eof => ~Held(b) /\ sock[b] = << >>

Markers == {Wants, Not}
Clean(s) == AllIn(s, Int \ Markers)
NoOwn(s) == AllIn(s, {ByKid, Wants, Not})

Output ==
  \A b \in Outputs :
    /\ IF fe.cb[b].write_err THEN Begins(sink[b].log, be.wrote[b])
                             ELSE Whole(Carried(b), be.wrote[b])
    /\ Clean(sink[b].log) /\ Clean(Data(fe.cb[b].circ))
    /\ b = 2 \/ fe.got_stdout => Clean(sock[b])

\* The byte for proto2 is the first on stdout.
First ==
  /\ be.pc \in {"header", "proto"} => ~fe.got_stdout /\ sock[1] = << >>
  /\ ~fe.got_stdout =>
       /\ cb_data_len(fe.cb[1]) = 0 /\ sink[1].log = << >>
       /\ be.pc \in {"cwd", "script"} \/ kid.open # {} => sock[1] # << >>
       /\ sock[1] # << >> => sock[1][1] \in Markers /\ Clean(Tail(sock[1]))

\* After the backend's end the sockets are read until they have nothing.
Emptied ==
  /\ fe.backend_exited /\ ~fe.am_child /\ fe.pc \notin {"ack", "end"} => fe.stop_sock_reads
  /\ \A b \in Outputs :
       /\ fe.stop_sock_reads /\ b \in fe.read_stopped => NoOwn(sock[b])
       /\ ended => fe.cb[b].write_err \/ (NoOwn(Data(fe.cb[b].circ)) /\ NoOwn(sock[b]))

IInv ==
  /\ Types /\ Buffers /\ Turn(fe) /\ DoneWith(fe) /\ Signals /\ Lives
  /\ Input /\ Eofs /\ Output /\ First /\ Emptied

-----------------------------------------------------------------------------
(* The steps of the loops: try_close, Resume, Continue *)

SameBufs(f, g) ==
  /\ g.cb = f.cb /\ g.got_stdout = f.got_stdout
  /\ g.stop_sock_reads = f.stop_sock_reads /\ g.read_stopped = f.read_stopped
  /\ g.backend_exited = f.backend_exited /\ g.am_child = f.am_child

\* f and g differ in where they are in the loops.
SameState(f, g) == SameBufs(f, g) /\ g.got_sig = f.got_sig /\ g.sig_pipe = f.sig_pipe

LEMMA FeFields ==
  ASSUME NEW f, IsFe(f)
  PROVE  /\ f.pc \in {"io", "check", "ack", "poll", "end"} /\ f.i \in Bufs
         /\ f.do_read \in BOOLEAN /\ f.do_write \in BOOLEAN
         /\ f.ready \subseteq Fds /\ f.closed \subseteq Fds /\ f.read_stopped \subseteq Bufs
         /\ f.got_stdout \in BOOLEAN /\ f.stop_sock_reads \in BOOLEAN
         /\ f.backend_exited \in BOOLEAN /\ f.am_child \in BOOLEAN /\ f.got_sig \in BOOLEAN
         /\ f.sig_pipe \in Int
<1>1. PICK C : f \in FeShape(C)
  BY DEF IsFe
<1>2. QED
  BY <1>1 DEF FeShape

LEMMA SameReads ==
  ASSUME NEW f, NEW g, SameBufs(f, g), NEW b
  PROVE  my_canread(g, b) = my_canread(f, b)
  BY DEF SameBufs, my_canread

LEMMA Polls ==
  ASSUME NEW f, IsFe(f), NEW g, g = ToPoll(f)
  PROVE  IsFe(g) /\ SameState(f, g) /\ g.closed = f.closed /\ g.pc = "poll" /\ g.ready = {}
<1>1. PICK C : f \in FeShape(C)
  BY DEF IsFe
<1>2. g \in FeShape(C)
  <2>1. 0 \in Bufs
    BY DEF Bufs
  <2>2. QED
    BY <1>1, <2>1 DEF FeShape, ToPoll
<1>3. SameState(f, g) /\ g.closed = f.closed /\ g.pc = "poll" /\ g.ready = {}
  BY <1>1 DEF FeShape, ToPoll, SameState, SameBufs
<1>4. QED
  BY <1>2, <1>3 DEF IsFe

LEMMA LeastOf ==
  ASSUME NEW S, S \subseteq 0 .. 2, S # {}
  PROVE  \E j \in S : \A l \in S : j <= l
<1>1. CASE 0 \in S
  BY <1>1
<1>2. CASE 0 \notin S /\ 1 \in S
  BY <1>2
<1>3. CASE 0 \notin S /\ 1 \notin S
  <2>1. \A l \in S : l = 2
    BY <1>3
  <2>2. PICK x : x \in S
    OBVIOUS
  <2>3. QED
    BY <2>1, <2>2
<1>4. QED
  BY <1>1, <1>2, <1>3

\* Where Resume(f, b) goes
Resumes(f, g) ==
  /\ IsFe(g) /\ SameState(f, g) /\ g.closed = f.closed
  /\ g.pc \in {"io", "check", "poll"} /\ Turn(g)
  /\ g.pc = "check" => f.backend_exited \/ f.got_sig \/ SigFd \in f.ready
  /\ g.ready \subseteq f.ready

LEMMA Resumed ==
  ASSUME NEW f, IsFe(f), NEW b \in 0 .. 3, NEW g, g = Resume(f, b)
  PROVE  Resumes(f, g)
<1>1. PICK C : f \in FeShape(C)
  BY DEF IsFe
<1> DEFINE todo == {k \in b .. 2 : do_read(f, k) \/ do_write(f, k)}
           k    == CHOOSE j \in todo : \A l \in todo : j <= l
<1>2. CASE todo = {}
  <2>1. CASE f.backend_exited \/ f.got_sig \/ SigFd \in f.ready
    <3>1. g = [f EXCEPT !.pc = "check", !.i = 0, !.ready = {}]
      BY <1>2, <2>1 DEF Resume
    <3>2. g \in FeShape(C)
      <4>1. 0 \in Bufs
        BY DEF Bufs
      <4>2. QED
        BY <1>1, <3>1, <4>1 DEF FeShape
    <3>3. SameState(f, g) /\ g.closed = f.closed /\ g.pc = "check" /\ g.ready = {}
      BY <1>1, <3>1 DEF FeShape, SameState, SameBufs
    <3>4. QED
      BY <2>1, <3>2, <3>3 DEF IsFe, Turn, Resumes
  <2>2. CASE ~(f.backend_exited \/ f.got_sig \/ SigFd \in f.ready)
    <3>1. g = ToPoll(f)
      BY <1>2, <2>2 DEF Resume
    <3>2. QED
      BY <3>1, Polls DEF Turn, Resumes
  <2>3. QED
    BY <2>1, <2>2
<1>3. CASE todo # {}
  <2>1. k \in todo
    <3>1. todo \subseteq 0 .. 2
      OBVIOUS
    <3> HIDE DEF todo
    <3>2. \E j \in todo : \A l \in todo : j <= l
      BY <1>3, <3>1, LeastOf
    <3>3. QED
      BY <3>2
  <2>2. PICK n : n = k
    OBVIOUS
  <2>3. n \in Bufs /\ (do_read(f, n) \/ do_write(f, n))
    BY <2>1, <2>2 DEF Bufs
  <2>4. PICK r \in BOOLEAN, w \in BOOLEAN : r = do_read(f, n) /\ w = do_write(f, n)
    BY DEF do_read, do_write
  <2>5. g = [f EXCEPT !.pc = "io", !.i = n, !.do_read = r, !.do_write = w]
    BY <1>3, <2>2, <2>4 DEF Resume
  <2>6. g \in FeShape(C)
    BY <1>1, <2>3, <2>4, <2>5 DEF FeShape
  <2>7. /\ SameState(f, g) /\ g.closed = f.closed /\ g.pc = "io" /\ g.ready = f.ready
        /\ g.i = n /\ g.do_read = r /\ g.do_write = w
    BY <1>1, <2>5 DEF FeShape, SameState, SameBufs
  <2>8. r => my_canread(g, n)
    <3>1. my_canread(g, n) = my_canread(f, n)
      BY <2>7, SameReads DEF SameState
    <3>2. QED
      BY <2>4, <3>1 DEF do_read
  <2>9. w => cb_canwrite(g.cb[n])
    BY <2>4, <2>7 DEF do_write, SameState, SameBufs
  <2>10. r \/ w
    BY <2>3, <2>4
  <2>11. Turn(g)
    BY <2>7, <2>8, <2>9, <2>10 DEF Turn
  <2>12. QED
    BY <2>6, <2>7, <2>11 DEF IsFe, Resumes
<1>4. QED
  BY <1>2, <1>3

LEMMA StillDone ==
  ASSUME NEW f, NEW g, g.cb = f.cb, g.got_stdout = f.got_stdout, g.closed = f.closed,
         DoneWith(f)
  PROVE  DoneWith(g)
  BY DEF DoneWith

LEMMA Closes ==
  ASSUME NEW f, IsFe(f), NEW b \in Bufs, NEW g, g = try_close(f, b), DoneWith(f)
  PROVE  /\ IsFe(g) /\ SameState(f, g) /\ DoneWith(g)
         /\ g.pc = f.pc /\ g.i = f.i /\ g.ready = f.ready
         /\ g.do_read = f.do_read /\ g.do_write = f.do_write
<1>1. PICK C : f \in FeShape(C)
  BY DEF IsFe
<1>2. CASE my_copydone(f, b)
  <2>1. PICK both : both = {<<b, "r">>, <<b, "w">>}
    OBVIOUS
  <2>2. g = [f EXCEPT !.closed = @ \cup both]
    BY <1>2, <2>1 DEF try_close
  <2>3. both \subseteq Fds
    BY <2>1 DEF Fds, Ends, Bufs
  <2>4. g \in FeShape(C)
    BY <1>1, <2>2, <2>3 DEF FeShape
  <2>5. /\ SameState(f, g) /\ g.closed = f.closed \cup both
        /\ g.pc = f.pc /\ g.i = f.i /\ g.ready = f.ready
        /\ g.do_read = f.do_read /\ g.do_write = f.do_write
    BY <1>1, <2>2 DEF FeShape, SameState, SameBufs
  <2>6. g.cb = f.cb /\ g.got_stdout = f.got_stdout
    BY <2>5 DEF SameState, SameBufs
  <2>7. ASSUME NEW k \in Bufs, <<k, "r">> \in g.closed
        PROVE  g.cb[k].eof \/ (g.cb[k].write_err /\ (k # 1 \/ g.got_stdout))
    <3>1. <<k, "r">> \in f.closed \/ k = b
      BY <2>1, <2>5, <2>7
    <3>2. QED
      BY <1>2, <2>6, <3>1 DEF DoneWith, my_copydone, cb_copydone
  <2>8. ASSUME NEW k \in Bufs, <<k, "w">> \in g.closed
        PROVE  g.cb[k].write_err \/ (g.cb[k].eof /\ cb_data_len(g.cb[k]) = 0)
    <3>1. <<k, "w">> \in f.closed \/ k = b
      BY <2>1, <2>5, <2>8
    <3>2. QED
      BY <1>2, <2>6, <3>1 DEF DoneWith, my_copydone, cb_copydone
  <2>9. QED
    BY <2>4, <2>5, <2>7, <2>8 DEF IsFe, DoneWith
<1>3. CASE ~my_copydone(f, b)
  BY <1>3 DEF try_close, SameState, SameBufs
<1>4. QED
  BY <1>2, <1>3

\* Where Continue(f) goes
GoesOn(f, g) ==
  /\ IsFe(g) /\ SameState(f, g) /\ DoneWith(g)
  /\ g.pc \in {"io", "check", "poll"} /\ Turn(g)
  /\ g.pc = "check" => f.backend_exited \/ f.got_sig \/ SigFd \in f.ready
  /\ g.ready \subseteq f.ready

LEMMA Continues ==
  ASSUME NEW f, IsFe(f), f.pc = "io", DoneWith(f),
         f.do_read => my_canread(f, f.i), f.do_write => cb_canwrite(f.cb[f.i]),
         Continue(f)
  PROVE  GoesOn(f, fe')
<1>1. f.i \in Bufs
  BY FeFields
<1>2. CASE f.do_read \/ f.do_write
  <2>1. fe' = f
    BY <1>2 DEF Continue
  <2>2. Turn(f) /\ SameState(f, f)
    BY <1>2 DEF Turn, SameState, SameBufs
  <2>3. QED
    BY <2>1, <2>2 DEF GoesOn
<1>3. CASE ~(f.do_read \/ f.do_write)
  <2>1. PICK g : g = try_close(f, f.i) /\ fe' = Resume(g, g.i + 1)
    BY <1>3 DEF Continue
  <2>2. /\ IsFe(g) /\ SameState(f, g) /\ DoneWith(g)
        /\ g.pc = f.pc /\ g.i = f.i /\ g.ready = f.ready
    BY <1>1, <2>1, Closes
  <2>3. g.i + 1 \in 0 .. 3
    BY <1>1, <2>2 DEF Bufs
  <2>4. Resumes(g, fe')
    BY <2>1, <2>2, <2>3, Resumed
  <2>5. DoneWith(fe')
    BY <2>2, <2>4, StillDone DEF Resumes, SameState, SameBufs
  <2>6. SameState(f, fe')
    BY <2>2, <2>4 DEF Resumes, SameState, SameBufs
  <2>7. QED
    BY <2>2, <2>4, <2>5, <2>6 DEF Resumes, GoesOn, SameState, SameBufs
<1>4. QED
  BY <1>2, <1>3

LEMMA StillWoke ==
  ASSUME NEW f, NEW g, GoesOn(f, g), Woke(f), f.pc # "check", ~f.backend_exited
  PROVE  Woke(g)
  BY DEF GoesOn, Woke, SameState, SameBufs

-----------------------------------------------------------------------------
(* Steps of the others *)

LEMMA BufFacts ==
  /\ Outputs \subseteq Bufs /\ 0 \in Bufs /\ 1 \in Outputs /\ 2 \in Outputs /\ 0 \notin Outputs
  /\ \A b \in Bufs : b = 0 \/ b \in Outputs
  /\ \A b \in Outputs : b = 1 \/ b = 2
  BY DEF Bufs, Outputs

\* The fields of the variables
LEMMA Typed ==
  ASSUME Types
  PROVE  /\ be.pc \in Early \cup {"script"} \cup Over /\ be.open \subseteq Bufs
         /\ be.got \in Seq(Int) /\ be.wrote \in [Outputs -> Nat]
         /\ kid.open \subseteq Bufs /\ kid.wrote \in BOOLEAN
         /\ \A b \in Bufs : sock[b] \in Seq(Int)
         /\ src.left \in Nat /\ src.avail \in Nat /\ src.next \in Nat \ {0}
         /\ src.eof \in BOOLEAN
         /\ \A b \in Outputs : sink[b].room \in Nat /\ sink[b].log \in Seq(Int)
         /\ load.odd \in Nat
  BY DEF Types

LEMMA CarriedAppend ==
  ASSUME Types, Buffers, NEW b \in Outputs, NEW v \in Int
  PROVE  /\ Carried(b) \in Seq(Int)
         /\ sink[b].log \o Data(fe.cb[b].circ) \o Append(sock[b], v) = Append(Carried(b), v)
<1>1. PICK l, d, s : l = sink[b].log /\ d = Data(fe.cb[b].circ) /\ s = sock[b]
  OBVIOUS
<1>2. l \in Seq(Int) /\ s \in Seq(Int)
  BY <1>1, Typed, BufFacts
<1>3. d \in Seq(Int)
  <2>1. MaxSz[b] \in Nat /\ IsCb(fe.cb[b], MaxSz[b])
    BY BufFacts, FrontendIOAssumption DEF Buffers
  <2>2. QED
    BY <1>1, <2>1, CbFacts
<1>4. PICK ld : ld = l \o d
  OBVIOUS
<1>5. ld \in Seq(Int)
  BY <1>2, <1>3, <1>4, ConcatProperties
<1>6. ld \o Append(s, v) = Append(ld \o s, v) /\ ld \o s \in Seq(Int)
  BY <1>2, <1>5, ConcatAppend, ConcatProperties
<1>7. QED
  BY <1>1, <1>4, <1>6 DEF Carried

\* While the backend lives, the frontend has not seen its end.
LEMMA Alive ==
  ASSUME Lives, be.pc \notin Over
  PROVE  status = "none" /\ ~fe.backend_exited /\ ~fe.stop_sock_reads /\ ~ended /\ fe.pc # "end"
  BY DEF Lives

LEMMA LoadStep ==
  ASSUME Types, Odd
  PROVE  load' \in [closed : SUBSET Bufs, nin : Nat, nout : [Outputs -> Nat], odd : Nat]
<1>1. load.odd \in Nat /\ load.odd > 0
  BY Typed DEF Odd
<1>2. load.odd - 1 \in Nat
  BY <1>1
<1>3. QED
  BY <1>2 DEF Types, Odd

LEMMA BeReadStep ==
  ASSUME IInv, BeRead
  PROVE  IInv'
<1>1. /\ Types /\ Buffers /\ Turn(fe) /\ DoneWith(fe) /\ Signals /\ Lives
      /\ Input /\ Eofs /\ Output /\ First /\ Emptied
  BY DEF IInv
<1>2. /\ be.pc \in {"header", "script"}
      /\ be'.open = be.open /\ be'.wrote = be.wrote
      /\ be'.got = Append(be.got, Head(sock[0]))
      /\ be'.pc = be.pc \/ (be.pc = "header" /\ be'.pc = "proto")
      /\ sock[0] # << >> /\ sock'[0] = Tail(sock[0])
      /\ sock'[1] = sock[1] /\ \A b \in Outputs : sock'[b] = sock[b]
      /\ UNCHANGED <<fe, ended, sig, kid, status, cwd, src, sink, load>>
  BY <1>1, BufFacts DEF BeRead, Types
<1>3. Types'
  <2>1. PICK l : l = Len(sock[0])
    OBVIOUS
  <2>2. /\ Head(sock[0]) \in Int /\ Tail(sock[0]) \in Seq(Int) /\ Len(Tail(sock[0])) = l - 1
        /\ l \in Nat
    BY <1>1, <1>2, <2>1, Typed, BufFacts, HeadTailProperties
  <2>3. Append(be.got, Head(sock[0])) \in Seq(Int)
    BY <1>1, <2>2, Typed, AppendProperties
  <2>4. be' \in [pc : Early \cup {"script"} \cup Over, open : SUBSET Bufs, got : Seq(Int),
                 wrote : [Outputs -> Nat]]
    BY <1>1, <2>3 DEF BeRead, Types, Early
  <2>5. sock' \in [Bufs -> Seq(Int)]
    BY <1>1, <2>2 DEF BeRead, Types
  <2>6. l <= SockSize /\ SockSize \in Nat
    BY <1>1, <2>1, FrontendIOAssumption DEF Types
  <2>7. Len(sock'[0]) <= SockSize
    BY <1>2, <2>2, <2>6
  <2>8. QED
    BY <1>1, <1>2, <2>4, <2>5, <2>7 DEF Types
<1>4. Buffers' /\ Turn(fe)' /\ DoneWith(fe)'
  BY <1>1, <1>2 DEF Buffers, Turn, DoneWith
<1>5. Signals'
  BY <1>1, <1>2 DEF Signals
<1>6. Lives'
  BY <1>1, <1>2 DEF Lives, Early, Over
<1>7. Input'
  <2>1. PICK g, s, d : g = be.got /\ s = sock[0] /\ d = Data(fe.cb[0].circ)
    OBVIOUS
  <2>2. g \in Seq(Int) /\ s \in Seq(Int) /\ s # << >>
    BY <1>1, <1>2, <2>1, Typed, BufFacts
  <2>3. Append(g, Head(s)) \o Tail(s) = g \o s
    BY <2>2, OneMoved
  <2>4. be'.got \o sock'[0] = be.got \o sock[0]
    BY <1>2, <2>1, <2>3
  <2>5. QED
    BY <1>1, <1>2, <2>4 DEF Input
<1>8. Eofs'
  BY <1>1, <1>2 DEF Eofs, Held
<1>9. Output'
  BY <1>1, <1>2 DEF Output, Carried
<1>10. First'
  BY <1>1, <1>2 DEF First
<1>11. Emptied'
  BY <1>1, <1>2 DEF Emptied
<1>12. QED
  BY <1>3, <1>4, <1>5, <1>6, <1>7, <1>8, <1>9, <1>10, <1>11 DEF IInv

LEMMA BeProto2Step ==
  ASSUME IInv, BeProto2
  PROVE  IInv'
<1>1. /\ Types /\ Buffers /\ Turn(fe) /\ DoneWith(fe) /\ Signals /\ Lives
      /\ Input /\ Eofs /\ Output /\ First /\ Emptied
  BY DEF IInv
<1>2. /\ be.pc = "proto" /\ be'.pc \in {"script", "cwd"}
      /\ be'.open = be.open /\ be'.wrote = be.wrote /\ be'.got = be.got
      /\ \E v \in Markers : sock'[1] = Append(sock[1], v)
      /\ \A b \in Bufs : b # 1 => sock'[b] = sock[b]
      /\ UNCHANGED <<fe, ended, sig, kid, status, cwd, src, sink, load>>
  <2>1. \E v \in Markers : sock' = [sock EXCEPT ![1] = Append(@, v)]
    BY DEF BeProto2, Markers
  <2>2. \E v \in Markers : sock'[1] = Append(sock[1], v)
    BY <1>1, <2>1, BufFacts DEF Types
  <2>3. \A b \in Bufs : b # 1 => sock'[b] = sock[b]
    BY <1>1, <2>1 DEF Types
  <2>4. /\ be.pc = "proto" /\ be'.pc \in {"script", "cwd"}
        /\ be'.open = be.open /\ be'.wrote = be.wrote /\ be'.got = be.got
        /\ UNCHANGED <<fe, ended, sig, kid, status, cwd, src, sink, load>>
    BY <1>1 DEF BeProto2, Types
  <2>5. QED
    BY <2>2, <2>3, <2>4
<1>3. PICK v \in Markers : v \in Int /\ sock'[1] = Append(sock[1], v)
  BY <1>2 DEF Markers, Wants, Not
<1>4. status = "none" /\ ~fe.backend_exited /\ ~fe.stop_sock_reads /\ ~ended
  BY <1>1, <1>2, Alive DEF Over
<1>5. Types'
  <2>1. ASSUME NEW x \in Markers PROVE Append(sock[1], x) \in Seq(Int)
    <3>1. x \in Int /\ sock[1] \in Seq(Int)
      BY <1>1, <2>1, Typed, BufFacts DEF Markers, Wants, Not
    <3>2. QED
      BY <3>1, AppendProperties
  <2>2. sock' \in [Bufs -> Seq(Int)]
    <3>1. PICK x \in Markers : sock' = [sock EXCEPT ![1] = Append(sock[1], x)]
      BY DEF BeProto2, Markers
    <3>2. QED
      BY <1>1, <2>1, <3>1 DEF Types
  <2>3. be' \in [pc : Early \cup {"script"} \cup Over, open : SUBSET Bufs, got : Seq(Int),
                 wrote : [Outputs -> Nat]]
    BY <1>1 DEF BeProto2, Types, Early
  <2>4. sock'[0] = sock[0]
    BY <1>2, BufFacts
  <2>5. QED
    BY <1>1, <1>2, <2>2, <2>3, <2>4 DEF Types
<1>6. Buffers' /\ Turn(fe)' /\ DoneWith(fe)'
  BY <1>1, <1>2 DEF Buffers, Turn, DoneWith
<1>7. Signals'
  BY <1>1, <1>2 DEF Signals
<1>8. Lives'
  BY <1>1, <1>2, <1>4 DEF Lives, Early, Over
<1>9. Input'
  BY <1>1, <1>2, BufFacts DEF Input
<1>10. Eofs'
  <2>1. be.open = Bufs
    BY <1>1, <1>2 DEF Lives, Early
  <2>2. QED
    BY <1>1, <1>2, <2>1, BufFacts DEF Eofs, Held
<1>11. Output'
  <2>1. \A b \in Outputs : b # 1 => Carried(b)' = Carried(b)
    BY <1>2, BufFacts DEF Carried
  <2>2. Carried(1)' = Append(Carried(1), v) /\ Carried(1) \in Seq(Int)
    BY <1>1, <1>2, <1>3, CarriedAppend, BufFacts DEF Carried
  <2>3. v \in {ByKid, Wants, Not}
    BY <1>3 DEF Markers
  <2>4. ~fe.cb[1].write_err => Whole(Carried(1)', be'.wrote[1])
    BY <1>1, <1>2, <2>2, <2>3, BufFacts, WholeOther DEF Output
  <2>5. ~fe.got_stdout
    BY <1>1, <1>2 DEF First
  <2>6. \A b \in Outputs : IF fe.cb[b].write_err THEN Begins(sink[b].log, be.wrote[b])
                                                  ELSE Whole(Carried(b)', be.wrote[b])
    BY <1>1, <1>2, <2>1, <2>4, BufFacts DEF Output
  <2>7. \A b \in Outputs : b = 2 => Clean(sock'[b])
    BY <1>1, <1>2, BufFacts DEF Output
  <2>8. QED
    BY <1>1, <1>2, <2>5, <2>6, <2>7 DEF Output
<1>12. First'
  <2>1. ~fe.got_stdout /\ sock[1] = << >>
    BY <1>1, <1>2 DEF First
  <2>2. sock'[1] = Append(<< >>, v)
    BY <1>3, <2>1
  <2>3. << >> \in Seq(Int)
    OBVIOUS
  <2>4. sock'[1] # << >> /\ sock'[1][1] = v /\ Tail(sock'[1]) = << >>
    <3>1. Append(<< >>, v) # << >> /\ Append(<< >>, v)[1] = v
      BY <1>3, <2>3, AppendProperties
    <3>2. Tail(Append(<< >>, v)) = << >>
      BY <1>3, <2>3, HeadTailAppend
    <3>3. QED
      BY <2>2, <3>1, <3>2
  <2>5. Clean(Tail(sock'[1]))
    BY <2>4, AllInEmpty DEF Clean
  <2>6. QED
    BY <1>1, <1>2, <1>3, <2>4, <2>5 DEF First
<1>13. Emptied'
  BY <1>1, <1>2, <1>4 DEF Emptied
<1>14. QED
  BY <1>5, <1>6, <1>7, <1>8, <1>9, <1>10, <1>11, <1>12, <1>13 DEF IInv

\* The backend gets the directory, or an end of file because the frontend cannot write stderr.
LEMMA BeGetCwdStep ==
  ASSUME IInv, BeGetCwd
  PROVE  IInv'
<1>1. /\ Types /\ Buffers /\ Turn(fe) /\ DoneWith(fe) /\ Signals /\ Lives
      /\ Input /\ Eofs /\ Output /\ First /\ Emptied
  BY DEF IInv
<1>2. /\ be.pc = "cwd" /\ be'.pc \in {"script", "error"}
      /\ be'.open \subseteq be.open /\ be'.wrote = be.wrote /\ be'.got = be.got
      /\ be'.pc = "error" => be'.open = {} /\ ~FeHas(2)
      /\ UNCHANGED <<fe, ended, sig, kid, status, sock, cwd, src, sink, load>>
  <2>1. be \in [pc : Early \cup {"script"} \cup Over, open : SUBSET Bufs, got : Seq(Int),
                 wrote : [Outputs -> Nat]]
    BY <1>1 DEF Types
  <2>2. be.pc = "cwd" /\ UNCHANGED <<fe, ended, sig, kid, status, sock, cwd, src, sink, load>>
    BY DEF BeGetCwd
  <2>3. CASE be' = [be EXCEPT !.pc = "script"]
    BY <2>1, <2>2, <2>3
  <2>4. CASE be' = [be EXCEPT !.pc = "error", !.open = {}] /\ ~FeHas(2)
    BY <2>1, <2>2, <2>4
  <2>5. QED
    BY <2>3, <2>4 DEF BeGetCwd, Dies
<1>3. status = "none" /\ ~fe.backend_exited /\ ~fe.stop_sock_reads /\ ~ended /\ fe.pc # "end"
  BY <1>1, <1>2, Alive DEF Over
<1>4. Types'
  <2>1. be' \in [pc : Early \cup {"script"} \cup Over, open : SUBSET Bufs, got : Seq(Int),
                 wrote : [Outputs -> Nat]]
    BY <1>1 DEF BeGetCwd, Dies, Types, Early, Over
  <2>2. QED
    BY <1>1, <1>2, <2>1 DEF Types
<1>5. Buffers' /\ Turn(fe)' /\ DoneWith(fe)'
  BY <1>1, <1>2 DEF Buffers, Turn, DoneWith
<1>6. Signals'
  BY <1>1, <1>2 DEF Signals
<1>7. Lives'
  <2>1. be'.pc = "error" => fe.cb[2].write_err
    <3>1. SUFFICES ASSUME be'.pc = "error" PROVE fe.cb[2].write_err
      OBVIOUS
    <3>2. <<2, "r">> \in fe.closed
      BY <1>2, <1>3, <3>1 DEF FeHas
    <3>3. be.open = Bufs
      BY <1>1, <1>2 DEF Lives, Early
    <3>4. ~fe.cb[2].eof
      BY <1>1, <3>3, BufFacts DEF Eofs, Held
    <3>5. QED
      BY <1>1, <3>2, <3>4, BufFacts DEF DoneWith
  <2>2. QED
    BY <1>1, <1>2, <1>3, <2>1 DEF Lives, Early, Over
<1>8. Input'
  BY <1>1, <1>2 DEF Input
<1>9. Eofs'
  BY <1>1, <1>2 DEF Eofs, Held
<1>10. Output'
  BY <1>1, <1>2 DEF Output, Carried
<1>11. First'
  BY <1>1, <1>2 DEF First
<1>12. Emptied'
  BY <1>1, <1>2 DEF Emptied
<1>13. QED
  BY <1>4, <1>5, <1>6, <1>7, <1>8, <1>9, <1>10, <1>11, <1>12 DEF IInv

LEMMA BeForksStep ==
  ASSUME IInv, BeForks
  PROVE  IInv'
<1>1. /\ Types /\ Buffers /\ Turn(fe) /\ DoneWith(fe) /\ Signals /\ Lives
      /\ Input /\ Eofs /\ Output /\ First /\ Emptied
  BY DEF IInv
<1>2. /\ be.pc = "script" /\ kid'.open \subseteq be.open
      /\ UNCHANGED <<fe, ended, sig, be, status, sock, cwd, src, sink>>
  BY <1>1 DEF BeForks, Types
<1>3. Types'
  <2>1. be.open \subseteq Bufs
    BY <1>1, Typed
  <2>2. kid' \in [open : SUBSET Bufs, wrote : BOOLEAN]
    BY <1>1, <2>1 DEF BeForks, Types
  <2>3. load' \in [closed : SUBSET Bufs, nin : Nat, nout : [Outputs -> Nat], odd : Nat]
    BY <1>1, LoadStep DEF BeForks
  <2>4. QED
    BY <1>1, <1>2, <2>2, <2>3 DEF Types
<1>4. Buffers' /\ Turn(fe)' /\ DoneWith(fe)'
  BY <1>1, <1>2 DEF Buffers, Turn, DoneWith
<1>5. Signals'
  BY <1>1, <1>2 DEF Signals
<1>6. Lives'
  BY <1>1, <1>2 DEF Lives, Early
<1>7. Input'
  BY <1>1, <1>2 DEF Input
<1>8. Eofs'
  BY <1>1, <1>2 DEF Eofs, Held
<1>9. Output'
  BY <1>1, <1>2 DEF Output, Carried
<1>10. First'
  BY <1>1, <1>2 DEF First
<1>11. Emptied'
  BY <1>1, <1>2 DEF Emptied
<1>12. QED
  BY <1>3, <1>4, <1>5, <1>6, <1>7, <1>8, <1>9, <1>10, <1>11 DEF IInv

LEMMA BeEndsStep ==
  ASSUME IInv, BeEnds
  PROVE  IInv'
<1>1. /\ Types /\ Buffers /\ Turn(fe) /\ DoneWith(fe) /\ Signals /\ Lives
      /\ Input /\ Eofs /\ Output /\ First /\ Emptied
  BY DEF IInv
<1>2. /\ be.pc \notin Over /\ be'.pc \in {"finished", "died"}
      /\ be'.open = {} /\ be'.wrote = be.wrote /\ be'.got = be.got
      /\ UNCHANGED <<fe, ended, sig, kid, status, sock, cwd, src, sink>>
  BY <1>1 DEF BeEnds, Dies, Types, Over
<1>3. status = "none" /\ ~fe.backend_exited /\ ~fe.stop_sock_reads /\ ~ended /\ fe.pc # "end"
  BY <1>1, <1>2, Alive
<1>4. Types'
  <2>1. be' \in [pc : Early \cup {"script"} \cup Over, open : SUBSET Bufs, got : Seq(Int),
                 wrote : [Outputs -> Nat]]
    BY <1>1 DEF BeEnds, Dies, Types, Over
  <2>2. load' \in [closed : SUBSET Bufs, nin : Nat, nout : [Outputs -> Nat], odd : Nat]
    BY <1>1, LoadStep DEF BeEnds, Types
  <2>3. QED
    BY <1>1, <1>2, <2>1, <2>2 DEF Types
<1>5. Buffers' /\ Turn(fe)' /\ DoneWith(fe)'
  BY <1>1, <1>2 DEF Buffers, Turn, DoneWith
<1>6. Signals'
  BY <1>1, <1>2 DEF Signals
<1>7. Lives'
  BY <1>1, <1>2, <1>3 DEF Lives, Early, Over
<1>8. Input'
  BY <1>1, <1>2 DEF Input
<1>9. Eofs'
  BY <1>1, <1>2 DEF Eofs, Held
<1>10. Output'
  BY <1>1, <1>2 DEF Output, Carried
<1>11. First'
  BY <1>1, <1>2 DEF First
<1>12. Emptied'
  BY <1>1, <1>2 DEF Emptied
<1>13. QED
  BY <1>4, <1>5, <1>6, <1>7, <1>8, <1>9, <1>10, <1>11, <1>12 DEF IInv

LEMMA BePostsStep ==
  ASSUME IInv, BePosts
  PROVE  IInv'
<1>1. /\ Types /\ Buffers /\ Turn(fe) /\ DoneWith(fe) /\ Signals /\ Lives
      /\ Input /\ Eofs /\ Output /\ First /\ Emptied
  BY DEF IInv
<1>2. /\ be.pc \in Over /\ status = "none" /\ status' \in {"posted", "gone"}
      /\ sig' = sig \/ sig' = TRUE
      /\ UNCHANGED <<fe, ended, be, kid, sock, cwd, src, sink, load>>
  BY <1>1 DEF BePosts, Over
<1>3. Types'
  BY <1>1, <1>2 DEF Types
<1>4. Buffers' /\ Turn(fe)' /\ DoneWith(fe)'
  BY <1>1, <1>2 DEF Buffers, Turn, DoneWith
<1>5. Signals'
  BY <1>1, <1>2 DEF Signals
<1>6. Lives'
  BY <1>1, <1>2 DEF Lives
<1>7. Input'
  BY <1>1, <1>2 DEF Input
<1>8. Eofs'
  BY <1>1, <1>2 DEF Eofs, Held
<1>9. Output'
  BY <1>1, <1>2 DEF Output, Carried
<1>10. First'
  BY <1>1, <1>2 DEF First
<1>11. Emptied'
  BY <1>1, <1>2 DEF Emptied
<1>12. QED
  BY <1>3, <1>4, <1>5, <1>6, <1>7, <1>8, <1>9, <1>10, <1>11 DEF IInv

LEMMA KidClosesStep ==
  ASSUME IInv, KidCloses
  PROVE  IInv'
<1>1. /\ Types /\ Buffers /\ Turn(fe) /\ DoneWith(fe) /\ Signals /\ Lives
      /\ Input /\ Eofs /\ Output /\ First /\ Emptied
  BY DEF IInv
<1>2. /\ kid.open # {} /\ kid'.open = {}
      /\ UNCHANGED <<fe, ended, sig, be, status, sock, cwd, src, sink, load>>
  BY <1>1 DEF KidCloses
<1>3. Types'
  <2>1. kid' \in [open : SUBSET Bufs, wrote : BOOLEAN]
    BY DEF KidCloses
  <2>2. QED
    BY <1>1, <1>2, <2>1 DEF Types
<1>4. Buffers' /\ Turn(fe)' /\ DoneWith(fe)'
  BY <1>1, <1>2 DEF Buffers, Turn, DoneWith
<1>5. Signals'
  BY <1>1, <1>2 DEF Signals
<1>6. Lives'
  BY <1>1, <1>2 DEF Lives
<1>7. Input'
  BY <1>1, <1>2 DEF Input
<1>8. Eofs'
  BY <1>1, <1>2 DEF Eofs, Held
<1>9. Output'
  BY <1>1, <1>2 DEF Output, Carried
<1>10. First'
  BY <1>1, <1>2 DEF First
<1>11. Emptied'
  BY <1>1, <1>2 DEF Emptied
<1>12. QED
  BY <1>3, <1>4, <1>5, <1>6, <1>7, <1>8, <1>9, <1>10, <1>11 DEF IInv

LEMMA BeClosesStep ==
  ASSUME IInv, NEW b \in Bufs, BeCloses(b)
  PROVE  IInv'
<1>1. /\ Types /\ Buffers /\ Turn(fe) /\ DoneWith(fe) /\ Signals /\ Lives
      /\ Input /\ Eofs /\ Output /\ First /\ Emptied
  BY DEF IInv
<1>2. /\ be.pc = "script" /\ be'.pc = "script"
      /\ be'.open \subseteq be.open /\ be'.wrote = be.wrote /\ be'.got = be.got
      /\ UNCHANGED <<fe, ended, sig, kid, status, sock, cwd, src, sink>>
  BY <1>1 DEF BeCloses, Types
<1>3. Types'
  <2>1. be' \in [pc : Early \cup {"script"} \cup Over, open : SUBSET Bufs, got : Seq(Int),
                 wrote : [Outputs -> Nat]]
    BY <1>1 DEF BeCloses, Types
  <2>2. load' \in [closed : SUBSET Bufs, nin : Nat, nout : [Outputs -> Nat], odd : Nat]
    BY <1>1, LoadStep DEF BeCloses
  <2>3. QED
    BY <1>1, <1>2, <2>1, <2>2 DEF Types
<1>4. Buffers' /\ Turn(fe)' /\ DoneWith(fe)'
  BY <1>1, <1>2 DEF Buffers, Turn, DoneWith
<1>5. Signals'
  BY <1>1, <1>2 DEF Signals
<1>6. Lives'
  BY <1>1, <1>2 DEF Lives, Early, Over
<1>7. Input'
  BY <1>1, <1>2 DEF Input
<1>8. Eofs'
  BY <1>1, <1>2 DEF Eofs, Held
<1>9. Output'
  BY <1>1, <1>2 DEF Output, Carried
<1>10. First'
  BY <1>1, <1>2 DEF First
<1>11. Emptied'
  BY <1>1, <1>2 DEF Emptied
<1>12. QED
  BY <1>3, <1>4, <1>5, <1>6, <1>7, <1>8, <1>9, <1>10, <1>11 DEF IInv

\* A byte that goes into the socket of an output
Arrives(b, v) ==
  /\ sock' = [sock EXCEPT ![b] = Append(@, v)] /\ UNCHANGED <<fe, sink>>

LEMMA ArriveFacts ==
  ASSUME Types, NEW b \in Outputs, NEW v \in Int, Arrives(b, v)
  PROVE  /\ sock' \in [Bufs -> Seq(Int)]
         /\ sock'[b] = Append(sock[b], v) /\ sock'[b] # << >>
         /\ sock[b] \in Seq(Int)
         /\ \A k \in Bufs : k # b => sock'[k] = sock[k]
<1>1. b \in Bufs /\ sock[b] \in Seq(Int)
  BY Typed, BufFacts
<1>2. Append(sock[b], v) \in Seq(Int) /\ Append(sock[b], v) # << >>
  BY <1>1, AppendProperties
<1>3. QED
  BY <1>1, <1>2 DEF Types, Arrives

LEMMA ArriveCarried ==
  ASSUME Types, Buffers, NEW b \in Outputs, NEW v \in Int, Arrives(b, v)
  PROVE  /\ Carried(b) \in Seq(Int) /\ Carried(b)' = Append(Carried(b), v)
         /\ \A k \in Outputs : k # b => Carried(k)' = Carried(k)
<1>1. sock'[b] = Append(sock[b], v) /\ \A k \in Outputs : k # b => sock'[k] = sock[k]
  BY ArriveFacts, BufFacts
<1>2. fe' = fe /\ sink' = sink
  BY DEF Arrives
<1>3. Carried(b)' = sink[b].log \o Data(fe.cb[b].circ) \o Append(sock[b], v)
  BY <1>1, <1>2 DEF Carried
<1>4. \A k \in Outputs : k # b => Carried(k)' = Carried(k)
  BY <1>1, <1>2 DEF Carried
<1>5. QED
  BY <1>3, <1>4, CarriedAppend

\* The first byte stays the first, and the rest clean.
LEMMA ArriveFirst ==
  ASSUME Types, NEW v \in Int, v \notin Markers, Arrives(1, v), sock[1] # << >>,
         sock[1][1] \in Markers, Clean(Tail(sock[1]))
  PROVE  sock'[1] # << >> /\ sock'[1][1] \in Markers /\ Clean(Tail(sock'[1]))
<1>1. PICK s, t, u : s = sock[1] /\ t = Tail(s) /\ u = Append(s, v)
  OBVIOUS
<1>2. s \in Seq(Int) /\ s # << >> /\ sock'[1] = u
  BY <1>1, ArriveFacts, BufFacts
<1>3. t \in Seq(Int) /\ Tail(u) = Append(t, v) /\ u # << >>
  <2>1. t \in Seq(Int)
    BY <1>1, <1>2, HeadTailProperties
  <2>2. Tail(u) = Append(t, v)
    BY <1>1, <1>2, HeadTailAppend
  <2>3. u # << >>
    BY <1>1, <1>2, AppendProperties
  <2>4. QED
    BY <2>1, <2>2, <2>3
<1>4. u[1] = s[1]
  <2>1. PICK l : l = Len(s)
    OBVIOUS
  <2>2. l \in Nat /\ l >= 1
    BY <1>2, <2>1
  <2>3. \A k \in 1 .. l : u[k] = s[k]
    BY <1>1, <1>2, <2>1, Appended
  <2>4. QED
    BY <2>2, <2>3
<1>5. AllIn(Append(t, v), Int \ Markers)
  BY <1>1, <1>3, AllInAppend DEF Clean
<1>6. QED
  BY <1>1, <1>2, <1>3, <1>4, <1>5 DEF Clean

LEMMA ArriveClean ==
  ASSUME Types, NEW b \in Outputs, NEW v \in Int, v \notin Markers, Arrives(b, v), Clean(sock[b])
  PROVE  Clean(sock'[b])
<1>1. sock[b] \in Seq(Int) /\ sock'[b] = Append(sock[b], v)
  BY ArriveFacts
<1>2. QED
  BY <1>1, AllInAppend DEF Clean

\* The script writes its next byte.
LEMMA BeWriteOpen ==
  ASSUME IInv, NEW b \in Outputs, BeWrite(b), FeHas(b)
  PROVE  IInv'
<1>1. /\ Types /\ Buffers /\ Turn(fe) /\ DoneWith(fe) /\ Signals /\ Lives
      /\ Input /\ Eofs /\ Output /\ First /\ Emptied
  BY DEF IInv
<1>2. /\ be.pc = "script" /\ be'.pc = "script" /\ b \in be.open
      /\ be'.open = be.open /\ be'.got = be.got
      /\ be'.wrote[b] = be.wrote[b] + 1 /\ be.wrote[b] \in Nat
      /\ \A k \in Outputs : k # b => be'.wrote[k] = be.wrote[k]
      /\ Arrives(b, be.wrote[b] + 1)
      /\ UNCHANGED <<fe, ended, sig, kid, status, cwd, src, sink, load>>
  <2>1. be.wrote \in [Outputs -> Nat]
    BY <1>1, Typed
  <2>2. be' = [be EXCEPT !.wrote[b] = @ + 1]
    BY DEF BeWrite
  <2>3. be'.wrote = [be.wrote EXCEPT ![b] = @ + 1]
    BY <1>1, <2>2 DEF Types
  <2>4. /\ be.pc = "script" /\ be'.pc = "script" /\ b \in be.open
        /\ be'.open = be.open /\ be'.got = be.got
    BY <1>1, <2>2 DEF BeWrite, Types
  <2>5. Arrives(b, be.wrote[b] + 1) /\ UNCHANGED <<fe, ended, sig, kid, status, cwd, src, sink, load>>
    BY DEF BeWrite, Arrives
  <2>6. QED
    BY <2>1, <2>3, <2>4, <2>5
<1>3. PICK v \in Int : v = be.wrote[b] + 1 /\ v \notin Markers /\ Arrives(b, v)
  BY <1>2 DEF Markers, Wants, Not
<1>4. /\ sock' \in [Bufs -> Seq(Int)] /\ sock'[b] # << >>
      /\ \A k \in Bufs : k # b => sock'[k] = sock[k]
  BY <1>1, <1>3, ArriveFacts
<1>5. status = "none" /\ ~fe.backend_exited /\ ~fe.stop_sock_reads /\ ~ended /\ fe.pc # "end"
  BY <1>1, <1>2, Alive DEF Over
<1>6. Types'
  <2>1. PICK w : w = [be.wrote EXCEPT ![b] = @ + 1]
    OBVIOUS
  <2>2. be' \in [pc : Early \cup {"script"} \cup Over, open : SUBSET Bufs, got : Seq(Int),
                 wrote : [Outputs -> Nat]]
    <3>1. be.wrote \in [Outputs -> Nat]
      BY <1>1, Typed
    <3>2. w \in [Outputs -> Nat]
      BY <2>1, <3>1
    <3>3. be' = [be EXCEPT !.wrote = w]
      BY <2>1 DEF BeWrite
    <3>4. QED
      BY <1>1, <3>2, <3>3 DEF Types
  <2>3. Len(sock'[0]) <= SockSize
    BY <1>1, <1>4, BufFacts DEF Types
  <2>4. QED
    BY <1>1, <1>2, <1>4, <2>2, <2>3 DEF Types
<1>7. Buffers' /\ Turn(fe)' /\ DoneWith(fe)'
  BY <1>1, <1>2 DEF Buffers, Turn, DoneWith
<1>8. Signals'
  BY <1>1, <1>2 DEF Signals
<1>9. Lives'
  BY <1>1, <1>2, <1>5 DEF Lives, Early, Over
<1>10. Input'
  BY <1>1, <1>2, <1>4, BufFacts DEF Input
<1>11. Eofs'
  BY <1>1, <1>2, <1>4, BufFacts DEF Eofs, Held
<1>12. Output'
  <2>1. /\ Carried(b) \in Seq(Int) /\ Carried(b)' = Append(Carried(b), v)
        /\ \A k \in Outputs : k # b => Carried(k)' = Carried(k)
    BY <1>1, <1>2, <1>3, ArriveCarried
  <2>2. ASSUME NEW k \in Outputs
        PROVE  IF fe.cb[k].write_err THEN Begins(sink[k].log, be'.wrote[k])
                                     ELSE Whole(Carried(k)', be'.wrote[k])
    <3>1. CASE k = b
      <4>1. fe.cb[b].write_err => Begins(sink[b].log, be.wrote[b] + 1)
        BY <1>1, <1>2, BeginsMore DEF Output
      <4>2. ~fe.cb[b].write_err => Whole(Append(Carried(b), v), be.wrote[b] + 1)
        BY <1>1, <1>2, <1>3, <2>1, WholeNext DEF Output
      <4>3. QED
        BY <1>2, <2>1, <3>1, <4>1, <4>2
    <3>2. CASE k # b
      BY <1>1, <1>2, <2>1, <3>2 DEF Output
    <3>3. QED
      BY <3>1, <3>2
  <2>3. ASSUME NEW k \in Outputs, k = 2 \/ fe.got_stdout PROVE Clean(sock'[k])
    <3>1. Clean(sock[k])
      BY <1>1, <2>3 DEF Output
    <3>2. CASE k = b
      BY <1>1, <1>2, <1>3, <3>1, <3>2, ArriveClean
    <3>3. CASE k # b
      BY <1>4, <3>1, <3>3, BufFacts
    <3>4. QED
      BY <3>2, <3>3
  <2>4. QED
    BY <1>1, <1>2, <2>2, <2>3 DEF Output
<1>13. First'
  <2>1. CASE b = 1
    BY <1>1, <1>2, <1>3, <1>4, <2>1, ArriveFirst DEF First
  <2>2. CASE b # 1
    BY <1>1, <1>2, <1>4, <2>2, BufFacts DEF First
  <2>3. QED
    BY <2>1, <2>2
<1>14. Emptied'
  BY <1>1, <1>2, <1>5 DEF Emptied
<1>15. QED
  BY <1>6, <1>7, <1>8, <1>9, <1>10, <1>11, <1>12, <1>13, <1>14 DEF IInv

\* It gets SIGPIPE.
LEMMA BeWriteClosed ==
  ASSUME IInv, NEW b \in Outputs, BeWrite(b), ~FeHas(b)
  PROVE  IInv'
<1>1. /\ Types /\ Buffers /\ Turn(fe) /\ DoneWith(fe) /\ Signals /\ Lives
      /\ Input /\ Eofs /\ Output /\ First /\ Emptied
  BY DEF IInv
<1>2. /\ be.pc = "script" /\ be'.pc = "died" /\ be'.open = {}
      /\ be'.wrote = be.wrote /\ be'.got = be.got
      /\ UNCHANGED <<fe, ended, sig, kid, status, sock, cwd, src, sink, load>>
  <2>1. be \in [pc : Early \cup {"script"} \cup Over, open : SUBSET Bufs, got : Seq(Int),
                 wrote : [Outputs -> Nat]]
    BY <1>1 DEF Types
  <2>2. be.pc = "script" /\ be' = [be EXCEPT !.pc = "died", !.open = {}]
        /\ UNCHANGED <<fe, ended, sig, kid, status, sock, cwd, src, sink, load>>
    BY DEF BeWrite, Dies
  <2>3. QED
    BY <2>1, <2>2
<1>3. status = "none" /\ ~fe.backend_exited /\ ~fe.stop_sock_reads /\ ~ended /\ fe.pc # "end"
  BY <1>1, <1>2, Alive DEF Over
<1>4. Types'
  <2>1. be' \in [pc : Early \cup {"script"} \cup Over, open : SUBSET Bufs, got : Seq(Int),
                 wrote : [Outputs -> Nat]]
    BY <1>1 DEF BeWrite, Dies, Types, Over
  <2>2. QED
    BY <1>1, <1>2, <2>1 DEF Types
<1>5. Buffers' /\ Turn(fe)' /\ DoneWith(fe)'
  BY <1>1, <1>2 DEF Buffers, Turn, DoneWith
<1>6. Signals'
  BY <1>1, <1>2 DEF Signals
<1>7. Lives'
  BY <1>1, <1>2, <1>3 DEF Lives, Early, Over
<1>8. Input'
  BY <1>1, <1>2 DEF Input
<1>9. Eofs'
  BY <1>1, <1>2 DEF Eofs, Held
<1>10. Output'
  BY <1>1, <1>2 DEF Output, Carried
<1>11. First'
  BY <1>1, <1>2 DEF First
<1>12. Emptied'
  BY <1>1, <1>2 DEF Emptied
<1>13. QED
  BY <1>4, <1>5, <1>6, <1>7, <1>8, <1>9, <1>10, <1>11, <1>12 DEF IInv

\* A child of the script writes a byte.
LEMMA KidWritesOpen ==
  ASSUME IInv, NEW b \in Outputs, KidWrites(b), FeHas(b)
  PROVE  IInv'
<1>1. /\ Types /\ Buffers /\ Turn(fe) /\ DoneWith(fe) /\ Signals /\ Lives
      /\ Input /\ Eofs /\ Output /\ First /\ Emptied
  BY DEF IInv
<1>2. /\ b \in kid.open /\ kid'.open = kid.open /\ kid'.wrote = TRUE
      /\ Arrives(b, ByKid)
      /\ UNCHANGED <<fe, ended, sig, be, status, cwd, src, sink, load>>
  <2>1. kid \in [open : SUBSET Bufs, wrote : BOOLEAN] /\ kid' = [kid EXCEPT !.wrote = TRUE]
    BY <1>1 DEF Types, KidWrites
  <2>2. Arrives(b, ByKid) /\ UNCHANGED <<fe, ended, sig, be, status, cwd, src, sink, load>>
    BY DEF KidWrites, Arrives
  <2>3. QED
    BY <2>1, <2>2 DEF KidWrites
<1>3. ByKid \in Int /\ ByKid \notin Markers /\ Arrives(b, ByKid)
  BY <1>2 DEF Markers, Wants, Not, ByKid
<1>4. /\ sock' \in [Bufs -> Seq(Int)] /\ sock'[b] # << >>
      /\ sock[b] \in Seq(Int) /\ sock'[b] = Append(sock[b], ByKid)
      /\ \A k \in Bufs : k # b => sock'[k] = sock[k]
  BY <1>1, <1>3, ArriveFacts
<1>5. Types'
  <2>1. kid' \in [open : SUBSET Bufs, wrote : BOOLEAN]
    BY <1>1 DEF KidWrites, Types
  <2>2. Len(sock'[0]) <= SockSize
    BY <1>1, <1>4, BufFacts DEF Types
  <2>3. QED
    BY <1>1, <1>2, <1>4, <2>1, <2>2 DEF Types
<1>6. Buffers' /\ Turn(fe)' /\ DoneWith(fe)'
  BY <1>1, <1>2 DEF Buffers, Turn, DoneWith
<1>7. Signals'
  BY <1>1, <1>2 DEF Signals
<1>8. Lives'
  <2>1. be.pc \notin Early
    BY <1>1, <1>2 DEF Lives
  <2>2. QED
    BY <1>1, <1>2, <2>1 DEF Lives
<1>9. Input'
  BY <1>1, <1>2, <1>4, BufFacts DEF Input
<1>10. Eofs'
  BY <1>1, <1>2, <1>4, BufFacts DEF Eofs, Held
<1>11. Output'
  <2>1. /\ Carried(b) \in Seq(Int) /\ Carried(b)' = Append(Carried(b), ByKid)
        /\ \A k \in Outputs : k # b => Carried(k)' = Carried(k)
    BY <1>1, <1>2, <1>3, ArriveCarried
  <2>2. ~fe.cb[b].write_err => Whole(Append(Carried(b), ByKid), be.wrote[b])
    BY <1>1, <2>1, WholeOther DEF Output
  <2>3. \A k \in Outputs : IF fe.cb[k].write_err THEN Begins(sink[k].log, be.wrote[k])
                                                 ELSE Whole(Carried(k)', be.wrote[k])
    BY <1>1, <2>1, <2>2 DEF Output
  <2>4. ASSUME NEW k \in Outputs, k = 2 \/ fe.got_stdout PROVE Clean(sock'[k])
    <3>1. Clean(sock[k])
      BY <1>1, <2>4 DEF Output
    <3>2. CASE k = b
      BY <1>1, <1>2, <1>3, <3>1, <3>2, ArriveClean
    <3>3. CASE k # b
      BY <1>4, <3>1, <3>3, BufFacts
    <3>4. QED
      BY <3>2, <3>3
  <2>5. QED
    BY <1>1, <1>2, <2>3, <2>4 DEF Output
<1>12. First'
  <2>1. be.pc \notin {"header", "proto"}
    BY <1>1, <1>2 DEF Lives, Early
  <2>2. CASE b = 1
    BY <1>1, <1>2, <1>3, <1>4, <2>1, <2>2, ArriveFirst DEF First
  <2>3. CASE b # 1
    BY <1>1, <1>2, <1>4, <2>1, <2>3, BufFacts DEF First
  <2>4. QED
    BY <2>2, <2>3
<1>13. Emptied'
  <2>1. ASSUME NEW k \in Outputs, NoOwn(sock[k]) PROVE NoOwn(sock'[k])
    <3>1. CASE k = b
      <4>1. AllIn(Append(sock[b], ByKid), {ByKid, Wants, Not})
        BY <1>3, <1>4, <2>1, <3>1, AllInAppend DEF NoOwn
      <4>2. QED
        BY <1>4, <3>1, <4>1 DEF NoOwn
    <3>2. CASE k # b
      BY <1>4, <2>1, <3>2, BufFacts
    <3>3. QED
      BY <3>1, <3>2
  <2>2. QED
    BY <1>1, <1>2, <2>1 DEF Emptied
<1>14. QED
  BY <1>5, <1>6, <1>7, <1>8, <1>9, <1>10, <1>11, <1>12, <1>13 DEF IInv

LEMMA KidWritesClosed ==
  ASSUME IInv, NEW b \in Outputs, KidWrites(b), ~FeHas(b)
  PROVE  IInv'
<1>1. /\ Types /\ Buffers /\ Turn(fe) /\ DoneWith(fe) /\ Signals /\ Lives
      /\ Input /\ Eofs /\ Output /\ First /\ Emptied
  BY DEF IInv
<1>2. /\ kid.open # {} /\ kid'.open = {}
      /\ UNCHANGED <<fe, ended, sig, be, status, sock, cwd, src, sink, load>>
  BY <1>1 DEF KidWrites
<1>3. Types'
  <2>1. kid' = [open |-> {}, wrote |-> TRUE]
    BY DEF KidWrites
  <2>2. kid' \in [open : SUBSET Bufs, wrote : BOOLEAN]
    BY <2>1
  <2>3. QED
    BY <1>1, <1>2, <2>2 DEF Types
<1>4. Buffers' /\ Turn(fe)' /\ DoneWith(fe)'
  BY <1>1, <1>2 DEF Buffers, Turn, DoneWith
<1>5. Signals'
  BY <1>1, <1>2 DEF Signals
<1>6. Lives'
  BY <1>1, <1>2 DEF Lives
<1>7. Input'
  BY <1>1, <1>2 DEF Input
<1>8. Eofs'
  BY <1>1, <1>2 DEF Eofs, Held
<1>9. Output'
  BY <1>1, <1>2 DEF Output, Carried
<1>10. First'
  BY <1>1, <1>2 DEF First
<1>11. Emptied'
  BY <1>1, <1>2 DEF Emptied
<1>12. QED
  BY <1>3, <1>4, <1>5, <1>6, <1>7, <1>8, <1>9, <1>10, <1>11 DEF IInv

LEMMA ConsumeStep ==
  ASSUME IInv, NEW b \in Outputs, Consume(b)
  PROVE  IInv'
<1>1. /\ Types /\ Buffers /\ Turn(fe) /\ DoneWith(fe) /\ Signals /\ Lives
      /\ Input /\ Eofs /\ Output /\ First /\ Emptied
  BY DEF IInv
<1>2. /\ \A k \in Outputs : sink'[k].log = sink[k].log
      /\ UNCHANGED <<fe, ended, sig, be, kid, status, sock, cwd, src, load>>
  BY <1>1, BufFacts DEF Consume, Types
<1>3. Types'
  <2>1. PipeSize \in Nat
    BY FrontendIOAssumption
  <2>2. sink' \in [Outputs -> [room : Nat, log : Seq(Int), reader : BOOLEAN]]
    BY <1>1, <2>1 DEF Consume, Types
  <2>3. QED
    BY <1>1, <1>2, <2>2 DEF Types
<1>4. Buffers' /\ Turn(fe)' /\ DoneWith(fe)'
  BY <1>1, <1>2 DEF Buffers, Turn, DoneWith
<1>5. Signals'
  BY <1>1, <1>2 DEF Signals
<1>6. Lives'
  BY <1>1, <1>2 DEF Lives
<1>7. Input'
  BY <1>1, <1>2 DEF Input
<1>8. Eofs'
  BY <1>1, <1>2 DEF Eofs, Held
<1>9. Output'
  BY <1>1, <1>2 DEF Output, Carried
<1>10. First'
  BY <1>1, <1>2, BufFacts DEF First
<1>11. Emptied'
  BY <1>1, <1>2 DEF Emptied
<1>12. QED
  BY <1>3, <1>4, <1>5, <1>6, <1>7, <1>8, <1>9, <1>10, <1>11 DEF IInv

LEMMA ReaderLeavesStep ==
  ASSUME IInv, NEW b \in Outputs, ReaderLeaves(b)
  PROVE  IInv'
<1>1. /\ Types /\ Buffers /\ Turn(fe) /\ DoneWith(fe) /\ Signals /\ Lives
      /\ Input /\ Eofs /\ Output /\ First /\ Emptied
  BY DEF IInv
<1>2. /\ \A k \in Outputs : sink'[k].log = sink[k].log
      /\ UNCHANGED <<fe, ended, sig, be, kid, status, sock, cwd, src>>
  BY <1>1, BufFacts DEF ReaderLeaves, Types
<1>3. Types'
  <2>1. PipeSize \in Nat
    BY FrontendIOAssumption
  <2>2. sink' \in [Outputs -> [room : Nat, log : Seq(Int), reader : BOOLEAN]]
    BY <1>1, <2>1 DEF ReaderLeaves, Types
  <2>3. load' \in [closed : SUBSET Bufs, nin : Nat, nout : [Outputs -> Nat], odd : Nat]
    BY <1>1, LoadStep DEF ReaderLeaves
  <2>4. QED
    BY <1>1, <1>2, <2>2, <2>3 DEF Types
<1>4. Buffers' /\ Turn(fe)' /\ DoneWith(fe)'
  BY <1>1, <1>2 DEF Buffers, Turn, DoneWith
<1>5. Signals'
  BY <1>1, <1>2 DEF Signals
<1>6. Lives'
  BY <1>1, <1>2 DEF Lives
<1>7. Input'
  BY <1>1, <1>2 DEF Input
<1>8. Eofs'
  BY <1>1, <1>2 DEF Eofs, Held
<1>9. Output'
  BY <1>1, <1>2 DEF Output, Carried
<1>10. First'
  BY <1>1, <1>2, BufFacts DEF First
<1>11. Emptied'
  BY <1>1, <1>2 DEF Emptied
<1>12. QED
  BY <1>3, <1>4, <1>5, <1>6, <1>7, <1>8, <1>9, <1>10, <1>11 DEF IInv

LEMMA ProduceStep ==
  ASSUME IInv, Produce
  PROVE  IInv'
<1>1. /\ Types /\ Buffers /\ Turn(fe) /\ DoneWith(fe) /\ Signals /\ Lives
      /\ Input /\ Eofs /\ Output /\ First /\ Emptied
  BY DEF IInv
<1>2. /\ src'.next = src.next
      /\ UNCHANGED <<fe, ended, sig, be, kid, status, sock, cwd, sink, load>>
  BY <1>1 DEF Produce, Types
<1>3. Types'
  <2>1. src' \in [left : Nat, avail : Nat, next : Nat \ {0}, eof : BOOLEAN]
    <3>1. src.left \in Nat /\ src.avail \in Nat /\ src.next \in Nat \ {0}
      BY <1>1, Typed
    <3>2. src.left > 0 => src.left - 1 \in Nat
      BY <3>1
    <3>3. src.avail + 1 \in Nat
      BY <3>1
    <3>4. QED
      BY <1>1, <3>1, <3>2, <3>3 DEF Produce, Types
  <2>2. QED
    BY <1>1, <1>2, <2>1 DEF Types
<1>4. Buffers' /\ Turn(fe)' /\ DoneWith(fe)'
  BY <1>1, <1>2 DEF Buffers, Turn, DoneWith
<1>5. Signals'
  BY <1>1, <1>2 DEF Signals
<1>6. Lives'
  BY <1>1, <1>2 DEF Lives
<1>7. Input'
  BY <1>1, <1>2 DEF Input
<1>8. Eofs'
  BY <1>1, <1>2 DEF Eofs, Held
<1>9. Output'
  BY <1>1, <1>2 DEF Output, Carried
<1>10. First'
  BY <1>1, <1>2 DEF First
<1>11. Emptied'
  BY <1>1, <1>2 DEF Emptied
<1>12. QED
  BY <1>3, <1>4, <1>5, <1>6, <1>7, <1>8, <1>9, <1>10, <1>11 DEF IInv

LEMMA StdinEndsStep ==
  ASSUME IInv, StdinEnds
  PROVE  IInv'
<1>1. /\ Types /\ Buffers /\ Turn(fe) /\ DoneWith(fe) /\ Signals /\ Lives
      /\ Input /\ Eofs /\ Output /\ First /\ Emptied
  BY DEF IInv
<1>2. /\ src'.next = src.next
      /\ UNCHANGED <<fe, ended, sig, be, kid, status, sock, cwd, sink, load>>
  BY <1>1 DEF StdinEnds, Types
<1>3. Types'
  <2>1. src' \in [left : Nat, avail : Nat, next : Nat \ {0}, eof : BOOLEAN]
    <3>1. src.left \in Nat /\ src.avail \in Nat /\ src.next \in Nat \ {0}
      BY <1>1, Typed
    <3>2. src.left > 0 => src.left - 1 \in Nat
      BY <3>1
    <3>3. src.avail + 1 \in Nat
      BY <3>1
    <3>4. QED
      BY <1>1, <3>1, <3>2, <3>3 DEF StdinEnds, Types
  <2>2. QED
    BY <1>1, <1>2, <2>1 DEF Types
<1>4. Buffers' /\ Turn(fe)' /\ DoneWith(fe)'
  BY <1>1, <1>2 DEF Buffers, Turn, DoneWith
<1>5. Signals'
  BY <1>1, <1>2 DEF Signals
<1>6. Lives'
  BY <1>1, <1>2 DEF Lives
<1>7. Input'
  BY <1>1, <1>2 DEF Input
<1>8. Eofs'
  BY <1>1, <1>2 DEF Eofs, Held
<1>9. Output'
  BY <1>1, <1>2 DEF Output, Carried
<1>10. First'
  BY <1>1, <1>2 DEF First
<1>11. Emptied'
  BY <1>1, <1>2 DEF Emptied
<1>12. QED
  BY <1>3, <1>4, <1>5, <1>6, <1>7, <1>8, <1>9, <1>10, <1>11 DEF IInv

-----------------------------------------------------------------------------
(* Steps of the frontend that leave the buffers alone *)

LEMMA TypesKept ==
  ASSUME Types, IsFe(fe'), ended' \in BOOLEAN, sig' \in BOOLEAN,
         UNCHANGED <<be, kid, status, sock, src, sink, load>>
  PROVE  Types'
  BY DEF Types

\* What the parts about data say holds as long as the data stays.
LEMMA DataKept ==
  ASSUME Buffers, DoneWith(fe), Input, Eofs, Output, First,
         fe'.cb = fe.cb, fe'.got_stdout = fe.got_stdout, fe'.closed = fe.closed,
         UNCHANGED <<be, kid, sock, src, sink>>
  PROVE  Buffers' /\ DoneWith(fe)' /\ Input' /\ Eofs' /\ Output' /\ First'
<1>1. Buffers'
  BY DEF Buffers
<1>2. DoneWith(fe)'
  BY DEF DoneWith
<1>3. Input'
  BY DEF Input
<1>4. Eofs'
  BY DEF Eofs, Held
<1>5. Output'
  BY DEF Output, Carried
<1>6. First'
  BY DEF First
<1>7. QED
  BY <1>1, <1>2, <1>3, <1>4, <1>5, <1>6

LEMMA IsBuffer ==
  ASSUME Buffers, NEW b \in Bufs
  PROVE  /\ MaxSz[b] \in Nat /\ MaxSz[b] > 0 /\ IsCb(fe.cb[b], MaxSz[b])
         /\ Data(fe.cb[b].circ) \in Seq(Int)
         /\ Len(Data(fe.cb[b].circ)) = cb_data_len(fe.cb[b])
<1>1. MaxSz[b] \in Nat /\ MaxSz[b] > 0
  BY FrontendIOAssumption
<1>2. IsCb(fe.cb[b], MaxSz[b])
  BY DEF Buffers
<1>3. QED
  BY <1>1, <1>2, CbFacts

LEMMA EmptyBuffer ==
  ASSUME Buffers, NEW b \in Bufs, cb_data_len(fe.cb[b]) = 0
  PROVE  Data(fe.cb[b].circ) = << >>
<1>1. PICK d : d = Data(fe.cb[b].circ)
  OBVIOUS
<1>2. d \in Seq(Int) /\ Len(d) = 0
  BY <1>1, IsBuffer
<1>3. d = << >>
  BY <1>2
<1>4. QED
  BY <1>1, <1>3

\* A buffer has nothing of the script any more.
Passed(b) == fe.cb[b].write_err \/ (NoOwn(Data(fe.cb[b].circ)) /\ NoOwn(sock[b]))

LEMMA DonePassed ==
  ASSUME Buffers, Eofs, AllDone(fe), NEW b \in Outputs
  PROVE  Passed(b)
<1>1. fe.cb[b].write_err \/ (fe.cb[b].eof /\ cb_data_len(fe.cb[b]) = 0)
  BY BufFacts DEF AllDone, my_copydone, cb_copydone
<1>2. CASE fe.cb[b].eof /\ cb_data_len(fe.cb[b]) = 0
  <2>1. Data(fe.cb[b].circ) = << >> /\ sock[b] = << >>
    BY <1>2, BufFacts, EmptyBuffer DEF Eofs
  <2>2. QED
    BY <2>1, AllInEmpty DEF Passed, NoOwn
<1>3. QED
  BY <1>1, <1>2 DEF Passed

LEMMA StoppedPassed ==
  ASSUME Buffers, Emptied, fe.stop_sock_reads, NEW b \in Outputs, b \in fe.read_stopped,
         ~cb_canwrite(fe.cb[b])
  PROVE  Passed(b)
<1>1. CASE fe.cb[b].write_err
  BY <1>1 DEF Passed
<1>2. CASE ~fe.cb[b].write_err
  <2>1. Data(fe.cb[b].circ) = << >>
    BY <1>2, BufFacts, EmptyBuffer DEF cb_canwrite
  <2>2. NoOwn(sock[b])
    BY DEF Emptied
  <2>3. QED
    BY <2>1, <2>2, AllInEmpty DEF Passed, NoOwn
<1>3. QED
  BY <1>1, <1>2

LEMMA Returns ==
  ASSUME NEW f, IsFe(f), NEW g, g = [f EXCEPT !.pc = "end"]
  PROVE  IsFe(g) /\ SameState(f, g) /\ g.closed = f.closed /\ g.pc = "end"
<1>1. PICK C : f \in FeShape(C)
  BY DEF IsFe
<1>2. g \in FeShape(C)
  BY <1>1 DEF FeShape
<1>3. SameState(f, g) /\ g.closed = f.closed /\ g.pc = "end"
  BY <1>1 DEF FeShape, SameState, SameBufs
<1>4. QED
  BY <1>2, <1>3 DEF IsFe

LEMMA AfterExitStep ==
  ASSUME IInv, AfterExit
  PROVE  IInv'
<1>1. /\ Types /\ Buffers /\ Turn(fe) /\ DoneWith(fe) /\ Signals /\ Lives
      /\ Input /\ Eofs /\ Output /\ First /\ Emptied
  BY DEF IInv
<1>2. /\ IsFe(fe') /\ ended' \in BOOLEAN /\ sig' \in BOOLEAN
      /\ fe.pc = "check" /\ fe.backend_exited /\ fe'.backend_exited
      /\ fe'.cb = fe.cb /\ fe'.got_stdout = fe.got_stdout /\ fe'.closed = fe.closed
      /\ fe'.read_stopped = fe.read_stopped /\ fe'.sig_pipe = fe.sig_pipe
      /\ fe'.pc \in {"poll", "end"}
      /\ fe'.stop_sock_reads => fe.stop_sock_reads
      /\ fe'.pc # "end" /\ ~fe'.am_child => ~fe.am_child /\ fe'.stop_sock_reads = fe.stop_sock_reads
      /\ ended' => ended \/ \A b \in Outputs : Passed(b)
      /\ UNCHANGED <<sig, be, kid, status, sock, cwd, src, sink, load>>
  <2>1. fe.pc = "check" /\ fe.backend_exited /\ UNCHANGED <<sig, be, kid, status, sock, cwd, src, sink, load>>
    BY DEF AfterExit
  <2>2. IsFe(fe) /\ ended \in BOOLEAN /\ sig \in BOOLEAN
    BY <1>1 DEF Types
  <2>3. CASE AllDone(fe)
    <3>1. fe' = [fe EXCEPT !.pc = "end"] /\ ended' = TRUE
      BY <2>3 DEF AfterExit
    <3>2. IsFe(fe') /\ SameState(fe, fe') /\ fe'.closed = fe.closed /\ fe'.pc = "end"
      BY <2>2, <3>1, Returns
    <3>3. \A b \in Outputs : Passed(b)
      BY <1>1, <2>3, DonePassed
    <3>4. QED
      BY <2>1, <2>2, <3>1, <3>2, <3>3 DEF SameState, SameBufs
  <2>4. CASE /\ ~AllDone(fe) /\ ~fe.am_child
             /\ ~cb_canwrite(fe.cb[1]) /\ ~cb_canwrite(fe.cb[2])
             /\ Outputs \subseteq fe.read_stopped
    <3>1. fe.stop_sock_reads
      BY <1>1, <2>1, <2>4 DEF Emptied
    <3>2. ASSUME NEW b \in Outputs PROVE Passed(b)
      <4>1. b \in fe.read_stopped /\ ~cb_canwrite(fe.cb[b])
        BY <2>4, <3>2, BufFacts
      <4>2. QED
        BY <1>1, <3>1, <4>1, StoppedPassed
    <3>3. ended' = TRUE
      BY <2>4 DEF AfterExit
    <3>4. PICK x : x = [fe EXCEPT !.am_child = TRUE, !.stop_sock_reads = FALSE]
      OBVIOUS
    <3>5. fe' = ToPoll(x) \/ fe' = [fe EXCEPT !.pc = "end"]
      BY <2>4, <3>4 DEF AfterExit
    <3>6. /\ IsFe(x) /\ x.cb = fe.cb /\ x.got_stdout = fe.got_stdout /\ x.closed = fe.closed
          /\ x.read_stopped = fe.read_stopped /\ x.sig_pipe = fe.sig_pipe
          /\ x.backend_exited = fe.backend_exited
          /\ x.am_child = TRUE /\ x.stop_sock_reads = FALSE
      <4>1. PICK C : fe \in FeShape(C)
        BY <2>2 DEF IsFe
      <4>2. x \in FeShape(C)
        BY <3>4, <4>1 DEF FeShape
      <4>3. QED
        BY <3>4, <4>1, <4>2 DEF FeShape, IsFe
    <3>7. CASE fe' = ToPoll(x)
      <4>1. IsFe(fe') /\ SameState(x, fe') /\ fe'.closed = x.closed /\ fe'.pc = "poll"
        BY <3>6, <3>7, Polls
      <4>2. QED
        BY <2>1, <2>2, <2>4, <3>2, <3>3, <3>6, <4>1 DEF SameState, SameBufs
    <3>8. CASE fe' = [fe EXCEPT !.pc = "end"]
      <4>1. IsFe(fe') /\ SameState(fe, fe') /\ fe'.closed = fe.closed /\ fe'.pc = "end"
        BY <2>2, <3>8, Returns
      <4>2. QED
        BY <2>1, <2>2, <3>2, <3>3, <4>1 DEF SameState, SameBufs
    <3>9. QED
      BY <3>5, <3>7, <3>8
  <2>5. CASE fe' = ToPoll(fe) /\ ended' = ended
    <3>1. IsFe(fe') /\ SameState(fe, fe') /\ fe'.closed = fe.closed /\ fe'.pc = "poll"
      BY <2>2, <2>5, Polls
    <3>2. QED
      BY <2>1, <2>2, <2>5, <3>1 DEF SameState, SameBufs
  <2>6. QED
    BY <2>3, <2>4, <2>5 DEF AfterExit
<1>3. Types'
  BY <1>1, <1>2, TypesKept
<1>4. Buffers' /\ Turn(fe)' /\ DoneWith(fe)'
  BY <1>1, <1>2, DataKept DEF Turn
<1>5. Signals'
  BY <1>1, <1>2 DEF Signals, Woke
<1>6. Lives'
  BY <1>1, <1>2 DEF Lives
<1>7. Input'
  BY <1>1, <1>2, DataKept
<1>8. Eofs'
  BY <1>1, <1>2, DataKept
<1>9. Output'
  BY <1>1, <1>2, DataKept
<1>10. First'
  BY <1>1, <1>2, DataKept
<1>11. Emptied'
  <2>1. fe'.pc # "end" /\ ~fe'.am_child => fe'.stop_sock_reads
    BY <1>1, <1>2 DEF Emptied
  <2>2. ASSUME NEW b \in Outputs, ended' PROVE Passed(b)
    BY <1>1, <1>2, <2>2 DEF Emptied, Passed
  <2>3. QED
    BY <1>1, <1>2, <2>1, <2>2 DEF Emptied, Passed
<1>12. QED
  BY <1>3, <1>4, <1>5, <1>6, <1>7, <1>8, <1>9, <1>10, <1>11 DEF IInv

LEMMA CollectStep ==
  ASSUME IInv, Collect
  PROVE  IInv'
<1>1. /\ Types /\ Buffers /\ Turn(fe) /\ DoneWith(fe) /\ Signals /\ Lives
      /\ Input /\ Eofs /\ Output /\ First /\ Emptied
  BY DEF IInv
<1>2. /\ IsFe(fe') /\ ended' \in BOOLEAN /\ sig' \in BOOLEAN
      /\ fe.pc = "check" /\ ~fe.backend_exited
      /\ fe'.backend_exited <=> status # "none"
      /\ fe'.cb = fe.cb /\ fe'.got_stdout = fe.got_stdout /\ fe'.closed = fe.closed
      /\ fe'.stop_sock_reads = fe.stop_sock_reads
      /\ fe'.sig_pipe = fe.sig_pipe /\ fe'.got_sig = fe.got_sig /\ fe'.ready = fe.ready
      /\ fe'.pc \in {"ack", "end"} /\ (fe'.pc = "end" => fe'.backend_exited)
      /\ ended' => ended \/ (fe'.backend_exited /\ \A b \in Outputs : Passed(b))
      /\ UNCHANGED <<sig, be, kid, status, sock, cwd, src, sink, load>>
  <2>1. fe.pc = "check" /\ ~fe.backend_exited /\ UNCHANGED <<sig, be, kid, status, sock, cwd, src, sink, load>>
    BY DEF Collect
  <2>2. IsFe(fe) /\ ended \in BOOLEAN /\ sig \in BOOLEAN
    BY <1>1 DEF Types
  <2>3. PICK C : fe \in FeShape(C)
    BY <2>2 DEF IsFe
  <2>4. PICK x \in BOOLEAN : x = (status # "none")
    OBVIOUS
  <2>5. PICK f : f = [fe EXCEPT !.backend_exited = x]
    OBVIOUS
  <2>6. /\ f \in FeShape(C) /\ f.backend_exited = x
        /\ f.cb = fe.cb /\ f.got_stdout = fe.got_stdout /\ f.closed = fe.closed
        /\ f.stop_sock_reads = fe.stop_sock_reads
        /\ f.sig_pipe = fe.sig_pipe /\ f.got_sig = fe.got_sig /\ f.ready = fe.ready
    BY <2>3, <2>5 DEF FeShape
  <2>7. CASE x /\ AllDone(f)
    <3>1. fe' = [f EXCEPT !.pc = "end"] /\ ended' = TRUE
      BY <2>4, <2>5, <2>6, <2>7 DEF Collect
    <3>2. /\ fe' \in FeShape(C) /\ fe'.backend_exited = x
          /\ fe'.cb = f.cb /\ fe'.got_stdout = f.got_stdout /\ fe'.closed = f.closed
          /\ fe'.stop_sock_reads = f.stop_sock_reads
          /\ fe'.sig_pipe = f.sig_pipe /\ fe'.got_sig = f.got_sig /\ fe'.ready = f.ready
          /\ fe'.pc = "end"
      BY <2>6, <3>1 DEF FeShape
    <3>3. AllDone(fe)
      BY <2>6, <2>7 DEF AllDone, my_copydone
    <3>4. \A b \in Outputs : Passed(b)
      BY <1>1, <3>3, DonePassed
    <3>5. QED
      BY <2>1, <2>2, <2>4, <2>6, <2>7, <3>1, <3>2, <3>4 DEF IsFe
  <2>8. CASE ~(x /\ AllDone(f))
    <3>1. fe' = [f EXCEPT !.pc = "ack"] /\ ended' = ended
      BY <2>4, <2>5, <2>6, <2>8 DEF Collect
    <3>2. /\ fe' \in FeShape(C) /\ fe'.backend_exited = x
          /\ fe'.cb = f.cb /\ fe'.got_stdout = f.got_stdout /\ fe'.closed = f.closed
          /\ fe'.stop_sock_reads = f.stop_sock_reads
          /\ fe'.sig_pipe = f.sig_pipe /\ fe'.got_sig = f.got_sig /\ fe'.ready = f.ready
          /\ fe'.pc = "ack"
      BY <2>6, <3>1 DEF FeShape
    <3>3. QED
      BY <2>1, <2>2, <2>4, <2>6, <3>1, <3>2 DEF IsFe
  <2>9. QED
    BY <2>7, <2>8
<1>3. Types'
  BY <1>1, <1>2, TypesKept
<1>4. Buffers' /\ Turn(fe)' /\ DoneWith(fe)'
  BY <1>1, <1>2, DataKept DEF Turn
<1>5. Signals'
  BY <1>1, <1>2 DEF Signals, Woke
<1>6. Lives'
  BY <1>1, <1>2 DEF Lives
<1>7. Input'
  BY <1>1, <1>2, DataKept
<1>8. Eofs'
  BY <1>1, <1>2, DataKept
<1>9. Output'
  BY <1>1, <1>2, DataKept
<1>10. First'
  BY <1>1, <1>2, DataKept
<1>11. Emptied'
  <2>1. ~fe'.stop_sock_reads /\ ~ended
    BY <1>1, <1>2 DEF Lives
  <2>2. QED
    BY <1>1, <1>2, <2>1 DEF Emptied, Passed
<1>12. QED
  BY <1>3, <1>4, <1>5, <1>6, <1>7, <1>8, <1>9, <1>10, <1>11 DEF IInv

LEMMA AckStep ==
  ASSUME IInv, Ack
  PROVE  IInv'
<1>1. /\ Types /\ Buffers /\ Turn(fe) /\ DoneWith(fe) /\ Signals /\ Lives
      /\ Input /\ Eofs /\ Output /\ First /\ Emptied
  BY DEF IInv
<1>2. /\ IsFe(fe') /\ ended' \in BOOLEAN /\ sig' \in BOOLEAN
      /\ fe.pc = "ack" /\ fe'.backend_exited = fe.backend_exited
      /\ fe'.cb = fe.cb /\ fe'.got_stdout = fe.got_stdout /\ fe'.closed = fe.closed
      /\ fe'.sig_pipe = fe.sig_pipe - 1
      /\ fe'.pc \in {"io", "check", "poll"} /\ Turn(fe')
      /\ ~fe.backend_exited => /\ fe'.pc = "poll" /\ fe'.ready = {} /\ ~fe'.got_sig
                               /\ fe'.stop_sock_reads = fe.stop_sock_reads
                               /\ fe'.read_stopped = fe.read_stopped
      /\ fe.backend_exited => fe'.stop_sock_reads /\ fe'.read_stopped = {}
      /\ UNCHANGED <<ended, sig, be, kid, status, sock, cwd, src, sink, load>>
  <2>1. fe.pc = "ack" /\ UNCHANGED <<ended, sig, be, kid, status, sock, cwd, src, sink, load>>
    BY DEF Ack
  <2>2. IsFe(fe) /\ ended \in BOOLEAN /\ sig \in BOOLEAN
    BY <1>1 DEF Types
  <2>3. PICK C : fe \in FeShape(C)
    BY <2>2 DEF IsFe
  <2>4. PICK f : f = [fe EXCEPT !.got_sig = FALSE, !.sig_pipe = @ - 1]
    OBVIOUS
  <2>5. PICK x \in Int : x = fe.sig_pipe - 1
    BY <2>2, FeFields
  <2>6. /\ f \in FeShape(C) /\ f.backend_exited = fe.backend_exited
        /\ f.cb = fe.cb /\ f.got_stdout = fe.got_stdout /\ f.closed = fe.closed
        /\ f.stop_sock_reads = fe.stop_sock_reads /\ f.read_stopped = fe.read_stopped
        /\ f.sig_pipe = fe.sig_pipe - 1 /\ f.got_sig = FALSE
    <3>1. f = [fe EXCEPT !.got_sig = FALSE, !.sig_pipe = x]
      BY <2>4, <2>5
    <3>2. QED
      BY <2>3, <2>5, <3>1 DEF FeShape
  <2>7. CASE ~fe.backend_exited
    <3>1. fe' = ToPoll(f)
      BY <2>4, <2>6, <2>7 DEF Ack
    <3>2. IsFe(fe') /\ SameState(f, fe') /\ fe'.closed = f.closed /\ fe'.pc = "poll" /\ fe'.ready = {}
      BY <2>6, <3>1, Polls DEF IsFe
    <3>3. QED
      BY <2>1, <2>2, <2>6, <2>7, <3>2 DEF SameState, SameBufs, Turn
  <2>8. CASE fe.backend_exited
    <3>1. PICK r : r = Outputs \X {"r", "w"}
      OBVIOUS
    <3>2. PICK g : g = [f EXCEPT !.stop_sock_reads = TRUE, !.read_stopped = {}, !.ready = r]
      OBVIOUS
    <3>3. fe' = Resume(g, 0)
      BY <2>4, <2>6, <2>8, <3>1, <3>2 DEF Ack
    <3>4. r \subseteq Fds
      BY <3>1 DEF Fds, Ends, Outputs
    <3>5. /\ g \in FeShape(C) /\ g.backend_exited = f.backend_exited
          /\ g.cb = f.cb /\ g.got_stdout = f.got_stdout /\ g.closed = f.closed
          /\ g.stop_sock_reads = TRUE /\ g.read_stopped = {} /\ g.sig_pipe = f.sig_pipe
      BY <2>6, <3>2, <3>4 DEF FeShape
    <3>6. Resumes(g, fe')
      BY <3>3, <3>5, Resumed DEF IsFe
    <3>7. QED
      BY <2>1, <2>2, <2>6, <2>8, <3>5, <3>6 DEF Resumes, SameState, SameBufs
  <2>9. QED
    BY <2>7, <2>8
<1>3. Types'
  BY <1>1, <1>2, TypesKept
<1>4. Buffers' /\ Turn(fe)' /\ DoneWith(fe)'
  BY <1>1, <1>2, DataKept
<1>5. Signals'
  BY <1>1, <1>2 DEF Signals, Woke
<1>6. Lives'
  BY <1>1, <1>2 DEF Lives
<1>7. Input'
  BY <1>1, <1>2, DataKept
<1>8. Eofs'
  BY <1>1, <1>2, DataKept
<1>9. Output'
  BY <1>1, <1>2, DataKept
<1>10. First'
  BY <1>1, <1>2, DataKept
<1>11. Emptied'
  BY <1>1, <1>2 DEF Emptied
<1>12. QED
  BY <1>3, <1>4, <1>5, <1>6, <1>7, <1>8, <1>9, <1>10, <1>11 DEF IInv


LEMMA Wakes ==
  ASSUME NEW f, IsFe(f), NEW g, g = Woken(f)
  PROVE  /\ IsFe(g) /\ SameBufs(f, g) /\ g.closed = f.closed /\ g.ready = f.ready
         /\ g.pc = f.pc /\ g.i = f.i /\ g.do_read = f.do_read /\ g.do_write = f.do_write
         /\ f.backend_exited => g.sig_pipe = f.sig_pipe /\ g.got_sig = f.got_sig
         /\ ~f.backend_exited => g.sig_pipe = f.sig_pipe + 1
<1>1. PICK C : f \in FeShape(C)
  BY DEF IsFe
<1>2. CASE f.backend_exited
  BY <1>2 DEF Woken, SameBufs
<1>3. CASE ~f.backend_exited
  <2>1. PICK x \in Int : x = f.sig_pipe + 1
    BY FeFields
  <2>2. g = [f EXCEPT !.got_sig = TRUE, !.sig_pipe = x]
    BY <1>3, <2>1 DEF Woken
  <2>3. g \in FeShape(C)
    BY <1>1, <2>1, <2>2 DEF FeShape
  <2>4. /\ SameBufs(f, g) /\ g.closed = f.closed /\ g.ready = f.ready
        /\ g.pc = f.pc /\ g.i = f.i /\ g.do_read = f.do_read /\ g.do_write = f.do_write
        /\ g.sig_pipe = f.sig_pipe + 1
    BY <1>1, <2>1, <2>2 DEF FeShape, SameBufs
  <2>5. QED
    BY <1>3, <2>3, <2>4 DEF IsFe
<1>4. QED
  BY <1>2, <1>3

LEMMA PollStep ==
  ASSUME IInv, Poll
  PROVE  IInv'
<1>1. /\ Types /\ Buffers /\ Turn(fe) /\ DoneWith(fe) /\ Signals /\ Lives
      /\ Input /\ Eofs /\ Output /\ First /\ Emptied
  BY DEF IInv
<1>2. /\ IsFe(fe') /\ ended' \in BOOLEAN /\ sig' \in BOOLEAN
      /\ fe'.cb = fe.cb /\ fe'.got_stdout = fe.got_stdout /\ fe'.closed = fe.closed
      /\ fe'.stop_sock_reads = fe.stop_sock_reads /\ fe'.read_stopped = fe.read_stopped
      /\ fe'.backend_exited = fe.backend_exited /\ fe'.am_child = fe.am_child
      /\ fe.pc = "poll" /\ fe'.pc \in {"io", "check", "poll"} /\ Turn(fe') /\ Woke(fe')
      /\ fe'.sig_pipe \in 0 .. 3 /\ (fe'.sig_pipe = fe.sig_pipe \/ fe'.sig_pipe = 1)
      /\ UNCHANGED <<ended, sig, be, kid, status, sock, cwd, src, sink, load>>
  <2>1. fe.pc = "poll" /\ UNCHANGED <<ended, sig, be, kid, status, sock, cwd, src, sink, load>>
    BY DEF Poll
  <2>2. IsFe(fe) /\ ended \in BOOLEAN /\ sig \in BOOLEAN
    BY <1>1 DEF Types
  <2>3. PICK ready, f :
          /\ ready = {fd \in PollSet(fe) : Ready(fd)}
                       \cup (IF ~fe.backend_exited /\ fe.sig_pipe > 0 THEN {SigFd} ELSE {})
          /\ f = IF ready # {} THEN [fe EXCEPT !.ready = ready] ELSE Woken(fe)
          /\ fe' = Resume(f, 0)
    BY DEF Poll
  <2>4. fe.sig_pipe \in 0 .. 3
    BY <1>1 DEF Signals
  <2>5. CASE ready # {}
    <3>1. ready \subseteq Fds
      BY <2>3 DEF PollSet, Fds, Ends, Bufs, SigFd
    <3>2. SigFd \in ready => fe.sig_pipe > 0
      BY <2>3 DEF PollSet, Bufs, SigFd
    <3>3. PICK C : fe \in FeShape(C)
      BY <2>2 DEF IsFe
    <3>4. f = [fe EXCEPT !.ready = ready]
      BY <2>3, <2>5
    <3>5. f \in FeShape(C) /\ SameState(fe, f) /\ f.closed = fe.closed /\ f.ready = ready
      BY <3>1, <3>3, <3>4 DEF FeShape, SameState, SameBufs
    <3>6. Resumes(f, fe')
      BY <2>3, <3>5, Resumed DEF IsFe
    <3>7. ~fe.backend_exited /\ fe.got_sig => fe.sig_pipe >= 1
      BY <1>1 DEF Signals, Woke
    <3>8. Woke(fe')
      BY <2>4, <3>2, <3>5, <3>6, <3>7 DEF Woke, Resumes, SameState, SameBufs
    <3>9. QED
      BY <2>1, <2>2, <2>4, <3>5, <3>6, <3>8 DEF Resumes, SameState, SameBufs
  <2>6. CASE ready = {}
    <3>1. ~(~fe.backend_exited /\ fe.sig_pipe > 0)
      BY <2>3, <2>6
    <3>2. f = Woken(fe)
      BY <2>3, <2>6
    <3>3. /\ IsFe(f) /\ SameBufs(fe, f) /\ f.closed = fe.closed
          /\ fe.backend_exited => f.sig_pipe = fe.sig_pipe
          /\ ~fe.backend_exited => f.sig_pipe = fe.sig_pipe + 1
      BY <2>2, <3>2, Wakes
    <3>4. Resumes(f, fe')
      BY <2>3, <3>3, Resumed
    <3>5. ~fe.backend_exited => fe'.sig_pipe = 1
      BY <2>4, <3>1, <3>3, <3>4 DEF Resumes, SameState, SameBufs
    <3>6. Woke(fe')
      BY <3>3, <3>4, <3>5 DEF Woke, Resumes, SameState, SameBufs
    <3>7. QED
      BY <2>1, <2>2, <2>4, <3>3, <3>4, <3>5, <3>6 DEF Resumes, SameState, SameBufs
  <2>7. QED
    BY <2>5, <2>6
<1>3. Types'
  BY <1>1, <1>2, TypesKept
<1>4. Buffers' /\ Turn(fe)' /\ DoneWith(fe)'
  BY <1>1, <1>2, DataKept
<1>5. Signals'
  BY <1>1, <1>2 DEF Signals
<1>6. Lives'
  BY <1>1, <1>2 DEF Lives
<1>7. Input'
  BY <1>1, <1>2, DataKept
<1>8. Eofs'
  BY <1>1, <1>2, DataKept
<1>9. Output'
  BY <1>1, <1>2, DataKept
<1>10. First'
  BY <1>1, <1>2, DataKept
<1>11. Emptied'
  BY <1>1, <1>2 DEF Emptied
<1>12. QED
  BY <1>3, <1>4, <1>5, <1>6, <1>7, <1>8, <1>9, <1>10, <1>11 DEF IInv

LEMMA CatchStep ==
  ASSUME IInv, catch_sig
  PROVE  IInv'
<1>1. /\ Types /\ Buffers /\ Turn(fe) /\ DoneWith(fe) /\ Signals /\ Lives
      /\ Input /\ Eofs /\ Output /\ First /\ Emptied
  BY DEF IInv
<1>2. /\ IsFe(fe') /\ ended' \in BOOLEAN /\ sig' \in BOOLEAN
      /\ fe'.cb = fe.cb /\ fe'.got_stdout = fe.got_stdout /\ fe'.closed = fe.closed
      /\ fe'.stop_sock_reads = fe.stop_sock_reads /\ fe'.read_stopped = fe.read_stopped
      /\ fe'.backend_exited = fe.backend_exited /\ fe'.am_child = fe.am_child
      /\ sig /\ ~sig' /\ Turn(fe') /\ Woke(fe')
      /\ fe.pc # "end" /\ fe'.pc \in {fe.pc, "io", "check", "poll"}
      /\ fe'.pc # fe.pc => fe.pc = "poll"
      /\ fe'.sig_pipe \in 0 .. 3 /\ fe'.sig_pipe >= fe.sig_pipe
      /\ UNCHANGED <<ended, be, kid, status, sock, cwd, src, sink, load>>
  <2>1. sig /\ ~sig' /\ fe.pc # "end" /\ UNCHANGED <<ended, be, kid, status, sock, cwd, src, sink, load>>
    BY DEF catch_sig
  <2>2. IsFe(fe) /\ ended \in BOOLEAN /\ sig' \in BOOLEAN
    BY <1>1 DEF Types, catch_sig
  <2>3. PICK f, h : /\ f = Woken(fe) /\ h = Woken(f)
                    /\ fe' = f \/ (fe.pc = "poll" /\ fe' = Resume(h, 0))
    BY DEF catch_sig
  <2>4. /\ IsFe(f) /\ SameBufs(fe, f) /\ f.closed = fe.closed
        /\ f.pc = fe.pc /\ f.i = fe.i /\ f.do_read = fe.do_read /\ f.do_write = fe.do_write
        /\ fe.backend_exited => f.sig_pipe = fe.sig_pipe
        /\ ~fe.backend_exited => f.sig_pipe = fe.sig_pipe + 1
    BY <2>2, <2>3, Wakes
  <2>5. fe.sig_pipe \in 0 .. 1
    BY <1>1, <2>1 DEF Signals
  <2>6. CASE fe' = f
    <3>1. Turn(fe')
      <4>1. my_canread(f, f.i) = my_canread(fe, f.i)
        BY <2>4, SameReads
      <4>2. QED
        BY <1>1, <2>4, <2>6, <4>1 DEF Turn, SameBufs
    <3>2. Woke(fe')
      BY <2>4, <2>5, <2>6 DEF Woke, SameBufs
    <3>3. QED
      BY <2>1, <2>2, <2>4, <2>5, <2>6, <3>1, <3>2 DEF SameBufs
  <2>7. CASE fe.pc = "poll" /\ fe' = Resume(h, 0)
    <3>1. /\ IsFe(h) /\ SameBufs(f, h) /\ h.closed = f.closed
          /\ f.backend_exited => h.sig_pipe = f.sig_pipe
          /\ ~f.backend_exited => h.sig_pipe = f.sig_pipe + 1
      BY <2>3, <2>4, Wakes
    <3>2. Resumes(h, fe')
      BY <2>7, <3>1, Resumed
    <3>3. fe'.sig_pipe \in 0 .. 3 /\ (~fe.backend_exited => fe'.sig_pipe >= 1) /\ fe'.sig_pipe >= fe.sig_pipe
      BY <2>4, <2>5, <3>1, <3>2 DEF Resumes, SameState, SameBufs
    <3>4. Woke(fe')
      BY <2>4, <3>1, <3>2, <3>3 DEF Woke, Resumes, SameState, SameBufs
    <3>5. QED
      BY <2>1, <2>2, <2>4, <2>7, <3>1, <3>2, <3>3, <3>4 DEF Resumes, SameState, SameBufs
  <2>8. QED
    BY <2>3, <2>6, <2>7
<1>3. Types'
  BY <1>1, <1>2, TypesKept
<1>4. Buffers' /\ Turn(fe)' /\ DoneWith(fe)'
  BY <1>1, <1>2, DataKept
<1>5. Signals'
  BY <1>1, <1>2 DEF Signals
<1>6. Lives'
  BY <1>1, <1>2 DEF Lives
<1>7. Input'
  BY <1>1, <1>2, DataKept
<1>8. Eofs'
  BY <1>1, <1>2, DataKept
<1>9. Output'
  BY <1>1, <1>2, DataKept
<1>10. First'
  BY <1>1, <1>2, DataKept
<1>11. Emptied'
  BY <1>1, <1>2 DEF Emptied
<1>12. QED
  BY <1>3, <1>4, <1>5, <1>6, <1>7, <1>8, <1>9, <1>10, <1>11 DEF IInv

-----------------------------------------------------------------------------
(* Reading *)

LEMMA AllInParts ==
  ASSUME NEW s \in Seq(Int), NEW t \in Seq(Int), NEW V, AllIn(s \o t, V)
  PROVE  AllIn(s, V) /\ AllIn(t, V)
<1>1. PICK u, l, m : u = s \o t /\ l = Len(s) /\ m = Len(t)
  OBVIOUS
<1>2. /\ u \in Seq(Int) /\ l \in Nat /\ m \in Nat /\ Len(u) = l + m
      /\ \A k \in 1 .. l + m : u[k] = IF k <= l THEN s[k] ELSE t[k - l]
  BY <1>1, Concat
<1>3. \A k \in 1 .. l + m : u[k] \in V
  BY <1>1, <1>2, AllInAt
<1>4. ASSUME NEW k \in 1 .. l PROVE s[k] \in V
  <2>1. k \in 1 .. l + m /\ k <= l
    BY <1>2
  <2>2. QED
    BY <1>2, <1>3, <2>1
<1>5. ASSUME NEW k \in 1 .. m PROVE t[k] \in V
  <2>1. k + l \in 1 .. l + m /\ ~(k + l <= l) /\ (k + l) - l = k
    BY <1>2
  <2>2. u[k + l] = t[(k + l) - l]
    BY <1>2, <2>1
  <2>3. QED
    BY <1>3, <2>1, <2>2
<1>6. QED
  BY <1>1, <1>4, <1>5, AllInAt

LEMMA TailConcat ==
  ASSUME NEW h \in Seq(Int), NEW t \in Seq(Int), h # << >>
  PROVE  h \o t # << >> /\ Tail(h \o t) = Tail(h) \o t /\ Tail(h) \in Seq(Int)
<1>1. PICK u, v, w, l, m : /\ u = h \o t /\ v = Tail(u) /\ w = Tail(h)
                           /\ l = Len(h) /\ m = Len(t)
  OBVIOUS
<1>2. /\ u \in Seq(Int) /\ l \in Nat /\ m \in Nat /\ Len(u) = l + m
      /\ \A k \in 1 .. l + m : u[k] = IF k <= l THEN h[k] ELSE t[k - l]
  BY <1>1, Concat
<1>3. l >= 1
  BY <1>1
<1>4. u # << >>
  BY <1>2, <1>3
<1>5. w \in Seq(Int) /\ Len(w) = l - 1 /\ \A k \in 1 .. l - 1 : w[k] = h[k + 1]
  BY <1>1, HeadTailProperties
<1>6. v \in Seq(Int) /\ Len(v) = l + m - 1 /\ \A k \in 1 .. l + m - 1 : v[k] = u[k + 1]
  BY <1>1, <1>2, <1>4, HeadTailProperties
<1>7. OnFirst(v, (l - 1) + m)
  <2>1. Len(v) = (l - 1) + m
    BY <1>2, <1>6
  <2>2. QED
    BY <1>6, <2>1, SeqOnFirst
<1>8. ASSUME NEW k \in 1 .. l - 1 PROVE v[k] = w[k]
  <2>1. k \in 1 .. l + m - 1 /\ k + 1 \in 1 .. l + m /\ k + 1 <= l
    BY <1>2
  <2>2. v[k] = u[k + 1] /\ u[k + 1] = h[k + 1]
    BY <1>2, <1>6, <2>1
  <2>3. QED
    BY <1>5, <2>2
<1>9. ASSUME NEW k \in 1 .. m PROVE v[(l - 1) + k] = t[k]
  <2>1. /\ (l - 1) + k \in 1 .. l + m - 1 /\ ((l - 1) + k) + 1 = l + k
        /\ l + k \in 1 .. l + m /\ ~(l + k <= l) /\ (l + k) - l = k
    BY <1>2, <1>3
  <2>2. v[(l - 1) + k] = u[l + k]
    BY <1>6, <2>1
  <2>3. u[l + k] = t[(l + k) - l]
    BY <1>2, <2>1
  <2>4. QED
    BY <2>1, <2>2, <2>3
<1>10. v = w \o t
  <2>1. Len(w) = l - 1 /\ Len(t) = m
    BY <1>1, <1>5
  <2>2. QED
    BY <1>5, <1>7, <1>8, <1>9, <2>1, Joined
<1>11. QED
  BY <1>1, <1>4, <1>5, <1>10

\* What a read or a write for buffer b left of the frontend, now the buffer
Copies(b, now) ==
  /\ fe.pc = "io" /\ fe'.pc \in {"io", "check", "poll"}
  /\ IsFe(fe') /\ Turn(fe') /\ DoneWith(fe') /\ Woke(fe')
  /\ IsCb(now, MaxSz[b]) /\ fe'.cb[b] = now
  /\ \A k \in Bufs : k # b => fe'.cb[k] = fe.cb[k]
  /\ fe'.stop_sock_reads = fe.stop_sock_reads /\ fe'.backend_exited = fe.backend_exited
  /\ fe'.am_child = fe.am_child /\ fe'.sig_pipe = fe.sig_pipe

LEMMA CopiesOn ==
  ASSUME NEW b, NEW now, NEW x, GoesOn(x, fe'), Woke(x), fe.pc = "io", x.pc = "io",
         IsCb(now, MaxSz[b]), x.cb[b] = now, \A k \in Bufs : k # b => x.cb[k] = fe.cb[k],
         x.stop_sock_reads = fe.stop_sock_reads, x.backend_exited = fe.backend_exited,
         x.am_child = fe.am_child, x.sig_pipe = fe.sig_pipe
  PROVE  Copies(b, now) /\ fe'.got_stdout = x.got_stdout /\ fe'.read_stopped = x.read_stopped
<1>1. Woke(fe')
  BY DEF Woke, GoesOn, SameState, SameBufs
<1>2. QED
  BY <1>1 DEF Copies, GoesOn, SameState, SameBufs

\* n bytes were read for buffer b; "first" is true of the one that proto2 takes.
ReadDoes(b, n, now, first) ==
  /\ n \in 0 .. Len(Incoming(b)) /\ Incoming(b) \in Seq(Int)
  /\ n = 0 => Len(Incoming(b)) = 0
  /\ first <=> ~fe.got_stdout /\ b = 1 /\ n > 0
  /\ b = 0 => ~fe.cb[0].write_err
  /\ now.write_err = fe.cb[b].write_err
  /\ now.eof => ~MayCome(b) /\ Len(Incoming(b)) = 0
  /\ ~first => /\ cb_data_len(now) = cb_data_len(fe.cb[b]) + n
               /\ Data(now.circ) = Data(fe.cb[b].circ) \o SubSeq(Incoming(b), 1, n)
  /\ first => Data(now.circ) = Tail(SubSeq(Incoming(b), 1, n))
  /\ fe'.got_stdout <=> fe.got_stdout \/ first
  /\ fe'.read_stopped = IF n > 0 THEN fe.read_stopped ELSE fe.read_stopped \cup {b}
  /\ IF b = 0 THEN src' = [src EXCEPT !.avail = @ - n, !.next = @ + n] /\ UNCHANGED sock
              ELSE sock' = [sock EXCEPT ![b] = SubSeq(@, n + 1, Len(@))] /\ UNCHANGED src
  /\ UNCHANGED <<ended, sig, be, kid, status, sink, load>>

LEMMA IncomingIs ==
  ASSUME Types, NEW b \in Bufs
  PROVE  Incoming(b) \in Seq(Int) /\ MayCome(b) \in BOOLEAN
<1>1. CASE b = 0
  <2>1. PICK a \in Nat, n \in Nat : a = src.avail /\ n = src.next
    BY Typed
  <2>2. \A k \in 1 .. a : n + k - 1 \in Int
    OBVIOUS
  <2>3. [k \in 1 .. a |-> n + k - 1] \in Seq(Int)
    BY <2>2
  <2>4. src.eof \in BOOLEAN
    BY Typed
  <2>5. QED
    BY <1>1, <2>1, <2>3, <2>4 DEF Incoming, MayCome
<1>2. CASE b # 0
  BY <1>2, Typed DEF Incoming, MayCome, Held
<1>3. QED
  BY <1>1, <1>2

\* A buffer that is read has room, and has not come to its end.
LEMMA ReadGuard ==
  ASSUME Types, Buffers, First, NEW b \in Bufs, my_canread(fe, b)
  PROVE  /\ cb_free_len(fe.cb[b]) # 0 /\ cb_free_len(fe.cb[b]) > 0 /\ ~fe.cb[b].eof
         /\ b = 0 => ~fe.cb[b].write_err
<1>1. PICK d, m : d = cb_data_len(fe.cb[b]) /\ m = MaxSz[b]
  OBVIOUS
<1>2. d \in Nat /\ m \in Nat /\ m > 0 /\ d <= m /\ cb_free_len(fe.cb[b]) = m - d
  <2>1. MaxSz[b] \in Nat /\ MaxSz[b] > 0 /\ IsCb(fe.cb[b], MaxSz[b])
    BY IsBuffer
  <2>2. /\ cb_free_len(fe.cb[b]) = MaxSz[b] - cb_data_len(fe.cb[b])
        /\ cb_data_len(fe.cb[b]) \in Nat /\ cb_data_len(fe.cb[b]) <= fe.cb[b].circ.buf_len
        /\ fe.cb[b].circ.buf_len <= MaxSz[b] /\ fe.cb[b].circ.buf_len \in Nat
    BY <2>1, CbFacts
  <2>3. QED
    BY <1>1, <2>1, <2>2
<1>3. ~fe.cb[b].eof /\ (b = 0 => ~fe.cb[b].write_err)
  BY DEF my_canread, cb_canread
<1>4. CASE cb_canread(fe.cb[b])
  BY <1>2, <1>3, <1>4 DEF cb_canread
<1>5. CASE ~cb_canread(fe.cb[b])
  <2>1. ~fe.got_stdout /\ b = 1
    BY <1>5 DEF my_canread
  <2>2. d = 0
    BY <1>1, <2>1 DEF First
  <2>3. QED
    BY <1>2, <1>3, <2>2
<1>6. QED
  BY <1>4, <1>5

LEMMA ReadCopies ==
  ASSUME IInv, Read
  PROVE  \E b \in Bufs : \E n, now, first : Copies(b, now) /\ ReadDoes(b, n, now, first)
<1>1. /\ Types /\ Buffers /\ Turn(fe) /\ DoneWith(fe) /\ Signals /\ Lives
      /\ Input /\ Eofs /\ Output /\ First /\ Emptied
  BY DEF IInv
<1>2. /\ fe.pc = "io" /\ fe.do_read /\ UNCHANGED <<ended, sig, be, kid, status, sink, load>>
  BY DEF Read
<1>3. IsFe(fe)
  BY <1>1 DEF Types
<1>4. PICK b, in, more : b = fe.i /\ in = Incoming(b) /\ more = MayCome(b)
  OBVIOUS
<1>5. b \in Bufs /\ in \in Seq(Int) /\ more \in BOOLEAN /\ my_canread(fe, b)
  <2>1. b \in Bufs
    BY <1>3, <1>4, FeFields
  <2>2. my_canread(fe, b)
    BY <1>1, <1>2, <1>4 DEF Turn
  <2>3. QED
    BY <1>1, <1>4, <2>1, <2>2, IncomingIs
<1>6. PICK cb, m : cb = fe.cb[b] /\ m = MaxSz[b]
  OBVIOUS
<1>7. /\ m \in Nat /\ IsCb(cb, m) /\ cb_free_len(cb) # 0 /\ ~cb.eof
      /\ b = 0 => ~cb.write_err
  BY <1>1, <1>5, <1>6, IsBuffer, ReadGuard
<1>8. PICK new : new = cb_read(cb, in, more)
  OBVIOUS
<1>9. IsCb(new, m) /\ \E n \in Nat : HasRead(cb, new, in, more, n)
  BY <1>5, <1>7, <1>8, CbReads
<1>10. PICK n \in Nat : HasRead(cb, new, in, more, n)
  BY <1>9
<1>11. /\ cb_data_len(cb) \in Nat /\ cb_data_len(new) \in Nat
       /\ cb.write_err \in BOOLEAN /\ new.write_err \in BOOLEAN
       /\ Data(cb.circ) \in Seq(Int) /\ Len(Data(cb.circ)) = cb_data_len(cb)
       /\ Data(new.circ) \in Seq(Int) /\ Len(Data(new.circ)) = cb_data_len(new)
  BY <1>7, <1>9, CbFacts
<1>12. n = cb_data_len(new) - cb_data_len(cb) /\ n \in 0 .. Len(in)
  BY <1>10, <1>11 DEF HasRead
<1>13. PICK first \in BOOLEAN : first = TakesFirst(fe, new)
  BY DEF TakesFirst
<1>14. first <=> ~fe.got_stdout /\ b = 1 /\ n > 0
  <2>1. CASE b = 1
    <3>1. cb_data_len(new) > cb_data_len(cb) <=> n > 0
      BY <1>11, <1>12
    <3>2. QED
      BY <1>4, <1>6, <1>13, <2>1, <3>1 DEF TakesFirst
  <2>2. CASE b # 1
    BY <1>4, <1>13, <2>2 DEF TakesFirst
  <2>3. QED
    BY <2>1, <2>2
<1>15. PICK now : now = IF first THEN cb_shift(new) ELSE new
  OBVIOUS
<1>16. ~fe.got_stdout /\ b = 1 => cb_data_len(cb) = 0 /\ Data(cb.circ) = << >>
  BY <1>1, <1>5, <1>6, EmptyBuffer DEF First
<1>17. /\ IsCb(now, m) /\ now.write_err = cb.write_err
       /\ now.eof => ~more /\ Len(in) = 0
       /\ ~first => /\ cb_data_len(now) = cb_data_len(cb) + n
                    /\ Data(now.circ) = Data(cb.circ) \o SubSeq(in, 1, n)
       /\ first => Data(now.circ) = Tail(SubSeq(in, 1, n))
  <2>1. CASE ~first
    <3>1. now = new
      BY <1>15, <2>1
    <3>2. QED
      BY <1>7, <1>9, <1>10, <2>1, <3>1 DEF HasRead
  <2>2. CASE first
    <3>1. PICK h, l : h = SubSeq(in, 1, n) /\ l = cb_data_len(new)
      OBVIOUS
    <3>2. n > 0 /\ Data(cb.circ) = << >>
      BY <1>14, <1>16, <2>2
    <3>3. h \in Seq(Int) /\ Len(h) = n
      BY <1>5, <1>12, <3>1, Cut
    <3>4. Data(new.circ) = h
      <4>1. << >> \o h = h
        BY <3>3, ConcatEmptySeq
      <4>2. QED
        BY <1>10, <3>1, <3>2, <4>1 DEF HasRead
    <3>5. l = n
      BY <1>11, <3>1, <3>3, <3>4
    <3>6. now = cb_shift(new) /\ cb_data_len(new) > 0
      BY <1>15, <2>2, <3>1, <3>2, <3>5
    <3>7. IsCb(now, m) /\ HasWritten(new, now, 1)
      BY <1>7, <1>9, <3>6, CbShifts
    <3>8. Data(now.circ) = SubSeq(h, 2, n)
      <4>1. Data(now.circ) = SubSeq(Data(new.circ), 1 + 1, cb_data_len(new))
        BY <3>7 DEF HasWritten
      <4>2. 1 + 1 = 2
        OBVIOUS
      <4>3. QED
        BY <3>1, <3>4, <3>5, <4>1, <4>2
    <3>9. Tail(h) = SubSeq(h, 2, n)
      <4>1. h # << >>
        BY <3>2, <3>3
      <4>2. QED
        BY <3>3, <4>1, TailIsSubSeq
    <3>10. now.write_err = cb.write_err /\ (now.eof => ~more /\ Len(in) = 0)
      BY <1>7, <1>10, <3>7 DEF HasRead, HasWritten
    <3>11. QED
      BY <2>2, <3>1, <3>7, <3>8, <3>9, <3>10
  <2>3. QED
    BY <2>1, <2>2
<1>18. PICK rs, gs, dw :
         /\ rs = IF n > 0 THEN fe.read_stopped ELSE fe.read_stopped \cup {b}
         /\ gs = (fe.got_stdout \/ first)
         /\ dw = (fe.do_write \/ (cb_canwrite(now) /\ (now.eof \/ n > 0)))
  OBVIOUS
<1>19. PICK x : /\ x = [fe EXCEPT !.cb[b] = now, !.read_stopped = rs, !.got_stdout = gs,
                                  !.do_read = FALSE, !.do_write = dw]
                /\ Continue(x)
                /\ IF b = 0
                   THEN src' = [src EXCEPT !.avail = @ - n, !.next = @ + n] /\ UNCHANGED sock
                   ELSE sock' = [sock EXCEPT ![b] = SubSeq(@, n + 1, Len(@))] /\ UNCHANGED src
  <2>1. PICK x : /\ x = [fe EXCEPT !.cb[b] = now,
                             !.read_stopped = IF n > 0 THEN @ ELSE @ \cup {b},
                             !.got_stdout = @ \/ first,
                             !.do_read = FALSE,
                             !.do_write = @ \/ (cb_canwrite(now) /\ (now.eof \/ n > 0))]
                 /\ Continue(x)
                 /\ IF b = 0
                    THEN src' = [src EXCEPT !.avail = @ - n, !.next = @ + n] /\ UNCHANGED sock
                    ELSE sock' = [sock EXCEPT ![b] = SubSeq(@, n + 1, Len(@))] /\ UNCHANGED src
    <3>1. PICK B \in {fe.i} : \E N \in {cb_read(fe.cb[B], Incoming(B), MayCome(B))} :
             LET D == cb_data_len(N) - cb_data_len(fe.cb[B])
             IN
             /\ \E z \in {IF TakesFirst(fe, N) THEN cb_shift(N) ELSE N} :
                  Continue([fe EXCEPT
                              !.cb[B] = z,
                              !.read_stopped = IF D > 0 THEN @ ELSE @ \cup {B},
                              !.got_stdout = @ \/ TakesFirst(fe, N),
                              !.do_read = FALSE,
                              !.do_write = @ \/ (cb_canwrite(z) /\ (z.eof \/ D > 0))])
             /\ IF B = 0
                THEN src' = [src EXCEPT !.avail = @ - D, !.next = @ + D] /\ UNCHANGED sock
                ELSE sock' = [sock EXCEPT ![B] = SubSeq(@, D + 1, Len(@))] /\ UNCHANGED src
      BY Zenon DEF Read
    <3>2. PICK N \in {cb_read(fe.cb[B], Incoming(B), MayCome(B))} :
             LET D == cb_data_len(N) - cb_data_len(fe.cb[B])
             IN
             /\ \E z \in {IF TakesFirst(fe, N) THEN cb_shift(N) ELSE N} :
                  Continue([fe EXCEPT
                              !.cb[B] = z,
                              !.read_stopped = IF D > 0 THEN @ ELSE @ \cup {B},
                              !.got_stdout = @ \/ TakesFirst(fe, N),
                              !.do_read = FALSE,
                              !.do_write = @ \/ (cb_canwrite(z) /\ (z.eof \/ D > 0))])
             /\ IF B = 0
                THEN src' = [src EXCEPT !.avail = @ - D, !.next = @ + D] /\ UNCHANGED sock
                ELSE sock' = [sock EXCEPT ![B] = SubSeq(@, D + 1, Len(@))] /\ UNCHANGED src
      BY <3>1, Zenon
    <3>3. PICK D : D = cb_data_len(N) - cb_data_len(fe.cb[B])
      OBVIOUS
    <3>4. PICK z \in {IF TakesFirst(fe, N) THEN cb_shift(N) ELSE N} :
             Continue([fe EXCEPT
                         !.cb[B] = z,
                         !.read_stopped = IF D > 0 THEN @ ELSE @ \cup {B},
                         !.got_stdout = @ \/ TakesFirst(fe, N),
                         !.do_read = FALSE,
                         !.do_write = @ \/ (cb_canwrite(z) /\ (z.eof \/ D > 0))])
      BY <3>2, <3>3, Zenon
    <3>5. IF B = 0
          THEN src' = [src EXCEPT !.avail = @ - D, !.next = @ + D] /\ UNCHANGED sock
          ELSE sock' = [sock EXCEPT ![B] = SubSeq(@, D + 1, Len(@))] /\ UNCHANGED src
      BY <3>2, <3>3, Zenon
    <3>6. B = b /\ N = new
      BY <1>4, <1>6, <1>8
    <3>7. D = n
      BY <1>6, <1>12, <3>3, <3>6
    <3>8. z = now
      BY <1>13, <1>15, <3>6
    <3>9. Continue([fe EXCEPT !.cb[b] = now,
                              !.read_stopped = IF n > 0 THEN @ ELSE @ \cup {b},
                              !.got_stdout = @ \/ first,
                              !.do_read = FALSE,
                              !.do_write = @ \/ (cb_canwrite(now) /\ (now.eof \/ n > 0))])
      BY <1>13, <3>4, <3>6, <3>7, <3>8, Zenon
    <3>10. QED
      BY <3>5, <3>6, <3>7, <3>9, Zenon
  <2>2. QED
    BY <1>18, <2>1
<1>20. rs \subseteq Bufs /\ gs \in BOOLEAN /\ dw \in BOOLEAN
  <2>1. fe.read_stopped \subseteq Bufs
    BY <1>3, FeFields
  <2>2. QED
    BY <1>5, <1>18, <2>1
<1>21. /\ IsFe(x) /\ x.pc = fe.pc /\ x.i = fe.i /\ x.ready = fe.ready /\ x.closed = fe.closed
       /\ x.cb[b] = now /\ \A k \in Bufs : k # b => x.cb[k] = fe.cb[k]
       /\ x.stop_sock_reads = fe.stop_sock_reads /\ x.backend_exited = fe.backend_exited
       /\ x.am_child = fe.am_child /\ x.sig_pipe = fe.sig_pipe /\ x.got_sig = fe.got_sig
       /\ x.read_stopped = rs /\ x.got_stdout = gs /\ ~x.do_read /\ x.do_write = dw
  <2>1. PICK C : fe \in FeShape(C)
    BY <1>3 DEF IsFe
  <2>2. PICK cbs : cbs = [fe.cb EXCEPT ![b] = now]
    OBVIOUS
  <2>3. /\ cbs \in [Bufs -> C \cup {now}] /\ cbs[b] = now
        /\ \A k \in Bufs : k # b => cbs[k] = fe.cb[k]
    <3>1. fe.cb \in [Bufs -> C]
      BY <2>1 DEF FeShape
    <3>2. QED
      BY <1>5, <2>2, <3>1
  <2>4. x = [fe EXCEPT !.cb = cbs, !.read_stopped = rs, !.got_stdout = gs,
                       !.do_read = FALSE, !.do_write = dw]
    BY <1>19, <2>2
  <2>5. x \in FeShape(C \cup {now})
    BY <1>20, <2>1, <2>3, <2>4 DEF FeShape
  <2>6. /\ x.pc = fe.pc /\ x.i = fe.i /\ x.ready = fe.ready /\ x.closed = fe.closed
        /\ x.cb = cbs
        /\ x.stop_sock_reads = fe.stop_sock_reads /\ x.backend_exited = fe.backend_exited
        /\ x.am_child = fe.am_child /\ x.sig_pipe = fe.sig_pipe /\ x.got_sig = fe.got_sig
        /\ x.read_stopped = rs /\ x.got_stdout = gs /\ ~x.do_read /\ x.do_write = dw
    BY <2>1, <2>4 DEF FeShape
  <2>7. QED
    BY <2>3, <2>5, <2>6 DEF IsFe
<1>22. x.do_write => cb_canwrite(x.cb[x.i])
  <2>1. CASE fe.do_write
    <3>1. cb_data_len(cb) # 0 /\ ~cb.write_err
      BY <1>1, <1>2, <1>4, <1>6, <2>1 DEF Turn, cb_canwrite
    <3>2. ~first
      BY <1>14, <1>16, <3>1
    <3>3. cb_data_len(now) # 0
      BY <1>11, <1>17, <3>1, <3>2
    <3>4. QED
      BY <1>4, <1>17, <1>21, <3>1, <3>3 DEF cb_canwrite
  <2>2. CASE ~fe.do_write
    BY <1>4, <1>18, <1>21, <2>2
  <2>3. QED
    BY <2>1, <2>2
<1>23. DoneWith(x)
  <2>1. ASSUME NEW k \in Bufs, <<k, "r">> \in x.closed
        PROVE  x.cb[k].eof \/ (x.cb[k].write_err /\ (k # 1 \/ x.got_stdout))
    <3>1. fe.cb[k].eof \/ (fe.cb[k].write_err /\ (k # 1 \/ fe.got_stdout))
      BY <1>1, <1>21, <2>1 DEF DoneWith
    <3>2. QED
      BY <1>6, <1>7, <1>17, <1>18, <1>21, <2>1, <3>1
  <2>2. ASSUME NEW k \in Bufs, <<k, "w">> \in x.closed
        PROVE  x.cb[k].write_err \/ (x.cb[k].eof /\ cb_data_len(x.cb[k]) = 0)
    BY <1>1, <1>6, <1>7, <1>17, <1>21, <2>2 DEF DoneWith
  <2>3. QED
    BY <2>1, <2>2 DEF DoneWith
<1>24. GoesOn(x, fe')
  <2>1. IsFe(x) /\ x.pc = "io" /\ ~x.do_read
    BY <1>2, <1>21
  <2>2. QED
    BY <2>1, <1>19, <1>22, <1>23, Continues
<1>25. Woke(x)
  BY <1>1, <1>2, <1>21 DEF Signals, Woke
<1>26. /\ Copies(b, now) /\ fe'.got_stdout = x.got_stdout /\ fe'.read_stopped = x.read_stopped
  BY <1>2, <1>6, <1>17, <1>21, <1>24, <1>25, CopiesOn
<1>27. fe.got_stdout \in BOOLEAN
  BY <1>3, FeFields
<1>28. ReadDoes(b, n, now, first)
  <2>1. n = 0 => Len(in) = 0
    BY <1>10 DEF HasRead
  <2>2. fe'.got_stdout <=> fe.got_stdout \/ first
    BY <1>18, <1>21, <1>26, <1>27
  <2>3. fe'.read_stopped = IF n > 0 THEN fe.read_stopped ELSE fe.read_stopped \cup {b}
    BY <1>18, <1>21, <1>26
  <2>4. QED
    BY <1>2, <1>4, <1>5, <1>6, <1>7, <1>12, <1>14, <1>17, <1>19, <2>1, <2>2, <2>3 DEF ReadDoes
<1>29. QED
  BY <1>5, <1>26, <1>28

\* What a read and a write have in common
LEMMA CopiesKept ==
  ASSUME IInv, NEW b \in Bufs, NEW now, Copies(b, now), fe.cb[b].write_err => now.write_err,
         UNCHANGED <<ended, sig, be, kid, status>>
  PROVE  Buffers' /\ Turn(fe)' /\ DoneWith(fe)' /\ Signals' /\ Lives'
<1>1. Buffers /\ Signals /\ Lives
  BY DEF IInv
<1>2. /\ fe.pc = "io" /\ fe'.pc \in {"io", "check", "poll"} /\ fe'.cb[b] = now
      /\ \A k \in Bufs : k # b => fe'.cb[k] = fe.cb[k]
      /\ fe'.stop_sock_reads = fe.stop_sock_reads /\ fe'.backend_exited = fe.backend_exited
      /\ fe'.sig_pipe = fe.sig_pipe /\ IsCb(now, MaxSz[b])
      /\ Turn(fe') /\ DoneWith(fe') /\ Woke(fe')
  BY DEF Copies
<1>3. Buffers'
  <2>1. ASSUME NEW k \in Bufs PROVE IsCb(fe'.cb[k], MaxSz[k])
    <3>1. CASE k = b
      BY <1>2, <3>1
    <3>2. CASE k # b
      BY <1>1, <1>2, <3>2 DEF Buffers
    <3>3. QED
      BY <3>1, <3>2
  <2>2. QED
    BY <2>1 DEF Buffers
<1>4. Turn(fe)' /\ DoneWith(fe)'
  BY <1>2
<1>5. Signals'
  BY <1>1, <1>2 DEF Signals
<1>6. Lives'
  <2>1. fe.cb[2].write_err => fe'.cb[2].write_err
    BY <1>2, BufFacts
  <2>2. QED
    BY <1>1, <1>2, <2>1 DEF Lives
<1>7. QED
  BY <1>3, <1>4, <1>5, <1>6

\* What a read takes comes out of the socket or of stdin.
LEMMA ReadTakes ==
  ASSUME Types, NEW b \in Bufs, NEW n, NEW now, NEW first, ReadDoes(b, n, now, first)
  PROVE  /\ sock' \in [Bufs -> Seq(Int)]
         /\ \A k \in Bufs : k # b => sock'[k] = sock[k]
         /\ sock'[0] = sock[0]
         /\ src' \in [left : Nat, avail : Nat, next : Nat \ {0}, eof : BOOLEAN]
         /\ b = 0 => src'.next = src.next + n /\ n \in 0 .. src.avail
         /\ b # 0 => /\ Incoming(b) = sock[b] /\ MayCome(b) = Held(b) /\ UNCHANGED src
                     /\ sock'[b] = SubSeq(sock[b], n + 1, Len(sock[b]))
<1>1. /\ sock \in [Bufs -> Seq(Int)]
      /\ src \in [left : Nat, avail : Nat, next : Nat \ {0}, eof : BOOLEAN]
  BY DEF Types
<1>2. n \in 0 .. Len(Incoming(b))
  BY DEF ReadDoes
<1>3. CASE b = 0
  <2>1. PICK a \in Nat, m \in Nat : a = src.avail /\ m + 1 = src.next
    <3>1. src.avail \in Nat /\ src.next \in Nat \ {0}
      BY Typed
    <3>2. src.next - 1 \in Nat /\ (src.next - 1) + 1 = src.next
      BY <3>1
    <3>3. QED
      BY <3>1, <3>2
  <2>2. Len(Incoming(b)) = a
    <3>1. Incoming(b) = [k \in 1 .. a |-> (m + 1) + k - 1]
      BY <1>3, <2>1 DEF Incoming
    <3>2. 0 \in 0 .. a
      OBVIOUS
    <3>3. QED
      BY <3>1, <3>2, StreamGrows
  <2>3. n \in 0 .. a
    BY <1>2, <2>2
  <2>4. PICK x \in Nat, y \in Nat \ {0} : x = a - n /\ y = (m + 1) + n
    BY <2>3
  <2>5. src' = [src EXCEPT !.avail = x, !.next = y] /\ UNCHANGED sock
    BY <1>3, <2>1, <2>4 DEF ReadDoes
  <2>6. /\ src' \in [left : Nat, avail : Nat, next : Nat \ {0}, eof : BOOLEAN]
        /\ src'.next = y
    BY <1>1, <2>5
  <2>7. QED
    BY <1>1, <1>3, <2>1, <2>3, <2>4, <2>5, <2>6
<1>4. CASE b # 0
  <2>1. /\ sock' = [sock EXCEPT ![b] = SubSeq(sock[b], n + 1, Len(sock[b]))] /\ UNCHANGED src
        /\ Incoming(b) = sock[b] /\ MayCome(b) = Held(b)
    BY <1>4 DEF ReadDoes, Incoming, MayCome
  <2>2. SubSeq(sock[b], n + 1, Len(sock[b])) \in Seq(Int)
    <3>1. PICK s, l : s = sock[b] /\ l = Len(s)
      OBVIOUS
    <3>2. s \in Seq(Int) /\ n \in 0 .. l
      BY <1>1, <1>2, <2>1, <3>1
    <3>3. SubSeq(s, n + 1, l) \in Seq(Int)
      BY <3>1, <3>2, Cut
    <3>4. QED
      BY <3>1, <3>3
  <2>3. QED
    BY <1>1, <1>4, <2>1, <2>2, BufFacts
<1>5. QED
  BY <1>3, <1>4

LEMMA ReadInput ==
  ASSUME IInv, NEW b \in Bufs, NEW n, NEW now, NEW first, Copies(b, now),
         ReadDoes(b, n, now, first)
  PROVE  Input'
<1>1. Types /\ Buffers /\ Input
  BY DEF IInv
<1>2. UNCHANGED be /\ sock'[0] = sock[0]
  BY <1>1, ReadTakes DEF ReadDoes
<1>3. CASE b = 0
  <2>1. PICK m \in Nat, a \in Nat : m + 1 = src.next /\ a = src.avail /\ m = src.next - 1
    <3>1. src.avail \in Nat /\ src.next \in Nat \ {0}
      BY <1>1, Typed
    <3>2. src.next - 1 \in Nat /\ (src.next - 1) + 1 = src.next
      BY <3>1
    <3>3. QED
      BY <3>1, <3>2
  <2>2. n \in 0 .. a /\ src'.next = (m + 1) + n
    BY <1>1, <1>3, <2>1, ReadTakes
  <2>3. PICK in, t : in = Incoming(b) /\ t = SubSeq(in, 1, n)
    OBVIOUS
  <2>4. in = [k \in 1 .. a |-> (m + 1) + k - 1]
    BY <1>3, <2>1, <2>3 DEF Incoming
  <2>5. in \in Seq(Int) /\ Len(in) = a /\ Stream(m) \o t = Stream(m + n)
    BY <2>2, <2>3, <2>4, StreamGrows
  <2>6. t \in Seq(Int)
    BY <2>2, <2>3, <2>5, Cut
  <2>7. PICK g, s, d : g = be.got /\ s = sock[0] /\ d = Data(fe.cb[0].circ)
    OBVIOUS
  <2>8. g \in Seq(Int) /\ s \in Seq(Int) /\ d \in Seq(Int)
    BY <1>1, <2>7, Typed, BufFacts, IsBuffer
  <2>9. g \o s \in Seq(Int) /\ (g \o s) \o d \in Seq(Int)
    BY <2>8, Regrouped
  <2>10. (g \o s) \o d = Stream(m)
    <3>1. ~fe.cb[0].write_err
      BY <1>3 DEF ReadDoes
    <3>2. PICK rest : g \o s \o d \o rest = Stream(src.next - 1) /\ rest = << >>
      BY <1>1, <2>7, <3>1 DEF Input
    <3>3. g \o s \o d \o << >> = Stream(m)
      BY <2>1, <3>2
    <3>4. QED
      BY <2>9, <3>3, ConcatEmptySeq
  <2>11. Data(now.circ) = d \o t
    BY <1>3, <2>3, <2>7 DEF ReadDoes
  <2>12. g \o s \o (d \o t) = Stream(m + n)
    <3>1. PICK u : u = g \o s
      OBVIOUS
    <3>2. (u \o d) \o t = u \o (d \o t)
      <4>1. u \in Seq(Int)
        BY <2>9, <3>1
      <4>2. d \in Seq(Int) /\ t \in Seq(Int)
        BY <2>6, <2>8, Zenon
      <4>3. QED
        BY <4>1, <4>2, Regrouped, Zenon
    <3>3. (u \o d) \o t = Stream(m + n)
      BY <2>5, <2>10, <3>1
    <3>4. QED
      BY <3>1, <3>2, <3>3
  <2>13. d \o t \in Seq(Int)
    BY <2>6, <2>8, Regrouped
  <2>14. g \o s \o (d \o t) \in Seq(Int)
    BY <2>9, <2>13, Regrouped
  <2>15. g \o s \o (d \o t) \o << >> = Stream(m + n)
    BY <2>12, <2>14, ConcatEmptySeq
  <2>16. src'.next - 1 = m + n
    BY <2>2
  <2>17. be'.got = g /\ sock'[0] = s /\ Data(fe'.cb[0].circ) = d \o t
    BY <1>2, <1>3, <2>7, <2>11 DEF Copies
  <2>18. << >> \in Seq(Int)
    OBVIOUS
  <2>19. QED
    BY <2>15, <2>16, <2>17, <2>18 DEF Input
<1>4. CASE b # 0
  <2>1. UNCHANGED src /\ fe'.cb[0] = fe.cb[0]
    BY <1>1, <1>4, ReadTakes, BufFacts DEF Copies
  <2>2. QED
    BY <1>1, <1>2, <2>1 DEF Input
<1>5. QED
  BY <1>3, <1>4

\* A read for an output: s was in its socket and d in its buffer.
ReadMoves(b, n, now, first, s, m, d) ==
  /\ s \in Seq(Int) /\ Len(s) = m /\ n \in 0 .. m /\ d \in Seq(Int)
  /\ s = sock[b] /\ d = Data(fe.cb[b].circ)
  /\ sock'[b] = SubSeq(s, n + 1, m) /\ (n = 0 => m = 0)
  /\ first \in BOOLEAN /\ (first <=> ~fe.got_stdout /\ b = 1 /\ n > 0)
  /\ fe'.got_stdout <=> fe.got_stdout \/ first
  /\ fe'.cb[b] = now /\ now.write_err = fe.cb[b].write_err
  /\ ~first => Data(now.circ) = d \o SubSeq(s, 1, n)
  /\ first => Data(now.circ) = Tail(SubSeq(s, 1, n))

LEMMA ReadMovesIs ==
  ASSUME IInv, NEW b \in Outputs, NEW n, NEW now, NEW first, Copies(b, now),
         ReadDoes(b, n, now, first)
  PROVE  \E s, m, d, f : /\ ReadMoves(b, n, now, f, s, m, d)
                         /\ f = (~fe.got_stdout /\ b = 1 /\ n > 0)
                         /\ ReadDoes(b, n, now, f)
<1>1. Types /\ Buffers /\ b \in Bufs /\ b # 0
  BY BufFacts DEF IInv
<1>2. PICK s, m, d : s = sock[b] /\ m = Len(s) /\ d = Data(fe.cb[b].circ)
  OBVIOUS
<1>3. PICK f \in BOOLEAN : f = (~fe.got_stdout /\ b = 1 /\ n > 0)
  OBVIOUS
<1>4. ReadDoes(b, n, now, f)
  BY <1>3 DEF ReadDoes
<1>5. s \in Seq(Int) /\ d \in Seq(Int)
  BY <1>1, <1>2, Typed, IsBuffer
<1>6. Incoming(b) = s /\ sock'[b] = SubSeq(s, n + 1, m)
  BY <1>1, <1>2, <1>4, ReadTakes
<1>7. ReadMoves(b, n, now, f, s, m, d)
  BY <1>2, <1>3, <1>4, <1>5, <1>6 DEF ReadMoves, ReadDoes, Copies
<1>8. QED
  BY <1>3, <1>4, <1>7

\* When nothing was read the socket was empty, and is.
LEMMA NothingRead ==
  ASSUME NEW b, NEW n, NEW now, NEW first, NEW s, NEW m, NEW d,
         ReadMoves(b, n, now, first, s, m, d), m = 0
  PROVE  sock[b] = << >> /\ sock'[b] = << >> /\ SubSeq(s, 1, n) = << >>
<1>1. s \in Seq(Int) /\ Len(s) = m /\ n \in 0 .. m /\ s = sock[b] /\ sock'[b] = SubSeq(s, n + 1, m)
  BY DEF ReadMoves
<1>2. n = 0
  BY <1>1
<1>3. /\ SubSeq(s, 1, n) \in Seq(Int) /\ Len(SubSeq(s, 1, n)) = 0
      /\ SubSeq(s, n + 1, m) \in Seq(Int) /\ Len(SubSeq(s, n + 1, m)) = 0
  BY <1>1, <1>2, Cut
<1>4. QED
  BY <1>1, <1>3, EmptySeq

LEMMA ReadEofs ==
  ASSUME IInv, NEW b \in Bufs, NEW n, NEW now, NEW first, Copies(b, now),
         ReadDoes(b, n, now, first)
  PROVE  Eofs'
<1>1. Types /\ Eofs
  BY DEF IInv
<1>2. UNCHANGED <<be, kid>> /\ \A k \in Bufs : k # b => sock'[k] = sock[k] /\ fe'.cb[k] = fe.cb[k]
  BY <1>1, ReadTakes DEF ReadDoes, Copies
<1>3. ASSUME NEW k \in Outputs, fe'.cb[k].eof PROVE ~Held(k) /\ sock'[k] = << >>
  <2>1. CASE k = b
    <3>1. PICK s, m, d, f : ReadMoves(b, n, now, f, s, m, d)
      BY <2>1, ReadMovesIs
    <3>2. fe'.cb[b] = now /\ s = sock[b] /\ Len(s) = m
      BY <3>1 DEF ReadMoves
    <3>3. Incoming(b) = s /\ MayCome(b) = Held(b)
      BY <1>1, <2>1, <3>2, ReadTakes, BufFacts
    <3>4. m = 0 /\ ~Held(b)
      BY <1>3, <2>1, <3>2, <3>3 DEF ReadDoes
    <3>5. sock'[b] = << >>
      BY <3>1, <3>4, NothingRead
    <3>6. QED
      BY <2>1, <3>4, <3>5
  <2>2. CASE k # b
    BY <1>1, <1>2, <1>3, <2>2, BufFacts DEF Eofs
  <2>3. QED
    BY <2>1, <2>2
<1>4. QED
  BY <1>2, <1>3 DEF Eofs, Held

LEMMA ReadFirst ==
  ASSUME IInv, NEW b \in Bufs, NEW n, NEW now, NEW first, Copies(b, now),
         ReadDoes(b, n, now, first)
  PROVE  First'
<1>1. Types /\ Buffers /\ First
  BY DEF IInv
<1>2. UNCHANGED <<be, kid, sink>>
  BY DEF ReadDoes
<1>3. CASE b = 1
  <2>1. PICK s, m, d, f : ReadMoves(b, n, now, f, s, m, d) /\ ReadDoes(b, n, now, f)
    <3>1. b \in Outputs
      BY <1>3, BufFacts
    <3>2. QED
      BY <3>1, ReadMovesIs
  <2>2. /\ s \in Seq(Int) /\ Len(s) = m /\ n \in 0 .. m /\ (n = 0 => m = 0) /\ s = sock[1]
        /\ f <=> ~fe.got_stdout /\ n > 0
        /\ fe'.got_stdout <=> fe.got_stdout \/ f
        /\ fe'.cb[1] = now
    BY <1>3, <2>1 DEF ReadMoves
  <2>3. ~fe.got_stdout /\ sock[1] = << >> => ~fe'.got_stdout
    BY <2>2
  <2>4. ~fe'.got_stdout => /\ ~fe.got_stdout /\ sock'[1] = sock[1]
                           /\ cb_data_len(fe'.cb[1]) = cb_data_len(fe.cb[1])
    <3>1. SUFFICES ASSUME ~fe'.got_stdout
                   PROVE  /\ ~fe.got_stdout /\ sock'[1] = sock[1]
                          /\ cb_data_len(fe'.cb[1]) = cb_data_len(fe.cb[1])
      OBVIOUS
    <3>2. ~fe.got_stdout /\ ~f /\ n = 0 /\ m = 0
      BY <2>2, <3>1
    <3>3. cb_data_len(fe.cb[1]) = 0
      BY <1>1, <3>2 DEF First
    <3>4. cb_data_len(now) = cb_data_len(fe.cb[1]) + n
      BY <1>3, <2>1, <3>2 DEF ReadDoes
    <3>5. sock'[1] = sock[1]
      BY <1>3, <2>1, <3>2, NothingRead
    <3>6. QED
      BY <2>2, <3>2, <3>3, <3>4, <3>5
  <2>5. be.pc \in {"header", "proto"} => ~fe'.got_stdout /\ sock'[1] = << >>
    BY <1>1, <2>3, <2>4 DEF First
  <2>6. QED
    BY <1>1, <1>2, <2>4, <2>5 DEF First
<1>4. CASE b # 1
  <2>1. sock'[1] = sock[1] /\ fe'.cb[1] = fe.cb[1]
    BY <1>1, <1>4, ReadTakes, BufFacts DEF Copies
  <2>2. fe'.got_stdout <=> fe.got_stdout
    BY <1>4 DEF ReadDoes
  <2>3. QED
    BY <1>1, <1>2, <2>1, <2>2 DEF First
<1>5. QED
  BY <1>3, <1>4

LEMMA ReadOutput ==
  ASSUME IInv, NEW b \in Bufs, NEW n, NEW now, NEW first, Copies(b, now),
         ReadDoes(b, n, now, first)
  PROVE  Output'
<1>1. Types /\ Buffers /\ Output /\ First
  BY DEF IInv
<1>2. /\ UNCHANGED <<be, sink>>
      /\ \A k \in Bufs : k # b => sock'[k] = sock[k] /\ fe'.cb[k] = fe.cb[k]
  BY <1>1, ReadTakes DEF ReadDoes, Copies
<1>3. ASSUME NEW k \in Outputs, k # b
      PROVE  /\ IF fe'.cb[k].write_err THEN Begins(sink[k].log, be.wrote[k])
                   ELSE Whole(sink[k].log \o Data(fe'.cb[k].circ) \o sock'[k], be.wrote[k])
             /\ Clean(sink[k].log) /\ Clean(Data(fe'.cb[k].circ))
             /\ k = 2 \/ fe'.got_stdout => Clean(sock'[k])
  <2>1. sock'[k] = sock[k] /\ fe'.cb[k] = fe.cb[k]
    BY <1>2, <1>3, BufFacts
  <2>2. k = 2 \/ (fe'.got_stdout <=> fe.got_stdout)
    BY <1>3, BufFacts DEF ReadDoes
  <2>3. QED
    BY <1>1, <2>1, <2>2 DEF Output, Carried
<1>4. ASSUME b \in Outputs
      PROVE  /\ IF fe'.cb[b].write_err THEN Begins(sink[b].log, be.wrote[b])
                   ELSE Whole(sink[b].log \o Data(fe'.cb[b].circ) \o sock'[b], be.wrote[b])
             /\ Clean(sink[b].log) /\ Clean(Data(fe'.cb[b].circ))
             /\ b = 2 \/ fe'.got_stdout => Clean(sock'[b])
  <2>1. PICK s, m, d, f : ReadMoves(b, n, now, f, s, m, d)
    BY <1>4, ReadMovesIs
  <2>2. /\ s \in Seq(Int) /\ Len(s) = m /\ n \in 0 .. m /\ d \in Seq(Int)
        /\ s = sock[b] /\ d = Data(fe.cb[b].circ)
        /\ sock'[b] = SubSeq(s, n + 1, m)
        /\ (f <=> ~fe.got_stdout /\ b = 1 /\ n > 0)
        /\ fe'.got_stdout <=> fe.got_stdout \/ f
        /\ fe'.cb[b] = now /\ now.write_err = fe.cb[b].write_err
        /\ ~f => Data(now.circ) = d \o SubSeq(s, 1, n)
        /\ f => Data(now.circ) = Tail(SubSeq(s, 1, n))
    BY <2>1 DEF ReadMoves
  <2>3. PICK h, t : /\ h = SubSeq(s, 1, n) /\ t = SubSeq(s, n + 1, m)
                    /\ h \in Seq(Int) /\ t \in Seq(Int) /\ Len(h) = n /\ h \o t = s
    <3>1. PICK h, t : h = SubSeq(s, 1, n) /\ t = SubSeq(s, n + 1, m)
      OBVIOUS
    <3>2. s \in Seq(Int) /\ Len(s) = m /\ n \in 0 .. m
      BY <2>2
    <3>3. h \in Seq(Int) /\ t \in Seq(Int) /\ Len(h) = n /\ h \o t = s
      BY <3>1, <3>2, Cut
    <3>4. QED
      BY <3>1, <3>3
  <2>4. PICK l, w : l = sink[b].log /\ w = be.wrote[b] /\ l \in Seq(Int)
    BY <1>1, <1>4, Typed
  <2>5. l \in Seq(Int) /\ s \in Seq(Int) /\ d \in Seq(Int) /\ Len(s) = m /\ n \in 0 .. m
    BY <2>2, <2>4
  <2>6. h \in Seq(Int) /\ t \in Seq(Int) /\ h \o t = s
    BY <2>3
  <2>7. /\ fe.cb[b].write_err => Begins(l, w)
        /\ ~fe.cb[b].write_err => Whole(l \o d \o s, w)
        /\ Clean(l) /\ Clean(d)
        /\ b = 2 \/ fe.got_stdout => Clean(s)
    BY <1>1, <1>4, <2>2, <2>4 DEF Output, Carried
  <2>8. CASE ~f
    <3>1. l \o (d \o h) \o t = l \o d \o s
      <4>1. HandsOver(l, d, h, t)
        BY <2>5, <2>6, MovedBack
      <4>2. QED
        BY <2>6, <4>1 DEF HandsOver
    <3>2. b = 2 \/ fe'.got_stdout => Clean(s)
      BY <2>2, <2>7, <2>8
    <3>3. Clean(h)
      <4>1. CASE n = 0
        <5>1. h = << >>
          BY <2>3, <4>1, EmptySeq
        <5>2. QED
          BY <5>1, AllInEmpty DEF Clean
      <4>2. CASE n # 0
        <5>1. Clean(s)
          BY <1>4, <2>2, <2>7, <2>8, <4>2, BufFacts
        <5>2. QED
          BY <2>2, <2>3, <5>1, AllInCut DEF Clean
      <4>3. QED
        BY <4>1, <4>2
    <3>4. Clean(d \o h)
      BY <2>2, <2>3, <2>7, <3>3, AllInConcat DEF Clean
    <3>5. Clean(s) => Clean(t)
      BY <2>2, <2>3, AllInCut DEF Clean
    <3>6. Data(now.circ) = d \o h /\ sock'[b] = t
      BY <2>2, <2>3, <2>8
    <3>7. fe'.cb[b] = now /\ (now.write_err <=> fe.cb[b].write_err)
      BY <2>2
    <3>8. QED
      BY <2>4, <2>7, <3>1, <3>2, <3>4, <3>5, <3>6, <3>7
  <2>9. CASE f
    <3>1. b = 1 /\ ~fe.got_stdout /\ n > 0 /\ h # << >>
      <4>1. b = 1 /\ ~fe.got_stdout /\ n > 0
        BY <2>2, <2>9
      <4>2. Len(h) # 0
        BY <2>3, <4>1
      <4>3. QED
        BY <4>1, <4>2
    <3>2. l = << >> /\ d = << >>
      BY <1>1, <2>2, <2>4, <3>1, EmptyBuffer, BufFacts DEF First
    <3>3. s # << >> /\ Tail(s) = Tail(h) \o t /\ Tail(h) \in Seq(Int)
      <4>1. h \o t # << >> /\ Tail(h \o t) = Tail(h) \o t /\ Tail(h) \in Seq(Int)
        BY <2>6, <3>1, TailConcat
      <4>2. QED
        BY <2>6, <4>1
    <3>4. s[1] \in Markers /\ Clean(Tail(s))
      BY <1>1, <2>2, <3>1, <3>3 DEF First
    <3>5. Whole(s, w) => Whole(Tail(s), w)
      <4>1. s[1] \in {ByKid, Wants, Not}
        BY <3>4 DEF Markers
      <4>2. QED
        BY <2>2, <3>3, <4>1, WholeTail
    <3>6. l \o d \o s = s /\ l \o Tail(h) \o t = Tail(s)
      <4>1. << >> \o << >> = << >> /\ << >> \o s = s /\ << >> \o Tail(h) = Tail(h)
        BY <2>2, <3>3, ConcatEmptySeq
      <4>2. QED
        BY <3>2, <3>3, <4>1
    <3>7. Clean(Tail(h)) /\ Clean(t)
      <4>1. PICK u \in Seq(Int) : u = Tail(h)
        BY <3>3
      <4>2. AllIn(u \o t, Int \ Markers)
        BY <3>3, <3>4, <4>1 DEF Clean
      <4>3. AllIn(u, Int \ Markers) /\ AllIn(t, Int \ Markers)
        BY <2>6, <4>2, AllInParts
      <4>4. QED
        BY <4>1, <4>3 DEF Clean
    <3>8. Data(now.circ) = Tail(h) /\ sock'[b] = t
      BY <2>2, <2>3, <2>9
    <3>9. fe'.cb[b] = now /\ (now.write_err <=> fe.cb[b].write_err)
      BY <2>2
    <3>10. QED
      BY <2>4, <2>7, <3>5, <3>6, <3>7, <3>8, <3>9
  <2>10. QED
    BY <2>8, <2>9
<1>5. QED
  BY <1>2, <1>3, <1>4 DEF Output, Carried

LEMMA AllInTail ==
  ASSUME NEW h \in Seq(Int), h # << >>, NEW V, AllIn(h, V)
  PROVE  AllIn(Tail(h), V)
<1>1. PICK l : l = Len(h)
  OBVIOUS
<1>2. l \in Nat /\ l > 0
  BY <1>1, EmptySeq
<1>3. Tail(h) = SubSeq(h, 1 + 1, l)
  BY <1>1, TailIsSubSeq
<1>4. 1 \in 0 .. l
  BY <1>2
<1>5. QED
  BY <1>1, <1>3, <1>4, AllInCut

LEMMA ReadEmptied ==
  ASSUME IInv, NEW b \in Bufs, NEW n, NEW now, NEW first, Copies(b, now),
         ReadDoes(b, n, now, first)
  PROVE  Emptied'
<1>1. Types /\ Buffers /\ Emptied
  BY DEF IInv
<1>2. /\ UNCHANGED ended
      /\ \A k \in Bufs : k # b => sock'[k] = sock[k] /\ fe'.cb[k] = fe.cb[k]
      /\ fe'.read_stopped = IF n > 0 THEN fe.read_stopped ELSE fe.read_stopped \cup {b}
  BY <1>1, ReadTakes DEF ReadDoes, Copies
<1>3. /\ fe'.stop_sock_reads = fe.stop_sock_reads /\ fe'.backend_exited = fe.backend_exited
      /\ fe'.am_child = fe.am_child /\ fe.pc = "io"
  BY DEF Copies
<1>4. ASSUME NEW k \in Outputs, k # b
      PROVE  /\ fe.stop_sock_reads /\ k \in fe'.read_stopped => NoOwn(sock'[k])
             /\ ended => \/ fe'.cb[k].write_err
                         \/ NoOwn(Data(fe'.cb[k].circ)) /\ NoOwn(sock'[k])
  <2>1. sock'[k] = sock[k] /\ fe'.cb[k] = fe.cb[k]
    BY <1>2, <1>4, BufFacts
  <2>2. k \in fe'.read_stopped => k \in fe.read_stopped
    BY <1>2, <1>4
  <2>3. QED
    BY <1>1, <2>1, <2>2 DEF Emptied
<1>5. ASSUME b \in Outputs
      PROVE  /\ fe.stop_sock_reads /\ b \in fe'.read_stopped => NoOwn(sock'[b])
             /\ ended => \/ fe'.cb[b].write_err
                         \/ NoOwn(Data(fe'.cb[b].circ)) /\ NoOwn(sock'[b])
  <2>1. PICK s, m, d, f : ReadMoves(b, n, now, f, s, m, d)
    BY <1>5, ReadMovesIs
  <2>2. /\ s \in Seq(Int) /\ Len(s) = m /\ n \in 0 .. m /\ d \in Seq(Int)
        /\ s = sock[b] /\ d = Data(fe.cb[b].circ)
        /\ sock'[b] = SubSeq(s, n + 1, m) /\ (n = 0 => m = 0)
        /\ (f <=> ~fe.got_stdout /\ b = 1 /\ n > 0)
        /\ fe'.cb[b] = now /\ now.write_err = fe.cb[b].write_err
        /\ ~f => Data(now.circ) = d \o SubSeq(s, 1, n)
        /\ f => Data(now.circ) = Tail(SubSeq(s, 1, n))
    BY <2>1 DEF ReadMoves
  <2>3. PICK h, t : /\ h = SubSeq(s, 1, n) /\ t = SubSeq(s, n + 1, m)
                    /\ h \in Seq(Int) /\ Len(h) = n
    BY <2>2, Cut
  <2>4. h \in Seq(Int) /\ d \in Seq(Int)
    BY <2>2, <2>3
  <2>5. NoOwn(s) => NoOwn(h) /\ NoOwn(t)
    BY <2>2, <2>3, AllInCut DEF NoOwn
  <2>6. NoOwn(d) /\ NoOwn(h) => NoOwn(Data(now.circ))
    <3>1. NoOwn(d) /\ NoOwn(h) => NoOwn(d \o h)
      BY <2>4, AllInConcat DEF NoOwn
    <3>2. f /\ NoOwn(h) => NoOwn(Tail(h))
      <4>1. f => h # << >>
        BY <2>2, <2>3
      <4>2. QED
        BY <2>4, <4>1, AllInTail DEF NoOwn
    <3>3. QED
      BY <2>2, <2>3, <3>1, <3>2
  <2>7. fe.stop_sock_reads /\ b \in fe'.read_stopped => NoOwn(sock'[b])
    <3>1. CASE n = 0
      <4>1. sock'[b] = << >>
        BY <2>1, <2>2, <3>1, NothingRead
      <4>2. QED
        BY <4>1, AllInEmpty DEF NoOwn
    <3>2. CASE n # 0
      <4>1. n > 0 /\ fe'.read_stopped = fe.read_stopped
        BY <1>2, <2>2, <3>2
      <4>2. QED
        BY <1>1, <1>5, <2>2, <2>3, <2>5, <4>1 DEF Emptied
    <3>3. QED
      BY <3>1, <3>2
  <2>8. ended => fe.cb[b].write_err \/ (NoOwn(d) /\ NoOwn(s))
    BY <1>1, <1>5, <2>2 DEF Emptied
  <2>9. QED
    BY <2>2, <2>3, <2>5, <2>6, <2>7, <2>8
<1>6. QED
  BY <1>1, <1>2, <1>3, <1>4, <1>5 DEF Emptied

LEMMA ReadStep ==
  ASSUME IInv, Read
  PROVE  IInv'
<1>1. PICK b \in Bufs : \E n, now, first : Copies(b, now) /\ ReadDoes(b, n, now, first)
  BY ReadCopies
<1>2. PICK n, now, first : Copies(b, now) /\ ReadDoes(b, n, now, first)
  BY <1>1
<1>3. Types'
  <2>1. Types /\ sock' \in [Bufs -> Seq(Int)] /\ sock'[0] = sock[0]
    BY <1>2, ReadTakes DEF IInv
  <2>2. src' \in [left : Nat, avail : Nat, next : Nat \ {0}, eof : BOOLEAN]
    BY <1>2, <2>1, ReadTakes
  <2>3. IsFe(fe') /\ UNCHANGED <<ended, sig, be, kid, status, sink, load>>
    BY <1>2 DEF Copies, ReadDoes
  <2>4. QED
    BY <2>1, <2>2, <2>3 DEF Types
<1>4. Buffers' /\ Turn(fe)' /\ DoneWith(fe)' /\ Signals' /\ Lives'
  BY <1>2, CopiesKept DEF ReadDoes
<1>5. Input' /\ Eofs'
  BY <1>2, ReadInput, ReadEofs
<1>6. Output' /\ First'
  BY <1>2, ReadOutput, ReadFirst
<1>7. Emptied'
  BY <1>2, ReadEmptied
<1>8. QED
  BY <1>3, <1>4, <1>5, <1>6, <1>7 DEF IInv

-----------------------------------------------------------------------------
(* Writing *)

\* m bytes, d, are in buffer b; n of them are written, or it cannot be written any more.
WriteDoes(b, n, now, m, d) ==
  /\ d \in Seq(Int) /\ Len(d) = m /\ n \in 0 .. m /\ n <= WriteRoom(b)
  /\ d = Data(fe.cb[b].circ)
  /\ ~fe.cb[b].write_err /\ (b = 1 => fe.got_stdout)
  /\ fe'.got_stdout = fe.got_stdout /\ fe'.read_stopped = fe.read_stopped
  /\ now.eof = fe.cb[b].eof
  /\ Broken(b) => now.write_err /\ Data(now.circ) = << >> /\ UNCHANGED <<sock, sink>>
  /\ ~Broken(b) =>
       /\ ~now.write_err /\ Data(now.circ) = SubSeq(d, n + 1, m)
       /\ IF b = 0 THEN sock' = [sock EXCEPT ![0] = @ \o SubSeq(d, 1, n)] /\ UNCHANGED sink
          ELSE /\ sink' = [sink EXCEPT ![b].room = @ - n, ![b].log = @ \o SubSeq(d, 1, n)]
               /\ UNCHANGED sock
  /\ UNCHANGED <<ended, sig, be, kid, status, src, load>>

LEMMA RoomIs ==
  ASSUME Types, NEW b \in Bufs
  PROVE  WriteRoom(b) \in Nat
<1>1. CASE b = 0
  <2>1. PICK s, l : s = sock[0] /\ l = Len(s)
    OBVIOUS
  <2>2. s \in Seq(Int) /\ l <= SockSize /\ SockSize \in Nat
    BY <2>1, FrontendIOAssumption, BufFacts DEF Types
  <2>3. l \in Nat
    BY <2>1, <2>2, LenProperties
  <2>4. SockSize - l \in Nat
    BY <2>2, <2>3
  <2>5. QED
    BY <1>1, <2>1, <2>4 DEF WriteRoom
<1>2. CASE b # 0
  BY <1>2, Typed, BufFacts DEF WriteRoom
<1>3. QED
  BY <1>1, <1>2

LEMMA WriteCopies ==
  ASSUME IInv, Write
  PROVE  \E b \in Bufs : \E n, now, m, d : Copies(b, now) /\ WriteDoes(b, n, now, m, d)
<1>1. /\ Types /\ Buffers /\ Turn(fe) /\ DoneWith(fe) /\ Signals /\ First
  BY DEF IInv
<1>2. /\ fe.pc = "io" /\ ~fe.do_read /\ fe.do_write
      /\ UNCHANGED <<ended, sig, be, kid, status, src, load>>
  BY DEF Write
<1>3. IsFe(fe)
  BY <1>1 DEF Types
<1>4. PICK b : b = fe.i
  OBVIOUS
<1>5. b \in Bufs
  BY <1>3, <1>4, FeFields
<1>6. PICK cb, x, d, m : cb = fe.cb[b] /\ x = MaxSz[b] /\ d = Data(cb.circ) /\ m = Len(d)
  OBVIOUS
<1>7. /\ x \in Nat /\ IsCb(cb, x) /\ d \in Seq(Int) /\ cb_data_len(cb) = m /\ m \in Nat
  BY <1>1, <1>5, <1>6, IsBuffer, LenProperties
<1>8. m # 0 /\ ~cb.write_err /\ (b = 1 => fe.got_stdout)
  <2>1. cb_canwrite(cb)
    BY <1>1, <1>2, <1>4, <1>6 DEF Turn
  <2>2. m # 0 /\ ~cb.write_err
    BY <1>7, <2>1 DEF cb_canwrite
  <2>3. QED
    BY <1>1, <1>6, <1>7, <2>2 DEF First
<1>9. PICK room \in Nat : room = WriteRoom(b)
  BY <1>1, <1>5, RoomIs
<1>10. PICK n : n = IF m < room THEN m ELSE room
  OBVIOUS
<1>11. n \in 0 .. m /\ n <= room
  BY <1>7, <1>9, <1>10
<1>12. PICK now : now = IF Broken(b) THEN cb_write_failed(cb) ELSE cb_wrote(cb, n)
  OBVIOUS
<1>13. PICK f : f = [fe EXCEPT !.cb[b] = now, !.do_write = FALSE]
  OBVIOUS
<1>14. PICK r \in BOOLEAN : r = (my_canread(f, b) /\ cb_data_len(now) < m)
  OBVIOUS
<1>15. PICK y : y = [f EXCEPT !.do_read = r]
  OBVIOUS
<1>16. Continue(y)
  <2>1. PICK B \in {fe.i} : \E data \in {Data(fe.cb[B].circ)} :
           LET N == IF Len(data) < WriteRoom(B) THEN Len(data) ELSE WriteRoom(B)
           IN  \E new \in {IF Broken(B) THEN cb_write_failed(fe.cb[B]) ELSE cb_wrote(fe.cb[B], N)} :
               \E g \in {[fe EXCEPT !.cb[B] = new, !.do_write = FALSE]} :
                  Continue([g EXCEPT !.do_read = my_canread(g, B) /\ cb_data_len(new) < Len(data)])
    BY Zenon DEF Write
  <2>2. PICK data \in {Data(fe.cb[B].circ)} :
           LET N == IF Len(data) < WriteRoom(B) THEN Len(data) ELSE WriteRoom(B)
           IN  \E new \in {IF Broken(B) THEN cb_write_failed(fe.cb[B]) ELSE cb_wrote(fe.cb[B], N)} :
               \E g \in {[fe EXCEPT !.cb[B] = new, !.do_write = FALSE]} :
                  Continue([g EXCEPT !.do_read = my_canread(g, B) /\ cb_data_len(new) < Len(data)])
    BY <2>1, Zenon
  <2>3. PICK N : N = IF Len(data) < WriteRoom(B) THEN Len(data) ELSE WriteRoom(B)
    OBVIOUS
  <2>4. PICK new \in {IF Broken(B) THEN cb_write_failed(fe.cb[B]) ELSE cb_wrote(fe.cb[B], N)} :
               \E g \in {[fe EXCEPT !.cb[B] = new, !.do_write = FALSE]} :
                  Continue([g EXCEPT !.do_read = my_canread(g, B) /\ cb_data_len(new) < Len(data)])
    BY <2>2, <2>3, Zenon
  <2>5. PICK g \in {[fe EXCEPT !.cb[B] = new, !.do_write = FALSE]} :
               Continue([g EXCEPT !.do_read = my_canread(g, B) /\ cb_data_len(new) < Len(data)])
    BY <2>4, Zenon
  <2>6. B = b /\ data = d
    BY <1>4, <1>6
  <2>7. N = n
    BY <1>6, <1>9, <1>10, <2>3, <2>6
  <2>8. new = now
    BY <1>6, <1>12, <2>6, <2>7
  <2>9. g = f
    BY <1>13, <2>6, <2>8
  <2>10. Continue([f EXCEPT !.do_read = my_canread(f, b) /\ cb_data_len(now) < m])
    BY <1>6, <2>5, <2>6, <2>8, <2>9, Zenon
  <2>11. QED
    BY <1>14, <1>15, <2>10, Zenon
<1>17. IF Broken(b) THEN UNCHANGED <<sock, sink>>
       ELSE IF b = 0 THEN sock' = [sock EXCEPT ![0] = @ \o SubSeq(d, 1, n)] /\ UNCHANGED sink
       ELSE /\ sink' = [sink EXCEPT ![b].room = @ - n, ![b].log = @ \o SubSeq(d, 1, n)]
            /\ UNCHANGED sock
  <2>1. PICK B \in {fe.i} : \E data \in {Data(fe.cb[B].circ)} :
           LET N == IF Len(data) < WriteRoom(B) THEN Len(data) ELSE WriteRoom(B)
               out == SubSeq(data, 1, N)
           IN  IF Broken(B) THEN UNCHANGED <<sock, sink>>
               ELSE IF B = 0 THEN sock' = [sock EXCEPT ![0] = @ \o out] /\ UNCHANGED sink
               ELSE /\ sink' = [sink EXCEPT ![B].room = @ - N, ![B].log = @ \o out]
                    /\ UNCHANGED sock
    BY Zenon DEF Write
  <2>2. PICK data \in {Data(fe.cb[B].circ)} :
           LET N == IF Len(data) < WriteRoom(B) THEN Len(data) ELSE WriteRoom(B)
               out == SubSeq(data, 1, N)
           IN  IF Broken(B) THEN UNCHANGED <<sock, sink>>
               ELSE IF B = 0 THEN sock' = [sock EXCEPT ![0] = @ \o out] /\ UNCHANGED sink
               ELSE /\ sink' = [sink EXCEPT ![B].room = @ - N, ![B].log = @ \o out]
                    /\ UNCHANGED sock
    BY <2>1, Zenon
  <2>3. B = b /\ data = d
    BY <1>4, <1>6
  <2>4. n = IF Len(data) < WriteRoom(B) THEN Len(data) ELSE WriteRoom(B)
    BY <1>6, <1>9, <1>10, <2>3
  <2>5. QED
    BY <2>2, <2>3, <2>4, Zenon
<1>18. /\ IsCb(now, x) /\ now.eof = cb.eof
       /\ Broken(b) => now.write_err /\ Data(now.circ) = << >> /\ cb_data_len(now) = 0
       /\ ~Broken(b) => ~now.write_err /\ Data(now.circ) = SubSeq(d, n + 1, m)
  <2>1. CASE Broken(b)
    <3>1. now = cb_write_failed(cb)
      BY <1>12, <2>1
    <3>2. IsCb(now, x) /\ now.write_err = TRUE /\ now.eof = cb.eof /\ cb_data_len(now) = 0
      BY <1>7, <3>1, CbFails
    <3>3. Data(now.circ) = << >>
      <4>1. Data(now.circ) \in Seq(Int) /\ Len(Data(now.circ)) = cb_data_len(now)
        BY <1>7, <3>2, CbFacts
      <4>2. QED
        BY <3>2, <4>1, EmptySeq
    <3>4. QED
      BY <2>1, <3>2, <3>3
  <2>2. CASE ~Broken(b)
    <3>1. now = cb_wrote(cb, n)
      BY <1>12, <2>2
    <3>2. n \in 0 .. cb_data_len(cb)
      BY <1>7, <1>11
    <3>3. IsCb(now, x) /\ HasWritten(cb, now, n)
      BY <1>7, <3>1, <3>2, CbWrites
    <3>4. now.write_err = cb.write_err /\ now.eof = cb.eof /\ Data(now.circ) = SubSeq(d, n + 1, m)
      BY <1>6, <1>7, <3>3 DEF HasWritten
    <3>5. QED
      BY <1>8, <2>2, <3>3, <3>4
  <2>3. QED
    BY <2>1, <2>2
<1>19. /\ IsFe(y) /\ y.pc = fe.pc /\ y.i = fe.i /\ y.ready = fe.ready /\ y.closed = fe.closed
       /\ y.cb[b] = now /\ \A k \in Bufs : k # b => y.cb[k] = fe.cb[k]
       /\ y.stop_sock_reads = fe.stop_sock_reads /\ y.backend_exited = fe.backend_exited
       /\ y.am_child = fe.am_child /\ y.sig_pipe = fe.sig_pipe /\ y.got_sig = fe.got_sig
       /\ y.read_stopped = fe.read_stopped /\ y.got_stdout = fe.got_stdout
       /\ y.do_read = r /\ ~y.do_write /\ SameBufs(f, y)
  <2>1. PICK C : fe \in FeShape(C)
    BY <1>3 DEF IsFe
  <2>2. PICK cbs : cbs = [fe.cb EXCEPT ![b] = now]
    OBVIOUS
  <2>3. /\ cbs \in [Bufs -> C \cup {now}] /\ cbs[b] = now
        /\ \A k \in Bufs : k # b => cbs[k] = fe.cb[k]
    <3>1. fe.cb \in [Bufs -> C]
      BY <2>1 DEF FeShape
    <3>2. QED
      BY <1>5, <2>2, <3>1
  <2>4. f = [fe EXCEPT !.cb = cbs, !.do_write = FALSE]
    BY <1>13, <2>2
  <2>5. f \in FeShape(C \cup {now})
    BY <2>1, <2>3, <2>4 DEF FeShape
  <2>6. /\ f.pc = fe.pc /\ f.i = fe.i /\ f.ready = fe.ready /\ f.closed = fe.closed
        /\ f.cb = cbs /\ f.got_stdout = fe.got_stdout /\ f.read_stopped = fe.read_stopped
        /\ f.stop_sock_reads = fe.stop_sock_reads /\ f.backend_exited = fe.backend_exited
        /\ f.am_child = fe.am_child /\ f.sig_pipe = fe.sig_pipe /\ f.got_sig = fe.got_sig
        /\ ~f.do_write
    BY <2>1, <2>4 DEF FeShape
  <2>7. y \in FeShape(C \cup {now})
    BY <1>14, <1>15, <2>5 DEF FeShape
  <2>8. /\ y.pc = f.pc /\ y.i = f.i /\ y.ready = f.ready /\ y.closed = f.closed
        /\ y.cb = f.cb /\ y.got_stdout = f.got_stdout /\ y.read_stopped = f.read_stopped
        /\ y.stop_sock_reads = f.stop_sock_reads /\ y.backend_exited = f.backend_exited
        /\ y.am_child = f.am_child /\ y.sig_pipe = f.sig_pipe /\ y.got_sig = f.got_sig
        /\ y.do_write = f.do_write /\ y.do_read = r
    BY <1>15, <2>5 DEF FeShape
  <2>9. QED
    BY <2>3, <2>6, <2>7, <2>8 DEF IsFe, SameBufs
<1>20. y.do_read => my_canread(y, y.i)
  <2>1. my_canread(y, b) = my_canread(f, b)
    BY <1>19, SameReads
  <2>2. QED
    BY <1>4, <1>14, <1>19, <2>1
<1>21. DoneWith(y)
  <2>1. ASSUME NEW k \in Bufs, <<k, "r">> \in y.closed
        PROVE  y.cb[k].eof \/ (y.cb[k].write_err /\ (k # 1 \/ y.got_stdout))
    BY <1>1, <1>6, <1>8, <1>18, <1>19, <2>1 DEF DoneWith
  <2>2. ASSUME NEW k \in Bufs, <<k, "w">> \in y.closed
        PROVE  y.cb[k].write_err \/ (y.cb[k].eof /\ cb_data_len(y.cb[k]) = 0)
    <3>1. k # b
      BY <1>1, <1>6, <1>7, <1>8, <1>19, <2>2 DEF DoneWith
    <3>2. QED
      BY <1>1, <1>19, <2>2, <3>1 DEF DoneWith
  <2>3. QED
    BY <2>1, <2>2 DEF DoneWith
<1>22. GoesOn(y, fe')
  BY <1>2, <1>16, <1>19, <1>20, <1>21, Continues
<1>23. Woke(y)
  BY <1>1, <1>2, <1>19 DEF Signals, Woke
<1>24. /\ Copies(b, now) /\ fe'.got_stdout = y.got_stdout /\ fe'.read_stopped = y.read_stopped
  BY <1>2, <1>6, <1>18, <1>19, <1>22, <1>23, CopiesOn
<1>25. WriteDoes(b, n, now, m, d)
  BY <1>2, <1>6, <1>7, <1>8, <1>9, <1>11, <1>17, <1>18, <1>19, <1>24 DEF WriteDoes
<1>26. QED
  BY <1>5, <1>24, <1>25

\* Where the n bytes of d go that were written
PutsOut(b, n, d) ==
  IF b = 0 THEN sock'[0] = sock[0] \o SubSeq(d, 1, n)
           ELSE sink'[b].log = sink[b].log \o SubSeq(d, 1, n)

LEMMA WritePuts ==
  ASSUME IInv, NEW b \in Bufs, NEW n, NEW now, NEW m, NEW d, Copies(b, now),
         WriteDoes(b, n, now, m, d)
  PROVE  /\ sock' \in [Bufs -> Seq(Int)] /\ Len(sock'[0]) <= SockSize
         /\ sink' \in [Outputs -> [room : Nat, log : Seq(Int), reader : BOOLEAN]]
         /\ \A k \in Outputs : sock'[k] = sock[k]
         /\ \A k \in Outputs : k # b => sink'[k] = sink[k]
         /\ \A k \in Bufs : k # b => fe'.cb[k] = fe.cb[k]
         /\ b # 0 => sock'[0] = sock[0]
         /\ Broken(b) => UNCHANGED <<sock, sink>>
         /\ ~Broken(b) => PutsOut(b, n, d)
<1>1. Types
  BY DEF IInv
<1>2. /\ sock \in [Bufs -> Seq(Int)] /\ Len(sock[0]) <= SockSize
      /\ sink \in [Outputs -> [room : Nat, log : Seq(Int), reader : BOOLEAN]]
  BY <1>1 DEF Types
<1>3. /\ d \in Seq(Int) /\ Len(d) = m /\ n \in 0 .. m /\ n <= WriteRoom(b)
  BY DEF WriteDoes
<1>4. \A k \in Bufs : k # b => fe'.cb[k] = fe.cb[k]
  BY DEF Copies
<1>5. PICK h : h = SubSeq(d, 1, n) /\ h \in Seq(Int) /\ Len(h) = n
  BY <1>3, Cut
<1>6. CASE Broken(b)
  <2>1. UNCHANGED <<sock, sink>>
    BY <1>6 DEF WriteDoes
  <2>2. QED
    BY <1>2, <1>4, <1>6, <2>1
<1>7. CASE ~Broken(b) /\ b = 0
  <2>1. sock' = [sock EXCEPT ![0] = sock[0] \o h] /\ UNCHANGED sink
    BY <1>5, <1>7 DEF WriteDoes
  <2>2. PICK s, l : s = sock[0] /\ l = Len(s)
    OBVIOUS
  <2>3. s \in Seq(Int) /\ l \in Nat /\ n \in Nat /\ SockSize \in Nat /\ n <= SockSize - l
    <3>1. s \in Seq(Int)
      BY <1>2, <2>2, BufFacts
    <3>2. n <= SockSize - l
      BY <1>3, <1>7, <2>2 DEF WriteRoom
    <3>3. QED
      BY <1>3, <2>2, <3>1, <3>2, LenProperties, FrontendIOAssumption
  <2>4. s \o h \in Seq(Int) /\ Len(s \o h) = l + n
    <3>1. s \in Seq(Int) /\ h \in Seq(Int) /\ Len(s) = l /\ Len(h) = n
      BY <1>5, <2>2, <2>3
    <3>2. s \o h \in Seq(Int)
      BY <3>1, ConcatProperties
    <3>3. Len(s \o h) = Len(s) + Len(h)
      BY <3>1, ConcatProperties
    <3>4. QED
      BY <3>1, <3>2, <3>3
  <2>5. PICK u : u = s \o h
    OBVIOUS
  <2>6. sock' = [sock EXCEPT ![0] = u] /\ u \in Seq(Int) /\ Len(u) <= SockSize
    BY <2>1, <2>2, <2>3, <2>4, <2>5
  <2>7. /\ sock' \in [Bufs -> Seq(Int)] /\ sock'[0] = u
        /\ \A k \in Outputs : sock'[k] = sock[k]
    BY <1>2, <2>6, BufFacts
  <2>8. PutsOut(b, n, d)
    BY <1>5, <1>7, <2>2, <2>5, <2>7 DEF PutsOut
  <2>9. QED
    BY <1>2, <1>4, <1>7, <2>1, <2>6, <2>7, <2>8
<1>8. CASE ~Broken(b) /\ b # 0
  <2>1. b \in Outputs
    BY <1>8, BufFacts
  <2>2. PICK c, l : c = sink[b].room /\ l = sink[b].log
    OBVIOUS
  <2>3. c \in Nat /\ l \in Seq(Int) /\ n <= c
    BY <1>1, <1>3, <1>8, <2>1, <2>2, Typed DEF WriteRoom
  <2>4. PICK x, u : x = c - n /\ u = l \o h
    OBVIOUS
  <2>5. x \in Nat
    BY <1>3, <2>3, <2>4
  <2>6. u \in Seq(Int)
    BY <1>5, <2>3, <2>4, ConcatProperties
  <2>7. sink' = [sink EXCEPT ![b].room = x, ![b].log = u] /\ UNCHANGED sock
    BY <1>5, <1>8, <2>2, <2>4 DEF WriteDoes
  <2>8. PICK sb : sb = [sink[b] EXCEPT !.room = x, !.log = u]
    OBVIOUS
  <2>9. sb \in [room : Nat, log : Seq(Int), reader : BOOLEAN] /\ sb.log = u
    BY <1>2, <2>1, <2>5, <2>6, <2>8
  <2>10. sink' = [sink EXCEPT ![b] = sb]
    BY <1>2, <2>1, <2>7, <2>8
  <2>11. /\ sink' \in [Outputs -> [room : Nat, log : Seq(Int), reader : BOOLEAN]]
         /\ sink'[b] = sb /\ \A k \in Outputs : k # b => sink'[k] = sink[k]
    BY <1>2, <2>1, <2>9, <2>10
  <2>12. PutsOut(b, n, d)
    BY <1>5, <1>8, <2>2, <2>4, <2>9, <2>11 DEF PutsOut
  <2>13. QED
    BY <1>2, <1>4, <1>8, <2>7, <2>11, <2>12
<1>9. QED
  BY <1>6, <1>7, <1>8

LEMMA WriteInput ==
  ASSUME IInv, NEW b \in Bufs, NEW n, NEW now, NEW m, NEW d, Copies(b, now),
         WriteDoes(b, n, now, m, d)
  PROVE  Input'
<1>1. Types /\ Buffers /\ Input
  BY DEF IInv
<1>2. UNCHANGED <<be, src>>
  BY DEF WriteDoes
<1>3. CASE b = 0
  <2>1. PICK g, s, h, t, all : /\ g = be.got /\ s = sock[0] /\ all = Stream(src.next - 1)
                               /\ h = SubSeq(d, 1, n) /\ t = SubSeq(d, n + 1, m)
    OBVIOUS
  <2>2. g \in Seq(Int) /\ s \in Seq(Int) /\ d \in Seq(Int)
    BY <1>1, <2>1, Typed, BufFacts DEF WriteDoes
  <2>3. h \in Seq(Int) /\ t \in Seq(Int) /\ h \o t = d
    <3>1. Len(d) = m /\ n \in 0 .. m
      BY DEF WriteDoes
    <3>2. QED
      BY <2>1, <2>2, <3>1, Cut
  <2>4. g \o s \in Seq(Int) /\ (g \o s) \o d \in Seq(Int)
    BY <2>2, Regrouped
  <2>5. (g \o s) \o d = all
    <3>1. ~fe.cb[0].write_err /\ d = Data(fe.cb[0].circ)
      BY <1>3 DEF WriteDoes
    <3>2. PICK rest : g \o s \o d \o rest = all /\ rest = << >>
      BY <1>1, <2>1, <3>1 DEF Input
    <3>3. g \o s \o d \o << >> = all
      BY <3>2
    <3>4. QED
      BY <2>4, <3>3, ConcatEmptySeq
  <2>6. be'.got = g /\ Stream(src'.next - 1) = all /\ fe'.cb[0] = now
    BY <1>2, <1>3, <2>1 DEF Copies
  <2>7. CASE Broken(b)
    <3>1. sock'[0] = s /\ now.write_err /\ Data(now.circ) = << >>
      BY <2>1, <2>7 DEF WriteDoes
    <3>2. g \o s \o << >> \o d = all
      BY <2>4, <2>5, ConcatEmptySeq
    <3>3. be'.got \o sock'[0] \o Data(fe'.cb[0].circ) \o d = Stream(src'.next - 1)
      BY <2>6, <3>1, <3>2
    <3>4. fe'.cb[0].write_err
      BY <2>6, <3>1
    <3>5. QED
      BY <2>2, <3>3, <3>4 DEF Input
  <2>8. CASE ~Broken(b)
    <3>1. sock'[0] = s \o h
      <4>1. PutsOut(b, n, d)
        BY <2>8, WritePuts
      <4>2. QED
        BY <1>3, <2>1, <4>1 DEF PutsOut
    <3>2. Data(now.circ) = t
      BY <2>1, <2>8 DEF WriteDoes
    <3>3. g \o (s \o h) \o t = all
      <4>1. HandsOver(g, s, h, t)
        BY <2>2, <2>3, MovedBack
      <4>2. QED
        BY <2>3, <2>5, <4>1 DEF HandsOver
    <3>4. s \o h \in Seq(Int)
      BY <2>2, <2>3, Regrouped
    <3>5. PICK u : u = g \o (s \o h) \o t
      OBVIOUS
    <3>6. u \in Seq(Int)
      BY <2>4, <2>5, <3>3, <3>5
    <3>7. u \o << >> = all
      BY <3>3, <3>5, <3>6, ConcatEmptySeq
    <3>8. be'.got \o sock'[0] \o Data(fe'.cb[0].circ) \o << >> = Stream(src'.next - 1)
      BY <2>6, <3>1, <3>2, <3>5, <3>7
    <3>9. << >> \in Seq(Int)
      OBVIOUS
    <3>10. QED
      BY <3>8, <3>9 DEF Input
  <2>9. QED
    BY <2>7, <2>8
<1>4. CASE b # 0
  <2>1. sock'[0] = sock[0] /\ fe'.cb[0] = fe.cb[0]
    BY <1>4, WritePuts, BufFacts
  <2>2. QED
    BY <1>1, <1>2, <2>1 DEF Input
<1>5. QED
  BY <1>3, <1>4

LEMMA WriteOutput ==
  ASSUME IInv, NEW b \in Bufs, NEW n, NEW now, NEW m, NEW d, Copies(b, now),
         WriteDoes(b, n, now, m, d)
  PROVE  Output'
<1>1. Types /\ Buffers /\ Output
  BY DEF IInv
<1>2. UNCHANGED be /\ fe'.got_stdout = fe.got_stdout /\ \A k \in Outputs : sock'[k] = sock[k]
  BY WritePuts DEF WriteDoes
<1>3. ASSUME NEW k \in Outputs, k # b
      PROVE  /\ IF fe'.cb[k].write_err THEN Begins(sink'[k].log, be.wrote[k])
                   ELSE Whole(sink'[k].log \o Data(fe'.cb[k].circ) \o sock[k], be.wrote[k])
             /\ Clean(sink'[k].log) /\ Clean(Data(fe'.cb[k].circ))
             /\ k = 2 \/ fe.got_stdout => Clean(sock[k])
  <2>1. sink'[k] = sink[k] /\ fe'.cb[k] = fe.cb[k]
    BY <1>3, WritePuts, BufFacts
  <2>2. QED
    BY <1>1, <2>1 DEF Output, Carried
<1>4. ASSUME b \in Outputs
      PROVE  /\ IF fe'.cb[b].write_err THEN Begins(sink'[b].log, be.wrote[b])
                   ELSE Whole(sink'[b].log \o Data(fe'.cb[b].circ) \o sock[b], be.wrote[b])
             /\ Clean(sink'[b].log) /\ Clean(Data(fe'.cb[b].circ))
             /\ b = 2 \/ fe.got_stdout => Clean(sock[b])
  <2>1. PICK l, s, h, t, w : /\ l = sink[b].log /\ s = sock[b] /\ w = be.wrote[b]
                             /\ h = SubSeq(d, 1, n) /\ t = SubSeq(d, n + 1, m)
    OBVIOUS
  <2>2. d \in Seq(Int) /\ Len(d) = m /\ n \in 0 .. m /\ d = Data(fe.cb[b].circ) /\ ~fe.cb[b].write_err
    BY DEF WriteDoes
  <2>3. l \in Seq(Int) /\ s \in Seq(Int)
    BY <1>1, <1>4, <2>1, Typed
  <2>4. h \in Seq(Int) /\ t \in Seq(Int)
    BY <2>1, <2>2, Cut
  <2>5. Whole(l \o d \o s, w) /\ Clean(l) /\ Clean(d) /\ (b = 2 \/ fe.got_stdout => Clean(s))
    BY <1>1, <1>4, <2>1, <2>2 DEF Output, Carried
  <2>6. fe'.cb[b] = now
    BY DEF Copies
  <2>7. CASE Broken(b)
    <3>1. sink'[b].log = l /\ now.write_err /\ Data(now.circ) = << >>
      BY <2>1, <2>7 DEF WriteDoes
    <3>2. Begins(l, w)
      <4>1. PICK u : u = l \o d
        OBVIOUS
      <4>2. u \in Seq(Int)
        BY <2>2, <2>3, <4>1, Regrouped
      <4>3. Begins(u \o s, w)
        BY <2>5, <4>1 DEF Whole
      <4>4. Begins(u, w)
        BY <2>3, <4>2, <4>3, BeginsFront
      <4>5. QED
        BY <2>2, <2>3, <4>1, <4>4, BeginsFront
    <3>3. Clean(<< >>)
      BY AllInEmpty DEF Clean
    <3>4. QED
      BY <2>1, <2>5, <2>6, <3>1, <3>2, <3>3
  <2>8. CASE ~Broken(b)
    <3>1. sink'[b].log = l \o h
      <4>1. b # 0
        BY <1>4, BufFacts
      <4>2. PutsOut(b, n, d)
        BY <2>8, WritePuts
      <4>3. QED
        BY <2>1, <4>1, <4>2 DEF PutsOut
    <3>2. ~now.write_err /\ Data(now.circ) = t
      BY <2>1, <2>8 DEF WriteDoes
    <3>3. (l \o h) \o t = l \o d
      <4>1. (l \o h) \o t = l \o (h \o t)
        BY <2>3, <2>4, Regrouped
      <4>2. h \o t = d
        BY <2>1, <2>2, Cut
      <4>3. QED
        BY <4>1, <4>2
    <3>4. Clean(h) /\ Clean(t)
      BY <2>1, <2>2, <2>5, AllInCut DEF Clean
    <3>5. Clean(l \o h)
      BY <2>3, <2>4, <2>5, <3>4, AllInConcat DEF Clean
    <3>6. QED
      BY <2>1, <2>5, <2>6, <3>1, <3>2, <3>3, <3>4, <3>5
  <2>9. QED
    BY <2>7, <2>8
<1>5. QED
  BY <1>2, <1>3, <1>4 DEF Output, Carried

LEMMA WriteRest ==
  ASSUME IInv, NEW b \in Bufs, NEW n, NEW now, NEW m, NEW d, Copies(b, now),
         WriteDoes(b, n, now, m, d)
  PROVE  Eofs' /\ First' /\ Emptied'
<1>1. Eofs /\ First /\ Emptied
  BY DEF IInv
<1>2. /\ UNCHANGED <<be, kid, ended>> /\ fe'.got_stdout = fe.got_stdout
      /\ fe'.read_stopped = fe.read_stopped /\ now.eof = fe.cb[b].eof
      /\ d \in Seq(Int) /\ Len(d) = m /\ n \in 0 .. m /\ d = Data(fe.cb[b].circ)
      /\ (b = 1 => fe.got_stdout) /\ ~fe.cb[b].write_err
  BY DEF WriteDoes
<1>3. /\ fe'.cb[b] = now /\ fe.pc = "io"
      /\ fe'.stop_sock_reads = fe.stop_sock_reads /\ fe'.backend_exited = fe.backend_exited
      /\ fe'.am_child = fe.am_child
  BY DEF Copies
<1>4. /\ \A k \in Outputs : sock'[k] = sock[k]
      /\ \A k \in Outputs : k # b => sink'[k] = sink[k] /\ fe'.cb[k] = fe.cb[k]
  BY WritePuts, BufFacts
<1>5. Eofs'
  <2>1. ASSUME NEW k \in Outputs PROVE fe'.cb[k].eof = fe.cb[k].eof
    BY <1>2, <1>3, <1>4
  <2>2. QED
    BY <1>1, <1>2, <1>4, <2>1 DEF Eofs, Held
<1>6. First'
  <2>1. ~fe.got_stdout => sink'[1] = sink[1] /\ fe'.cb[1] = fe.cb[1]
    BY <1>2, <1>4, BufFacts
  <2>2. sock'[1] = sock[1]
    BY <1>4, BufFacts
  <2>3. QED
    BY <1>1, <1>2, <2>1, <2>2 DEF First
<1>7. Emptied'
  <2>1. ASSUME NEW k \in Outputs, ended
        PROVE  fe'.cb[k].write_err \/ (NoOwn(Data(fe'.cb[k].circ)) /\ NoOwn(sock'[k]))
    <3>1. CASE k = b
      <4>1. NoOwn(d) /\ NoOwn(sock[b])
        BY <1>1, <1>2, <2>1, <3>1 DEF Emptied
      <4>2. NoOwn(SubSeq(d, n + 1, m))
        BY <1>2, <4>1, AllInCut DEF NoOwn
      <4>3. now.write_err \/ Data(now.circ) = SubSeq(d, n + 1, m)
        BY DEF WriteDoes
      <4>4. QED
        BY <1>3, <1>4, <3>1, <4>1, <4>2, <4>3
    <3>2. CASE k # b
      BY <1>1, <1>4, <2>1, <3>2 DEF Emptied
    <3>3. QED
      BY <3>1, <3>2
  <2>2. QED
    BY <1>1, <1>2, <1>3, <1>4, <2>1 DEF Emptied
<1>8. QED
  BY <1>5, <1>6, <1>7

LEMMA WriteStep ==
  ASSUME IInv, Write
  PROVE  IInv'
<1>1. PICK b \in Bufs : \E n, now, m, d : Copies(b, now) /\ WriteDoes(b, n, now, m, d)
  BY WriteCopies
<1>2. PICK n, now, m, d : Copies(b, now) /\ WriteDoes(b, n, now, m, d)
  BY <1>1
<1>3. Types'
  <2>1. Types
    BY DEF IInv
  <2>2. /\ sock' \in [Bufs -> Seq(Int)] /\ Len(sock'[0]) <= SockSize
        /\ sink' \in [Outputs -> [room : Nat, log : Seq(Int), reader : BOOLEAN]]
    BY <1>2, WritePuts
  <2>3. IsFe(fe') /\ UNCHANGED <<ended, sig, be, kid, status, src, load>>
    BY <1>2 DEF Copies, WriteDoes
  <2>4. QED
    BY <2>1, <2>2, <2>3 DEF Types
<1>4. Buffers' /\ Turn(fe)' /\ DoneWith(fe)' /\ Signals' /\ Lives'
  BY <1>2, CopiesKept DEF WriteDoes
<1>5. Input' /\ Output'
  BY <1>2, WriteInput, WriteOutput
<1>6. Eofs' /\ First' /\ Emptied'
  BY <1>2, WriteRest
<1>7. QED
  BY <1>3, <1>4, <1>5, <1>6 DEF IInv

-----------------------------------------------------------------------------
(* The start *)

LEMMA StreamIs ==
  ASSUME NEW n \in Nat
  PROVE  Stream(n) \in Seq(Int) /\ Len(Stream(n)) = n
<1>1. [k \in 1 .. n |-> k] \in Seq(Int)
  OBVIOUS
<1>2. Len([k \in 1 .. n |-> k]) = n
  OBVIOUS
<1>3. QED
  BY <1>1, <1>2 DEF Stream

\* The copy buffers at the start, those of descriptors that are closed marked
Starts(closed0, cb, b) ==
  /\ IsCb(cb, MaxSz[b])
  /\ Data(cb.circ) = IF b = 0 THEN Stream(Header) ELSE << >>
  /\ b # 0 => cb_data_len(cb) = 0
  /\ cb.eof <=> b = 0 /\ b \in closed0
  /\ cb.write_err <=> b # 0 /\ b \in closed0

Made(cb, b) ==
  cb = IF b = 0 THEN cb_init(MaxSz[0], Stream(Header), Header) ELSE cb_init(MaxSz[b], << >>, 0)

Marked(closed0, cb, new, b) ==
  new = IF b \notin closed0 THEN cb
        ELSE IF b = 0 THEN [cb EXCEPT !.eof = TRUE] ELSE [cb EXCEPT !.write_err = TRUE]

LEMMA BufferStarts ==
  ASSUME NEW closed0, NEW b \in Bufs, NEW cb, NEW new, Made(cb, b), Marked(closed0, cb, new, b)
  PROVE  Starts(closed0, new, b)
<1>1. PICK m \in Nat : m = MaxSz[b]
  BY FrontendIOAssumption
<1>2. PICK s : s = IF b = 0 THEN Stream(Header) ELSE << >>
  OBVIOUS
<1>3. /\ IsCb(cb, m) /\ Data(cb.circ) = s /\ cb.eof = FALSE /\ cb.write_err = FALSE
      /\ b # 0 => cb_data_len(cb) = 0
  <2>1. CASE b = 0
    <3>1. Header \in Nat /\ Header <= m
      BY <1>1, <2>1, FrontendIOAssumption
    <3>2. s \in Seq(Int) /\ Len(s) <= Header
      BY <1>2, <2>1, <3>1, StreamIs
    <3>3. cb = cb_init(m, s, Header)
      BY <1>1, <1>2, <2>1 DEF Made
    <3>4. IsCb(cb, m) /\ Contains(cb, s) /\ cb.eof = FALSE /\ cb.write_err = FALSE
      <4>1. m \in Nat /\ s \in Seq(Int) /\ Header \in Nat /\ Len(s) <= Header /\ Header <= m
        BY <3>1, <3>2
      <4>2. QED
        BY <3>3, <4>1, CbStarts
    <3>5. QED
      BY <2>1, <3>4 DEF Contains
  <2>2. CASE b # 0
    <3>1. s \in Seq(Int) /\ Len(s) = 0
      BY <1>2, <2>2
    <3>2. cb = cb_init(m, s, 0)
      BY <1>1, <1>2, <2>2 DEF Made
    <3>3. Len(s) <= 0 /\ 0 <= m
      BY <3>1
    <3>4. IsCb(cb, m) /\ Contains(cb, s) /\ cb.eof = FALSE /\ cb.write_err = FALSE
      <4>1. m \in Nat /\ s \in Seq(Int) /\ 0 \in Nat /\ Len(s) <= 0 /\ 0 <= m
        BY <3>1, <3>3
      <4>2. QED
        BY <3>2, <4>1, CbStarts
    <3>5. QED
      BY <3>1, <3>4 DEF Contains
  <2>3. QED
    BY <2>1, <2>2
<1>4. CASE b \notin closed0
  BY <1>1, <1>2, <1>3, <1>4 DEF Starts, Marked
<1>5. CASE b \in closed0 /\ b = 0
  <2>1. new = [cb EXCEPT !.eof = TRUE]
    BY <1>5 DEF Marked
  <2>2. IsCb(new, m) /\ new.eof = TRUE /\ new.write_err = cb.write_err /\ new.circ = cb.circ
    <3>1. m \in Nat /\ IsCb(cb, m)
      BY <1>3
    <3>2. QED
      BY <2>1, <3>1, CbEnded, Zenon
  <2>3. QED
    BY <1>1, <1>2, <1>3, <1>5, <2>2 DEF Starts
<1>6. CASE b \in closed0 /\ b # 0
  <2>1. new = [cb EXCEPT !.write_err = TRUE]
    BY <1>6 DEF Marked
  <2>2. IsCb(new, m) /\ new.write_err = TRUE /\ new.eof = cb.eof /\ new.circ = cb.circ
    <3>1. m \in Nat /\ IsCb(cb, m)
      BY <1>3
    <3>2. QED
      BY <2>1, <3>1, CbErred
  <2>3. QED
    BY <1>1, <1>2, <1>3, <1>6, <2>2 DEF Starts, cb_data_len
<1>7. QED
  BY <1>4, <1>5, <1>6

\* The frontend once it is connected
IsNew(f, closed0) ==
  /\ IsFe(f) /\ DoneWith(f)
  /\ \A b \in Bufs : Starts(closed0, f.cb[b], b)
  /\ ~f.got_stdout /\ ~f.stop_sock_reads /\ f.read_stopped = {} /\ ~f.backend_exited
  /\ ~f.am_child /\ ~f.got_sig /\ f.sig_pipe = 0 /\ SigFd \notin f.ready

LEMMA NewCloses ==
  ASSUME NEW closed0, NEW f, IsNew(f, closed0), NEW b \in Bufs, NEW g, g = try_close(f, b)
  PROVE  IsNew(g, closed0)
<1>1. /\ IsFe(g) /\ SameState(f, g) /\ DoneWith(g) /\ g.ready = f.ready
  BY Closes DEF IsNew
<1>2. QED
  BY <1>1 DEF IsNew, SameState, SameBufs

LEMMA ConnectedIs ==
  ASSUME NEW closed0 \in SUBSET Bufs, NEW f, f = Connected(closed0)
  PROVE  IsNew(f, closed0) /\ Turn(f) /\ f.pc \in {"io", "poll"}
<1>1. PICK cbs : cbs = [b \in Bufs |-> IF b = 0 THEN cb_init(MaxSz[0], Stream(Header), Header)
                                              ELSE cb_init(MaxSz[b], << >>, 0)]
  OBVIOUS
<1>2. PICK fixed : fixed = [b \in Bufs |-> IF b \notin closed0 THEN cbs[b]
                                           ELSE IF b = 0 THEN [cbs[b] EXCEPT !.eof = TRUE]
                                           ELSE [cbs[b] EXCEPT !.write_err = TRUE]]
  OBVIOUS
<1>3. PICK shut : shut = {<<b, IF b = 0 THEN "r" ELSE "w">> : b \in closed0}
  OBVIOUS
<1>4. PICK f0 : f0 = [ pc |-> "io", i |-> 0, do_read |-> FALSE, do_write |-> FALSE,
                       cb |-> fixed, ready |-> {}, got_stdout |-> FALSE,
                       stop_sock_reads |-> FALSE, read_stopped |-> {}, backend_exited |-> FALSE,
                       am_child |-> FALSE, got_sig |-> FALSE, sig_pipe |-> 0,
                       closed |-> shut ]
  OBVIOUS
<1>5. PICK rd : rd = PollSet(f0) \ {<<1, "w">>, <<2, "w">>}
  OBVIOUS
<1>6. PICK f1 : f1 = [f0 EXCEPT !.ready = rd]
  OBVIOUS
<1>7. PICK g0, g1, g2 : g0 = try_close(f1, 0) /\ g1 = try_close(g0, 1) /\ g2 = try_close(g1, 2)
  OBVIOUS
<1>8. f = Resume(g2, 0)
  BY <1>1, <1>2, <1>3, <1>4, <1>5, <1>6, <1>7, Zenon DEF Connected
<1>9. \A b \in Bufs : Starts(closed0, fixed[b], b)
  <2>1. SUFFICES ASSUME NEW b \in Bufs PROVE Starts(closed0, fixed[b], b)
    OBVIOUS
  <2>2. PICK cb, new : cb = cbs[b] /\ new = fixed[b]
    OBVIOUS
  <2>3. Made(cb, b)
    BY <1>1, <2>2 DEF Made
  <2>4. Marked(closed0, cb, new, b)
    BY <1>2, <2>2 DEF Marked
  <2>5. Starts(closed0, new, b)
    BY <2>3, <2>4, BufferStarts
  <2>6. QED
    BY <2>2, <2>5
<1>10. PICK C : C = {fixed[b] : b \in Bufs}
  OBVIOUS
<1>11. fixed \in [Bufs -> C]
  BY <1>2, <1>10
<1>12. shut \subseteq Fds
  BY <1>3 DEF Fds, Ends, Bufs
<1>13. f0 \in FeShape(C)
  <2>1. 0 \in Bufs
    BY BufFacts
  <2>2. QED
    BY <1>4, <1>11, <1>12, <2>1 DEF FeShape
<1>14. rd \subseteq Fds /\ SigFd \notin rd
  BY <1>5 DEF PollSet, Fds, Ends, Bufs, SigFd
<1>15. f1 \in FeShape(C) /\ f1.ready = rd
  BY <1>6, <1>13, <1>14 DEF FeShape
<1>16. /\ f1.cb = fixed /\ f1.closed = shut
       /\ ~f1.got_stdout /\ ~f1.stop_sock_reads /\ f1.read_stopped = {} /\ ~f1.backend_exited
       /\ ~f1.am_child /\ ~f1.got_sig /\ f1.sig_pipe = 0
  BY <1>4, <1>6, <1>13 DEF FeShape
<1>17. DoneWith(f1)
  <2>1. ASSUME NEW b \in Bufs, <<b, "r">> \in shut PROVE fixed[b].eof
    <3>1. b = 0 /\ b \in closed0
      BY <1>3, <2>1
    <3>2. QED
      BY <1>9, <3>1 DEF Starts
  <2>2. ASSUME NEW b \in Bufs, <<b, "w">> \in shut PROVE fixed[b].write_err
    <3>1. b # 0 /\ b \in closed0
      BY <1>3, <2>2
    <3>2. QED
      BY <1>9, <3>1 DEF Starts
  <2>3. QED
    BY <1>16, <2>1, <2>2 DEF DoneWith
<1>18. IsNew(f1, closed0)
  BY <1>9, <1>14, <1>15, <1>16, <1>17 DEF IsNew, IsFe
<1>19. IsNew(g2, closed0)
  <2>1. IsNew(g0, closed0)
    BY <1>7, <1>18, NewCloses, BufFacts
  <2>2. IsNew(g1, closed0)
    BY <1>7, <2>1, NewCloses, BufFacts
  <2>3. QED
    BY <1>7, <2>2, NewCloses, BufFacts
<1>20. Resumes(g2, f)
  <2>1. 0 \in 0 .. 3
    OBVIOUS
  <2>2. QED
    BY <1>8, <1>19, <2>1, Resumed DEF IsNew
<1>21. QED
  BY <1>19, <1>20 DEF IsNew, Resumes, SameState, SameBufs, DoneWith

LEMMA WholeEmpty ==
  Whole(<< >>, 0) /\ Begins(<< >>, 0)
<1>1. DOMAIN << >> = {}
  OBVIOUS
<1>2. \A k : k \notin Own(<< >>)
  BY <1>1 DEF Own
<1>3. QED
  BY <1>2 DEF Whole, Begins

LEMMA InitInv ==
  ASSUME Init
  PROVE  IInv
<1>1. /\ fe = Connected(load.closed) /\ ended = FALSE /\ sig = FALSE
      /\ be = [pc |-> "header", open |-> Bufs, got |-> << >>, wrote |-> [b \in Outputs |-> 0]]
      /\ kid = [open |-> {}, wrote |-> FALSE] /\ status = "none"
      /\ sock = [b \in Bufs |-> << >>]
      /\ src = [left |-> load.nin, avail |-> 0, next |-> Header + 1, eof |-> load.nin = 0]
      /\ sink = [b \in Outputs |-> [room |-> PipeSize, log |-> << >>, reader |-> TRUE]]
  BY DEF Init
<1>2. load \in [closed : SUBSET Bufs, nin : Nat, nout : [Outputs -> Nat], odd : Nat]
  BY FrontendIOAssumption DEF Init
<1>3. IsNew(fe, load.closed) /\ Turn(fe) /\ fe.pc \in {"io", "poll"}
  BY <1>1, <1>2, ConnectedIs
<1>4. /\ IsFe(fe) /\ DoneWith(fe) /\ \A b \in Bufs : Starts(load.closed, fe.cb[b], b)
      /\ ~fe.got_stdout /\ ~fe.stop_sock_reads /\ fe.read_stopped = {} /\ ~fe.backend_exited
      /\ ~fe.am_child /\ ~fe.got_sig /\ fe.sig_pipe = 0 /\ SigFd \notin fe.ready
  BY <1>3 DEF IsNew
<1>5. Header \in Nat /\ SockSize \in Nat /\ PipeSize \in Nat
  BY FrontendIOAssumption, BufFacts
<1>6. << >> \in Seq(Int) /\ Len(<< >>) = 0
  OBVIOUS
<1>7. Types
  <2>1. be \in [pc : Early \cup {"script"} \cup Over, open : SUBSET Bufs, got : Seq(Int),
                wrote : [Outputs -> Nat]]
    BY <1>1, <1>6 DEF Early
  <2>2. sock \in [Bufs -> Seq(Int)] /\ Len(sock[0]) <= SockSize
    BY <1>1, <1>5, <1>6, BufFacts
  <2>3. src \in [left : Nat, avail : Nat, next : Nat \ {0}, eof : BOOLEAN]
    BY <1>1, <1>2, <1>5
  <2>4. sink \in [Outputs -> [room : Nat, log : Seq(Int), reader : BOOLEAN]]
    BY <1>1, <1>5, <1>6
  <2>5. kid \in [open : SUBSET Bufs, wrote : BOOLEAN] /\ status \in {"none", "posted", "gone"}
    BY <1>1
  <2>6. QED
    BY <1>1, <1>2, <1>4, <2>1, <2>2, <2>3, <2>4, <2>5 DEF Types
<1>8. Buffers
  BY <1>4 DEF Buffers, Starts
<1>9. Signals
  BY <1>1, <1>3, <1>4 DEF Signals, Woke
<1>10. Lives
  BY <1>1, <1>3, <1>4 DEF Lives, Early, Over
<1>11. Input
  <2>1. PICK s \in Seq(Int) : s = Stream(Header)
    BY <1>5, StreamIs
  <2>2. << >> \o << >> = << >> /\ << >> \o s = s /\ s \o << >> = s
    BY <2>1, ConcatEmptySeq, <1>6
  <2>3. << >> \o << >> \o s \o << >> = s
    BY <2>2
  <2>4. be.got = << >> /\ sock[0] = << >>
    BY <1>1, BufFacts
  <2>5. Data(fe.cb[0].circ) = s
    BY <1>4, <2>1, BufFacts DEF Starts
  <2>6. Stream(src.next - 1) = s
    <3>1. src.next - 1 = Header
      BY <1>1, <1>5
    <3>2. QED
      BY <2>1, <3>1
  <2>7. be.got \o sock[0] \o Data(fe.cb[0].circ) \o << >> = Stream(src.next - 1)
    BY <2>3, <2>4, <2>5, <2>6
  <2>8. QED
    BY <1>6, <2>7 DEF Input
<1>12. ASSUME NEW b \in Outputs
       PROVE  /\ ~fe.cb[b].eof /\ sock[b] = << >> /\ sink[b].log = << >> /\ be.wrote[b] = 0
              /\ Data(fe.cb[b].circ) = << >> /\ cb_data_len(fe.cb[b]) = 0
  <2>1. b \in Bufs /\ b # 0
    BY BufFacts
  <2>2. Starts(load.closed, fe.cb[b], b)
    BY <1>4, <2>1
  <2>3. ~fe.cb[b].eof /\ Data(fe.cb[b].circ) = << >> /\ cb_data_len(fe.cb[b]) = 0
    BY <2>1, <2>2 DEF Starts
  <2>4. sock[b] = << >> /\ sink[b].log = << >> /\ be.wrote[b] = 0
    BY <1>1, <2>1
  <2>5. QED
    BY <2>3, <2>4
<1>13. Eofs
  BY <1>12 DEF Eofs
<1>14. Output
  <2>1. ASSUME NEW b \in Outputs PROVE Carried(b) = << >>
    <3>1. << >> \o << >> = << >>
      BY <1>6, ConcatEmptySeq
    <3>2. QED
      BY <1>12, <3>1 DEF Carried
  <2>2. Clean(<< >>)
    BY AllInEmpty DEF Clean
  <2>3. QED
    BY <1>12, <2>1, <2>2, WholeEmpty DEF Output
<1>15. First
  BY <1>1, <1>4, <1>12, BufFacts DEF First
<1>16. Emptied
  BY <1>1, <1>4 DEF Emptied
<1>17. QED
  BY <1>3, <1>4, <1>7, <1>8, <1>9, <1>10, <1>11, <1>13, <1>14, <1>15, <1>16 DEF IInv

-----------------------------------------------------------------------------
(* The steps together *)

LEMMA FrontendStep ==
  ASSUME IInv, Frontend
  PROVE  IInv'
<1>1. CASE Read
  BY <1>1, ReadStep
<1>2. CASE Write
  BY <1>2, WriteStep
<1>3. CASE AfterExit
  BY <1>3, AfterExitStep
<1>4. CASE Collect
  BY <1>4, CollectStep
<1>5. CASE Ack
  BY <1>5, AckStep
<1>6. CASE Poll
  BY <1>6, PollStep
<1>7. QED
  BY <1>1, <1>2, <1>3, <1>4, <1>5, <1>6 DEF Frontend

LEMMA OthersStep ==
  ASSUME IInv, Others
  PROVE  IInv'
<1>1. CASE BeRead
  BY <1>1, BeReadStep
<1>2. CASE BeProto2
  BY <1>2, BeProto2Step
<1>3. CASE BeGetCwd
  BY <1>3, BeGetCwdStep
<1>4. CASE BeForks
  BY <1>4, BeForksStep
<1>5. CASE BeEnds
  BY <1>5, BeEndsStep
<1>6. CASE BePosts
  BY <1>6, BePostsStep
<1>7. CASE KidCloses
  BY <1>7, KidClosesStep
<1>8. ASSUME NEW b \in Bufs, BeCloses(b) PROVE IInv'
  BY <1>8, BeClosesStep
<1>9. ASSUME NEW b \in Outputs, BeWrite(b) PROVE IInv'
  BY <1>9, BeWriteOpen, BeWriteClosed
<1>10. ASSUME NEW b \in Outputs, KidWrites(b) PROVE IInv'
  BY <1>10, KidWritesOpen, KidWritesClosed
<1>11. ASSUME NEW b \in Outputs, Consume(b) PROVE IInv'
  BY <1>11, ConsumeStep
<1>12. ASSUME NEW b \in Outputs, ReaderLeaves(b) PROVE IInv'
  BY <1>12, ReaderLeavesStep
<1>13. CASE Produce
  BY <1>13, ProduceStep
<1>14. CASE StdinEnds
  BY <1>14, StdinEndsStep
<1>15. QED
  BY <1>1, <1>2, <1>3, <1>4, <1>5, <1>6, <1>7, <1>8, <1>9, <1>10, <1>11, <1>12, <1>13, <1>14
     DEF Others

LEMMA StutterStep ==
  ASSUME IInv, UNCHANGED vars
  PROVE  IInv'
<1>1. /\ Types /\ Buffers /\ Turn(fe) /\ DoneWith(fe) /\ Signals /\ Lives
      /\ Input /\ Eofs /\ Output /\ First /\ Emptied
  BY DEF IInv
<1>2. UNCHANGED <<fe, ended, sig, be, kid, status, sock, cwd, src, sink, load>>
  BY DEF vars
<1>3. Types' /\ Buffers' /\ Turn(fe)' /\ DoneWith(fe)'
  BY <1>1, <1>2 DEF Types, Buffers, Turn, DoneWith
<1>4. Signals' /\ Lives'
  BY <1>1, <1>2 DEF Signals, Lives
<1>5. Input' /\ Eofs'
  BY <1>1, <1>2 DEF Input, Eofs, Held
<1>6. Output' /\ First' /\ Emptied'
  BY <1>1, <1>2 DEF Output, Carried, First, Emptied
<1>7. QED
  BY <1>3, <1>4, <1>5, <1>6 DEF IInv

LEMMA StepInv ==
  ASSUME IInv, [Next]_vars
  PROVE  IInv'
<1>1. CASE Frontend
  BY <1>1, FrontendStep
<1>2. CASE catch_sig
  BY <1>2, CatchStep
<1>3. CASE Others
  BY <1>3, OthersStep
<1>4. CASE UNCHANGED vars
  BY <1>4, StutterStep
<1>5. QED
  BY <1>1, <1>2, <1>3, <1>4 DEF Next

LEMMA FrontendInv == Spec => []IInv
<1>1. Init => IInv
  BY InitInv
<1>2. IInv /\ [Next]_vars => IInv'
  BY StepInv
<1>3. QED
  BY <1>1, <1>2, PTL DEF Spec

-----------------------------------------------------------------------------
(* The theorems *)

\* The frontend and the slot have the values they should, and no copy buffer
\* ever holds more than it has room for or grows past its limit (speedy_cb.c).
THEOREM FrontendTypes == Spec => []TypeOK
<1>1. IInv => TypeOK
  <2>1. SUFFICES ASSUME IInv PROVE TypeOK
    OBVIOUS
  <2>2. Types /\ Buffers /\ Signals
    BY <2>1 DEF IInv
  <2>3. fe.pc \in {"io", "check", "ack", "poll", "end"} /\ fe.i \in Bufs
    BY <2>2, FeFields DEF Types
  <2>4. fe.sig_pipe \in 0 .. 4 /\ status \in {"none", "posted", "gone"}
    BY <2>2 DEF Signals, Types
  <2>5. ASSUME NEW b \in Bufs
        PROVE  /\ fe.cb[b].circ.data_len \in 0 .. fe.cb[b].circ.buf_len
               /\ fe.cb[b].circ.buf_len <= fe.cb[b].maxsz
    <3>1. PICK cb, m : cb = fe.cb[b] /\ m = MaxSz[b]
      OBVIOUS
    <3>2. m \in Nat /\ IsCb(cb, m)
      BY <2>2, <3>1, IsBuffer
    <3>3. /\ cb_data_len(cb) = cb.circ.data_len /\ cb_data_len(cb) \in Nat
          /\ cb_data_len(cb) <= cb.circ.buf_len /\ cb.circ.buf_len \in Nat
          /\ cb.circ.buf_len <= m /\ cb.maxsz = m
      BY <3>2, CbFacts
    <3>4. QED
      BY <3>1, <3>3
  <2>6. QED
    BY <2>3, <2>4, <2>5 DEF TypeOK
<1>2. QED
  BY <1>1, FrontendInv, PTL

\* Whenever doit reads a descriptor there is room, which cb_read gets by
\* growing the buffer: the 0 that a read into no room returns is never taken
\* for the end of file.
THEOREM NeverReadsIntoNoRoom == Spec => []RoomToRead
<1>1. IInv => RoomToRead
  <2>1. SUFFICES ASSUME IInv, fe.pc = "io", fe.do_read
                 PROVE  cb_free_len(fe.cb[fe.i]) > 0 /\ cb_room(fe.cb[fe.i]) > 0
    BY DEF RoomToRead
  <2>2. Types /\ Buffers /\ First /\ Turn(fe)
    BY <2>1 DEF IInv
  <2>3. PICK b : b = fe.i
    OBVIOUS
  <2>4. b \in Bufs /\ my_canread(fe, b)
    BY <2>1, <2>2, <2>3, FeFields DEF Turn, Types
  <2>5. PICK cb, m : cb = fe.cb[b] /\ m = MaxSz[b]
    OBVIOUS
  <2>6. cb_free_len(cb) > 0 /\ cb_free_len(cb) # 0
    BY <2>2, <2>4, <2>5, ReadGuard
  <2>7. m \in Nat /\ IsCb(cb, m)
    BY <2>2, <2>4, <2>5, IsBuffer
  <2>8. cb_room(cb) > 0
    <3>1. PICK c, e, w : c = cb.circ /\ e = cb.eof /\ w = cb.write_err
      OBVIOUS
    <3>2. /\ cb = CopyBuf(c, m, e, w) /\ IsQueue(c) /\ c.buf_len <= m
          /\ cb_data_len(cb) = c.data_len /\ cb_data_len(cb) \in Nat
          /\ cb_free_len(cb) = m - cb_data_len(cb)
      BY <2>7, <3>1, CbFacts
    <3>3. c.data_len # m
      BY <2>6, <2>7, <3>2
    <3>4. PICK g : IsQueue(g) /\ cb_room(cb) = g.buf_len - g.data_len /\ g.data_len < g.buf_len
      BY <2>7, <3>2, <3>3, CbGrows
    <3>5. g.buf_len \in Nat /\ g.data_len \in Nat
      BY <3>4, QueueFacts
    <3>6. QED
      BY <3>4, <3>5
  <2>9. QED
    BY <2>3, <2>5, <2>6, <2>8
<1>2. QED
  BY <1>1, FrontendInv, PTL

\* A descriptor that try_close closed is not polled, read or written again,
\* where another file could have its number by then.
THEOREM ClosedStayAlone == Spec => []NoClosedFd
<1>1. IInv => NoClosedFd
  <2>1. SUFFICES ASSUME IInv PROVE NoClosedFd
    OBVIOUS
  <2>2. DoneWith(fe) /\ Turn(fe) /\ Types
    BY <2>1 DEF IInv
  <2>3. ASSUME NEW b \in Bufs
        PROVE  /\ my_canread(fe, b) => <<b, "r">> \notin fe.closed
               /\ cb_canwrite(fe.cb[b]) => <<b, "w">> \notin fe.closed
    BY <2>2 DEF DoneWith, my_canread, cb_canread, cb_canwrite
  <2>4. ASSUME NEW fd \in PollSet(fe) PROVE fd \notin fe.closed
    BY <2>3 DEF PollSet
  <2>5. fe.pc = "io" => <<fe.i, IF fe.do_read THEN "r" ELSE "w">> \notin fe.closed
    <3>1. fe.i \in Bufs
      BY <2>2, FeFields DEF Types
    <3>2. QED
      BY <2>2, <2>3, <3>1 DEF Turn
  <2>6. QED
    BY <2>4, <2>5 DEF NoClosedFd
<1>2. QED
  BY <1>1, FrontendInv, PTL

LEMMA PrefixOfConcat ==
  ASSUME NEW g \in Seq(Int), NEW t \in Seq(Int)
  PROVE  IsPrefixOf(g, g \o t)
<1>1. PICK l, m, u : l = Len(g) /\ m = Len(t) /\ u = g \o t
  OBVIOUS
<1>2. /\ u \in Seq(Int) /\ Len(u) = l + m /\ l \in Nat /\ m \in Nat
      /\ \A k \in 1 .. l + m : u[k] = IF k <= l THEN g[k] ELSE t[k - l]
  BY <1>1, Concat
<1>3. l \in 0 .. l + m
  BY <1>2
<1>4. PICK v : v = SubSeq(u, 1, l)
  OBVIOUS
<1>5. v \in Seq(Int) /\ Len(v) = l /\ \A k \in 1 .. l : v[k] = u[k]
  BY <1>2, <1>3, <1>4, Cut
<1>6. OnFirst(v, l) /\ OnFirst(g, l)
  BY <1>1, <1>5, SeqOnFirst
<1>7. \A k \in 1 .. l : v[k] = g[k]
  BY <1>2, <1>5
<1>8. v = g
  BY <1>6, <1>7, ByElements
<1>9. QED
  BY <1>1, <1>2, <1>4, <1>8 DEF IsPrefixOf

\* The header and stdin reach the backend in order and once; what it has not
\* read is in its socket or the buffer, unless it closed its end (doit, cb_read,
\* cb_write).
THEOREM StdinInOrder == Spec => []InputInOrder
<1>1. IInv => InputInOrder
  <2>1. SUFFICES ASSUME IInv PROVE InputInOrder
    OBVIOUS
  <2>2. Types /\ Buffers /\ Input
    BY <2>1 DEF IInv
  <2>3. PICK g, s, d, all : /\ g = be.got /\ s = sock[0] /\ d = Data(fe.cb[0].circ)
                            /\ all = Stream(src.next - 1)
    OBVIOUS
  <2>4. g \in Seq(Int) /\ s \in Seq(Int) /\ d \in Seq(Int)
    BY <2>2, <2>3, Typed, BufFacts, IsBuffer
  <2>5. PICK rest : /\ rest \in Seq(Int) /\ g \o s \o d \o rest = all
                    /\ ~fe.cb[0].write_err => rest = << >>
    BY <2>2, <2>3 DEF Input
  <2>6. g \o s \in Seq(Int) /\ (g \o s) \o d \in Seq(Int)
    BY <2>4, Regrouped
  <2>7. ~fe.cb[0].write_err => g \o s \o d = all
    BY <2>5, <2>6, ConcatEmptySeq
  <2>8. IsPrefixOf(g, all)
    <3>1. PICK u : u = s \o d \o rest
      OBVIOUS
    <3>2. u \in Seq(Int) /\ g \o u = all
      <4>1. s \o d \in Seq(Int) /\ (g \o s) \o d = g \o (s \o d)
        BY <2>4, Regrouped
      <4>2. PICK x : x = s \o d
        OBVIOUS
      <4>3. x \in Seq(Int) /\ g \o x \o rest = all
        BY <2>5, <4>1, <4>2
      <4>4. g \in Seq(Int) /\ x \in Seq(Int) /\ rest \in Seq(Int)
        BY <2>4, <2>5, <4>3
      <4>5. x \o rest \in Seq(Int)
        BY <4>4, ConcatProperties
      <4>6. (g \o x) \o rest = g \o (x \o rest)
        BY <4>4, Regrouped
      <4>7. QED
        BY <3>1, <4>2, <4>3, <4>5, <4>6
    <3>3. QED
      BY <2>4, <3>2, PrefixOfConcat
  <2>9. QED
    BY <2>3, <2>7, <2>8 DEF InputInOrder
<1>2. QED
  BY <1>1, FrontendInv, PTL

\* A backend that asks for the current directory is answered, unless the
\* frontend cannot write its stderr and has closed the socket the answer
\* goes through (speedy_frontend_proto2, do_proto2).
THEOREM CwdIsAnswered == Spec => []CwdAnswered
<1>1. IInv => CwdAnswered
  BY DEF IInv, Lives, CwdAnswered
<1>2. QED
  BY <1>1, FrontendInv, PTL

\* What the script writes to stdout and stderr comes out in order and once,
\* without the byte for proto2, or is in the buffer and the socket; whatever
\* the sizes of the buffers and however the reads and writes are cut.
THEOREM StdoutInOrder == Spec => []OutputInOrder
<1>1. IInv => OutputInOrder
  <2>1. SUFFICES ASSUME IInv PROVE OutputInOrder
    OBVIOUS
  <2>2. Output
    BY <2>1 DEF IInv
  <2>3. ASSUME NEW b \in Outputs, NEW k \in DOMAIN sink[b].log
        PROVE  sink[b].log[k] \notin {Wants, Not}
    BY <2>2 DEF Output, Clean, AllIn, Markers
  <2>4. QED
    BY <2>2, <2>3 DEF OutputInOrder, Output
<1>2. QED
  BY <1>1, FrontendInv, PTL

\* When the frontend has returned its status, all that the script wrote has
\* come out on stdout and stderr, although the backend may have been found
\* dead before its sockets were read.
THEOREM NothingLeftBehind == Spec => []OutputComplete
<1>1. IInv => OutputComplete
  <2>1. SUFFICES ASSUME IInv, ended, NEW b \in Outputs, ~fe.cb[b].write_err
                 PROVE  Whole(sink[b].log, be.wrote[b])
    BY DEF OutputComplete
  <2>2. Types /\ Buffers /\ Output /\ Emptied
    BY <2>1 DEF IInv
  <2>3. PICK l, d, s, w : /\ l = sink[b].log /\ d = Data(fe.cb[b].circ) /\ s = sock[b]
                          /\ w = be.wrote[b]
    OBVIOUS
  <2>4. l \in Seq(Int) /\ d \in Seq(Int) /\ s \in Seq(Int)
    BY <2>2, <2>3, Typed, BufFacts, IsBuffer
  <2>5. Whole(l \o d \o s, w)
    BY <2>1, <2>2, <2>3 DEF Output, Carried
  <2>6. NoOwn(d) /\ NoOwn(s)
    BY <2>1, <2>2, <2>3 DEF Emptied
  <2>7. Whole(l \o d, w)
    <3>1. PICK u : u = l \o d
      OBVIOUS
    <3>2. u \in Seq(Int)
      BY <2>4, <3>1, Regrouped
    <3>3. \A k \in DOMAIN s : s[k] \in {ByKid, Wants, Not}
      BY <2>6 DEF NoOwn, AllIn
    <3>4. Whole(u, w)
      BY <2>4, <2>5, <3>1, <3>2, <3>3, WholeRest
    <3>5. QED
      BY <3>1, <3>4
  <2>8. \A k \in DOMAIN d : d[k] \in {ByKid, Wants, Not}
    BY <2>6 DEF NoOwn, AllIn
  <2>9. Whole(l, w)
    BY <2>4, <2>7, <2>8, WholeRest
  <2>10. QED
    BY <2>3, <2>9
<1>2. QED
  BY <1>1, FrontendInv, PTL
=============================================================================
