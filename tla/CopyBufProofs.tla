---------------------------- MODULE CopyBufProofs ----------------------------
(***************************************************************************)
(* The circular buffer of speedy_circ.c is a queue, for every size of the  *)
(* memory, wherever the data begins and however it is wrapped: readv       *)
(* appends, writev takes from the front, and growing the memory changes    *)
(* nothing.  So is the copy buffer of speedy_cb.c: what cb_read reads is   *)
(* appended, what cb_write writes and cb_shift takes out is taken from the *)
(* front, whatever the sizes and however the memory grows.                 *)
(***************************************************************************)
EXTENDS CircBuf, SequenceTheorems, TLAPS

Circ(m, n, b, d) == [buf |-> m, buf_len |-> n, data_beg |-> b, data_len |-> d]

Sound(m, n, b, d) ==
  /\ n \in Nat /\ b \in Nat /\ d \in Nat
  /\ d <= n
  /\ b < n \/ b = 0
  /\ \E S : m \in [0 .. n - 1 -> S]

IsCirc(c) == \E m, n, b, d : c = Circ(m, n, b, d) /\ Sound(m, n, b, d)

\* The cell of the k-th byte from beg on
At(buf_len, beg, k) == IF beg + k <= buf_len THEN beg + k - 1 ELSE beg + k - 1 - buf_len

-----------------------------------------------------------------------------
(* Segments *)

\* get_segs cuts what it is asked for at the end of the memory.
LEMMA SegCells ==
  ASSUME NEW n \in Nat, NEW beg \in Nat, beg < n, NEW len \in Nat, len <= n,
         NEW k \in 1 .. len
  PROVE  Cell(get_segs(n, beg, len), k) = At(n, beg, k)
<1>1. CASE len <= n - beg
  <2>1. get_segs(n, beg, len) = << Seg(beg, len) >>
    BY <1>1 DEF get_segs
  <2>2. << Seg(beg, len) >>[1].base = beg /\ << Seg(beg, len) >>[1].len = len
    BY DEF Seg
  <2>3. Cell(get_segs(n, beg, len), k) = beg + (k - 1)
    BY <2>1, <2>2 DEF Cell
  <2>4. QED
    BY <2>3, <1>1 DEF At
<1>2. CASE ~(len <= n - beg)
  <2> DEFINE s == << Seg(beg, n - beg), Seg(0, len - (n - beg)) >>
  <2>1. get_segs(n, beg, len) = s
    BY <1>2 DEF get_segs
  <2>2. s[1].base = beg /\ s[1].len = n - beg /\ s[2].base = 0
    BY DEF Seg
  <2>3. Cell(s, k) = IF k <= n - beg THEN beg + (k - 1) ELSE 0 + (k - 1 - (n - beg))
    BY <2>2 DEF Cell
  <2>4. QED
    BY <2>1, <2>3 DEF At
<1>3. QED
  BY <1>1, <1>2

\* ... and that is all of it.
LEMMA SegsLength ==
  ASSUME NEW n \in Nat, NEW beg \in Nat, NEW len \in Nat, beg < n, len <= n
  PROVE  SegsLen(get_segs(n, beg, len)) = len
<1>1. CASE len = 0
  BY <1>1 DEF get_segs, SegsLen
<1>2. CASE len # 0 /\ len <= n - beg
  <2>1. get_segs(n, beg, len) = << Seg(beg, len) >>
    BY <1>2 DEF get_segs
  <2>2. Len(<< Seg(beg, len) >>) = 1 /\ << Seg(beg, len) >>[1].len = len
    BY DEF Seg
  <2>3. QED
    BY <2>1, <2>2 DEF SegsLen
<1>3. CASE len # 0 /\ ~(len <= n - beg)
  <2> DEFINE s == << Seg(beg, n - beg), Seg(0, len - (n - beg)) >>
  <2>1. get_segs(n, beg, len) = s
    BY <1>3 DEF get_segs
  <2>2. Len(s) = 2 /\ s[1].len = n - beg /\ s[2].len = len - (n - beg)
    BY DEF Seg
  <2>3. SegsLen(s) = (n - beg) + (len - (n - beg))
    BY <2>2 DEF SegsLen
  <2>4. QED
    BY <2>1, <2>3
<1>4. QED
  BY <1>1, <1>2, <1>3

LEMMA WrapsSum ==
  ASSUME NEW n \in Nat, NEW b \in Nat, NEW d \in Nat, b < n, d <= n
  PROVE  (b + d) % n = IF b + d < n THEN b + d ELSE b + d - n
<1>1. CASE b + d < n
  BY <1>1
<1>2. CASE ~(b + d < n)
  <2>1. PICK y \in Nat : y = b + d - n /\ y < n /\ b + d = n + y
    BY <1>2
  <2>2. (n + y) % n = y
    BY <2>1
  <2>3. QED
    BY <1>2, <2>1, <2>2
<1>3. QED
  BY <1>1, <1>2

LEMMA AtCell ==
  ASSUME NEW n \in Nat, NEW beg \in Nat, beg < n, NEW k \in 1 .. n
  PROVE  At(n, beg, k) \in 0 .. n - 1
  BY DEF At

LEMMA AtInjective ==
  ASSUME NEW n \in Nat, NEW beg \in Nat, beg < n, NEW k \in 1 .. n, NEW j \in 1 .. n,
         At(n, beg, k) = At(n, beg, j)
  PROVE  k = j
  BY DEF At

LEMMA AtShift ==
  ASSUME NEW n \in Nat, NEW beg \in Nat, beg < n, NEW d \in Nat, NEW k \in 1 .. n - d
  PROVE  At(n, IF beg + d < n THEN beg + d ELSE beg + d - n, k) = At(n, beg, d + k)
<1>1. CASE beg + d < n
  <2>1. At(n, beg + d, k) = At(n, beg, d + k)
    BY DEF At
  <2>2. QED
    BY <1>1, <2>1
<1>2. CASE ~(beg + d < n)
  <2>1. At(n, beg + d - n, k) = At(n, beg, d + k)
    BY <1>2 DEF At
  <2>2. QED
    BY <1>2, <2>1
<1>3. QED
  BY <1>1, <1>2

LEMMA Fields ==
  ASSUME NEW m, NEW n, NEW b, NEW d
  PROVE  /\ Circ(m, n, b, d).buf = m /\ Circ(m, n, b, d).buf_len = n
         /\ Circ(m, n, b, d).data_beg = b /\ Circ(m, n, b, d).data_len = d
  BY DEF Circ

LEMMA Refilled ==
  ASSUME NEW m, NEW n, NEW b, NEW d, NEW x
  PROVE  [Circ(m, n, b, d) EXCEPT !.buf = x] = Circ(x, n, b, d)
  BY DEF Circ

\* Where the data of a buffer is, and where the free cells are that follow it.
LEMMA DataCells ==
  ASSUME NEW m, NEW n, NEW b, NEW d, Sound(m, n, b, d), NEW k \in 1 .. d
  PROVE  b < n /\ Data(Circ(m, n, b, d))[k] = m[At(n, b, k)]
<1>1. n \in Nat /\ b \in Nat /\ d \in Nat /\ b < n /\ d <= n
  BY DEF Sound
<1>2. circ_data_segs(Circ(m, n, b, d)) = get_segs(n, b, d)
  BY Fields DEF circ_data_segs
<1>3. Data(Circ(m, n, b, d)) = [i \in 1 .. d |-> m[Cell(get_segs(n, b, d), i)]]
  BY <1>2, Fields DEF Data
<1>4. Cell(get_segs(n, b, d), k) = At(n, b, k)
  BY <1>1, SegCells
<1>5. QED
  BY <1>1, <1>3, <1>4

LEMMA FreeCells ==
  ASSUME NEW m, NEW n, NEW b, NEW d, Sound(m, n, b, d), NEW k \in 1 .. n - d
  PROVE  b < n /\ Cell(circ_free_segs(Circ(m, n, b, d)), k) = At(n, b, d + k)
<1> DEFINE y == IF b + d < n THEN b + d ELSE b + d - n
<1>1. n \in Nat /\ b \in Nat /\ d \in Nat /\ b < n /\ d < n
  BY DEF Sound
<1>2. (b + d) % n = y
  BY <1>1, WrapsSum
<1>3. circ_free_segs(Circ(m, n, b, d)) = get_segs(n, (b + d) % n, n - d)
  BY <1>1, Fields DEF circ_free_segs
<1>4. y \in Nat /\ y < n /\ n - d \in Nat /\ n - d <= n
  BY <1>1
<1>5. At(n, y, k) = At(n, b, d + k)
  BY <1>1, AtShift
<1> HIDE DEF y
<1>6. Cell(get_segs(n, y, n - d), k) = At(n, y, k)
  BY <1>1, <1>4, SegCells
<1>7. QED
  BY <1>1, <1>2, <1>3, <1>5, <1>6

-----------------------------------------------------------------------------
(* adj_len, readv and realloc *)

LEMMA AdjLen ==
  ASSUME NEW m, NEW n, NEW b, NEW d, NEW adjust
  PROVE  circ_adj_len(Circ(m, n, b, d), adjust)
           = Circ(m, n, IF adjust >= 0 THEN b ELSE IF d + adjust = 0 THEN 0 ELSE (b - adjust) % n,
                  d + adjust)
  BY DEF circ_adj_len, Circ

\* writev of w bytes, and cb_shift of one, take the first w bytes out.
THEOREM WriteTakesFirst ==
  ASSUME NEW c, IsCirc(c), NEW w \in 1 .. c.data_len
  PROVE  /\ IsCirc(circ_adj_len(c, -w))
         /\ circ_adj_len(c, -w).data_len = c.data_len - w
         /\ \A k \in 1 .. c.data_len - w : Data(circ_adj_len(c, -w))[k] = Data(c)[w + k]
<1>1. PICK m, n, b, d : c = Circ(m, n, b, d) /\ Sound(m, n, b, d)
  BY DEF IsCirc
<1> DEFINE x == IF d - w = 0 THEN 0 ELSE IF b + w < n THEN b + w ELSE b + w - n
<1>2. c.data_len = d
  BY <1>1, Fields
<1>3. n \in Nat /\ b \in Nat /\ d \in Nat /\ d <= n /\ b < n /\ w \in 1 .. d
  BY <1>1, <1>2 DEF Sound
<1>4. ~(-w >= 0) /\ d + (-w) = d - w /\ b - (-w) = b + w
  BY <1>3
<1>5. (b + w) % n = IF b + w < n THEN b + w ELSE b + w - n
  <2>1. w \in Nat /\ w <= n
    BY <1>3
  <2>2. QED
    BY <1>3, <2>1, WrapsSum
<1>6. circ_adj_len(c, -w) = Circ(m, n, x, d - w)
  BY <1>1, <1>4, <1>5, AdjLen
<1>7. Sound(m, n, x, d - w)
  <2>1. x \in Nat /\ x < n /\ d - w \in Nat /\ d - w <= n
    BY <1>3
  <2>2. QED
    BY <2>1, <1>1, <1>3 DEF Sound
<1>8. ASSUME NEW k \in 1 .. d - w
      PROVE  Data(Circ(m, n, x, d - w))[k] = Data(c)[w + k]
  <2>1. w \in Nat /\ k \in 1 .. n - w /\ w + k \in 1 .. d /\ d - w # 0
    BY <1>3
  <2>2. Data(Circ(m, n, x, d - w))[k] = m[At(n, x, k)]
    BY <1>7, DataCells
  <2>3. At(n, x, k) = At(n, b, w + k)
    <3>1. x = IF b + w < n THEN b + w ELSE b + w - n
      BY <2>1
    <3>2. At(n, IF b + w < n THEN b + w ELSE b + w - n, k) = At(n, b, w + k)
      BY <2>1, <1>3 DEF At
    <3> HIDE DEF x
    <3>3. QED
      BY <3>1, <3>2
  <2>4. Data(c)[w + k] = m[At(n, b, w + k)]
    BY <2>1, <1>1, DataCells
  <2>5. QED
    BY <2>2, <2>3, <2>4
<1>9. QED
  <2>1. IsCirc(Circ(m, n, x, d - w))
    BY <1>7 DEF IsCirc
  <2>2. Circ(m, n, x, d - w).data_len = d - w
    BY Fields
  <2>3. QED
    BY <2>1, <2>2, <1>2, <1>6, <1>8

\* r bytes of any kind
AreBytes(bytes, r) == \E S : bytes \in [1 .. r -> S]

\* readv of r bytes puts them after those that are there.
THEOREM ReadAppends ==
  ASSUME NEW c, IsCirc(c), NEW r \in Nat, r <= c.buf_len - c.data_len,
         NEW bytes, AreBytes(bytes, r), Len(bytes) = r
  PROVE  /\ IsCirc(Filled(c, bytes))
         /\ Filled(c, bytes).buf_len = c.buf_len
         /\ Filled(c, bytes).data_len = c.data_len + r
         /\ \A k \in 1 .. c.data_len : Data(Filled(c, bytes))[k] = Data(c)[k]
         /\ \A k \in 1 .. r : Data(Filled(c, bytes))[c.data_len + k] = bytes[k]
<1>1. PICK m, n, b, d : c = Circ(m, n, b, d) /\ Sound(m, n, b, d)
  BY DEF IsCirc
<1>2. PICK S : bytes \in [1 .. r -> S]
  BY DEF AreBytes
<1> DEFINE free == circ_free_segs(c)
           mem == [p \in 0 .. n - 1 |->
                     IF \E k \in 1 .. r : Cell(free, k) = p
                     THEN bytes[CHOOSE k \in 1 .. r : Cell(free, k) = p]
                     ELSE m[p]]
<1>3. c.buf = m /\ c.buf_len = n /\ c.data_beg = b /\ c.data_len = d
  BY <1>1, Fields
<1>4. n \in Nat /\ b \in Nat /\ d \in Nat /\ d <= n /\ r <= n - d /\ (b < n \/ b = 0)
  BY <1>1, <1>3 DEF Sound
<1>5. PICK T : m \in [0 .. n - 1 -> T]
  BY <1>1 DEF Sound
<1>6. Filled(c, bytes) = Circ(mem, n, b, d + r)
  <2>1. [c EXCEPT !.buf = mem] = Circ(mem, n, b, d)
    <3> HIDE DEF mem
    <3>1. QED
      BY <1>1, Refilled
  <2>2. DOMAIN c.buf = 0 .. n - 1 /\ DOMAIN bytes = 1 .. r
    BY <1>3, <1>5
  <2>3. Filled(c, bytes) = circ_adj_len([c EXCEPT !.buf = mem], r)
    BY <1>3, <2>2 DEF Filled
  <2> HIDE DEF mem
  <2>4. circ_adj_len(Circ(mem, n, b, d), r) = Circ(mem, n, b, d + r)
    BY AdjLen
  <2>5. QED
    BY <2>1, <2>3, <2>4
<1>7. ASSUME NEW k \in 1 .. r
      PROVE  b < n /\ Cell(free, k) = At(n, b, d + k) /\ d + k \in 1 .. n
  <2>1. k \in 1 .. n - d /\ d + k \in 1 .. n
    BY <1>4
  <2>2. QED
    BY <2>1, <1>1, FreeCells
<1>8. \A p \in 0 .. n - 1 : mem[p] = IF \E k \in 1 .. r : Cell(free, k) = p
                                     THEN bytes[CHOOSE k \in 1 .. r : Cell(free, k) = p]
                                     ELSE m[p]
  OBVIOUS
<1>9. Sound(mem, n, b, d + r)
  <2>1. mem \in [0 .. n - 1 -> S \cup T]
    BY <1>2, <1>5
  <2>2. d + r \in Nat /\ d + r <= n
    BY <1>4
  <2> HIDE DEF mem
  <2>3. QED
    BY <2>1, <2>2, <1>4 DEF Sound
<1> HIDE DEF mem, free
<1>10. ASSUME NEW k \in 1 .. d
       PROVE  Data(Circ(mem, n, b, d + r))[k] = Data(c)[k]
  <2>1. k \in 1 .. d + r /\ k \in 1 .. n /\ k <= d
    BY <1>4
  <2>2. b < n /\ Data(Circ(mem, n, b, d + r))[k] = mem[At(n, b, k)]
    BY <2>1, <1>9, DataCells
  <2>3. Data(c)[k] = m[At(n, b, k)]
    BY <1>1, DataCells
  <2>4. At(n, b, k) \in 0 .. n - 1
    BY <2>1, <2>2, <1>4, AtCell
  <2>5. ASSUME NEW i \in 1 .. r, Cell(free, i) = At(n, b, k) PROVE FALSE
    <3>1. At(n, b, d + i) = At(n, b, k) /\ d + i \in 1 .. n
      BY <2>5, <1>7
    <3>2. d + i = k
      BY <3>1, <2>1, <2>2, <1>4, AtInjective
    <3>3. QED
      BY <3>2, <2>1, <1>4
  <2>6. mem[At(n, b, k)] = m[At(n, b, k)]
    BY <2>4, <2>5, <1>8
  <2>7. QED
    BY <2>2, <2>3, <2>6
<1>11. ASSUME NEW k \in 1 .. r
       PROVE  Data(Circ(mem, n, b, d + r))[d + k] = bytes[k]
  <2>1. d + k \in 1 .. d + r /\ d + k \in 1 .. n /\ b < n
    BY <1>4, <1>7
  <2>2. Data(Circ(mem, n, b, d + r))[d + k] = mem[At(n, b, d + k)]
    BY <2>1, <1>9, DataCells
  <2>3. At(n, b, d + k) \in 0 .. n - 1
    BY <2>1, <1>4, AtCell
  <2>4. Cell(free, k) = At(n, b, d + k)
    BY <1>7
  <2>5. ASSUME NEW i \in 1 .. r, Cell(free, i) = At(n, b, d + k) PROVE i = k
    <3>1. At(n, b, d + i) = At(n, b, d + k) /\ d + i \in 1 .. n
      BY <2>5, <1>7
    <3>2. d + i = d + k
      BY <3>1, <2>1, <1>4, AtInjective
    <3>3. QED
      BY <3>2, <1>4
  <2>6. (CHOOSE i \in 1 .. r : Cell(free, i) = At(n, b, d + k)) = k
    BY <2>4, <2>5
  <2>7. mem[At(n, b, d + k)] = bytes[k]
    BY <2>3, <2>4, <2>6, <1>8
  <2>8. QED
    BY <2>2, <2>7
<1>12. QED
  <2>1. IsCirc(Circ(mem, n, b, d + r))
    BY <1>9 DEF IsCirc
  <2>2. Circ(mem, n, b, d + r).buf_len = n /\ Circ(mem, n, b, d + r).data_len = d + r
    BY Fields
  <2>3. QED
    BY <2>1, <2>2, <1>3, <1>6, <1>10, <1>11

\* What growing a buffer must keep: all the bytes, in their order.
KeepsData(c, j, new) ==
  /\ IsCirc(j)
  /\ j.buf_len = new
  /\ j.data_len = c.data_len
  /\ \A k \in 1 .. c.data_len : Data(j)[k] = Data(c)[k]

\* It is enough to find the bytes at their cells.
LEMMA SameBytes ==
  ASSUME NEW m, NEW n, NEW b, NEW d, Sound(m, n, b, d), NEW new \in Nat, n <= new,
         NEW w, NEW e \in Nat, e < new \/ e = 0, NEW U, w \in [0 .. new - 1 -> U],
         \A k \in 1 .. d : w[At(new, e, k)] = m[At(n, b, k)]
  PROVE  KeepsData(Circ(m, n, b, d), Circ(w, new, e, d), new)
<1>1. Sound(w, new, e, d)
  BY DEF Sound
<1>2. IsCirc(Circ(w, new, e, d))
  BY <1>1 DEF IsCirc
<1>3. ASSUME NEW k \in 1 .. d
      PROVE  Data(Circ(w, new, e, d))[k] = Data(Circ(m, n, b, d))[k]
  <2>1. Data(Circ(w, new, e, d))[k] = w[At(new, e, k)]
    BY <1>1, DataCells
  <2>2. Data(Circ(m, n, b, d))[k] = m[At(n, b, k)]
    BY DataCells
  <2>3. QED
    BY <2>1, <2>2
<1>4. /\ Circ(w, new, e, d).buf_len = new /\ Circ(w, new, e, d).data_len = d
      /\ Circ(m, n, b, d).data_len = d
  BY Fields
<1>5. QED
  BY <1>2, <1>3, <1>4 DEF KeepsData

\* A buffer of n bytes that becomes one of new bytes, and the memory after that.
Sizes(n, b, d, new) ==
  n \in Nat /\ b \in Nat /\ d \in Nat /\ new \in Nat /\ b < n /\ d <= n /\ n <= new
Copied(mem, m, n) == \A p \in 0 .. n - 1 : mem[p] = m[p]

\* Data in one piece stays where it is; so does any data when nothing is added.
LEMMA KeptInPlace ==
  ASSUME NEW n, NEW b, NEW d, NEW new, Sizes(n, b, d, new),
         new = n \/ d <= n - b,
         NEW m, NEW mem, Copied(mem, m, n),
         NEW k \in 1 .. d
  PROVE  mem[At(new, b, k)] = m[At(n, b, k)]
<1> USE DEF Sizes
<1>1. At(new, b, k) = At(n, b, k)
  <2>1. CASE new = n
    BY <2>1
  <2>2. CASE d <= n - b
    BY <2>2 DEF At
  <2>3. QED
    BY <2>1, <2>2
<1>2. At(n, b, k) \in 0 .. n - 1
  <2>1. k \in 1 .. n
    OBVIOUS
  <2>2. QED
    BY <2>1, AtCell
<1>3. QED
  BY <1>1, <1>2 DEF Copied

\* The first piece, of n - b bytes, goes to the end of the new memory.
LEMMA FirstMoved ==
  ASSUME NEW n, NEW b, NEW d, NEW new, Sizes(n, b, d, new), n < new, n - b < d,
         NEW m, NEW mem, Copied(mem, m, n),
         NEW e \in Nat, e = new - (n - b), NEW w,
         \A p \in 0 .. new - 1 : w[p] = IF e <= p THEN mem[b + (p - e)] ELSE mem[p],
         NEW k \in 1 .. d
  PROVE  w[At(new, e, k)] = m[At(n, b, k)]
<1> USE DEF Sizes
<1>1. CASE k <= n - b
  <2>1. At(new, e, k) = e + k - 1 /\ At(n, b, k) = b + k - 1
    BY <1>1 DEF At
  <2>2. /\ e + k - 1 \in 0 .. new - 1 /\ e <= e + k - 1
        /\ b + (e + k - 1 - e) = b + k - 1 /\ b + k - 1 \in 0 .. n - 1
    BY <1>1
  <2>3. w[e + k - 1] = mem[b + (e + k - 1 - e)]
    BY <2>2
  <2>4. mem[b + k - 1] = m[b + k - 1]
    BY <2>2 DEF Copied
  <2>5. QED
    BY <2>1, <2>2, <2>3, <2>4
<1>2. CASE ~(k <= n - b)
  <2> DEFINE q == k - 1 - (n - b)
  <2>1. At(new, e, k) = q /\ At(n, b, k) = q
    BY <1>2 DEF At
  <2>2. q \in 0 .. new - 1 /\ ~(e <= q) /\ q \in 0 .. n - 1
    BY <1>2
  <2> HIDE DEF q
  <2>3. w[q] = mem[q] /\ mem[q] = m[q]
    BY <2>2 DEF Copied
  <2>4. QED
    BY <2>1, <2>3
<1>3. QED
  BY <1>1, <1>2

\* The second piece, of two bytes, moved: fit of them first, then the others.
Fits(n, new, two, fit) ==
  /\ two \in Nat /\ fit \in Nat /\ fit <= two /\ fit <= new - n
  /\ fit = two \/ (fit = new - n /\ new - n < two)
FitMoved(first, mem, n, new, fit) ==
  \A p \in 0 .. new - 1 : first[p] = IF n <= p /\ p < n + fit THEN mem[p - n] ELSE mem[p]
RestMoved(w, first, new, two, fit) ==
  \A p \in 0 .. new - 1 : w[p] = IF p < two - fit THEN first[fit + p] ELSE first[p]

\* The second piece goes behind the first, fit bytes of it before the end of the
\* new memory and the others at its beginning.
LEMMA SecondMoved ==
  ASSUME NEW n, NEW b, NEW d, NEW new, Sizes(n, b, d, new), n < new, n - b < d,
         NEW two, NEW fit, Fits(n, new, two, fit), two = d - (n - b), two < n - b,
         NEW m, NEW mem, Copied(mem, m, n),
         NEW first, FitMoved(first, mem, n, new, fit),
         NEW w, RestMoved(w, first, new, two, fit),
         NEW k \in 1 .. d
  PROVE  w[At(new, b, k)] = m[At(n, b, k)]
<1> USE DEF Sizes, Fits
<1>1. two - fit <= b
  OBVIOUS
<1>2. CASE k <= n - b
  <2> DEFINE q == b + k - 1
  <2>1. At(new, b, k) = q /\ At(n, b, k) = q
    BY <1>2 DEF At
  <2>2. q \in 0 .. new - 1 /\ ~(q < two - fit) /\ ~(n <= q) /\ q \in 0 .. n - 1
    BY <1>1, <1>2
  <2> HIDE DEF q
  <2>3. w[q] = first[q] /\ first[q] = mem[q] /\ mem[q] = m[q]
    BY <2>2 DEF Copied, FitMoved, RestMoved
  <2>4. QED
    BY <2>1, <2>3
<1>3. CASE ~(k <= n - b)
  <2> DEFINE q == k - 1 - (n - b)
  <2>1. At(n, b, k) = q /\ q \in 0 .. n - 1 /\ q < two
    BY <1>3 DEF At
  <2>2. CASE b + k <= new
    <3> DEFINE u == b + k - 1
    <3>1. At(new, b, k) = u
      BY <2>2 DEF At
    <3>2. u \in 0 .. new - 1 /\ ~(u < two - fit) /\ n <= u /\ u < n + fit /\ u - n = q
      BY <1>1, <1>3, <2>2
    <3> HIDE DEF u, q
    <3>3. w[u] = first[u] /\ first[u] = mem[u - n] /\ mem[q] = m[q]
      BY <2>1, <3>2 DEF Copied, FitMoved, RestMoved
    <3>4. QED
      BY <2>1, <3>1, <3>2, <3>3
  <2>3. CASE ~(b + k <= new)
    <3> DEFINE u == b + k - 1 - new
    <3>1. At(new, b, k) = u
      BY <2>3 DEF At
    <3>2. fit = new - n
      BY <1>3, <2>3
    <3>3. /\ u \in 0 .. new - 1 /\ u < two - fit /\ fit + u = q
          /\ q \in 0 .. new - 1 /\ ~(n <= q)
      BY <1>3, <2>1, <2>3, <3>2
    <3> HIDE DEF u, q
    <3>4. w[u] = first[fit + u] /\ first[q] = mem[q] /\ mem[q] = m[q]
      BY <2>1, <3>3 DEF Copied, FitMoved, RestMoved
    <3>5. QED
      BY <2>1, <3>1, <3>3, <3>4
  <2>4. QED
    BY <2>2, <2>3
<1>4. QED
  BY <1>2, <1>3

\* Growing the memory keeps the bytes and their order, whether the data lies in
\* one piece or in two, and whichever of the two is moved.
THEOREM GrowthKeepsData ==
  ASSUME NEW c, IsCirc(c), NEW new \in Nat, c.buf_len <= new
  PROVE  KeepsData(c, circ_realloc(c, new), new)
<1>1. PICK m, n, b, d : c = Circ(m, n, b, d) /\ Sound(m, n, b, d)
  BY DEF IsCirc
<1>2. c.buf = m /\ c.buf_len = n /\ c.data_beg = b /\ c.data_len = d
  BY <1>1, Fields
<1>3. n \in Nat /\ b \in Nat /\ d \in Nat /\ d <= n /\ (b < n \/ b = 0) /\ n <= new
  BY <1>1, <1>2 DEF Sound
<1>4. PICK T : m \in [0 .. n - 1 -> T]
  BY <1>1 DEF Sound
<1> DEFINE data == get_segs(n, b, d)
           mem == [p \in 0 .. new - 1 |-> IF p < n THEN m[p] ELSE Junk]
<1>5. circ_data_segs(c) = data /\ Renewed(c, new) = mem
  BY <1>2 DEF circ_data_segs, Renewed
<1>6. /\ mem \in [0 .. new - 1 -> T \cup {Junk}]
      /\ Copied(mem, m, n)
  BY <1>3, <1>4 DEF Copied
<1> HIDE DEF mem
<1>7. CASE ~(new > n /\ Len(data) = 2)
  <2>1. circ_realloc(c, new) = Circ(mem, new, b, d)
    BY <1>2, <1>5, <1>7 DEF circ_realloc, Circ
  <2>2. ASSUME NEW k \in 1 .. d PROVE mem[At(new, b, k)] = m[At(n, b, k)]
    <3>1. b < n
      BY <1>3
    <3>2. new = n \/ d <= n - b
      <4>1. SUFFICES ASSUME n < new, ~(d <= n - b) PROVE FALSE
        BY <1>3
      <4>2. data = << Seg(b, n - b), Seg(0, d - (n - b)) >>
        BY <4>1, <1>3, <3>1 DEF get_segs
      <4>3. Len(data) = 2
        BY <4>2
      <4>4. QED
        BY <4>1, <4>3, <1>3, <1>7
    <3>3. Sizes(n, b, d, new)
      BY <3>1, <1>3 DEF Sizes
    <3> HIDE DEF data
    <3>4. QED
      BY <3>2, <3>3, <1>6, KeptInPlace
  <2>3. b < new \/ b = 0
    BY <1>3
  <2>4. KeepsData(Circ(m, n, b, d), Circ(mem, new, b, d), new)
    BY <2>2, <2>3, <1>1, <1>3, <1>6, SameBytes
  <2>5. QED
    BY <2>1, <2>4, <1>1
<1>8. CASE new > n /\ Len(data) = 2
  <2>1. ~(d <= n - b) /\ d # 0
    <3>1. SUFFICES ASSUME d = 0 \/ d <= n - b PROVE FALSE
      OBVIOUS
    <3>2. data = << >> \/ data = << Seg(b, d) >>
      BY <3>1 DEF get_segs
    <3>3. Len(data) = 2
      BY <1>8
    <3> HIDE DEF data
    <3>4. Len(data) # 2
      BY <3>2
    <3>5. QED
      BY <3>3, <3>4
  <2>2. data = << Seg(b, n - b), Seg(0, d - (n - b)) >>
    BY <2>1, <1>3 DEF get_segs
  <2>3. PICK one, two : one = n - b /\ two = d - (n - b)
    OBVIOUS
  <2>4. data[1].len = one /\ data[2].len = two /\ data[1].base = b /\ data[2].base = 0
    BY <2>2, <2>3 DEF Seg
  <2>5. /\ b < n /\ n < new /\ n - b < d /\ one \in Nat /\ two \in Nat /\ two <= b
        /\ one > 0 /\ two > 0
    BY <2>1, <2>3, <1>3, <1>8
  <2>6. Len(data) = 2
    BY <1>8
  <2>7. Sizes(n, b, d, new)
    BY <2>5, <1>3 DEF Sizes
  <2> HIDE DEF data
  <2>8. CASE one <= two
    <3>1. PICK e, w : e = new - one /\ w = Moved(mem, e, b, one)
      OBVIOUS
    <3>2. circ_realloc(c, new) = Circ(w, new, e, d)
      BY <1>2, <1>5, <1>8, <2>4, <2>8, <3>1 DEF circ_realloc, Circ
    <3>3. e \in Nat /\ e < new /\ e = new - (n - b) /\ e > b
      BY <1>3, <2>3, <2>5, <3>1
    <3>4. \A p \in 0 .. new - 1 : e <= p => b + (p - e) \in 0 .. new - 1 /\ p < e + one
      BY <1>3, <2>3, <2>5, <3>1, <3>3
    <3>5. /\ w \in [0 .. new - 1 -> T \cup {Junk}]
          /\ \A p \in 0 .. new - 1 : w[p] = IF e <= p THEN mem[b + (p - e)] ELSE mem[p]
      BY <1>6, <3>1, <3>4 DEF Moved
    <3>6. ASSUME NEW k \in 1 .. d PROVE w[At(new, e, k)] = m[At(n, b, k)]
      <4>1. Copied(mem, m, n) /\ n < new /\ n - b < d
        BY <1>6, <2>5
      <4>2. e \in Nat /\ e = new - (n - b)
        BY <3>3
      <4>3. QED
        BY <4>1, <4>2, <2>7, <3>5, FirstMoved
    <3>7. KeepsData(Circ(m, n, b, d), Circ(w, new, e, d), new)
      BY <1>1, <1>3, <3>3, <3>5, <3>6, SameBytes
    <3>8. QED
      BY <1>1, <3>2, <3>7
  <2>9. CASE ~(one <= two)
    <3>1. PICK fr : fr = get_segs(new, n, two)
      OBVIOUS
    <3>2. PICK fit : fit = IF two <= new - n THEN two ELSE new - n
      OBVIOUS
    <3>3. /\ fr[1].len = fit /\ fr[1].base = n /\ (Len(fr) = 1 <=> two <= new - n)
          /\ (Len(fr) # 1 => fr[2].base = 0 /\ fr[2].len = two - fit)
      <4>1. CASE two <= new - n
        <5>1. fr = << Seg(n, two) >>
          BY <3>1, <4>1, <2>5 DEF get_segs
        <5>2. QED
          BY <5>1, <3>2, <4>1 DEF Seg
      <4>2. CASE ~(two <= new - n)
        <5>1. fr = << Seg(n, new - n), Seg(0, two - (new - n)) >>
          BY <3>1, <4>2, <2>5 DEF get_segs
        <5>2. QED
          BY <5>1, <3>2, <4>2 DEF Seg
      <4>3. QED
        BY <4>1, <4>2
    <3>4. PICK first : first = Moved(mem, n, 0, fit)
      OBVIOUS
    <3>5. PICK w : w = IF two <= new - n THEN first ELSE Moved(first, 0, 0 + fit, two - fit)
      OBVIOUS
    <3>6. circ_realloc(c, new) = Circ(w, new, b, d)
      BY <1>2, <1>5, <1>8, <2>4, <2>9, <3>1, <3>3, <3>4, <3>5 DEF circ_realloc, Circ
    <3>7. Fits(n, new, two, fit) /\ (two <= new - n <=> fit = two)
      BY <1>3, <2>5, <3>2 DEF Fits
    <3>8. /\ first \in [0 .. new - 1 -> T \cup {Junk}]
          /\ FitMoved(first, mem, n, new, fit)
      <4>1. \A p \in 0 .. new - 1 :
              n <= p /\ p < n + fit => 0 + (p - n) = p - n /\ p - n \in 0 .. new - 1
        BY <1>3
      <4>2. DOMAIN mem = 0 .. new - 1
        BY <1>6
      <4>3. first = [p \in 0 .. new - 1 |-> IF n <= p /\ p < n + fit THEN mem[0 + (p - n)] ELSE mem[p]]
        BY <3>4, <4>2 DEF Moved
      <4>4. QED
        BY <1>6, <4>1, <4>3 DEF FitMoved
    <3>9. /\ w \in [0 .. new - 1 -> T \cup {Junk}]
          /\ RestMoved(w, first, new, two, fit)
      <4>1. CASE two <= new - n
        <5>1. w = first /\ \A p \in 0 .. new - 1 : ~(p < two - fit)
          BY <3>5, <3>7, <4>1, <2>5 DEF Fits
        <5>2. QED
          BY <5>1, <3>8 DEF RestMoved
      <4>2. CASE ~(two <= new - n)
        <5>1. \A p \in 0 .. new - 1 : p < two - fit => fit + p \in 0 .. new - 1
          BY <1>3, <2>5, <3>7 DEF Fits
        <5>2. \A p \in 0 .. new - 1 : /\ 0 <= p /\ p < 0 + (two - fit) <=> p < two - fit
                                      /\ 0 + fit + (p - 0) = fit + p
          BY <2>5, <3>7 DEF Fits
        <5>3. DOMAIN first = 0 .. new - 1
          BY <3>8
        <5>4. w = [p \in 0 .. new - 1 |-> IF 0 <= p /\ p < 0 + (two - fit)
                                          THEN first[0 + fit + (p - 0)] ELSE first[p]]
          BY <3>5, <4>2, <5>3 DEF Moved
        <5>5. QED
          BY <3>8, <5>1, <5>2, <5>4 DEF RestMoved
      <4>3. QED
        BY <4>1, <4>2
    <3>10. two = d - (n - b) /\ two < n - b
      BY <1>3, <2>3, <2>5, <2>9
    <3>11. ASSUME NEW k \in 1 .. d PROVE w[At(new, b, k)] = m[At(n, b, k)]
      BY <1>6, <2>5, <2>7, <3>7, <3>8, <3>9, <3>10, SecondMoved
    <3>12. b < new
      BY <1>3, <2>5
    <3>13. KeepsData(Circ(m, n, b, d), Circ(w, new, b, d), new)
      BY <1>1, <1>3, <3>9, <3>11, <3>12, SameBytes
    <3>14. QED
      BY <1>1, <3>6, <3>13
  <2>10. QED
    BY <2>8, <2>9
<1>9. QED
  BY <1>7, <1>8

\* What readv has room for.
LEMMA FreeLength ==
  ASSUME NEW m, NEW n, NEW b, NEW d, Sound(m, n, b, d)
  PROVE  SegsLen(circ_free_segs(Circ(m, n, b, d))) = n - d
<1>1. n \in Nat /\ b \in Nat /\ d \in Nat /\ d <= n /\ (b < n \/ b = 0)
  BY DEF Sound
<1>2. CASE n = 0
  <2>1. circ_free_segs(Circ(m, n, b, d)) = << >>
    BY <1>2, Fields DEF circ_free_segs
  <2>2. n - d = 0
    BY <1>1, <1>2
  <2>3. QED
    BY <2>1, <2>2 DEF SegsLen
<1>3. CASE n # 0
  <2>1. PICK y : y = (b + d) % n
    OBVIOUS
  <2>2. b < n
    BY <1>1, <1>3
  <2>3. y = IF b + d < n THEN b + d ELSE b + d - n
    BY <1>1, <2>1, <2>2, WrapsSum
  <2>4. y \in Nat /\ y < n /\ n - d \in Nat /\ n - d <= n
    BY <1>1, <2>2, <2>3
  <2>5. circ_free_segs(Circ(m, n, b, d)) = get_segs(n, y, n - d)
    BY <1>3, <2>1, Fields DEF circ_free_segs
  <2>6. QED
    BY <1>1, <2>4, <2>5, SegsLength
<1>4. QED
  BY <1>2, <1>3

CopyBuf(c, maxsz, eof, write_err) ==
  [circ |-> c, maxsz |-> maxsz, eof |-> eof, write_err |-> write_err]

\* A buffer that cb_canread calls readable has room for a read, so that a readv of
\* 0 bytes is the end of the file; and it never grows beyond its maxsz.
THEOREM GrowthMakesRoom ==
  ASSUME NEW c, IsCirc(c), NEW maxsz \in Nat, c.buf_len <= maxsz,
         NEW eof, NEW write_err, NEW cb, cb = CopyBuf(c, maxsz, eof, write_err),
         cb_free_len(cb) # 0
  PROVE  /\ cb_room(cb) > 0
         /\ cb_grow(cb).circ.buf_len <= maxsz
         /\ KeepsData(c, cb_grow(cb).circ, cb_grow(cb).circ.buf_len)
<1>1. PICK m, n, b, d : c = Circ(m, n, b, d) /\ Sound(m, n, b, d)
  BY DEF IsCirc
<1>2. c.buf_len = n /\ c.data_len = d
  BY <1>1, Fields
<1>3. n \in Nat /\ d \in Nat /\ d <= n /\ n <= maxsz
  BY <1>1, <1>2 DEF Sound
<1>4. cb.circ = c /\ cb.maxsz = maxsz
  BY DEF CopyBuf
<1>5. d < maxsz
  <2>1. cb_free_len(cb) = maxsz - d
    BY <1>2, <1>4 DEF cb_free_len, cb_data_len
  <2>2. QED
    BY <2>1, <1>3
<1>6. ASSUME NEW g, KeepsData(c, g, g.buf_len), cb_grow(cb).circ = g, g.buf_len <= maxsz, d < g.buf_len
      PROVE  /\ cb_room(cb) > 0
             /\ cb_grow(cb).circ.buf_len <= maxsz
             /\ KeepsData(c, cb_grow(cb).circ, cb_grow(cb).circ.buf_len)
  <2>1. PICK w, new, e, f : g = Circ(w, new, e, f) /\ Sound(w, new, e, f)
    BY <1>6 DEF KeepsData, IsCirc
  <2>2. g.buf_len = new /\ g.data_len = f
    BY <2>1, Fields
  <2>3. f = d /\ new \in Nat
    BY <1>2, <1>6, <2>1, <2>2 DEF KeepsData, Sound
  <2>4. cb_room(cb) = new - f
    BY <1>6, <2>1, FreeLength DEF cb_room
  <2>5. cb_room(cb) > 0
    BY <1>3, <1>6, <2>2, <2>3, <2>4
  <2>6. QED
    BY <1>6, <2>5
<1>7. CASE MIN_READ - (n - d) > 0 /\ n < maxsz
  <2>1. PICK more : more = IF MIN_READ - (n - d) > n THEN MIN_READ - (n - d) ELSE n
    OBVIOUS
  <2>2. PICK new : new = IF n + more > maxsz THEN maxsz ELSE n + more
    OBVIOUS
  <2>3. PICK g : g = circ_realloc(c, new)
    OBVIOUS
  <2>4. more \in Nat /\ more >= n /\ more >= MIN_READ - (n - d)
    BY <1>3, <1>7, <2>1, MinReadAssumption
  <2>5. new \in Nat /\ n <= new /\ new <= maxsz /\ d < new
    BY <1>3, <1>5, <1>7, <2>2, <2>4, MinReadAssumption
  <2>6. KeepsData(c, g, new)
    BY <1>2, <2>3, <2>5, GrowthKeepsData
  <2>7. g.buf_len = new
    BY <2>6 DEF KeepsData
  <2>8. cb_grow(cb) = CopyBuf(g, maxsz, eof, write_err)
    BY <1>2, <1>4, <1>7, <2>1, <2>2, <2>3 DEF cb_grow, CopyBuf
  <2>9. cb_grow(cb).circ = g
    BY <2>8 DEF CopyBuf
  <2>10. QED
    BY <1>6, <2>5, <2>6, <2>7, <2>9
<1>8. CASE ~(MIN_READ - (n - d) > 0 /\ n < maxsz)
  <2>1. cb_grow(cb) = cb
    BY <1>2, <1>4, <1>8 DEF cb_grow
  <2>2. d < n
    BY <1>3, <1>5, <1>8, MinReadAssumption
  <2>3. KeepsData(c, c, n)
    BY <1>2 DEF KeepsData
  <2>4. QED
    BY <1>2, <1>3, <1>4, <1>6, <2>1, <2>2, <2>3
<1>9. QED
  BY <1>7, <1>8

-----------------------------------------------------------------------------
(* The copy buffer *)

\* A circular buffer that holds bytes; an empty one begins at the start.
IsQueue(c) == IsCirc(c) /\ Data(c) \in Seq(Int) /\ (c.data_len = 0 => c.data_beg = 0)

IsCb(cb, maxsz) ==
  \E c : \E e, w \in BOOLEAN :
    cb = CopyBuf(c, maxsz, e, w) /\ IsQueue(c) /\ c.buf_len <= maxsz

-----------------------------------------------------------------------------
(* Circular buffers as sequences *)

LEMMA CircFacts ==
  ASSUME NEW c, IsCirc(c)
  PROVE  /\ c.data_len \in Nat /\ c.buf_len \in Nat /\ c.data_len <= c.buf_len
         /\ DOMAIN Data(c) = 1 .. c.data_len
<1>1. PICK m, n, b, d : c = Circ(m, n, b, d) /\ Sound(m, n, b, d)
  BY DEF IsCirc
<1>2. c.buf_len = n /\ c.data_len = d
  BY <1>1, Fields
<1>3. QED
  BY <1>1, <1>2 DEF Sound, Data

LEMMA SeqLen ==
  ASSUME NEW s \in Seq(Int), NEW n \in Nat, DOMAIN s = 1 .. n
  PROVE  Len(s) = n
  OBVIOUS

LEMMA QueueFacts ==
  ASSUME NEW c, IsQueue(c)
  PROVE  /\ Data(c) \in Seq(Int) /\ Len(Data(c)) = c.data_len
         /\ c.data_len \in Nat /\ c.buf_len \in Nat /\ c.data_len <= c.buf_len
  BY CircFacts, SeqLen DEF IsQueue

\* f is a function on 1 .. n.
OnFirst(f, n) == f = [k \in 1 .. n |-> f[k]]

LEMMA SeqOnFirst ==
  ASSUME NEW s \in Seq(Int), NEW n, Len(s) = n
  PROVE  OnFirst(s, n)
  BY DEF OnFirst

LEMMA DataOnFirst ==
  ASSUME NEW c, NEW n, c.data_len = n
  PROVE  OnFirst(Data(c), n)
<1>1. PICK d : d = Data(c)
  OBVIOUS
<1>2. d = [k \in 1 .. n |-> c.buf[Cell(circ_data_segs(c), k)]]
  BY <1>1 DEF Data
<1>3. OnFirst(d, n)
  BY <1>2 DEF OnFirst
<1>4. QED
  BY <1>1, <1>3

\* Functions on 1 .. n are known by their elements.
LEMMA ByElements ==
  ASSUME NEW f, NEW g, NEW n, OnFirst(f, n), OnFirst(g, n),
         \A k \in 1 .. n : f[k] = g[k]
  PROVE  f = g
<1>1. [k \in 1 .. n |-> f[k]] = [k \in 1 .. n |-> g[k]]
  OBVIOUS
<1>2. QED
  BY <1>1 DEF OnFirst

LEMMA Concat ==
  ASSUME NEW s \in Seq(Int), NEW t \in Seq(Int), NEW m, NEW n, Len(s) = m, Len(t) = n
  PROVE  /\ s \o t \in Seq(Int) /\ Len(s \o t) = m + n /\ m \in Nat /\ n \in Nat
         /\ \A k \in 1 .. m + n : (s \o t)[k] = IF k <= m THEN s[k] ELSE t[k - m]
<1>1. m \in Nat /\ n \in Nat
  OBVIOUS
<1>2. s \o t \in Seq(Int) /\ Len(s \o t) = m + n
  BY ConcatProperties
<1>3. ASSUME NEW k \in 1 .. m + n PROVE (s \o t)[k] = IF k <= m THEN s[k] ELSE t[k - m]
  <2>1. k \in 1 .. Len(s) + Len(t)
    BY <1>1
  <2>2. (s \o t)[k] = IF k <= Len(s) THEN s[k] ELSE t[k - Len(s)]
    BY <2>1, ConcatProperties
  <2>3. QED
    BY <2>2
<1>4. QED
  BY <1>1, <1>2, <1>3

LEMMA Joined ==
  ASSUME NEW f, NEW s \in Seq(Int), NEW t \in Seq(Int), NEW m, NEW n,
         Len(s) = m, Len(t) = n, OnFirst(f, m + n),
         \A k \in 1 .. m : f[k] = s[k],
         \A k \in 1 .. n : f[m + k] = t[k]
  PROVE  f = s \o t
<1>1. PICK c : c = s \o t
  OBVIOUS
<1>2. /\ c \in Seq(Int) /\ Len(c) = m + n /\ m \in Nat /\ n \in Nat
      /\ \A k \in 1 .. m + n : c[k] = IF k <= m THEN s[k] ELSE t[k - m]
  BY <1>1, Concat
<1>3. ASSUME NEW k \in 1 .. m + n PROVE f[k] = c[k]
  <2>1. CASE k <= m
    BY <1>2, <2>1
  <2>2. CASE k > m
    <3>1. k - m \in 1 .. n /\ m + (k - m) = k
      BY <1>2, <2>2
    <3>2. f[m + (k - m)] = t[k - m]
      BY <3>1
    <3>3. QED
      BY <1>2, <2>2, <3>1, <3>2
  <2>3. QED
    BY <1>2, <2>1, <2>2
<1>4. OnFirst(c, m + n)
  BY <1>2, SeqOnFirst
<1>5. QED
  BY <1>1, <1>3, <1>4, ByElements

\* Two buffers of the same length with the same bytes hold the same sequence.
LEMMA SameData ==
  ASSUME NEW c, NEW j, j.data_len = c.data_len,
         \A k \in 1 .. c.data_len : Data(j)[k] = Data(c)[k]
  PROVE  Data(j) = Data(c)
<1>1. OnFirst(Data(j), c.data_len) /\ OnFirst(Data(c), c.data_len)
  BY DataOnFirst
<1>2. QED
  BY <1>1, ByElements

-----------------------------------------------------------------------------
(* readv, writev and growing *)

LEMMA SeqBytes ==
  ASSUME NEW s \in Seq(Int), NEW n, Len(s) = n
  PROVE  AreBytes(s, n)
  BY DEF AreBytes

LEMMA QueueAppends ==
  ASSUME NEW c, IsQueue(c), NEW bytes \in Seq(Int), Len(bytes) > 0,
         Len(bytes) <= c.buf_len - c.data_len
  PROVE  /\ IsQueue(Filled(c, bytes))
         /\ Filled(c, bytes).buf_len = c.buf_len
         /\ Data(Filled(c, bytes)) = Data(c) \o bytes
<1> DEFINE j == Filled(c, bytes)
<1>1. PICK r : r = Len(bytes)
  OBVIOUS
<1>2. /\ r \in Nat /\ r > 0 /\ r <= c.buf_len - c.data_len
      /\ c.data_len \in Nat /\ Data(c) \in Seq(Int) /\ Len(Data(c)) = c.data_len
  BY <1>1, QueueFacts
<1>3. /\ IsCirc(j) /\ j.buf_len = c.buf_len /\ j.data_len = c.data_len + r
      /\ \A k \in 1 .. c.data_len : Data(j)[k] = Data(c)[k]
      /\ \A k \in 1 .. r : Data(j)[c.data_len + k] = bytes[k]
  <2>1. AreBytes(bytes, r) /\ Len(bytes) = r
    BY <1>1, SeqBytes
  <2>2. IsCirc(c)
    BY DEF IsQueue
  <2>3. r \in Nat /\ r <= c.buf_len - c.data_len
    BY <1>2
  <2>4. QED
    BY <2>1, <2>2, <2>3, ReadAppends
<1> HIDE DEF j
<1>4. PICK f, s, d : f = Data(j) /\ s = Data(c) /\ d = c.data_len
  OBVIOUS
<1>5. OnFirst(f, d + r)
  BY <1>3, <1>4, DataOnFirst
<1>6. /\ s \in Seq(Int) /\ Len(s) = d /\ Len(bytes) = r
      /\ \A k \in 1 .. d : f[k] = s[k]
      /\ \A k \in 1 .. r : f[d + k] = bytes[k]
  BY <1>1, <1>2, <1>3, <1>4
<1>7. f = s \o bytes
  BY <1>5, <1>6, Joined
<1>8. s \o bytes \in Seq(Int)
  BY <1>6, ConcatProperties
<1>9. j.data_len # 0
  BY <1>1, <1>2, <1>3
<1>10. QED
  BY <1>3, <1>4, <1>7, <1>8, <1>9 DEF IsQueue, j

LEMMA QueueTakes ==
  ASSUME NEW c, IsQueue(c), NEW w \in 1 .. c.data_len
  PROVE  /\ IsQueue(circ_adj_len(c, -w))
         /\ circ_adj_len(c, -w).buf_len = c.buf_len
         /\ Data(circ_adj_len(c, -w)) = SubSeq(Data(c), w + 1, c.data_len)
<1> DEFINE j == circ_adj_len(c, -w)
<1>1. /\ IsCirc(j) /\ j.data_len = c.data_len - w
      /\ \A k \in 1 .. c.data_len - w : Data(j)[k] = Data(c)[w + k]
  BY WriteTakesFirst DEF IsQueue
<1>2. j.buf_len = c.buf_len
  BY DEF circ_adj_len
<1>3. j.data_len = 0 => j.data_beg = 0
  <2>1. c.data_len \in Nat
    BY QueueFacts
  <2>2. j.data_len = c.data_len + -w /\ (c.data_len + -w = 0 => j.data_beg = 0)
    BY <2>1 DEF circ_adj_len
  <2>3. QED
    BY <2>2
<1> HIDE DEF j
<1>4. c.data_len \in Nat /\ Data(c) \in Seq(Int) /\ Len(Data(c)) = c.data_len
  BY QueueFacts
<1> DEFINE s == SubSeq(Data(c), w + 1, c.data_len)
<1>5. /\ s \in Seq(Int) /\ Len(s) = c.data_len - w
      /\ \A k \in 1 .. c.data_len - w : s[k] = Data(c)[w + k]
  <2>1. \A i \in w + 1 .. c.data_len : Data(c)[i] \in Int
    BY <1>4
  <2>2. /\ s \in Seq(Int)
        /\ Len(s) = IF w + 1 <= c.data_len THEN c.data_len - (w + 1) + 1 ELSE 0
        /\ \A i \in 1 .. c.data_len - (w + 1) + 1 : s[i] = Data(c)[(w + 1) + i - 1]
    BY <1>4, <2>1, SubSeqProperties
  <2> HIDE DEF s
  <2>3. QED
    BY <1>4, <2>2
<1> HIDE DEF s
<1>6. Data(j) = s
  <2>1. OnFirst(Data(j), c.data_len - w) /\ OnFirst(s, c.data_len - w)
    BY <1>1, <1>5, DataOnFirst, SeqOnFirst
  <2>2. \A k \in 1 .. c.data_len - w : Data(j)[k] = s[k]
    BY <1>1, <1>5
  <2>3. QED
    BY <2>1, <2>2, ByElements
<1>7. QED
  BY <1>1, <1>2, <1>3, <1>5, <1>6 DEF IsQueue, j, s

LEMMA QueueGrows ==
  ASSUME NEW c, IsQueue(c), NEW new \in Nat, c.buf_len <= new
  PROVE  /\ IsQueue(circ_realloc(c, new))
         /\ circ_realloc(c, new).buf_len = new
         /\ Data(circ_realloc(c, new)) = Data(c)
<1> DEFINE j == circ_realloc(c, new)
<1>1. KeepsData(c, j, new)
  BY GrowthKeepsData DEF IsQueue
<1>2. c.data_len = 0 => j.data_beg = c.data_beg
  <2>1. c.data_len = 0 => Len(circ_data_segs(c)) # 2
    BY DEF circ_data_segs, get_segs
  <2>2. QED
    BY <2>1 DEF circ_realloc
<1> HIDE DEF j
<1>3. Data(j) = Data(c)
  BY <1>1, SameData DEF KeepsData
<1>4. QED
  BY <1>1, <1>2, <1>3 DEF KeepsData, IsQueue, j

\* cb_free on an empty buffer
LEMMA QueueFreed ==
  ASSUME NEW c, IsQueue(c), c.data_len = 0
  PROVE  /\ IsQueue(circ_realloc(c, 0))
         /\ circ_realloc(c, 0).buf_len = 0
         /\ Data(circ_realloc(c, 0)) = Data(c)
<1> DEFINE j == circ_realloc(c, 0)
<1>1. c.buf_len \in Nat /\ c.data_beg = 0
  BY QueueFacts DEF IsQueue
<1>2. j = Circ(Renewed(c, 0), 0, 0, 0)
  <2>1. ~(0 > c.buf_len)
    BY <1>1
  <2>2. QED
    BY <1>1, <2>1 DEF circ_realloc, Circ
<1>3. Renewed(c, 0) \in [0 .. 0 - 1 -> {Junk}]
  BY DEF Renewed
<1>4. Sound(Renewed(c, 0), 0, 0, 0)
  BY <1>3 DEF Sound
<1>5. IsCirc(j) /\ j.buf_len = 0 /\ j.data_len = 0 /\ j.data_beg = 0
  BY <1>2, <1>4, Fields DEF IsCirc
<1> HIDE DEF j
<1>6. Data(j) = Data(c)
  BY <1>5, SameData
<1>7. QED
  BY <1>5, <1>6 DEF IsQueue, j

-----------------------------------------------------------------------------
(* Copy buffers *)

LEMMA CbFields ==
  ASSUME NEW c, NEW m, NEW e, NEW w, NEW x
  PROVE  /\ CopyBuf(c, m, e, w).circ = c /\ CopyBuf(c, m, e, w).maxsz = m
         /\ CopyBuf(c, m, e, w).eof = e /\ CopyBuf(c, m, e, w).write_err = w
         /\ [CopyBuf(c, m, e, w) EXCEPT !.circ = x] = CopyBuf(x, m, e, w)
         /\ [CopyBuf(c, m, e, w) EXCEPT !.eof = x] = CopyBuf(c, m, x, w)
         /\ [CopyBuf(c, m, e, w) EXCEPT !.write_err = x] = CopyBuf(c, m, e, x)
  BY DEF CopyBuf

LEMMA CbMarked ==
  ASSUME NEW cb, NEW yes, yes = TRUE
  PROVE  /\ [cb EXCEPT !.eof = TRUE] = [cb EXCEPT !.eof = yes]
         /\ [cb EXCEPT !.write_err = TRUE] = [cb EXCEPT !.write_err = yes]
  OBVIOUS

LEMMA CbMade ==
  ASSUME NEW maxsz \in Nat, NEW c, IsQueue(c), c.buf_len <= maxsz,
         NEW e \in BOOLEAN, NEW w \in BOOLEAN
  PROVE  IsCb(CopyBuf(c, maxsz, e, w), maxsz)
  BY DEF IsCb

LEMMA CbFacts ==
  ASSUME NEW maxsz \in Nat, NEW cb, IsCb(cb, maxsz)
  PROVE  /\ cb = CopyBuf(cb.circ, maxsz, cb.eof, cb.write_err)
         /\ IsQueue(cb.circ) /\ cb.circ.buf_len <= maxsz /\ cb.circ.buf_len \in Nat
         /\ cb.maxsz = maxsz /\ cb.eof \in BOOLEAN /\ cb.write_err \in BOOLEAN
         /\ cb_data_len(cb) = cb.circ.data_len
         /\ cb_data_len(cb) \in Nat /\ cb_data_len(cb) <= cb.circ.buf_len
         /\ cb_free_len(cb) = maxsz - cb_data_len(cb)
         /\ Data(cb.circ) \in Seq(Int) /\ Len(Data(cb.circ)) = cb_data_len(cb)
<1>1. PICK c : \E e, w \in BOOLEAN :
        cb = CopyBuf(c, maxsz, e, w) /\ IsQueue(c) /\ c.buf_len <= maxsz
  BY DEF IsCb
<1>2. PICK e \in BOOLEAN, w \in BOOLEAN : cb = CopyBuf(c, maxsz, e, w)
  BY <1>1
<1>3. cb.circ = c /\ cb.maxsz = maxsz /\ cb.eof = e /\ cb.write_err = w
  BY <1>2, CbFields
<1>4. /\ c.data_len \in Nat /\ c.buf_len \in Nat /\ c.data_len <= c.buf_len
      /\ Data(c) \in Seq(Int) /\ Len(Data(c)) = c.data_len
  BY <1>1, QueueFacts
<1>5. cb_data_len(cb) = c.data_len
  BY <1>3 DEF cb_data_len
<1>6. QED
  BY <1>1, <1>2, <1>3, <1>4, <1>5 DEF cb_free_len

LEMMA CbGrows ==
  ASSUME NEW maxsz \in Nat, NEW c, IsQueue(c), c.buf_len <= maxsz, NEW e, NEW w,
         NEW cb, cb = CopyBuf(c, maxsz, e, w), c.data_len # maxsz
  PROVE  \E g : /\ cb_grow(cb) = CopyBuf(g, maxsz, e, w)
                /\ IsQueue(g) /\ g.buf_len <= maxsz /\ Data(g) = Data(c)
                /\ cb_room(cb) = g.buf_len - g.data_len /\ g.data_len < g.buf_len
<1>1. /\ c.data_len \in Nat /\ c.buf_len \in Nat /\ c.data_len <= c.buf_len
      /\ cb.circ = c /\ cb.maxsz = maxsz
  BY QueueFacts, CbFields
<1>2. ASSUME NEW g, IsQueue(g)
      PROVE  SegsLen(circ_free_segs(g)) = g.buf_len - g.data_len
  <2>1. PICK m, n, b, d : g = Circ(m, n, b, d) /\ Sound(m, n, b, d)
    BY <1>2 DEF IsQueue, IsCirc
  <2>2. QED
    BY <2>1, Fields, FreeLength
<1>3. ASSUME NEW g, IsQueue(g), cb_grow(cb) = CopyBuf(g, maxsz, e, w)
      PROVE  cb_room(cb) = g.buf_len - g.data_len
  BY <1>2, <1>3, CbFields DEF cb_room
<1>4. CASE MIN_READ - (c.buf_len - c.data_len) > 0 /\ c.buf_len < maxsz
  <2>1. PICK more : more = IF MIN_READ - (c.buf_len - c.data_len) > c.buf_len
                           THEN MIN_READ - (c.buf_len - c.data_len) ELSE c.buf_len
    OBVIOUS
  <2>2. PICK new : new = IF c.buf_len + more > maxsz THEN maxsz ELSE c.buf_len + more
    OBVIOUS
  <2>3. PICK g : g = circ_realloc(c, new)
    OBVIOUS
  <2>4. more \in Nat /\ more >= c.buf_len /\ more >= MIN_READ - (c.buf_len - c.data_len)
    BY <1>1, <1>4, <2>1, MinReadAssumption
  <2>5. new \in Nat /\ c.buf_len <= new /\ new <= maxsz /\ c.data_len < new
    BY <1>1, <1>4, <2>2, <2>4, MinReadAssumption
  <2>6. cb_grow(cb) = [cb EXCEPT !.circ = g]
    BY <1>1, <1>4, <2>1, <2>2, <2>3 DEF cb_grow
  <2>7. cb_grow(cb) = CopyBuf(g, maxsz, e, w)
    BY <2>6, CbFields
  <2>8. IsQueue(g) /\ g.buf_len = new /\ Data(g) = Data(c)
    BY <2>3, <2>5, QueueGrows
  <2>9. g.data_len = c.data_len
    BY <2>8, QueueFacts
  <2>10. QED
    BY <1>3, <2>5, <2>7, <2>8, <2>9
<1>5. CASE ~(MIN_READ - (c.buf_len - c.data_len) > 0 /\ c.buf_len < maxsz)
  <2>1. cb_grow(cb) = cb
    BY <1>1, <1>5 DEF cb_grow
  <2>2. c.data_len < c.buf_len
    BY <1>1, <1>5, MinReadAssumption
  <2>3. QED
    BY <1>3, <2>1, <2>2
<1>6. QED
  BY <1>4, <1>5

-----------------------------------------------------------------------------
(* cb_read *)

\* What a read did to a copy buffer: n bytes of in are behind those it held, and
\* the end of the file was seen only when there was nothing and no more to come.
HasRead(cb, new, in, more, n) ==
  /\ n \in 0 .. Len(in)
  /\ cb_data_len(new) = cb_data_len(cb) + n
  /\ Data(new.circ) = Data(cb.circ) \o SubSeq(in, 1, n)
  /\ new.write_err = cb.write_err
  /\ cb.eof => new.eof
  /\ new.eof => cb.eof \/ (~more /\ Len(in) = 0)
  /\ n = 0 => Len(in) = 0

\* cb_read appends what it reads to what the buffer holds, and takes it for the
\* end of the file only when there is nothing and nothing can come.  It is asked
\* to read only when the buffer is not full.
THEOREM CbReads ==
  ASSUME NEW maxsz \in Nat, NEW cb, IsCb(cb, maxsz), cb_free_len(cb) # 0,
         NEW in \in Seq(Int), NEW more \in BOOLEAN
  PROVE  LET new == cb_read(cb, in, more) IN
         /\ IsCb(new, maxsz)
         /\ \E n \in Nat : HasRead(cb, new, in, more, n)
<1> DEFINE new == cb_read(cb, in, more)
<1>1. PICK c, e, w : c = cb.circ /\ e = cb.eof /\ w = cb.write_err
  OBVIOUS
<1>2. /\ cb = CopyBuf(c, maxsz, e, w) /\ IsQueue(c) /\ c.buf_len <= maxsz
      /\ e \in BOOLEAN /\ w \in BOOLEAN
  BY <1>1, CbFacts
<1>3. /\ cb.circ = c /\ cb.eof = e /\ cb.write_err = w
      /\ cb_data_len(cb) = c.data_len /\ c.data_len # maxsz
      /\ Data(c) \in Seq(Int)
  BY <1>2, CbFields, CbFacts
<1>4. PICK g : /\ cb_grow(cb) = CopyBuf(g, maxsz, e, w)
               /\ IsQueue(g) /\ g.buf_len <= maxsz /\ Data(g) = Data(c)
               /\ cb_room(cb) = g.buf_len - g.data_len /\ g.data_len < g.buf_len
  BY <1>2, <1>3, CbGrows
<1>5. /\ g.data_len = c.data_len /\ g.data_len \in Nat /\ g.buf_len \in Nat
      /\ Data(g) \in Seq(Int)
  BY <1>2, <1>4, QueueFacts
<1>6. PICK room : room = cb_room(cb) /\ room \in Nat /\ room > 0
                  /\ room = g.buf_len - g.data_len
  BY <1>4, <1>5
<1>7. PICK n : n = IF Len(in) < room THEN Len(in) ELSE room
  OBVIOUS
<1>8. n \in Nat /\ n <= Len(in) /\ n <= room /\ (n = 0 <=> Len(in) = 0)
  BY <1>6, <1>7
<1>9. CASE n > 0
  <2> DEFINE bytes == SubSeq(in, 1, n)
  <2>1. bytes \in Seq(Int) /\ Len(bytes) = n
    BY <1>8, <1>9
  <2>2. new = [cb_grow(cb) EXCEPT !.circ = Filled(@, bytes)]
    BY <1>6, <1>7, <1>9 DEF cb_read
  <2>3. new = CopyBuf(Filled(g, bytes), maxsz, e, w)
    BY <1>4, <2>2, CbFields
  <2> HIDE DEF bytes, new
  <2>4. PICK j : j = Filled(g, bytes)
    OBVIOUS
  <2>5. IsQueue(j) /\ j.buf_len = g.buf_len /\ Data(j) = Data(g) \o bytes
    BY <1>4, <1>6, <1>8, <1>9, <2>1, <2>4, QueueAppends
  <2>6. j.data_len = g.data_len + n
    <3>1. Len(Data(j)) = j.data_len /\ Len(Data(g)) = g.data_len
      BY <1>4, <2>5, QueueFacts
    <3>2. Len(Data(g) \o bytes) = Len(Data(g)) + Len(bytes)
      BY <1>5, <2>1, ConcatProperties
    <3>3. QED
      BY <2>1, <2>5, <3>1, <3>2
  <2>7. IsCb(new, maxsz)
    BY <1>2, <1>4, <2>3, <2>4, <2>5, CbMade
  <2>8. /\ new.circ = j /\ new.eof = e /\ new.write_err = w /\ cb_data_len(new) = j.data_len
    BY <2>3, <2>4, CbFields DEF cb_data_len
  <2>9. HasRead(cb, new, in, more, n)
    BY <1>3, <1>4, <1>5, <1>8, <1>9, <2>5, <2>6, <2>8 DEF HasRead, bytes
  <2>10. QED
    BY <1>8, <2>7, <2>9 DEF new
<1>10. CASE n = 0
  <2>1. /\ Len(in) = 0 /\ in = << >> /\ SubSeq(in, 1, 0) = << >>
        /\ Data(c) \o << >> = Data(c)
    BY <1>3, <1>8, <1>10
  <2>2. CASE more
    <3>1. new = cb_grow(cb)
      BY <1>6, <1>7, <1>10, <2>1, <2>2 DEF cb_read
    <3>2. /\ new.circ = g /\ new.eof = e /\ new.write_err = w /\ cb_data_len(new) = g.data_len
          /\ IsCb(new, maxsz)
      BY <1>2, <1>4, <3>1, CbFields, CbMade DEF cb_data_len
    <3> HIDE DEF new
    <3>3. HasRead(cb, new, in, more, 0)
      BY <1>3, <1>4, <1>5, <2>1, <3>2 DEF HasRead
    <3>4. QED
      BY <3>2, <3>3 DEF new
  <2>3. CASE ~more
    <3>1. cb_data_len(cb_grow(cb)) = c.data_len
      BY <1>4, <1>5, CbFields DEF cb_data_len
    <3>2. PICK j : j = IF c.data_len = 0 THEN circ_realloc(g, 0) ELSE g
      OBVIOUS
    <3>3. PICK yes : yes = TRUE
      OBVIOUS
    <3>4. new = CopyBuf(j, maxsz, yes, w)
      <4>1. PICK at_eof : /\ at_eof = [cb_grow(cb) EXCEPT !.eof = TRUE]
                          /\ at_eof = [cb_grow(cb) EXCEPT !.eof = yes]
        BY <3>3, CbMarked
      <4>2. at_eof = CopyBuf(g, maxsz, yes, w)
        <5>1. at_eof = [cb_grow(cb) EXCEPT !.eof = yes]
          BY <4>1
        <5>2. QED
          BY <1>4, <5>1, CbFields
      <4>3. cb_free(at_eof) = CopyBuf(circ_realloc(g, 0), maxsz, yes, w)
        BY <4>2, CbFields DEF cb_free
      <4>4. new = IF c.data_len = 0 THEN cb_free(at_eof) ELSE at_eof
        BY <1>6, <1>7, <1>10, <2>1, <2>3, <3>1, <4>1 DEF cb_read
      <4>5. QED
        BY <3>2, <4>2, <4>3, <4>4
    <3>5. IsQueue(j) /\ j.buf_len <= maxsz /\ Data(j) = Data(g)
      BY <1>4, <1>5, <3>2, QueueFreed
    <3>6. j.data_len = c.data_len
      BY <1>4, <1>5, <3>5, QueueFacts
    <3> HIDE DEF new
    <3>7. IsCb(new, maxsz)
      BY <1>2, <3>3, <3>4, <3>5, CbMade
    <3>8. /\ new.circ = j /\ new.eof = yes /\ new.write_err = w /\ cb_data_len(new) = j.data_len
      BY <3>4, CbFields DEF cb_data_len
    <3>9. HasRead(cb, new, in, more, 0)
      BY <1>3, <1>4, <1>5, <2>1, <2>3, <3>3, <3>5, <3>6, <3>8 DEF HasRead
    <3>10. QED
      BY <3>7, <3>9 DEF new
  <2>4. QED
    BY <2>2, <2>3
<1>11. QED
  BY <1>8, <1>9, <1>10

-----------------------------------------------------------------------------
(* cb_write and cb_shift *)

\* What a write of n bytes did to a copy buffer.
HasWritten(cb, new, n) ==
  /\ cb_data_len(new) = cb_data_len(cb) - n
  /\ Data(new.circ) = SubSeq(Data(cb.circ), n + 1, cb_data_len(cb))
  /\ new.write_err = cb.write_err
  /\ new.eof = cb.eof

LEMMA QueueLeft ==
  ASSUME NEW c, IsQueue(c), NEW w \in 1 .. c.data_len, NEW j, j = circ_adj_len(c, -w)
  PROVE  /\ IsQueue(j) /\ j.buf_len = c.buf_len /\ j.data_len = c.data_len - w
         /\ Data(j) = SubSeq(Data(c), w + 1, c.data_len)
<1>1. j.data_len = c.data_len + -w
  BY DEF circ_adj_len
<1>2. c.data_len \in Nat
  BY QueueFacts
<1>3. QED
  BY <1>1, <1>2, QueueTakes

\* cb_write of n bytes takes the first n out of the buffer, and frees its memory
\* when that was the last of the file.
THEOREM CbWrites ==
  ASSUME NEW maxsz \in Nat, NEW cb, IsCb(cb, maxsz), NEW n \in 0 .. cb_data_len(cb)
  PROVE  IsCb(cb_wrote(cb, n), maxsz) /\ HasWritten(cb, cb_wrote(cb, n), n)
<1>1. PICK c, e, w : c = cb.circ /\ e = cb.eof /\ w = cb.write_err
  OBVIOUS
<1>2. /\ cb = CopyBuf(c, maxsz, e, w) /\ IsQueue(c) /\ c.buf_len <= maxsz
      /\ e \in BOOLEAN /\ w \in BOOLEAN
      /\ cb_data_len(cb) = c.data_len /\ c.data_len \in Nat
      /\ Data(c) \in Seq(Int) /\ Len(Data(c)) = c.data_len
  BY <1>1, CbFacts
<1>3. CASE n = 0
  <2>1. cb_wrote(cb, n) = cb
    BY <1>3 DEF cb_wrote
  <2>2. SubSeq(Data(c), 1, c.data_len) = Data(c)
    BY <1>2, SubSeqFull
  <2>3. HasWritten(cb, cb, 0)
    <3>1. PICK data, d : data = Data(c) /\ d = c.data_len
      OBVIOUS
    <3>2. d \in Nat /\ cb_data_len(cb) = d /\ Data(cb.circ) = data /\ SubSeq(data, 1, d) = data
      BY <1>1, <1>2, <2>2, <3>1
    <3>3. d - 0 = d /\ 0 + 1 = 1
      BY <3>2
    <3>4. QED
      BY <3>2, <3>3 DEF HasWritten
  <2>4. QED
    BY <1>3, <2>1, <2>3
<1>4. CASE n # 0
  <2>1. PICK j : j = circ_adj_len(c, -n)
    OBVIOUS
  <2>2. n \in 1 .. c.data_len
    BY <1>2, <1>4
  <2>3. /\ IsQueue(j) /\ j.buf_len = c.buf_len /\ j.data_len = c.data_len - n
        /\ Data(j) = SubSeq(Data(c), n + 1, c.data_len)
    BY <1>2, <2>1, <2>2, QueueLeft
  <2>4. [cb EXCEPT !.circ = circ_adj_len(@, -n)] = CopyBuf(j, maxsz, e, w)
    BY <1>1, <1>2, <2>1, CbFields
  <2>5. PICK k : k = IF e /\ j.data_len = 0 THEN circ_realloc(j, 0) ELSE j
    OBVIOUS
  <2>6. cb_wrote(cb, n) = CopyBuf(k, maxsz, e, w)
    <3>1. PICK x : x = [cb EXCEPT !.circ = circ_adj_len(@, -n)]
      OBVIOUS
    <3>2. x = CopyBuf(j, maxsz, e, w)
      BY <2>4, <3>1
    <3>3. x.eof = e /\ cb_data_len(x) = j.data_len
      BY <3>2, CbFields DEF cb_data_len
    <3>4. cb_free(x) = CopyBuf(circ_realloc(j, 0), maxsz, e, w)
      BY <3>2, CbFields DEF cb_free
    <3>5. cb_wrote(cb, n) = IF x.eof /\ cb_data_len(x) = 0 THEN cb_free(x) ELSE x
      BY <1>4, <3>1 DEF cb_wrote
    <3>6. QED
      BY <2>5, <3>2, <3>3, <3>4, <3>5
  <2>7. IsQueue(k) /\ k.buf_len <= maxsz /\ Data(k) = Data(j)
    <3>1. CASE e /\ j.data_len = 0
      <4>1. k = circ_realloc(j, 0)
        BY <2>5, <3>1
      <4>2. IsQueue(k) /\ k.buf_len = 0 /\ Data(k) = Data(j)
        BY <2>3, <3>1, <4>1, QueueFreed
      <4>3. 0 <= maxsz
        OBVIOUS
      <4>4. QED
        BY <4>2, <4>3
    <3>2. CASE ~(e /\ j.data_len = 0)
      <4>1. k = j
        BY <2>5, <3>2
      <4>2. QED
        BY <1>2, <2>3, <4>1
    <3>3. QED
      BY <3>1, <3>2
  <2>8. k.data_len = j.data_len
    BY <2>3, <2>7, QueueFacts
  <2>9. PICK new : new = cb_wrote(cb, n)
    OBVIOUS
  <2>10. new.circ = k /\ new.eof = e /\ new.write_err = w /\ cb_data_len(new) = k.data_len
    BY <2>6, <2>9, CbFields DEF cb_data_len
  <2>11. HasWritten(cb, new, n)
    <3>1. PICK d : d = c.data_len
      OBVIOUS
    <3>2. cb_data_len(new) = d - n /\ cb_data_len(cb) = d
      BY <1>2, <2>3, <2>8, <2>10, <3>1
    <3>3. Data(new.circ) = SubSeq(Data(cb.circ), n + 1, d)
      BY <1>1, <2>3, <2>7, <2>10, <3>1
    <3>4. new.write_err = cb.write_err /\ new.eof = cb.eof
      BY <1>1, <2>10
    <3>5. QED
      BY <3>2, <3>3, <3>4 DEF HasWritten
  <2>12. IsCb(new, maxsz)
    BY <1>2, <2>6, <2>7, <2>9, CbMade
  <2>13. QED
    BY <2>9, <2>11, <2>12
<1>5. QED
  BY <1>3, <1>4

\* Marking a buffer
LEMMA CbErred ==
  ASSUME NEW maxsz \in Nat, NEW cb, IsCb(cb, maxsz)
  PROVE  LET new == [cb EXCEPT !.write_err = TRUE] IN
         /\ IsCb(new, maxsz) /\ new.write_err = TRUE /\ new.eof = cb.eof /\ new.circ = cb.circ
<1>1. PICK c, e, w : c = cb.circ /\ e = cb.eof /\ w = cb.write_err
  OBVIOUS
<1>2. /\ cb = CopyBuf(c, maxsz, e, w) /\ IsQueue(c) /\ c.buf_len <= maxsz /\ e \in BOOLEAN
  BY <1>1, CbFacts
<1>3. PICK yes : yes = TRUE
  OBVIOUS
<1>4. PICK new : /\ new = [cb EXCEPT !.write_err = TRUE]
                 /\ new = [cb EXCEPT !.write_err = yes]
  BY <1>3, CbMarked
<1>5. new = CopyBuf(c, maxsz, e, yes)
  <2>1. new = [cb EXCEPT !.write_err = yes]
    BY <1>4
  <2>2. QED
    BY <1>2, <2>1, CbFields
<1>6. new.circ = c /\ new.eof = e /\ new.write_err = yes
  BY <1>5, CbFields
<1>7. IsCb(new, maxsz)
  BY <1>2, <1>3, <1>5, CbMade
<1>8. QED
  BY <1>1, <1>3, <1>4, <1>6, <1>7

LEMMA CbEnded ==
  ASSUME NEW maxsz \in Nat, NEW cb, IsCb(cb, maxsz)
  PROVE  LET new == [cb EXCEPT !.eof = TRUE] IN
         /\ IsCb(new, maxsz) /\ new.eof = TRUE /\ new.write_err = cb.write_err
         /\ new.circ = cb.circ
<1>1. PICK c, e, w : c = cb.circ /\ e = cb.eof /\ w = cb.write_err
  OBVIOUS
<1>2. /\ cb = CopyBuf(c, maxsz, e, w) /\ IsQueue(c) /\ c.buf_len <= maxsz /\ w \in BOOLEAN
  BY <1>1, CbFacts
<1>3. PICK yes : yes = TRUE
  OBVIOUS
<1>4. PICK new : /\ new = [cb EXCEPT !.eof = TRUE]
                 /\ new = [cb EXCEPT !.eof = yes]
  BY <1>3, CbMarked
<1>5. new = CopyBuf(c, maxsz, yes, w)
  <2>1. new = [cb EXCEPT !.eof = yes]
    BY <1>4
  <2>2. QED
    BY <1>2, <2>1, CbFields
<1>6. new.circ = c /\ new.eof = yes /\ new.write_err = w
  BY <1>5, CbFields
<1>7. IsCb(new, maxsz)
  BY <1>2, <1>3, <1>5, CbMade
<1>8. QED
  BY <1>1, <1>3, <1>4, <1>6, <1>7

\* cb_write after an error: everything goes, and nothing is written any more.
LEMMA CbFails ==
  ASSUME NEW maxsz \in Nat, NEW cb, IsCb(cb, maxsz), NEW new, new = cb_write_failed(cb)
  PROVE  IsCb(new, maxsz) /\ new.write_err = TRUE /\ new.eof = cb.eof /\ cb_data_len(new) = 0
<1>1. PICK x : x = [cb EXCEPT !.write_err = TRUE]
  OBVIOUS
<1>2. IsCb(x, maxsz) /\ x.write_err = TRUE /\ x.eof = cb.eof /\ x.circ = cb.circ
  BY <1>1, CbErred
<1>3. cb_data_len(x) = cb_data_len(cb) /\ cb_data_len(x) \in Nat
  BY <1>2, CbFacts DEF cb_data_len
<1>4. new = cb_wrote(x, cb_data_len(x))
  BY <1>1, <1>3 DEF cb_write_failed
<1>5. IsCb(new, maxsz) /\ HasWritten(x, new, cb_data_len(x))
  BY <1>2, <1>3, <1>4, CbWrites
<1>6. QED
  BY <1>2, <1>3, <1>5 DEF HasWritten

\* cb_shift
LEMMA CbShifts ==
  ASSUME NEW maxsz \in Nat, NEW cb, IsCb(cb, maxsz), cb_data_len(cb) > 0,
         NEW new, new = cb_shift(cb)
  PROVE  /\ IsCb(new, maxsz) /\ HasWritten(cb, new, 1)
         /\ cb_first(cb) = Data(cb.circ)[1]
<1>1. PICK c, e, w : c = cb.circ /\ e = cb.eof /\ w = cb.write_err
  OBVIOUS
<1>2. /\ cb = CopyBuf(c, maxsz, e, w) /\ IsQueue(c) /\ c.buf_len <= maxsz
      /\ e \in BOOLEAN /\ w \in BOOLEAN
      /\ cb_data_len(cb) = c.data_len /\ c.data_len \in Nat
  BY <1>1, CbFacts
<1>3. PICK j : j = circ_adj_len(c, -1)
  OBVIOUS
<1>4. 1 \in 1 .. c.data_len
  BY <1>2
<1>5. /\ IsQueue(j) /\ j.buf_len = c.buf_len /\ j.data_len = c.data_len - 1
      /\ Data(j) = SubSeq(Data(c), 1 + 1, c.data_len)
  BY <1>2, <1>3, <1>4, QueueLeft
<1>6. new = CopyBuf(j, maxsz, e, w)
  <2>1. new = [cb EXCEPT !.circ = j]
    BY <1>1, <1>3 DEF cb_shift
  <2>2. QED
    BY <1>2, <2>1, CbFields
<1>7. new.circ = j /\ new.eof = e /\ new.write_err = w /\ cb_data_len(new) = j.data_len
  BY <1>6, CbFields DEF cb_data_len
<1>8. IsCb(new, maxsz)
  BY <1>2, <1>5, <1>6, CbMade
<1>9. HasWritten(cb, new, 1)
  BY <1>1, <1>2, <1>5, <1>7 DEF HasWritten
<1>10. cb_first(cb) = Data(c)[1]
  BY <1>1, <1>4 DEF cb_first, Data
<1>11. QED
  BY <1>1, <1>8, <1>9, <1>10

-----------------------------------------------------------------------------
(* cb_init *)

Contains(cb, contents) == Data(cb.circ) = contents /\ cb_data_len(cb) = Len(contents)

LEMMA CbStarts ==
  ASSUME NEW maxsz \in Nat, NEW contents \in Seq(Int), NEW alloced \in Nat,
         Len(contents) <= alloced, alloced <= maxsz,
         NEW cb, cb = cb_init(maxsz, contents, alloced)
  PROVE  /\ IsCb(cb, maxsz) /\ Contains(cb, contents)
         /\ cb.eof = FALSE /\ cb.write_err = FALSE
<1> DEFINE mem == [p \in 0 .. alloced-1 |-> IF p < Len(contents) THEN contents[p+1] ELSE Junk]
           c == Circ(mem, alloced, 0, Len(contents))
<1>1. circ_init(contents, alloced) = c
  BY DEF circ_init, Circ
<1>2. mem \in [0 .. alloced-1 -> Int \cup {Junk}]
  <2>1. ASSUME NEW p \in 0 .. alloced-1, p < Len(contents) PROVE contents[p+1] \in Int
    BY <2>1
  <2>2. QED
    BY <2>1
<1>3. Len(contents) \in Nat
  OBVIOUS
<1> HIDE DEF mem
<1>4. Sound(mem, alloced, 0, Len(contents))
  BY <1>2, <1>3 DEF Sound
<1>5. c.buf_len = alloced /\ c.data_len = Len(contents) /\ c.data_beg = 0 /\ IsCirc(c)
  BY <1>4, Fields DEF IsCirc
<1>6. ASSUME NEW k \in 1 .. Len(contents) PROVE Data(c)[k] = contents[k]
  <2>1. Data(c)[k] = mem[At(alloced, 0, k)]
    BY <1>4, DataCells
  <2>2. At(alloced, 0, k) = k - 1 /\ k - 1 \in 0 .. alloced - 1 /\ k - 1 < Len(contents)
        /\ (k - 1) + 1 = k
    BY <1>3 DEF At
  <2>3. QED
    BY <2>1, <2>2 DEF mem
<1>7. Data(c) = contents
  <2>1. OnFirst(Data(c), Len(contents)) /\ OnFirst(contents, Len(contents))
    BY <1>5, DataOnFirst, SeqOnFirst
  <2>2. QED
    BY <1>6, <2>1, ByElements
<1>8. IsQueue(c)
  BY <1>5, <1>7 DEF IsQueue
<1>9. PICK no : no = FALSE
  OBVIOUS
<1> HIDE DEF c
<1>10. cb = CopyBuf(c, maxsz, no, no)
  BY <1>1, <1>9 DEF cb_init, CopyBuf
<1>11. cb.circ = c /\ cb.eof = no /\ cb.write_err = no /\ cb_data_len(cb) = c.data_len
  BY <1>10, CbFields DEF cb_data_len
<1>12. IsCb(cb, maxsz)
  BY <1>5, <1>8, <1>9, <1>10, CbMade
<1>13. Contains(cb, contents)
  BY <1>5, <1>7, <1>11 DEF Contains
<1>14. QED
  BY <1>9, <1>11, <1>12, <1>13
=============================================================================
