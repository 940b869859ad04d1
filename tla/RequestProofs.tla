--------------------------- MODULE RequestProofs ---------------------------
(***************************************************************************)
(* Proofs about Request, for strings, lists and buffers of every size:     *)
(* mkenv makes the message it is meant to and writes all of it into its    *)
(* buffer, and get_string takes the strings out again, one by one, or says *)
(* that the message was cut off.                                           *)
(***************************************************************************)
EXTENDS Request, Induction

-----------------------------------------------------------------------------
(* The request is built *)

\* A string as it is sent: its length, as a byte or as an int, and its bytes
Header(n) == IF n >= MAX_SHORT_STR THEN <<MAX_SHORT_STR>> \o IntBytes(n) ELSE <<n>>
Code(s) == Header(Len(s)) \o s

LEMMA HeaderIs ==
  ASSUME NEW n \in Nat
  PROVE  /\ Header(n) \in Seq(Nat)
         /\ n >= MAX_SHORT_STR =>
              /\ Len(Header(n)) = 1 + SIZEOF_INT
              /\ Header(n)[1] = MAX_SHORT_STR /\ Header(n)[2] = n
         /\ ~(n >= MAX_SHORT_STR) => Len(Header(n)) = 1 /\ Header(n)[1] = n
<1>1. MAX_SHORT_STR \in Nat \ {0} /\ SIZEOF_INT \in Nat \ {0}
  BY RequestAssumption
<1>2. PICK int : int = IntBytes(n)
  OBVIOUS
<1>3. int \in Seq(Nat) /\ Len(int) = SIZEOF_INT /\ int[1] = n
  BY <1>1, <1>2 DEF IntBytes
<1>4. CASE n >= MAX_SHORT_STR
  <2>1. PICK h : h = <<MAX_SHORT_STR>> \o int
    OBVIOUS
  <2>2. h \in Seq(Nat) /\ Len(h) = 1 + SIZEOF_INT /\ h[1] = MAX_SHORT_STR /\ h[2] = n
    BY <1>1, <1>3, <2>1
  <2>. QED
    BY <1>2, <1>4, <2>1, <2>2 DEF Header
<1>5. CASE ~(n >= MAX_SHORT_STR)
  BY <1>5 DEF Header
<1>. QED
  BY <1>4, <1>5

\* A buffer by its parts
Buf(bytes, alloced, fits) == [bytes |-> bytes, alloced |-> alloced, fits |-> fits]

SetBytes(b, v)   == [b EXCEPT !.bytes = v]
SetAlloced(b, v) == [b EXCEPT !.alloced = v]
SetFits(b, v)    == [b EXCEPT !.fits = v]

\* A buffer over a set S of bytes, in which nothing was written past the end
IsBuf(b, S) ==
  \E bytes \in Seq(S), alloced \in Nat : \E fits : b = Buf(bytes, alloced, fits) /\ fits = TRUE

LEMMA BufFields ==
  ASSUME NEW bytes, NEW alloced, NEW fits
  PROVE  /\ Buf(bytes, alloced, fits).bytes = bytes
         /\ Buf(bytes, alloced, fits).alloced = alloced
         /\ Buf(bytes, alloced, fits).fits = fits
BY DEF Buf

LEMMA BufSet ==
  ASSUME NEW bytes, NEW alloced, NEW fits, NEW v
  PROVE  /\ SetBytes(Buf(bytes, alloced, fits), v) = Buf(v, alloced, fits)
         /\ SetAlloced(Buf(bytes, alloced, fits), v) = Buf(bytes, v, fits)
         /\ SetFits(Buf(bytes, alloced, fits), v) = Buf(bytes, alloced, v)
<1>1. SetBytes(Buf(bytes, alloced, fits), v) = Buf(v, alloced, fits)
  BY DEF Buf, SetBytes
<1>2. SetAlloced(Buf(bytes, alloced, fits), v) = Buf(bytes, v, fits)
  BY DEF Buf, SetAlloced
<1>3. SetFits(Buf(bytes, alloced, fits), v) = Buf(bytes, alloced, v)
  BY DEF Buf, SetFits
<1>. QED
  BY <1>1, <1>2, <1>3

LEMMA AddIs ==
  ASSUME NEW S, NEW b, IsBuf(b, S), NEW s \in Seq(S)
  PROVE  IsBuf(ADD(b, s), S) /\ ADD(b, s).bytes = b.bytes \o s
<1>1. SPEEDY_REALLOC_MULT \in Nat
  BY RequestAssumption
<1>2. PICK bytes \in Seq(S), alloced \in Nat : \E fits : b = Buf(bytes, alloced, fits) /\ fits = TRUE
  BY Zenon DEF IsBuf
<1>3. PICK fits : b = Buf(bytes, alloced, fits) /\ fits = TRUE
  BY <1>2, Zenon
<1>4. b = Buf(bytes, alloced, fits)
  BY <1>3, Zenon
<1>5. Len(bytes) \in Nat /\ Len(s) \in Nat /\ bytes \o s \in Seq(S)
  OBVIOUS
<1>6. b.bytes = bytes /\ b.alloced = alloced
  BY <1>4, BufFields
<1>7. PICK new \in Nat : /\ BUF_ENLARGE(b, Len(s)) = Buf(bytes, new, fits)
                         /\ Len(bytes) + Len(s) <= new
  <2>1. CASE Len(bytes) + Len(s) > alloced
    <3>1. alloced * SPEEDY_REALLOC_MULT \in Nat
      BY <1>1
    <3>2. PICK new \in Nat : /\ new = IF alloced * SPEEDY_REALLOC_MULT < Len(bytes) + Len(s)
                                      THEN Len(bytes) + Len(s) ELSE alloced * SPEEDY_REALLOC_MULT
                             /\ Len(bytes) + Len(s) <= new
      BY <1>5, <3>1
    <3>3. BUF_ENLARGE(b, Len(s)) = SetAlloced(b, new)
      BY <1>6, <2>1, <3>2, Zenon DEF BUF_ENLARGE, enlarge_buf, SetAlloced
    <3>4. SetAlloced(b, new) = Buf(bytes, new, fits)
      BY <1>4, BufSet
    <3>. QED
      BY <3>2, <3>3, <3>4, Zenon
  <2>2. CASE ~(Len(bytes) + Len(s) > alloced)
    <3>1. Len(bytes) + Len(s) <= alloced
      BY <1>5, <2>2
    <3>2. BUF_ENLARGE(b, Len(s)) = b
      BY <1>6, <2>2, Zenon DEF BUF_ENLARGE
    <3>. QED
      BY <1>3, <3>1, <3>2, Zenon
  <2>. QED
    BY <2>1, <2>2, Zenon
<1>8. PICK ok : ok = (fits /\ Len(bytes) + Len(s) <= new)
  OBVIOUS
<1>9. ok = TRUE
  BY <1>3, <1>7, <1>8, Zenon
<1>10. ADD(b, s) = Buf(bytes \o s, new, ok)
  <2>1. PICK b1 : b1 = Buf(bytes, new, fits)
    OBVIOUS
  <2>2. b1.bytes = bytes /\ b1.alloced = new /\ b1.fits = fits
    BY <2>1, BufFields
  <2>3. ADD(b, s) = SetFits(SetBytes(b1, bytes \o s), ok)
    BY <1>7, <1>8, <2>1, <2>2, Zenon DEF ADD, ADD2, SetFits, SetBytes
  <2>4. SetBytes(b1, bytes \o s) = Buf(bytes \o s, new, fits)
    BY <2>1, BufSet
  <2>. QED
    BY <2>3, <2>4, BufSet
<1>11. ADD(b, s).bytes = bytes \o s
  <2>1. PICK all : all = bytes \o s
    OBVIOUS
  <2>2. Buf(all, new, ok).bytes = all
    BY BufFields
  <2>. QED
    BY <1>10, <2>1, <2>2, Zenon
<1>. QED
  BY <1>5, <1>6, <1>7, <1>9, <1>10, <1>11, Zenon DEF IsBuf

\* What ADD_STRING does for the int is ADD.
LEMMA AddStringIs ==
  ASSUME NEW S, Nat \subseteq S, NEW b, IsBuf(b, S), NEW s \in Seq(S)
  PROVE  IsBuf(ADD_STRING(b, s), S) /\ ADD_STRING(b, s).bytes = b.bytes \o Code(s)
<1>1. Len(s) \in Nat
  OBVIOUS
<1>2. PICK head \in Seq(Nat) : head = Header(Len(s))
  BY <1>1, HeaderIs
<1>3. head \in Seq(S)
  BY SeqMonotonic
<1>4. ADD_STRING(b, s) = ADD(ADD(b, head), s)
  <2>1. CASE Len(s) >= MAX_SHORT_STR
    <3>1. Len(head) = 1 + SIZEOF_INT /\ head = <<MAX_SHORT_STR>> \o IntBytes(Len(s))
      BY <1>1, <1>2, <2>1, HeaderIs DEF Header
    <3>2. 1 + SIZEOF_INT = SIZEOF_INT + 1
      BY RequestAssumption
    <3>. QED
      BY <2>1, <3>1, <3>2 DEF ADD_STRING, ADD
  <2>2. CASE ~(Len(s) >= MAX_SHORT_STR)
    BY <1>2, <2>2 DEF ADD_STRING, Header
  <2>. QED
    BY <2>1, <2>2
<1>5. IsBuf(ADD(b, head), S) /\ ADD(b, head).bytes = b.bytes \o head
  BY <1>3, AddIs, Zenon
<1>6. IsBuf(ADD(ADD(b, head), s), S) /\ ADD(ADD(b, head), s).bytes = ADD(b, head).bytes \o s
  BY <1>5, AddIs, Zenon
<1>7. b.bytes \in Seq(S)
  <2>1. PICK bytes \in Seq(S), alloced \in Nat : \E fits : b = Buf(bytes, alloced, fits)
    BY Zenon DEF IsBuf
  <2>2. PICK fits : b = Buf(bytes, alloced, fits)
    BY <2>1, Zenon
  <2>. QED
    BY <2>2, BufFields
<1>8. (b.bytes \o head) \o s = b.bytes \o (head \o s)
  <2>1. PICK x \in Seq(S), y \in Seq(S) : x = b.bytes /\ y = head
    BY <1>3, <1>7
  <2>2. (x \o y) \o s = x \o (y \o s)
    BY ConcatAssociative
  <2>. QED
    BY <2>1, <2>2
<1>. QED
  BY <1>2, <1>4, <1>5, <1>6, <1>8, Zenon DEF Code

LEMMA OneIs ==
  ASSUME NEW L, NEW e \in L
  PROVE  <<e>> \in Seq(L) /\ <<e>> = Append(<< >>, e) /\ Len(<<e>>) = 1 /\ <<e>>[1] = e
OBVIOUS

LEMMA CodeType ==
  ASSUME NEW S, Nat \subseteq S, NEW s \in Seq(S)
  PROVE  Code(s) \in Seq(S)
<1>1. PICK head \in Seq(Nat) : head = Header(Len(s))
  BY HeaderIs
<1>2. head \in Seq(S)
  BY SeqMonotonic
<1>. QED
  BY <1>1, <1>2 DEF Code

\* The strings of a list, one after the other as they are sent
Joined(list) ==
  LET upto[i \in 0 .. Len(list)] == IF i = 0 THEN << >> ELSE upto[i - 1] \o Code(list[i])
  IN  upto[Len(list)]

JoinedLoop(list, f) ==
  /\ DOMAIN f = 0 .. Len(list) /\ f[0] = << >>
  /\ \A i \in 1 .. Len(list) : f[i] = f[i - 1] \o Code(list[i])

LEMMA JoinedIs ==
  ASSUME NEW S, Nat \subseteq S, NEW list \in Seq(Seq(S))
  PROVE  \E f \in [0 .. Len(list) -> Seq(S)] : JoinedLoop(list, f) /\ Joined(list) = f[Len(list)]
<1>1. PICK n \in Nat : n = Len(list)
  OBVIOUS
<1>2. PICK V : V = Seq(S)
  OBVIOUS
<1>3. PICK start \in V : start = << >>
  BY <1>2, EmptySeq
<1> DEFINE Step(i, v) == v \o Code(list[i])
           Is(f) == f = [i \in 0 .. n |-> IF i = 0 THEN start ELSE Step(i, f[i - 1])]
<1>4. ASSUME NEW i \in 1 .. n, NEW v \in V PROVE Step(i, v) \in V
  <2>1. list[i] \in Seq(S)
    BY <1>1
  <2>2. PICK code \in Seq(S) : code = Code(list[i])
    BY <2>1, CodeType
  <2>3. v \o code \in Seq(S)
    BY <1>2
  <2>. QED
    BY <1>2, <2>2, <2>3
<1>5. PICK f : f = CHOOSE h : Is(h)
  OBVIOUS
<1>6. Joined(list) = f[n]
  BY <1>3, <1>1, <1>5, Zenon DEF Joined
<1> HIDE DEF Step
<1>7. \E h : Is(h)
  <2>1. PICK turn : turn = [i \in 1 .. n |-> [v \in V |-> Step(i, v)]]
    OBVIOUS
  <2>2. Turns(turn, n, V)
    BY <1>4, <2>1 DEF Turns
  <2>3. PICK h : Loop(h, n, V, start, turn)
    BY <2>2, LoopEnds
  <2>4. ASSUME NEW i \in 1 .. n PROVE h[i] = Step(i, h[i - 1])
    <3>1. i - 1 \in 0 .. n
      OBVIOUS
    <3>2. h[i - 1] \in V
      BY <2>3, <3>1 DEF Loop
    <3>. QED
      BY <2>1, <2>3, <3>2 DEF Loop
  <2>5. \A i \in 0 .. n : h[i] = IF i = 0 THEN start ELSE Step(i, h[i - 1])
    <3>1. SUFFICES ASSUME NEW i \in 0 .. n
                   PROVE  h[i] = IF i = 0 THEN start ELSE Step(i, h[i - 1])
      OBVIOUS
    <3>2. CASE i = 0
      BY <2>3, <3>2 DEF Loop
    <3>3. CASE i # 0
      <4>1. i \in 1 .. n
        BY <3>3
      <4>. QED
        BY <2>4, <3>3, <4>1
    <3>. QED
      BY <3>2, <3>3
  <2>. QED
    BY <2>3, <2>5 DEF Loop
<1>8. Is(f)
  <2> HIDE DEF Is
  <2>. QED
    BY <1>5, <1>7, Zenon
<1>9. DOMAIN f = 0 .. n /\ f[0] = start /\ \A i \in 1 .. n : f[i] = Step(i, f[i - 1])
  BY <1>8
<1>10. f \in [0 .. n -> V]
  <2>1. \A i \in 0 .. n : f[i] \in V
    <3> HIDE DEF Is
    <3>1. \A i \in 1 .. n : f[i - 1] \in V => f[i] \in V
      BY <1>4, <1>9
    <3>. QED
      BY <1>9, <3>1, LoopStays
  <2>. QED
    BY <1>8, <2>1
<1>. QED
  BY <1>3, <1>1, <1>2, <1>6, <1>9, <1>10 DEF JoinedLoop, Step

LEMMA JoinedType ==
  ASSUME NEW S, Nat \subseteq S, NEW list \in Seq(Seq(S))
  PROVE  Joined(list) \in Seq(S)
<1>1. PICK f \in [0 .. Len(list) -> Seq(S)] : Joined(list) = f[Len(list)]
  BY JoinedIs
<1>2. Len(list) \in 0 .. Len(list)
  OBVIOUS
<1>. QED
  BY <1>1, <1>2

LEMMA JoinedEmpty ==
  ASSUME NEW S, Nat \subseteq S
  PROVE  Joined(<< >>) = << >>
<1>1. PICK none \in Seq(Seq(S)) : none = << >> /\ Len(none) = 0
  BY EmptySeq
<1>2. PICK f : JoinedLoop(none, f) /\ Joined(none) = f[Len(none)]
  BY JoinedIs
<1>. QED
  BY <1>1, <1>2 DEF JoinedLoop

LEMMA JoinedAppend ==
  ASSUME NEW S, Nat \subseteq S, NEW list \in Seq(Seq(S)), NEW s \in Seq(S)
  PROVE  Joined(Append(list, s)) = Joined(list) \o Code(s)
<1>1. PICK n \in Nat : n = Len(list)
  OBVIOUS
<1>2. PICK more \in Seq(Seq(S)) : more = Append(list, s)
  BY AppendProperties
<1>3. Len(more) = n + 1 /\ more[n + 1] = s /\ \A i \in 1 .. n : more[i] = list[i]
  BY <1>1, <1>2, AppendProperties
<1>4. PICK f : JoinedLoop(list, f) /\ Joined(list) = f[n]
  BY <1>1, JoinedIs
<1>5. PICK h : JoinedLoop(more, h) /\ Joined(more) = h[n + 1]
  BY <1>3, JoinedIs
<1>6. /\ f[0] = << >> /\ \A i \in 1 .. n : f[i] = f[i - 1] \o Code(list[i])
      /\ h[0] = << >> /\ \A i \in 1 .. n + 1 : h[i] = h[i - 1] \o Code(more[i])
  BY <1>1, <1>3, <1>4, <1>5, Zenon DEF JoinedLoop
<1>7. \A k \in 0 .. n : f[k] = h[k]
  <2>1. f[0] = h[0]
    BY <1>6
  <2>2. ASSUME NEW i \in 1 .. n, f[i - 1] = h[i - 1] PROVE f[i] = h[i]
    <3>1. i \in 1 .. n + 1 /\ more[i] = list[i]
      BY <1>3
    <3>. QED
      BY <1>6, <2>2, <3>1
  <2>. QED
    BY <2>1, <2>2, LoopsAgree
<1>8. n \in 0 .. n /\ n + 1 \in 1 .. n + 1 /\ (n + 1) - 1 = n
  OBVIOUS
<1>9. h[n + 1] = h[n] \o Code(s)
  BY <1>3, <1>6, <1>8
<1>. QED
  BY <1>2, <1>4, <1>5, <1>7, <1>8, <1>9

LEMMA Assoc ==
  ASSUME NEW S, NEW s \in Seq(S), NEW t \in Seq(S), NEW u \in Seq(S)
  PROVE  (s \o t) \o u = s \o (t \o u)
BY ConcatAssociative

\* What is sent first comes first.
LEMMA JoinedFirst ==
  ASSUME NEW S, Nat \subseteq S, NEW s \in Seq(S), NEW list \in Seq(Seq(S))
  PROVE  Joined(<<s>> \o list) = Code(s) \o Joined(list)
<1> DEFINE X == {t \in Seq(Seq(S)) : Joined(<<s>> \o t) = Code(s) \o Joined(t)}
<1>1. PICK one \in Seq(Seq(S)) : one = <<s>>
  BY OneIs
<1>2. PICK code \in Seq(S) : code = Code(s)
  BY CodeType
<1>3. \A v, w \in Seq(S) : (code \o v) \o w = code \o (v \o w)
  BY Assoc
<1>4. PICK none \in Seq(Seq(S)) : none = << >>
  BY EmptySeq
<1>5. none \in X
  <2>1. one \o none = one /\ one = Append(none, s)
    BY <1>1, <1>4
  <2>2. Joined(one) = Joined(none) \o code
    BY <1>2, <2>1, JoinedAppend
  <2>3. PICK nothing \in Seq(S) : nothing = << >>
    BY EmptySeq
  <2>4. Joined(none) = nothing
    BY <1>4, <2>3, JoinedEmpty
  <2>5. nothing \o code = code /\ code \o nothing = code
    BY <2>3, ConcatEmptySeq
  <2>. QED
    BY <1>1, <1>2, <2>1, <2>2, <2>4, <2>5
<1> HIDE DEF X
<1>6. ASSUME NEW t \in Seq(Seq(S)), t \in X, NEW e \in Seq(S) PROVE Append(t, e) \in X
  <2>1. PICK joined \in Seq(S), last \in Seq(S) : joined = Joined(t) /\ last = Code(e)
    BY JoinedType, CodeType
  <2>2. PICK all \in Seq(Seq(S)) : all = one \o t
    BY ConcatProperties
  <2>3. one \o Append(t, e) = Append(all, e)
    BY <2>2
  <2>4. Joined(Append(all, e)) = Joined(all) \o last
    BY <2>1, JoinedAppend
  <2>5. Joined(all) = code \o joined
    BY <1>1, <1>2, <1>6, <2>1, <2>2 DEF X
  <2>6. Joined(Append(t, e)) = joined \o last
    BY <2>1, JoinedAppend
  <2>7. (code \o joined) \o last = code \o (joined \o last)
    BY <1>3
  <2>8. Append(t, e) \in Seq(Seq(S))
    OBVIOUS
  <2>. QED
    BY <1>1, <1>2, <2>3, <2>4, <2>5, <2>6, <2>7, <2>8 DEF X
<1>7. Seq(Seq(S)) \subseteq X
  <2>1. << >> \in X
    BY <1>4, <1>5
  <2>. QED
    BY <1>6, <2>1, SeqInd
<1>. QED
  BY <1>7 DEF X

-----------------------------------------------------------------------------
(* The strings that are to arrive *)

NonEmptyLoop(list, f) ==
  /\ DOMAIN f = 0 .. Len(list) /\ f[0] = << >>
  /\ \A i \in 1 .. Len(list) :
       f[i] = IF list[i] = << >> THEN f[i - 1] ELSE Append(f[i - 1], list[i])

\* The strings with something in them
Full(S) == Seq(S) \ {<< >>}

LEMMA NonEmptyIs ==
  ASSUME NEW S, NEW list \in Seq(Seq(S))
  PROVE  \E f \in [0 .. Len(list) -> Seq(Full(S))] :
           NonEmptyLoop(list, f) /\ NonEmpty(list) = f[Len(list)]
<1>1. PICK n \in Nat : n = Len(list)
  OBVIOUS
<1>2. PICK V : V = Seq(Full(S))
  OBVIOUS
<1>3. PICK start \in V : start = << >>
  BY <1>2, EmptySeq
<1> DEFINE Step(i, v) == IF list[i] = << >> THEN v ELSE Append(v, list[i])
           Is(f) == f = [i \in 0 .. n |-> IF i = 0 THEN start ELSE Step(i, f[i - 1])]
<1>4. ASSUME NEW i \in 1 .. n, NEW v \in V PROVE Step(i, v) \in V
  <2>1. list[i] \in Seq(S)
    BY <1>1
  <2>2. CASE list[i] = << >>
    BY <2>2
  <2>3. CASE list[i] # << >>
    <3>1. PICK e \in Full(S) : e = list[i]
      BY <2>1, <2>3 DEF Full
    <3>2. Append(v, e) \in V
      BY <1>2, AppendProperties
    <3>. QED
      BY <2>3, <3>1, <3>2
  <2>. QED
    BY <2>2, <2>3
<1>5. PICK f : f = CHOOSE h : Is(h)
  OBVIOUS
<1>6. NonEmpty(list) = f[n]
  <2>1. \A h : Is(h) <=> h = [i \in 0 .. n |-> IF i = 0 THEN << >>
                                ELSE IF list[i] = << >> THEN h[i - 1] ELSE Append(h[i - 1], list[i])]
    BY <1>3, Zenon
  <2>. QED
    BY <1>3, <1>1, <1>5, Zenon DEF NonEmpty
<1> HIDE DEF Step
<1>7. \E h : Is(h)
  <2>1. PICK turn : turn = [i \in 1 .. n |-> [v \in V |-> Step(i, v)]]
    OBVIOUS
  <2>2. Turns(turn, n, V)
    BY <1>4, <2>1 DEF Turns
  <2>3. PICK h : Loop(h, n, V, start, turn)
    BY <2>2, LoopEnds
  <2>4. ASSUME NEW i \in 1 .. n PROVE h[i] = Step(i, h[i - 1])
    <3>1. i - 1 \in 0 .. n
      OBVIOUS
    <3>2. h[i - 1] \in V
      BY <2>3, <3>1 DEF Loop
    <3>. QED
      BY <2>1, <2>3, <3>2 DEF Loop
  <2>5. \A i \in 0 .. n : h[i] = IF i = 0 THEN start ELSE Step(i, h[i - 1])
    BY <2>3, <2>4 DEF Loop
  <2>. QED
    BY <2>3, <2>5 DEF Loop
<1>8. Is(f)
  <2> HIDE DEF Is
  <2>. QED
    BY <1>5, <1>7, Zenon
<1>9. DOMAIN f = 0 .. n /\ f[0] = start /\ \A i \in 1 .. n : f[i] = Step(i, f[i - 1])
  BY <1>8
<1>10. f \in [0 .. n -> V]
  <2>1. \A i \in 0 .. n : f[i] \in V
    <3> HIDE DEF Is
    <3>1. \A i \in 1 .. n : f[i - 1] \in V => f[i] \in V
      BY <1>4, <1>9
    <3>. QED
      BY <1>9, <3>1, LoopStays
  <2>. QED
    BY <1>8, <2>1
<1>. QED
  BY <1>3, <1>1, <1>2, <1>6, <1>9, <1>10 DEF NonEmptyLoop, Step

LEMMA NonEmptyAppend ==
  ASSUME NEW S, NEW list \in Seq(Seq(S)), NEW s \in Seq(S)
  PROVE  NonEmpty(Append(list, s)) = IF s = << >> THEN NonEmpty(list) ELSE Append(NonEmpty(list), s)
<1>1. PICK n \in Nat : n = Len(list)
  OBVIOUS
<1>2. PICK more \in Seq(Seq(S)) : more = Append(list, s)
  BY AppendProperties
<1>3. Len(more) = n + 1 /\ more[n + 1] = s /\ \A i \in 1 .. n : more[i] = list[i]
  BY <1>1, <1>2, AppendProperties
<1>4. PICK f : NonEmptyLoop(list, f) /\ NonEmpty(list) = f[n]
  BY <1>1, NonEmptyIs
<1>5. PICK h : NonEmptyLoop(more, h) /\ NonEmpty(more) = h[n + 1]
  BY <1>3, NonEmptyIs
<1>6. /\ f[0] = << >>
      /\ \A i \in 1 .. n : f[i] = IF list[i] = << >> THEN f[i - 1] ELSE Append(f[i - 1], list[i])
      /\ h[0] = << >>
      /\ \A i \in 1 .. n + 1 : h[i] = IF more[i] = << >> THEN h[i - 1] ELSE Append(h[i - 1], more[i])
  BY <1>1, <1>3, <1>4, <1>5, Zenon DEF NonEmptyLoop
<1>7. \A k \in 0 .. n : f[k] = h[k]
  <2>1. f[0] = h[0]
    BY <1>6
  <2>2. ASSUME NEW i \in 1 .. n, f[i - 1] = h[i - 1] PROVE f[i] = h[i]
    <3>1. i \in 1 .. n + 1 /\ more[i] = list[i]
      BY <1>3
    <3>. QED
      BY <1>6, <2>2, <3>1
  <2>. QED
    BY <2>1, <2>2, LoopsAgree
<1>8. n \in 0 .. n /\ n + 1 \in 1 .. n + 1 /\ (n + 1) - 1 = n
  OBVIOUS
<1>9. h[n + 1] = IF s = << >> THEN h[n] ELSE Append(h[n], s)
  BY <1>3, <1>6, <1>8
<1>. QED
  BY <1>2, <1>4, <1>5, <1>7, <1>8, <1>9

LEMMA NonEmptyType ==
  ASSUME NEW S, NEW list \in Seq(Seq(S))
  PROVE  NonEmpty(list) \in Seq(Full(S)) /\ NonEmpty(list) \in Seq(Seq(S))
<1>1. PICK n \in Nat : n = Len(list)
  OBVIOUS
<1>2. PICK f \in [0 .. n -> Seq(Full(S))] : NonEmpty(list) = f[n]
  BY <1>1, NonEmptyIs
<1>3. NonEmpty(list) \in Seq(Full(S))
  BY <1>2
<1>4. Full(S) \subseteq Seq(S)
  BY DEF Full
<1>. QED
  BY <1>3, <1>4, SeqMonotonic

LEMMA NonEmptyNone == NonEmpty(<< >>) = << >>
<1>1. PICK none \in Seq(Seq(Nat)) : none = << >> /\ Len(none) = 0
  BY EmptySeq
<1>2. PICK f : NonEmptyLoop(none, f) /\ NonEmpty(none) = f[Len(none)]
  BY NonEmptyIs
<1>. QED
  BY <1>1, <1>2 DEF NonEmptyLoop

-----------------------------------------------------------------------------
(* add_strings *)

Bufs(S) == {b \in [bytes : Seq(S), alloced : Nat, fits : BOOLEAN] : IsBuf(b, S)}

LEMMA BufsAre ==
  ASSUME NEW S, NEW b
  PROVE  b \in Bufs(S) <=> IsBuf(b, S)
<1>1. ASSUME NEW bytes \in Seq(S), NEW alloced \in Nat, NEW fits \in BOOLEAN
      PROVE  Buf(bytes, alloced, fits) \in [bytes : Seq(S), alloced : Nat, fits : BOOLEAN]
  BY DEF Buf
<1>2. ASSUME IsBuf(b, S) PROVE b \in [bytes : Seq(S), alloced : Nat, fits : BOOLEAN]
  <2>1. PICK bytes \in Seq(S), alloced \in Nat : \E fits : b = Buf(bytes, alloced, fits) /\ fits = TRUE
    BY <1>2, Zenon DEF IsBuf
  <2>2. PICK fits : b = Buf(bytes, alloced, fits) /\ fits = TRUE
    BY <2>1, Zenon
  <2>3. fits \in BOOLEAN
    BY <2>2, Zenon
  <2>. QED
    BY <1>1, <2>2, <2>3, Zenon
<1>. QED
  BY <1>2, Zenon DEF Bufs

AddLoop(list, b, f) ==
  /\ DOMAIN f = 0 .. Len(list) /\ f[0] = b
  /\ \A i \in 1 .. Len(list) :
       f[i] = IF list[i] = << >> THEN f[i - 1] ELSE ADD_STRING(f[i - 1], list[i])

LEMMA AddLoopIs ==
  ASSUME NEW S, Nat \subseteq S, NEW b, IsBuf(b, S), NEW list \in Seq(Seq(S))
  PROVE  \E f \in [0 .. Len(list) -> Bufs(S)] :
           AddLoop(list, b, f) /\ add_strings(b, list) = ADD(f[Len(list)], <<0>>)
<1>1. PICK n \in Nat : n = Len(list)
  OBVIOUS
<1>2. PICK V : V = Bufs(S)
  OBVIOUS
<1>3. PICK start \in V : start = b
  BY <1>2, BufsAre, Zenon
<1> DEFINE Step(i, v) == IF list[i] = << >> THEN v ELSE ADD_STRING(v, list[i])
           Is(f) == f = [i \in 0 .. n |-> IF i = 0 THEN start ELSE Step(i, f[i - 1])]
<1>4. ASSUME NEW i \in 1 .. n, NEW v \in V PROVE Step(i, v) \in V
  <2>1. list[i] \in Seq(S)
    BY <1>1
  <2>2. IsBuf(v, S)
    BY <1>2, BufsAre, Zenon
  <2>3. IsBuf(ADD_STRING(v, list[i]), S)
    BY <2>1, <2>2, AddStringIs, Zenon
  <2>. QED
    BY <1>2, <2>3, BufsAre, Zenon
<1>5. PICK f : f = CHOOSE h : Is(h)
  OBVIOUS
<1>6. add_strings(b, list) = ADD(f[n], <<0>>)
  <2>1. \A h : Is(h) <=> h = [i \in 0 .. n |-> IF i = 0 THEN b
                                ELSE IF list[i] = << >> THEN h[i - 1] ELSE ADD_STRING(h[i - 1], list[i])]
    BY <1>3, Zenon
  <2>. QED
    BY <1>3, <1>1, <1>5, Zenon DEF add_strings
<1> HIDE DEF Step
<1>7. \E h : Is(h)
  <2>1. PICK turn : turn = [i \in 1 .. n |-> [v \in V |-> Step(i, v)]]
    OBVIOUS
  <2>2. Turns(turn, n, V)
    BY <1>4, <2>1 DEF Turns
  <2>3. PICK h : Loop(h, n, V, start, turn)
    BY <2>2, LoopEnds
  <2>4. ASSUME NEW i \in 1 .. n PROVE h[i] = Step(i, h[i - 1])
    <3>1. i - 1 \in 0 .. n
      OBVIOUS
    <3>2. h[i - 1] \in V
      BY <2>3, <3>1 DEF Loop
    <3>. QED
      BY <2>1, <2>3, <3>2 DEF Loop
  <2>5. \A i \in 0 .. n : h[i] = IF i = 0 THEN start ELSE Step(i, h[i - 1])
    BY <2>3, <2>4 DEF Loop
  <2>. QED
    BY <2>3, <2>5 DEF Loop
<1>8. Is(f)
  <2> HIDE DEF Is
  <2>. QED
    BY <1>5, <1>7, Zenon
<1>9. DOMAIN f = 0 .. n /\ f[0] = start /\ \A i \in 1 .. n : f[i] = Step(i, f[i - 1])
  BY <1>8
<1>10. f \in [0 .. n -> V]
  <2>1. \A i \in 0 .. n : f[i] \in V
    <3> HIDE DEF Is
    <3>1. \A i \in 1 .. n : f[i - 1] \in V => f[i] \in V
      BY <1>4, <1>9
    <3>. QED
      BY <1>9, <3>1, LoopStays
  <2>. QED
    BY <1>8, <2>1
<1>11. AddLoop(list, b, f)
  BY <1>3, <1>1, <1>9, Zenon DEF AddLoop, Step
<1>. QED
  BY <1>1, <1>2, <1>6, <1>10, <1>11

LEMMA AddStringsIs ==
  ASSUME NEW S, Nat \subseteq S, NEW b, IsBuf(b, S), NEW list \in Seq(Seq(S))
  PROVE  /\ IsBuf(add_strings(b, list), S)
         /\ add_strings(b, list).bytes = (b.bytes \o Joined(NonEmpty(list))) \o <<0>>
<1>1. PICK n \in Nat : n = Len(list)
  OBVIOUS
<1>2. PICK f \in [0 .. n -> Bufs(S)] :
        AddLoop(list, b, f) /\ add_strings(b, list) = ADD(f[n], <<0>>)
  BY <1>1, AddLoopIs
<1>3. PICK k \in [0 .. n -> Seq(Full(S))] : NonEmptyLoop(list, k) /\ NonEmpty(list) = k[n]
  BY <1>1, NonEmptyIs
<1>4. PICK bytes \in Seq(S) : bytes = b.bytes
  <2>1. PICK bytes \in Seq(S), alloced \in Nat : \E fits : b = Buf(bytes, alloced, fits)
    BY Zenon DEF IsBuf
  <2>2. PICK fits : b = Buf(bytes, alloced, fits)
    BY <2>1, Zenon
  <2>. QED
    BY <2>2, BufFields
<1>5. \A x, y \in Seq(S) : (bytes \o x) \o y = bytes \o (x \o y)
  BY Assoc
<1> DEFINE T == {i \in Nat : i <= n => f[i].bytes = bytes \o Joined(k[i])}
<1>6. 0 \in T
  <2>1. f[0] = b /\ k[0] = << >>
    BY <1>2, <1>3, Zenon DEF AddLoop, NonEmptyLoop
  <2>2. Joined(k[0]) = << >> /\ bytes \o << >> = bytes
    BY <2>1, JoinedEmpty, ConcatEmptySeq
  <2>. QED
    BY <1>4, <2>1, <2>2
<1> HIDE DEF T
<1>7. ASSUME NEW i \in Nat, i \in T PROVE i + 1 \in T
  <2>1. i + 1 \in Nat
    OBVIOUS
  <2>2. SUFFICES ASSUME i + 1 <= n PROVE f[i + 1].bytes = bytes \o Joined(k[i + 1])
    BY <2>1, Zenon DEF T
  <2>3. i + 1 \in 1 .. n /\ (i + 1) - 1 = i /\ i \in 0 .. n /\ f[i].bytes = bytes \o Joined(k[i])
    BY <1>1, <1>7, <2>2 DEF T
  <2>4. PICK s \in Seq(S) : s = list[i + 1]
    BY <1>1, <2>3
  <2>5. /\ f[i + 1] = IF s = << >> THEN f[i] ELSE ADD_STRING(f[i], s)
        /\ k[i + 1] = IF s = << >> THEN k[i] ELSE Append(k[i], s)
    BY <1>1, <1>2, <1>3, <2>3, <2>4, Zenon DEF AddLoop, NonEmptyLoop
  <2>6. CASE s = << >>
    BY <2>3, <2>5, <2>6
  <2>7. CASE s # << >>
    <3>1. IsBuf(f[i], S)
      BY <1>2, <2>3, BufsAre
    <3>2. f[i + 1].bytes = f[i].bytes \o Code(s)
      BY <2>5, <2>7, <3>1, AddStringIs
    <3>3. k[i] \in Seq(Full(S)) /\ k[i] \in Seq(Seq(S))
      <4>1. k[i] \in Seq(Full(S)) /\ Full(S) \subseteq Seq(S)
        BY <2>3 DEF Full
      <4>. QED
        BY <4>1, SeqMonotonic
    <3>4. Joined(k[i + 1]) = Joined(k[i]) \o Code(s)
      BY <2>5, <2>7, <3>3, JoinedAppend
    <3>5. PICK x \in Seq(S), y \in Seq(S) : x = Joined(k[i]) /\ y = Code(s)
      BY <3>3, JoinedType, CodeType
    <3>6. (bytes \o x) \o y = bytes \o (x \o y)
      BY <1>5
    <3>. QED
      BY <2>3, <3>2, <3>4, <3>5, <3>6
  <2>. QED
    BY <2>6, <2>7
<1>8. Nat \subseteq T
  BY <1>6, <1>7, NatInd
<1>9. n \in 0 .. n /\ f[n].bytes = bytes \o Joined(k[n])
  BY <1>8 DEF T
<1>10. IsBuf(f[n], S)
  BY <1>2, <1>9, BufsAre
<1>11. <<0>> \in Seq(S)
  BY OneIs
<1>12. IsBuf(ADD(f[n], <<0>>), S) /\ ADD(f[n], <<0>>).bytes = f[n].bytes \o <<0>>
  BY <1>10, <1>11, AddIs, Zenon
<1>. QED
  BY <1>2, <1>3, <1>4, <1>9, <1>12, Zenon

-----------------------------------------------------------------------------
(* Parts of a sequence *)

LEMMA UptoIs ==
  ASSUME NEW S, NEW s \in Seq(S), NEW n \in 0 .. Len(s)
  PROVE  Upto(s, n) \in Seq(S) /\ Len(Upto(s, n)) = n /\ \A i \in 1 .. n : Upto(s, n)[i] = s[i]
<1>1. \A i \in 1 .. n : s[i] \in S
  OBVIOUS
<1>2. /\ SubSeq(s, 1, n) \in Seq(S)
      /\ Len(SubSeq(s, 1, n)) = IF 1 <= n THEN n - 1 + 1 ELSE 0
      /\ \A i \in 1 .. n - 1 + 1 : SubSeq(s, 1, n)[i] = s[1 + i - 1]
  BY <1>1, SubSeqProperties
<1>. QED
  BY <1>2 DEF Upto

LEMMA AfterIs ==
  ASSUME NEW S, NEW s \in Seq(S), NEW n \in 0 .. Len(s)
  PROVE  /\ After(s, n) \in Seq(S) /\ Len(After(s, n)) = Len(s) - n
         /\ \A i \in 1 .. Len(s) - n : After(s, n)[i] = s[n + i]
<1>1. \A i \in n + 1 .. Len(s) : s[i] \in S
  OBVIOUS
<1>2. /\ SubSeq(s, n + 1, Len(s)) \in Seq(S)
      /\ Len(SubSeq(s, n + 1, Len(s))) = IF n + 1 <= Len(s) THEN Len(s) - (n + 1) + 1 ELSE 0
      /\ \A i \in 1 .. Len(s) - (n + 1) + 1 : SubSeq(s, n + 1, Len(s))[i] = s[(n + 1) + i - 1]
  BY <1>1, SubSeqProperties
<1>. QED
  BY <1>2 DEF After

LEMMA UptoAll ==
  ASSUME NEW S, NEW s \in Seq(S)
  PROVE  Upto(s, Len(s)) = s /\ Upto(s, 0) = << >>
<1>1. Len(s) \in 0 .. Len(s)
  OBVIOUS
<1>2. Upto(s, Len(s)) = s
  BY <1>1, UptoIs, SeqEqual
<1>3. Upto(s, 0) = << >>
  BY SubSeqEmpty DEF Upto
<1>. QED
  BY <1>2, <1>3

LEMMA UptoUpto ==
  ASSUME NEW S, NEW s \in Seq(S), NEW n \in 0 .. Len(s), NEW m \in 0 .. n
  PROVE  Upto(Upto(s, n), m) = Upto(s, m)
<1>1. PICK t \in Seq(S) : t = Upto(s, n) /\ Len(t) = n /\ \A i \in 1 .. n : t[i] = s[i]
  BY UptoIs
<1>2. PICK u \in Seq(S) : u = Upto(t, m) /\ Len(u) = m /\ \A i \in 1 .. m : u[i] = t[i]
  BY <1>1, UptoIs
<1>3. PICK v \in Seq(S) : v = Upto(s, m) /\ Len(v) = m /\ \A i \in 1 .. m : v[i] = s[i]
  <2>1. m \in 0 .. Len(s)
    OBVIOUS
  <2>. QED
    BY <2>1, UptoIs
<1>4. u = v
  BY <1>1, <1>2, <1>3, SeqEqual
<1>. QED
  BY <1>1, <1>2, <1>3, <1>4

LEMMA UptoLong ==
  ASSUME NEW S, NEW s \in Seq(S), NEW t \in Seq(S), NEW n \in Len(s) .. Len(s) + Len(t)
  PROVE  Upto(s \o t, n) = s \o Upto(t, n - Len(s))
<1>1. PICK st \in Seq(S) : st = s \o t
  BY ConcatProperties
<1>2. /\ Len(st) = Len(s) + Len(t)
      /\ \A i \in 1 .. Len(s) + Len(t) : st[i] = IF i <= Len(s) THEN s[i] ELSE t[i - Len(s)]
  BY <1>1, ConcatProperties
<1>3. PICK u \in Seq(S) : u = Upto(st, n) /\ Len(u) = n /\ \A i \in 1 .. n : u[i] = st[i]
  <2>1. n \in 0 .. Len(st)
    BY <1>2
  <2>. QED
    BY <2>1, UptoIs
<1>4. PICK k \in 0 .. Len(t) : k = n - Len(s)
  <2>1. PICK i \in Nat, j \in Nat : i = Len(s) /\ j = Len(t)
    BY LenProperties
  <2>2. n - i \in 0 .. j
    BY <2>1
  <2>. QED
    BY <2>1, <2>2
<1>5. PICK v \in Seq(S) : v = Upto(t, k) /\ Len(v) = k /\ \A i \in 1 .. k : v[i] = t[i]
  BY UptoIs
<1>6. PICK sv \in Seq(S) : sv = s \o v
  BY ConcatProperties
<1>7. /\ Len(sv) = Len(s) + k
      /\ \A i \in 1 .. Len(s) + k : sv[i] = IF i <= Len(s) THEN s[i] ELSE v[i - Len(s)]
  <2>1. /\ Len(sv) = Len(s) + Len(v)
        /\ \A i \in 1 .. Len(s) + Len(v) : sv[i] = IF i <= Len(s) THEN s[i] ELSE v[i - Len(s)]
    BY <1>6, ConcatProperties
  <2>. QED
    BY <1>5, <2>1
<1>8. u = sv
  <2>1. Len(s) \in Nat /\ Len(t) \in Nat
    BY LenProperties
  <2>2. Len(u) = Len(sv) /\ Len(u) = Len(s) + k
    BY <2>1, <1>3, <1>4, <1>7
  <2>3. ASSUME NEW i \in 1 .. Len(u) PROVE u[i] = sv[i]
    <3>1. i \in 1 .. Len(s) + k /\ i \in 1 .. Len(s) + Len(t) /\ i \in 1 .. n
      BY <2>1, <2>2, <1>3
    <3>2. u[i] = st[i]
      BY <1>3, <3>1
    <3>3. CASE i <= Len(s)
      BY <1>2, <1>7, <3>1, <3>2, <3>3
    <3>4. CASE ~(i <= Len(s))
      <4>1. i - Len(s) \in 1 .. k
        BY <2>1, <3>1, <3>4
      <4>2. sv[i] = v[i - Len(s)] /\ st[i] = t[i - Len(s)]
        BY <1>2, <1>7, <3>1, <3>4
      <4>. QED
        BY <1>5, <3>2, <4>1, <4>2
    <3>. QED
      BY <3>3, <3>4
  <2>. QED
    BY <2>2, <2>3, SeqEqual
<1>. QED
  BY <1>1, <1>3, <1>4, <1>5, <1>6, <1>8

LEMMA FirstAndRest ==
  ASSUME NEW S, NEW s \in Seq(S), NEW t \in Seq(S)
  PROVE  Upto(s \o t, Len(s)) = s /\ After(s \o t, Len(s)) = t
<1>1. Upto(s \o t, Len(s)) = s
  <2>1. Len(s) \in Len(s) .. Len(s) + Len(t) /\ Len(s) - Len(s) = 0
    OBVIOUS
  <2>2. Upto(t, 0) = << >> /\ s \o << >> = s
    BY UptoAll, ConcatEmptySeq
  <2>. QED
    BY <2>1, <2>2, UptoLong
<1>2. PICK st \in Seq(S) : st = s \o t
  BY ConcatProperties
<1>3. /\ Len(st) = Len(s) + Len(t)
      /\ \A i \in 1 .. Len(t) : st[Len(s) + i] = t[i]
  BY <1>2
<1>4. Len(s) \in 0 .. Len(st)
  BY <1>3
<1>5. PICK u \in Seq(S) : /\ u = After(st, Len(s)) /\ Len(u) = Len(st) - Len(s)
                          /\ \A i \in 1 .. Len(st) - Len(s) : u[i] = st[Len(s) + i]
  BY <1>4, AfterIs
<1>6. u = t
  BY <1>3, <1>5, SeqEqual
<1>. QED
  BY <1>1, <1>2, <1>5, <1>6

-----------------------------------------------------------------------------
(* get_string *)

\* What arrives of it: all, unless the frontend died
PartOf(in, whole, cut) ==
  \E n \in 0 .. Len(whole) : in = Upto(whole, n) /\ (~cut => n = Len(whole))

\* Either the first part has arrived or something of it is missing.
LEMMA FirstOrCut ==
  ASSUME NEW S, NEW first \in Seq(S), NEW rest \in Seq(S), NEW cut, NEW in,
         PartOf(in, first \o rest, cut)
  PROVE  \/ /\ cut /\ in \in Seq(S) /\ Len(in) < Len(first)
            /\ \A i \in 1 .. Len(in) : in[i] = first[i]
         \/ \E tail \in Seq(S) : in = first \o tail /\ PartOf(tail, rest, cut)
<1>1. PICK whole \in Seq(S) : whole = first \o rest
  BY ConcatProperties
<1>2. PICK i \in Nat, j \in Nat : i = Len(first) /\ j = Len(rest)
  BY LenProperties
<1>3. /\ Len(whole) = i + j
      /\ \A k \in 1 .. i + j : whole[k] = IF k <= i THEN first[k] ELSE rest[k - i]
  BY <1>1, <1>2, ConcatProperties
<1>4. PICK n \in 0 .. Len(whole) : in = Upto(whole, n) /\ (~cut => n = Len(whole))
  BY <1>1, Zenon DEF PartOf
<1>5. CASE n < i
  <2>1. cut
    BY <1>2, <1>3, <1>4, <1>5
  <2>2. in \in Seq(S) /\ Len(in) = n /\ \A k \in 1 .. n : in[k] = whole[k]
    BY <1>4, UptoIs
  <2>3. \A k \in 1 .. n : in[k] = first[k]
    BY <1>2, <1>3, <1>5, <2>2
  <2>. QED
    BY <1>2, <1>5, <2>1, <2>2, <2>3
<1>6. CASE ~(n < i)
  <2>1. n \in i .. i + j /\ n - i \in 0 .. j /\ (n = i + j => n - i = j)
    BY <1>2, <1>3, <1>6
  <2>2. PICK tail \in Seq(S) : tail = Upto(rest, n - i)
    BY <1>2, <2>1, UptoIs
  <2>3. in = first \o tail
    BY <1>1, <1>2, <1>4, <2>1, <2>2, UptoLong
  <2>4. PartOf(tail, rest, cut)
    BY <1>2, <1>3, <1>4, <2>1, <2>2 DEF PartOf
  <2>. QED
    BY <2>3, <2>4
<1>. QED
  BY <1>5, <1>6

LEMMA FirstElement ==
  ASSUME NEW S, NEW e \in S, NEW rest \in Seq(S)
  PROVE  LET s == <<e>> \o rest
         IN  s \in Seq(S) /\ s # << >> /\ Head(s) = e /\ Tail(s) = rest /\ Len(s) = 1 + Len(rest)
<1>1. PICK one \in Seq(S) : one = <<e>> /\ Len(one) = 1 /\ one[1] = e
  BY OneIs
<1>2. PICK s \in Seq(S) : s = one \o rest
  BY ConcatProperties
<1>3. /\ Len(s) = 1 + Len(rest)
      /\ \A i \in 1 .. 1 + Len(rest) : s[i] = IF i <= 1 THEN one[i] ELSE rest[i - 1]
  BY <1>1, <1>2, ConcatProperties
<1>4. Len(rest) \in Nat
  BY LenProperties
<1>5. s # << >> /\ s[1] = e /\ \A i \in 1 .. Len(rest) : s[i + 1] = rest[i]
  <2>1. Len(<< >>) = 0 /\ Len(s) # 0
    BY <1>3, <1>4
  <2>2. s[1] = e
    BY <1>1, <1>3, <1>4
  <2>3. ASSUME NEW i \in 1 .. Len(rest) PROVE s[i + 1] = rest[i]
    <3>1. i + 1 \in 1 .. 1 + Len(rest) /\ ~(i + 1 <= 1) /\ (i + 1) - 1 = i
      BY <1>4
    <3>. QED
      BY <1>3, <3>1
  <2>. QED
    BY <2>1, <2>2, <2>3
<1>6. PICK t \in Seq(S) : t = Tail(s) /\ Len(t) = Len(s) - 1 /\ \A i \in 1 .. Len(t) : t[i] = s[i + 1]
  <2>1. /\ Tail(s) \in Seq(S) /\ Len(Tail(s)) = Len(s) - 1
        /\ \A i \in 1 .. Len(Tail(s)) : Tail(s)[i] = s[i + 1]
    BY <1>5, HeadTailProperties
  <2>. QED
    BY <2>1
<1>7. t = rest
  BY <1>3, <1>4, <1>5, <1>6, SeqEqual
<1>8. Head(s) = e
  BY <1>5
<1>. QED
  BY <1>1, <1>2, <1>3, <1>5, <1>6, <1>7, <1>8

Got(str, rest) == [str |-> str, rest |-> rest]

\* The end of a list, and what is after it
EndThen(rest) == <<0>> \o rest

\* At the end of a list it gets NULL.
LEMMA GetEnd ==
  ASSUME NEW S, Nat \subseteq S, NEW rest \in Seq(S), NEW cut, NEW in,
         PartOf(in, EndThen(rest), cut), in # << >>
  PROVE  \E tail \in Seq(S) : get_string(in) = Got(NULL, tail) /\ PartOf(tail, rest, cut)
<1>1. 0 \in S
  OBVIOUS
<1>2. PICK end \in Seq(S) : end = <<0>> /\ Len(end) = 1
  BY <1>1, OneIs
<1>3. PICK tail \in Seq(S) : in = end \o tail /\ PartOf(tail, rest, cut)
  <2>1. ASSUME in \in Seq(S), Len(in) < Len(end) PROVE FALSE
    BY <1>2, <2>1, EmptySeq
  <2>2. PartOf(in, end \o rest, cut)
    BY <1>2, Zenon DEF EndThen
  <2>. QED
    BY <1>2, <2>1, <2>2, FirstOrCut
<1>4. Head(in) = 0 /\ Tail(in) = tail
  BY <1>1, <1>2, <1>3, FirstElement
<1>5. get_string(in) = Got(NULL, tail)
  BY <1>4, Zenon DEF get_string, Got
<1>. QED
  BY <1>3, <1>5

\* What it does, by the first byte
LEMMA GetShort ==
  ASSUME NEW in, NEW sz, Head(in) = sz, sz # 0, sz # MAX_SHORT_STR
  PROVE  get_string(in) = IF Len(in) < 1 + sz THEN Got(Garbage, << >>)
                          ELSE Got(Upto(After(in, 1), sz), After(in, 1 + sz))
BY Zenon DEF get_string, Got

LEMMA GetLong ==
  ASSUME NEW in, Head(in) = MAX_SHORT_STR, NEW len, len = IF Len(in) >= 2 THEN in[2] ELSE 0
  PROVE  get_string(in) = IF Len(in) < (1 + SIZEOF_INT) + len THEN Got(Garbage, << >>)
                          ELSE Got(Upto(After(in, 1 + SIZEOF_INT), len), After(in, (1 + SIZEOF_INT) + len))
<1>1. MAX_SHORT_STR # 0
  BY RequestAssumption
<1>. QED
  BY <1>1, Zenon DEF get_string, Got

\* get_string takes the next string out as it was put in, whether its length was
\* sent as a byte or as an int, and leaves the rest; if the message was cut off
\* inside of it, what it returns is garbage and nothing is left.  (get_string)
THEOREM GetStringTakes ==
  ASSUME NEW S, Nat \subseteq S, NEW s \in Full(S), NEW rest \in Seq(S), NEW cut, NEW in,
         PartOf(in, Code(s) \o rest, cut), in # << >>
  PROVE  \/ cut /\ get_string(in) = Got(Garbage, << >>)
         \/ \E tail \in Seq(S) : get_string(in) = Got(s, tail) /\ PartOf(tail, rest, cut)
<1>1. s \in Seq(S) /\ s # << >>
  BY DEF Full
<1>2. PICK m \in Nat \ {0} : m = Len(s)
  BY <1>1, EmptySeq
<1>3. MAX_SHORT_STR \in Nat \ {0} /\ SIZEOF_INT \in Nat \ {0}
  BY RequestAssumption
<1>4. PICK head \in Seq(S), k \in Nat \ {0} :
        /\ head = Header(m) /\ k = Len(head)
        /\ m >= MAX_SHORT_STR => k = 1 + SIZEOF_INT /\ head[1] = MAX_SHORT_STR /\ head[2] = m
        /\ ~(m >= MAX_SHORT_STR) => k = 1 /\ head[1] = m
  <2>1. PICK head \in Seq(Nat) : head = Header(m)
    BY <1>2, HeaderIs
  <2>2. head \in Seq(S)
    BY SeqMonotonic
  <2>3. /\ m >= MAX_SHORT_STR => Len(head) = 1 + SIZEOF_INT /\ head[1] = MAX_SHORT_STR /\ head[2] = m
        /\ ~(m >= MAX_SHORT_STR) => Len(head) = 1 /\ head[1] = m
    BY <2>1, HeaderIs
  <2>4. Len(head) \in Nat \ {0}
    BY <1>3, <2>3
  <2>. QED
    BY <2>1, <2>2, <2>3, <2>4
<1>5. PICK code \in Seq(S) :
        /\ code = Code(s) /\ code = head \o s /\ Len(code) = k + m
        /\ \A i \in 1 .. k : code[i] = head[i]
  <2>1. PICK code \in Seq(S) : code = head \o s
    BY <1>1, ConcatProperties
  <2>2. Len(code) = k + m /\ \A i \in 1 .. k : code[i] = head[i]
    BY <1>1, <1>2, <1>4, <2>1, ConcatProperties
  <2>. QED
    BY <1>2, <1>4, <2>1, <2>2 DEF Code
<1>6. CASE /\ cut /\ in \in Seq(S) /\ Len(in) < Len(code)
           /\ \A i \in 1 .. Len(in) : in[i] = code[i]
  <2>1. PICK n \in Nat \ {0} : n = Len(in)
    BY <1>6, EmptySeq
  <2>2. n < k + m /\ Head(in) = head[1] /\ (n >= 2 /\ k >= 2 => in[2] = head[2])
    <3>1. Head(in) = in[1]
      BY <1>6
    <3>2. in[1] = head[1]
      <4>1. 1 \in 1 .. Len(in) /\ 1 \in 1 .. k
        BY <2>1
      <4>2. in[1] = code[1]
        BY <1>6, <4>1
      <4>3. code[1] = head[1]
        BY <1>5, <4>1
      <4>. QED
        BY <4>2, <4>3
    <3>3. n < k + m
      BY <1>5, <1>6, <2>1
    <3>4. ASSUME n >= 2, k >= 2 PROVE in[2] = head[2]
      <4>1. 2 \in 1 .. Len(in) /\ 2 \in 1 .. k
        BY <2>1, <3>4
      <4>2. in[2] = code[2]
        BY <1>6, <4>1
      <4>3. code[2] = head[2]
        BY <1>5, <4>1
      <4>. QED
        BY <4>2, <4>3
    <3>. QED
      BY <3>1, <3>2, <3>3, <3>4
  <2>3. CASE m >= MAX_SHORT_STR
    <3>1. PICK len \in Nat : len = IF n >= 2 THEN in[2] ELSE 0
      BY <1>3, <1>4, <2>1, <2>2, <2>3
    <3>2. n < (1 + SIZEOF_INT) + len
      BY <1>3, <1>4, <2>1, <2>2, <2>3, <3>1
    <3>3. Head(in) = MAX_SHORT_STR
      BY <1>4, <2>2, <2>3
    <3>. QED
      BY <1>6, <2>1, <3>1, <3>2, <3>3, GetLong
  <2>4. CASE ~(m >= MAX_SHORT_STR)
    <3>1. Head(in) = m /\ m # 0 /\ m # MAX_SHORT_STR /\ n < 1 + m
      BY <1>3, <1>4, <2>2, <2>4
    <3>. QED
      BY <1>6, <2>1, <3>1, GetShort
  <2>. QED
    BY <2>3, <2>4
<1>7. ASSUME NEW tail \in Seq(S), in = code \o tail, PartOf(tail, rest, cut)
      PROVE  get_string(in) = Got(s, tail)
  <2>1. PICK st \in Seq(S) : st = s \o tail
    BY <1>1, ConcatProperties
  <2>2. in = head \o st
    BY <1>1, <1>5, <1>7, <2>1, Assoc
  <2>3. After(in, k) = st /\ Upto(st, m) = s /\ After(in, k + m) = tail
    <3>1. After(head \o st, Len(head)) = st /\ Upto(s \o tail, Len(s)) = s
      BY <1>1, FirstAndRest
    <3>2. After(code \o tail, Len(code)) = tail
      BY FirstAndRest
    <3>. QED
      BY <1>2, <1>4, <1>5, <1>7, <2>1, <2>2, <3>1, <3>2
  <2>4. PICK j \in Nat : j = Len(tail)
    BY LenProperties
  <2>5. /\ in \in Seq(S) /\ Len(in) = (k + m) + j
        /\ \A i \in 1 .. k : in[i] = head[i]
    <3>1. /\ in \in Seq(S) /\ Len(in) = (k + m) + j
          /\ \A i \in 1 .. (k + m) + j : in[i] = IF i <= k + m THEN code[i] ELSE tail[i - (k + m)]
      <4>1. /\ code \o tail \in Seq(S) /\ Len(code \o tail) = Len(code) + Len(tail)
            /\ \A i \in 1 .. Len(code) + Len(tail) :
                 (code \o tail)[i] = IF i <= Len(code) THEN code[i] ELSE tail[i - Len(code)]
        BY ConcatProperties
      <4>2. Len(code) = k + m
        BY <1>5
      <4>. QED
        BY <1>7, <2>4, <4>1, <4>2, Zenon
    <3>2. ASSUME NEW i \in 1 .. k PROVE in[i] = head[i]
      <4>1. i \in 1 .. (k + m) + j /\ i <= k + m
        OBVIOUS
      <4>. QED
        BY <1>5, <3>1, <4>1
    <3>. QED
      BY <3>1, <3>2
  <2>6. Head(in) = head[1]
    <3>1. Head(in) = in[1] /\ 1 \in 1 .. k
      BY <2>5
    <3>. QED
      BY <2>5, <3>1
  <2>7. CASE m >= MAX_SHORT_STR
    <3>1. k = 1 + SIZEOF_INT /\ Head(in) = MAX_SHORT_STR /\ Len(in) >= 2
      BY <1>3, <1>4, <2>5, <2>6, <2>7
    <3>2. in[2] = m
      <4>1. 2 \in 1 .. k
        BY <1>3, <3>1
      <4>. QED
        BY <1>4, <2>5, <2>7, <4>1
    <3>3. ~(Len(in) < k + m)
      BY <2>5
    <3>. QED
      BY <2>3, <3>1, <3>2, <3>3, GetLong
  <2>8. CASE ~(m >= MAX_SHORT_STR)
    <3>1. k = 1 /\ Head(in) = m /\ m # 0 /\ m # MAX_SHORT_STR
      BY <1>3, <1>4, <2>6, <2>8
    <3>2. ~(Len(in) < k + m)
      BY <2>5
    <3>. QED
      BY <2>3, <3>1, <3>2, GetShort
  <2>. QED
    BY <2>7, <2>8
<1>8. \/ /\ cut /\ in \in Seq(S) /\ Len(in) < Len(code)
         /\ \A i \in 1 .. Len(in) : in[i] = code[i]
      \/ \E tail \in Seq(S) : in = code \o tail /\ PartOf(tail, rest, cut)
  BY <1>5, FirstOrCut
<1>. QED
  BY <1>6, <1>7, <1>8

-----------------------------------------------------------------------------
(* The message *)

Place(devino, where, dir) ==
  <<devino>> \o (<<where>> \o IF where = SPEEDY_CWD_DEVINO THEN <<dir>> ELSE << >>)

\* A list of strings and what comes after it
Listed(list, rest) == Joined(list) \o (<<0>> \o rest)

Message(env, argv, fname, place) ==
  Listed(NonEmpty(env), Listed(NonEmpty(argv), Code(fname) \o place))

Cat(s, t) == s \o t

Associative(L) ==
  /\ \A p, q \in L : Cat(p, q) \in L
  /\ \A p, q, o \in L : Cat(Cat(p, q), o) = Cat(p, Cat(q, o))

\* (L is there for the provers.)
CatsRegroup(L, s, t, u, v, w, x, y) ==
  Cat(Cat(Cat(Cat(Cat(Cat(s, t), u), v), w), x), y)
    = Cat(s, Cat(t, Cat(u, Cat(v, Cat(w, Cat(x, y))))))

Regroup(L, s, t, u, v, w, x, y) ==
  (((((s \o t) \o u) \o v) \o w) \o x) \o y = s \o (t \o (u \o (v \o (w \o (x \o y)))))

LEMMA SevenCats ==
  ASSUME NEW L, Associative(L),
         NEW s \in L, NEW t \in L, NEW u \in L, NEW v \in L, NEW w \in L, NEW x \in L, NEW y \in L
  PROVE  CatsRegroup(L, s, t, u, v, w, x, y)
<1>1. /\ \A p, q \in L : Cat(p, q) \in L
      /\ \A p, q, o \in L : Cat(Cat(p, q), o) = Cat(p, Cat(q, o))
  BY DEF Associative
<1>2. PICK st \in L : st = Cat(s, t)
  BY <1>1
<1>3. PICK stu \in L : stu = Cat(st, u)
  BY <1>1
<1>4. PICK stuv \in L : stuv = Cat(stu, v)
  BY <1>1
<1>5. PICK stuvw \in L : stuvw = Cat(stuv, w)
  BY <1>1
<1>6. PICK xy \in L : xy = Cat(x, y)
  BY <1>1
<1>7. PICK wxy \in L : wxy = Cat(w, xy)
  BY <1>1
<1>8. PICK vwxy \in L : vwxy = Cat(v, wxy)
  BY <1>1
<1>9. PICK uvwxy \in L : uvwxy = Cat(u, vwxy)
  BY <1>1
<1>10. Cat(Cat(stuvw, x), y) = Cat(stuvw, xy)
  BY <1>1, <1>6
<1>11. Cat(stuvw, xy) = Cat(stuv, wxy)
  BY <1>1, <1>5, <1>7
<1>12. Cat(stuv, wxy) = Cat(stu, vwxy)
  BY <1>1, <1>4, <1>8
<1>13. Cat(stu, vwxy) = Cat(st, uvwxy)
  BY <1>1, <1>3, <1>9
<1>14. Cat(st, uvwxy) = Cat(s, Cat(t, uvwxy))
  BY <1>1, <1>2
<1>. QED
  BY <1>1, <1>2, <1>3, <1>4, <1>5, <1>6, <1>7, <1>8, <1>9, <1>10, <1>11, <1>12, <1>13, <1>14 DEF CatsRegroup

LEMMA CatIs ==
  ASSUME NEW S, NEW p \in Seq(S), NEW q \in Seq(S), NEW o \in Seq(S)
  PROVE  Cat(p, q) \in Seq(S) /\ Cat(Cat(p, q), o) = Cat(p, Cat(q, o))
<1>1. (p \o q) \o o = p \o (q \o o)
  BY Assoc
<1>2. p \o q \in Seq(S)
  BY ConcatProperties
<1>. QED
  BY <1>1, <1>2, Zenon DEF Cat

LEMMA SevenParts ==
  ASSUME NEW S, NEW s \in Seq(S), NEW t \in Seq(S), NEW u \in Seq(S), NEW v \in Seq(S),
         NEW w \in Seq(S), NEW x \in Seq(S), NEW y \in Seq(S)
  PROVE  Regroup(S, s, t, u, v, w, x, y)
<1>1. PICK L : L = Seq(S)
  OBVIOUS
<1>2. Associative(L)
  BY <1>1, CatIs DEF Associative
<1>3. s \in L /\ t \in L /\ u \in L /\ v \in L /\ w \in L /\ x \in L /\ y \in L
  BY <1>1
<1>4. CatsRegroup(L, s, t, u, v, w, x, y)
  BY <1>2, <1>3, SevenCats
<1>. QED
  BY <1>4, Zenon DEF Cat, CatsRegroup, Regroup

LEMMA ListedIs ==
  ASSUME NEW S, Nat \subseteq S, NEW rest \in Seq(S)
  PROVE  /\ \A list \in Seq(Seq(S)) : Listed(list, rest) \in Seq(S)
         /\ Listed(<< >>, rest) = <<0>> \o rest
         /\ \A s \in Seq(S), list \in Seq(Seq(S)) :
              Listed(<<s>> \o list, rest) = Code(s) \o Listed(list, rest)
<1>1. PICK end \in Seq(S) : end = <<0>> \o rest
  BY OneIs, ConcatProperties
<1>2. \A x, y \in Seq(S) : (x \o y) \o end = x \o (y \o end)
  BY Assoc
<1>3. \A list \in Seq(Seq(S)) : Listed(list, rest) \in Seq(S)
  <2>1. SUFFICES ASSUME NEW list \in Seq(Seq(S)) PROVE Listed(list, rest) \in Seq(S)
    OBVIOUS
  <2>2. PICK x \in Seq(S) : x = Joined(list)
    BY JoinedType
  <2>3. x \o end \in Seq(S)
    BY ConcatProperties
  <2>. QED
    BY <1>1, <2>2, <2>3 DEF Listed
<1>4. Listed(<< >>, rest) = <<0>> \o rest
  <2>1. PICK none \in Seq(S) : none = << >>
    BY EmptySeq
  <2>2. Joined(<< >>) = none /\ none \o end = end
    BY <2>1, JoinedEmpty, ConcatEmptySeq
  <2>. QED
    BY <1>1, <2>2, Zenon DEF Listed
<1>5. ASSUME NEW s \in Seq(S), NEW list \in Seq(Seq(S))
      PROVE  Listed(<<s>> \o list, rest) = Code(s) \o Listed(list, rest)
  <2>1. PICK x \in Seq(S), y \in Seq(S) : x = Code(s) /\ y = Joined(list)
    BY CodeType, JoinedType
  <2>2. Joined(<<s>> \o list) = x \o y
    BY <2>1, JoinedFirst
  <2>3. (x \o y) \o end = x \o (y \o end)
    BY <1>2, Zenon
  <2>. QED
    BY <1>1, <2>1, <2>2, <2>3, Zenon DEF Listed
<1>. QED
  BY <1>3, <1>4, <1>5

\* Whatever the sizes, what mkenv makes is that message, the empty strings left
\* out, and nothing of it was written past the end of the buffer.
\* (speedy_frontend_mkenv, add_strings, add_string)
THEOREM MkenvBuilds ==
  ASSUME NEW S, Nat \subseteq S, NEW env \in Seq(Seq(S)), NEW argv \in Seq(Seq(S)),
         NEW fname \in Seq(S), NEW devino \in S, NEW where \in Nat, NEW dir \in S
  PROVE  LET sb == speedy_frontend_mkenv(env, argv, fname, devino, where, dir)
         IN  /\ sb.fits = TRUE
             /\ sb.bytes = Message(env, argv, fname, Place(devino, where, dir))
<1> DEFINE b0 == alloc_buf(MIN_ALLOC)
           b1 == add_strings(b0, env)
           b2 == add_strings(b1, argv)
           b3 == ADD_STRING(b2, fname)
           b4 == ADD(b3, <<devino>>)
           last == <<where>> \o IF where = SPEEDY_CWD_DEVINO THEN <<dir>> ELSE << >>
           b5 == ADD(b4, last)
<1>1. speedy_frontend_mkenv(env, argv, fname, devino, where, dir) = b5
  BY Zenon DEF speedy_frontend_mkenv
<1>2. IsBuf(b0, S) /\ b0.bytes = << >>
  <2>1. b0 = Buf(<< >>, MIN_ALLOC, TRUE)
    BY Zenon DEF alloc_buf, Buf
  <2>2. << >> \in Seq(S) /\ MIN_ALLOC \in Nat
    BY EmptySeq, RequestAssumption
  <2>3. PICK t : t = TRUE
    OBVIOUS
  <2>4. b0 = Buf(<< >>, MIN_ALLOC, t)
    BY <2>1, <2>3, Zenon
  <2>5. b0.bytes = << >>
    BY <2>4, BufFields
  <2>. QED
    BY <2>2, <2>3, <2>4, <2>5, Zenon DEF IsBuf
<1> HIDE DEF b0
<1>3. IsBuf(b1, S) /\ b1.bytes = (b0.bytes \o Joined(NonEmpty(env))) \o <<0>>
  BY <1>2, AddStringsIs, Zenon
<1> HIDE DEF b1
<1>4. IsBuf(b2, S) /\ b2.bytes = (b1.bytes \o Joined(NonEmpty(argv))) \o <<0>>
  BY <1>3, AddStringsIs, Zenon
<1> HIDE DEF b2
<1>5. IsBuf(b3, S) /\ b3.bytes = b2.bytes \o Code(fname)
  BY <1>4, AddStringIs, Zenon
<1> HIDE DEF b3
<1>6. IsBuf(b4, S) /\ b4.bytes = b3.bytes \o <<devino>>
  <2>1. <<devino>> \in Seq(S)
    BY OneIs
  <2>. QED
    BY <1>5, <2>1, AddIs, Zenon
<1> HIDE DEF b4
<1>7. last \in Seq(S) /\ <<devino>> \o last = Place(devino, where, dir)
  <2>1. PICK end \in Seq(S) : end = IF where = SPEEDY_CWD_DEVINO THEN <<dir>> ELSE << >>
    BY OneIs, EmptySeq
  <2>2. where \in S
    OBVIOUS
  <2>3. <<where>> \o end \in Seq(S)
    BY <2>2, FirstElement
  <2>. QED
    BY <2>1, <2>3, Zenon DEF Place
<1> HIDE DEF last
<1>8. IsBuf(b5, S) /\ b5.bytes = b4.bytes \o last
  BY <1>6, <1>7, AddIs, Zenon
<1> HIDE DEF b5
<1>9. b5.fits = TRUE
  <2>1. PICK bytes \in Seq(S), alloced \in Nat : \E fits : b5 = Buf(bytes, alloced, fits) /\ fits = TRUE
    BY <1>8, Zenon DEF IsBuf
  <2>2. PICK fits : b5 = Buf(bytes, alloced, fits) /\ fits = TRUE
    BY <2>1, Zenon
  <2>3. b5 = Buf(bytes, alloced, fits)
    BY <2>2, Zenon
  <2>4. b5.fits = fits
    BY <2>3, BufFields
  <2>. QED
    BY <2>2, <2>4, Zenon
<1>10. PICK e \in Seq(S), a \in Seq(S), z \in Seq(S), c \in Seq(S), d \in Seq(S) :
         /\ e = Joined(NonEmpty(env)) /\ a = Joined(NonEmpty(argv)) /\ z = <<0>> /\ c = Code(fname)
         /\ d = <<devino>>
  <2>1. NonEmpty(env) \in Seq(Seq(S)) /\ NonEmpty(argv) \in Seq(Seq(S))
    BY NonEmptyType
  <2>2. 0 \in S
    OBVIOUS
  <2>. QED
    BY <2>1, <2>2, JoinedType, CodeType, OneIs
<1>11. PICK l \in Seq(S) : l = last
  BY <1>7
<1>12. b5.bytes = (((((e \o z) \o a) \o z) \o c) \o d) \o l
  <2>1. << >> \o e = e
    BY ConcatEmptySeq
  <2>. QED
    BY <1>2, <1>3, <1>4, <1>5, <1>6, <1>8, <1>10, <1>11, <2>1, Zenon
<1>13. b5.bytes = e \o (z \o (a \o (z \o (c \o (d \o l)))))
  <2>1. Regroup(S, e, z, a, z, c, d, l)
    BY SevenParts
  <2>. QED
    BY <1>12, <2>1, Zenon DEF Regroup
<1>. QED
  BY <1>1, <1>7, <1>9, <1>10, <1>11, <1>13, Zenon DEF Message, Listed

-----------------------------------------------------------------------------
(* Parts of it *)

LEMMA PartIs ==
  ASSUME NEW S, NEW whole \in Seq(S), NEW cut, NEW in, PartOf(in, whole, cut)
  PROVE  /\ in \in Seq(S) /\ Len(in) <= Len(whole) /\ \A i \in 1 .. Len(in) : in[i] = whole[i]
         /\ ~cut => in = whole
<1>1. PICK n \in 0 .. Len(whole) : in = Upto(whole, n) /\ (~cut => n = Len(whole))
  BY DEF PartOf
<1>2. in \in Seq(S) /\ Len(in) = n /\ \A i \in 1 .. n : in[i] = whole[i]
  BY <1>1, UptoIs
<1>3. ~cut => in = whole
  BY <1>1, UptoAll
<1>4. Len(whole) \in Nat
  BY LenProperties
<1>. QED
  BY <1>1, <1>2, <1>3, <1>4

LEMMA PartOfAll ==
  ASSUME NEW S, NEW whole \in Seq(S)
  PROVE  PartOf(whole, whole, FALSE)
<1>1. Len(whole) \in Nat
  BY LenProperties
<1>2. Upto(whole, Len(whole)) = whole
  BY UptoAll
<1>. QED
  BY <1>1, <1>2 DEF PartOf

LEMMA PartOfPart ==
  ASSUME NEW S, NEW whole \in Seq(S), NEW cut, NEW in, PartOf(in, whole, cut),
         NEW m \in 0 .. Len(in)
  PROVE  PartOf(Upto(in, m), whole, TRUE)
<1>1. PICK n \in 0 .. Len(whole) : in = Upto(whole, n)
  BY DEF PartOf
<1>2. Len(in) = n
  BY <1>1, UptoIs
<1>3. m \in 0 .. n /\ Len(whole) \in Nat
  BY <1>2, LenProperties
<1>4. Upto(in, m) = Upto(whole, m) /\ m \in 0 .. Len(whole)
  BY <1>1, <1>3, UptoUpto
<1>. QED
  BY <1>4 DEF PartOf

\* The script and where its directory is
LEMMA PlaceIs ==
  ASSUME NEW S, NEW devino \in S, NEW where \in S, NEW dir \in S
  PROVE  LET place == Place(devino, where, dir)
         IN  /\ place \in Seq(S) /\ Len(place) = IF where = SPEEDY_CWD_DEVINO THEN 3 ELSE 2
             /\ place[1] = devino /\ place[2] = where
             /\ where = SPEEDY_CWD_DEVINO => place[3] = dir
<1>1. PICK end \in Seq(S) :
        /\ end = IF where = SPEEDY_CWD_DEVINO THEN <<dir>> ELSE << >>
        /\ Len(end) = IF where = SPEEDY_CWD_DEVINO THEN 1 ELSE 0
        /\ where = SPEEDY_CWD_DEVINO => end[1] = dir
  BY OneIs, EmptySeq
<1>2. PICK two \in Seq(S) :
        two = <<where>> \o end /\ Len(two) = 1 + Len(end) /\ two[1] = where /\ Tail(two) = end /\ two # << >>
  <2>1. LET t == <<where>> \o end
        IN  t \in Seq(S) /\ t # << >> /\ Head(t) = where /\ Tail(t) = end /\ Len(t) = 1 + Len(end)
    BY FirstElement, Zenon
  <2>2. PICK t \in Seq(S) :
          t = <<where>> \o end /\ t # << >> /\ Head(t) = where /\ Tail(t) = end /\ Len(t) = 1 + Len(end)
    BY <2>1, Zenon
  <2>3. Head(t) = t[1]
    BY <2>2
  <2>. QED
    BY <2>2, <2>3
<1>3. PICK place \in Seq(S) :
        place = <<devino>> \o two /\ Len(place) = 1 + Len(two) /\ place[1] = devino /\ Tail(place) = two /\ place # << >>
  <2>1. LET t == <<devino>> \o two
        IN  t \in Seq(S) /\ t # << >> /\ Head(t) = devino /\ Tail(t) = two /\ Len(t) = 1 + Len(two)
    BY FirstElement, Zenon
  <2>2. PICK t \in Seq(S) :
          t = <<devino>> \o two /\ t # << >> /\ Head(t) = devino /\ Tail(t) = two /\ Len(t) = 1 + Len(two)
    BY <2>1, Zenon
  <2>3. Head(t) = t[1]
    BY <2>2
  <2>. QED
    BY <2>2, <2>3
<1>4. ASSUME NEW t \in Seq(S), t # << >>, NEW i \in 1 .. Len(t) - 1
      PROVE  Tail(t)[i] = t[i + 1]
  BY <1>4, HeadTailProperties
<1>5. place[2] = where
  <2>1. 1 \in 1 .. Len(place) - 1
    BY <1>1, <1>2, <1>3
  <2>2. Tail(place)[1] = place[1 + 1]
    BY <1>3, <1>4, <2>1
  <2>. QED
    BY <1>2, <1>3, <2>2
<1>6. ASSUME where = SPEEDY_CWD_DEVINO PROVE place[3] = dir
  <2>1. 2 \in 1 .. Len(place) - 1 /\ 1 \in 1 .. Len(two) - 1
    BY <1>1, <1>2, <1>3, <1>6
  <2>2. Tail(place)[2] = place[2 + 1]
    BY <1>3, <1>4, <2>1
  <2>3. Tail(two)[1] = two[1 + 1]
    BY <1>2, <1>4, <2>1
  <2>. QED
    BY <1>1, <1>2, <1>3, <1>6, <2>2, <2>3
<1>7. Place(devino, where, dir) = place
  BY <1>1, <1>2, <1>3, Zenon DEF Place
<1>. QED
  BY <1>1, <1>2, <1>3, <1>5, <1>6, <1>7
=============================================================================
