------------------------------ MODULE CircBuf ------------------------------
(***************************************************************************)
(* The circular buffer of speedy_circ.c and the copy buffer of speedy_cb.c *)
(* that the frontend copies its I/O through, as operators on records.      *)
(*                                                                         *)
(* A CircBuf is [buf, buf_len, data_beg, data_len]; buf is the memory, a   *)
(* function on 0..buf_len-1.  What malloc returns holds Junk.  A segment   *)
(* (struct iovec) is [base, len].                                          *)
(***************************************************************************)
EXTENDS Integers, Sequences

CONSTANTS MIN_READ,     \* cb_read wants this much room
          Junk          \* the contents of memory that nobody has written

ASSUME MinReadAssumption == MIN_READ \in Nat \ {0}

-----------------------------------------------------------------------------
(* speedy_circ.c *)

circ_init(contents, alloced) ==
    [ buf      |-> [p \in 0 .. alloced-1 |-> IF p < Len(contents) THEN contents[p+1] ELSE Junk],
      buf_len  |-> alloced,
      data_beg |-> 0,
      data_len |-> Len(contents) ]

Seg(base, len) == [base |-> base, len |-> len]

\* The len bytes from beg on, in a memory of buf_len bytes: at most two pieces.
get_segs(buf_len, beg, len) ==
    LET first_seg_len == buf_len - beg IN
    IF len = 0 THEN << >>
    ELSE IF len <= first_seg_len THEN << Seg(beg, len) >>
    ELSE << Seg(beg, first_seg_len), Seg(0, len - first_seg_len) >>

circ_data_segs(c) == get_segs(c.buf_len, c.data_beg, c.data_len)

circ_free_segs(c) ==
    IF c.buf_len = 0 THEN << >>
    ELSE get_segs(c.buf_len, (c.data_beg + c.data_len) % c.buf_len, c.buf_len - c.data_len)

\* The cell of the k-th byte of segs, k from 1, and how many bytes there are.
Cell(segs, k) == IF k <= segs[1].len THEN segs[1].base + (k - 1)
                                     ELSE segs[2].base + (k - 1 - segs[1].len)
SegsLen(segs) == CASE Len(segs) = 0 -> 0
                   [] Len(segs) = 1 -> segs[1].len
                   [] OTHER -> segs[1].len + segs[2].len

\* (A slip: what is taken out is taken from the end.)
circ_adj_len_tail(c, adjust) == [c EXCEPT !.data_len = @ + adjust]

circ_adj_len(c, adjust) ==
    LET len == c.data_len + adjust IN
    [ buf      |-> c.buf,
      buf_len  |-> c.buf_len,
      data_beg |-> IF adjust >= 0 THEN c.data_beg
                   ELSE IF len = 0 THEN 0
                   ELSE (c.data_beg - adjust) % c.buf_len,
      data_len |-> len ]

\* memmove of len bytes from src to dst
Moved(buf, dst, src, len) ==
    [p \in DOMAIN buf |-> IF dst <= p /\ p < dst + len THEN buf[src + (p - dst)] ELSE buf[p]]

\* realloc(3) of the memory keeps what fits.
Renewed(c, new_buf_len) ==
    [p \in 0 .. new_buf_len-1 |-> IF p < c.buf_len THEN c.buf[p] ELSE Junk]

\* (A slip: the pieces are left where they are.)
circ_realloc_split(c, new_buf_len) ==
    [c EXCEPT !.buf = Renewed(c, new_buf_len), !.buf_len = new_buf_len]

\* speedy_renew and speedy_circ_realloc: data in two pieces is joined around
\* the new end of the memory, by moving the shorter piece.
circ_realloc(c, new_buf_len) ==
    LET data == circ_data_segs(c)
        mem  == Renewed(c, new_buf_len)
        split == new_buf_len > c.buf_len /\ Len(data) = 2
        beg  == new_buf_len - data[1].len
        fr   == get_segs(new_buf_len, c.buf_len, data[2].len)
        first == Moved(mem, fr[1].base, data[2].base, fr[1].len)
    IN  [ buf |-> IF ~split THEN mem
                  ELSE IF data[1].len <= data[2].len THEN Moved(mem, beg, data[1].base, data[1].len)
                  ELSE IF Len(fr) = 1 THEN first
                  ELSE Moved(first, fr[2].base, data[2].base + fr[1].len, fr[2].len),
          buf_len  |-> new_buf_len,
          data_beg |-> IF split /\ data[1].len <= data[2].len THEN beg ELSE c.data_beg,
          data_len |-> c.data_len ]

\* The bytes held, in order.
Data(c) == [k \in 1 .. c.data_len |-> c.buf[Cell(circ_data_segs(c), k)]]

\* readv(2) into the free segments, followed by adj_len.
Filled(c, bytes) ==
    LET free == circ_free_segs(c) IN
    circ_adj_len([c EXCEPT !.buf = [p \in DOMAIN c.buf |->
                      IF \E k \in DOMAIN bytes : Cell(free, k) = p
                      THEN bytes[CHOOSE k \in DOMAIN bytes : Cell(free, k) = p]
                      ELSE c.buf[p]]],
                 Len(bytes))

-----------------------------------------------------------------------------
(* speedy_cb.c.  A CopyBuf is [circ, maxsz, eof, write_err]; what it copies *)
(* from and to are the caller's arguments.                                  *)

cb_init(maxsz, contents, alloced) ==
    [circ |-> circ_init(contents, alloced), maxsz |-> maxsz, eof |-> FALSE, write_err |-> FALSE]

cb_data_len(cb) == cb.circ.data_len
cb_free_len(cb) == cb.maxsz - cb_data_len(cb)

cb_canread(cb)  == cb_free_len(cb) # 0 /\ ~cb.eof /\ ~cb.write_err
cb_canwrite(cb) == cb_data_len(cb) # 0 /\ ~cb.write_err
cb_copydone(cb) == (cb.eof /\ cb_data_len(cb) = 0) \/ cb.write_err

\* cb_free: the memory goes
cb_free(cb) == [cb EXCEPT !.circ = circ_realloc(@, 0)]

\* (A slip: a buffer that is full, but short of one byte only, does not grow.)
cb_grow_late(cb) ==
    LET c == cb.circ
        shortfall == MIN_READ - (c.buf_len - c.data_len)
        new_buf_len == IF 2 * c.buf_len > cb.maxsz THEN cb.maxsz ELSE 2 * c.buf_len
    IN  IF shortfall > 1 THEN [cb EXCEPT !.circ = circ_realloc(c, new_buf_len)] ELSE cb

\* (A slip: it grows beyond maxsz.)
cb_grow_on(cb) ==
    LET c == cb.circ IN
    IF c.buf_len - c.data_len < MIN_READ
    THEN [cb EXCEPT !.circ = circ_realloc(c, c.buf_len + (IF MIN_READ > c.buf_len THEN MIN_READ
                                                          ELSE c.buf_len))]
    ELSE cb

\* The first half of cb_read: make room for MIN_READ bytes, up to maxsz.
cb_grow(cb) ==
    LET c == cb.circ
        shortfall == MIN_READ - (c.buf_len - c.data_len)
        more == IF shortfall > c.buf_len THEN shortfall ELSE c.buf_len
        new_buf_len == IF c.buf_len + more > cb.maxsz THEN cb.maxsz ELSE c.buf_len + more
    IN  IF shortfall > 0 /\ c.buf_len < cb.maxsz
        THEN [cb EXCEPT !.circ = circ_realloc(c, new_buf_len)]
        ELSE cb

\* The most that readv can return.
cb_room(cb) == SegsLen(circ_free_segs(cb_grow(cb).circ))

\* cb_read.  in is what readv could get, more whether more may come: no room in
\* the buffer reads as 0, the end of file, and so does an end of file.
cb_read(cb, in, more) ==
    LET g == cb_grow(cb)
        n == IF Len(in) < cb_room(cb) THEN Len(in) ELSE cb_room(cb)
        at_eof == [g EXCEPT !.eof = TRUE]
    IN  IF cb_free_len(cb) = 0 THEN cb
        ELSE IF n > 0 THEN [g EXCEPT !.circ = Filled(@, SubSeq(in, 1, n))]
        ELSE IF cb_room(cb) > 0 /\ Len(in) = 0 /\ more THEN g
        ELSE IF cb_data_len(g) = 0 THEN cb_free(at_eof) ELSE at_eof

\* cb_write when writev takes n bytes (0: not ready), and when it fails.
cb_wrote(cb, n) ==
    LET w == [cb EXCEPT !.circ = circ_adj_len(@, -n)]
    IN  IF n = 0 THEN cb
        ELSE IF w.eof /\ cb_data_len(w) = 0 THEN cb_free(w) ELSE w
cb_write_failed(cb) == cb_wrote([cb EXCEPT !.write_err = TRUE], cb_data_len(cb))

\* cb_shift: take out the first byte
cb_first(cb) == cb.circ.buf[Cell(circ_data_segs(cb.circ), 1)]
cb_shift(cb) == [cb EXCEPT !.circ = circ_adj_len(@, -1)]
=============================================================================
