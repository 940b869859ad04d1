------------------------------ MODULE Request ------------------------------
(***************************************************************************)
(* The message with the environment, the arguments, the script and the     *)
(* directory, as speedy_frontend.c builds it in a SpeedyBuf and            *)
(* speedy_perl.c takes it apart.  A string is a sequence of bytes, none of *)
(* them 0; a device/inode pair counts as one byte.                         *)
(***************************************************************************)
EXTENDS Integers, Sequences, SequencesExt

CONSTANTS
  MAX_SHORT_STR,        \* from this length on, the length is sent as an int
  SIZEOF_INT,
  SPEEDY_REALLOC_MULT,
  MIN_ALLOC             \* what mkenv allocates first

ASSUME RequestAssumption ==
  /\ MAX_SHORT_STR \in Nat \ {0} /\ SIZEOF_INT \in Nat \ {0}
  /\ SPEEDY_REALLOC_MULT \in Nat /\ MIN_ALLOC \in Nat

SPEEDY_CWD_IN_SCRIPT == 0
SPEEDY_CWD_DEVINO    == 1
SPEEDY_CWD_UNKNOWN   == 2

-----------------------------------------------------------------------------
(* A SpeedyBuf: its bytes, the size of its memory, and whether all that was *)
(* ever put in was within it.                                               *)

alloc_buf(size) == [bytes |-> << >>, alloced |-> size, fits |-> TRUE]

enlarge_buf(b, min_to_add) ==
  LET new_size == b.alloced * SPEEDY_REALLOC_MULT
      min_size == Len(b.bytes) + min_to_add
  IN  [b EXCEPT !.alloced = IF new_size < min_size THEN min_size ELSE new_size]

BUF_ENLARGE(b, l) == IF Len(b.bytes) + l > b.alloced THEN enlarge_buf(b, l) ELSE b

ADD2(b, s) == [b EXCEPT !.bytes = @ \o s, !.fits = @ /\ Len(b.bytes) + Len(s) <= b.alloced]

ADD(b, s) == ADD2(BUF_ENLARGE(b, Len(s)), s)

\* An int in memory
IntBytes(n) == [k \in 1 .. SIZEOF_INT |-> IF k = 1 THEN n ELSE 0]

ADD_STRING(b, s) ==
  ADD(IF Len(s) >= MAX_SHORT_STR
      THEN ADD2(BUF_ENLARGE(b, SIZEOF_INT + 1), <<MAX_SHORT_STR>> \o IntBytes(Len(s)))
      ELSE ADD(b, <<Len(s)>>),
      s)

\* (A slip: an empty string is added like any other.)
add_strings_all(b, strings) ==
  LET sofar[i \in 0 .. Len(strings)] == IF i = 0 THEN b ELSE ADD_STRING(sofar[i - 1], strings[i])
  IN  ADD(sofar[Len(strings)], <<0>>)

\* An empty string is left out: it would end the list.
add_strings(b, strings) ==
  LET sofar[i \in 0 .. Len(strings)] ==
        IF i = 0 THEN b
        ELSE IF strings[i] = << >> THEN sofar[i - 1] ELSE ADD_STRING(sofar[i - 1], strings[i])
  IN  ADD(sofar[Len(strings)], <<0>>)

\* The strings that are to arrive
NonEmpty(strings) ==
  LET kept[i \in 0 .. Len(strings)] ==
        IF i = 0 THEN << >>
        ELSE IF strings[i] = << >> THEN kept[i - 1] ELSE Append(kept[i - 1], strings[i])
  IN  kept[Len(strings)]

\* cwd_where, and with SPEEDY_CWD_DEVINO the directory
speedy_frontend_mkenv(env, argv, script_fname, devino, cwd_where, cwd_devino) ==
  LET strings == add_strings(add_strings(alloc_buf(MIN_ALLOC), env), argv)
      script  == ADD(ADD_STRING(strings, script_fname), <<devino>>)
  IN  ADD(script, <<cwd_where>> \o IF cwd_where = SPEEDY_CWD_DEVINO THEN <<cwd_devino>>
                                                                    ELSE << >>)

-----------------------------------------------------------------------------
(* get_string takes a string, or NULL, from in: what it returns and what is *)
(* left.  At the end of file it is a protocol error.  A string that is cut  *)
(* off has garbage in its place.                                            *)

CONSTANTS NULL, Garbage

ProtocolError(in) == in = << >>

Upto(in, n) == SubSeq(in, 1, n)
After(in, n) == SubSeq(in, n + 1, Len(in))

get_string(in) ==
  LET sz   == Head(in)
      long == sz = MAX_SHORT_STR
      skip == IF long THEN 1 + SIZEOF_INT ELSE 1
      len  == IF long THEN (IF Len(in) >= 2 THEN in[2] ELSE 0) ELSE sz
  IN  IF sz = 0 THEN [str |-> NULL, rest |-> Tail(in)]
      ELSE IF Len(in) < skip + len THEN [str |-> Garbage, rest |-> << >>]
      ELSE [str |-> Upto(After(in, skip), len), rest |-> After(in, skip + len)]
=============================================================================
