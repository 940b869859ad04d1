---------------------------- MODULE MCFrontendIO ----------------------------
(***************************************************************************)
(* Model checking FrontendIO: buffers of two and three bytes that grow one *)
(* byte at a time (so they wrap, fill up and are grown while wrapped),     *)
(* sockets and pipes of one byte, and seven kinds of request.              *)
(***************************************************************************)
EXTENDS FrontendIO, TLC

SmallMaxSz == [b \in Bufs |-> IF b = 1 THEN 3 ELSE 2]

Load(closed, nin, out, err, odd) ==
    [closed |-> closed, nin |-> nin, nout |-> <<out, err>>, odd |-> odd]

AllLoads ==
    { Load({}, 0, 4, 0, 0),      \* a long output
      Load({}, 1, 1, 0, 0),      \* input and output
      Load({}, 0, 1, 1, 1),      \* both outputs, and one odd event
      Load({}, 0, 0, 0, 2),      \* two odd events
      Load({0}, 0, 1, 0, 1),     \* stdin, stdout or stderr closed at the start
      Load({1}, 0, 1, 0, 1),
      Load({2}, 0, 1, 0, 1) }

OddLoads == {Load({}, 0, 0, 0, 2)}

AnyKeeps == {{1}, {2}, {1, 2}}
=============================================================================
