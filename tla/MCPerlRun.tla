----------------------------- MODULE MCPerlRun -----------------------------
(* Model checking PerlRun with small requests and a directory that can be   *)
(* searched but not read.                                                   *)
EXTENDS PerlRun, TLC

CONSTANTS d1, d2, d3, p1, p2

MCMode == (d1 :> "all") @@ (d2 :> "all") @@ (d3 :> "noread")
MCHome == (p1 :> d1) @@ (p2 :> d2)

\* Strings around the length that needs an int, a value that is empty, a key
\* that comes twice, a string that is not a pair, and an empty argument.
MCPayloads ==
  <<[env  |-> << <<7, Equals>>, <<5>>, <<7, Equals, 6>> >>,
     argv |-> << <<8>>, << >>, <<8, 9>>, <<9, 8, 9, 8>>, <<8>> >>]>>

Symmetric == Permutations(Scripts)
=============================================================================
