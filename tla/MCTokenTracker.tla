--------------------------- MODULE MCTokenTracker ---------------------------
(* One or two hooks that read the transcript of a session, whose messages  *)
(* use different shares of input and output, or nothing.                   *)
EXTENDS TokenTracker, TLC

CONSTANTS w1, w2

Usage(input, output, cached) ==
  [kind \in Kinds |-> CASE kind = "Input"  -> input
                       [] kind = "Output" -> output
                       [] OTHER           -> cached]

MCUsages == {Usage(1, 0, 0), Usage(1, 2, 1), Usage(0, 0, 0)}

MCSymmetry == Permutations({w1, w2})
=============================================================================
