---------------------------- MODULE MCCoalescer ----------------------------
(* Two contents that the presence can have, and room for two callbacks.    *)
EXTENDS Coalescer

CONSTANTS a, b, c1, c2
=============================================================================
