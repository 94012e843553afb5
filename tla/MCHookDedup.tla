----------------------------- MODULE MCHookDedup -----------------------------
(* Two contents, and two requests in flight at a time.                     *)
EXTENDS HookDedup

CONSTANTS k1, k2, r1, r2
=============================================================================
