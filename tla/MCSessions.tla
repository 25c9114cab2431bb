----------------------------- MODULE MCSessions -----------------------------
(* Two sessions at once, and enough clients for one of them to be booted again
   after a launch that failed. *)
EXTENDS Sessions

CONSTANTS s1, s2
=============================================================================
