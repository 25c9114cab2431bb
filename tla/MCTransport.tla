---------------------------- MODULE MCTransport ----------------------------
(* A small instance of Transport: two event kinds, both what a caller awaits
   and what it does not, and enough commands for a reply to be late by two. *)
EXTENDS Transport

CONSTANTS brk, wp
=============================================================================
