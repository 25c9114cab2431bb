------------------------------ MODULE MCMemory ------------------------------
(* Three addresses and lines of two bytes: nothing to write, a write of two
   lines, and one of one line that overlaps it. *)
EXTENDS Memory

MCRanges == {<<0, 0>>, <<0, 3>>, <<1, 2>>}
=============================================================================
