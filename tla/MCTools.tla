------------------------------ MODULE MCTools ------------------------------
(* A location outside the window and one inside it in two banks, of which the
   table holds two; a condition of its own; one tool of each family. *)
EXTENDS Tools

MCLocation == {<<1, "0500">>, <<0, "a100">>, <<1, "a100">>}
MCCondition == {<<>>, <<"val", "==", "$aa">>}
MCSymmetry == Permutations(SessionId)

\* No step looks at the result of the last tool.
MCView == <<session, client, emu, tool, view, lost, files, calls>>
=============================================================================
