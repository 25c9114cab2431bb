-------------------------- MODULE MCPromptFraming --------------------------
(* The prompt is two tokens, so that a read can end inside it; bodies are
   empty (a bare prompt), or text, or text that begins like the prompt. *)
EXTENDS PromptFraming

CONSTANTS x, gt, t

MCPrompt == <<x, gt>>
CleanBodies == {<<>>, <<t>>, <<t, x>>, <<x, t>>}
\* Bodies as a memory dump can have them: the prompt's text among the data.
DumpBodies == {<<t>>, <<t, x, gt, t>>}
=============================================================================
