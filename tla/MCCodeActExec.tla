--------------------------- MODULE MCCodeActExec ---------------------------
(* Code that makes two nested tool calls, cancelled at most twice. *)
EXTENDS CodeActExec

CONSTANTS c1, c2

MCCalls == {c1, c2}
=============================================================================
