---------------------------- MODULE MCLlmCodecs ----------------------------
(* Responses of up to three pieces, in a dialog with two responses. *)
EXTENDS LlmCodecs

MCShapes ==
  {<<"text">>, <<"call">>, <<"text", "call">>, <<"call", "text">>, <<"call", "call">>,
   <<"reasoning", "text", "call">>, <<"text", "reasoning", "text">>, <<"reasoning", "call", "call">>}
=============================================================================
