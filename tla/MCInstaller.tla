----------------------------- MODULE MCInstaller -----------------------------
(***************************************************************************)
(* A small instance: the default provider of the repository's              *)
(* providers.json, one with a base variable of its own, and an incomplete  *)
(* entry between them; two processes.                                      *)
(***************************************************************************)
EXTENDS Installer

CONSTANTS b1, b2, bx, t1, m1, mx, home, other

MCProviders ==
  << [apiBase |-> b1, apiEnv |-> "LLM_API_BASE", tokenEnv |-> "OPENAI_API_KEY",
      protocol |-> "chat_completions", model |-> m1, default |-> TRUE],
     [apiBase |-> b1, apiEnv |-> "LLM_API_BASE", tokenEnv |-> None,
      protocol |-> "responses", model |-> m1, default |-> FALSE],
     [apiBase |-> b2, apiEnv |-> "ANTHROPIC_BASE", tokenEnv |-> "ANTHROPIC_API_KEY",
      protocol |-> "anthropic_messages", model |-> None, default |-> FALSE] >>

\* No step tells one process from another.
Alike == Permutations(Runtimes)
==============================================================================
