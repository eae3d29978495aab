---------------------------- MODULE MCSqlSchema -----------------------------
(* Small instance of SqlSchema for TLC. *)
EXTENDS SqlSchema, TLC

\* Two clients and one table: clients take turns to be the first to need an
\* origin's column, the agent migrates, and both share one connection.
MCBase == {"content"}
MCOrigins == {"late"}
MCRegistered == {"http"}
MCSymmetry == Permutations(Clients)
=============================================================================
