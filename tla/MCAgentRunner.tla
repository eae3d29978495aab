---------------------------- MODULE MCAgentRunner ----------------------------
(***************************************************************************)
(* Two interactive runs of one dialog ("chat") whose tools submit headless *)
(* runs under a shared key ("job"), and one client that submits both kinds.*)
(***************************************************************************)
EXTENDS AgentRunner

CONSTANTS c1, t1, t2, j1, j2

MCKeys == {"chat", "job"}
MCTasks == {t1, t2, j1, j2}
MCClients == {c1}
MCKeyOf == [t \in MCTasks |-> IF t \in {t1, t2} THEN "chat" ELSE "job"]
MCTargets == [c \in MCClients \cup MCTasks |->
                IF c \in MCClients THEN MCKeys
                ELSE IF c \in {t1, t2} THEN {"job"} ELSE {}]
=============================================================================
