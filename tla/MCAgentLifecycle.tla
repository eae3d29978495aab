-------------------------- MODULE MCAgentLifecycle --------------------------
(***************************************************************************)
(* A task that handles messages, one that operates on the extensions and   *)
(* one that stops the agent.  Extension "tasks" comes with a lifecycle     *)
(* component, as builtin/planner does, "notes" is only tools.              *)
(***************************************************************************)
EXTENDS AgentLifecycle

CONSTANTS message, manage, owner

MCProcs == {message, manage, owner}
MCCalls == [p \in MCProcs |-> CASE p = message -> {"ensure"}
                                 [] p = manage -> Operations
                                 [] p = owner -> {"stop"}]
MCMaxCalls == [p \in MCProcs |-> 2]
MCOrder == <<"tools", "tasks", "server">>
=============================================================================
