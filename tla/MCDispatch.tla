----------------------------- MODULE MCDispatch -----------------------------
(* Two modules that are imported up to four times: p has one hook and a tool,
   q two hooks and another tool.  The third version of either is on a cycle
   with the second of the other; the last of q has a tool that is rejected.   *)
EXTENDS Dispatch

CONSTANTS x, y

Hook(name, full, event, priority, before, after) ==
  [kind |-> "hook", id |-> full, aliases |-> {name, full}, event |-> event,
   priority |-> priority, before |-> before, after |-> after]

Tool(id, alias, name, sig) ==
  [kind |-> "tool", id |-> id, alias |-> alias, name |-> name, sig |-> sig]

Param(name, kind, default, injectable) ==
  [name |-> name, kind |-> kind, default |-> default, injectable |-> injectable]

Ctx1 == Param("ctx", "positional", FALSE, TRUE)
A == Param("a", "positional", FALSE, FALSE)
B == Param("b", "positional", TRUE, FALSE)
K == Param("k", "keyword", TRUE, FALSE)

P1 == Hook("h", "p.h", "run", 1, {}, {})

MCDecls ==
  [p |-> << <<P1, Tool("p.t", "p", "t", <<Ctx1, A, B>>)>>,
            <<Hook("h", "p.h", "run", 1, {}, {"q.g"}), Tool("p.t", "p", "t", <<B, A>>)>>,
            <<Hook("h", "p.h", "send", 1, {}, {}), Tool("p.t", "p", "t", <<B, A>>)>>,
            <<P1, Tool("p.t", "p", "t", <<A, Ctx1, K>>)>> >>,
   q |-> << <<Hook("g", "q.g", "run", 2, {}, {}), Hook("f", "q.f", "run", 1, {}, {})>>,
            <<Hook("g", "q.g", "run", 2, {}, {}), Hook("f", "q.f", "run", 1, {"h"}, {}),
              Tool("q.t", "p", "t", <<A>>)>>,
            <<Hook("g", "q.g", "run", 2, {}, {"h"}), Hook("f", "q.f", "run", 1, {}, {"zz"})>>,
            <<Tool("q.t", "q", "t", <<A>>), Tool("q.u", "not valid", "u", <<A>>)>> >>]

MCModules == {"p", "q"}
MCEvents == {"run", "send"}

None == [n \in {} |-> x]
MCArguments ==
  [args : {<<>>, <<x>>, <<x, y>>}, kwargs : {None, [a |-> y], [b |-> y, a |-> x], [ctx |-> y]}]
=============================================================================
