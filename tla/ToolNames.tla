----------------------------- MODULE ToolNames -----------------------------
(***************************************************************************)
(* How tools get the names the model calls them by: MCPToolSource.scan      *)
(* (builtin/mcp/source.py) and the indexes of ToolManager                   *)
(* (components/tool.py).                                                    *)
(*                                                                         *)
(* SafeId is _safe_identifier, a sequence of one or more words, which the    *)
(* code joins with "_": distinct server ids or remote names may have the     *)
(* same safe identifier, and then all but the first get a suffix, the hash   *)
(* of the original.  A name is the pair of a safe identifier and the        *)
(* sequence of suffixes added to it.  Distinct originals have distinct       *)
(* hashes here, and no identifier spells one.                               *)
(***************************************************************************)
EXTENDS Sequences, Naturals

CONSTANT SafeId(_)

\* _suffix appended to base until the name is free: at most twice, as the
\* hash of one original is added again and again.
Suffixed(base, original, taken) ==
  IF <<base, <<>>>> \notin taken THEN <<base, <<>>>>
  ELSE IF <<base, <<original>>>> \notin taken THEN <<base, <<original>>>>
  ELSE <<base, <<original, original>>>>

\* MCPToolSource._alias: the alias a server has, or the one it gets.
Alias(server, descs) ==
  IF \E k \in DOMAIN descs : descs[k].server = server
  THEN descs[CHOOSE k \in DOMAIN descs : descs[k].server = server].alias
  ELSE Suffixed(SafeId(server), server, { descs[k].alias : k \in DOMAIN descs })

\* MCPToolSource._name: free among the names under the same alias.
Name(alias, remote, descs) ==
  Suffixed(SafeId(remote), remote,
           { descs[k].name : k \in { j \in DOMAIN descs : descs[j].alias = alias } })

\* The descriptors with the one of an offered tool, a server and a remote name.
WithTool(descs, tool) ==
  LET alias == Alias(tool[1], descs) IN
  Append(descs, [server |-> tool[1], remote |-> tool[2], alias |-> alias,
                 name |-> Name(alias, tool[2], descs)])

\* MCPToolSource.scan: the descriptors of a sequence of offered tools.
Described(offered) ==
  LET described[n \in 0..Len(offered)] ==
        IF n = 0 THEN <<>> ELSE WithTool(described[n - 1], offered[n])
  IN described[Len(offered)]

\* Manager.scan raises when two descriptors have one id.
HasDuplicateIds(descs) ==
  \E j, k \in DOMAIN descs : j < k /\ descs[j].server = descs[k].server /\ descs[j].remote = descs[k].remote

\* The suffixes, each with the number of words it comes after.
Marks(words, suffixes) == [k \in DOMAIN suffixes |-> <<Len(words), suffixes[k]>>]

\* Mutant of PublicName: the alias is left out.
NameAlone(d) == <<d.name[1], Marks(d.name[1], d.name[2])>>

\* ToolManager.public_name: alias and name as one text, its words and where the
\* suffixes are.  Nothing tells where the alias ends: a + b_c is a_b + c.  The
\* alias of a tool of the workspace may be empty, <<>>.
PublicName(d) ==
  LET words == d.alias[1] \o d.name[1] IN
  <<words, Marks(d.alias[1], d.alias[2]) \o Marks(words, d.name[2])>>

\* ToolManager.resolve through _by_public_name: the tools of that name.
Candidates(descs, public) == { k \in DOMAIN descs : PublicName(descs[k]) = public }
=============================================================================
