---------------------------- MODULE MCMcpServers ----------------------------
(***************************************************************************)
(* Two servers and one tool of the workspace.  The remote names "b-c" and   *)
(* "b.c" have one safe form; the tool "b.c" of the first server and the     *)
(* tool "c" of the second have one public name, as a + b_c is a_b + c; the  *)
(* tool of the workspace, which is its own group, has the public name of    *)
(* the first server's "c".                                                 *)
(***************************************************************************)
EXTENDS McpServers

MCServers == <<"a", "a-b">>
MCSafeId(x) ==
  CASE x = "a-b" -> <<"a", "b">>
    [] x \in {"b-c", "b.c"} -> <<"b", "c">>
    [] OTHER -> <<x>>
MCListings == { <<"b-c", "b.c">>, <<"b.c">>, <<"c">>, <<"c", "c">> }
MCWorkspace == << [server |-> "python", remote |-> "a_c",
                   alias |-> <<<<>>, <<>>>>, name |-> <<<<"a", "c">>, <<>>>>] >>
=============================================================================
