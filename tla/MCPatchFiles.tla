---------------------------- MODULE MCPatchFiles ----------------------------
(* One patch alone, on many files and hunks; and two calls on the same files. *)
EXTENDS PatchFiles

MCPaths == {"x", "y"}

L(word) == <<0, word, 0>>
Words == {L("a"), L("b"), <<0, "a", 1>>, <<1, "a", 0>>}
Lines(S, n) == UNION {[1..k -> S] : k \in 0..n}
Texts(S, n) == {EmptyText} \cup {TextOf(f, newline) : f \in Lines(S, n) \ {<<>>}, newline \in BOOLEAN}
A == File(<<L("a"), BlankLine>>)

H(lines, eof) == [lines |-> lines, eof |-> eof]
Update(hunks) == [FileOp("update", "x") EXCEPT !.hunks = hunks]
Move(hunks) == [Update(hunks) EXCEPT !.move = "y"]
Add(path) == [FileOp("add", path) EXCEPT !.content = <<L("n"), L("n")>>]

Patch(m) == [tool |-> "patch", meant |-> m, text |-> PatchTextOf(m)]
Wrapped(m) == [Patch(m) EXCEPT !.text = <<Mark("begin")>> \o @ \o <<Mark("end")>>]
WriteCall == [tool |-> "write", path |-> "x", content |-> <<L("w"), BlankLine>>]

Files(x, y) == [p \in MCPaths |-> IF p = "x" THEN x ELSE y]

\* Every hunk of two lines on every file of two.
OneHunk ==
  {[files |-> Files(File(f), Absent), calls |-> <<Patch(<<Update(<<H(<<l, m>>, eof)>>)>>)>>] :
     f \in Texts(Words \cup {BlankLine}, 2), eof \in BOOLEAN,
     l, m \in {" ", "-", "+"} \X ((Words \ {<<0, "a", 1>>}) \cup {BlankLine})}

Small == {H(<<<<"-", L("a")>>, <<"+", L("c")>>>>, FALSE), H(<<<<" ", L("b")>>, <<"+", L("c")>>>>, FALSE),
          H(<<<<"-", L("b")>>>>, FALSE), H(<<<<"-", L("a")>>, <<" ", L("b")>>>>, TRUE),
          H(<<<<"+", L("c")>>>>, TRUE), H(<<<<"+", L("c")>>>>, FALSE)}

\* Two hunks on files of up to four lines.
TwoHunks ==
  {[files |-> Files(File(f), Absent), calls |-> <<Wrapped(<<Update(<<h, g>>)>>)>>] :
     f \in Texts({L("a"), L("b")}, 4), h, g \in Small}

Edit == H(<<<<"-", L("a")>>, <<"+", L("b")>>>>, FALSE)

\* Operations together.
Several ==
  {[files |-> Files(x, y), calls |-> <<Wrapped(m)>>] :
     x, y \in {Absent, A, File(<<L("b")>>)},
     m \in {<<Move(<<Edit>>)>>, <<Add("y"), Update(<<Edit>>)>>, <<FileOp("delete", "y"), Update(<<Edit>>)>>,
              <<Update(<<Edit>>), FileOp("delete", "y")>>, <<Move(<<Edit>>), Add("y")>>, <<>>}}

Two ==
  {[files |-> Files(A, y), calls |-> <<c, d>>] :
     y \in {Absent, A},
     c, d \in {WriteCall, Patch(<<Update(<<Edit>>)>>), Patch(<<Move(<<Edit>>)>>), Patch(<<Add("y"), Update(<<Edit>>)>>),
               Patch(<<Update(<<H(<<<<"+", L("c")>>>>, TRUE)>>)>>), Patch(<<FileOp("delete", "x")>>)}}

MCScenarios == OneHunk \cup TwoHunks \cup Several \cup Two
=============================================================================
