----------------------------- MODULE PatchText -----------------------------
(***************************************************************************)
(* builtin/apply_patch.py: the text of a patch, parsed into operations,    *)
(* and hunks applied to the lines of a file.  A line is                    *)
(* <<indentation, word, trailing blanks>>; a line of a patch is a token.   *)
(* A text is its lines as split("\n") gives them, at least one: the last   *)
(* is empty if the text ends with a newline, and the only one of "" is.    *)
(***************************************************************************)
EXTENDS Naturals, Sequences, FiniteSets

LOCAL INSTANCE SequencesExt

Line == Nat \X STRING \X Nat
BlankLine == <<0, "", 0>>

EmptyText == <<BlankLine>>
EndsWithNewline(text) == Len(text) > 1 /\ Last(text) = BlankLine

Rstrip(line) == [line EXCEPT ![3] = 0]

-----------------------------------------------------------------------------
(* Parsing. *)

Header(tag, path) == [tag |-> tag, path |-> path]
Mark(tag) == [tag |-> tag]
Change(sign, line) == [tag |-> sign, line |-> line]

Hunk == [lines |-> <<>>, eof |-> FALSE]
Hunks == [lines : Seq({"+", "-", " "} \X Line), eof : BOOLEAN]

FileOp(action, path) ==
  [action |-> action, path |-> path, move |-> "", content |-> <<>>, hunks |-> <<>>]

\* open: a hunk is being read; fresh: the header of an update was the last line.
NothingParsed == [ops |-> <<>>, hunk |-> Hunk, open |-> FALSE, fresh |-> FALSE, error |-> FALSE]

\* The hunk that is being read joins the hunks of the last operation.
EndHunk(s) ==
  IF ~s.open THEN s
  ELSE [s EXCEPT !.open = FALSE, !.hunk = Hunk, !.ops[Len(s.ops)].hunks = Append(@, s.hunk)]

\* A section ends at the next one, or with the patch.
EndSection(s) ==
  LET t == EndHunk(s)
  IN IF t.ops # <<>> /\ t.ops[Len(t.ops)].action = "update" /\ t.ops[Len(t.ops)].hunks = <<>>
     THEN [t EXCEPT !.error = TRUE] ELSE t

\* A line in the section of an update.
UpdateLine(s, token) ==
  CASE token.tag = "move" /\ s.fresh -> [s EXCEPT !.ops[Len(s.ops)].move = token.path, !.fresh = FALSE]
    [] token.tag = "@@" -> [EndHunk(s) EXCEPT !.open = TRUE, !.fresh = FALSE]
    [] token.tag = "eof" -> [s EXCEPT !.open = TRUE, !.fresh = FALSE, !.hunk.eof = TRUE]
    [] token.tag \in {"+", "-", " "} ->
         [s EXCEPT !.open = TRUE, !.fresh = FALSE,
                   !.hunk.lines = Append(@, <<token.tag, token.line>>)]
    [] token.tag = "blank" ->
         [s EXCEPT !.open = TRUE, !.fresh = FALSE, !.hunk.lines = Append(@, <<" ", BlankLine>>)]
    [] OTHER -> [s EXCEPT !.error = TRUE]

\* A line in the section of an addition.
AddLine(s, token) ==
  CASE token.tag = "+"     -> [s EXCEPT !.ops[Len(s.ops)].content = Append(@, token.line)]
    [] token.tag = "blank" -> [s EXCEPT !.ops[Len(s.ops)].content = Append(@, BlankLine)]
    [] OTHER -> [s EXCEPT !.error = TRUE]

ParseLine(s, token) ==
  IF s.error THEN s
  ELSE IF token.tag \in {"add", "update", "delete"}
  THEN LET t == EndSection(s)
       IN [t EXCEPT !.ops = Append(@, FileOp(token.tag, token.path)), !.fresh = token.tag = "update"]
  ELSE IF s.ops # <<>> /\ s.ops[Len(s.ops)].action = "update" THEN UpdateLine(s, token)
  ELSE IF s.ops # <<>> /\ s.ops[Len(s.ops)].action = "add" THEN AddLine(s, token)
  ELSE [s EXCEPT !.error = token.tag # "blank"]

\* The markers around a patch are optional.
Unwrapped(text) ==
  LET body == IF text # <<>> /\ text[1].tag = "begin" THEN Tail(text) ELSE text
  IN IF body # <<>> /\ body[Len(body)].tag = "end" THEN SubSeq(body, 1, Len(body) - 1) ELSE body

\* parse_patch(): the operations, <<>> if the patch is malformed.
ParsePatch(text) ==
  LET s == EndSection(FoldLeft(ParseLine, NothingParsed, Unwrapped(text)))
  IN IF s.error THEN <<>> ELSE s.ops

-----------------------------------------------------------------------------
(* Hunks. *)

Side(lines, sign) ==
  LET of == SelectSeq(lines, LAMBDA l : l[1] \in {" ", sign}) IN [k \in DOMAIN of |-> of[k][2]]

Before(lines) == Side(lines, "-")
After(lines) == Side(lines, "+")

\* Mutant: the search does not begin behind the hunk before.
MatchesAnywhere(file, before, start) ==
  {p \in 0..(Len(file) - Len(before)) : SubSeq(file, p + 1, p + Len(before)) = before}

\* Where a fragment is in the file, at start or later.
Matches(file, before, start) ==
  {p \in start..(Len(file) - Len(before)) : SubSeq(file, p + 1, p + Len(before)) = before}

NotFound == [ok |-> FALSE, found |-> FALSE, at |-> 0]
Ambiguous == [ok |-> FALSE, found |-> TRUE, at |-> 0]
At(p) == [ok |-> TRUE, found |-> TRUE, at |-> p]

StrippedLines(lines) == [k \in DOMAIN lines |-> Rstrip(lines[k])]

\* _find_hunk_position(): the one exact match, or else the one match without trailing
\* blanks.
FindHunkPosition(file, before, start) ==
  LET exact == Matches(file, before, start)
      fallback == Matches(StrippedLines(file), StrippedLines(before), start)
      one(positions) == IF Cardinality(positions) = 1 THEN At(CHOOSE p \in positions : TRUE)
                        ELSE Ambiguous
  IN IF before = <<>> THEN At(IF start < Len(file) THEN start ELSE Len(file))
     ELSE IF exact # {} THEN one(exact)
     ELSE IF fallback # {} THEN one(fallback)
     ELSE NotFound

Failed == [ok |-> FALSE, file |-> <<>>, from |-> 0]

ApplyLines(file, lines, eof, start) ==
  LET before == Before(lines)
      after == After(lines)
      position == IF eof /\ before = <<>> THEN At(Len(file)) ELSE FindHunkPosition(file, before, start)
      end == position.at + Len(before)
  IN IF ~position.ok \/ (eof /\ end # Len(file)) THEN Failed
     ELSE [ok |-> TRUE,
           file |-> SubSeq(file, 1, position.at) \o after \o SubSeq(file, end + 1, Len(file)),
           from |-> position.at + Len(after)]

\* A space too many before the context lines is tolerated if nothing is found otherwise.
Relaxed(lines) ==
  [k \in DOMAIN lines |->
     IF lines[k][1] = " " /\ lines[k][2][1] > 0
     THEN <<" ", [lines[k][2] EXCEPT ![1] = @ - 1]>> ELSE lines[k]]

ApplyHunk(state, hunk) ==
  LET lines == hunk.lines
      missing == /\ ~(hunk.eof /\ Before(lines) = <<>>)
                 /\ ~FindHunkPosition(state.file, Before(lines), state.from).found
  IN IF ~state.ok THEN state
     ELSE IF missing /\ Relaxed(lines) # lines
     THEN ApplyLines(state.file, Relaxed(lines), hunk.eof, state.from)
     ELSE ApplyLines(state.file, lines, hunk.eof, state.from)

\* "\n".join().
Joined(lines) == IF lines = <<>> THEN EmptyText ELSE lines

\* apply_update(): [ok, text].
ApplyUpdate(text, hunks) ==
  LET ends == EndsWithNewline(text)
      start == [ok |-> TRUE, file |-> IF ends THEN Front(text) ELSE text, from |-> 0]
      end == FoldLeft(ApplyHunk, start, hunks)
      joined == Joined(end.file)
  IN [ok |-> end.ok,
      text |-> IF ends \/ Last(hunks).eof THEN Append(joined, BlankLine) ELSE joined]

\* The text of a file that is added: each of its lines, with a newline.
AddedText(lines) == Append(lines, BlankLine)
=============================================================================
