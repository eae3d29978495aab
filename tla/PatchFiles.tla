----------------------------- MODULE PatchFiles -----------------------------
(***************************************************************************)
(* builtin/apply_patch.py on the files of the workspace.  A call parses    *)
(* its patch, plans every operation against the files as they are, and     *)
(* then commits one operation after the other, each verified once more.    *)
(* It runs in a thread under the agent's filesystem lock, as data_write    *)
(* does; a cancelled call gives the lock back while its thread goes on.    *)
(* Calls may fail in a write or an unlink.  A crash of the process is a    *)
(* state that is not left: the invariants hold in each.                    *)
(***************************************************************************)
EXTENDS PatchText

LOCAL INSTANCE SequencesExt

CONSTANTS
  Paths,      \* resolved paths in the workspace
  Scenarios,  \* what to begin with: the files, and the calls
  MaxFaults   \* bound on failing writes and unlinks

Absent == [absent |-> TRUE]
File(text) == [absent |-> FALSE, text |-> text]

VARIABLES
  scenario,   \* [files, calls], fixed at the start
  disk,       \* the file at each path, or Absent
  pc,         \* where each call is
  ops,        \* the operations of its patch
  plan,       \* what each operation was planned on, and what it will write
  at,         \* the operation it is at
  results,    \* the statuses it reports
  cancels,    \* the calls whose task was cancelled
  lock,       \* the call that holds _filesystem_lock, or 0
  writes,     \* every change of a file: by whom, based on what, over what, beside which
              \* other calls at work, amid whose cancellation
  faults

filesVars == <<scenario, disk, pc, ops, plan, at, results, cancels, lock, writes, faults>>

PathsOf(op) == {op.path, op.move} \ {""}

\* The operations a patch can be parsed into: the paths are resolved, and only an update
\* moves its file.
Operations ==
  {op \in [action : {"add", "update", "delete"}, path : Paths, move : Paths \cup {""},
           content : Seq(Line), hunks : Seq(Hunks)] :
     op.move # "" => op.action = "update"}

ASSUME PathsAssumption == "" \notin Paths
ASSUME ScenariosAssumption ==
  \A s \in Scenarios :
    /\ DOMAIN s.files = Paths /\ \A p \in Paths : s.files[p] = Absent \/ s.files[p].absent = FALSE
    /\ DOMAIN s.calls = 1..Len(s.calls)
    /\ \A a \in DOMAIN s.calls :
         /\ s.calls[a].tool \in {"patch", "write"}
         /\ s.calls[a].tool = "patch" => ParsePatch(s.calls[a].text) \in Seq(Operations)
         /\ s.calls[a].tool = "write" => s.calls[a].path \in Paths
ASSUME FaultsAssumption == MaxFaults \in Nat

Calls == DOMAIN scenario.calls
Call(a) == scenario.calls[a]

Op(a) == ops[a][at[a]]
Plan(a) == plan[a][at[a]]
Target(op) == IF op.move = "" THEN op.path ELSE op.move

FilesInit ==
  \E s \in Scenarios :
    /\ scenario = s /\ disk = s.files
    /\ pc = [a \in DOMAIN s.calls |-> "called"]
    /\ ops = [a \in DOMAIN s.calls |-> <<>>]
    /\ plan = [a \in DOMAIN s.calls |-> <<>>]
    /\ at = [a \in DOMAIN s.calls |-> 1]
    /\ results = [a \in DOMAIN s.calls |-> <<>>]
    /\ cancels = {} /\ lock = 0 /\ writes = {} /\ faults = 0

Returns(a, statuses) ==
  /\ pc' = [pc EXCEPT ![a] = "done"]
  /\ results' = [results EXCEPT ![a] = statuses]
  /\ lock' = IF lock = a THEN 0 ELSE lock

Started(a) ==
  /\ LET parsed == IF Call(a).tool = "write"
                   THEN <<[FileOp("write", Call(a).path) EXCEPT !.content = Call(a).content]>>
                   ELSE ParsePatch(Call(a).text)
     IN /\ ops' = [ops EXCEPT ![a] = parsed]
        /\ IF parsed = <<>> THEN Returns(a, <<>>)
           ELSE /\ pc' = [pc EXCEPT ![a] = IF Call(a).tool = "write" THEN "write" ELSE "plan"]
                /\ lock' = a /\ UNCHANGED results
  /\ UNCHANGED <<scenario, disk, plan, at, cancels, writes, faults>>

\* Mutant: the lock is not waited for.
BeginCallUnlocked(a) == pc[a] = "called" /\ Started(a)

\* The tool takes the lock and its thread begins; a malformed patch ends it.
BeginCall(a) == pc[a] = "called" /\ lock = 0 /\ Started(a)

Touched(a) == UNION {PathsOf(ops[a][k]) : k \in 1..(at[a] - 1)}

\* The plan of the next operation; <<>> if the operation does not fit the files.
Planned(a) ==
  LET op == Op(a)
      old == disk[op.path]
      updated == IF old.absent \/ op.action # "update" THEN Failed ELSE ApplyUpdate(old.text, op.hunks)
  IN IF \/ op.move = op.path \/ PathsOf(op) \cap Touched(a) # {}
        \/ op.action = "add" /\ ~old.absent
        \/ op.action # "add" /\ old.absent
        \/ op.action = "update" /\ (~updated.ok \/ (op.move # "" /\ ~disk[op.move].absent))
     THEN <<>>
     ELSE <<[basis |-> old, content |-> CASE op.action = "add"    -> File(AddedText(op.content))
                                          [] op.action = "update" -> File(updated.text)
                                          [] op.action = "delete" -> Absent]>>

\* One round of _plan_operations().  An operation that cannot be planned ends the call.
PlanOperation(a) ==
  /\ pc[a] = "plan"
  /\ LET planned == Planned(a) IN
       IF planned = <<>>
       THEN /\ Returns(a, [k \in DOMAIN ops[a] |-> IF k = at[a] THEN "failed" ELSE "not applied"])
            /\ UNCHANGED <<plan, at>>
       ELSE /\ plan' = [plan EXCEPT ![a] = @ \o planned]
            /\ IF at[a] < Len(ops[a])
               THEN at' = [at EXCEPT ![a] = @ + 1] /\ UNCHANGED <<pc, results, lock>>
               ELSE /\ at' = [at EXCEPT ![a] = 1]
                    /\ pc' = [pc EXCEPT ![a] = "verify"] /\ UNCHANGED <<results, lock>>
  /\ UNCHANGED <<scenario, disk, ops, cancels, writes, faults>>

\* The operation fails: those before it stay applied, those after it are left out.
Fails(a) ==
  Returns(a, [k \in DOMAIN ops[a] |-> IF k < at[a] THEN "applied"
                                      ELSE IF k = at[a] THEN "failed" ELSE "not applied"])

Applied(a) ==
  IF at[a] = Len(ops[a])
  THEN Returns(a, [k \in DOMAIN ops[a] |-> "applied"]) /\ UNCHANGED at
  ELSE /\ at' = [at EXCEPT ![a] = @ + 1]
       /\ pc' = [pc EXCEPT ![a] = "verify"] /\ UNCHANGED <<results, lock>>

\* _verify_original().
Verify(a) ==
  /\ pc[a] = "verify"
  /\ IF disk[Op(a).path] # Plan(a).basis
     THEN Fails(a)
     ELSE /\ pc' = [pc EXCEPT ![a] = IF Op(a).action = "delete" THEN "unlink"
                                     ELSE IF Op(a).move # "" THEN "destination" ELSE "write"]
          /\ UNCHANGED <<results, lock>>
  /\ UNCHANGED <<scenario, disk, ops, plan, at, cancels, writes, faults>>

\* Mutant: the source is taken away before the destination is written.
CheckDestinationTaking(a) ==
  /\ pc[a] = "destination"
  /\ IF disk[Op(a).move].absent
     THEN /\ pc' = [pc EXCEPT ![a] = "write"] /\ UNCHANGED <<results, lock>>
          /\ disk' = [disk EXCEPT ![Op(a).path] = Absent]
     ELSE Fails(a) /\ UNCHANGED disk
  /\ UNCHANGED <<scenario, ops, plan, at, cancels, writes, faults>>

CheckDestination(a) ==
  /\ pc[a] = "destination"
  /\ IF disk[Op(a).move].absent
     THEN pc' = [pc EXCEPT ![a] = "write"] /\ UNCHANGED <<results, lock>>
     ELSE Fails(a)
  /\ UNCHANGED <<scenario, disk, ops, plan, at, cancels, writes, faults>>

AtWork == {b \in Calls : pc[b] \notin {"called", "done"}}

Changes(a, p, basis) ==
  writes' = writes \cup {[by |-> a, basis |-> basis, over |-> disk[p], beside |-> AtWork \ {a},
                          amid |-> cancels]}

\* write_text_file() replaces the file in one step.
Write(a) ==
  /\ pc[a] = "write" /\ Call(a).tool = "patch"
  /\ LET p == Target(Op(a)) IN
       /\ disk' = [disk EXCEPT ![p] = Plan(a).content]
       /\ Changes(a, p, IF Op(a).move = "" THEN Plan(a).basis ELSE Absent)
  /\ IF Op(a).move # ""
     THEN pc' = [pc EXCEPT ![a] = "unlink"] /\ UNCHANGED <<results, lock, at>>
     ELSE Applied(a)
  /\ UNCHANGED <<scenario, ops, plan, cancels, faults>>

\* A file is deleted, or the source of a file that was moved.
Unlink(a) ==
  /\ pc[a] = "unlink"
  /\ IF disk[Op(a).path].absent
     THEN Fails(a) /\ UNCHANGED <<disk, at, writes>>
     ELSE /\ Applied(a) /\ disk' = [disk EXCEPT ![Op(a).path] = Absent]
          /\ Changes(a, Op(a).path, Plan(a).basis)
  /\ UNCHANGED <<scenario, ops, plan, cancels, faults>>

\* data_write verifies nothing: whatever there is is replaced.
WriteFile(a) ==
  /\ pc[a] = "write" /\ Call(a).tool = "write"
  /\ disk' = [disk EXCEPT ![Op(a).path] = File(Op(a).content)]
  /\ Changes(a, Op(a).path, disk[Op(a).path])
  /\ Returns(a, <<"applied">>)
  /\ UNCHANGED <<scenario, ops, plan, at, cancels, faults>>

IOError(a) ==
  /\ faults < MaxFaults /\ pc[a] \in {"write", "unlink"}
  /\ Fails(a) /\ faults' = faults + 1
  /\ UNCHANGED <<scenario, disk, ops, plan, at, cancels, writes>>

\* The run is cancelled: a call that waits for the lock never begins; the thread of one
\* that has begun is not stopped.
Cancel(a) ==
  /\ pc[a] # "done" /\ a \notin cancels /\ Len(scenario.calls) > 1
  /\ cancels' = cancels \cup {a}
  /\ IF pc[a] = "called" THEN Returns(a, <<>>)
     ELSE lock' = (IF lock = a THEN 0 ELSE lock) /\ UNCHANGED <<pc, results>>
  /\ UNCHANGED <<scenario, disk, ops, plan, at, writes, faults>>

FilesNext ==
  \E a \in Calls :
    \/ BeginCall(a) \/ PlanOperation(a) \/ Verify(a) \/ CheckDestination(a)
    \/ Write(a) \/ Unlink(a) \/ WriteFile(a) \/ IOError(a) \/ Cancel(a)

FilesSpec == FilesInit /\ [][FilesNext]_filesVars

-----------------------------------------------------------------------------
(* What a patch means, and the text that says it. *)

HunkText(hunk) ==
  <<Mark("@@")>> \o [k \in DOMAIN hunk.lines |-> Change(hunk.lines[k][1], hunk.lines[k][2])]
    \o (IF hunk.eof THEN <<Mark("eof")>> ELSE <<>>)

OpText(op) ==
  <<Header(op.action, op.path)>>
    \o (IF op.move = "" THEN <<>> ELSE <<Header("move", op.move)>>)
    \o [k \in DOMAIN op.content |-> Change("+", op.content[k])]
    \o FlattenSeq([k \in DOMAIN op.hunks |-> HunkText(op.hunks[k])])

PatchTextOf(meant) == FlattenSeq([k \in DOMAIN meant |-> OpText(meant[k])])

\* The lines of a text that is not empty, and the text that has them.
LinesOf(text) == IF EndsWithNewline(text) THEN Front(text) ELSE text
TextOf(lines, newline) == IF newline THEN Append(lines, BlankLine) ELSE lines

\* Where hunks are put in a file of n lines, and whether without a leading blank.
Places(n, hunks) == [DOMAIN hunks -> [pos : 0..n, relaxed : BOOLEAN]]
Placed(hunk, place) == IF place.relaxed THEN Relaxed(hunk.lines) ELSE hunk.lines
EndOf(hunks, places, k) ==
  IF k = 0 THEN 0 ELSE places[k].pos + Len(Before(Placed(hunks[k], places[k])))

\* Hunks are in their order and apart from each other, each at the only place it fits, as
\* it is or without trailing or leading blanks.
Fit(old, hunks, places) ==
  \A k \in DOMAIN hunks :
    LET before == Before(Placed(hunks[k], places[k]))
        fragment(p) == SubSeq(old, p + 1, p + Len(before))
        from == EndOf(hunks, places, k - 1)
        end == EndOf(hunks, places, k)
    IN /\ from <= places[k].pos /\ end <= Len(old)
       /\ StrippedLines(fragment(places[k].pos)) = StrippedLines(before)
       /\ before # <<>> =>
            \A p \in from..(Len(old) - Len(before)) : fragment(p) = before => p = places[k].pos
       /\ hunks[k].eof => end = Len(old)

\* old with a fragment replaced for each hunk.
Spliced(old, hunks, places) ==
  FlattenSeq([k \in DOMAIN hunks |->
                SubSeq(old, EndOf(hunks, places, k - 1) + 1, places[k].pos)
                  \o After(Placed(hunks[k], places[k]))])
    \o SubSeq(old, EndOf(hunks, places, Len(hunks)) + 1, Len(old))

\* new is the text of old with hunks spliced in, and ends with a newline if old does or a
\* hunk says where the file ends.  An empty text counts as one blank line, on both sides.
Updated(old, hunks, new) ==
  LET lines == LinesOf(old)
      newline == EndsWithNewline(old) \/ Last(hunks).eof
  IN \E places \in Places(Len(lines), hunks) :
       LET spliced == Spliced(lines, hunks, places)
       IN /\ Fit(lines, hunks, places)
          /\ new = TextOf(IF spliced = <<>> THEN <<BlankLine>> ELSE spliced, newline)

-----------------------------------------------------------------------------
(* Properties *)

Alone == Len(scenario.calls) = 1 /\ Call(1).tool = "patch"

\* A patch that is alone does what its text says.  If every operation is reported as
\* applied, files were added with their content, deleted, or updated by splicing each
\* hunk in at the one place it fits, with the final newline they had; if one is not, and
\* the disk did not fail, no file has changed.  (A file whose lines are all removed keeps
\* a blank line, and an empty one has a blank line for hunks to be put behind.)
AppliedAsMeant ==
  Alone /\ pc[1] = "done" =>
    LET meant == Call(1).meant
        old == scenario.files
        done == Len(results[1]) = Len(meant) /\ \A k \in DOMAIN meant : results[1][k] = "applied"
    IN /\ done => \A k \in DOMAIN meant :
                    LET op == meant[k] new == disk[Target(op)] IN
                      CASE op.action = "add"    -> old[op.path].absent /\ new = File(TextOf(op.content, TRUE))
                        [] op.action = "delete" -> ~old[op.path].absent /\ new.absent
                        [] op.action = "update" -> /\ ~new.absent
                                                   /\ Updated(old[op.path].text, op.hunks, new.text)
                                                   /\ op.move # "" => disk[op.path].absent
       /\ ~done /\ faults = 0 => disk = old

\* Wherever a patch is interrupted, by an error or by the end of the process, a file it
\* has not deleted is there, at its path or, with the new content, where it is moved to;
\* and an operation reported as not applied has not changed its files.
NothingVanishes ==
  Alone /\ ops[1] # <<>> =>
    \A k \in DOMAIN ops[1] :
      LET op == ops[1][k] old == scenario.files[op.path] IN
        /\ ~old.absent /\ op.action = "update" =>
             \/ ~disk[op.path].absent
             \/ op.move # "" /\ disk[op.move] = plan[1][k].content
        /\ pc[1] = "done" /\ results[1][k] = "not applied" =>
             \A p \in PathsOf(op) : disk[p] = scenario.files[p]

\* Only amid a cancelled call, whose thread may go on without the lock, can a patch replace
\* or delete a file that is not the one it was planned on, or one of the tools change a
\* file while another call is at work on its own.
LostOnlyAfterCancel == \A w \in writes : w.over # w.basis \/ w.beside # {} => w.amid # {}
=============================================================================
