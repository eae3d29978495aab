------------------------------ MODULE DialogRun ------------------------------
(***************************************************************************)
(* core/agent/agent.py: Agent.run(), the loop that stores the input of a   *)
(* run, asks the model, delivers and stores its answer, runs its tools and *)
(* asks again, for several runs that share one storage.  Every action ends *)
(* at an await, where the run may be cancelled and where others go on.     *)
(*                                                                         *)
(* The storage is the sequence of dialog items; an item's position is its  *)
(* id and `prev` its previous_item_id, so the items form a forest and the  *)
(* ancestors of an item are the conversation it ends.  A hook, a tool, the *)
(* model, a connector or the storage may fail wherever it is called.       *)
(*                                                                         *)
(* Tools run one after the other, so tool_output_lock is never contended.  *)
(* chain_state is a dictionary with one key, which hooks and tools set.    *)
(* Both SQL storages give every item they store an id.                     *)
(***************************************************************************)
EXTENDS Naturals, Sequences, FiniteSets, SequencesExt, FiniteSetsExt

CONSTANTS
  Runs,       \* the runs
  Origins,    \* the dialogs a run can talk to
  Home,       \* Home[r]: the dialog of the message r answers
  NoOrigin,   \* None: no typing indicator, no switch requested
  Chains,     \* the values hooks and tools store in chain_state
  Empty,      \* the empty chain_state
  Responses,  \* Responses[r][n]: what the model may answer to the n-th question of r
  FollowUps,  \* whether a tool leaves an item to follow its result: {TRUE}, BOOLEAN
  Continues,  \* Continues[r]: the runs whose items r may continue
  Saves,      \* Saves[r]: the values of RunCtx.save for r
  MaxInputs,  \* bound on the input items of a run
  MaxCancels  \* bound on the cancellations of a run

BlockTypes == {"text", "call"}

ASSUME DialogAssumption ==
  /\ NoOrigin \notin Origins
  /\ Home \in [Runs -> Origins]
  /\ Empty \notin Chains
  /\ Responses \in [Runs -> Seq(SUBSET Seq(BlockTypes))]
  /\ Saves \in [Runs -> SUBSET BOOLEAN]
  /\ FollowUps \subseteq BOOLEAN
  /\ Continues \in [Runs -> SUBSET Runs]
  /\ MaxInputs \in Nat /\ MaxCancels \in Nat

VARIABLES
  store,  \* the stored items
  run     \* run[r]: the RunCtx and the local variables of Agent.run()

vars == <<store, run>>

NoItem == 0

\* The awaits at which a run can be suspended, in the order of the body.
Loop == {"ask", "send", "save", "afterLlm", "tool"}
Body == {"input", "before", "retype"} \cup Loop
Places == {"new"} \cup Body \cup {"leave", "error", "final", "done"}
Outcomes == {"none", "returned", "failed", "cancelled"}

NewRun == [
  pc |-> "new",
  saved |-> TRUE,        \* RunCtx.save
  base |-> NoItem,       \* the item the run continues
  inputs |-> 0,          \* input items not stored yet
  origin |-> NoOrigin,   \* RunCtx.origin
  moved |-> NoOrigin,    \* state["new_origin"], set by the tool dialogs_switch
  typing |-> NoOrigin,   \* where the typing indicator is on
  chain |-> Empty,       \* RunCtx.chain_state
  last |-> NoItem,       \* last_item_id, and RunCtx.last_item_id
  tail |-> NoItem,       \* RunCtx.tool_output_tail
  memory |-> <<>>,       \* RunCtx.dialog_items of a run that is not saved
  todo |-> <<>>,         \* items to deliver
  calls |-> <<>>,        \* tool calls to run
  more |-> FALSE,        \* the answer had tool calls
  asks |-> 0,            \* RunCtx.iteration
  made |-> 0,            \* tool calls seen so far, which numbers them
  shown |-> <<>>,        \* what the connector delivered (history)
  outcome |-> "none",    \* how the body ended
  cancels |-> 0,         \* cancellations received (bounded)
  afterRun |-> 0]        \* AFTER_RUN hooks fired (history)

Init ==
  /\ store = <<>>
  /\ run = [r \in Runs |-> NewRun]

At(r, place) == run[r].pc = place
Goto(r, place) == run' = [run EXCEPT ![r].pc = place]

-----------------------------------------------------------------------------
(* The storage                                                             *)

\* An item as sent: its type, its tool call if any, its origin.
Output(type, call, origin) == [type |-> type, call |-> call, origin |-> origin]

Stored(r, item, prev) ==
  [by |-> r, type |-> item.type, call |-> item.call, origin |-> item.origin,
   prev |-> prev, chain |-> run[r].chain]

\* get_branch(): the ids from the root to the given item.
Branch(id) ==
  LET branch[i \in 0..Len(store)] ==
        IF i = NoItem THEN <<>> ELSE Append(branch[store[i].prev], i)
  IN branch[id]

Items(ids) == [n \in DOMAIN ids |-> store[ids[n]]]

\* A result whose call does not come before it.
Orphan(dialog, n) ==
  /\ dialog[n].type = "result"
  /\ \A m \in 1..(n - 1) : dialog[m].type = "call" => dialog[m].call # dialog[n].call

\* _load_dialog(): such results are dropped.
KnownResults(dialog) ==
  LET known[n \in 0..Len(dialog)] ==
        IF n = 0 THEN <<>>
        ELSE IF Orphan(dialog, n) THEN known[n - 1] ELSE Append(known[n - 1], dialog[n])
  IN known[Len(dialog)]

\* Mutant of Dialog: the items of a run that is not saved are forgotten.
StoredDialog(r) == KnownResults(Items(Branch(run[r].last)))

\* _load_run_dialog()
Dialog(r) == KnownResults(Items(Branch(run[r].last))) \o run[r].memory

\* dict.update() on the one key of chain_state
Update(chain, other) == IF other = Empty THEN chain ELSE other

-----------------------------------------------------------------------------
(* Before the loop                                                         *)

\* A run is created for `n` input items that continue the item `base`; only a
\* headless run may have none, and only one that has something to continue.
\* _ensure_started() comes before the try block: if it fails, that is all.
Create(r, base, saved, n) ==
  /\ At(r, "new")
  /\ n = 0 => base # NoItem
  /\ \/ run' = [run EXCEPT ![r] = [NewRun EXCEPT
            !.pc = "input", !.saved = saved, !.base = base, !.inputs = n,
            !.origin = Home[r], !.last = base]]
     \/ run' = [run EXCEPT ![r].pc = "done", ![r].outcome = "failed"]
  /\ UNCHANGED store

\* _store_history(): an item that names a previous item, as submit_run() makes its
\* instructions and prompt name the one the run continues, keeps it; another one is
\* linked to the last item.  Both carry the chain_state the run has so far.
Inputs(r) ==
  LET named == IF run[r].base # NoItem THEN {run[r].base} ELSE {}
  IN {Stored(r, Output("input", <<>>, run[r].origin), prev) :
        prev \in named \cup {run[r].last}}

StoreInput(r) ==
  /\ At(r, "input")
  /\ run[r].inputs > 0
  /\ \E item \in Inputs(r) :
       IF run[r].saved
       THEN /\ store' = Append(store, item)
            /\ run' = [run EXCEPT ![r].inputs = @ - 1, ![r].last = Len(store')]
       ELSE /\ run' = [run EXCEPT ![r].inputs = @ - 1, ![r].memory = Append(@, item)]
            /\ UNCHANGED store

\* _restore_chain_state(): from the last item of the branch that has a "chain"
\* dictionary; every stored item has one.
RestoreChain(r) ==
  /\ At(r, "input")
  /\ run[r].inputs = 0
  /\ run' = [run EXCEPT
       ![r].pc = "before",
       ![r].chain = IF run[r].last = NoItem THEN @ ELSE Update(@, store[run[r].last].chain)]
  /\ UNCHANGED store

\* The BEFORE_RUN hook aborts the run, or sets chain_state and lets it go on to
\* select a model and show that it is typing.
BeforeRun(r) ==
  /\ At(r, "before")
  /\ \/ run' = [run EXCEPT ![r].outcome = "returned", ![r].pc = "final"]
     \/ \E c \in Chains \cup {run[r].chain} :
          run' = [run EXCEPT ![r].chain = c, ![r].typing = run[r].origin, ![r].pc = "ask"]
  /\ UNCHANGED store

-----------------------------------------------------------------------------
(* The loop                                                                *)

\* The run with the locals dropped that nothing reads after the body.
Left(r) == [run[r] EXCEPT !.todo = <<>>, !.calls = <<>>, !.moved = NoOrigin,
                          !.tail = NoItem, !.more = FALSE, !.inputs = 0]

Count(answer, type) == Cardinality({n \in DOMAIN answer : answer[n] = type})

\* Mutant of AskModel: tool_output_tail is not reset.
AskModelKeepingTail(r) ==
  /\ At(r, "ask")
  /\ run[r].asks < Len(Responses[r])
  /\ \E answer \in Responses[r][run[r].asks + 1] :
       LET calls == Count(answer, "call")
       IN run' = [run EXCEPT
            ![r].pc = "send", ![r].asks = @ + 1, ![r].calls = <<>>,
            ![r].todo = [n \in 1..calls |->
                           Output("call", <<r, run[r].made + n>>, run[r].origin)],
            ![r].more = calls > 0, ![r].made = @ + calls]
  /\ UNCHANGED store

\* Load the dialog and ask the model; the tool calls of its answer are put
\* behind everything else (texts are alike here, and calls are numbered).
AskModel(r) ==
  /\ At(r, "ask")
  /\ run[r].asks < Len(Responses[r])
  /\ \E answer \in Responses[r][run[r].asks + 1] :
       LET texts == Count(answer, "text")
           calls == Count(answer, "call")
           text == [n \in 1..texts |-> Output("text", <<>>, run[r].origin)]
           call == [n \in 1..calls |->
                      Output("call", <<r, run[r].made + n>>, run[r].origin)]
       IN run' = [run EXCEPT
            ![r].pc = "send", ![r].asks = @ + 1, ![r].tail = NoItem,
            ![r].todo = text \o call, ![r].calls = <<>>,
            ![r].more = calls > 0, ![r].made = @ + calls]
  /\ UNCHANGED store

\* Mutant of Send: a delivery may be repeated.
SendAgain(r) ==
  /\ At(r, "send")
  /\ run[r].todo # <<>>
  /\ \E place \in {"send", "save"} :
       run' = [run EXCEPT ![r].pc = place,
                          ![r].shown = Append(@, [type |-> Head(run[r].todo).type,
                                                  call |-> Head(run[r].todo).call])]
  /\ UNCHANGED store

\* _send_and_store_item(): BEFORE_SEND and connector.send() ...
Send(r) ==
  /\ At(r, "send")
  /\ run[r].todo # <<>>
  /\ run' = [run EXCEPT ![r].pc = "save",
                        ![r].shown = Append(@, [type |-> Head(run[r].todo).type,
                                                call |-> Head(run[r].todo).call])]
  /\ UNCHANGED store

\* ... storage.save_event(), connector.publish_item() and AFTER_SEND, whose hook
\* apply_new_origin moves the run to the dialog the model has switched to.  A
\* failure after the item was stored is one at the next await.
Save(r) ==
  LET head == Head(run[r].todo)
      rest == Tail(run[r].todo)
      item == Stored(r, head, run[r].last)
      fromTool == head.type \in {"result", "followUp"}
      last == IF run[r].saved THEN Len(store) + 1 ELSE run[r].last
  IN /\ At(r, "save")
     /\ store' = IF run[r].saved THEN Append(store, item) ELSE store
     /\ run' = [run EXCEPT
          ![r].last = last,
          ![r].memory = IF run[r].saved THEN @ ELSE Append(@, item),
          ![r].todo = rest,
          ![r].calls = IF head.type = "call" THEN Append(@, head.call) ELSE @,
          ![r].tail = IF fromTool /\ rest = <<>> THEN last ELSE @,
          ![r].origin = IF run[r].moved # NoOrigin THEN run[r].moved ELSE @,
          ![r].moved = NoOrigin,
          ![r].pc = IF rest # <<>> THEN "send" ELSE IF fromTool THEN "tool" ELSE "afterLlm"]

\* Parse the structured output, fire AFTER_LLM_CALL and validate the answer.
\* An answer may have no blocks at all.
AfterLlm(r) ==
  /\ \/ At(r, "afterLlm")
     \/ At(r, "send") /\ run[r].todo = <<>>
  /\ Goto(r, "tool")
  /\ UNCHANGED store

\* _run_tool_lifecycle(): the hooks and the tool itself, which may set
\* chain_state, switch the dialog and leave items to follow the result.
RunTool(r) ==
  /\ At(r, "tool")
  /\ run[r].calls # <<>>
  /\ \E c \in Chains \cup {run[r].chain}, o \in Origins \cup {NoOrigin}, more \in FollowUps :
       LET result == Output("result", Head(run[r].calls), run[r].origin)
           follow == Output("followUp", <<>>, run[r].origin)
       IN run' = [run EXCEPT
            ![r].pc = "send",
            ![r].calls = Tail(@),
            ![r].chain = c,
            ![r].moved = IF o = NoOrigin THEN @ ELSE o,
            ![r].last = IF run[r].tail # NoItem THEN run[r].tail ELSE @,
            ![r].todo = IF more THEN <<result, follow>> ELSE <<result>>]
  /\ UNCHANGED store

\* Mutants of EndIteration: it does not wait for the tools; it does not look
\* whether the run has moved.
EndIterationEarly(r) ==
  /\ At(r, "tool")
  /\ run' = IF ~run[r].more
            THEN [run EXCEPT ![r] = [Left(r) EXCEPT !.outcome = "returned", !.pc = "leave"]]
            ELSE [run EXCEPT ![r].pc = IF run[r].typing = run[r].origin THEN "ask" ELSE "retype"]
  /\ UNCHANGED store

\* After the last tool: return the answer, or ask again, from the dialog the
\* run has moved to.
EndIteration(r) ==
  /\ At(r, "tool")
  /\ run[r].calls = <<>>
  /\ run' = IF ~run[r].more
            THEN [run EXCEPT ![r] = [Left(r) EXCEPT !.outcome = "returned", !.pc = "leave"]]
            ELSE [run EXCEPT ![r].pc = IF run[r].typing = run[r].origin THEN "ask" ELSE "retype"]
  /\ UNCHANGED store

\* Leave the typing context of the old dialog and enter that of the new one.
Retype(r) ==
  /\ At(r, "retype")
  /\ run' = [run EXCEPT ![r].typing = run[r].origin, ![r].pc = "ask"]
  /\ UNCHANGED store

-----------------------------------------------------------------------------
(* The end                                                                 *)

\* Something the body awaits raises an exception.
Fail(r) ==
  /\ run[r].pc \in Body
  /\ run' = [run EXCEPT ![r] = [Left(r) EXCEPT
       !.outcome = "failed",
       !.pc = IF @ \in Loop THEN "leave" ELSE "error",
       !.typing = IF At(r, "retype") THEN NoOrigin ELSE @]]
  /\ UNCHANGED store

\* task.cancel(): CancelledError at the current await.  A save_event() it hits
\* may have inserted the item, an exit from typing may not have happened; in
\* the finally block it prevents what has not been done yet.
Cancel(r) ==
  /\ run[r].pc \notin {"new", "done"}
  /\ run[r].cancels < MaxCancels
  /\ \E typing \in {run[r].typing} \cup (IF run[r].pc \in {"retype", "leave"} THEN {NoOrigin} ELSE {}) :
       run' = [run EXCEPT ![r] = [Left(r) EXCEPT
         !.cancels = @ + 1, !.outcome = "cancelled", !.typing = typing,
         !.pc = IF @ \in Loop THEN "leave"
                ELSE IF @ \in Body \cup {"leave", "error"} THEN "final" ELSE "done"]]
  /\ \/ UNCHANGED store
     \/ /\ At(r, "save") /\ run[r].saved
        /\ store' = Append(store, Stored(r, Head(run[r].todo), run[r].last))
     \/ /\ At(r, "input") /\ run[r].saved /\ run[r].inputs > 0
        /\ \E item \in Inputs(r) : store' = Append(store, item)

\* The inner finally: typing_context.__aexit__(), which may itself fail.
LeaveTyping(r) ==
  /\ At(r, "leave")
  /\ \/ run' = [run EXCEPT ![r].typing = NoOrigin,
                           ![r].pc = IF run[r].outcome = "failed" THEN "error" ELSE "final"]
     \/ run' = [run EXCEPT ![r].typing = NoOrigin, ![r].outcome = "failed", ![r].pc = "error"]
  /\ UNCHANGED store

\* Mutant of HandleError: the error is raised past the finally block.
HandleErrorAbruptly(r) ==
  /\ At(r, "error")
  /\ Goto(r, "done")
  /\ UNCHANGED store

\* _handle_error(): the ON_ERROR hook, which may suppress the error.
HandleError(r) ==
  /\ At(r, "error")
  /\ Goto(r, "final")
  /\ UNCHANGED store

\* The outer finally: load the dialog of the run, whatever that raises, and fire
\* AFTER_RUN.
AfterRun(r) ==
  /\ At(r, "final")
  /\ run' = [run EXCEPT ![r].pc = "done", ![r].afterRun = @ + 1]
  /\ UNCHANGED store

-----------------------------------------------------------------------------
\* A message or a headless submission continues any item there is, or none.
Created(r) ==
  LET bases == {NoItem} \cup {i \in DOMAIN store : store[i].by \in Continues[r]}
  IN \E base \in bases, saved \in Saves[r], n \in 0..MaxInputs : Create(r, base, saved, n)

Step(r) ==
  \/ StoreInput(r) \/ RestoreChain(r) \/ BeforeRun(r)
  \/ AskModel(r) \/ Send(r) \/ Save(r) \/ AfterLlm(r) \/ RunTool(r)
  \/ EndIteration(r) \/ Retype(r)
  \/ Fail(r) \/ LeaveTyping(r) \/ HandleError(r) \/ AfterRun(r)

Next == \E r \in Runs : Created(r) \/ Step(r) \/ Cancel(r)

Spec == Init /\ [][Next]_vars

-----------------------------------------------------------------------------
(* Properties                                                              *)

OutputTypes == {"text", "call", "result", "followUp"}
Own(r) == {i \in DOMAIN store : store[i].by = r}

\* The state is what the code's annotations say it is.
TypeOK ==
  /\ \A i \in DOMAIN store :
       /\ store[i].by \in Runs /\ store[i].type \in OutputTypes \cup {"input"}
       /\ store[i].prev \in 0..(i - 1)
       /\ store[i].origin \in Origins /\ store[i].chain \in Chains \cup {Empty}
  /\ \A r \in Runs :
       /\ run[r].pc \in Places /\ run[r].outcome \in Outcomes
       /\ {run[r].base, run[r].last, run[r].tail} \subseteq 0..Len(store)
       /\ {run[r].origin, run[r].moved, run[r].typing} \subseteq Origins \cup {NoOrigin}
       /\ run[r].chain \in Chains \cup {Empty}

\* builtin/self_extension/guides/runtime.md:59: the results are stored in a
\* sequence "so branch links remain valid".  Everything a run stores after its
\* input is one path of the forest that starts at its last input or at the item
\* it continues, whatever other runs store in between.
OutputsFormOnePath ==
  \A r \in Runs : \A i \in Own(r) :
    store[i].type # "input" =>
      LET before == {j \in Own(r) : j < i}
      IN store[i].prev = IF before = {} THEN run[r].base ELSE Max(before)

\* Before each question the outputs of the run in the dialog the model gets are those
\* the user has been shown by this run, all of them and in the same order, saved or not.
ModelSeesWhatUserSaw ==
  \A r \in Runs : At(r, "ask") =>
    LET dialog == Dialog(r)
        own == {n \in DOMAIN dialog : dialog[n].by = r /\ dialog[n].type \in OutputTypes}
    IN /\ Cardinality(own) = Len(run[r].shown)
       /\ \A n \in own : [type |-> dialog[n].type, call |-> dialog[n].call]
                           = run[r].shown[Cardinality({m \in own : m <= n})]

\* Before each question every tool call of the run has exactly one result.
CallsAreAnswered ==
  \A r \in Runs : At(r, "ask") =>
    \A n \in 1..run[r].made :
      Cardinality({m \in DOMAIN run[r].shown :
        run[r].shown[m] = [type |-> "result", call |-> <<r, n>>]}) = 1

\* What a run has shown and what it has stored differ by the last item at most,
\* also when it failed or was cancelled between the two.
HistoryIsWhatWasShown ==
  \A r \in Runs : run[r].saved =>
    LET stored == Cardinality({i \in Own(r) : store[i].type # "input"})
    IN Len(run[r].shown) \in {stored, stored + 1}

\* builtin/self_extension/guides/runtime.md:54: after_run "runs for both
\* successful and failed runs".  It runs once, and only a cancellation that
\* hits the end of a run takes the run to its end without it.
AfterRunRuns ==
  [][\A r \in Runs :
       /\ run'[r].afterRun <= 1
       /\ (run[r].pc \notin {"new", "done"} /\ run'[r].pc = "done") =>
            run'[r].afterRun = 1 \/ run'[r].cancels > run[r].cancels]_vars

=============================================================================
