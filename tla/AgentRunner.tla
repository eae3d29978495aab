----------------------------- MODULE AgentRunner -----------------------------
(***************************************************************************)
(* core/agent/runner.py: AgentRunner, the table of run tasks that decides  *)
(* which runs of an agent are in progress, together with the callers of    *)
(* submit(): connectors and HTTP handlers (Clients) and runs whose tools   *)
(* submit further runs (Tasks themselves).                                 *)
(*                                                                         *)
(* One action is one stretch of code between two awaits.  submit() runs    *)
(* without interruption up to its only await, that of the task it replaces *)
(* (replaced[c]); a caller that wants the result then awaits the new task  *)
(* (result[c]).  Between the end of a task and its done-callback other     *)
(* code runs, and a cancelled task runs its cleanup as long as it likes.   *)
(***************************************************************************)
CONSTANTS
  Keys,     \* the run keys: namespace, dialog origin and user
  Tasks,    \* the runs, one per submission
  Clients,  \* the callers of submit() that are not runs
  NoTask,   \* None
  KeyOf,    \* KeyOf[t]: the key under which t is submitted
  Targets   \* Targets[c]: the keys under which the code of c submits runs

Callers == Clients \cup Tasks

ASSUME RunnerAssumption ==
  /\ NoTask \notin Tasks
  /\ Clients \cap Tasks = {}
  /\ KeyOf \in [Tasks -> Keys]
  /\ Targets \in [Callers -> SUBSET Keys]

VARIABLES
  tasks,      \* AgentRunner._tasks: key -> Task, NoTask for an absent key
  status,     \* where each run is in its life, see Statuses
  cancelled,  \* the tasks with task.cancelling() > 0
  raised,     \* the tasks that ended with CancelledError
  replaced,   \* the replaced task a submit() of the caller awaits, or NoTask
  result,     \* the submitted task the caller waits for, or NoTask
  gathering   \* the tasks a stop() in progress awaits

vars == <<tasks, status, cancelled, raised, replaced, result, gathering>>

(***************************************************************************)
(* "unborn": not submitted yet; "closed": refused, its coroutine closed;   *)
(* "scheduled": create_task has queued its first step; "running": its body *)
(* is at some await; "unwinding": a CancelledError is on its way through   *)
(* the body's cleanup; "finished": task.done(), but the done-callback is   *)
(* still in the loop's queue; "retired": the callback has run.             *)
(***************************************************************************)
Statuses == {"unborn", "closed", "scheduled", "running", "unwinding",
             "finished", "retired"}

Live == {t \in Tasks : status[t] \in {"scheduled", "running", "unwinding"}}

TypeOK ==
  /\ tasks \in [Keys -> Tasks \cup {NoTask}]
  /\ status \in [Tasks -> Statuses]
  /\ cancelled \subseteq Tasks
  /\ raised \subseteq Tasks
  /\ replaced \in [Callers -> Tasks \cup {NoTask}]
  /\ result \in [Callers -> Tasks \cup {NoTask}]
  /\ gathering \subseteq Tasks

Init ==
  /\ tasks = [k \in Keys |-> NoTask]
  /\ status = [t \in Tasks |-> "unborn"]
  /\ cancelled = {}
  /\ raised = {}
  /\ replaced = [c \in Callers |-> NoTask]
  /\ result = [c \in Callers |-> NoTask]
  /\ gathering = {}

-----------------------------------------------------------------------------
(* Waiting and cancelling                                                  *)

\* The task the caller is suspended on: a Task's _fut_waiter.
Awaited(c) == IF replaced[c] # NoTask THEN replaced[c] ELSE result[c]

\* A caller that can run: a client outside submit(), a run inside its body.
Free(c) ==
  /\ Awaited(c) = NoTask
  /\ c \in Tasks => status[c] = "running"

\* The tasks Task.cancel() on the tasks of S reaches: it hands the request on
\* to the task its target is suspended on.
AwaitClosed(S) == \A t \in S : Awaited(t) # NoTask => Awaited(t) \in S

Reached(S) ==
  LET closed == {R \in SUBSET Tasks : S \subseteq R /\ AwaitClosed(R)}
  IN {t \in Tasks : \A R \in closed : t \in R}

\* The bodies in which CancelledError is raised at once: those suspended on
\* something else than a task, or on a result that is there but not yet taken.
Interruptible ==
  {t \in Tasks : /\ status[t] = "running"
                 /\ replaced[t] = NoTask
                 /\ result[t] \notin Live}

\* The status after Task.cancel() on the tasks of S from the code of `self`,
\* which goes on to its own next await.
Interrupted(S, self) ==
  LET hit == (Reached(S) \cap Interruptible) \ {self}
  IN [t \in Tasks |-> IF t \in hit THEN "unwinding" ELSE status[t]]

-----------------------------------------------------------------------------
(* submit()                                                                *)

\* The task of the key that is not done yet, as a set.
ActiveTask(k) == {tasks[k]} \cap Live

\* Mutant of Replace: the old task loses its entry but is not cancelled.
ReplaceUncancelled(c, t, wait) ==
  LET old == ActiveTask(KeyOf[t])
  IN /\ Free(c)
     /\ status[t] = "unborn"
     /\ KeyOf[t] \in Targets[c]
     /\ old = {c} \/ c \notin Reached(old)
     /\ tasks' = [tasks EXCEPT ![KeyOf[t]] = t]
     /\ status' = [status EXCEPT ![t] = "scheduled"]
     /\ replaced' = [replaced EXCEPT ![c] = IF old \in {{}, {c}} THEN NoTask
                                            ELSE tasks[KeyOf[t]]]
     /\ result' = [result EXCEPT ![c] = IF wait THEN t ELSE NoTask]
     /\ UNCHANGED <<cancelled, raised, gathering>>

\* Pop the entry, create the new task and register it, cancel the old task if
\* it is not done and wait for it.  A run that replaces itself cannot await
\* itself: the exception this raises is swallowed and submit() returns.
\* Not modelled: a run that displaces a run which waits for it, where asyncio
\* hands the cancellation round in a circle.
Replace(c, t, wait) ==
  LET old == ActiveTask(KeyOf[t])
  IN /\ Free(c)
     /\ status[t] = "unborn"
     /\ KeyOf[t] \in Targets[c]
     /\ old = {c} \/ c \notin Reached(old)
     /\ tasks' = [tasks EXCEPT ![KeyOf[t]] = t]
     /\ status' = [Interrupted(old, c) EXCEPT ![t] = "scheduled"]
     /\ cancelled' = cancelled \cup (Reached(old) \cap Live)
     /\ replaced' = [replaced EXCEPT ![c] = IF old \in {{}, {c}} THEN NoTask
                                            ELSE tasks[KeyOf[t]]]
     /\ result' = [result EXCEPT ![c] = IF wait THEN t ELSE NoTask]
     /\ UNCHANGED <<raised, gathering>>

\* Mutants of Refuse: the task is created before the conflict is looked for;
\* the caller goes on to wait for the run that was refused.
RefuseTooLate(c, t) ==
  /\ Free(c)
  /\ status[t] = "unborn"
  /\ KeyOf[t] \in Targets[c]
  /\ status' = [status EXCEPT ![t] = "scheduled"]
  /\ UNCHANGED <<tasks, cancelled, raised, replaced, result, gathering>>

RefuseAndWait(c, t) ==
  /\ Free(c)
  /\ status[t] = "unborn"
  /\ KeyOf[t] \in Targets[c]
  /\ status' = [status EXCEPT ![t] = "closed"]
  /\ result' = [result EXCEPT ![c] = t]
  /\ UNCHANGED <<tasks, cancelled, raised, replaced, gathering>>

\* conflict_policy="skip" while the task of the key is not done, or an unknown
\* policy: the coroutine is closed and the caller gets None or ValueError.
Refuse(c, t) ==
  /\ Free(c)
  /\ status[t] = "unborn"
  /\ KeyOf[t] \in Targets[c]
  /\ status' = [status EXCEPT ![t] = "closed"]
  /\ UNCHANGED <<tasks, cancelled, raised, replaced, result, gathering>>

Submit(c, t, policy, wait) ==
  \/ /\ \/ policy = "replace"
        \/ policy = "skip" /\ ActiveTask(KeyOf[t]) = {}
     /\ Replace(c, t, wait)
  \/ /\ \/ policy = "skip" /\ ActiveTask(KeyOf[t]) # {}
        \/ policy \notin {"replace", "skip"}
     /\ Refuse(c, t)

\* `await old_task` ends with the old task.  Whatever it raises is swallowed,
\* the CancelledError of the caller's own cancellation included.
SubmitReturns(c) ==
  /\ replaced[c] # NoTask
  /\ status[replaced[c]] = "retired"
  /\ replaced' = [replaced EXCEPT ![c] = NoTask]
  /\ UNCHANGED <<tasks, status, cancelled, raised, result, gathering>>

\* `await task` of the submitter: the CancelledError of the task is raised in
\* the run that waits for it; a client only hears of it.
ResultArrives(c) ==
  /\ replaced[c] = NoTask
  /\ result[c] # NoTask
  /\ status[result[c]] = "retired"
  /\ c \in Tasks => status[c] = "running"
  /\ result' = [result EXCEPT ![c] = NoTask]
  /\ status' = IF c \in Tasks /\ result[c] \in raised
               THEN [status EXCEPT ![c] = "unwinding"] ELSE status
  /\ UNCHANGED <<tasks, cancelled, raised, replaced, gathering>>

-----------------------------------------------------------------------------
(* The tasks, run by the event loop                                        *)

\* The first step of a task: a task cancelled before it never runs its body.
Begin(t) ==
  /\ status[t] = "scheduled"
  /\ IF t \in cancelled
     THEN /\ status' = [status EXCEPT ![t] = "finished"]
          /\ raised' = raised \cup {t}
     ELSE /\ status' = [status EXCEPT ![t] = "running"]
          /\ UNCHANGED raised
  /\ UNCHANGED <<tasks, cancelled, replaced, result, gathering>>

\* The body returns or raises an error of its own.
Finish(t) ==
  /\ t \in Tasks
  /\ Free(t)
  /\ status' = [status EXCEPT ![t] = "finished"]
  /\ UNCHANGED <<tasks, cancelled, raised, replaced, result, gathering>>

\* The cleanup of a cancelled body ends: with the CancelledError, or with an
\* error the cleanup raised in its place.
Unwind(t) ==
  /\ status[t] = "unwinding"
  /\ status' = [status EXCEPT ![t] = "finished"]
  /\ raised' \in {raised, raised \cup {t}}
  /\ result' = [result EXCEPT ![t] = NoTask]
  /\ UNCHANGED <<tasks, cancelled, replaced, gathering>>

\* Mutants of DoneCallback: without the identity test the callback of a
\* displaced task pops its successor; without the pop the entry stays.
DoneCallbackUnchecked(t) ==
  /\ status[t] = "finished"
  /\ status' = [status EXCEPT ![t] = "retired"]
  /\ tasks' = [tasks EXCEPT ![KeyOf[t]] = NoTask]
  /\ UNCHANGED <<cancelled, raised, replaced, result, gathering>>

DoneCallbackNoPop(t) ==
  /\ status[t] = "finished"
  /\ status' = [status EXCEPT ![t] = "retired"]
  /\ UNCHANGED <<tasks, cancelled, raised, replaced, result, gathering>>

\* The done-callback removes the entry of the key if it is still this task.
DoneCallback(t) ==
  /\ status[t] = "finished"
  /\ status' = [status EXCEPT ![t] = "retired"]
  /\ tasks' = [tasks EXCEPT ![KeyOf[t]] = IF @ = t THEN NoTask ELSE @]
  /\ UNCHANGED <<cancelled, raised, replaced, result, gathering>>

\* A client is cancelled while it waits in submit() or for the result: an HTTP
\* stream its user cancels, a listener that is stopped.
CancelClient(c) ==
  LET S == {Awaited(c)} \cap Tasks
  IN /\ c \in Clients
     /\ S # {}
     /\ status' = Interrupted(S, c)
     /\ cancelled' = cancelled \cup (Reached(S) \cap Live)
     /\ UNCHANGED <<tasks, raised, replaced, result, gathering>>

-----------------------------------------------------------------------------
(* stop()                                                                  *)

\* The tasks of the table, finished ones whose callback is pending included.
Registered == {tasks[k] : k \in Keys} \ {NoTask}

\* Copy and clear the table, cancel what is not done, and gather.
StopBegins ==
  /\ gathering = {}
  /\ Registered # {}
  /\ gathering' = Registered
  /\ tasks' = [k \in Keys |-> NoTask]
  /\ status' = Interrupted(Registered \cap Live, NoTask)
  /\ cancelled' = cancelled \cup (Reached(Registered \cap Live) \cap Live)
  /\ UNCHANGED <<raised, replaced, result>>

\* gather() wakes up after the last of the tasks is done.
StopReturns ==
  /\ gathering # {}
  /\ \A t \in gathering : status[t] = "retired"
  /\ gathering' = {}
  /\ UNCHANGED <<tasks, status, cancelled, raised, replaced, result>>

-----------------------------------------------------------------------------
Policies == {"replace", "skip", "unsupported"}

\* What the event loop does by itself with the tasks there are.
LoopStep ==
  \/ \E c \in Callers : SubmitReturns(c) \/ ResultArrives(c)
  \/ \E t \in Tasks : Begin(t) \/ Finish(t) \/ Unwind(t) \/ DoneCallback(t)
  \/ StopReturns

\* asyncio names the tasks, so which of the unborn ones is next is immaterial.
Unborn(k) == {t \in Tasks : KeyOf[t] = k /\ status[t] = "unborn"}

Next ==
  \/ \E c \in Callers, k \in Keys, p \in Policies, w \in BOOLEAN :
       Unborn(k) # {} /\ Submit(c, CHOOSE t \in Unborn(k) : TRUE, p, w)
  \/ \E c \in Clients : CancelClient(c)
  \/ StopBegins
  \/ LoopStep

Spec == Init /\ [][Next]_vars

\* The event loop goes on as long as something is ready, and the body of a run
\* ends: its calls of models, tools and connectors return or time out.
FairSpec == Spec /\ WF_vars(LoopStep)

-----------------------------------------------------------------------------
(* Properties                                                              *)

\* A run in progress that nobody has cancelled is the one registered under its
\* key, so a key never has two of them: submit() cancels what it displaces, and
\* the done-callback of a displaced run leaves its successor's entry alone.
OneCurrentRun ==
  \A t \in Live \ cancelled : tasks[KeyOf[t]] = t

\* The table never names a task whose done-callback has run: an entry that
\* outlived its task would make every later "skip" or stop() act on a ghost.
NoGhostEntry ==
  \A k \in Keys : tasks[k] # NoTask =>
    /\ KeyOf[tasks[k]] = k
    /\ tasks[k] \in Live \/ status[tasks[k]] = "finished"

\* Whoever is suspended in submit() on a replaced run waits for a run that has
\* been cancelled and has lost its entry, so the wait is for a cleanup only.
WaitsForDisplacedRun ==
  \A c \in Callers : replaced[c] # NoTask =>
    /\ replaced[c] \in cancelled
    /\ \A k \in Keys : tasks[k] # replaced[c]

\* The runner implements the abstract slots: the run in progress of a key is
\* the registered one, as long as it is neither done nor cancelled.
CurrentRun ==
  [k \in Keys |-> IF tasks[k] \in Live \ cancelled THEN tasks[k] ELSE NoTask]

Accepted == {t \in Tasks : status[t] \notin {"unborn", "closed"}}

Slots == INSTANCE RunSlots WITH slot <- CurrentRun, used <- Accepted

ImplementsSlots == Slots!SlotsSpec

\* No caller stays in submit() or with its result for ever, and a stop() that
\* has begun returns, whatever was replaced, refused or cancelled meanwhile.
EveryWaitEnds ==
  /\ \A c \in Callers : Awaited(c) # NoTask ~> Awaited(c) = NoTask
  /\ gathering # {} ~> gathering = {}

=============================================================================
