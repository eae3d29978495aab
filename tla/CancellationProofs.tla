------------------------- MODULE CancellationProofs -------------------------
(***************************************************************************)
(* Theorems about what is cancelled.  First the runs of an agent           *)
(* (AgentRunner), for any number of keys, clients and runs, and any        *)
(* interleaving of replacements, cancellations and callbacks; then the     *)
(* calls of the file tools those runs make (PatchFiles), for any files,    *)
(* patches, calls and failures.                                            *)
(***************************************************************************)
EXTENDS AgentRunner, PatchFiles, TLAPS

-----------------------------------------------------------------------------
(* AgentRunner: the inductive invariant                                    *)

\* Only a run that was accepted is ever cancelled.
CancelledWasAccepted ==
  \A t \in cancelled : status[t] \notin {"unborn", "closed"}

\* The inductive invariant.  The conjuncts lean on each other: a displaced run
\* keeps its successor's entry only because entries carry their key, and it
\* stays out of the table only because it can never be submitted again.
IInv ==
  /\ TypeOK
  /\ OneCurrentRun
  /\ NoGhostEntry
  /\ WaitsForDisplacedRun
  /\ CancelledWasAccepted

-----------------------------------------------------------------------------
(* What Task.cancel() does to the statuses                                 *)

\* A cancellation reaches at least the tasks it is called on, and tasks only.
LEMMA ReachedBounds ==
  ASSUME NEW S \in SUBSET Tasks
  PROVE  S \subseteq Reached(S) /\ Reached(S) \subseteq Tasks
BY DEF Reached

\* A cancellation turns running bodies into unwinding ones and changes no other
\* status.
LEMMA InterruptedFacts ==
  ASSUME TypeOK, NEW S \in SUBSET Tasks, NEW self
  PROVE  /\ Interrupted(S, self) \in [Tasks -> Statuses]
         /\ \A t \in Tasks :
              \/ Interrupted(S, self)[t] = status[t]
              \/ status[t] = "running" /\ Interrupted(S, self)[t] = "unwinding"
<1> DEFINE hit == (Reached(S) \cap Interruptible) \ {self}
<1>1. Interrupted(S, self) = [t \in Tasks |-> IF t \in hit THEN "unwinding" ELSE status[t]]
  BY DEF Interrupted
<1>2. \A t \in hit : status[t] = "running"
  BY DEF Interruptible
<1> QED
  BY <1>1, <1>2 DEF TypeOK, Statuses

\* So it neither ends a run nor brings one to life.
LEMMA SameLife ==
  ASSUME TypeOK, NEW S \in SUBSET Tasks, NEW self, NEW st,
         st = Interrupted(S, self)
  PROVE  /\ st \in [Tasks -> Statuses]
         /\ \A t \in Tasks : st[t] \in {"scheduled", "running", "unwinding"} <=> t \in Live
         /\ \A t \in Tasks, s \in {"unborn", "closed", "scheduled", "finished", "retired"} :
              st[t] = s <=> status[t] = s
BY InterruptedFacts DEF Live, TypeOK, Statuses

-----------------------------------------------------------------------------
(* Each action preserves the invariant                                     *)

LEMMA InitIInv == Init => IInv
BY RunnerAssumption DEF Init, IInv, TypeOK, OneCurrentRun, NoGhostEntry, WaitsForDisplacedRun,
   CancelledWasAccepted, Statuses, Live, Callers

LEMMA ReplaceIInv ==
  ASSUME IInv, NEW c \in Callers, NEW t \in Tasks, NEW w \in BOOLEAN, Replace(c, t, w)
  PROVE  IInv'
<1> DEFINE old == ActiveTask(KeyOf[t])
           st == Interrupted(old, c)
<1>1. old \in SUBSET Tasks /\ old \subseteq Live /\ old \subseteq {tasks[KeyOf[t]]}
  BY DEF ActiveTask, Live
<1>2. old \subseteq Reached(old) /\ Reached(old) \subseteq Tasks
  BY <1>1, ReachedBounds
<1>3. /\ st \in [Tasks -> Statuses]
      /\ \A u \in Tasks : st[u] \in {"scheduled", "running", "unwinding"} <=> u \in Live
      /\ \A u \in Tasks, s \in {"unborn", "closed", "scheduled", "finished", "retired"} :
           st[u] = s <=> status[u] = s
  BY <1>1, SameLife DEF IInv
<1>4. /\ KeyOf[t] \in Keys
      /\ status[t] = "unborn"
      /\ tasks' = [tasks EXCEPT ![KeyOf[t]] = t]
      /\ status' = [st EXCEPT ![t] = "scheduled"]
      /\ cancelled' = cancelled \cup (Reached(old) \cap Live)
      /\ replaced' = [replaced EXCEPT ![c] = IF old \in {{}, {c}} THEN NoTask
                                             ELSE tasks[KeyOf[t]]]
      /\ result' = [result EXCEPT ![c] = IF w THEN t ELSE NoTask]
      /\ raised' = raised /\ gathering' = gathering
  BY RunnerAssumption DEF Replace
<1>5. TypeOK'
  BY <1>2, <1>3, <1>4 DEF IInv, TypeOK, Statuses
<1>6. Live' = Live \cup {t} /\ t \notin Live
  BY <1>3, <1>4 DEF Live, IInv, TypeOK
<1>7. OneCurrentRun'
  BY <1>1, <1>2, <1>4, <1>6 DEF OneCurrentRun, ActiveTask, IInv, TypeOK, Live
<1>8. NoGhostEntry'
  BY <1>3, <1>4, <1>6 DEF NoGhostEntry, IInv, TypeOK
<1>9. CancelledWasAccepted'
  <2>1. \A u \in cancelled : u # t
    BY <1>4 DEF IInv, CancelledWasAccepted
  <2> QED
    BY <1>3, <1>4, <2>1 DEF CancelledWasAccepted, IInv, TypeOK, Live
<1>10. WaitsForDisplacedRun'
  <2> SUFFICES ASSUME NEW d \in Callers, replaced'[d] # NoTask
               PROVE  /\ replaced'[d] \in cancelled'
                      /\ \A k \in Keys : tasks'[k] # replaced'[d]
    BY DEF WaitsForDisplacedRun
  <2>1. CASE replaced'[d] = replaced[d]
    BY <1>4, <2>1 DEF WaitsForDisplacedRun, CancelledWasAccepted, IInv, TypeOK
  <2>2. CASE replaced'[d] # replaced[d]
    <3>1. replaced'[d] = tasks[KeyOf[t]] /\ old = {tasks[KeyOf[t]]}
      BY <1>1, <1>4, <2>2 DEF IInv, TypeOK
    <3>2. replaced'[d] \in cancelled' /\ replaced'[d] # t
      <4> HIDE DEF old
      <4>1. tasks[KeyOf[t]] \in Reached(old) \cap Live
        BY <1>1, <1>2, <3>1
      <4>2. t \notin Live
        BY <1>4 DEF Live
      <4>3. cancelled' = cancelled \cup (Reached(old) \cap Live)
        BY <1>4
      <4>4. tasks[KeyOf[t]] \in cancelled' /\ tasks[KeyOf[t]] # t
        BY <4>1, <4>2, <4>3
      <4> QED
        BY <3>1, <4>4
    <3>3. \A k \in Keys : tasks[k] = replaced'[d] => k = KeyOf[t]
      BY <1>4, <3>1 DEF NoGhostEntry, IInv
    <3>4. ASSUME NEW k \in Keys PROVE tasks'[k] # replaced'[d]
      BY <1>4, <3>2, <3>3 DEF IInv, TypeOK
    <3> QED
      BY <3>2, <3>4
  <2> QED BY <2>1, <2>2
<1> QED
  BY <1>5, <1>7, <1>8, <1>9, <1>10 DEF IInv

LEMMA RefuseIInv ==
  ASSUME IInv, NEW c \in Callers, NEW t \in Tasks, Refuse(c, t)
  PROVE  IInv'
<1>1. /\ status[t] = "unborn"
      /\ status' = [status EXCEPT ![t] = "closed"]
      /\ UNCHANGED <<tasks, cancelled, raised, replaced, result, gathering>>
  BY DEF Refuse
<1>2. Live' = Live /\ t \notin Live
  BY <1>1 DEF Live, IInv, TypeOK
<1>3. TypeOK'
  BY <1>1 DEF IInv, TypeOK, Statuses
<1>4. OneCurrentRun' /\ WaitsForDisplacedRun'
  BY <1>1, <1>2 DEF OneCurrentRun, WaitsForDisplacedRun, IInv
<1>5. NoGhostEntry' /\ CancelledWasAccepted'
  BY <1>1, <1>2 DEF NoGhostEntry, CancelledWasAccepted, IInv, TypeOK
<1> QED
  BY <1>3, <1>4, <1>5 DEF IInv

LEMMA SubmitReturnsIInv ==
  ASSUME IInv, NEW c \in Callers, SubmitReturns(c)
  PROVE  IInv'
<1>1. /\ replaced' = [replaced EXCEPT ![c] = NoTask]
      /\ UNCHANGED <<tasks, status, cancelled, raised, result, gathering>>
  BY DEF SubmitReturns
<1> QED
  BY <1>1 DEF IInv, TypeOK, OneCurrentRun, NoGhostEntry, WaitsForDisplacedRun,
     CancelledWasAccepted, Live

LEMMA ResultArrivesIInv ==
  ASSUME IInv, NEW c \in Callers, ResultArrives(c)
  PROVE  IInv'
<1>1. /\ result' = [result EXCEPT ![c] = NoTask]
      /\ \/ status' = status
         \/ c \in Tasks /\ status[c] = "running" /\ status' = [status EXCEPT ![c] = "unwinding"]
      /\ UNCHANGED <<tasks, cancelled, raised, replaced, gathering>>
  BY DEF ResultArrives
<1>2. Live' = Live
  BY <1>1 DEF Live, IInv, TypeOK
<1>3. TypeOK'
  BY <1>1 DEF IInv, TypeOK, Statuses
<1>4. OneCurrentRun' /\ WaitsForDisplacedRun'
  BY <1>1, <1>2 DEF OneCurrentRun, WaitsForDisplacedRun, IInv
<1>5. NoGhostEntry' /\ CancelledWasAccepted'
  BY <1>1, <1>2 DEF NoGhostEntry, CancelledWasAccepted, IInv, TypeOK
<1> QED
  BY <1>3, <1>4, <1>5 DEF IInv

\* The first step of a task, the end of its body and the end of its cleanup.
LEMMA TaskStepIInv ==
  ASSUME IInv, NEW t \in Tasks, Begin(t) \/ Finish(t) \/ Unwind(t)
  PROVE  IInv'
<1>1. /\ status[t] \in {"scheduled", "running", "unwinding"}
      /\ \E s \in {"running", "finished"} : status' = [status EXCEPT ![t] = s]
      /\ raised' \in {raised, raised \cup {t}}
      /\ result' \in {result, [result EXCEPT ![t] = NoTask]}
      /\ UNCHANGED <<tasks, cancelled, replaced, gathering>>
  BY DEF Begin, Finish, Unwind, Free
<1>2. TypeOK'
  BY <1>1 DEF IInv, TypeOK, Statuses, Callers
<1>3. Live' \subseteq Live /\ \A u \in Live : u \in Live' \/ status'[u] = "finished"
  BY <1>1 DEF Live, IInv, TypeOK
<1>4. OneCurrentRun' /\ WaitsForDisplacedRun'
  BY <1>1, <1>3 DEF OneCurrentRun, WaitsForDisplacedRun, IInv
<1>5. NoGhostEntry'
  BY <1>1, <1>3 DEF NoGhostEntry, IInv, TypeOK
<1>6. CancelledWasAccepted'
  BY <1>1 DEF CancelledWasAccepted, IInv, TypeOK
<1> QED
  BY <1>2, <1>4, <1>5, <1>6 DEF IInv

LEMMA DoneCallbackIInv ==
  ASSUME IInv, NEW t \in Tasks, DoneCallback(t)
  PROVE  IInv'
<1>1. /\ KeyOf[t] \in Keys
      /\ status[t] = "finished"
      /\ status' = [status EXCEPT ![t] = "retired"]
      /\ tasks' = [tasks EXCEPT ![KeyOf[t]] = IF tasks[KeyOf[t]] = t THEN NoTask
                                             ELSE tasks[KeyOf[t]]]
      /\ UNCHANGED <<cancelled, raised, replaced, result, gathering>>
  BY RunnerAssumption DEF DoneCallback
<1>2. Live' = Live /\ t \notin Live
  BY <1>1 DEF Live, IInv, TypeOK
<1>3. \A k \in Keys : tasks'[k] = (IF tasks[k] = t THEN NoTask ELSE tasks[k])
  BY <1>1, RunnerAssumption DEF IInv, TypeOK, NoGhostEntry
<1>4. TypeOK'
  BY <1>1 DEF IInv, TypeOK, Statuses
<1>5. OneCurrentRun'
  BY <1>1, <1>2, <1>3, RunnerAssumption DEF OneCurrentRun, IInv, Live
<1>6. WaitsForDisplacedRun'
  BY <1>1, <1>3 DEF WaitsForDisplacedRun, IInv
<1>7. NoGhostEntry'
  BY <1>1, <1>2, <1>3 DEF NoGhostEntry, IInv, TypeOK
<1>8. CancelledWasAccepted'
  BY <1>1 DEF CancelledWasAccepted, IInv, TypeOK
<1> QED
  BY <1>4, <1>5, <1>6, <1>7, <1>8 DEF IInv

\* A cancellation from outside, and the cancellations of stop().
LEMMA CancellationIInv ==
  ASSUME IInv, NEW S \in SUBSET Tasks, NEW self,
         status' = Interrupted(S, self),
         cancelled' = cancelled \cup (Reached(S) \cap Live),
         raised' = raised, replaced' = replaced, result' = result,
         \/ tasks' = tasks /\ gathering' = gathering
         \/ /\ tasks' = [k \in Keys |-> NoTask]
            /\ gathering' \subseteq Tasks
            /\ Registered \cap Live \subseteq S
  PROVE  IInv'
<1>1. S \subseteq Reached(S) /\ Reached(S) \subseteq Tasks
  BY ReachedBounds
<1>2. /\ status' \in [Tasks -> Statuses]
      /\ \A u \in Tasks : status'[u] \in {"scheduled", "running", "unwinding"} <=> u \in Live
      /\ \A u \in Tasks, s \in {"unborn", "closed", "scheduled", "finished", "retired"} :
           status'[u] = s <=> status[u] = s
  BY SameLife DEF IInv
<1>3. Live' = Live
  BY <1>2 DEF Live
<1>4. TypeOK'
  BY <1>1, <1>2 DEF IInv, TypeOK
<1>5. OneCurrentRun'
  <2> SUFFICES ASSUME NEW t \in Live, t \notin cancelled'
               PROVE  tasks'[KeyOf[t]] = t
    BY <1>3 DEF OneCurrentRun
  <2>1. tasks[KeyOf[t]] = t /\ KeyOf[t] \in Keys /\ t \in Tasks
    BY RunnerAssumption DEF OneCurrentRun, IInv, Live
  <2>2. t \in Registered
    BY <2>1, RunnerAssumption DEF Registered
  <2> QED
    BY <1>1, <2>1, <2>2
<1>6. NoGhostEntry'
  BY <1>2, <1>3 DEF NoGhostEntry, IInv, TypeOK
<1>7. WaitsForDisplacedRun'
  BY DEF WaitsForDisplacedRun, IInv, TypeOK
<1>8. CancelledWasAccepted'
  BY <1>2 DEF CancelledWasAccepted, IInv, TypeOK, Live
<1> QED
  BY <1>4, <1>5, <1>6, <1>7, <1>8 DEF IInv

LEMMA StepIInv == IInv /\ [Next]_vars => IInv'
<1> SUFFICES ASSUME IInv, [Next]_vars PROVE IInv'
  OBVIOUS
<1>1. ASSUME NEW c \in Callers, NEW t \in Tasks, NEW p \in Policies, NEW w \in BOOLEAN,
             Submit(c, t, p, w)
      PROVE  IInv'
  BY <1>1, ReplaceIInv, RefuseIInv DEF Submit
<1>2. ASSUME NEW c \in Clients, CancelClient(c) PROVE IInv'
  <2> DEFINE S == {Awaited(c)} \cap Tasks
  <2>1. /\ status' = Interrupted(S, c)
        /\ cancelled' = cancelled \cup (Reached(S) \cap Live)
        /\ UNCHANGED <<tasks, raised, replaced, result, gathering>>
    BY <1>2 DEF CancelClient
  <2>2. S \in SUBSET Tasks
    OBVIOUS
  <2> HIDE DEF S
  <2> QED
    BY <2>1, <2>2, CancellationIInv
<1>3. CASE StopBegins
  <2> DEFINE S == Registered \cap Live
  <2>1. /\ status' = Interrupted(S, NoTask)
        /\ cancelled' = cancelled \cup (Reached(S) \cap Live)
        /\ tasks' = [k \in Keys |-> NoTask]
        /\ gathering' \subseteq Tasks
        /\ UNCHANGED <<raised, replaced, result>>
    BY <1>3 DEF StopBegins, Registered, IInv, TypeOK
  <2>2. S \in SUBSET Tasks /\ Registered \cap Live \subseteq S
    BY DEF Live
  <2> HIDE DEF S
  <2> QED
    BY <2>1, <2>2, CancellationIInv
<1>4. CASE StopReturns
  BY <1>4 DEF StopReturns, IInv, TypeOK, OneCurrentRun, NoGhostEntry, WaitsForDisplacedRun,
     CancelledWasAccepted, Live
<1>5. CASE UNCHANGED vars
  BY <1>5 DEF vars, IInv, TypeOK, OneCurrentRun, NoGhostEntry, WaitsForDisplacedRun,
     CancelledWasAccepted, Live
<1>6. ASSUME NEW c \in Callers, SubmitReturns(c) \/ ResultArrives(c) PROVE IInv'
  BY <1>6, SubmitReturnsIInv, ResultArrivesIInv
<1>7. ASSUME NEW t \in Tasks, Begin(t) \/ Finish(t) \/ Unwind(t) \/ DoneCallback(t) PROVE IInv'
  BY <1>7, TaskStepIInv, DoneCallbackIInv
<1>8. ASSUME NEW k \in Keys, Unborn(k) # {}
      PROVE  (CHOOSE t \in Unborn(k) : TRUE) \in Tasks
  BY <1>8 DEF Unborn
<1> QED
  BY <1>1, <1>2, <1>3, <1>4, <1>5, <1>6, <1>7, <1>8 DEF Next, LoopStep

LEMMA Invariant == Spec => []IInv
BY InitIInv, StepIInv, PTL DEF Spec

-----------------------------------------------------------------------------
(* The theorems                                                            *)

\* The table maps keys to tasks or nothing, and every caller awaits at most a
\* replaced run and a result: the types hold in every reachable state.
THEOREM TypeCorrect == Spec => []TypeOK
BY Invariant, PTL DEF IInv

\* A run in progress that nobody has cancelled is the one registered under its
\* key: no key ever has two current runs, however submissions, ends, delayed
\* done-callbacks, cancellations and stops interleave.
THEOREM CurrentRunIsUnique == Spec => []OneCurrentRun
BY Invariant, PTL DEF IInv

\* The table never names a task that has been cleaned up, or under another key.
THEOREM TableIsFresh == Spec => []NoGhostEntry
BY Invariant, PTL DEF IInv

\* A submit() that waits, waits for a run that is cancelled and out of the table.
THEOREM WaitIsForCleanup == Spec => []WaitsForDisplacedRun
BY Invariant, PTL DEF IInv

-----------------------------------------------------------------------------
(* The runner implements RunSlots                                          *)

\* A step that accepts no run and gives no slot a new run empties some slots.
LEMMA VacatingStep ==
  ASSUME \A k \in Keys : CurrentRun'[k] \in {NoTask, CurrentRun[k]},
         Accepted' = Accepted
  PROVE  Slots!SlotsNext
<1> DEFINE K == {k \in Keys : CurrentRun'[k] = NoTask}
<1>1. Slots!Vacate(K)
  BY DEF Slots!Vacate, CurrentRun
<1> QED
  BY <1>1 DEF Slots!SlotsNext

LEMMA ReplaceOccupies ==
  ASSUME IInv, NEW c \in Callers, NEW t \in Tasks, NEW w \in BOOLEAN, Replace(c, t, w)
  PROVE  Slots!SlotsNext
<1> DEFINE old == ActiveTask(KeyOf[t])
           st == Interrupted(old, c)
           K == {k \in Keys : CurrentRun'[k] = NoTask}
<1>1. old \in SUBSET Tasks
  BY DEF ActiveTask, Live
<1>2. /\ st \in [Tasks -> Statuses]
      /\ \A u \in Tasks : st[u] \in {"scheduled", "running", "unwinding"} <=> u \in Live
      /\ \A u \in Tasks, s \in {"unborn", "closed", "scheduled", "finished", "retired"} :
           st[u] = s <=> status[u] = s
  BY <1>1, SameLife DEF IInv
<1>3. /\ KeyOf[t] \in Keys
      /\ status[t] = "unborn"
      /\ tasks' = [tasks EXCEPT ![KeyOf[t]] = t]
      /\ status' = [st EXCEPT ![t] = "scheduled"]
      /\ cancelled' = cancelled \cup (Reached(old) \cap Live)
  BY RunnerAssumption DEF Replace
<1> HIDE DEF old, st
<1>4. Live' = Live \cup {t} /\ t \notin Live /\ t \notin cancelled
  BY <1>2, <1>3 DEF Live, IInv, TypeOK, CancelledWasAccepted
<1>5. CurrentRun'[KeyOf[t]] = t
  BY <1>3, <1>4 DEF CurrentRun, IInv, TypeOK
<1>6. ASSUME NEW k \in Keys, k # KeyOf[t]
      PROVE  CurrentRun'[k] \in {NoTask, CurrentRun[k]}
  <2>1. tasks'[k] = tasks[k] /\ tasks[k] # t
    BY <1>3, <1>4, <1>6, RunnerAssumption DEF IInv, TypeOK, NoGhostEntry
  <2> QED
    BY <1>3, <1>4, <2>1 DEF CurrentRun
<1>7. Accepted' = Accepted \cup {t} /\ t \notin Accepted
  BY <1>2, <1>3 DEF Accepted, IInv, TypeOK
<1>8. Slots!Occupy(KeyOf[t], t, K)
  <2>1. CurrentRun' = [j \in Keys |-> IF j = KeyOf[t] THEN t
                                    ELSE IF j \in K THEN NoTask
                                    ELSE CurrentRun[j]]
    BY <1>5, <1>6 DEF CurrentRun
  <2> QED
    BY <1>7, <2>1 DEF Slots!Occupy
<1>9. K \in SUBSET Keys
  OBVIOUS
<1> QED
  BY <1>3, <1>8, <1>9 DEF Slots!SlotsNext

\* Every other step keeps each entry or clears it, ends runs or leaves them, and
\* only adds cancellations.
LEMMA OtherStepsVacate ==
  ASSUME IInv, [Next]_vars,
         ~ \E c \in Callers, t \in Tasks, w \in BOOLEAN : Replace(c, t, w)
  PROVE  Slots!SlotsNext
<1> SUFFICES /\ \A k \in Keys : tasks'[k] \in {NoTask, tasks[k]}
             /\ Live' \subseteq Live
             /\ cancelled \subseteq cancelled'
             /\ Accepted' = Accepted
  BY VacatingStep DEF CurrentRun
<1>1. ASSUME NEW c \in Callers, NEW t \in Tasks, Refuse(c, t)
      PROVE  UNCHANGED <<tasks, cancelled>> /\ Live' = Live /\ Accepted' = Accepted
  BY <1>1 DEF Refuse, Live, Accepted, IInv, TypeOK
<1>2. ASSUME NEW S \in SUBSET Tasks, NEW self, status' = Interrupted(S, self)
      PROVE  Live' = Live /\ Accepted' = Accepted
  BY <1>2, SameLife DEF Live, Accepted, IInv
<1>3. ASSUME NEW c \in Clients, CancelClient(c)
      PROVE  /\ UNCHANGED tasks /\ cancelled \subseteq cancelled'
             /\ Live' = Live /\ Accepted' = Accepted
  BY <1>2, <1>3 DEF CancelClient
<1>4. CASE StopBegins
  <2>1. Registered \cap Live \in SUBSET Tasks
    BY DEF Live
  <2> QED
    BY <1>2, <1>4, <2>1 DEF StopBegins
<1>5. ASSUME NEW c \in Callers, SubmitReturns(c) \/ ResultArrives(c)
      PROVE  UNCHANGED <<tasks, cancelled>> /\ Live' = Live /\ Accepted' = Accepted
  BY <1>5 DEF SubmitReturns, ResultArrives, Live, Accepted, IInv, TypeOK
<1>6. ASSUME NEW t \in Tasks, Begin(t) \/ Finish(t) \/ Unwind(t)
      PROVE  UNCHANGED <<tasks, cancelled>> /\ Live' \subseteq Live /\ Accepted' = Accepted
  BY <1>6 DEF Begin, Finish, Unwind, Free, Live, Accepted, IInv, TypeOK
<1>7. ASSUME NEW t \in Tasks, DoneCallback(t)
      PROVE  /\ \A k \in Keys : tasks'[k] \in {NoTask, tasks[k]}
             /\ UNCHANGED cancelled /\ Live' = Live /\ Accepted' = Accepted
  BY <1>7, RunnerAssumption DEF DoneCallback, Live, Accepted, IInv, TypeOK
<1>8. CASE StopReturns \/ UNCHANGED vars
  BY <1>8 DEF StopReturns, vars, Live, Accepted
<1>9. ASSUME NEW k \in Keys, Unborn(k) # {}
      PROVE  (CHOOSE t \in Unborn(k) : TRUE) \in Tasks
  BY <1>9 DEF Unborn
<1> QED
  BY <1>1, <1>3, <1>4, <1>5, <1>6, <1>7, <1>8, <1>9 DEF Next, LoopStep, Submit

\* AgentRunner implements RunSlots: seen through its current runs, the table is
\* a set of slots that are taken once by each run and then only vacated.
THEOREM RefinesSlots == Spec => ImplementsSlots
<1>1. Init => Slots!SlotsInit
  BY RunnerAssumption DEF Init, Slots!SlotsInit, CurrentRun, Accepted, Live
<1>2. IInv /\ [Next]_vars => [Slots!SlotsNext]_(Slots!slotVars)
  BY ReplaceOccupies, OtherStepsVacate
<1> QED
  BY <1>1, <1>2, Invariant, PTL DEF Spec, ImplementsSlots, Slots!SlotsSpec

-----------------------------------------------------------------------------
(* PatchFiles: the inductive invariant                                     *)

Committing == {"verify", "destination", "write", "unlink"}
Busy(a) == pc[a] \in {"plan"} \cup Committing
Patches(a) == Call(a).tool = "patch"

IsFile(f) == f = Absent \/ f.absent = FALSE
IsSeq(s) == s \in Seq({s[k] : k \in DOMAIN s})

\* How far a call has come with its operations, and with the plans for them: it is at
\* the n-th of theirs.
Stands(call, where, theirs, n, plans) ==
  /\ where \in {"called", "plan", "done"} \cup Committing
  /\ n \in Nat /\ (where \in {"plan"} \cup Committing => n \in 1 .. Len(theirs))
  /\ IsSeq(plans)
  /\ where = "called" => theirs = <<>> /\ plans = <<>> /\ n = 1
  /\ call.tool = "patch" =>
       /\ theirs \in Seq(Operations) /\ Len(plans) <= Len(theirs)
       /\ where = "plan" => Len(plans) = n - 1
       /\ where \in Committing => Len(plans) = Len(theirs)
       /\ where = "destination" => theirs[n].move # ""
       /\ where = "write" => theirs[n].action # "delete"
       /\ where = "unlink" => theirs[n].action = "delete" \/ theirs[n].move # ""
       /\ \A k \in 1 .. Len(plans) :
            /\ IsFile(plans[k].content)
            /\ theirs[k].action = "update" => plans[k].content.absent = FALSE
            /\ theirs[k].move # theirs[k].path
  /\ call.tool # "patch" => /\ where \in {"called", "write", "done"}
                            /\ where = "write" => theirs[n].path \in Paths
CallOK(a) == Stands(Call(a), pc[a], ops[a], at[a], plan[a])

FilesOK ==
  /\ scenario \in Scenarios
  /\ DOMAIN disk = Paths /\ \A p \in Paths : IsFile(disk[p])
  /\ DOMAIN pc = Calls /\ DOMAIN ops = Calls /\ DOMAIN plan = Calls
  /\ DOMAIN at = Calls /\ DOMAIN results = Calls
  /\ \A a \in Calls : CallOK(a)

\* Until a call is cancelled, the one that is busy has the lock, ...
Exclusive == cancels = {} => \A a \in Calls : Busy(a) => lock = a

\* ... so what it has verified is still so when it writes, and when it deletes.
Verified(a) ==
  /\ pc[a] \in {"destination", "write", "unlink"} => disk[Op(a).path] = Plan(a).basis
  /\ pc[a] = "write" /\ Op(a).move # "" => disk[Op(a).move] = Absent
Checked == cancels = {} => \A a \in Calls : Patches(a) => Verified(a)

\* The operations of a patch that is alone, while it is carried out: those it has planned
\* are about different files, those behind it are done, those before it untouched.
Untouched(k) == \A p \in PathsOf(ops[1][k]) : disk[p] = scenario.files[p]
Arrived(k) ==
  ops[1][k].action = "update" =>
    IF ops[1][k].move = "" THEN disk[ops[1][k].path].absent = FALSE
    ELSE disk[ops[1][k].move] = plan[1][k].content
Apart ==
  \A j, k \in 1 .. Len(plan[1]) : j # k => PathsOf(ops[1][j]) \cap PathsOf(ops[1][k]) = {}
Halfway == pc[1] = "unlink" /\ Op(1).action = "update"

Progress ==
  /\ pc[1] \in {"called", "plan"} => \A p \in Paths : disk[p] = scenario.files[p]
  /\ Apart
  /\ pc[1] \in Committing => \A k \in 1 .. Len(ops[1]) :
       IF k < at[1] \/ (k = at[1] /\ Halfway) THEN Arrived(k) ELSE Untouched(k)
  /\ pc[1] = "done" => \A k \in 1 .. Len(ops[1]) :
       /\ Untouched(k) \/ Arrived(k)
       /\ results[1][k] = "not applied" => Untouched(k)

FilesInv ==
  FilesOK /\ Exclusive /\ Checked /\ LostOnlyAfterCancel /\ (Alone => Progress)

-----------------------------------------------------------------------------
(* PatchFiles: operations and plans                                        *)

LEMMA OperationFacts ==
  ASSUME NEW op \in Operations
  PROVE  /\ op.path \in Paths /\ op.path \in PathsOf(op) /\ PathsOf(op) \subseteq Paths
         /\ op.move # "" => op.move \in PathsOf(op) /\ op.action = "update"
         /\ Target(op) \in PathsOf(op)
         /\ op.action \in {"add", "update", "delete"}
  BY PathsAssumption DEF Operations, PathsOf, Target

LEMMA AppendPlan ==
  ASSUME NEW s, IsSeq(s), NEW e
  PROVE  /\ IsSeq(s \o <<e>>) /\ Len(s) \in Nat /\ Len(s \o <<e>>) = Len(s) + 1
         /\ (s \o <<e>>)[Len(s) + 1] = e
         /\ \A k \in 1 .. Len(s) : (s \o <<e>>)[k] = s[k]
<1> DEFINE S == {s[k] : k \in DOMAIN s} \cup {e}
           t == s \o <<e>>
           T == {t[k] : k \in DOMAIN t}
<1>1. s \in Seq(S) /\ <<e>> \in Seq(S)
  BY DEF IsSeq
<1> HIDE DEF S
<1>2. /\ t \in Seq(S) /\ Len(s) \in Nat /\ Len(t) = Len(s) + 1 /\ t[Len(s) + 1] = e
      /\ \A k \in 1 .. Len(s) : t[k] = s[k]
  BY <1>1
<1> HIDE DEF t
<1>3. t \in Seq(T)
  BY <1>2
<1> QED BY <1>2, <1>3 DEF IsSeq, t

LEMMA ScenarioFacts ==
  ASSUME FilesOK
  PROVE  /\ \A a \in Calls : /\ Patches(a) \/ Call(a).tool = "write"
                             /\ Patches(a) => ParsePatch(Call(a).text) \in Seq(Operations)
                             /\ ~Patches(a) => Call(a).path \in Paths
         /\ Calls = 1 .. Len(scenario.calls)
         /\ DOMAIN scenario.files = Paths /\ \A p \in Paths : IsFile(scenario.files[p])
  BY ScenariosAssumption DEF FilesOK, Calls, Call, Patches, IsFile

LEMMA BusyFacts ==
  ASSUME FilesOK, NEW a \in Calls, Busy(a), Patches(a)
  PROVE  /\ Op(a) \in Operations /\ ops[a] \in Seq(Operations)
         /\ at[a] \in 1 .. Len(ops[a]) /\ Len(ops[a]) \in Nat
         /\ DOMAIN ops[a] = 1 .. Len(ops[a])
         /\ pc[a] \in Committing => IsFile(Plan(a).content)
<1>1. CallOK(a) /\ ops[a] \in Seq(Operations)
  BY DEF FilesOK, CallOK, Stands, Patches
<1>2. at[a] \in 1 .. Len(ops[a]) /\ Len(ops[a]) \in Nat /\ DOMAIN ops[a] = 1 .. Len(ops[a])
  <2>1. at[a] \in 1 .. Len(ops[a])
    BY <1>1 DEF CallOK, Stands, Busy
  <2> QED BY <1>1, <2>1
<1>3. Op(a) \in Operations
  BY <1>1, <1>2 DEF Op
<1> QED BY <1>1, <1>2, <1>3 DEF CallOK, Stands, Plan, Patches, Committing

LEMMA PlannedFacts ==
  ASSUME FilesOK, NEW a \in Calls, pc[a] = "plan", Patches(a), Planned(a) # <<>>
  PROVE  \E content :
           /\ Planned(a) = <<[basis |-> disk[Op(a).path], content |-> content]>>
           /\ IsFile(content) /\ (Op(a).action = "update" => content.absent = FALSE)
           /\ Op(a).move # Op(a).path
           /\ PathsOf(Op(a)) \cap Touched(a) = {}
<1> DEFINE op == Op(a)
           old == disk[op.path]
           updated == IF old.absent \/ op.action # "update" THEN Failed
                      ELSE ApplyUpdate(old.text, op.hunks)
           content == CASE op.action = "add"    -> File(AddedText(op.content))
                        [] op.action = "update" -> File(updated.text)
                        [] op.action = "delete" -> Absent
<1>1. /\ Planned(a) = <<[basis |-> old, content |-> content]>>
      /\ op.move # op.path /\ PathsOf(op) \cap Touched(a) = {}
  BY DEF Planned
<1>2. op.action \in {"add", "update", "delete"}
  BY BusyFacts, OperationFacts DEF Busy
<1> HIDE DEF updated, op
<1>3. IsFile(content) /\ (op.action = "update" => content.absent = FALSE)
  BY <1>2 DEF IsFile, File
<1> QED BY <1>1, <1>3 DEF op

-----------------------------------------------------------------------------
(* PatchFiles: a step of one call leaves the others where they are         *)

Frame(a) ==
  /\ scenario' = scenario /\ cancels \subseteq cancels'
  /\ DOMAIN pc' = Calls /\ DOMAIN ops' = Calls /\ DOMAIN plan' = Calls
  /\ DOMAIN at' = Calls /\ DOMAIN results' = Calls
  /\ \A b \in Calls : b # a =>
       /\ pc'[b] = pc[b] /\ ops'[b] = ops[b] /\ plan'[b] = plan[b]
       /\ at'[b] = at[b] /\ results'[b] = results[b]

LEMMA OthersKept ==
  ASSUME FilesOK, NEW a \in Calls, Frame(a), CallOK(a)',
         DOMAIN disk' = Paths, \A p \in Paths : IsFile(disk'[p])
  PROVE  FilesOK'
<1>1. ASSUME NEW b \in Calls PROVE CallOK(b)'
  <2>1. CASE b # a
    <3>1. CallOK(b)
      BY DEF FilesOK
    <3> QED BY <2>1, <3>1 DEF Frame, CallOK, Call
  <2> QED BY <2>1
<1>2. Calls' = Calls
  BY DEF Frame, Calls
<1> QED BY <1>1, <1>2 DEF FilesOK, Frame

LEMMA StepFrame ==
  ASSUME FilesOK, NEW a \in Calls,
         \/ BeginCall(a) \/ PlanOperation(a) \/ Verify(a) \/ CheckDestination(a)
         \/ Write(a) \/ Unlink(a) \/ WriteFile(a) \/ IOError(a) \/ Cancel(a)
  PROVE  Frame(a)
<1> USE DEF FilesOK, Frame
<1>1. CASE BeginCall(a)
  BY <1>1 DEF BeginCall, Started, Returns
<1>2. CASE PlanOperation(a)
  BY <1>2 DEF PlanOperation, Returns
<1>3. CASE Verify(a)
  BY <1>3 DEF Verify, Fails, Returns
<1>4. CASE CheckDestination(a)
  BY <1>4 DEF CheckDestination, Fails, Returns
<1>5. CASE Write(a)
  BY <1>5 DEF Write, Applied, Returns
<1>6. CASE Unlink(a)
  BY <1>6 DEF Unlink, Fails, Applied, Returns
<1>7. CASE WriteFile(a)
  BY <1>7 DEF WriteFile, Returns
<1>8. CASE IOError(a)
  BY <1>8 DEF IOError, Fails, Returns
<1>9. CASE Cancel(a)
  BY <1>9 DEF Cancel, Returns
<1> QED BY <1>1, <1>2, <1>3, <1>4, <1>5, <1>6, <1>7, <1>8, <1>9

-----------------------------------------------------------------------------
(* PatchFiles: every call keeps account of its operations                  *)

LEMMA ReturnOK ==
  ASSUME FilesOK, NEW a \in Calls, Frame(a), pc'[a] = "done",
         UNCHANGED <<ops, plan, at>>,
         DOMAIN disk' = Paths, \A p \in Paths : IsFile(disk'[p])
  PROVE  FilesOK'
<1>1. CallOK(a) /\ Call(a)' = Call(a)
  BY DEF FilesOK, Frame, Call
<1>2. CallOK(a)'
  BY <1>1 DEF CallOK, Stands, Committing
<1> QED BY <1>2, OthersKept

LEMMA BeginOK ==
  ASSUME FilesOK, NEW a \in Calls, BeginCall(a)
  PROVE  FilesOK'
<1> DEFINE parsed == IF Call(a).tool = "write"
                     THEN <<[FileOp("write", Call(a).path) EXCEPT !.content = Call(a).content]>>
                     ELSE ParsePatch(Call(a).text)
<1>1. /\ Frame(a) /\ disk' = disk /\ plan' = plan /\ at' = at /\ ops' = [ops EXCEPT ![a] = parsed]
      /\ pc' = [pc EXCEPT ![a] = IF parsed = <<>> THEN "done"
                                 ELSE IF Call(a).tool = "write" THEN "write" ELSE "plan"]
  <2>1. Frame(a)
    BY StepFrame
  <2>2. Started(a)
    BY DEF BeginCall
  <2> HIDE DEF parsed
  <2>3. parsed = <<>> \/ parsed # <<>>
    OBVIOUS
  <2> QED BY <2>1, <2>2 DEF Started, Returns, parsed
<1>2. /\ ops[a] = <<>> /\ plan[a] = <<>> /\ at[a] = 1 /\ IsSeq(plan[a]) /\ Call(a)' = Call(a)
      /\ DOMAIN ops = Calls /\ DOMAIN pc = Calls
  BY <1>1 DEF FilesOK, CallOK, Stands, BeginCall, Frame, Call
<1>3. CASE Call(a).tool = "write"
  <2> DEFINE op == [FileOp("write", Call(a).path) EXCEPT !.content = Call(a).content]
  <2>1. parsed = <<op>> /\ op.path = Call(a).path /\ Call(a).path \in Paths
    BY <1>3, ScenarioFacts DEF FileOp, Patches
  <2> HIDE DEF op, parsed
  <2>2. parsed # <<>> /\ Len(parsed) = 1 /\ parsed[1] = op
    BY <2>1
  <2>3. pc'[a] = "write" /\ ops'[a] = parsed
    BY <1>1, <1>2, <1>3, <2>2
  <2>4. Stands(Call(a), "write", parsed, 1, <<>>)
    BY <1>2, <1>3, <2>1, <2>2 DEF Stands, Committing
  <2>5. CallOK(a)'
    BY <1>1, <1>2, <2>3, <2>4 DEF CallOK
  <2> QED BY <1>1, <2>5, OthersKept DEF FilesOK
<1>4. CASE Call(a).tool # "write"
  <2>1. parsed = ParsePatch(Call(a).text) /\ Call(a).tool = "patch" /\ parsed \in Seq(Operations)
    BY <1>4, ScenarioFacts DEF Patches
  <2> HIDE DEF parsed
  <2>2. ops'[a] = parsed /\ pc'[a] = IF parsed = <<>> THEN "done" ELSE "plan"
    BY <1>1, <1>2, <1>4
  <2>3. Len(parsed) \in Nat /\ (parsed # <<>> => 1 \in 1 .. Len(parsed)) /\ Len(<<>>) = 0
    BY <2>1
  <2>4. Stands(Call(a), IF parsed = <<>> THEN "done" ELSE "plan", parsed, 1, <<>>)
    BY <1>2, <2>1, <2>3 DEF Stands, Committing
  <2>5. CallOK(a)'
    BY <1>1, <1>2, <2>2, <2>4 DEF CallOK
  <2> QED BY <1>1, <2>5, OthersKept DEF FilesOK
<1> QED BY <1>3, <1>4

\* What an operation that can be planned adds to the plan.
LEMMA PlanStep ==
  ASSUME FilesOK, NEW a \in Calls, PlanOperation(a)
  PROVE  /\ Frame(a) /\ Patches(a) /\ UNCHANGED <<disk, ops, cancels, writes>>
         /\ \/ /\ pc'[a] = "done" /\ UNCHANGED <<plan, at>>
               /\ results'[a] = [k \in DOMAIN ops[a] |-> IF k = at[a] THEN "failed" ELSE "not applied"]
            \/ \E e : /\ plan'[a] = plan[a] \o <<e>> /\ lock' = lock
                      /\ IsFile(e.content) /\ (Op(a).action = "update" => e.content.absent = FALSE)
                      /\ Op(a).move # Op(a).path
                      /\ PathsOf(Op(a)) \cap Touched(a) = {}
                      /\ IF at[a] < Len(ops[a]) THEN pc'[a] = "plan" /\ at'[a] = at[a] + 1
                         ELSE pc'[a] = "verify" /\ at'[a] = 1
<1>1. Frame(a)
  BY StepFrame
<1>2. Patches(a)
  BY ScenarioFacts DEF FilesOK, CallOK, Stands, PlanOperation, Patches
<1>3. /\ DOMAIN pc = Calls /\ DOMAIN plan = Calls /\ DOMAIN at = Calls /\ DOMAIN results = Calls
      /\ pc[a] = "plan"
  BY DEF FilesOK, PlanOperation
<1>4. CASE Planned(a) = <<>>
  BY <1>1, <1>2, <1>3, <1>4 DEF PlanOperation, Returns
<1>5. CASE Planned(a) # <<>>
  <2>1. PICK content :
          /\ Planned(a) = <<[basis |-> disk[Op(a).path], content |-> content]>>
          /\ IsFile(content) /\ (Op(a).action = "update" => content.absent = FALSE)
          /\ Op(a).move # Op(a).path
          /\ PathsOf(Op(a)) \cap Touched(a) = {}
    BY <1>2, <1>3, <1>5, PlannedFacts
  <2> DEFINE e == [basis |-> disk[Op(a).path], content |-> content]
  <2>2. Planned(a) = <<e>> /\ e.content = content
    BY <2>1
  <2> HIDE DEF e
  <2>3. /\ plan' = [plan EXCEPT ![a] = @ \o Planned(a)] /\ UNCHANGED <<disk, ops, cancels, writes, lock>>
        /\ IF at[a] < Len(ops[a])
           THEN at' = [at EXCEPT ![a] = @ + 1] /\ pc' = pc
           ELSE at' = [at EXCEPT ![a] = 1] /\ pc' = [pc EXCEPT ![a] = "verify"]
    BY <1>5 DEF PlanOperation
  <2>4. plan'[a] = plan[a] \o <<e>>
    BY <1>3, <2>2, <2>3
  <2>5. IF at[a] < Len(ops[a]) THEN pc'[a] = "plan" /\ at'[a] = at[a] + 1
        ELSE pc'[a] = "verify" /\ at'[a] = 1
    BY <1>3, <2>3
  <2> QED BY <1>1, <1>2, <2>1, <2>2, <2>3, <2>4, <2>5
<1> QED BY <1>4, <1>5

LEMMA PlanOK ==
  ASSUME FilesOK, NEW a \in Calls, PlanOperation(a)
  PROVE  FilesOK'
<1>1. /\ Frame(a) /\ Patches(a) /\ UNCHANGED <<disk, ops>> /\ Call(a)' = Call(a)
      /\ DOMAIN disk' = Paths /\ \A p \in Paths : IsFile(disk'[p])
  BY PlanStep DEF FilesOK, Frame, Call
<1>2. CASE pc'[a] = "done" /\ UNCHANGED <<plan, at>>
  BY <1>1, <1>2, ReturnOK
<1>3. CASE ~ (pc'[a] = "done" /\ UNCHANGED <<plan, at>>)
  <2>1. PICK e : /\ plan'[a] = plan[a] \o <<e>>
                 /\ IsFile(e.content) /\ (Op(a).action = "update" => e.content.absent = FALSE)
                 /\ Op(a).move # Op(a).path
                 /\ IF at[a] < Len(ops[a]) THEN pc'[a] = "plan" /\ at'[a] = at[a] + 1
                    ELSE pc'[a] = "verify" /\ at'[a] = 1
    BY <1>3, PlanStep
  <2>2. /\ Stands(Call(a), "plan", ops[a], at[a], plan[a]) /\ Call(a).tool = "patch"
        /\ ops[a] \in Seq(Operations) /\ at[a] \in 1 .. Len(ops[a]) /\ Len(ops[a]) \in Nat
        /\ Len(plan[a]) = at[a] - 1 /\ IsSeq(plan[a])
    <3>1. pc[a] = "plan" /\ CallOK(a) /\ Busy(a)
      BY DEF FilesOK, PlanOperation, Busy
    <3> QED BY <1>1, <3>1, BusyFacts DEF CallOK, Patches, Stands
  <2>3. /\ IsSeq(plan'[a]) /\ Len(plan'[a]) = at[a] /\ plan'[a][at[a]] = e
        /\ \A k \in 1 .. Len(plan[a]) : plan'[a][k] = plan[a][k]
    <3> DEFINE s == plan[a]
    <3>1. IsSeq(s) /\ plan'[a] = s \o <<e>> /\ Len(s) = at[a] - 1 /\ at[a] \in Nat
      BY <2>1, <2>2
    <3> HIDE DEF s
    <3>2. /\ IsSeq(s \o <<e>>) /\ Len(s) \in Nat /\ Len(s \o <<e>>) = Len(s) + 1
          /\ (s \o <<e>>)[Len(s) + 1] = e
          /\ \A k \in 1 .. Len(s) : (s \o <<e>>)[k] = s[k]
      BY <3>1, AppendPlan
    <3>3. Len(s) + 1 = at[a]
      BY <3>1
    <3> QED BY <3>1, <3>2, <3>3 DEF s
  <2>4. \A k \in 1 .. Len(plan'[a]) :
          /\ IsFile(plan'[a][k].content)
          /\ ops[a][k].action = "update" => plan'[a][k].content.absent = FALSE
          /\ ops[a][k].move # ops[a][k].path
    <3> SUFFICES ASSUME NEW k \in 1 .. Len(plan'[a])
                 PROVE  /\ IsFile(plan'[a][k].content)
                        /\ ops[a][k].action = "update" => plan'[a][k].content.absent = FALSE
                        /\ ops[a][k].move # ops[a][k].path
      OBVIOUS
    <3>1. CASE k = at[a]
      BY <2>1, <2>3, <3>1 DEF Op
    <3>2. CASE k # at[a]
      <4>1. k \in 1 .. Len(plan[a])
        BY <2>2, <2>3, <3>2
      <4> QED BY <4>1, <2>2, <2>3 DEF Stands
    <3> QED BY <3>1, <3>2
  <2>5. Stands(Call(a), pc'[a], ops[a], at'[a], plan'[a])
    <3>1. /\ pc'[a] \in {"plan", "verify"} /\ at'[a] \in 1 .. Len(ops[a])
          /\ pc'[a] = "plan" => Len(plan'[a]) = at'[a] - 1
          /\ pc'[a] = "verify" => Len(plan'[a]) = Len(ops[a])
          /\ Len(plan'[a]) <= Len(ops[a])
      <4>1. CASE at[a] < Len(ops[a])
        <5>1. pc'[a] = "plan" /\ at'[a] = at[a] + 1
          BY <2>1, <4>1
        <5>2. at'[a] \in 1 .. Len(ops[a]) /\ Len(plan'[a]) = at'[a] - 1 /\ Len(plan'[a]) <= Len(ops[a])
          BY <2>2, <2>3, <4>1, <5>1
        <5> QED BY <5>1, <5>2
      <4>2. CASE ~ (at[a] < Len(ops[a]))
        <5>1. pc'[a] = "verify" /\ at'[a] = 1
          BY <2>1, <4>2
        <5>2. at'[a] \in 1 .. Len(ops[a]) /\ Len(plan'[a]) = Len(ops[a])
          BY <2>2, <2>3, <4>2, <5>1
        <5> QED BY <2>2, <5>1, <5>2
      <4> QED BY <4>1, <4>2
    <3> DEFINE n == at'[a]
               plans == plan'[a]
    <3>2. n \in Nat /\ n \in 1 .. Len(ops[a]) /\ IsSeq(plans) /\ Len(plans) <= Len(ops[a])
      BY <2>2, <2>3, <3>1
    <3>3. \A k \in 1 .. Len(plans) :
            /\ IsFile(plans[k].content)
            /\ ops[a][k].action = "update" => plans[k].content.absent = FALSE
            /\ ops[a][k].move # ops[a][k].path
      BY <2>4
    <3>4. CASE pc'[a] = "plan"
      <4>1. Len(plans) = n - 1
        BY <3>1, <3>4
      <4> HIDE DEF n, plans
      <4>2. Stands(Call(a), "plan", ops[a], n, plans)
        BY <2>2, <3>2, <3>3, <4>1 DEF Stands, Committing
      <4> QED BY <3>4, <4>2 DEF n, plans
    <3>5. CASE pc'[a] = "verify"
      <4>1. Len(plans) = Len(ops[a])
        BY <3>1, <3>5
      <4> HIDE DEF n, plans
      <4>2. Stands(Call(a), "verify", ops[a], n, plans)
        BY <2>2, <3>2, <3>3, <4>1 DEF Stands, Committing
      <4> QED BY <3>5, <4>2 DEF n, plans
    <3> QED BY <3>1, <3>4, <3>5
  <2>6. CallOK(a)'
    BY <1>1, <2>5 DEF CallOK
  <2> QED BY <1>1, <2>6, OthersKept
<1> QED BY <1>2, <1>3

LEMMA CountsAreNat == ASSUME NEW n \in Nat PROVE \A i \in 1 .. n : i \in Nat
  OBVIOUS

\* A call that goes on with its patch.
LEMMA GoesOK ==
  ASSUME FilesOK, NEW a \in Calls, Frame(a), Patches(a), UNCHANGED <<ops, plan>>,
         pc[a] \in Committing, pc'[a] \in Committing, at'[a] \in 1 .. Len(ops[a]),
         pc'[a] = "destination" => ops[a][at'[a]].move # "",
         pc'[a] = "write" => ops[a][at'[a]].action # "delete",
         pc'[a] = "unlink" => ops[a][at'[a]].action = "delete" \/ ops[a][at'[a]].move # "",
         DOMAIN disk' = Paths, \A p \in Paths : IsFile(disk'[p])
  PROVE  FilesOK'
<1>1. /\ Stands(Call(a), pc[a], ops[a], at[a], plan[a]) /\ Call(a)' = Call(a) /\ Call(a).tool = "patch"
  BY DEF FilesOK, CallOK, Frame, Call, Patches
<1>0. Len(ops[a]) \in Nat /\ \A i \in 1 .. Len(ops[a]) : i \in Nat
  <2>1. Busy(a)
    BY DEF Busy
  <2>2. Len(ops[a]) \in Nat
    BY <2>1, BusyFacts
  <2> QED BY <2>2, CountsAreNat
<1>2. Stands(Call(a), pc'[a], ops[a], at'[a], plan[a])
  <2> DEFINE where == pc'[a]
             n == at'[a]
  <2>1. n \in Nat /\ n \in 1 .. Len(ops[a]) /\ where \in Committing
    <3>1. n \in 1 .. Len(ops[a]) /\ where \in Committing
      OBVIOUS
    <3> HIDE DEF n, where
    <3> QED BY <1>0, <3>1
  <2>2. /\ where = "destination" => ops[a][n].move # ""
        /\ where = "write" => ops[a][n].action # "delete"
        /\ where = "unlink" => ops[a][n].action = "delete" \/ ops[a][n].move # ""
    OBVIOUS
  <2>3. /\ IsSeq(plan[a]) /\ ops[a] \in Seq(Operations) /\ Len(plan[a]) = Len(ops[a])
        /\ \A k \in 1 .. Len(plan[a]) :
             /\ IsFile(plan[a][k].content)
             /\ ops[a][k].action = "update" => plan[a][k].content.absent = FALSE
             /\ ops[a][k].move # ops[a][k].path
    BY <1>1 DEF Stands, Committing
  <2> HIDE DEF where, n
  <2>4. Stands(Call(a), where, ops[a], n, plan[a])
    BY <1>1, <2>1, <2>2, <2>3 DEF Stands, Committing
  <2> QED BY <2>4 DEF where, n
<1>3. CallOK(a)'
  BY <1>1, <1>2 DEF CallOK
<1> QED BY <1>3, OthersKept

\* An operation has been applied.
LEMMA AppliedStep ==
  ASSUME FilesOK, NEW a \in Calls, Busy(a), Patches(a), Applied(a)
  PROVE  \/ /\ pc'[a] = "done" /\ at' = at /\ at[a] = Len(ops[a])
            /\ results'[a] = [k \in DOMAIN ops[a] |-> "applied"]
            /\ lock' = IF lock = a THEN 0 ELSE lock
         \/ /\ pc'[a] = "verify" /\ at'[a] = at[a] + 1 /\ at'[a] \in 1 .. Len(ops[a])
            /\ results' = results /\ lock' = lock
<1>1. /\ at[a] \in 1 .. Len(ops[a]) /\ Len(ops[a]) \in Nat /\ DOMAIN at = Calls
      /\ DOMAIN pc = Calls /\ DOMAIN results = Calls
  BY BusyFacts DEF FilesOK
<1>2. CASE at[a] = Len(ops[a])
  BY <1>1, <1>2 DEF Applied, Returns
<1>3. CASE at[a] # Len(ops[a])
  <2>1. /\ at' = [at EXCEPT ![a] = @ + 1] /\ pc' = [pc EXCEPT ![a] = "verify"]
        /\ results' = results /\ lock' = lock
    BY <1>3 DEF Applied
  <2> QED BY <1>1, <1>3, <2>1
<1> QED BY <1>2, <1>3

\* An operation has failed.
LEMMA FailsStep ==
  ASSUME FilesOK, NEW a \in Calls, Fails(a)
  PROVE  /\ pc'[a] = "done"
         /\ results'[a] = [k \in DOMAIN ops[a] |-> IF k < at[a] THEN "applied"
                                                  ELSE IF k = at[a] THEN "failed" ELSE "not applied"]
         /\ lock' = IF lock = a THEN 0 ELSE lock
  BY DEF Fails, Returns, FilesOK

LEMMA PatchesOrWrites ==
  ASSUME FilesOK, NEW a \in Calls
  PROVE  /\ pc[a] \in {"plan", "verify", "destination", "unlink"} => Patches(a) /\ Busy(a)
         /\ pc[a] = "write" => Busy(a) /\ (Patches(a) <=> Call(a).tool # "write")
         /\ DOMAIN pc = Calls /\ DOMAIN disk = Paths /\ \A p \in Paths : IsFile(disk[p])
  BY ScenarioFacts DEF FilesOK, CallOK, Stands, Busy, Committing, Patches

LEMMA VerifyOK ==
  ASSUME FilesOK, NEW a \in Calls, Verify(a)
  PROVE  FilesOK'
<1>1. Frame(a) /\ pc[a] = "verify" /\ UNCHANGED <<disk, ops, plan, at>>
  BY StepFrame DEF Verify
<1>2. /\ Patches(a) /\ Busy(a) /\ DOMAIN pc = Calls
      /\ DOMAIN disk' = Paths /\ \A p \in Paths : IsFile(disk'[p])
  BY <1>1, PatchesOrWrites
<1>3. /\ at[a] \in 1 .. Len(ops[a]) /\ Op(a) \in Operations
  BY <1>2, BusyFacts
<1>4. CASE disk[Op(a).path] # Plan(a).basis
  BY <1>1, <1>2, <1>4, FailsStep, ReturnOK DEF Verify
<1>5. CASE disk[Op(a).path] = Plan(a).basis
  <2>1. pc'[a] = IF Op(a).action = "delete" THEN "unlink"
                 ELSE IF Op(a).move # "" THEN "destination" ELSE "write"
    BY <1>2, <1>5 DEF Verify
  <2> QED BY <1>1, <1>2, <1>3, <2>1, GoesOK DEF Committing, Op
<1> QED BY <1>4, <1>5

LEMMA CheckDestinationOK ==
  ASSUME FilesOK, NEW a \in Calls, CheckDestination(a)
  PROVE  FilesOK'
<1>1. Frame(a) /\ pc[a] = "destination" /\ UNCHANGED <<disk, ops, plan, at>>
  BY StepFrame DEF CheckDestination
<1>2. /\ Patches(a) /\ Busy(a) /\ DOMAIN pc = Calls
      /\ DOMAIN disk' = Paths /\ \A p \in Paths : IsFile(disk'[p])
  BY <1>1, PatchesOrWrites
<1>3. /\ at[a] \in 1 .. Len(ops[a]) /\ Op(a).move # "" /\ Op(a).action = "update"
  <2>1. Op(a).move # ""
    BY <1>1, <1>2 DEF FilesOK, CallOK, Stands, Op, Patches
  <2> QED BY <1>2, <2>1, BusyFacts, OperationFacts
<1>4. CASE ~disk[Op(a).move].absent
  BY <1>1, <1>2, <1>4, FailsStep, ReturnOK DEF CheckDestination
<1>5. CASE disk[Op(a).move].absent
  <2>1. pc'[a] = "write"
    BY <1>2, <1>5 DEF CheckDestination
  <2> QED BY <1>1, <1>2, <1>3, <2>1, GoesOK DEF Committing, Op
<1> QED BY <1>4, <1>5

\* What a patch writes, and where it goes on.
LEMMA WriteStep ==
  ASSUME FilesOK, NEW a \in Calls, Write(a)
  PROVE  /\ Frame(a) /\ Patches(a) /\ Busy(a) /\ pc[a] = "write" /\ UNCHANGED <<ops, plan, cancels>>
         /\ Target(Op(a)) \in Paths /\ Target(Op(a)) \in PathsOf(Op(a)) /\ Op(a) \in Operations
         /\ Op(a).action # "delete" /\ IsFile(Plan(a).content)
         /\ disk' = [disk EXCEPT ![Target(Op(a))] = Plan(a).content]
         /\ DOMAIN disk' = Paths /\ \A p \in Paths : IsFile(disk'[p])
         /\ disk'[Target(Op(a))] = Plan(a).content
         /\ \A p \in Paths : p # Target(Op(a)) => disk'[p] = disk[p]
         /\ Changes(a, Target(Op(a)), IF Op(a).move = "" THEN Plan(a).basis ELSE Absent)
         /\ IF Op(a).move # "" THEN pc'[a] = "unlink" /\ UNCHANGED <<results, lock, at>> ELSE Applied(a)
<1>1. Frame(a) /\ pc[a] = "write" /\ UNCHANGED <<ops, plan, cancels>> /\ Patches(a)
  BY StepFrame DEF Write, Patches
<1>2. Busy(a) /\ DOMAIN pc = Calls /\ DOMAIN disk = Paths /\ \A p \in Paths : IsFile(disk[p])
  BY <1>1, PatchesOrWrites
<1>3. /\ Op(a) \in Operations /\ Target(Op(a)) \in Paths /\ Target(Op(a)) \in PathsOf(Op(a))
      /\ IsFile(Plan(a).content)
  <2>1. Op(a) \in Operations /\ IsFile(Plan(a).content)
    BY <1>1, <1>2, BusyFacts DEF Committing
  <2> QED BY <2>1, OperationFacts
<1>4. Op(a).action # "delete"
  BY <1>1 DEF FilesOK, CallOK, Stands, Op, Patches
<1>5. /\ disk' = [disk EXCEPT ![Target(Op(a))] = Plan(a).content]
      /\ Changes(a, Target(Op(a)), IF Op(a).move = "" THEN Plan(a).basis ELSE Absent)
      /\ IF Op(a).move # "" THEN pc'[a] = "unlink" /\ UNCHANGED <<results, lock, at>> ELSE Applied(a)
  BY <1>2 DEF Write
<1> QED BY <1>1, <1>2, <1>3, <1>4, <1>5

LEMMA WriteOK ==
  ASSUME FilesOK, NEW a \in Calls, Write(a)
  PROVE  FilesOK'
<1>1. /\ Frame(a) /\ Patches(a) /\ Busy(a) /\ pc[a] = "write" /\ UNCHANGED <<ops, plan>>
      /\ DOMAIN disk' = Paths /\ \A p \in Paths : IsFile(disk'[p])
      /\ IF Op(a).move # "" THEN pc'[a] = "unlink" /\ at' = at ELSE Applied(a)
  BY WriteStep
<1>2. at[a] \in 1 .. Len(ops[a])
  BY <1>1, BusyFacts
<1>3. CASE Op(a).move # ""
  BY <1>1, <1>2, <1>3, GoesOK DEF Committing, Op
<1>4. CASE Op(a).move = ""
  BY <1>1, <1>4, AppliedStep, GoesOK, ReturnOK DEF Committing
<1> QED BY <1>3, <1>4

LEMMA UnlinkStep ==
  ASSUME FilesOK, NEW a \in Calls, Unlink(a)
  PROVE  /\ Frame(a) /\ Patches(a) /\ Busy(a) /\ pc[a] = "unlink"
         /\ UNCHANGED <<ops, plan, cancels>>
         /\ Op(a) \in Operations /\ (Op(a).action = "delete" \/ Op(a).move # "")
         /\ DOMAIN disk' = Paths /\ \A p \in Paths : IsFile(disk'[p])
         /\ \A p \in Paths : p # Op(a).path => disk'[p] = disk[p]
         /\ \/ Fails(a) /\ disk' = disk /\ at' = at /\ writes' = writes
            \/ Applied(a) /\ Changes(a, Op(a).path, Plan(a).basis)
<1>1. Frame(a) /\ pc[a] = "unlink" /\ UNCHANGED <<ops, plan, cancels>>
  BY StepFrame DEF Unlink
<1>2. Patches(a) /\ Busy(a) /\ DOMAIN disk = Paths /\ \A p \in Paths : IsFile(disk[p])
  BY <1>1, PatchesOrWrites
<1>3. Op(a) \in Operations /\ Op(a).path \in Paths
  BY <1>2, BusyFacts, OperationFacts
<1>4. Op(a).action = "delete" \/ Op(a).move # ""
  BY <1>1, <1>2 DEF FilesOK, CallOK, Stands, Op, Patches
<1>5. \/ Fails(a) /\ disk' = disk /\ at' = at /\ writes' = writes
      \/ /\ Applied(a) /\ disk' = [disk EXCEPT ![Op(a).path] = Absent]
         /\ Changes(a, Op(a).path, Plan(a).basis)
  BY DEF Unlink
<1> QED BY <1>1, <1>2, <1>3, <1>4, <1>5 DEF IsFile

LEMMA UnlinkOK ==
  ASSUME FilesOK, NEW a \in Calls, Unlink(a)
  PROVE  FilesOK'
<1>1. /\ Frame(a) /\ Patches(a) /\ Busy(a) /\ pc[a] = "unlink" /\ UNCHANGED <<ops, plan>>
      /\ DOMAIN disk' = Paths /\ \A p \in Paths : IsFile(disk'[p])
      /\ (Fails(a) /\ at' = at) \/ Applied(a)
  BY UnlinkStep
<1>2. CASE Fails(a) /\ at' = at
  BY <1>1, <1>2, FailsStep, ReturnOK
<1>3. CASE Applied(a)
  BY <1>1, <1>3, AppliedStep, GoesOK, ReturnOK DEF Committing
<1> QED BY <1>1, <1>2, <1>3

LEMMA WriteFileOK ==
  ASSUME FilesOK, NEW a \in Calls, WriteFile(a)
  PROVE  FilesOK'
<1>1. /\ Frame(a) /\ pc[a] = "write" /\ ~Patches(a) /\ UNCHANGED <<ops, plan, at>> /\ pc'[a] = "done"
      /\ disk' = [disk EXCEPT ![Op(a).path] = File(Op(a).content)]
  BY StepFrame DEF WriteFile, Patches, Returns, FilesOK
<1>2. Op(a).path \in Paths /\ DOMAIN disk = Paths /\ \A p \in Paths : IsFile(disk[p])
  BY <1>1, PatchesOrWrites DEF FilesOK, CallOK, Stands, Op, Patches
<1>3. DOMAIN disk' = Paths /\ \A p \in Paths : IsFile(disk'[p])
  BY <1>1, <1>2 DEF IsFile, File
<1> QED BY <1>1, <1>3, ReturnOK

LEMMA IOErrorOK ==
  ASSUME FilesOK, NEW a \in Calls, IOError(a)
  PROVE  FilesOK'
<1>1. Frame(a) /\ Fails(a) /\ UNCHANGED <<disk, ops, plan, at>>
  BY StepFrame DEF IOError
<1>2. pc'[a] = "done" /\ DOMAIN disk' = Paths /\ \A p \in Paths : IsFile(disk'[p])
  BY <1>1, FailsStep DEF FilesOK
<1> QED BY <1>1, <1>2, ReturnOK

LEMMA CancelOK ==
  ASSUME FilesOK, NEW a \in Calls, Cancel(a)
  PROVE  FilesOK'
<1>1. Frame(a) /\ UNCHANGED <<disk, ops, plan, at>> /\ (pc'[a] = "done" \/ pc' = pc)
  BY StepFrame DEF Cancel, Returns, FilesOK
<1>2. DOMAIN disk' = Paths /\ \A p \in Paths : IsFile(disk'[p])
  BY <1>1 DEF FilesOK
<1>3. CASE pc'[a] = "done"
  BY <1>1, <1>2, <1>3, ReturnOK
<1>4. CASE pc' = pc
  <2>1. CallOK(a)'
    BY <1>1, <1>4 DEF FilesOK, CallOK, Frame, Call
  <2> QED BY <1>1, <1>2, <2>1, OthersKept
<1> QED BY <1>1, <1>3, <1>4

StepOf(a) ==
  \/ BeginCall(a) \/ PlanOperation(a) \/ Verify(a) \/ CheckDestination(a)
  \/ Write(a) \/ Unlink(a) \/ WriteFile(a) \/ IOError(a) \/ Cancel(a)

LEMMA FilesStep ==
  ASSUME FilesOK, NEW a \in Calls, StepOf(a)
  PROVE  FilesOK'
  BY BeginOK, PlanOK, VerifyOK, CheckDestinationOK, WriteOK, UnlinkOK, WriteFileOK, IOErrorOK,
     CancelOK DEF StepOf

-----------------------------------------------------------------------------
(* PatchFiles: nobody else writes between a check and a write              *)

Locking == Exclusive /\ Checked

\* Until a call is cancelled, one that is busy is the only one.
LEMMA OnlyOne ==
  ASSUME FilesOK, Exclusive, cancels = {}, NEW a \in Calls, Busy(a)
  PROVE  \A b \in Calls : b # a => ~Busy(b)
  BY DEF Exclusive

\* A step of the only busy call.
LEMMA BusyLocking ==
  ASSUME FilesOK, Locking, NEW a \in Calls, Busy(a), Frame(a),
         lock' = lock \/ pc'[a] = "done",
         cancels' = {} /\ Patches(a) => Verified(a)'
  PROVE  Locking'
<1>1. Calls' = Calls /\ \A b \in Calls : Patches(b)' = Patches(b)
  BY DEF Frame, Calls, Patches, Call
<1> SUFFICES ASSUME cancels' = {}, NEW b \in Calls
             PROVE  /\ Busy(b)' => lock' = b
                    /\ Patches(b) => Verified(b)'
  BY <1>1 DEF Locking, Exclusive, Checked
<1>2. cancels = {}
  BY DEF Frame
<1>3. CASE b # a
  <2>1. ~Busy(b) /\ pc'[b] = pc[b]
    BY <1>2, <1>3, OnlyOne DEF Locking, Frame
  <2> QED BY <2>1 DEF Busy, Committing, Verified
<1>4. CASE b = a
  <2>1. lock = a
    BY <1>2 DEF Locking, Exclusive
  <2> QED BY <1>4, <2>1 DEF Busy, Committing
<1> QED BY <1>3, <1>4

LEMMA BeginLocking ==
  ASSUME FilesOK, Locking, NEW a \in Calls, BeginCall(a)
  PROVE  Locking'
<1>1. /\ Frame(a) /\ lock = 0 /\ pc[a] = "called" /\ Started(a) /\ DOMAIN pc = Calls
      /\ a # 0 /\ \A b \in Calls : b # 0
  BY StepFrame, ScenarioFacts DEF BeginCall, FilesOK
<1>2. \/ pc'[a] = "done"
      \/ /\ lock' = a
         /\ pc'[a] = IF Call(a).tool = "write" THEN "write" ELSE "plan"
  BY <1>1 DEF Started, Returns
<1>3. Calls' = Calls /\ \A b \in Calls : Patches(b)' = Patches(b)
  BY <1>1 DEF Frame, Calls, Patches, Call
<1> SUFFICES ASSUME cancels' = {}, NEW b \in Calls
             PROVE  /\ Busy(b)' => lock' = b
                    /\ Patches(b) => Verified(b)'
  BY <1>3 DEF Locking, Exclusive, Checked
<1>4. cancels = {}
  BY <1>1 DEF Frame
<1>5. CASE b # a
  <2>1. ~Busy(b) /\ pc'[b] = pc[b]
    BY <1>1, <1>4, <1>5 DEF Locking, Exclusive, Frame
  <2> QED BY <2>1 DEF Busy, Committing, Verified
<1>6. CASE b = a
  BY <1>2, <1>6 DEF Busy, Committing, Patches, Verified
<1> QED BY <1>5, <1>6

LEMMA LockingStep ==
  ASSUME FilesOK, Locking, NEW a \in Calls, StepOf(a)
  PROVE  Locking'
<1>0. Frame(a) /\ DOMAIN pc = Calls /\ DOMAIN disk = Paths /\ \A p \in Paths : IsFile(disk[p])
  BY StepFrame DEF StepOf, FilesOK
<1>1. CASE BeginCall(a)
  BY <1>1, BeginLocking
<1>2. CASE PlanOperation(a)
  <2>1. /\ Busy(a) /\ pc'[a] \notin {"destination", "write", "unlink"}
        /\ (lock' = lock \/ pc'[a] = "done")
    BY <1>2, PlanStep DEF PlanOperation, Busy
  <2> QED BY <1>0, <2>1, BusyLocking DEF Verified
<1>3. CASE Verify(a)
  <2>1. pc[a] = "verify" /\ Patches(a) /\ Busy(a) /\ UNCHANGED <<disk, ops, plan, at>>
    BY <1>3, PatchesOrWrites DEF Verify
  <2>2. CASE disk[Op(a).path] # Plan(a).basis
    <3>1. pc'[a] = "done"
      BY <1>3, <2>2, FailsStep DEF Verify
    <3> QED BY <1>0, <2>1, <3>1, BusyLocking DEF Verified
  <2>3. CASE disk[Op(a).path] = Plan(a).basis
    <3>1. lock' = lock /\ pc'[a] = IF Op(a).action = "delete" THEN "unlink"
                                   ELSE IF Op(a).move # "" THEN "destination" ELSE "write"
      BY <1>0, <1>3, <2>3 DEF Verify
    <3>2. Verified(a)'
      BY <2>1, <2>3, <3>1 DEF Verified, Op, Plan
    <3> QED BY <1>0, <2>1, <3>1, <3>2, BusyLocking
  <2> QED BY <2>2, <2>3
<1>4. CASE CheckDestination(a)
  <2>1. pc[a] = "destination" /\ Patches(a) /\ Busy(a) /\ UNCHANGED <<disk, ops, plan, at>>
    BY <1>4, PatchesOrWrites DEF CheckDestination
  <2>2. CASE ~disk[Op(a).move].absent
    <3>1. pc'[a] = "done"
      BY <1>4, <2>2, FailsStep DEF CheckDestination
    <3> QED BY <1>0, <2>1, <3>1, BusyLocking DEF Verified
  <2>3. CASE disk[Op(a).move].absent
    <3>1. lock' = lock
      BY <1>4, <2>3 DEF CheckDestination
    <3>2. Op(a).move # "" /\ Op(a).move \in Paths
      <4>1. Op(a).move # "" /\ Op(a) \in Operations
        BY <2>1, BusyFacts DEF FilesOK, CallOK, Stands, Op, Patches
      <4> QED BY <4>1 DEF Operations
    <3>3. disk[Op(a).move] = Absent
      BY <1>0, <2>3, <3>2 DEF IsFile
    <3>4. pc'[a] = "write"
      BY <1>0, <1>4, <2>3 DEF CheckDestination
    <3>5. cancels' = {} => Verified(a)'
      <4>1. cancels' = {} => disk[Op(a).path] = Plan(a).basis
        BY <1>0, <2>1 DEF Locking, Checked, Verified, Frame
      <4> QED BY <2>1, <3>3, <3>4, <4>1 DEF Verified, Op, Plan
    <3> QED BY <1>0, <2>1, <3>1, <3>5, BusyLocking
  <2> QED BY <2>2, <2>3
<1>5. CASE Write(a)
  <2>1. Busy(a) /\ Patches(a) /\ IF Op(a).move # "" THEN pc'[a] = "unlink" /\ lock' = lock ELSE Applied(a)
    BY <1>5, WriteStep
  <2>2. pc'[a] \in {"unlink", "done", "verify"} /\ (lock' = lock \/ pc'[a] = "done")
    BY <2>1, AppliedStep
  <2>3. cancels' = {} /\ pc'[a] = "unlink" => (disk[Op(a).path] = Plan(a).basis)'
    <3>1. SUFFICES ASSUME cancels' = {}, Op(a).move # "", at' = at, ops' = ops, plan' = plan
                   PROVE  disk'[Op(a).path] = Plan(a).basis
      BY <1>5, <2>1, WriteStep, AppliedStep DEF Op, Plan
    <3>2. Op(a).path \in Paths /\ Op(a).move # Op(a).path
      <4>1. Op(a).path \in Paths /\ at[a] \in 1 .. Len(ops[a]) /\ pc[a] \in Committing
        BY <1>5, <2>1, BusyFacts, OperationFacts, WriteStep DEF Committing
      <4> QED BY <2>1, <4>1 DEF FilesOK, CallOK, Stands, Op, Patches
    <3>3. disk[Op(a).path] = Plan(a).basis
      BY <1>0, <1>5, <2>1, <3>1, WriteStep DEF Locking, Checked, Verified, Frame
    <3> QED BY <1>5, <3>1, <3>2, <3>3, WriteStep DEF Target
  <2> QED BY <1>0, <2>1, <2>2, <2>3, BusyLocking DEF Verified
<1>6. CASE Unlink(a)
  <2>1. Busy(a) /\ Patches(a) /\ (Fails(a) \/ Applied(a))
    BY <1>6, UnlinkStep
  <2>2. pc'[a] \in {"done", "verify"} /\ (lock' = lock \/ pc'[a] = "done")
    BY <2>1, AppliedStep, FailsStep
  <2> QED BY <1>0, <2>1, <2>2, BusyLocking DEF Verified
<1>7. CASE WriteFile(a)
  <2>1. Busy(a) /\ pc'[a] = "done"
    BY <1>0, <1>7, PatchesOrWrites DEF WriteFile, Returns
  <2> QED BY <1>0, <2>1, BusyLocking DEF Verified
<1>8. CASE IOError(a)
  <2>1. Busy(a) /\ pc'[a] = "done"
    BY <1>8, PatchesOrWrites, FailsStep DEF IOError
  <2> QED BY <1>0, <2>1, BusyLocking DEF Verified
<1>9. CASE Cancel(a)
  <2>1. cancels' # {}
    BY <1>9 DEF Cancel
  <2> QED BY <2>1 DEF Locking, Exclusive, Checked
<1> QED BY <1>1, <1>2, <1>3, <1>4, <1>5, <1>6, <1>7, <1>8, <1>9 DEF StepOf

\* A change is based on what it is made over, and made beside no other call.
LEMMA ChangeKept ==
  ASSUME FilesOK, Locking, LostOnlyAfterCancel, NEW a \in Calls, Busy(a), NEW p, NEW basis,
         Changes(a, p, basis), cancels = {} => disk[p] = basis
  PROVE  LostOnlyAfterCancel'
<1> DEFINE w == [by |-> a, basis |-> basis, over |-> disk[p], beside |-> AtWork \ {a}, amid |-> cancels]
<1>1. writes' = writes \cup {w}
  BY DEF Changes
<1>2. cancels = {} => AtWork \ {a} = {}
  <2> SUFFICES ASSUME cancels = {}, NEW b \in AtWork, b # a PROVE FALSE
    OBVIOUS
  <2>1. b \in Calls /\ pc[b] \notin {"called", "done"}
    BY DEF AtWork
  <2>2. Busy(b)
    BY <2>1 DEF FilesOK, CallOK, Stands, Busy
  <2> QED BY <2>1, <2>2, OnlyOne DEF Locking
<1> QED BY <1>1, <1>2 DEF LostOnlyAfterCancel

LEMMA LostStep ==
  ASSUME FilesOK, Locking, LostOnlyAfterCancel, NEW a \in Calls, StepOf(a)
  PROVE  LostOnlyAfterCancel'
<1>1. CASE Write(a)
  <2>1. /\ pc[a] = "write" /\ Patches(a) /\ Busy(a)
        /\ Changes(a, Target(Op(a)), IF Op(a).move = "" THEN Plan(a).basis ELSE Absent)
    BY <1>1, WriteStep
  <2>2. cancels = {} => disk[Target(Op(a))] = IF Op(a).move = "" THEN Plan(a).basis ELSE Absent
    BY <2>1 DEF Locking, Checked, Verified, Target
  <2> QED BY <2>1, <2>2, ChangeKept
<1>2. CASE Unlink(a)
  <2>1. /\ pc[a] = "unlink" /\ Patches(a) /\ Busy(a)
        /\ writes' = writes \/ Changes(a, Op(a).path, Plan(a).basis)
    BY <1>2, UnlinkStep
  <2>2. cancels = {} => disk[Op(a).path] = Plan(a).basis
    BY <2>1 DEF Locking, Checked, Verified
  <2>3. CASE writes' = writes
    BY <2>3 DEF LostOnlyAfterCancel
  <2> QED BY <2>1, <2>2, <2>3, ChangeKept
<1>3. CASE WriteFile(a)
  <2>1. Busy(a) /\ Changes(a, Op(a).path, disk[Op(a).path])
    BY <1>3, PatchesOrWrites DEF WriteFile
  <2> QED BY <2>1, ChangeKept
<1>4. CASE ~Write(a) /\ ~Unlink(a) /\ ~WriteFile(a)
  <2>1. writes' = writes
    BY <1>4 DEF StepOf, BeginCall, Started, PlanOperation, Verify, CheckDestination, IOError, Cancel
  <2> QED BY <2>1 DEF LostOnlyAfterCancel
<1> QED BY <1>1, <1>2, <1>3, <1>4

-----------------------------------------------------------------------------
(* PatchFiles: a patch that is alone                                       *)

LEMMA AloneFacts ==
  ASSUME FilesOK, Alone
  PROVE  /\ Calls = {1} /\ Patches(1) /\ CallOK(1) /\ IsSeq(plan[1]) /\ Len(plan[1]) \in Nat
         /\ ops[1] = <<>> \/ ops[1] \in Seq(Operations)
         /\ Len(ops[1]) \in Nat /\ Len(plan[1]) <= Len(ops[1]) /\ DOMAIN ops[1] = 1 .. Len(ops[1])
         /\ at[1] \in Nat
         /\ \A k \in 1 .. Len(ops[1]) : ops[1][k] \in Operations
<1>1. Calls = {1} /\ Patches(1)
  <2>1. Calls = 1 .. 1
    BY ScenarioFacts DEF Alone
  <2> QED BY <2>1 DEF Alone, Patches
<1>2. /\ CallOK(1) /\ IsSeq(plan[1]) /\ ops[1] \in Seq(Operations)
      /\ Len(plan[1]) <= Len(ops[1]) /\ at[1] \in Nat
  BY <1>1 DEF FilesOK, CallOK, Stands, Patches
<1>3. Len(plan[1]) \in Nat
  BY <1>2 DEF IsSeq
<1> QED BY <1>1, <1>2, <1>3

\* Nothing but what is written differs.
LEMMA StillUntouched ==
  ASSUME FilesOK, Alone, NEW k \in 1 .. Len(ops[1]), Untouched(k),
         scenario' = scenario, ops'[1] = ops[1],
         \A p \in PathsOf(ops[1][k]) : disk'[p] = disk[p]
  PROVE  Untouched(k)'
<1> DEFINE S == PathsOf(ops[1][k])
<1>1. \A p \in S : disk'[p] = scenario'.files[p]
  BY DEF Untouched
<1>2. S = PathsOf(ops'[1][k])
  OBVIOUS
<1> QED BY <1>1, <1>2 DEF Untouched, PathsOf

LEMMA StillArrived ==
  ASSUME FilesOK, Alone, NEW k \in 1 .. Len(ops[1]), Arrived(k), ops'[1] = ops[1], plan'[1] = plan[1],
         disk'[Target(ops[1][k])] = disk[Target(ops[1][k])]
  PROVE  Arrived(k)'
  BY DEF Arrived, Target

\* A patch ends between two operations, or within one that fails.
LEMMA EndProgress ==
  ASSUME FilesOK, Alone, Progress, pc[1] \in Committing, Fails(1),
         UNCHANGED <<scenario, disk, ops, plan>>
  PROVE  Progress'
<1>1. /\ pc'[1] = "done" /\ DOMAIN ops[1] = 1 .. Len(ops[1])
      /\ results'[1] = [k \in DOMAIN ops[1] |-> IF k < at[1] THEN "applied"
                                               ELSE IF k = at[1] THEN "failed" ELSE "not applied"]
  BY AloneFacts, FailsStep
<1>2. Apart'
  BY DEF Progress, Apart, PathsOf
<1>3. ASSUME NEW k \in 1 .. Len(ops[1])
      PROVE  /\ Untouched(k) \/ Arrived(k)
             /\ results'[1][k] = "not applied" => Untouched(k)
  <2>1. k \in Nat /\ at[1] \in Nat
    BY AloneFacts
  <2> QED BY <1>1, <2>1 DEF Progress
<1>4. \A k \in 1 .. Len(ops[1]) : (Untouched(k) => Untouched(k)') /\ (Arrived(k) => Arrived(k)')
  BY StillUntouched, StillArrived
<1> QED BY <1>1, <1>2, <1>3, <1>4 DEF Progress, Committing

\* The operation it is at writes or unlinks a file, and the next one follows.
LEMMA GoesProgress ==
  ASSUME FilesOK, FilesOK', Alone, NEW n, n = at[1], Progress, pc[1] \in Committing,
         UNCHANGED <<scenario, ops, plan>>,
         \A p \in Paths \ PathsOf(Op(1)) : disk'[p] = disk[p],
         \/ /\ pc'[1] \in Committing /\ at'[1] = n
            /\ IF Halfway' THEN Arrived(n)' ELSE Untouched(n)'
         \/ /\ Applied(1) /\ Arrived(n)'
  PROVE  Progress'
<1>1. /\ Busy(1) /\ n \in 1 .. Len(ops[1]) /\ n \in Nat /\ Len(ops[1]) \in Nat
      /\ Len(plan[1]) = Len(ops[1]) /\ Patches(1) /\ 1 \in Calls
  BY AloneFacts DEF CallOK, Stands, Busy, Committing, Patches
<1>2. ASSUME NEW k \in 1 .. Len(ops[1]), k # n
      PROVE  /\ k < n => Arrived(k)'
             /\ k > n => Untouched(k)'
  <2>1. /\ ops[1][k] \in Operations /\ PathsOf(ops[1][k]) \subseteq Paths
        /\ Target(ops[1][k]) \in PathsOf(ops[1][k])
    BY AloneFacts, OperationFacts
  <2>2. PathsOf(ops[1][k]) \cap PathsOf(Op(1)) = {}
    BY <1>1, <1>2 DEF Progress, Apart, Op
  <2>3. /\ k < n => Arrived(k)
        /\ k > n => Untouched(k)
    <3>1. IF k < n \/ (k = n /\ Halfway) THEN Arrived(k) ELSE Untouched(k)
      BY DEF Progress
    <3>2. k > n => ~ (k < n)
      BY <1>1
    <3> QED BY <1>2, <3>1, <3>2
  <2>4. \A p \in PathsOf(ops[1][k]) : disk'[p] = disk[p]
    BY <2>1, <2>2
  <2> QED BY <2>1, <2>3, <2>4, StillArrived, StillUntouched
<1>3. Apart'
  BY DEF Progress, Apart, PathsOf
<1>4. CASE pc'[1] \in Committing /\ at'[1] = n
  <2>1. CASE Applied(1)
    <3>1. pc'[1] = "done" \/ at'[1] = n + 1
      BY <1>1, <2>1, AppliedStep
    <3> QED BY <1>1, <1>4, <3>1 DEF Committing
  <2>2. CASE ~Applied(1)
    <3>1. IF Halfway' THEN Arrived(n)' ELSE Untouched(n)'
      BY <2>2
    <3>2. \A k \in 1 .. Len(ops[1]) :
            IF k < n \/ (k = n /\ Halfway') THEN Arrived(k)' ELSE Untouched(k)'
      <4> SUFFICES ASSUME NEW k \in 1 .. Len(ops[1])
                   PROVE  IF k < n \/ (k = n /\ Halfway') THEN Arrived(k)' ELSE Untouched(k)'
        OBVIOUS
      <4>1. CASE k = n
        BY <1>1, <3>1, <4>1
      <4>2. CASE k # n
        <5>1. k < n \/ k > n
          BY <1>1, <4>2
        <5> QED BY <1>2, <4>2, <5>1
      <4> QED BY <4>1, <4>2
    <3> QED BY <1>3, <1>4, <3>2 DEF Progress, Committing
  <2> QED BY <2>1, <2>2
<1>5. CASE Applied(1) /\ Arrived(n)'
  <2>1. \/ /\ pc'[1] = "done" /\ n = Len(ops[1])
           /\ results'[1] = [k \in DOMAIN ops[1] |-> "applied"]
        \/ pc'[1] = "verify" /\ at'[1] = n + 1
    BY <1>1, <1>5, AppliedStep
  <2>2. CASE pc'[1] = "done" /\ n = Len(ops[1]) /\ results'[1] = [k \in DOMAIN ops[1] |-> "applied"]
    <3>1. \A k \in 1 .. Len(ops[1]) : Arrived(k)' /\ results'[1][k] = "applied"
      <4>1. \A k \in 1 .. Len(ops[1]) : k = n \/ k < n
        BY <1>1, <2>2
      <4>2. DOMAIN ops[1] = 1 .. Len(ops[1])
        BY AloneFacts
      <4> QED BY <1>2, <1>5, <2>2, <4>1, <4>2
    <3> QED BY <1>3, <2>2, <3>1 DEF Progress, Committing
  <2>3. CASE pc'[1] = "verify" /\ at'[1] = n + 1
    <3>1. ASSUME NEW k \in 1 .. Len(ops[1])
          PROVE  IF k < n + 1 THEN Arrived(k)' ELSE Untouched(k)'
      <4>1. k < n \/ k = n \/ k > n
        BY <1>1
      <4>2. (k < n + 1) <=> (k < n \/ k = n)
        BY <1>1
      <4> QED BY <1>1, <1>2, <1>5, <4>1, <4>2
    <3>2. ~Halfway'
      BY <2>3 DEF Halfway
    <3> QED BY <1>3, <2>3, <3>1, <3>2 DEF Progress, Committing
  <2> QED BY <2>1, <2>2, <2>3
<1> QED BY <1>4, <1>5

LEMMA BeginProgress ==
  ASSUME FilesOK, Alone, Progress, BeginCall(1)
  PROVE  Progress'
<1> DEFINE parsed == ParsePatch(Call(1).text)
<1>1. /\ Patches(1) /\ CallOK(1) /\ Calls = {1}
      /\ DOMAIN pc = {1} /\ DOMAIN ops = {1} /\ DOMAIN plan = {1}
  BY AloneFacts DEF FilesOK
<1>2. /\ pc[1] = "called" /\ plan[1] = <<>> /\ plan' = plan /\ disk' = disk /\ scenario' = scenario
      /\ ops'[1] = parsed /\ pc'[1] = IF parsed = <<>> THEN "done" ELSE "plan"
  <2>1. pc[1] = "called" /\ plan[1] = <<>>
    BY <1>1 DEF BeginCall, CallOK, Stands
  <2>2. Started(1) /\ Call(1).tool # "write"
    BY <1>1 DEF BeginCall, Patches
  <2>3. plan' = plan /\ disk' = disk /\ scenario' = scenario /\ ops' = [ops EXCEPT ![1] = parsed]
    BY <2>2 DEF Started
  <2>4. pc' = [pc EXCEPT ![1] = IF parsed = <<>> THEN "done" ELSE "plan"]
    <3> HIDE DEF parsed
    <3>1. CASE parsed = <<>>
      BY <2>2, <3>1 DEF Started, Returns, parsed
    <3>2. CASE parsed # <<>>
      BY <2>2, <3>2 DEF Started, parsed
    <3> QED BY <3>1, <3>2
  <2> QED BY <1>1, <2>1, <2>3, <2>4
<1> HIDE DEF parsed
<1>3. \A p \in Paths : disk'[p] = scenario'.files[p]
  BY <1>2 DEF Progress
<1>4. Apart'
  <2>1. Len(plan'[1]) = 0
    BY <1>2
  <2> QED BY <2>1 DEF Apart
<1>5. pc'[1] = "done" => Len(ops'[1]) = 0
  BY <1>2
<1>6. CASE pc'[1] = "done"
  <2>1. 1 .. Len(ops'[1]) = {}
    BY <1>5, <1>6
  <2> QED BY <1>4, <1>6, <2>1 DEF Progress, Committing
<1>7. CASE pc'[1] = "plan"
  BY <1>3, <1>4, <1>7 DEF Progress, Committing
<1> QED BY <1>2, <1>6, <1>7

LEMMA PlanProgress ==
  ASSUME FilesOK, Alone, Progress, PlanOperation(1)
  PROVE  Progress'
<1>1. /\ Patches(1) /\ CallOK(1) /\ Calls = {1} /\ pc[1] = "plan" /\ IsSeq(plan[1])
      /\ \A k \in 1 .. Len(ops[1]) : ops[1][k] \in Operations
      /\ at[1] \in Nat /\ Len(plan[1]) = at[1] - 1 /\ Len(plan[1]) \in Nat
  BY AloneFacts DEF PlanOperation, CallOK, Stands, Patches
<1>2. /\ UNCHANGED <<scenario, disk, ops>> /\ Patches(1)
      /\ \/ pc'[1] = "done" /\ UNCHANGED plan
         \/ \E e : /\ plan'[1] = plan[1] \o <<e>>
                   /\ PathsOf(Op(1)) \cap Touched(1) = {}
                   /\ pc'[1] = "plan" \/ (pc'[1] = "verify" /\ at'[1] = 1)
  BY <1>1, PlanStep DEF Frame
<1>3. \A p \in Paths : disk'[p] = scenario'.files[p]
  BY <1>1, <1>2 DEF Progress
<1>4. \A k \in 1 .. Len(ops[1]) : Untouched(k)'
  BY <1>1, <1>2, <1>3, OperationFacts DEF Untouched, PathsOf
<1>5. CASE pc'[1] = "done" /\ UNCHANGED plan
  <2>1. Apart'
    BY <1>2, <1>5 DEF Progress, Apart, PathsOf
  <2> QED BY <1>2, <1>4, <1>5, <2>1 DEF Progress, Committing
<1>6. CASE ~ (pc'[1] = "done" /\ UNCHANGED plan)
  <2>1. PICK e : /\ plan'[1] = plan[1] \o <<e>>
                 /\ PathsOf(Op(1)) \cap Touched(1) = {}
                 /\ pc'[1] = "plan" \/ (pc'[1] = "verify" /\ at'[1] = 1)
    BY <1>2, <1>6
  <2>2. Len(plan'[1]) = at[1]
    <3>1. Len(plan[1] \o <<e>>) = Len(plan[1]) + 1
      BY <1>1, AppendPlan
    <3> QED BY <1>1, <2>1, <3>1
  <2>3. \A k \in 1 .. Len(plan[1]) : PathsOf(ops[1][k]) \cap PathsOf(ops[1][at[1]]) = {}
    BY <1>1, <2>1 DEF Touched, Op
  <2>4. ASSUME NEW j \in 1 .. Len(plan'[1]), NEW k \in 1 .. Len(plan'[1]), j # k
        PROVE  PathsOf(ops[1][j]) \cap PathsOf(ops[1][k]) = {}
    <3>1. (j \in 1 .. Len(plan[1]) \/ j = at[1]) /\ (k \in 1 .. Len(plan[1]) \/ k = at[1])
      BY <1>1, <2>2
    <3> QED BY <2>3, <2>4, <3>1 DEF Progress, Apart
  <2>5. Apart'
    BY <1>2, <2>4 DEF Apart, PathsOf
  <2>6. CASE pc'[1] = "plan"
    BY <1>3, <2>5, <2>6 DEF Progress, Committing
  <2>7. CASE pc'[1] = "verify" /\ at'[1] = 1
    <3>1. \A k \in 1 .. Len(ops[1]) : ~ (k < at'[1]) /\ ~Halfway'
      BY <2>7 DEF Halfway
    <3> QED BY <1>2, <1>4, <2>5, <2>7, <3>1 DEF Progress, Committing
  <2> QED BY <2>1, <2>6, <2>7
<1> QED BY <1>5, <1>6

LEMMA ProgressStep ==
  ASSUME FilesOK, FilesOK', Alone, Progress, StepOf(1)
  PROVE  Progress'
<1>1. 1 \in Calls /\ Patches(1) /\ DOMAIN pc = Calls
  BY AloneFacts DEF FilesOK
<1>2. CASE BeginCall(1)
  BY <1>2, BeginProgress
<1>3. CASE PlanOperation(1)
  BY <1>3, PlanProgress
<1>4. PICK n : n = at[1]
  OBVIOUS
<1>5. ASSUME pc[1] \in Committing
      PROVE  /\ Busy(1) /\ Op(1) \in Operations /\ Op(1) = ops[1][n] /\ n \in 1 .. Len(ops[1])
             /\ Op(1).action = "update" => Plan(1).content.absent = FALSE
             /\ Op(1).move # Op(1).path /\ Plan(1) = plan[1][n]
             /\ IF Halfway THEN Arrived(n) ELSE Untouched(n)
  <2>1. Busy(1)
    BY <1>5 DEF Busy
  <2>2. Op(1) \in Operations /\ n \in 1 .. Len(ops[1]) /\ Len(ops[1]) \in Nat
    BY <1>1, <1>4, <2>1, BusyFacts
  <2>3. Len(plan[1]) = Len(ops[1])
    <3>1. Stands(Call(1), pc[1], ops[1], at[1], plan[1]) /\ Call(1).tool = "patch"
      BY <1>1, AloneFacts DEF CallOK, Patches
    <3> QED BY <1>5, <3>1 DEF Stands
  <2>4. /\ ops[1][n].action = "update" => plan[1][n].content.absent = FALSE
        /\ ops[1][n].move # ops[1][n].path
    <3>1. Stands(Call(1), pc[1], ops[1], at[1], plan[1]) /\ Call(1).tool = "patch"
      BY <1>1, AloneFacts DEF CallOK, Patches
    <3> QED BY <2>2, <2>3, <3>1 DEF Stands
  <2>5. IF n < at[1] \/ (n = at[1] /\ Halfway) THEN Arrived(n) ELSE Untouched(n)
    BY <1>5, <2>2 DEF Progress
  <2>6. ~ (n < at[1])
    BY <1>4, <2>2
  <2> QED BY <1>4, <2>1, <2>2, <2>4, <2>5, <2>6 DEF Op, Plan
\* A check has found nothing wrong.
<1>6. ASSUME pc[1] \in Committing, ~Halfway, pc'[1] \in Committing, ~Halfway',
             UNCHANGED <<scenario, disk, ops, plan, at>>
      PROVE  Progress'
  <2>1. Untouched(n) /\ n \in 1 .. Len(ops[1])
    BY <1>5, <1>6
  <2>2. Untouched(n)'
    BY <1>6, <2>1, StillUntouched
  <2> QED BY <1>4, <1>6, <2>2, GoesProgress
<1>7. CASE Verify(1)
  <2>1. pc[1] = "verify" /\ UNCHANGED <<scenario, disk, ops, plan, at>>
    BY <1>7 DEF Verify
  <2>2. CASE disk[Op(1).path] # Plan(1).basis
    BY <1>7, <2>1, <2>2, EndProgress DEF Verify, Committing
  <2>3. CASE disk[Op(1).path] = Plan(1).basis
    <3>1. pc'[1] = IF Op(1).action = "delete" THEN "unlink"
                   ELSE IF Op(1).move # "" THEN "destination" ELSE "write"
      BY <1>1, <1>7, <2>3 DEF Verify
    <3>2. ~Halfway'
      BY <2>1, <3>1 DEF Halfway, Op
    <3> QED BY <1>6, <2>1, <3>1, <3>2 DEF Halfway, Committing
  <2> QED BY <2>2, <2>3
<1>8. CASE CheckDestination(1)
  <2>1. pc[1] = "destination" /\ UNCHANGED <<scenario, disk, ops, plan, at>>
    BY <1>8 DEF CheckDestination
  <2>2. CASE ~disk[Op(1).move].absent
    BY <1>8, <2>1, <2>2, EndProgress DEF CheckDestination, Committing
  <2>3. CASE disk[Op(1).move].absent
    <3>1. pc'[1] = "write"
      BY <1>1, <1>8, <2>3 DEF CheckDestination
    <3> QED BY <1>6, <2>1, <3>1 DEF Halfway, Committing
  <2> QED BY <2>2, <2>3
<1>9. CASE Write(1)
  <2>1. /\ pc[1] = "write" /\ Frame(1) /\ UNCHANGED <<ops, plan>> /\ Op(1) \in Operations
        /\ disk'[Target(Op(1))] = Plan(1).content
        /\ \A p \in Paths : p # Target(Op(1)) => disk'[p] = disk[p]
        /\ IF Op(1).move # "" THEN pc'[1] = "unlink" /\ UNCHANGED at ELSE Applied(1)
    BY <1>1, <1>9, WriteStep
  <2>2. \A p \in Paths \ PathsOf(Op(1)) : disk'[p] = disk[p]
    BY <2>1, OperationFacts
  <2>3. Arrived(n)'
    BY <1>5, <2>1 DEF Arrived, Target, Committing
  <2>4. CASE Op(1).move # ""
    <3>1. Op(1).action = "update"
      BY <2>1, <2>4, OperationFacts
    <3>2. Halfway'
      BY <2>1, <2>4, <3>1 DEF Halfway, Op
    <3> QED BY <1>4, <2>1, <2>2, <2>3, <2>4, <3>2, GoesProgress DEF Frame, Committing
  <2>5. CASE Op(1).move = ""
    BY <1>4, <2>1, <2>2, <2>3, <2>5, GoesProgress DEF Frame, Committing
  <2> QED BY <2>4, <2>5
<1>10. CASE Unlink(1)
  <2>1. /\ pc[1] = "unlink" /\ Frame(1) /\ UNCHANGED <<ops, plan>> /\ Op(1) \in Operations
        /\ (Op(1).action = "delete" \/ Op(1).move # "")
        /\ \A p \in Paths : p # Op(1).path => disk'[p] = disk[p]
        /\ (Fails(1) /\ disk' = disk) \/ Applied(1)
    BY <1>1, <1>10, UnlinkStep
  <2>2. CASE Fails(1) /\ disk' = disk
    BY <2>1, <2>2, EndProgress DEF Frame, Committing
  <2>3. CASE Applied(1)
    <3>1. \A p \in Paths \ PathsOf(Op(1)) : disk'[p] = disk[p]
      BY <2>1, OperationFacts
    <3>2. Arrived(n)'
      <4>1. CASE Op(1).action # "update"
        BY <1>5, <2>1, <4>1 DEF Arrived, Committing
      <4>2. CASE Op(1).action = "update"
        <5>1. Arrived(n) /\ Op(1) = ops[1][n] /\ n \in 1 .. Len(ops[1]) /\ Op(1).move # Op(1).path
          BY <1>5, <2>1, <4>2 DEF Halfway, Committing
        <5>2. Op(1).move # "" /\ Op(1).move \in Paths
          BY <2>1, <4>2 DEF Operations
        <5>3. disk'[Target(ops[1][n])] = disk[Target(ops[1][n])]
          BY <2>1, <5>1, <5>2 DEF Target
        <5> QED BY <2>1, <5>1, <5>3, StillArrived
      <4> QED BY <4>1, <4>2
    <3> QED BY <1>4, <2>1, <2>3, <3>1, <3>2, GoesProgress DEF Frame, Committing
  <2> QED BY <2>1, <2>2, <2>3
<1>11. CASE WriteFile(1)
  BY <1>1, <1>11 DEF WriteFile, Patches
<1>12. CASE IOError(1)
  BY <1>12, EndProgress DEF IOError, Committing
<1>13. CASE Cancel(1)
  BY <1>13 DEF Cancel, Alone
<1> QED BY <1>2, <1>3, <1>7, <1>8, <1>9, <1>10, <1>11, <1>12, <1>13 DEF StepOf

-----------------------------------------------------------------------------
(* PatchFiles: the theorems                                                *)

LEMMA FilesInitial == ASSUME FilesInit PROVE FilesInv
<1>1. PICK s \in Scenarios :
        /\ scenario = s /\ disk = s.files
        /\ pc = [a \in DOMAIN s.calls |-> "called"]
        /\ ops = [a \in DOMAIN s.calls |-> <<>>]
        /\ plan = [a \in DOMAIN s.calls |-> <<>>]
        /\ at = [a \in DOMAIN s.calls |-> 1]
        /\ results = [a \in DOMAIN s.calls |-> <<>>]
        /\ cancels = {} /\ lock = 0 /\ writes = {} /\ faults = 0
  BY DEF FilesInit
<1>2. /\ DOMAIN s.files = Paths /\ \A p \in Paths : IsFile(s.files[p])
      /\ DOMAIN s.calls = 1 .. Len(s.calls)
      /\ \A a \in DOMAIN s.calls : s.calls[a].tool \in {"patch", "write"}
  BY ScenariosAssumption DEF IsFile
<1>3. IsSeq(<<>>) /\ <<>> \in Seq(Operations) /\ Len(<<>>) = 0
  BY DEF IsSeq
<1>4. ASSUME NEW a \in Calls PROVE CallOK(a)
  <2>1. a \in DOMAIN s.calls /\ pc[a] = "called" /\ ops[a] = <<>> /\ plan[a] = <<>> /\ at[a] = 1
    BY <1>1 DEF Calls
  <2> QED BY <1>3, <2>1 DEF CallOK, Stands, Committing
<1>5. FilesOK
  BY <1>1, <1>2, <1>4 DEF FilesOK, Calls
<1>6. \A a \in Calls : pc[a] = "called"
  BY <1>1 DEF Calls
<1>7. Exclusive /\ Checked
  BY <1>6 DEF Exclusive, Checked, Verified, Busy, Committing
<1>8. LostOnlyAfterCancel
  BY <1>1 DEF LostOnlyAfterCancel
<1>9. Alone => Progress
  <2> SUFFICES ASSUME Alone PROVE Progress
    OBVIOUS
  <2>1. 1 \in Calls
    BY <1>5, AloneFacts
  <2>2. pc[1] = "called" /\ Len(plan[1]) = 0
    BY <1>1, <1>3, <2>1 DEF Calls
  <2>3. Apart
    BY <2>2 DEF Apart
  <2> QED BY <1>1, <2>2, <2>3 DEF Progress, Committing
<1> QED BY <1>5, <1>7, <1>8, <1>9 DEF FilesInv

LEMMA FilesInductive == ASSUME FilesInv, [FilesNext]_filesVars PROVE FilesInv'
<1>1. CASE FilesNext
  <2>1. PICK a \in Calls : StepOf(a)
    BY <1>1 DEF FilesNext, StepOf
  <2>2. FilesOK' /\ Locking' /\ LostOnlyAfterCancel'
    BY <2>1, FilesStep, LockingStep, LostStep DEF FilesInv, Locking
  <2>3. scenario' = scenario
    BY <2>1, StepFrame DEF StepOf, Frame, FilesInv
  <2>4. Alone' => Progress'
    <3> SUFFICES ASSUME Alone' PROVE Progress'
      OBVIOUS
    <3>1. Alone
      BY <2>3 DEF Alone, Call
    <3>2. a = 1 /\ FilesOK /\ Progress
      BY <3>1, AloneFacts DEF FilesInv
    <3> QED BY <2>1, <2>2, <3>1, <3>2, ProgressStep
  <2> QED BY <2>2, <2>4 DEF FilesInv, Locking
<1>2. CASE UNCHANGED filesVars
  <2>1. UNCHANGED <<scenario, disk, pc, ops, plan, at, results, cancels, lock, writes>>
    BY <1>2 DEF filesVars
  <2>2. FilesOK'
    <3>1. Calls' = Calls /\ \A a \in Calls : CallOK(a) <=> CallOK(a)'
      BY <2>1 DEF Calls, CallOK, Call
    <3>2. disk' = disk /\ \A p \in Paths : IsFile(disk'[p])
      BY <2>1 DEF FilesInv, FilesOK
    <3> QED BY <2>1, <3>1, <3>2 DEF FilesInv, FilesOK
  <2>3. Exclusive' /\ Checked' /\ LostOnlyAfterCancel'
    <3>1. Calls' = Calls
      BY <2>1 DEF Calls
    <3>2. ASSUME NEW a PROVE (Busy(a) <=> Busy(a)') /\ (Patches(a) <=> Patches(a)')
      BY <2>1 DEF Busy, Committing, Patches, Call
    <3>3. ASSUME NEW a PROVE Verified(a) <=> Verified(a)'
      <4>1. Op(a)' = Op(a) /\ Plan(a)' = Plan(a)
        BY <2>1 DEF Op, Plan
      <4> QED BY <2>1, <4>1 DEF Verified, Target
    <3>4. Exclusive' /\ Checked'
      <4>1. Exclusive => Exclusive'
        BY <2>1, <3>1, <3>2 DEF Exclusive
      <4>2. Checked => Checked'
        BY <2>1, <3>1, <3>2, <3>3 DEF Checked
      <4> QED BY <4>1, <4>2 DEF FilesInv
    <3> QED BY <2>1, <3>4 DEF FilesInv, LostOnlyAfterCancel
  <2>4. Alone' => Progress'
    <3>1. (Alone <=> Alone') /\ (Apart <=> Apart') /\ (Halfway <=> Halfway')
      BY <2>1 DEF Alone, Call, Apart, Halfway, PathsOf, Op
    <3>2. ASSUME NEW k PROVE (Untouched(k) <=> Untouched(k)') /\ (Arrived(k) <=> Arrived(k)')
      BY <2>1 DEF Untouched, Arrived, PathsOf
    <3>3. Progress => Progress'
      BY <2>1, <3>1, <3>2 DEF Progress
    <3> QED BY <3>1, <3>3 DEF FilesInv
  <2> QED BY <2>2, <2>3, <2>4 DEF FilesInv
<1> QED BY <1>1, <1>2

LEMMA FilesAlways == FilesSpec => []FilesInv
  BY FilesInitial, FilesInductive, PTL DEF FilesSpec

\* However many calls of apply_patch and data_write there are, and whatever fails, a
\* patch replaces and deletes no file but the one it was planned on, and neither tool
\* changes a file while another call is at work, unless a call was cancelled before,
\* whose thread goes on without the lock.
THEOREM NoBlindOverwrite == FilesSpec => []LostOnlyAfterCancel
<1>1. FilesInv => LostOnlyAfterCancel
  BY DEF FilesInv
<1> QED BY <1>1, FilesAlways, PTL

\* At every point of a patch that is alone, of any number of operations on any files, a
\* file it updates is there, at its path or where it is moved to, and an operation
\* reported as not applied has touched nothing.
THEOREM FilesStay == FilesSpec => []NothingVanishes
<1>1. FilesInv => NothingVanishes
  <2> SUFFICES ASSUME FilesInv, Alone, ops[1] # <<>>, NEW k \in DOMAIN ops[1]
               PROVE  LET op == ops[1][k] old == scenario.files[op.path] IN
                        /\ ~old.absent /\ op.action = "update" =>
                             \/ ~disk[op.path].absent
                             \/ op.move # "" /\ disk[op.move] = plan[1][k].content
                        /\ pc[1] = "done" /\ results[1][k] = "not applied" =>
                             \A p \in PathsOf(op) : disk[p] = scenario.files[p]
    BY DEF NothingVanishes
  <2>1. /\ FilesOK /\ Progress /\ k \in 1 .. Len(ops[1]) /\ ops[1][k] \in Operations /\ CallOK(1)
    BY AloneFacts DEF FilesInv
  <2>2. ops[1][k].path \in PathsOf(ops[1][k]) /\ PathsOf(ops[1][k]) \subseteq Paths
    BY <2>1, OperationFacts
  <2>3. pc[1] \in {"plan", "done"} \cup Committing
    BY <2>1 DEF CallOK, Stands
  <2>4. Untouched(k) \/ Arrived(k)
    <3>1. CASE pc[1] = "plan"
      BY <2>1, <2>2, <3>1 DEF Progress, Untouched
    <3>2. CASE pc[1] # "plan"
      BY <2>1, <2>3, <3>2 DEF Progress
    <3> QED BY <3>1, <3>2
  <2>5. pc[1] = "done" /\ results[1][k] = "not applied" => Untouched(k)
    BY <2>1 DEF Progress
  <2> QED BY <2>2, <2>4, <2>5 DEF Untouched, Arrived
<1> QED BY <1>1, FilesAlways, PTL
=============================================================================
