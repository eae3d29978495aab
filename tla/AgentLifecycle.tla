--------------------------- MODULE AgentLifecycle ---------------------------
(***************************************************************************)
(* core/agent/lifecycle.py with the calls of core/agent/agent.py that      *)
(* drive it: messages and runs that start the agent lazily                 *)
(* (_ensure_started), extension operations, and stop().  Each of them is a *)
(* task of its own (Procs); one action is one stretch between two awaits,  *)
(* and a component may fail in start(), refresh() or stop().               *)
(*                                                                         *)
(* The core components are always there; of the extensions, Part defines a *)
(* lifecycle component of its own, whose key is Part.  A component that is *)
(* a Manager scans the modules of its scope; loads tell the objects of one *)
(* import of a module from those of the next.  The extensions start() adds *)
(* by default are left out, and so are cancellations of these calls.       *)
(***************************************************************************)
EXTENDS Naturals, Sequences, FiniteSets, SequencesExt

CONSTANTS
  Procs,     \* the tasks that call the agent
  Calls,     \* Calls[p]: the calls p makes: "ensure", "add", "remove", "reload", "stop"
  Exts,      \* the extensions
  Part,      \* the extension that defines a lifecycle component
  Order,     \* the keys of the components in the order of resolve_order()
  Managers,  \* the keys of the components that are Managers
  MaxCalls,  \* MaxCalls[p]: bound on the calls of p
  MaxLoads   \* bound on the imports of a module

Operations == {"add", "remove", "reload"}

ASSUME LifecycleAssumption ==
  /\ Calls \in [Procs -> SUBSET (Operations \cup {"ensure", "stop"})]
  /\ Part \in Exts
  /\ Order \in Seq(ToSet(Order)) /\ IsInjective(Order) /\ Part \in ToSet(Order)
  /\ Managers \subseteq ToSet(Order)
  /\ MaxCalls \in [Procs -> Nat] /\ MaxLoads \in Nat

VARIABLES
  load,   \* load[x]: which import of x is in sys.modules, 0 for none
  class,  \* which import of Part has registered its component class last
  lc,     \* AgentLifecycle, its components and the scope of the ExtensionRuntime
  agent,  \* Agent._started
  proc    \* the tasks

vars == <<load, class, lc, agent, proc>>

\* A component is its key and, for those of Part, how many there were before it.
Core == {<<k, 0>> : k \in ToSet(Order) \ {Part}}

NewComponent(import) == [
  class |-> import, \* the import of Part it is an instance of
  up |-> 0,         \* start() calls since the last stop(), those of `left` aside
  left |-> FALSE,   \* a rollback has broken off that should have stopped it (history)
  open |-> TRUE,    \* Source.available
  wired |-> FALSE,  \* a set_scope() has reached it
  seen |-> {}]      \* what its last scan found

\* `for child in list`: a list of its own, or the current _children itself.
NoIter == [own |-> TRUE, list |-> <<>>, at |-> 0]

\* Where a task is: outside, waiting for the start lock, in the stop() of a
\* component sync_registered() removes, in the start() of a component, in the
\* stop() of one that is rolled back, in the ON_AGENT_START hooks, waiting for
\* the refresh lock, in a refresh(), in a stop(), in runner.stop().
Places == {"idle", "ready", "unregister", "starting", "rollback", "hook",
           "wait", "refreshing", "stopping", "draining"}

NewProc == [
  pc |-> "idle",
  call |-> "none",
  phase |-> "none",     \* what _ensure_started() is doing: "start", then "refresh"
  before |-> <<>>,      \* original_scope of an operation
  synced |-> FALSE,     \* that was the scope set_scope() had handed on last (history)
  active |-> 0,         \* the registration of Part sync_registered() found, 0 for none
  done |-> <<>>,        \* started_children
  hand |-> <<>>,        \* the component whose stop() a rollback or stop() awaits
  outcome |-> "none",   \* how the last call ended
  calls |-> 0,          \* calls made (bounded)
  alone |-> FALSE]      \* no other task has moved since the call began (history)

\* The place of a component in the order of resolve_order().
Rank(c) == CHOOSE n \in DOMAIN Order : Order[n] = c[1]

Precedes(c, d) == Rank(c) < Rank(d) \/ (Rank(c) = Rank(d) /\ c[2] < d[2])

\* resolve_order(): components in the order of their keys, older ones of a key first.
Sorted(list) ==
  CHOOSE s \in [1 .. Cardinality(ToSet(list)) -> ToSet(list)] :
    \A m, n \in DOMAIN s : m < n => Precedes(s[m], s[n])

Init ==
  /\ load = [x \in Exts |-> 0]
  /\ class = 0
  /\ lc = [scope |-> <<>>,
           children |-> Sorted(SetToSeq(Core)),
           registered |-> 0,   \* _registered_children[Part]: its number, 0 for absent
           made |-> 0,         \* the components of Part made so far
           started |-> FALSE,
           changed |-> FALSE,
           last |-> <<>>,      \* _last_scope
           given |-> <<>>,     \* the list the Managers have been given
           shared |-> FALSE,   \* that list is the scope itself, not a copy
           iter |-> [p \in Procs |-> NoIter],
           comp |-> [c \in Core |-> [NewComponent(0) EXCEPT !.wired = TRUE]]]
  /\ agent = FALSE
  /\ proc = [p \in Procs |-> NewProc]

-----------------------------------------------------------------------------
(* What one stretch of code does to the lifecycle l                        *)

IsManager(c) == c[1] \in Managers

\* _notify_change(): on_change is set while the component is a child.
Noticed(l, c, seen) ==
  [l EXCEPT !.comp[c].seen = seen,
            !.changed = @ \/ (seen # l.comp[c].seen /\ Contains(l.children, c))]

\* Manager.scan(): the modules of the scope, as long as the source is available.
Visible(l, c) ==
  IF l.comp[c].open /\ l.comp[c].wired
  THEN {<<x, load[x]>> : x \in ToSet(l.given)} ELSE {}

Refreshed(l, c) == IF IsManager(c) THEN Noticed(l, c, Visible(l, c)) ELSE l

Started(l, c) ==
  Refreshed([l EXCEPT !.comp[c].up = @ + 1, !.comp[c].open = TRUE], c)

Stopped(l, c) ==
  LET down == [l EXCEPT !.comp[c].up = 0, !.comp[c].left = FALSE, !.comp[c].open = FALSE]
  IN IF IsManager(c) THEN Noticed(down, c, {}) ELSE down

\* What a rollback that breaks off has still to stop stays up.
Abandoned(l, done) ==
  [l EXCEPT !.comp = [c \in DOMAIN @ |->
     IF c \in ToSet(done) THEN [@[c] EXCEPT !.up = 0, !.left = TRUE] ELSE @[c]]]

\* _children is changed in place to `list`, which loops over it notice, and then
\* replaced by a sorted copy, which they do not.
Rebound(l, list) ==
  [l EXCEPT !.children = Sorted(list),
            !.iter = [p \in Procs |->
              IF l.iter[p].own \/ Len(list) < 2 THEN l.iter[p]
              ELSE [own |-> TRUE, list |-> list, at |-> l.iter[p].at]]]

\* register() and _remove_child()
Registered(l, import) ==
  LET new == <<Part, l.made + 1>>
      made == [l EXCEPT !.made = @ + 1, !.registered = l.made + 1,
                        !.comp = [c \in DOMAIN @ \cup {new} |->
                          IF c = new THEN NewComponent(import) ELSE @[c]]]
  IN Rebound(made, Append(l.children, new))

Removed(l, c) ==
  [Rebound(l, RemoveFirst(l.children, c)) EXCEPT !.registered = 0]

\* Mutant of Rescoped: nothing is marked as changed.
RescopedUnmarked(l) ==
  IF l.scope = l.last THEN l
  ELSE [l EXCEPT !.last = l.scope, !.given = l.scope, !.shared = TRUE,
          !.comp = [c \in DOMAIN l.comp |->
            IF Contains(l.children, c) /\ IsManager(c)
            THEN [l.comp[c] EXCEPT !.wired = TRUE] ELSE l.comp[c]]]

\* set_scope(), which hands on the list of the ExtensionRuntime itself.
Rescoped(l) ==
  IF l.scope = l.last THEN l
  ELSE [l EXCEPT !.last = l.scope, !.given = l.scope, !.shared = TRUE, !.changed = TRUE,
          !.comp = [c \in DOMAIN l.comp |->
            IF Contains(l.children, c) /\ IsManager(c)
            THEN [l.comp[c] EXCEPT !.wired = TRUE] ELSE l.comp[c]]]

\* The list a task iterates over, and the loop begun.
List(l, p) == IF l.iter[p].own THEN l.iter[p].list ELSE l.children
Looping(l, p, at) == [l EXCEPT !.iter[p] = [own |-> FALSE, list |-> <<>>, at |-> at]]

-----------------------------------------------------------------------------
(* How a stretch ends                                                      *)

Turn(p, state) ==
  proc' = [q \in Procs |-> IF q = p THEN state ELSE [proc[q] EXCEPT !.alone = FALSE]]

Ended(p, r, l, outcome) ==
  /\ lc' = [l EXCEPT !.iter[p] = NoIter]
  /\ Turn(p, [r EXCEPT !.pc = "idle", !.phase = "none", !.active = 0,
                       !.done = <<>>, !.hand = <<>>, !.outcome = outcome])

Return(p, r, l) == Ended(p, r, l, "returned")

\* An operation that fails puts the scope back that it has found, as a new list.
Raise(p, r, l) ==
  Ended(p, r, IF r.call \in Operations
              THEN [l EXCEPT !.scope = r.before, !.shared = FALSE] ELSE l, "failed")

\* AgentLifecycle.start(): the next component is started, or all of them are.
StartNext(p, r, l) ==
  LET n == l.iter[p].at + 1
      c == List(l, p)[n]
  IN IF n <= Len(List(l, p))
     THEN /\ lc' = Started([l EXCEPT !.iter[p].at = n], c)
          /\ Turn(p, [r EXCEPT !.pc = "starting", !.done = Append(@, c)])
     ELSE /\ lc' = [l EXCEPT !.started = TRUE, !.changed = FALSE, !.iter[p] = NoIter]
          /\ Turn(p, [r EXCEPT !.pc = "hook", !.done = <<>>])

\* AgentLifecycle.refresh(): the same, with the lock held.
RefreshNext(p, r, l) ==
  LET n == l.iter[p].at + 1
  IN IF n <= Len(List(l, p))
     THEN /\ lc' = Refreshed([l EXCEPT !.iter[p].at = n], List(l, p)[n])
          /\ Turn(p, [r EXCEPT !.pc = "refreshing"])
     ELSE Return(p, r, [l EXCEPT !.changed = FALSE])

\* AgentLifecycle.stop(): the loop runs backwards.
StopNext(p, r, l) ==
  LET n == l.iter[p].at
  IN IF n \in DOMAIN List(l, p)
     THEN /\ lc' = Stopped([l EXCEPT !.iter[p].at = n - 1], List(l, p)[n])
          /\ Turn(p, [r EXCEPT !.pc = "stopping", !.hand = List(l, p)[n]])
     ELSE /\ lc' = [l EXCEPT !.started = FALSE, !.iter[p] = NoIter]
          /\ Turn(p, [r EXCEPT !.pc = "draining"])

\* Mutant of Rescope: start() does not look whether it has been called.
RescopeStarting(p, r, l) ==
  LET m == Rescoped(l)
  IN IF r.phase = "start"
     THEN StartNext(p, r, Looping(Rebound(m, m.children), p, 0))
     ELSE IF r.call = "ensure" \/ agent
          THEN lc' = m /\ Turn(p, [r EXCEPT !.pc = "wait"])
          ELSE Return(p, r, m)

\* After sync_registered(): hand on the scope, and start or refresh.
Rescope(p, r, l) ==
  LET m == Rescoped(l)
  IN IF r.phase = "start"
     THEN IF m.started
          THEN lc' = m /\ Turn(p, [r EXCEPT !.pc = "hook"])
          ELSE StartNext(p, r, Looping(Rebound(m, m.children), p, 0))
     ELSE IF r.call = "ensure" \/ agent
          THEN lc' = m /\ Turn(p, [r EXCEPT !.pc = "wait"])
          ELSE Return(p, r, m)

\* Mutant of Complete: it does not look for a component of the same key.
CompleteUnchecked(p, r, l) ==
  IF r.active # 0
  THEN Raise(p, r, l) \/ Rescope(p, r, Registered(l, r.active))
  ELSE Rescope(p, r, l)

\* The second half of sync_registered(): make what is missing.  A constructor
\* may fail.
Complete(p, r, l) ==
  IF r.active # 0 /\ l.registered = 0 /\ \A c \in ToSet(l.children) : c[1] # Part
  THEN Raise(p, r, l) \/ Rescope(p, r, Registered(l, r.active))
  ELSE Rescope(p, r, l)

\* sync_registered(): remove the component of Part if its module has left the
\* scope or has registered another class.  Only a started one is stopped.
Sync(p, r, l) ==
  LET active == IF Contains(l.scope, Part) THEN class' ELSE 0
      child == <<Part, l.registered>>
      s == [r EXCEPT !.active = active]
  IN IF l.registered = 0 \/ l.comp[child].class = active THEN Complete(p, s, l)
     ELSE IF l.started
     THEN /\ lc' = Stopped(l, child)
          /\ Turn(p, [s EXCEPT !.pc = "unregister", !.done = <<child>>])
     ELSE Complete(p, s, Removed(l, child))

-----------------------------------------------------------------------------
(* The calls                                                               *)

At(p, place) == proc[p].pc = place

\* The task's record when it begins a call.
Called(p, call) ==
  [proc[p] EXCEPT !.call = call, !.calls = @ + 1, !.before = lc.scope,
                  !.synced = lc.scope = lc.last, !.outcome = "none",
                  !.alone = \A q \in Procs \ {p} : At(q, "idle")]

Begins(p, call) ==
  /\ At(p, "idle")
  /\ call \in Calls[p]
  /\ proc[p].calls < MaxCalls[p]

\* An import of x can be counted.
Importable(x) == load[x] < MaxLoads /\ (x = Part => class < MaxLoads)

Imported(x) ==
  /\ load' = [load EXCEPT ![x] = @ + 1]
  /\ class' = IF x = Part THEN class + 1 ELSE class

\* _apply_extensions(): a module is added to the list in place; otherwise the
\* list is a new one.
AddExtension(p, x) ==
  /\ Begins(p, "add")
  /\ UNCHANGED agent
  /\ \/ load[x] = 0 /\ Importable(x) /\ Imported(x)
     \/ load[x] > 0 /\ UNCHANGED <<load, class>>
  /\ LET s == IF Contains(lc.scope, x) THEN lc.scope ELSE Append(lc.scope, x)
     IN Sync(p, Called(p, "add"),
             [lc EXCEPT !.scope = s, !.given = IF lc.shared THEN s ELSE @])

RemoveExtension(p, x) ==
  /\ Begins(p, "remove")
  /\ Contains(lc.scope, x)
  /\ UNCHANGED <<load, class, agent>>
  /\ Sync(p, Called(p, "remove"), [lc EXCEPT !.scope = RemoveFirst(@, x), !.shared = FALSE])

\* The reloaded module comes to the end of the scope.
ReloadExtension(p, x) ==
  /\ Begins(p, "reload")
  /\ Importable(x) /\ Imported(x)
  /\ UNCHANGED agent
  /\ Sync(p, Called(p, "reload"),
          [lc EXCEPT !.scope = Append(RemoveFirst(@, x), x), !.shared = FALSE])

\* The import of the module fails.  What it had registered before it failed
\* stays registered.
ImportFails(p, x) ==
  \E call \in {"add", "reload"} :
    /\ Begins(p, call)
    /\ call = "add" => load[x] = 0
    /\ Importable(x)
    /\ class' \in IF x = Part THEN {class, class + 1} ELSE {class}
    /\ Raise(p, Called(p, call), lc)
    /\ UNCHANGED <<load, agent>>

\* _ensure_started(), before a message is handled, a run begins or is submitted.
Ensure(p) ==
  /\ Begins(p, "ensure")
  /\ Turn(p, [Called(p, "ensure") EXCEPT !.pc = "ready"])
  /\ UNCHANGED <<load, class, lc, agent>>

\* stop(), which takes no lock.  As `async with` does, it is called on an agent
\* that has been started.
Stop(p) ==
  /\ Begins(p, "stop")
  /\ agent
  /\ StopNext(p, Called(p, "stop"), Looping(lc, p, Len(lc.children)))
  /\ UNCHANGED <<load, class, agent>>

-----------------------------------------------------------------------------
(* What happens to a task at an await                                      *)

\* _start_lock is held from here to the end of the call, _refresh_lock in the
\* loop of refresh().
HasStartLock(q) == proc[q].call = "ensure" /\ proc[q].pc \notin {"idle", "ready"}

\* The start lock is free: start the agent, or only refresh it.
TakeStartLock(p) ==
  /\ At(p, "ready")
  /\ \A q \in Procs : ~HasStartLock(q)
  /\ UNCHANGED <<load, class, agent>>
  /\ Sync(p, [proc[p] EXCEPT !.phase = IF agent THEN "refresh" ELSE "start"], lc)

\* The stop() of the component that is to be removed ends.  Another task may
\* have removed it meanwhile: looking up its key raises KeyError.
Unregister(p) ==
  LET child == Head(proc[p].done)
      r == [proc[p] EXCEPT !.done = <<>>]
  IN /\ At(p, "unregister")
     /\ UNCHANGED <<load, class, agent>>
     /\ IF Contains(lc.children, child)
        THEN Complete(p, r, Removed(lc, child))
        ELSE Raise(p, r, lc)

ComponentStarts(p) ==
  /\ At(p, "starting")
  /\ StartNext(p, proc[p], lc)
  /\ UNCHANGED <<load, class, agent>>

\* Mutant of RollBack: the component that has failed is not stopped.
RollBackOthers(p) ==
  /\ \/ At(p, "starting")
     \/ At(p, "rollback") /\ proc[p].done # <<>>
  /\ lc' = IF At(p, "starting") THEN lc ELSE Stopped(lc, Last(proc[p].done))
  /\ Turn(p, [proc[p] EXCEPT !.pc = "rollback", !.done = Front(@), !.hand = Last(proc[p].done)])
  /\ UNCHANGED <<load, class, agent>>

\* start() of a component fails: what has been started, itself included, is
\* stopped in reverse order, whatever that raises, except as in RollBackBreaks.
RollBack(p) ==
  /\ \/ At(p, "starting")
     \/ At(p, "rollback") /\ proc[p].done # <<>>
  /\ lc' = Stopped(lc, Last(proc[p].done))
  /\ Turn(p, [proc[p] EXCEPT !.pc = "rollback", !.done = Front(@), !.hand = Last(proc[p].done)])
  /\ UNCHANGED <<load, class, agent>>

RolledBack(p) ==
  /\ At(p, "rollback")
  /\ proc[p].done = <<>>
  /\ Raise(p, proc[p], lc)
  /\ UNCHANGED <<load, class, agent>>

\* A component's stop() fails that another task has removed meanwhile: the handler
\* looks its key up, a KeyError, and the rollback ends there.
RollBackBreaks(p) ==
  /\ At(p, "rollback")
  /\ ~Contains(lc.children, proc[p].hand)
  /\ Raise(p, proc[p], Abandoned(lc, proc[p].done))
  /\ UNCHANGED <<load, class, agent>>

\* The ON_AGENT_START hooks succeed: the agent is started, and refreshed.
HooksEnd(p) ==
  /\ At(p, "hook")
  /\ agent' = TRUE
  /\ UNCHANGED <<load, class>>
  /\ Sync(p, [proc[p] EXCEPT !.phase = "refresh"], lc)

\* The refresh lock is free: nothing to do, or the first component.
TakeRefreshLock(p) ==
  /\ At(p, "wait")
  /\ \A q \in Procs : ~At(q, "refreshing")
  /\ IF lc.changed
     THEN RefreshNext(p, proc[p], Looping(Rebound(lc, lc.children), p, 0))
     ELSE Return(p, proc[p], lc)
  /\ UNCHANGED <<load, class, agent>>

ComponentRefreshes(p) ==
  /\ At(p, "refreshing")
  /\ RefreshNext(p, proc[p], lc)
  /\ UNCHANGED <<load, class, agent>>

\* The key of a component that another task has removed meanwhile is looked up too.
ComponentStops(p) ==
  /\ At(p, "stopping")
  /\ IF Contains(lc.children, proc[p].hand)
     THEN StopNext(p, proc[p], lc)
     ELSE Raise(p, proc[p], lc)
  /\ UNCHANGED <<load, class, agent>>

\* runner.stop() ends.
Drained(p) ==
  /\ At(p, "draining")
  /\ agent' = FALSE
  /\ Return(p, proc[p], lc)
  /\ UNCHANGED <<load, class>>

\* A hook, or a component's stop() or refresh(), raises an exception.
Fails(p) ==
  /\ proc[p].pc \in {"unregister", "hook", "refreshing", "stopping"}
  /\ Raise(p, proc[p], lc)
  /\ UNCHANGED <<load, class, agent>>

-----------------------------------------------------------------------------
Begin(p) ==
  \/ Ensure(p) \/ Stop(p)
  \/ \E x \in Exts : \/ AddExtension(p, x) \/ RemoveExtension(p, x)
                      \/ ReloadExtension(p, x) \/ ImportFails(p, x)

Proceed(p) ==
  \/ TakeStartLock(p) \/ Unregister(p) \/ ComponentStarts(p) \/ RollBack(p)
  \/ RolledBack(p) \/ RollBackBreaks(p) \/ HooksEnd(p) \/ TakeRefreshLock(p) \/ ComponentRefreshes(p)
  \/ ComponentStops(p) \/ Drained(p) \/ Fails(p)

Next == \E p \in Procs : Begin(p) \/ Proceed(p)

Spec == Init /\ [][Next]_vars

-----------------------------------------------------------------------------
(* Properties                                                              *)

\* The state is what the code's annotations say it is.
TypeOK ==
  /\ ToSet(lc.scope) \subseteq Exts /\ IsInjective(lc.scope)
  /\ ToSet(lc.last) \cup ToSet(lc.given) \subseteq Exts
  /\ lc.registered \in 0..lc.made
  /\ DOMAIN lc.comp = Core \cup ({Part} \X (1..lc.made))
  /\ ToSet(lc.children) \subseteq DOMAIN lc.comp
  /\ \A c \in DOMAIN lc.comp : lc.comp[c].up \in Nat /\ lc.comp[c].class \in 0..MaxLoads
  /\ \A p \in Procs : proc[p].pc \in Places

\* However operations, messages and stop() interleave, _children holds one
\* component per key, the core ones among them, and _registered_children names
\* the one of Part: none is orphaned there, where no later sync would remove it.
OneComponentPerKey ==
  /\ \A a, b \in ToSet(lc.children) : a[1] = b[1] => a = b
  /\ Core \subseteq ToSet(lc.children)
  /\ {c \in ToSet(lc.children) : c[1] = Part} =
       IF lc.registered = 0 THEN {} ELSE {<<Part, lc.registered>>}

\* No component gets a second start() before its stop(), also when a start has
\* failed half-way or in its hooks and is tried again.  Only one that a broken
\* rollback has left up (core/agent/lifecycle.py:216) is started over, and that once.
StartedOnce == \A c \in DOMAIN lc.comp : lc.comp[c].up <= 1

\* Once every call has ended, a lifecycle that is not started has no component
\* left that is: the failed start has stopped its own, stop() all of them,
\* whatever was removed from the list while they went through it.  Those that a
\* broken rollback has left are not counted.
NothingListedIsUp ==
  (~lc.started /\ \A p \in Procs : At(p, "idle")) =>
    \A c \in ToSet(lc.children) : lc.comp[c].up = 0

\* After an operation of `kinds` that succeeded on a started agent, with no other
\* call in between, the components and what the Managers have found are those of
\* the scope.
Refreshes(p, kinds) ==
  (/\ At(p, "idle") /\ proc[p].call \in kinds
   /\ proc[p].outcome = "returned" /\ proc[p].alone /\ agent) =>
  /\ lc.registered # 0 <=> Contains(lc.scope, Part)
  /\ \A c \in ToSet(lc.children) : (IsManager(c) /\ lc.comp[c].open) =>
       lc.comp[c].seen = {<<x, load[x]>> : x \in ToSet(lc.scope)}

\* builtin/self_extension/guides/runtime.md:26: "a successful operation refreshes
\* active managers and services".  It does when it changes the scope and began with
\* the scope that was handed on last: whatever calls have failed or overlapped before,
\* the last of those that handed one on has kept it, or a message has come since.
UndisturbedOperationRefreshes ==
  \A p \in Procs :
    proc[p].synced /\ proc[p].before # lc.scope => Refreshes(p, {"add", "remove"})

=============================================================================
