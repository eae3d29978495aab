------------------------------ MODULE Dispatch ------------------------------
(***************************************************************************)
(* The hooks, instructions and tools of Python modules: components/hook.py, *)
(* instruction.py and tool.py over the PythonSource and the Manager they   *)
(* share.  A source keeps the functions of its last scan by id; a manager  *)
(* keeps descriptors, which an equal fingerprint leaves in place, and for  *)
(* hooks an index in the order of resolve_order().  A run fires an event:  *)
(* it takes the list of the index and goes through it across awaits, while *)
(* an extension operation, a refresh or a stop goes through the managers.  *)
(*                                                                         *)
(* One such operation is made at a time (AgentLifecycle has them           *)
(* interleave) and one run at a time.  An instruction is a hook whose      *)
(* event is the collection of the instructions.  Scopes hold modules only: *)
(* declarations added directly are left out, and so are failing imports.   *)
(***************************************************************************)
EXTENDS Integers, Sequences, FiniteSets, Ordering

CONSTANTS
  Modules,   \* the extension modules
  Decls,     \* Decls[m][v]: the declarations of version v of m, in order
  Events,    \* the events that hooks are fired for
  Arguments, \* the arguments of tool calls: records of args and kwargs
  MaxFires,  \* bound on the firings of the run
  Ctx, Default, TypeError,
  Refused    \* a tool that is not there, is there twice or has no function

LOCAL INSTANCE SequencesExt
INSTANCE ToolBinding

\* The managers that have a PythonSource, in the order in which they are refreshed.
Kinds == <<"tool", "hook">>

ASSUME DispatchAssumption ==
  /\ MaxFires \in Nat
  /\ \A m \in Modules : \A v \in DOMAIN Decls[m] : \A d \in ToSet(Decls[m][v]) :
       /\ d.kind \in ToSet(Kinds)
       /\ d.kind = "hook" => d.event \in Events

VARIABLES
  loaded,    \* loaded[m]: the version of m in sys.modules, 0 for none
  scope,     \* the scope of the agent, the one the sources have, and _last_scope
  functions, \* functions[k]: the functions of a source by id, with their version
  available, \* available[k]: Source.available
  listed,    \* listed[k]: the descriptors of a manager in the order of its dict
  index,     \* HookManager._handlers
  changed,   \* AgentLifecycle._changed
  op,        \* the operation under way
  run        \* the run

vars == <<loaded, scope, functions, available, listed, index, changed, op, run>>

Nothing == [x \in {} |-> x]
Idle == [pc |-> "idle", at |-> 0, before |-> <<>>,
         settled |-> FALSE] \* the last operation has scanned every manager (history)
NoRun == [pc |-> "idle", list |-> <<>>, at |-> 0, replaced |-> FALSE,
          ran |-> <<>>, fires |-> 0]

Init ==
  /\ loaded = [m \in Modules |-> 0]
  /\ scope = [agent |-> <<>>, given |-> <<>>, last |-> <<>>]
  /\ functions = [k \in ToSet(Kinds) |-> Nothing]
  /\ available = [k \in ToSet(Kinds) |-> TRUE]
  /\ listed = [k \in ToSet(Kinds) |-> <<>>]
  /\ index = [e \in Events |-> <<>>]
  /\ changed = FALSE
  /\ op = Idle
  /\ run = NoRun

-----------------------------------------------------------------------------
(* Sources and managers                                                    *)

\* iter_objects(): the declarations of kind k in the modules of the scope.
Objects(k) ==
  FlattenSeq([n \in DOMAIN scope.given |->
    LET m == scope.given[n]
        own == SelectSeq(Decls[m][loaded[m]], LAMBDA d : d.kind = k)
    IN [i \in DOMAIN own |-> [decl |-> own[i], version |-> loaded[m]]]])

\* build_descriptor() of a tool raises when its alias is not an identifier.
Rejected(object) == object.decl.kind = "tool" /\ object.decl.alias = "not valid"

\* The objects scan() comes to: up to the first that is rejected.
Reached(objects) ==
  LET bad == {n \in DOMAIN objects : Rejected(objects[n])}
  IN IF bad = {} THEN objects
     ELSE SubSeq(objects, 1, CHOOSE n \in bad : \A o \in bad : n <= o)

\* Mutant of FunctionsOf: the function of a descriptor that is known is kept.
FunctionsOfNew(k, objects) ==
  functions[k] @@ [id \in {o.decl.id : o \in ToSet(objects)} |->
    (CHOOSE o \in ToSet(objects) : o.decl.id = id).version]

\* _functions and _handlers are cleared and filled while scan() goes on, a
\* rejected object included.
FunctionsOf(k, objects) ==
  [id \in {o.decl.id : o \in ToSet(objects)} |->
    (CHOOSE o \in ToSet(objects) : o.decl.id = id).version]

\* What a descriptor tells of an object, its code excepted.
Descriptors(objects) == [n \in DOMAIN objects |-> objects[n].decl]

OfEvent(descriptors, e) == SelectSeq(descriptors, LAMBDA d : d.event = e)

\* HookManager._rebuild() and InstructionManager._rebuild()
Rebuilt(descriptors) == [e \in Events |-> ResolveOrder(OfEvent(descriptors, e))]

RebuildRaises(k, descriptors) ==
  k = "hook" /\ \E e \in Events : IsCyclic(OfEvent(descriptors, e))

\* The descriptors of kind k are replaced by others, or by fewer.
Replace(k, descriptors) ==
  /\ listed' = [listed EXCEPT ![k] = descriptors]
  /\ index' = IF k = "hook" THEN Rebuilt(descriptors) ELSE index
  /\ changed' = TRUE
  /\ run' = [run EXCEPT !.replaced = @ \/ k = "hook"]

\* Mutant of ScanFails: the descriptors of a failed rebuild are left in place.
ScanFailsForward(k, objects) ==
  /\ listed' = [listed EXCEPT ![k] = IF Reached(objects) = objects
                                     THEN Descriptors(objects) ELSE @]
  /\ UNCHANGED <<index, changed, run>>

\* A scan that raises, while it builds the descriptors or while it rebuilds
\* the index, leaves the manager as it was.
ScanFails(k, objects) == UNCHANGED <<listed, index, changed, run>>

\* Manager._calculate_fingerprint(): neither the order nor the code counts.
Fingerprint(descriptors) == ToSet(descriptors)

ScanRaises(k, objects) ==
  \/ \E o \in ToSet(objects) : Rejected(o)
  \/ /\ Fingerprint(Descriptors(objects)) # Fingerprint(listed[k])
     /\ RebuildRaises(k, Descriptors(objects))

\* Manager.scan(), which raises or not.
Scan(k, raises) ==
  LET objects == Objects(k)
      descriptors == Descriptors(objects)
  IN /\ raises = ScanRaises(k, objects)
     /\ functions' = [functions EXCEPT ![k] = FunctionsOf(k, Reached(objects))]
     /\ IF raises THEN ScanFails(k, objects)
        ELSE IF Fingerprint(descriptors) = Fingerprint(listed[k])
        THEN UNCHANGED <<listed, index, changed, run>>
        ELSE Replace(k, descriptors)

-----------------------------------------------------------------------------
(* Extension operations, refresh, stop and start                           *)

Change(given, load) ==
  /\ op.pc = "idle"
  /\ loaded' = load
  /\ scope' = [agent |-> given, given |-> given, last |-> given]
  /\ op' = [Idle EXCEPT !.pc = "refresh", !.at = 1, !.before = scope.agent]
  /\ changed' = (changed \/ given # scope.last)
  /\ UNCHANGED <<functions, available, listed, index, run>>

Started == \A k \in ToSet(Kinds) : available[k]

AddExtension(m) ==
  /\ Started
  /\ ~Contains(scope.agent, m)
  /\ Change(Append(scope.agent, m),
            IF loaded[m] = 0 THEN [loaded EXCEPT ![m] = 1] ELSE loaded)

RemoveExtension(m) ==
  /\ Started
  /\ Contains(scope.agent, m)
  /\ Change(Remove(scope.agent, m), loaded)

\* The next version of m is imported; it comes to the end of the scope.
ReloadExtension(m) ==
  /\ Started
  /\ Contains(scope.agent, m)
  /\ loaded[m] < Len(Decls[m])
  /\ Change(Append(Remove(scope.agent, m), m), [loaded EXCEPT ![m] = @ + 1])

\* refresh_extensions(), before a message or a run is handled.
Refresh ==
  /\ Started
  /\ Change(scope.agent, loaded)
  /\ changed'

\* AgentLifecycle.refresh() comes to the next manager.
RefreshManager ==
  /\ op.pc = "refresh"
  /\ op.at \in DOMAIN Kinds
  /\ changed
  /\ Scan(Kinds[op.at], FALSE)
  /\ op' = [op EXCEPT !.at = @ + 1]
  /\ UNCHANGED <<loaded, scope, available>>

\* The scan raises, and the operation puts the scope back it has found, as a
\* list the sources do not have.
RefreshFails ==
  /\ op.pc = "refresh"
  /\ op.at \in DOMAIN Kinds
  /\ changed
  /\ Scan(Kinds[op.at], TRUE)
  /\ scope' = [scope EXCEPT !.agent = op.before]
  /\ op' = Idle
  /\ UNCHANGED <<loaded, available>>

\* Nothing is refreshed while nothing has been marked as changed.
EndRefresh ==
  /\ \/ op.pc \in {"refresh", "start"} /\ op.at \notin DOMAIN Kinds
     \/ op.pc = "refresh" /\ ~changed
  /\ op' = [Idle EXCEPT !.settled = op.at \notin DOMAIN Kinds]
  /\ changed' = FALSE
  /\ UNCHANGED <<loaded, scope, functions, available, listed, index, run>>

\* stop(): the sources are invalidated, in reverse order.
Stop ==
  /\ op.pc = "idle"
  /\ Started
  /\ op' = [Idle EXCEPT !.pc = "stop", !.at = Len(Kinds)]
  /\ UNCHANGED <<loaded, scope, functions, available, listed, index, changed, run>>

StopManager ==
  LET k == Kinds[op.at]
  IN /\ op.pc = "stop"
     /\ op' = IF op.at = 1 THEN [Idle EXCEPT !.pc = "stopped"]
              ELSE [op EXCEPT !.at = @ - 1]
     /\ available' = [available EXCEPT ![k] = FALSE]
     /\ IF listed[k] = <<>> THEN UNCHANGED <<listed, index, changed, run>>
        ELSE Replace(k, <<>>)
     /\ UNCHANGED <<loaded, scope, functions>>

\* start(): each source is restored and scanned.
Start ==
  /\ op.pc = "stopped"
  /\ op' = [Idle EXCEPT !.pc = "start", !.at = 1]
  /\ scope' = [scope EXCEPT !.given = scope.agent, !.last = scope.agent]
  /\ UNCHANGED <<loaded, functions, available, listed, index, changed, run>>

\* A scan that raises has the managers stopped again.
StartManager ==
  LET k == Kinds[op.at]
  IN /\ op.pc = "start"
     /\ op.at \in DOMAIN Kinds
     /\ available' = [available EXCEPT ![k] = TRUE]
     /\ \E raises \in BOOLEAN :
          /\ Scan(k, raises)
          /\ op' = IF raises THEN [op EXCEPT !.pc = "stop"] ELSE [op EXCEPT !.at = @ + 1]
     /\ UNCHANGED <<loaded, scope>>

-----------------------------------------------------------------------------
(* A run                                                                   *)

Unmoved == UNCHANGED <<loaded, scope, functions, available, listed, index, changed, op>>

\* Mutant of EnsureCurrent: a descriptor with the same id will do.
EnsureCurrentById(descriptor) ==
  /\ \E d \in ToSet(listed["hook"]) : d.id = descriptor.id
  /\ available["hook"]

\* _ensure_current(): the very object is listed, and its source is available.
EnsureCurrent(descriptor) ==
  /\ ~run.replaced
  /\ descriptor \in ToSet(listed["hook"])
  /\ available["hook"]

\* HookManager.fire() and InstructionManager.collect() take the list of the index.
Fire(e) ==
  /\ run.pc = "idle"
  /\ run.fires < MaxFires
  /\ index[e] # <<>>
  /\ run' = [NoRun EXCEPT !.pc = "firing", !.list = index[e], !.fires = run.fires + 1]
  /\ Unmoved

NextHook == run.list[run.at + 1]

\* The next hook is invoked; it may raise at any time.
Invoke ==
  /\ run.pc = "firing"
  /\ run.at < Len(run.list)
  /\ EnsureCurrent(NextHook)
  /\ NextHook.id \in DOMAIN functions["hook"]
  /\ run' = [run EXCEPT !.at = @ + 1,
       !.ran = Append(@, [hook |-> NextHook, version |-> functions["hook"][NextHook.id]])]
  /\ Unmoved

\* A stale descriptor, an unavailable source, a function that is not owned.
InvokeFails ==
  /\ run.pc = "firing"
  /\ run.at < Len(run.list)
  /\ ~EnsureCurrent(NextHook) \/ NextHook.id \notin DOMAIN functions["hook"]
  /\ run' = [NoRun EXCEPT !.fires = run.fires]
  /\ Unmoved

\* The last hook has returned, or one has raised.
EndFire ==
  /\ run.pc = "firing"
  /\ run.at > 0
  /\ run' = [NoRun EXCEPT !.fires = run.fires]
  /\ Unmoved

\* resolve_alias_tool()
Resolved(alias, name) ==
  {d \in ToSet(listed["tool"]) : d.alias = alias /\ d.name = name}

SigOf(id) ==
  LET m == CHOOSE n \in Modules : \E v \in DOMAIN Decls[n] :
             \E d \in ToSet(Decls[n][v]) : d.id = id
      d == CHOOSE e \in ToSet(Decls[m][functions["tool"][id]]) : e.id = id
  IN d.sig

\* run.tools.alias.name(*args, **kwargs), which changes nothing here: what the
\* function of the one tool of that name gets, or the error.
Call(alias, name, call) ==
  IF Cardinality(Resolved(alias, name)) # 1 \/ ~available["tool"] THEN Refused
  ELSE LET d == CHOOSE e \in Resolved(alias, name) : TRUE
       IN IF d.id \notin DOMAIN functions["tool"] THEN Refused
          ELSE Proxied(d.sig, SigOf(d.id), call.args, call.kwargs)

Next ==
  \/ \E m \in Modules : AddExtension(m) \/ RemoveExtension(m) \/ ReloadExtension(m)
  \/ Refresh \/ RefreshManager \/ RefreshFails \/ EndRefresh
  \/ Stop \/ StopManager \/ Start \/ StartManager
  \/ \E e \in Events : Fire(e)
  \/ Invoke \/ InvokeFails \/ EndFire

Spec == Init /\ [][Next]_vars

-----------------------------------------------------------------------------
(* Properties                                                              *)

\* What `before` and `after` ask for, pair by pair.
MustPrecede(a, b) ==
  a # b /\ (a.before \cap b.aliases # {} \/ b.after \cap a.aliases # {})

\* d is declared before e, as far as the dict of the manager goes.
DeclaredBefore(d, e) ==
  \E m, n \in DOMAIN listed["hook"] :
    m < n /\ listed["hook"][m] = d /\ listed["hook"][n] = e

Outranks(d, e) ==
  d.priority > e.priority \/ (d.priority = e.priority /\ DeclaredBefore(d, e))

\* Whatever operations succeed, fail or are undone, the index holds exactly the
\* hooks that are listed; every constraint between them is met, and a hook comes
\* after one it outranks only for the sake of a constraint.  (HookManager._rebuild()
\* and resolve_order() against the rollback of Manager.scan() and invalidate().)
IndexIsRight ==
  \A e \in Events :
    LET hooks == index[e]
    IN /\ ToSet(hooks) = ToSet(OfEvent(listed["hook"], e))
       /\ Len(hooks) = Cardinality(ToSet(hooks))
       /\ \A i, j \in DOMAIN hooks : i < j =>
            /\ ~MustPrecede(hooks[j], hooks[i])
            /\ Outranks(hooks[j], hooks[i]) =>
                 \E n \in i..(j - 1) : MustPrecede(hooks[n], hooks[j])

\* Once an operation has gone through all managers, what a firing invokes, one
\* that began before it included, is a hook of a module in the scope, as the
\* module in sys.modules declares it, with the code of that module, although
\* an equal fingerprint leaves the descriptors in place.  (HookManager.fire() over
\* a list taken earlier, and PythonHookSource.scan().)
ActiveCodeRuns ==
  [][(op.settled /\ Len(run'.ran) > Len(run.ran)) =>
       LET step == Last(run'.ran)
       IN \E m \in ToSet(scope.agent) :
            /\ step.version = loaded[m]
            /\ step.hook \in ToSet(Decls[m][loaded[m]])]_vars

\* What a Python call of the function gives its parameters, injectables aside.
Intended(sig, args, kwargs, p) ==
  LET positional == SelectSeq(SignatureMetadata(sig), LAMBDA q : q.kind = "positional")
      place == {i \in DOMAIN positional : positional[i] = p /\ i <= Len(args)}
  IN IF p.injectable THEN Ctx
     ELSE IF place # {} THEN args[CHOOSE i \in place : TRUE]
     ELSE IF p.name \in DOMAIN kwargs THEN kwargs[p.name] ELSE Default

\* The function of a tool that is called from a hook in a settled agent gets, in
\* every parameter, what a direct call would put there and the context of this
\* call in the injectable ones, or the call is refused; nothing that is passed is
\* dropped.  (_signature_metadata(), Signature.bind() and _inject(), of which one
\* goes by the descriptor and the other by the function.)
ToolGetsWhatWasPassed ==
  op.settled => \A d \in ToSet(listed["tool"]) : \A call \in Arguments :
    LET sig == SigOf(d.id)
        values == Call(d.alias, d.name, call)
    IN values \in {TypeError, Refused} \/
         /\ \A p \in ToSet(sig) : values[p.name] = Intended(sig, call.args, call.kwargs, p)
         /\ \A i \in DOMAIN call.args : \E p \in ToSet(sig) : values[p.name] = call.args[i]
         /\ DOMAIN call.kwargs \subseteq Names(SignatureMetadata(sig))
=============================================================================
