------------------------------ MODULE Instances ------------------------------
(***************************************************************************)
(* The managers that keep one running instance for every service class in  *)
(* scope: core/classes/manager.py (InstanceManager, ServiceInstanceManager, *)
(* ActiveServiceInstanceManager, ServiceInstanceRegistry) over a            *)
(* PythonServiceSource (source.py, service.py).  The connector manager and  *)
(* the storage, file storage, adapter and service managers are all of this  *)
(* kind.                                                                    *)
(*                                                                         *)
(* A refresh scans the scope and reconciles the instances with it; every   *)
(* start(), stop() and refresh() of an instance is an await, at which the  *)
(* shutdown of the agent, which no lock keeps apart from a refresh, may go  *)
(* on.  A name of Names is the id of a descriptor; a version stands for one *)
(* class object that the module binds to that name, and two versions with   *)
(* the same Qualname have the same fingerprint.                             *)
(***************************************************************************)
EXTENDS Integers, Sequences, FiniteSets, SequencesExt

CONSTANTS
  Names,       \* the ids of the services, in the order of the scope
  Versions,    \* the classes a name may be bound to
  Qualname(_), \* the qualified name of a class, the tracked part of it
  NoName,      \* no id
  MaxMade,     \* bound: instances created
  MaxChanges,  \* bound: changes of the scope
  MaxFailures  \* bound: start(), stop() and refresh() calls that raise

ASSUME InstancesAssumption ==
  /\ Names \in Seq(ToSet(Names)) /\ IsInjective(Names) /\ NoName \notin ToSet(Names)
  /\ 1 \in Versions /\ 0 \notin Versions
  /\ MaxMade \in Nat /\ MaxChanges \in Nat /\ MaxFailures \in Nat

VARIABLES
  scope,      \* scope[n]: the class that n is bound to in the scope, 0 for none
  descs,      \* _descriptors: the class of each descriptor, 0 for none
  available,  \* whether the source is available
  things,     \* every instance ever created: name, class, life, stop() calls
  order,      \* _start_order and _instances: the listed instances
  byId, byClass, \* ServiceInstanceRegistry, 0 for no entry
  active,     \* _active_id
  wanted,     \* the configured active id and whether it is an override
  sync,       \* the refresh or the start in progress
  halt,       \* the stop in progress
  up,         \* whether the lifecycle has been started
  overlapped, \* a stop and a refresh have been in progress together; bound:
              \* they come to their end, and no other begins
  stopFailed, \* a stop() has raised
  changes, failures

manager == <<descs, available, order, active>>
registry == <<byId, byClass>>
bounds == <<changes, failures>>
marks == <<overlapped, stopFailed>>
instanceVars == <<scope, manager, things, registry, wanted, sync, halt, up, marks, bounds>>

NameSet == ToSet(Names)
Classes == NameSet \X Versions

NoSync == [at |-> "idle", kind |-> "none", todo |-> <<>>, held |-> 0, want |-> [n \in NameSet |-> 0]]
NoHalt == [at |-> "idle", ix |-> 0, held |-> 0]

\* Descriptor.fingerprint of a ServiceDescriptor: its id and the name of its class.
Fingerprint(v) == IF v = 0 THEN 0 ELSE Qualname(v)

InstancesInit ==
  /\ scope \in [NameSet -> {0, 1}]
  /\ descs = [n \in NameSet |-> 0] /\ available = TRUE
  /\ things = <<>> /\ order = <<>>
  /\ byId = [n \in NameSet |-> 0] /\ byClass = [c \in Classes |-> 0]
  /\ active = NoName
  /\ wanted \in { w \in [id : NameSet \cup {NoName}, override : BOOLEAN] :
                 w.override => w.id # NoName }
  /\ sync = NoSync /\ halt = NoHalt /\ up = FALSE
  /\ overlapped = FALSE /\ stopFailed = FALSE
  /\ changes = 0 /\ failures = 0

NameOf(i) == things[i].name
Listed == { NameOf(i) : i \in ToSet(order) }
Instance(n) == CHOOSE i \in ToSet(order) : NameOf(i) = n

Lives(i, life) == things' = [things EXCEPT ![i].life = life]
Stopping(i) == things' = [things EXCEPT ![i].life = "stopping", ![i].stops = @ + 1]
MayFail == failures < MaxFailures /\ failures' = failures + 1

-----------------------------------------------------------------------------
(* Scanning *)

\* An extension operation binds a name to another class, or removes it.
ChangeScope(n, v) ==
  /\ changes < MaxChanges /\ v # scope[n]
  /\ scope' = [scope EXCEPT ![n] = v] /\ changes' = changes + 1
  /\ UNCHANGED <<manager, things, registry, wanted, sync, halt, up, marks, failures>>

\* What PythonServiceSource.scan yields: a descriptor for every concrete class
\* of the base type that the modules in scope declare.
Found(isAvailable) == IF isAvailable THEN scope ELSE [n \in NameSet |-> 0]

\* Manager.scan: the descriptors are replaced only when a fingerprint differs.
Scanned(found) ==
  IF \A n \in NameSet : Fingerprint(found[n]) = Fingerprint(descs[n])
  THEN descs ELSE found

\* lifecycle.start restores the source and refreshes; lifecycle.refresh, one
\* at a time, refreshes what has been started.
BeginSync(kind) ==
  /\ sync.at = "idle" /\ ~overlapped
  /\ IF kind = "start" THEN ~up /\ halt.at = "idle" ELSE up
  /\ available' = (available \/ kind = "start")
  /\ descs' = Scanned(Found(available'))
  /\ sync' = [at |-> "removing", kind |-> kind, held |-> 0, want |-> descs',
              todo |-> [k \in DOMAIN order |-> NameOf(order[k])]]
  /\ overlapped' = (overlapped \/ halt.at # "idle")
  /\ UNCHANGED <<scope, things, order, active, registry, wanted, halt, up, stopFailed, bounds>>

-----------------------------------------------------------------------------
(* Reconciling: _reconcile_instances *)

\* Mutant of Due: a listed id is never restarted.
DueOnce(n) ==
  CASE sync.at = "removing" -> sync.want[n] = 0
    [] sync.at = "creating" -> sync.want[n] # 0 /\ n \notin Listed
    [] OTHER -> FALSE

\* What each of its three loops has to do something about.
Due(n) ==
  CASE sync.at = "removing"   -> sync.want[n] = 0
    [] sync.at = "restarting" -> /\ sync.want[n] # 0 /\ n \in Listed
                                 /\ Fingerprint(things[Instance(n)].ver) # Fingerprint(sync.want[n])
    [] sync.at = "creating"   -> sync.want[n] # 0 /\ n \notin Listed
    [] OTHER -> FALSE

\* The id a loop comes to next, and what it has still to visit then.
Visits(n) ==
  /\ sync.held = 0
  /\ \E k \in DOMAIN sync.todo :
       sync.todo[k] = n /\ Due(n) /\ \A j \in 1 .. k - 1 : ~Due(sync.todo[j])
After(n) == SubSeq(sync.todo, 1 + CHOOSE k \in DOMAIN sync.todo : sync.todo[k] = n, Len(sync.todo))

NextLoop ==
  /\ sync.held = 0 /\ \A k \in DOMAIN sync.todo : ~Due(sync.todo[k])
  /\ \/ sync.at = "removing" /\ sync' = [sync EXCEPT !.at = "restarting", !.todo = Names]
     \/ sync.at = "restarting" /\ sync' = [sync EXCEPT !.at = "creating", !.todo = Names]
     \/ sync.at = "creating" /\ sync' = [sync EXCEPT !.at = "refreshing", !.todo = <<>>]
  /\ UNCHANGED <<scope, manager, things, registry, wanted, halt, up, marks, bounds>>

\* The refresh raises; a start that raises is rolled back, which stops the
\* manager: lifecycle.start.
SyncFails ==
  /\ sync' = NoSync
  /\ halt' = IF sync.kind = "start" THEN [at |-> "rollback", ix |-> Len(order'), held |-> 0] ELSE halt

\* Mutant of Drop: it leaves the tables and is not stopped.
DropRunning(n) ==
  /\ sync.at \in {"removing", "restarting"} /\ Visits(n) /\ n \in Listed
  /\ order' = RemoveFirst(order, Instance(n))
  /\ sync' = [sync EXCEPT !.todo = After(n)]
  /\ UNCHANGED <<scope, descs, available, things, active, registry, wanted, halt, up, marks, bounds>>

\* A removed or changed instance leaves the tables and is stopped.
Drop(n) ==
  /\ sync.at \in {"removing", "restarting"} /\ Visits(n) /\ n \in Listed
  /\ order' = RemoveFirst(order, Instance(n))
  /\ Stopping(Instance(n))
  /\ sync' = [sync EXCEPT !.held = Instance(n), !.todo = After(n)]
  /\ UNCHANGED <<scope, descs, available, active, registry, wanted, halt, up, marks, bounds>>

\* _instances.pop of an id that a concurrent stop has cleared.
DropMissing(n) ==
  /\ sync.at = "removing" /\ Visits(n) /\ n \notin Listed
  /\ SyncFails /\ order' = order
  /\ UNCHANGED <<scope, descs, available, things, active, registry, wanted, up, marks, bounds>>

\* Mutant of Unregister: only the entry of the id goes.
UnregisterIdOnly(i) ==
  /\ byId' = [n \in NameSet |-> IF byId[n] = i THEN 0 ELSE byId[n]]
  /\ UNCHANGED byClass

\* ServiceInstanceRegistry.remove_by_instance
Unregister(i) ==
  /\ byId' = [n \in NameSet |-> IF byId[n] = i THEN 0 ELSE byId[n]]
  /\ byClass' = [c \in Classes |-> IF byClass[c] = i THEN 0 ELSE byClass[c]]

Dropped ==
  /\ sync.at \in {"removing", "restarting"} /\ sync.held # 0
  /\ Lives(sync.held, "stopped") /\ Unregister(sync.held)
  /\ sync' = [sync EXCEPT !.held = 0]
  /\ UNCHANGED <<scope, manager, wanted, halt, up, marks, bounds>>

DropRaises ==
  /\ sync.at \in {"removing", "restarting"} /\ sync.held # 0 /\ MayFail
  /\ Lives(sync.held, "broken") /\ stopFailed' = TRUE
  /\ order' = order /\ SyncFails
  /\ UNCHANGED <<scope, descs, available, active, registry, wanted, up, overlapped, changes>>

\* A missing instance is created and started, and listed once it is.
Bring(n) ==
  /\ sync.at = "creating" /\ Visits(n) /\ Len(things) < MaxMade
  /\ things' = Append(things, [name |-> n, ver |-> sync.want[n], life |-> "starting", stops |-> 0])
  /\ sync' = [sync EXCEPT !.held = Len(things'), !.todo = After(n)]
  /\ UNCHANGED <<scope, manager, registry, wanted, halt, up, marks, bounds>>

Brought ==
  LET i == sync.held IN
  /\ sync.at = "creating" /\ i # 0
  /\ Lives(i, "up") /\ order' = Append(order, i)
  /\ byId' = [byId EXCEPT ![NameOf(i)] = i]
  /\ byClass' = [byClass EXCEPT ![<<NameOf(i), things[i].ver>>] = i]
  /\ sync' = [sync EXCEPT !.held = 0]
  /\ UNCHANGED <<scope, descs, available, active, wanted, halt, up, marks, bounds>>

BringRaises ==
  /\ sync.at = "creating" /\ sync.held # 0 /\ MayFail
  /\ Lives(sync.held, "broken") /\ order' = order /\ SyncFails
  /\ UNCHANGED <<scope, descs, available, active, registry, wanted, up, marks, changes>>

\* _select_active: the configured id, else the one that is active, else the first.
Selected ==
  IF wanted.id \in Listed THEN wanted.id
  ELSE IF active \in Listed \/ order = <<>> THEN active ELSE NameOf(order[1])
SelectRaises == wanted.id # NoName /\ wanted.id \notin Listed /\ wanted.override

\* _refresh_instances has gathered the refreshes; the active one is selected.
Finish ==
  /\ sync.at = "refreshing" /\ ~SelectRaises
  /\ active' = Selected /\ sync' = NoSync /\ up' = TRUE
  /\ UNCHANGED <<scope, descs, available, order, things, registry, wanted, halt, marks, bounds>>

FinishRaises ==
  /\ sync.at = "refreshing"
  /\ \/ order # <<>> /\ MayFail
     \/ SelectRaises /\ UNCHANGED failures
  /\ order' = order /\ SyncFails
  /\ UNCHANGED <<scope, descs, available, active, things, registry, wanted, up, marks, changes>>

-----------------------------------------------------------------------------
(* Stopping: _stop_all_instances, then the source; no lock of the refresh *)

BeginHalt ==
  /\ halt.at = "idle" /\ ~overlapped /\ up /\ sync.kind # "start"
  /\ halt' = [at |-> "stop", ix |-> Len(order), held |-> 0]
  /\ overlapped' = (overlapped \/ sync.at # "idle")
  /\ UNCHANGED <<scope, manager, things, registry, wanted, sync, up, stopFailed, bounds>>

Halting == halt.at \in {"stop", "rollback"} /\ halt.held = 0

\* reversed() of the live list: it ends when its index has left the list.
HaltNext ==
  /\ Halting /\ halt.ix \in DOMAIN order
  /\ Stopping(order[halt.ix])
  /\ halt' = [halt EXCEPT !.held = order[halt.ix], !.ix = @ - 1]
  /\ UNCHANGED <<scope, manager, registry, wanted, sync, up, marks, bounds>>

HaltStopped ==
  /\ halt.held # 0
  /\ Lives(halt.held, "stopped") /\ Unregister(halt.held)
  /\ halt' = [halt EXCEPT !.held = 0]
  /\ UNCHANGED <<scope, manager, wanted, sync, up, marks, bounds>>

\* lifecycle.stop raises; the rollback of a start logs it and clears the registry.
HaltRaises ==
  /\ halt.held # 0 /\ MayFail
  /\ Lives(halt.held, "broken") /\ stopFailed' = TRUE /\ halt' = NoHalt
  /\ IF halt.at = "rollback"
     THEN byId' = [n \in NameSet |-> 0] /\ byClass' = [c \in Classes |-> 0]
     ELSE UNCHANGED registry
  /\ UNCHANGED <<scope, manager, wanted, sync, up, overlapped, changes>>

\* The tables are cleared and the source invalidated, with its descriptors.
Cleared ==
  /\ Halting /\ halt.ix \notin DOMAIN order
  /\ order' = <<>> /\ available' = FALSE /\ descs' = [n \in NameSet |-> 0]
  /\ halt' = [halt EXCEPT !.at = "cleared"]
  /\ UNCHANGED <<scope, active, things, registry, wanted, sync, up, marks, bounds>>

\* The lifecycle clears the registry when every component has stopped.
EndHalt ==
  /\ halt.at = "cleared" /\ halt' = NoHalt /\ up' = FALSE
  /\ byId' = [n \in NameSet |-> 0] /\ byClass' = [c \in Classes |-> 0]
  /\ UNCHANGED <<scope, manager, things, wanted, sync, marks, bounds>>

InstancesNext ==
  \/ \E n \in NameSet, v \in Versions \cup {0} : ChangeScope(n, v)
  \/ \E kind \in {"start", "refresh"} : BeginSync(kind)
  \/ NextLoop
  \/ \E n \in NameSet : Drop(n) \/ DropMissing(n) \/ Bring(n)
  \/ Dropped \/ DropRaises \/ Brought \/ BringRaises \/ Finish \/ FinishRaises
  \/ BeginHalt \/ HaltNext \/ HaltStopped \/ HaltRaises \/ Cleared \/ EndHalt

InstancesSpec == InstancesInit /\ [][InstancesNext]_instanceVars

-----------------------------------------------------------------------------
(* Properties *)

Held == {sync.held, halt.held}

\* What runs is known: an instance whose start() has returned and whose stop()
\* has not been called is in the tables of the manager and in the registry,
\* until a stop overlaps a refresh.
NothingLeaks ==
  ~overlapped =>
    \A i \in DOMAIN things : things[i].life = "up" => i \in ToSet(order)

\* The registry hands out what runs: an entry is the listed instance of that
\* name, or one that is being stopped, until a stop() raises; and every listed
\* instance can be found by its id and by its class.
RegistryServesTheListed ==
  ~overlapped /\ ~stopFailed =>
    /\ \A n \in NameSet : byId[n] # 0 => NameOf(byId[n]) = n /\ byId[n] \in ToSet(order) \cup Held
    /\ \A c \in Classes : byClass[c] # 0 => byClass[c] \in ToSet(order) \cup Held
    /\ \A i \in ToSet(order) :
         things[i].life = "up" => byId[NameOf(i)] = i /\ byClass[<<NameOf(i), things[i].ver>>] = i

\* A refresh that succeeds leaves one running instance for each descriptor, of
\* the fingerprint the scan found, and an active one among them.
RefreshReconciles ==
  [][ Finish /\ ~overlapped /\ ~stopFailed =>
        /\ Listed' = { n \in NameSet : sync.want[n] # 0 }
        /\ Len(order') = Cardinality(Listed')
        /\ \A i \in ToSet(order') :
             /\ things'[i].life = "up"
             /\ Fingerprint(things'[i].ver) = Fingerprint(sync.want[NameOf(i)])
        /\ order' # <<>> => active' \in Listed' ]_instanceVars

=============================================================================
