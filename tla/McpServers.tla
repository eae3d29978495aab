----------------------------- MODULE McpServers -----------------------------
(***************************************************************************)
(* The MCP client: MCPService (builtin/mcp/manager.py), its server manager  *)
(* and runtimes (server.py, runtime.py), the tool source it mounts into the *)
(* ToolManager (source.py) and the configuration file it follows.           *)
(*                                                                         *)
(* Four callers change the sessions, each under _refresh_lock: the start of *)
(* the service, the lifecycle's refresh, the hook that runs after every     *)
(* tool call ("hook", refresh_if_changed) and the stop.  Whatever is        *)
(* awaited under the lock (a connection, the listing of the tools, the end  *)
(* of a session) leaves room for edits of the file, for servers that die or *)
(* change their tools, for calls and for the cancellation of the run whose  *)
(* hook it is.                                                              *)
(***************************************************************************)
EXTENDS Integers, FiniteSets, SequencesExt, ToolNames

CONSTANTS
  Servers,     \* the server ids, in the order of the file
  MaxSpec,     \* specifications 1..MaxSpec of a server; 0: not in the file
  Listings,    \* the tool lists a server may offer
  Workspace,   \* the descriptors of the tools of the workspace
  MaxConns, MaxEdits, MaxFaults  \* bounds: sessions, edits of the file, faults

VARIABLES
  file,      \* the specifications the configuration file holds
  offers, alive, \* what each server would list, and whether it answers
  conns,     \* every session: server, spec, life, tools
  order, descs, available, \* MCPServerManager: listed runtimes, descriptors, source
  confFp,    \* _config_fingerprint: a content of the file, or <<>>
  started, lock, queue,  \* _started and _refresh_lock with its waiters
  pc,        \* pc[p]: where a caller is
  held,      \* the session the lock's holder is opening or closing
  todo,      \* the listed sessions the holder has still to stop or list anew
  pending,   \* list_tools requests whose gather has been given up
  changed,   \* AgentLifecycle._changed
  tools,     \* the descriptors of ToolManager
  last,      \* the last tool call: what the model was shown, and what it ran
  troubled,  \* mark: a refresh did not end well, or what it left behind came late
  edits, faults

servers == <<file, offers, alive>>
manager == <<order, descs, available>>
locking == <<lock, queue>>
service == <<confFp, started>>
bounds == <<edits, faults>>
vars == <<servers, conns, manager, service, locking, pc, held, todo, pending, changed,
          tools, last, troubled, bounds>>

ServerSet == ToSet(Servers)
Remotes == UNION { ToSet(l) : l \in Listings }

\* The loaders refuse an id that occurs twice (builtin/mcp/manager.py:138); the
\* tools of the workspace have ids of their own.
ASSUME McpAssumption ==
  /\ Servers \in Seq(ServerSet)
  /\ \A j, k \in DOMAIN Servers : Servers[j] = Servers[k] => j = k
  /\ MaxSpec \in Nat \ {0} /\ {MaxConns, MaxEdits, MaxFaults} \subseteq Nat
  /\ Listings \subseteq Seq(Remotes)
  /\ Workspace \in Seq(ToSet(Workspace)) /\ \A w \in ToSet(Workspace) : w.server \notin ServerSet

Callers == {"start", "life", "hook", "stop"}
None == "none"
NoCall == [shown |-> <<>>, public |-> <<>>, ran |-> <<>>]

Init ==
  /\ file \in [ServerSet -> 0 .. 1] /\ offers \in [ServerSet -> Listings]
  /\ alive = [s \in ServerSet |-> TRUE]
  /\ conns = <<>> /\ order = <<>> /\ descs = [s \in ServerSet |-> 0] /\ available = TRUE
  /\ confFp = <<>> /\ started = FALSE /\ lock = None /\ queue = <<>>
  /\ pc = [p \in Callers |-> IF p = "start" THEN "new" ELSE "idle"]
  /\ held = 0 /\ todo = {} /\ pending = {} /\ changed = FALSE
  /\ tools = Workspace /\ last = NoCall
  /\ troubled = FALSE /\ edits = 0 /\ faults = 0

\* list.remove()
Without(s, e) == RemoveAt(s, CHOOSE k \in DOMAIN s : s[k] = e)

Listed == { conns[i].server : i \in ToSet(order) }
Runtime(s) == CHOOSE i \in ToSet(order) : conns[i].server = s
Lives(i, life) == conns' = [conns EXCEPT ![i].life = life]
\* runtime.stop: the session and the tools go first.
Closing(i) == conns' = [conns EXCEPT ![i].life = "closing", ![i].tools = <<>>]
Fault == faults < MaxFaults /\ faults' = faults + 1

\* MCPServerManager.iter_servers, and what the runtime of a server has listed.
ToolsOf(s, specs, listed, sessions) ==
  LET runtimes == { i \in ToSet(listed) : specs[s] # 0 /\ sessions[i].server = s }
      i == CHOOSE i \in runtimes : TRUE
  IN IF runtimes = {} THEN <<>>
     ELSE [k \in DOMAIN sessions[i].tools |-> <<s, sessions[i].tools[k]>>]

\* MCPService.iter_tools
Offered(specs, listed, sessions) ==
  LET offered[n \in 0..Len(Servers)] ==
        IF n = 0 THEN <<>> ELSE offered[n - 1] \o ToolsOf(Servers[n], specs, listed, sessions)
  IN offered[Len(Servers)]

\* What ToolManager.scan finds in its sources; stop() unmounts the second.
Rescanned == IF available THEN Workspace \o Described(Offered(descs, order, conns)) ELSE Workspace

-----------------------------------------------------------------------------
(* The outside *)

Edit(s, v) ==
  /\ edits < MaxEdits /\ v # file[s]
  /\ file' = [file EXCEPT ![s] = v] /\ edits' = edits + 1
  /\ UNCHANGED <<offers, alive, conns, manager, service, locking, pc, held, todo, pending,
                 changed, tools, last, troubled, faults>>

\* A server changes its tools and says so to every session it has.
Notify(s, l) ==
  /\ l # offers[s] /\ Fault
  /\ offers' = [offers EXCEPT ![s] = l]
  /\ changed' = (changed \/ \E i \in DOMAIN conns : conns[i].server = s /\ conns[i].life = "live")
  /\ UNCHANGED <<file, alive, conns, manager, service, locking, pc, held, todo, pending,
                 tools, last, troubled, edits>>

Crash(s) ==
  /\ alive[s] /\ Fault /\ alive' = [alive EXCEPT ![s] = FALSE]
  /\ UNCHANGED <<file, offers, conns, manager, service, locking, pc, held, todo, pending,
                 changed, tools, last, troubled, edits>>

-----------------------------------------------------------------------------
(* The lock *)

\* asyncio.Lock: the first waiter has it next.
Release ==
  IF queue = <<>> THEN lock' = None /\ UNCHANGED queue
  ELSE lock' = Head(queue) /\ queue' = Tail(queue)

Acquire(p) ==
  IF lock = None THEN lock' = p /\ UNCHANGED queue
  ELSE queue' = Append(queue, p) /\ UNCHANGED lock

\* The hook compares the file with the fingerprint, whatever goes on; the
\* service is refreshed by the lifecycle only while it is started.
Calls(p) ==
  CASE p = "start" -> pc["start"] = "new"
    [] p = "life"  -> started /\ changed /\ ~HasDuplicateIds(Rescanned)
    [] p = "hook"  -> started /\ confFp # file
    [] p = "stop"  -> pc["start"] = "done"

\* A refresh of the lifecycle begins with the ToolManager, which scans what
\* the runtimes have listed, and ends there when an id occurs twice.
Call(p) ==
  /\ pc[p] \in {"idle", "new"} /\ Calls(p) /\ pc["stop"] # "gone"
  /\ Acquire(p) /\ pc' = [pc EXCEPT ![p] = "waiting"]
  /\ tools' = IF p = "life" THEN Rescanned ELSE tools
  /\ UNCHANGED <<servers, conns, manager, service, held, todo, pending, changed, last, troubled, bounds>>

\* The caller returns or raises.  A start that fails is the end of it: the
\* service manager has not listed the service yet, so the rollback of the
\* lifecycle does not stop it.
Ends(p, well) ==
  /\ pc' = [pc EXCEPT ![p] = IF p = "start" THEN (IF well THEN "done" ELSE "failed") ELSE
                             IF p = "stop" /\ well THEN "gone" ELSE "idle"]
  /\ Release /\ held' = 0 /\ todo' = {}
  /\ troubled' = IF well THEN FALSE ELSE TRUE

-----------------------------------------------------------------------------
(* Refreshing: MCPServerManager.refresh under the lock *)

\* The loaders are read while the source is available.
Loaded == IF available THEN file ELSE [s \in ServerSet |-> 0]

\* MCPServerSource.scan loads the file; the fingerprint covers the whole spec.
Scan(p) ==
  /\ lock = p /\ p # "stop" /\ pc[p] = "waiting"
  /\ descs' = Loaded
  /\ pc' = [pc EXCEPT ![p] = "dropping"]
  /\ UNCHANGED <<servers, conns, order, available, service, locking, held, todo, pending,
                 changed, tools, last, troubled, bounds>>

\* A file that cannot be parsed, or holds an id twice.
ScanRaises(p) ==
  /\ lock = p /\ p # "stop" /\ pc[p] = "waiting" /\ available /\ Fault
  /\ Ends(p, FALSE)
  /\ UNCHANGED <<servers, conns, manager, service, pending, changed, tools, last, edits>>

Leaving == { s \in Listed : descs[s] # conns[Runtime(s)].spec }
Missing == { s \in ServerSet : descs[s] # 0 /\ s \notin Listed }
FirstOf(set) == CHOOSE s \in set : \A j, k \in DOMAIN Servers : Servers[k] = s /\ Servers[j] \in set => k <= j

Drop(p) ==
  /\ pc[p] = "dropping" /\ held = 0 /\ Leaving # {}
  /\ LET i == Runtime(FirstOf(Leaving)) IN
     /\ order' = Without(order, i)
     /\ Closing(i) /\ held' = i
  /\ UNCHANGED <<servers, descs, available, service, locking, pc, todo, pending, changed,
                 tools, last, troubled, bounds>>

Dropped(p) ==
  /\ pc[p] = "dropping" /\ held # 0
  /\ Lives(held, "closed") /\ held' = 0
  /\ UNCHANGED <<servers, manager, service, locking, pc, todo, pending, changed, tools, last, troubled, bounds>>

\* Once nothing is left to drop, the missing servers are connected in turn;
\* one that fails is skipped, and tried again by the next refresh.
Connect(p) ==
  /\ pc[p] = "dropping" /\ held = 0 /\ Leaving = {} /\ Missing \ todo # {} /\ Len(conns) < MaxConns
  /\ LET s == FirstOf(Missing \ todo) IN
     /\ conns' = Append(conns, [server |-> s, spec |-> descs[s], life |-> "connecting", tools |-> <<>>])
     /\ todo' = todo \cup {s} /\ held' = Len(conns')
  /\ pc' = [pc EXCEPT ![p] = "creating"]
  /\ UNCHANGED <<servers, manager, service, locking, pending, changed, tools, last, troubled, bounds>>

\* runtime.start: initialize, then every page of the tools.
Connected(p) ==
  /\ pc[p] = "creating" /\ alive[conns[held].server]
  /\ conns' = [conns EXCEPT ![held].life = "live", ![held].tools = offers[conns[held].server]]
  /\ order' = Append(order, held) /\ held' = 0
  /\ pc' = [pc EXCEPT ![p] = "dropping"]
  /\ UNCHANGED <<servers, descs, available, service, locking, todo, pending, changed, tools, last, troubled, bounds>>

\* Mutant of ConnectFails: the failed runtime is skipped but not stopped.
ConnectFailsOpen(p) ==
  /\ pc[p] = "creating"
  /\ \/ ~alive[conns[held].server] /\ UNCHANGED faults
     \/ alive[conns[held].server] /\ Fault
  /\ held' = 0 /\ pc' = [pc EXCEPT ![p] = "dropping"]
  /\ UNCHANGED <<servers, conns, manager, service, locking, todo, pending, changed, tools, last, troubled, edits>>

ConnectFails(p) ==
  /\ pc[p] = "creating"
  /\ \/ ~alive[conns[held].server] /\ UNCHANGED faults
     \/ alive[conns[held].server] /\ Fault
  /\ Lives(held, "closed") /\ held' = 0
  /\ pc' = [pc EXCEPT ![p] = "dropping"]
  /\ UNCHANGED <<servers, manager, service, locking, todo, pending, changed, tools, last, troubled, edits>>

\* _refresh_instances asks every listed server for its tools at once.
Relist(p) ==
  /\ pc[p] = "dropping" /\ held = 0 /\ Leaving = {} /\ Missing \subseteq todo
  /\ pc' = [pc EXCEPT ![p] = "listing"] /\ todo' = ToSet(order)
  /\ UNCHANGED <<servers, conns, manager, service, locking, held, pending, changed, tools, last, troubled, bounds>>

Relisted(p, i) ==
  /\ pc[p] = "listing" /\ i \in todo /\ alive[conns[i].server]
  /\ conns' = [conns EXCEPT ![i].tools = offers[conns[i].server]] /\ todo' = todo \ {i}
  /\ UNCHANGED <<servers, manager, service, locking, pc, held, pending, changed, tools, last, troubled, bounds>>

\* The first failure ends the gather; the other requests go on by themselves.
RelistRaises(p, i) ==
  /\ pc[p] = "listing" /\ i \in todo
  /\ \/ ~alive[conns[i].server] /\ UNCHANGED faults
     \/ alive[conns[i].server] /\ Fault
  /\ pending' = pending \cup (todo \ {i}) /\ Ends(p, FALSE)
  /\ UNCHANGED <<servers, conns, manager, service, changed, tools, last, edits>>

\* An abandoned request is answered, also after a refresh that ended well, or
\* fails with its session.  Nothing scans the tools after it.
Straggler(i) ==
  /\ i \in pending /\ pending' = pending \ {i}
  /\ conns' = IF conns[i].life = "live" /\ alive[conns[i].server]
              THEN [conns EXCEPT ![i].tools = offers[conns[i].server]] ELSE conns
  /\ troubled' = (troubled \/ conns' # conns)
  /\ UNCHANGED <<servers, manager, service, locking, pc, held, todo, changed, tools, last, bounds>>

\* Mutant of Finish: the tools are not scanned again.
FinishUnscanned(p) ==
  /\ pc[p] = "listing" /\ todo = {}
  /\ confFp' = file /\ started' = (started \/ p = "start")
  /\ Ends(p, TRUE) /\ changed' = (p = "hook" /\ changed)
  /\ UNCHANGED <<servers, conns, manager, pending, tools, last, bounds>>

\* The fingerprint is that of the file as it is now; the tools are scanned as
\* the lock is released, and a change of them is noted in the lifecycle.
Finish(p) ==
  /\ pc[p] = "listing" /\ todo = {}
  /\ confFp' = file /\ started' = (started \/ p = "start")
  /\ IF HasDuplicateIds(Rescanned)
     THEN Ends(p, FALSE) /\ UNCHANGED <<tools, changed>>
     ELSE /\ tools' = Rescanned
          /\ changed' = (p = "hook" /\ (changed \/ tools' # tools))
          /\ Ends(p, TRUE)
  /\ UNCHANGED <<servers, conns, manager, pending, last, bounds>>

-----------------------------------------------------------------------------
(* Stopping, and the cancellation of a run in its hook *)

\* MCPService.stop: every session, the last first, then the tables, the
\* source, and the tools of the service.
StopNext ==
  /\ lock = "stop" /\ pc["stop"] = "waiting" /\ held = 0 /\ order # <<>> /\ todo # ToSet(order)
  /\ LET i == order[Len(order) - Cardinality(todo)] IN
     Closing(i) /\ held' = i /\ todo' = todo \cup {i}
  /\ UNCHANGED <<servers, manager, service, locking, pc, pending, changed, tools, last, troubled, bounds>>

StopClosed ==
  /\ lock = "stop" /\ pc["stop"] = "waiting" /\ held # 0
  /\ Lives(held, "closed") /\ held' = 0
  /\ UNCHANGED <<servers, manager, service, locking, pc, todo, pending, changed, tools, last, troubled, bounds>>

StopEnds ==
  /\ lock = "stop" /\ pc["stop"] = "waiting" /\ held = 0 /\ todo = ToSet(order)
  /\ order' = <<>> /\ available' = FALSE /\ descs' = [s \in ServerSet |-> 0]
  /\ confFp' = <<>> /\ started' = FALSE /\ tools' = Workspace
  /\ Ends("stop", TRUE)
  /\ UNCHANGED <<servers, conns, pending, changed, last, bounds>>

\* aclose() of a session raises: the reconciliation or the stop is abandoned.
CloseRaises(p) ==
  /\ held # 0 /\ conns[held].life = "closing" /\ lock = p /\ Fault
  /\ Lives(held, "closed") /\ Ends(p, FALSE)
  /\ UNCHANGED <<servers, manager, service, pending, changed, tools, last, edits>>

\* The run of the hook is cancelled at an await: it leaves the queue, or what
\* it was opening or closing is closed and what it was listing is given up.
CancelHook ==
  /\ pc["hook"] # "idle" /\ Fault
  /\ IF lock = "hook"
     THEN /\ conns' = IF held # 0 THEN [conns EXCEPT ![held].life = "closed"] ELSE conns
          /\ Ends("hook", FALSE)
     ELSE /\ queue' = Without(queue, "hook")
          /\ pc' = [pc EXCEPT !["hook"] = "idle"] /\ troubled' = TRUE
          /\ UNCHANGED <<conns, lock, held, todo>>
  /\ UNCHANGED <<servers, manager, service, pending, changed, tools, last, edits>>

-----------------------------------------------------------------------------
(* Calling a tool: ToolManager.call, MCPToolSource.invoke *)

\* A request to the model shows it the tools there are; it will call d, the
\* one it knows by that name.
ShowTool(d) ==
  /\ last = NoCall /\ started /\ Cardinality(Candidates(tools, PublicName(d))) = 1
  /\ last' = [NoCall EXCEPT !.shown = <<d.server, d.remote>>, !.public = PublicName(d)]
  /\ UNCHANGED <<servers, conns, manager, service, locking, pc, held, todo, pending, changed,
                 tools, troubled, bounds>>

\* The call goes to the one tool that has the name now, through the runtime
\* that its server has now.
RunTool ==
  LET found == Candidates(tools, last.public)
      f == tools[CHOOSE k \in found : TRUE]
  IN
  /\ last.shown # <<>> /\ last.ran = <<>>
  /\ last' = [last EXCEPT !.ran =
                 IF Cardinality(found) = 1 /\ (f \in ToSet(Workspace) \/ f.server \in Listed)
                 THEN <<f.server, f.remote>> ELSE <<None>>]
  /\ UNCHANGED <<servers, conns, manager, service, locking, pc, held, todo, pending, changed,
                 tools, troubled, bounds>>

Next ==
  \/ \E s \in ServerSet : Crash(s) \/ (\E v \in 0 .. MaxSpec : Edit(s, v))
                          \/ (\E l \in Listings : Notify(s, l))
  \/ \E p \in Callers :
       \/ Call(p) \/ Scan(p) \/ ScanRaises(p) \/ Drop(p) \/ Dropped(p) \/ Connect(p)
       \/ Connected(p) \/ ConnectFails(p) \/ Relist(p) \/ Finish(p) \/ CloseRaises(p)
       \/ \E i \in DOMAIN conns : Relisted(p, i) \/ RelistRaises(p, i)
  \/ \E i \in pending : Straggler(i)
  \/ StopNext \/ StopClosed \/ StopEnds \/ CancelHook
  \/ RunTool \/ \E d \in ToSet(tools) : ShowTool(d)

Spec == Init /\ [][Next]_vars

-----------------------------------------------------------------------------
(* Properties *)

Quiet == lock = None /\ pc["life"] = "idle" /\ pc["hook"] = "idle"

\* Whatever fails, dies or is cancelled: an open session belongs to a runtime
\* in the tables or to the caller that is opening or closing it, and after a
\* stop there is none, whoever still waits for the lock.
NoSessionIsForgotten ==
  /\ \A i \in DOMAIN conns : conns[i].life \in {"connecting", "live", "closing"} => i \in ToSet(order) \cup {held}
  /\ pc["stop"] = "gone" => \A i \in DOMAIN conns : conns[i].life = "closed"

\* Between refreshes, after one that ended well, the ToolManager has the tools
\* of the workspace and those the running servers have listed, and no other,
\* until a request that an earlier refresh has abandoned is answered.
ToolsAreThoseServed ==
  Quiet /\ ~troubled /\ pc["start"] = "done" => tools = Rescanned

\* A call under a name that was shown for one tool runs that tool, or one
\* whose server and remote name read the same in safe words, or none; a tool of
\* the workspace is never taken for one of a server, nor the other way round.
CallsReachTheTool ==
  last.ran \notin {<<>>, <<None>>, last.shown} =>
    /\ SafeId(last.ran[1]) \o SafeId(last.ran[2]) = SafeId(last.shown[1]) \o SafeId(last.shown[2])
    /\ \A w \in ToSet(Workspace) : <<w.server, w.remote>> \notin {last.ran, last.shown}

=============================================================================
