---------------------------- MODULE CodeActExec ----------------------------
(***************************************************************************)
(* builtin/codeact: one SubprocessBackend.execute(), the worker process it *)
(* starts, the connection between them and the tasks that run nested tools *)
(* for the worker.  The parent is one asyncio task: exec.pc names the      *)
(* await it is suspended at, and an action is the stretch of code up to    *)
(* the next one.  The worker is another process and may die at any time.   *)
(***************************************************************************)
EXTENDS Naturals, Sequences

CONSTANTS
  Calls,      \* the tool calls the executed code can make
  MaxCancels  \* bound: how often the task of execute() is cancelled

ASSUME CodeActAssumption == MaxCancels \in Nat /\ "result" \notin Calls

VARIABLES
  exec,      \* locals of execute(): pc, reason (the except branch taken),
             \* response (response_data is set), transport, outcome, abandoned
             \* (an await of the cleanup was cancelled), cancels
  accepted,  \* TcpServer._connection: "none", "pending", "set", "cancelled"
  socket,    \* the parent's end of the connection: "none", "open", "closed"
  worker,    \* the process: pc, signal received, reading (read_responses runs)
  inbox,     \* sent by the worker, not yet received: calls and "result"
  outbox,    \* sent by the parent, not yet read: Payload and answers
  rpc,       \* the _handle_rpc task of each call
  call       \* the future of each call in AsyncRPCClient

vars == <<exec, accepted, socket, worker, inbox, outbox, rpc, call>>

Body == {"listen", "spawn", "accept", "recv"}
Payload == [kind |-> "payload"]

Init ==
  /\ exec = [pc |-> "listen", reason |-> "none", response |-> FALSE,
             transport |-> "none", outcome |-> "none", abandoned |-> FALSE, cancels |-> 0]
  /\ accepted = "none" /\ socket = "none"
  /\ worker = [pc |-> "absent", signal |-> "none", reading |-> FALSE]
  /\ inbox = <<>> /\ outbox = <<>>
  /\ rpc = [c \in Calls |-> "none"]
  /\ call = [c \in Calls |-> "idle"]

Alive == worker.pc \notin {"absent", "dead"}

\* Mutant of Signalled: a terminated worker is not killed.
SignalledOnce(s) == IF Alive /\ worker.signal = "none" THEN [worker EXCEPT !.signal = s] ELSE worker

\* Process.kill() and terminate() of a process that has not been reaped.
Signalled(s) == IF Alive /\ worker.signal # "kill" THEN [worker EXCEPT !.signal = s] ELSE worker

-----------------------------------------------------------------------------
(* The body of execute(). *)

\* await tcp_server.start() returns.
Listen ==
  /\ exec.pc = "listen"
  /\ exec' = [exec EXCEPT !.pc = "spawn"]
  /\ accepted' = "pending"
  /\ UNCHANGED <<socket, worker, inbox, outbox, rpc, call>>

\* await create_subprocess_exec() returns.
Spawn ==
  /\ exec.pc = "spawn"
  /\ exec' = [exec EXCEPT !.pc = "accept"]
  /\ worker' = [worker EXCEPT !.pc = "connecting"]
  /\ UNCHANGED <<accepted, socket, inbox, outbox, rpc, call>>

\* await tcp_server.accept() returns the transport and the payload is written.
\* The await of its drain() is one with the following recv(): both fail and are
\* interrupted in the same way.
Accept ==
  /\ exec.pc = "accept" /\ accepted = "set"
  /\ exec' = [exec EXCEPT !.pc = "recv", !.transport = "held"]
  /\ outbox' = Append(outbox, Payload)
  /\ UNCHANGED <<accepted, socket, worker, inbox, rpc, call>>

\* A request: its handler runs as a task of its own, the loop goes on.
ReceiveCall ==
  /\ exec.pc = "recv" /\ inbox # <<>> /\ Head(inbox) # "result"
  /\ inbox' = Tail(inbox)
  /\ rpc' = [rpc EXCEPT ![Head(inbox)] = "running"]
  /\ UNCHANGED <<exec, accepted, socket, worker, outbox, call>>

ReceiveResult ==
  /\ exec.pc = "recv" /\ inbox # <<>> /\ Head(inbox) = "result"
  /\ inbox' = Tail(inbox)
  /\ exec' = [exec EXCEPT !.pc = "closing", !.response = TRUE]
  /\ UNCHANGED <<accepted, socket, worker, outbox, rpc, call>>

\* The except branch for `reason`, up to the await in tcp_server.close().  Timeouts
\* and cancellations kill the worker first; they also cancel the future that
\* accept() awaits, a result that it may already hold is lost.
Leave(reason) ==
  /\ exec' = [exec EXCEPT !.pc = "closing", !.reason = reason]
  /\ worker' = IF reason \in {"timeout", "cancelled"} THEN Signalled("kill") ELSE worker
  /\ accepted' = IF accepted = "pending" THEN "cancelled" ELSE accepted
  /\ UNCHANGED <<socket, inbox, outbox, rpc, call>>

\* Mutant of TimeOut: accept() is outside of the deadline.
TimeOutInRecv == exec.pc = "recv" /\ Leave("timeout")

\* asyncio.timeout(execution_timeout), around accept() and the receive loop.
TimeOut == exec.pc \in {"accept", "recv"} /\ Leave("timeout")

SpawnFails == exec.pc = "spawn" /\ Leave("error")

\* The worker's end is gone: a reset is a ConnectionError and may overtake what is
\* still unread; the end of the stream is an IncompleteReadError.
ConnectionLost ==
  /\ exec.pc = "recv" /\ worker.pc = "dead"
  /\ \/ Leave("lost") /\ (inbox = <<>> \/ outbox # <<>>)
     \/ Leave("error") /\ inbox = <<>>

-----------------------------------------------------------------------------
(* The finally block: TcpServer.close() and _cleanup(). *)

Outcome ==
  CASE exec.reason = "cancelled" -> "raisesCancelled"
    [] exec.reason = "error"     -> "raisesError"
    [] exec.reason = "timeout"   -> "timeout"
    [] OTHER -> IF exec.response THEN "result" ELSE "crashed"

\* From the process on: signal it and wait, or go on to its stderr, or return.
StopProcess(e) ==
  IF Alive
  THEN /\ worker' = Signalled(IF e.reason \in {"timeout", "cancelled"} THEN "kill" ELSE "term")
       /\ exec' = [e EXCEPT !.pc = "wait"]
  ELSE /\ exec' = IF worker.pc = "absent" THEN [e EXCEPT !.pc = "ended", !.outcome = Outcome]
                  ELSE [e EXCEPT !.pc = "stderr"]
       /\ UNCHANGED worker

\* From the transport on: its writer is closed before close() awaits anything.
CloseTransport ==
  IF exec.transport = "held"
  THEN /\ exec' = [exec EXCEPT !.pc = "closeTransport", !.transport = "closed"]
       /\ socket' = "closed"
       /\ UNCHANGED worker
  ELSE StopProcess(exec) /\ UNCHANGED socket

\* tcp_server.close() returns; the handlers still at work are cancelled.
ServerClosed ==
  /\ exec.pc = "closing"
  /\ rpc' = [c \in Calls |-> IF rpc[c] = "running" THEN "cancelling" ELSE rpc[c]]
  /\ IF \E c \in Calls : rpc[c] # "none"
     THEN exec' = [exec EXCEPT !.pc = "gather"] /\ UNCHANGED <<socket, worker>>
     ELSE CloseTransport
  /\ UNCHANGED <<accepted, inbox, outbox, call>>

HandlersDone == \A c \in Calls : rpc[c] \notin {"running", "cancelling"}

Gathered ==
  /\ exec.pc = "gather" /\ HandlersDone
  /\ CloseTransport
  /\ UNCHANGED <<accepted, inbox, outbox, rpc, call>>

TransportClosed ==
  /\ exec.pc = "closeTransport"
  /\ StopProcess(exec)
  /\ UNCHANGED <<accepted, socket, inbox, outbox, rpc, call>>

WorkerWaited ==
  /\ exec.pc \in {"wait", "rewait"} /\ worker.pc = "dead"
  /\ exec' = [exec EXCEPT !.pc = "stderr"]
  /\ UNCHANGED <<accepted, socket, worker, inbox, outbox, rpc, call>>

\* wait_for(proc.wait()) times out: kill and wait once more.
WaitTimesOut ==
  /\ exec.pc \in {"wait", "rewait"}
  /\ exec' = [exec EXCEPT !.pc = IF exec.pc = "wait" THEN "rewait" ELSE "stderr"]
  /\ worker' = IF exec.pc = "wait" THEN Signalled("kill") ELSE worker
  /\ UNCHANGED <<accepted, socket, inbox, outbox, rpc, call>>

\* The stderr reader ends or is given up; execute() returns or raises.
StderrRead ==
  /\ exec.pc = "stderr"
  /\ exec' = [exec EXCEPT !.pc = "ended", !.outcome = Outcome]
  /\ UNCHANGED <<accepted, socket, worker, inbox, outbox, rpc, call>>

\* A CancelledError raised in the finally block leaves the rest of it undone.  Two
\* awaits differ: gather() first waits for its tasks, and the one of the stderr
\* reader swallows the error.
CancelCleanup ==
  /\ \/ /\ exec.pc \in {"closing", "closeTransport", "wait", "rewait"}
        /\ exec' = [exec EXCEPT !.pc = "ended", !.outcome = "raisesCancelled",
                                !.abandoned = TRUE, !.cancels = @ + 1]
     \/ /\ exec.pc = "gather"
        /\ exec' = [exec EXCEPT !.pc = "gatherCancelled", !.abandoned = TRUE, !.cancels = @ + 1]
     \/ /\ exec.pc = "stderr"
        /\ exec' = [exec EXCEPT !.pc = "ended", !.outcome = Outcome, !.cancels = @ + 1]
  /\ UNCHANGED <<accepted, socket, worker, inbox, outbox, rpc, call>>

GatherRaises ==
  /\ exec.pc = "gatherCancelled" /\ HandlersDone
  /\ exec' = [exec EXCEPT !.pc = "ended", !.outcome = "raisesCancelled"]
  /\ UNCHANGED <<accepted, socket, worker, inbox, outbox, rpc, call>>

CancelBody ==
  /\ exec.pc \in Body
  /\ exec' = [exec EXCEPT !.pc = "closing", !.reason = "cancelled", !.cancels = @ + 1]
  /\ worker' = Signalled("kill")
  /\ accepted' = IF accepted = "pending" THEN "cancelled" ELSE accepted
  /\ UNCHANGED <<socket, inbox, outbox, rpc, call>>

Cancel == exec.cancels < MaxCancels /\ (CancelBody \/ CancelCleanup)

-----------------------------------------------------------------------------
(* TcpServer._handle_connection() and the handlers of calls, in the parent. *)

\* The worker has said hello.  hello_ok is sent before the future is looked at; a
\* connection that nobody waits for any more is closed again.
Handshake ==
  /\ worker.pc = "hello" /\ socket = "open"
  /\ IF accepted = "pending"
     THEN accepted' = "set" /\ UNCHANGED socket
     ELSE socket' = "closed" /\ UNCHANGED accepted
  /\ worker' = [worker EXCEPT !.pc = "boot"]
  /\ UNCHANGED <<exec, inbox, outbox, rpc, call>>

\* Mutant of HandshakeFails: the handshake has no timeout.
HandshakeBreaks ==
  /\ worker.pc = "dead" /\ socket = "open" /\ accepted # "set"
  /\ socket' = "closed"
  /\ UNCHANGED <<exec, accepted, worker, inbox, outbox, rpc, call>>

\* The handshake fails or times out; accept() goes on waiting.
HandshakeFails ==
  /\ worker.pc \in {"hello", "dead"} /\ socket = "open" /\ accepted # "set"
  /\ socket' = "closed"
  /\ UNCHANGED <<exec, accepted, worker, inbox, outbox, rpc, call>>

\* TcpTransport.send() of an answer; a closed transport swallows it.
Send(m) == outbox' = IF socket = "open" THEN Append(outbox, m) ELSE outbox

\* The tool ends (with a result or an error of its own) and the answer is sent.
AnswerCall(c) ==
  /\ rpc[c] = "running"
  /\ rpc' = [rpc EXCEPT ![c] = "answered"]
  /\ Send([call |-> c, kind |-> "value"])
  /\ UNCHANGED <<exec, accepted, socket, worker, inbox, call>>

\* asyncio.timeout(rpc_timeout) cancels the tool, and an error is sent instead.
ExpireCall(c) ==
  /\ rpc[c] = "running"
  /\ rpc' = [rpc EXCEPT ![c] = "expired"]
  /\ Send([call |-> c, kind |-> "error"])
  /\ UNCHANGED <<exec, accepted, socket, worker, inbox, call>>

\* A cancelled handler has unwound.
HandlerUnwinds(c) ==
  /\ rpc[c] = "cancelling"
  /\ rpc' = [rpc EXCEPT ![c] = "dropped"]
  /\ UNCHANGED <<exec, accepted, socket, worker, inbox, outbox, call>>

-----------------------------------------------------------------------------
(* worker.py *)

\* A listening socket exists exactly while the parent is in accept().
Connect ==
  /\ worker.pc = "connecting" /\ exec.pc = "accept"
  /\ worker' = [worker EXCEPT !.pc = "hello"]
  /\ socket' = "open"
  /\ UNCHANGED <<exec, accepted, inbox, outbox, rpc, call>>

Boot ==
  /\ worker.pc = "boot" /\ outbox # <<>>
  /\ outbox' = Tail(outbox)
  /\ worker' = [worker EXCEPT !.pc = "code", !.reading = TRUE]
  /\ UNCHANGED <<exec, accepted, socket, inbox, rpc, call>>

\* AsyncRPCClient.request(): the future is registered and the frame written.
Request(c) ==
  /\ worker.pc = "code" /\ worker.reading /\ call[c] = "idle"
  /\ call' = [call EXCEPT ![c] = "pending"]
  /\ inbox' = Append(inbox, c)
  /\ UNCHANGED <<exec, accepted, socket, worker, outbox, rpc>>

\* One turn of read_responses(); an answer nobody waits for is ignored.
ReadAnswer ==
  /\ worker.pc = "code" /\ worker.reading /\ outbox # <<>>
  /\ LET m == Head(outbox) IN
       call' = IF call[m.call] = "pending" THEN [call EXCEPT ![m.call] = m.kind] ELSE call
  /\ outbox' = Tail(outbox)
  /\ UNCHANGED <<exec, accepted, socket, worker, inbox, rpc>>

RequestTimesOut(c) ==
  /\ worker.pc = "code" /\ call[c] = "pending"
  /\ call' = [call EXCEPT ![c] = "timeout"]
  /\ UNCHANGED <<exec, accepted, socket, worker, inbox, outbox, rpc>>

PendingClosed == [c \in Calls |-> IF call[c] = "pending" THEN "closed" ELSE call[c]]

\* read_responses() sees the end of the stream and fails what is pending.
ReaderEnds ==
  /\ worker.pc = "code" /\ worker.reading /\ socket = "closed" /\ outbox = <<>>
  /\ worker' = [worker EXCEPT !.reading = FALSE]
  /\ call' = PendingClosed
  /\ UNCHANGED <<exec, accepted, socket, inbox, outbox, rpc>>

\* The code returns or raises: the reader is stopped, the client closed, the result
\* written.  Code that leaves calls behind unfinished loses their answers.
CodeEnds ==
  /\ worker.pc = "code"
  /\ worker' = [worker EXCEPT !.pc = "closing", !.reading = FALSE]
  /\ call' = PendingClosed
  /\ inbox' = IF socket = "open" THEN Append(inbox, "result") ELSE inbox
  /\ UNCHANGED <<exec, accepted, socket, outbox, rpc>>

\* The process ends: by itself, by a crash or by a signal.
Die ==
  /\ Alive
  /\ worker' = [worker EXCEPT !.pc = "dead", !.reading = FALSE]
  /\ UNCHANGED <<exec, accepted, socket, inbox, outbox, rpc, call>>

-----------------------------------------------------------------------------
ParentStep ==
  \/ Listen \/ Spawn \/ Accept \/ ReceiveCall \/ ReceiveResult
  \/ ServerClosed \/ Gathered \/ GatherRaises \/ TransportClosed
  \/ WorkerWaited \/ StderrRead

Next ==
  \/ ParentStep \/ TimeOut \/ SpawnFails \/ ConnectionLost \/ WaitTimesOut \/ Cancel
  \/ Handshake \/ HandshakeFails
  \/ \E c \in Calls : AnswerCall(c) \/ ExpireCall(c) \/ HandlerUnwinds(c)
  \/ Connect \/ Boot \/ ReadAnswer \/ ReaderEnds \/ CodeEnds \/ Die
  \/ \E c \in Calls : Request(c) \/ RequestTimesOut(c)

Spec == Init /\ [][Next]_vars

\* The event loop goes on, timers fire (that of the handshake too), and a cancelled tool
\* unwinds.  Nothing is assumed of the worker.
FairSpec ==
  /\ Spec
  /\ WF_vars(ParentStep) /\ WF_vars(TimeOut) /\ WF_vars(WaitTimesOut) /\ WF_vars(HandshakeFails)
  /\ \A c \in Calls : WF_vars(HandlerUnwinds(c)) /\ WF_vars(RequestTimesOut(c))

-----------------------------------------------------------------------------
(* Properties *)

WorkerIsStopped == Alive => worker.signal = "kill"

\* The connection was accepted, but the await of accept() was timed out or cancelled before
\* it took the transport: the future's result is lost, and nothing closes the socket.
LostInAccept == accepted = "set" /\ exec.transport = "none"

\* When execute() has ended and its cleanup was not cancelled, nothing of it is left: the
\* process is gone or killed, no nested tool runs, and its connection is closed, unless it
\* was lost in accept() or is still in its handshake (see ConnectionIsClosed).
LeavesNothing ==
  exec.pc = "ended" /\ ~exec.abandoned =>
    /\ WorkerIsStopped
    /\ HandlersDone
    /\ socket = "open" => accepted # "set" \/ LostInAccept

\* A connection is closed for good, one that is still in its handshake when execute() ends
\* too, unless it was lost in accept() or the cleanup was cancelled.
ConnectionIsClosed == <>[](socket = "open" => exec.abandoned \/ LostInAccept)

\* execute() ends, whatever the worker, its code and the tools do.
ExecuteEnds == <>(exec.pc = "ended")

=============================================================================
