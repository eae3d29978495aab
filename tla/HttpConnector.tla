--------------------------- MODULE HttpConnector ---------------------------
(***************************************************************************)
(* builtin/http_connector: the requests that the HTTP connector serves at  *)
(* the same time, and what they share: the history cache, the event        *)
(* sessions, the streams and the invitations.  A request is a coroutine;   *)
(* an action is its code between two awaits.  The run of a message is      *)
(* reduced to the one item it stores and publishes, named like its         *)
(* request.  A user's next message displaces the run in progress: the new  *)
(* run is at work while the old one unwinds and submit() waits for it.     *)
(***************************************************************************)
EXTENDS Naturals, Sequences, FiniteSets

LOCAL INSTANCE SequencesExt

CONSTANTS
  Requests,  \* HTTP requests; also their streams, sessions and items
  Users,
  Invites,   \* invitations handed out before
  Names,     \* user names that can be registered
  Workloads  \* what the requests ask for

Kinds == {"history", "message", "stream", "events", "cancel", "register"}

ASSUME HttpAssumption == Workloads \subseteq [Requests -> Kinds]

VARIABLES
  req,          \* the coroutine of each request, see Request
  run,          \* the run task of each message: see Runs
  slot,         \* AgentRunner._tasks: the run submitted last for a user
  item,         \* the item of each message: "new", "saved", "published"
  cache,        \* _history_cache
  session,      \* the session of an events request and all events put in its queue
  streamTasks,  \* _stream_tasks
  streamUsers,  \* _stream_users
  invites,      \* Authorizer._invites
  accounts,     \* rows of the user table: request, invitation, name
  stop,         \* stop(): "no", "gathering", "done"
  gathered,     \* the wrappers stop() awaits
  raced         \* history: items published between the read and the return of a load

vars == <<req, run, slot, item, cache, session, streamTasks, streamUsers, invites, accounts,
          stop, gathered, raced>>

\* pc is the await: authentication, loading (the query, then its result), a stream's
\* wrapper task before its first step, handle() on its way to the runner, submit() behind a
\* displaced run, the run of a message, the event queue, the three queries of a registration.
\* stage says what the history is loaded for, behind which run submit() awaits.
Request ==
  [kind : Kinds, user : Users,
   pc : {"idle", "auth", "load", "read", "created", "submit", "replace", "run", "open", "names",
         "insertNames", "insert", "done"},
   stage : {"history", "before", "after"},
   snapshot : SUBSET Requests, known : SUBSET Requests, answer : SUBSET Requests,
   behind : SUBSET Requests, cancelled : BOOLEAN, failed : BOOLEAN,
   args : (Invites \X Names) \cup {<<>>}]

\* No task yet, at work, unwinding from a cancellation, and the two ways it ended.
Runs == {"none", "going", "cancelled", "over", "aborted"}

AtWork(r) == run[r] \in {"going", "cancelled"}
Ended(r) == run[r] \in {"over", "aborted"}

Empty == [filled |-> FALSE, items |-> {}]

Init ==
  /\ \E w \in Workloads, o \in [Requests -> Users] :
       req = [r \in Requests |->
              [kind |-> w[r], user |-> o[r], pc |-> "idle", stage |-> "history",
               snapshot |-> {}, known |-> {}, answer |-> {}, behind |-> {},
               cancelled |-> FALSE, failed |-> FALSE, args |-> <<>>]]
  /\ run = [r \in Requests |-> "none"] /\ slot = [u \in Users |-> {}]
  /\ item = [r \in Requests |-> "new"]
  /\ cache = [u \in Users |-> Empty]
  /\ session = [r \in Requests |-> [state |-> "none", log |-> <<>>]]
  /\ streamTasks = {} /\ streamUsers = {}
  /\ invites = Invites /\ accounts = {}
  /\ stop = "no" /\ gathered = {} /\ raced = {}

Of(u) == {r \in Requests : req[r].user = u}

\* _sessions_for_user()
Sessions(u) == {s \in Of(u) : session[s].state = "open"}

\* _publish(): the queues are unbounded, so put() never waits.
Published(u, e) ==
  [s \in Requests |-> IF s \in Sessions(u) THEN [session[s] EXCEPT !.log = Append(@, e)]
                      ELSE session[s]]

-----------------------------------------------------------------------------
(* The history of a user. *)

\* What the request does with the history h: it answers with it, notes what is known
\* before its run, or answers with what was not.
Got(q, h) ==
  CASE q.stage = "history" -> [q EXCEPT !.pc = "done", !.answer = h]
    [] q.stage = "before"  -> [q EXCEPT !.pc = "submit", !.known = h]
    [] q.stage = "after"   -> [q EXCEPT !.pc = "done", !.answer = h \ q.known]

\* _history_for_user() up to its first await: a cached history is returned at once.
Wanting(q) ==
  IF cache[q.user].filled THEN Got(q, cache[q.user].items) ELSE [q EXCEPT !.pc = "load"]

\* The storage answers the query.
LoadReads(r) ==
  /\ req[r].pc = "load"
  /\ req' = [req EXCEPT ![r].pc = "read",
                        ![r].snapshot = {i \in Of(req[r].user) : item[i] # "new"}]
  /\ UNCHANGED <<run, slot, item, cache, session, streamTasks, streamUsers, invites, accounts,
                 stop, gathered, raced>>

\* The result is cached, whatever has been published in the meantime.
LoadReturns(r) ==
  /\ req[r].pc = "read"
  /\ cache' = [cache EXCEPT ![req[r].user] = [filled |-> TRUE, items |-> req[r].snapshot]]
  /\ req' = [req EXCEPT ![r] = Got(req[r], req[r].snapshot)]
  /\ UNCHANGED <<run, slot, item, session, streamTasks, streamUsers, invites, accounts, stop,
                 gathered, raced>>

-----------------------------------------------------------------------------
(* Requests. *)

\* A request is routed and its token looked up.
Arrive(r) ==
  /\ stop = "no" /\ req[r].pc = "idle"
  /\ req' = [req EXCEPT ![r].pc = "auth"]
  /\ UNCHANGED <<run, slot, item, cache, session, streamTasks, streamUsers, invites, accounts,
                 stop, gathered, raced>>

Authenticated(r, k) == req[r].pc = "auth" /\ req[r].kind = k

HandleHistory(r) ==
  /\ Authenticated(r, "history")
  /\ req' = [req EXCEPT ![r] = Wanting([@ EXCEPT !.stage = "history"])]
  /\ UNCHANGED <<run, slot, item, cache, session, streamTasks, streamUsers, invites, accounts,
                 stop, gathered, raced>>

\* _handle_message() without streaming: remember what is there before the run.
HandleMessage(r) ==
  /\ Authenticated(r, "message")
  /\ req' = [req EXCEPT ![r] = Wanting([@ EXCEPT !.stage = "before"])]
  /\ UNCHANGED <<run, slot, item, cache, session, streamTasks, streamUsers, invites, accounts,
                 stop, gathered, raced>>

\* _handle_message() with streaming: the wrapper task is created and listed.
HandleStream(r) ==
  /\ Authenticated(r, "stream")
  /\ req' = [req EXCEPT ![r].pc = "created"]
  /\ streamTasks' = streamTasks \cup {r}
  /\ streamUsers' = streamUsers \cup {r}
  /\ UNCHANGED <<run, slot, item, cache, session, invites, accounts, stop, gathered, raced>>

\* Task.cancel() of a wrapper: one that awaits its run cancels the run, one that has none
\* yet is to end; in submit() behind a displaced run the error is swallowed and the
\* cancellation lost.
Interrupted(x, tasks) == x \in tasks /\ req[x].pc # "replace"

RunsWithout(tasks) ==
  [x \in Requests |-> IF x \in tasks /\ req[x].pc = "run" /\ run[x] = "going"
                      THEN "cancelled" ELSE run[x]]

\* _cancel_message(): the stream leaves the table; its wrapper is cancelled.
HandleCancel(r, s) ==
  /\ Authenticated(r, "cancel") /\ req[s].kind = "stream" /\ req[s].pc # "created"
  /\ streamTasks' = streamTasks \ {s}
  /\ req' = [req EXCEPT ![r].pc = "done", ![s].cancelled = @ \/ Interrupted(s, streamTasks)]
  /\ run' = RunsWithout({s} \cap streamTasks) /\ UNCHANGED slot
  /\ UNCHANGED <<item, cache, session, streamUsers, invites, accounts, stop, gathered, raced>>

\* _open_session(): the new session learns of the user's streams in progress.
HandleEvents(r) ==
  /\ Authenticated(r, "events")
  /\ req' = [req EXCEPT ![r].pc = "open"]
  /\ session' = [session EXCEPT ![r] =
       [state |-> "open", log |-> SetToSeq({"started"} \X (streamUsers \cap streamTasks \cap Of(req[r].user)))]]
  /\ UNCHANGED <<run, slot, item, cache, streamTasks, streamUsers, invites, accounts, stop,
                 gathered, raced>>

\* Mutant: the cached history is emptied and stays there.
CloseSessionClearing(s) ==
  /\ session[s].state = "open"
  /\ session' = [session EXCEPT ![s].state = "closed"]
  /\ req' = [req EXCEPT ![s].pc = "done"]
  /\ LET u == req[s].user IN
       cache' = IF Sessions(u) = {s} THEN [cache EXCEPT ![u].items = {}] ELSE cache
  /\ UNCHANGED <<run, slot, item, streamTasks, streamUsers, invites, accounts, stop, gathered, raced>>

\* _close_session(): with its last session a user's cached history goes.
CloseSession(s) ==
  /\ session[s].state = "open"
  /\ session' = [session EXCEPT ![s].state = "closed"]
  /\ req' = [req EXCEPT ![s].pc = "done"]
  /\ LET u == req[s].user IN
       cache' = IF Sessions(u) = {s} THEN [cache EXCEPT ![u] = Empty] ELSE cache
  /\ UNCHANGED <<run, slot, item, streamTasks, streamUsers, invites, accounts, stop, gathered, raced>>

-----------------------------------------------------------------------------
(* The run of a message. *)

\* The wrapper's first step.  A task that is cancelled before it never enters its try.
WrapperStarts(r) ==
  /\ req[r].pc = "created"
  /\ req' = [req EXCEPT ![r].pc = IF req[r].cancelled THEN "done" ELSE "submit",
                        ![r].failed = req[r].cancelled]
  /\ UNCHANGED <<run, slot, item, cache, session, streamTasks, streamUsers, invites, accounts,
                 stop, gathered, raced>>

\* agent.handle() reaches AgentRunner.submit(): the task of the run is created and takes the
\* user's place in the table; a run that is still there is cancelled, and submit() awaits it.
StartRun(r) ==
  /\ req[r].pc = "submit" /\ ~req[r].cancelled
  /\ LET u == req[r].user
         old == {x \in slot[u] : AtWork(x)} IN
       /\ slot' = [slot EXCEPT ![u] = {r}]
       /\ run' = [x \in Requests |-> CASE x = r -> "going"
                                       [] x # r /\ x \in old -> "cancelled"
                                       [] OTHER -> run[x]]
       /\ req' = [req EXCEPT ![r].pc = IF old = {} THEN "run" ELSE "replace", ![r].behind = old]
  /\ UNCHANGED <<item, cache, session, streamTasks, streamUsers, invites, accounts,
                 stop, gathered, raced>>

\* submit() returns: the displaced run has ended, its own may be anywhere by now.
Replaced(r) ==
  /\ req[r].pc = "replace" /\ \A x \in req[r].behind : Ended(x)
  /\ req' = [req EXCEPT ![r].pc = "run"]
  /\ UNCHANGED <<run, slot, item, cache, session, streamTasks, streamUsers, invites, accounts,
                 stop, gathered, raced>>

\* save_event() commits; its caller resumes later, or never if it is cancelled.
SaveItem(r) ==
  /\ AtWork(r) /\ item[r] = "new"
  /\ item' = [item EXCEPT ![r] = "saved"]
  /\ UNCHANGED <<run, slot, req, cache, session, streamTasks, streamUsers, invites, accounts,
                 stop, gathered, raced>>

\* Mutant: only a user who listens has the item cached.
PublishItemToListeners(r) ==
  /\ run[r] = "going" /\ item[r] = "saved"
  /\ item' = [item EXCEPT ![r] = "published"]
  /\ LET u == req[r].user IN
       /\ cache' = IF cache[u].filled /\ Sessions(u) # {} THEN [cache EXCEPT ![u].items = @ \cup {r}] ELSE cache
       /\ raced' = IF \E x \in Of(u) : req[x].pc = "read" /\ r \notin req[x].snapshot
                   THEN raced \cup {r} ELSE raced
  /\ UNCHANGED <<run, slot, req, session, streamTasks, streamUsers, invites, accounts, stop, gathered>>

\* publish_item(): _cache_item() adds to a filled cache only.
PublishItem(r) ==
  /\ run[r] = "going" /\ item[r] = "saved"
  /\ item' = [item EXCEPT ![r] = "published"]
  /\ LET u == req[r].user IN
       /\ cache' = IF cache[u].filled THEN [cache EXCEPT ![u].items = @ \cup {r}] ELSE cache
       /\ raced' = IF \E x \in Of(u) : req[x].pc = "read" /\ r \notin req[x].snapshot
                   THEN raced \cup {r} ELSE raced
  /\ UNCHANGED <<run, slot, req, session, streamTasks, streamUsers, invites, accounts, stop, gathered>>

\* A run ends when its item is published, fails before it stored one, or unwinds from
\* a cancellation wherever it is.
RunEnds(r) ==
  /\ \/ run[r] = "going" /\ item[r] # "saved"
     \/ run[r] = "cancelled"
  /\ run' = [run EXCEPT ![r] = IF @ = "going" THEN "over" ELSE "aborted"]
  /\ UNCHANGED <<req, slot, item, cache, session, streamTasks, streamUsers, invites, accounts,
                 stop, gathered, raced>>

\* _run_agent() resumes or is cancelled before it has submitted.
RunIsOver(r) ==
  \/ req[r].pc = "run" /\ Ended(r)
  \/ req[r].pc = "submit" /\ req[r].cancelled

Succeeded(r) == item[r] = "published" /\ run[r] = "over" /\ ~req[r].cancelled

\* The response is what the history has and had not before; a failed or replaced run
\* raises.
MessageEnds(r) ==
  /\ req[r].kind = "message" /\ RunIsOver(r)
  /\ req' = [req EXCEPT ![r] = IF Succeeded(r) THEN Wanting([@ EXCEPT !.stage = "after"])
                               ELSE [@ EXCEPT !.pc = "done", !.failed = TRUE]]
  /\ UNCHANGED <<run, slot, item, cache, session, streamTasks, streamUsers, invites, accounts,
                 stop, gathered, raced>>

\* The finally block of the wrapper: whatever happened, the sessions are told.
StreamEnds(r) ==
  /\ req[r].kind = "stream" /\ RunIsOver(r)
  /\ session' = Published(req[r].user, <<"done", r>>)
  /\ streamTasks' = streamTasks \ {r}
  /\ streamUsers' = streamUsers \ {r}
  /\ req' = [req EXCEPT ![r].pc = "done", ![r].failed = ~Succeeded(r)]
  /\ UNCHANGED <<run, slot, item, cache, invites, accounts, stop, gathered, raced>>

-----------------------------------------------------------------------------
(* Registration with an invitation: Authorizer.register_with_invite(). *)

Taken(n) == \E a \in accounts : a[3] = n

Rejected(r) == req' = [req EXCEPT ![r].pc = "done", ![r].failed = TRUE]

HandleRegister(r, t, n) ==
  /\ Authenticated(r, "register")
  /\ IF t \in invites THEN req' = [req EXCEPT ![r].pc = "names", ![r].args = <<t, n>>]
     ELSE Rejected(r)
  /\ UNCHANGED <<run, slot, item, cache, session, streamTasks, streamUsers, invites, accounts,
                 stop, gathered, raced>>

\* The name is free: the invitation is spent.  If another request has spent it in the
\* meantime, remove() raises KeyError.
SpendInvite(r) ==
  /\ req[r].pc = "names"
  /\ LET t == req[r].args[1] IN
       IF Taken(req[r].args[2]) \/ t \notin invites
       THEN Rejected(r) /\ UNCHANGED invites
       ELSE req' = [req EXCEPT ![r].pc = "insertNames"] /\ invites' = invites \ {t}
  /\ UNCHANGED <<run, slot, item, cache, session, streamTasks, streamUsers, accounts, stop,
                 gathered, raced>>

\* _insert_user() looks again, then inserts; UNIQUE (app_name, username) has the last word.
InsertUser(r) ==
  /\ \/ /\ req[r].pc = "insertNames"
        /\ IF Taken(req[r].args[2]) THEN Rejected(r) ELSE req' = [req EXCEPT ![r].pc = "insert"]
        /\ UNCHANGED accounts
     \/ /\ req[r].pc = "insert"
        /\ IF Taken(req[r].args[2])
           THEN Rejected(r) /\ UNCHANGED accounts
           ELSE /\ req' = [req EXCEPT ![r].pc = "done"]
                /\ accounts' = accounts \cup {<<r, req[r].args[1], req[r].args[2]>>}
  /\ UNCHANGED <<run, slot, item, cache, session, streamTasks, streamUsers, invites, stop, gathered, raced>>

-----------------------------------------------------------------------------
(* stop(): no new request is routed; requests on their way go on. *)

StopBegins ==
  /\ stop = "no"
  /\ stop' = "gathering" /\ gathered' = streamTasks
  /\ invites' = {}
  /\ req' = [r \in Requests |-> [req[r] EXCEPT !.cancelled = @ \/ Interrupted(r, streamTasks)]]
  /\ run' = RunsWithout(streamTasks)
  /\ UNCHANGED <<slot, item, cache, session, streamTasks, streamUsers, accounts, raced>>

StopEnds ==
  /\ stop = "gathering" /\ \A r \in gathered : req[r].pc = "done"
  /\ stop' = "done"
  /\ streamTasks' = {} /\ streamUsers' = {}
  /\ session' = [s \in Requests |-> IF session[s].state = "open"
                                    THEN [session[s] EXCEPT !.state = "closed"] ELSE session[s]]
  /\ req' = [r \in Requests |-> IF session[r].state = "open" THEN [req[r] EXCEPT !.pc = "done"]
                                ELSE req[r]]
  /\ cache' = [u \in Users |-> Empty]
  /\ UNCHANGED <<run, slot, item, invites, accounts, gathered, raced>>

Next ==
  \/ \E r \in Requests :
       \/ Arrive(r) \/ LoadReads(r) \/ LoadReturns(r)
       \/ HandleHistory(r) \/ HandleMessage(r) \/ HandleStream(r) \/ HandleEvents(r)
       \/ \E s \in Requests : HandleCancel(r, s)
       \/ CloseSession(r)
       \/ WrapperStarts(r) \/ StartRun(r) \/ Replaced(r)
       \/ SaveItem(r) \/ PublishItem(r) \/ RunEnds(r) \/ MessageEnds(r) \/ StreamEnds(r)
       \/ \E t \in Invites, n \in Names : HandleRegister(r, t, n)
       \/ SpendInvite(r) \/ InsertUser(r)
  \/ StopBegins \/ StopEnds

Spec == Init /\ [][Next]_vars

-----------------------------------------------------------------------------
(* Properties *)

\* A cached history has every item that was published, except those that were
\* published while a load had read the storage and not yet returned.
CacheIsHistory ==
  \A u \in Users : cache[u].filled =>
    {i \in Of(u) : item[i] = "published"} \subseteq cache[u].items \cup raced

\* The response to a message has the item its run published, with the same exception,
\* whichever histories were loaded and dropped while it ran.
ResponseHasAnswer ==
  \A r \in Requests :
    req[r].kind = "message" /\ req[r].pc = "done" /\ ~req[r].failed
      => r \in req[r].answer \cup raced

=============================================================================
