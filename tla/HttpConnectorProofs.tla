------------------------ MODULE HttpConnectorProofs ------------------------
(***************************************************************************)
(* What the requests of the HTTP connector may rely on in the history      *)
(* cache, and what registration may rely on in the invitations, for any    *)
(* requests, users, invitations and names.                                 *)
(***************************************************************************)
EXTENDS HttpConnector, TLAPS

IsSession(s) == "state" \in DOMAIN s /\ s.state \in {"none", "open", "closed"}

TypeOK ==
  /\ req \in [Requests -> Request]
  /\ run \in [Requests -> Runs] /\ slot \in [Users -> SUBSET Requests]
  /\ item \in [Requests -> {"new", "saved", "published"}]
  /\ cache \in [Users -> [filled : BOOLEAN, items : SUBSET Requests]]
  /\ DOMAIN session = Requests /\ \A r \in Requests : IsSession(session[r])
  /\ streamTasks \subseteq Requests /\ streamUsers \subseteq Requests
  /\ invites \subseteq Invites /\ accounts \subseteq Requests \X Invites \X Names
  /\ stop \in {"no", "gathering", "done"} /\ gathered \subseteq Requests /\ raced \subseteq Requests

-----------------------------------------------------------------------------
(* The inductive invariant. *)

Stored == {i \in Requests : item[i] # "new"}

\* A load that has read the storage has every published item, except those that were
\* published since; and neither a load nor the cache has what was never stored.
LoadsAreRecent ==
  /\ \A u \in Users : cache[u].items \subseteq Stored
  /\ \A r \in Requests : req[r].pc = "read" =>
       /\ req[r].snapshot \subseteq Stored
       /\ \A i \in Requests : req[i].user = req[r].user /\ item[i] = "published" =>
            i \in req[r].snapshot \cup raced

\* How far a message has come: what it knew before its run has not its own item, and the
\* history it answers with is loaded once that item is published.
MessageWaits(r) ==
  /\ req[r].pc \in {"idle", "auth", "load", "read", "submit", "replace", "run", "done"}
  /\ req[r].pc \in {"idle", "auth", "submit"} => item[r] = "new" /\ run[r] = "none"
  /\ req[r].pc \in {"submit", "replace", "run"} => r \notin req[r].known
  /\ req[r].pc \in {"load", "read"} =>
       \/ req[r].stage = "before" /\ item[r] = "new" /\ run[r] = "none"
       \/ req[r].stage = "after" /\ item[r] = "published" /\ r \notin req[r].known
  /\ req[r].pc = "done" /\ ~req[r].failed => r \in req[r].answer \cup raced

Messages == \A r \in Requests : req[r].kind = "message" => MessageWaits(r)

\* Only events requests have an open session, and only registrations look names up.
Places ==
  \A r \in Requests :
    /\ session[r].state = "open" => req[r].kind = "events"
    /\ req[r].pc \in {"names", "insertNames", "insert"} =>
         req[r].kind = "register" /\ req[r].args \in Invites \X Names

\* The invitation that a registration has spent is neither to be had any more nor spent
\* by another one, and the same of one that made an account.
Spent(r) == req[r].pc \in {"insertNames", "insert"}

InvitesAreSpent ==
  /\ \A r \in Requests : Spent(r) => req[r].args[1] \notin invites
  /\ \A r, x \in Requests : Spent(r) /\ Spent(x) /\ req[r].args[1] = req[x].args[1] => r = x
  /\ \A a \in accounts : a[2] \notin invites
  /\ \A a \in accounts, r \in Requests : Spent(r) => a[2] # req[r].args[1]
  /\ \A a, b \in accounts : a[2] = b[2] \/ a[3] = b[3] => a = b

IInv == TypeOK /\ CacheIsHistory /\ LoadsAreRecent /\ Messages /\ Places /\ InvitesAreSpent

\* Not more accounts are made than invitations were handed out: an invitation makes one
\* account at most, and a name is given once.
InvitationsServeOnce == \A a, b \in accounts : a[2] = b[2] \/ a[3] = b[3] => a = b

-----------------------------------------------------------------------------
(* What the steps make of a request. *)

Pcs == {"idle", "auth", "load", "read", "created", "submit", "replace", "run", "open", "names",
        "insertNames", "insert", "done"}

\* A step makes q of request r, and nothing of the others.
Becomes(r, q) ==
  /\ q \in Request /\ q.kind = req[r].kind /\ q.user = req[r].user
  /\ req' = [req EXCEPT ![r] = q]

\* The request after such a step, and the others.
LEMMA BecomesThat ==
  ASSUME TypeOK, NEW r \in Requests, NEW q, Becomes(r, q)
  PROVE  /\ req' \in [Requests -> Request]
         /\ req'[r] = q
         /\ \A x \in Requests : x # r => req'[x] = req[x]
         /\ \A x \in Requests : req'[x].kind = req[x].kind /\ req'[x].user = req[x].user
  <1>1. req' \in [Requests -> Request] /\ req'[r] = q
    BY DEF TypeOK, Becomes
  <1>2. ASSUME NEW x \in Requests, x # r PROVE req'[x] = req[x]
    BY <1>2 DEF TypeOK, Becomes
  <1>3. q.kind = req[r].kind /\ q.user = req[r].user
    BY DEF Becomes
  <1>4. QED  BY <1>1, <1>2, <1>3

\* A request that goes to another await.
LEMMA AtAwait ==
  ASSUME NEW q \in Request, NEW p \in Pcs, NEW n, n = [q EXCEPT !.pc = p]
  PROVE  /\ n \in Request /\ n.pc = p /\ n.kind = q.kind /\ n.user = q.user
         /\ n.stage = q.stage /\ n.snapshot = q.snapshot /\ n.known = q.known
         /\ n.answer = q.answer /\ n.failed = q.failed /\ n.args = q.args
  BY DEF Request, Pcs

\* One that is cancelled, or not.
LEMMA AtCancel ==
  ASSUME NEW q \in Request, NEW b \in BOOLEAN, NEW n, n = [q EXCEPT !.cancelled = b]
  PROVE  /\ n \in Request /\ n.pc = q.pc /\ n.kind = q.kind /\ n.user = q.user
         /\ n.stage = q.stage /\ n.snapshot = q.snapshot /\ n.known = q.known
         /\ n.answer = q.answer /\ n.failed = q.failed /\ n.args = q.args
  BY DEF Request

\* One that wants the history for another purpose.
LEMMA AtStage ==
  ASSUME NEW q \in Request, NEW st \in {"history", "before", "after"},
         NEW n, n = [q EXCEPT !.stage = st]
  PROVE  /\ n \in Request /\ n.pc = q.pc /\ n.kind = q.kind /\ n.user = q.user
         /\ n.stage = st /\ n.snapshot = q.snapshot /\ n.known = q.known
         /\ n.answer = q.answer /\ n.failed = q.failed /\ n.args = q.args
  BY DEF Request

-----------------------------------------------------------------------------
(* Types. *)

\* What is done with a history keeps the request one.
LEMMA GotType ==
  ASSUME NEW q \in Request, NEW h \in SUBSET Requests
  PROVE  /\ Got(q, h) \in Request
         /\ Got(q, h).kind = q.kind /\ Got(q, h).user = q.user
         /\ Got(q, h).failed = q.failed /\ Got(q, h).args = q.args
         /\ Got(q, h).stage = q.stage
         /\ Got(q, h).pc = (IF q.stage = "before" THEN "submit" ELSE "done")
         /\ q.stage = "before" => Got(q, h).known = h
         /\ q.stage = "after" => Got(q, h).answer = h \ q.known
  <1>1. q.stage \in {"history", "before", "after"}
    BY DEF Request
  <1>2. CASE q.stage = "history"
    BY <1>2 DEF Got, Request
  <1>3. CASE q.stage = "before"
    BY <1>3 DEF Got, Request
  <1>4. CASE q.stage = "after"
    BY <1>4 DEF Got, Request
  <1>5. QED  BY <1>1, <1>2, <1>3, <1>4

\* A request that wants the history has it at once or loads it.
LEMMA WantingType ==
  ASSUME TypeOK, NEW q \in Request
  PROVE  /\ Wanting(q) \in Request
         /\ Wanting(q).kind = q.kind /\ Wanting(q).user = q.user
         /\ Wanting(q).failed = q.failed /\ Wanting(q).args = q.args
         /\ Wanting(q).stage = q.stage
         /\ \/ /\ Wanting(q).pc = "load" /\ Wanting(q).known = q.known
            \/ /\ cache[q.user].filled /\ Wanting(q) = Got(q, cache[q.user].items)
  <1>1. q.user \in Users
    BY DEF Request
  <1>2. cache[q.user].items \in SUBSET Requests
    BY <1>1 DEF TypeOK
  <1>3. CASE cache[q.user].filled
    <2>1. Wanting(q) = Got(q, cache[q.user].items)
      BY <1>3 DEF Wanting
    <2>2. QED  BY <1>2, <1>3, <2>1, GotType
  <1>4. CASE ~cache[q.user].filled
    <2>1. Wanting(q) = [q EXCEPT !.pc = "load"]
      BY <1>4 DEF Wanting
    <2>2. QED  BY <2>1 DEF Request
  <1>5. QED  BY <1>3, <1>4

-----------------------------------------------------------------------------
(* What a step leaves as it was. *)

Safe == CacheIsHistory /\ LoadsAreRecent /\ Messages /\ Places /\ InvitesAreSpent

\* The cache and the loads, where nothing is published and no load reads.
LEMMA CacheStays ==
  ASSUME IInv, item' = item, raced' = raced,
         \A u \in Users : cache'[u] \in {cache[u], Empty},
         \A x \in Requests :
            /\ req'[x].user = req[x].user
            /\ req'[x].pc = "read" => req[x].pc = "read" /\ req'[x].snapshot = req[x].snapshot
  PROVE  CacheIsHistory' /\ LoadsAreRecent'
  <1>1. TypeOK /\ CacheIsHistory /\ LoadsAreRecent
    BY DEF IInv
  <1>2. \A u \in Users : Of(u)' = Of(u)
    BY DEF Of
  <1>3. Stored' = Stored
    BY DEF Stored
  <1>4. CacheIsHistory'
    <2> SUFFICES ASSUME NEW u \in Users, cache'[u].filled
                 PROVE  {i \in Of(u)' : item'[i] = "published"} \subseteq cache'[u].items \cup raced'
      BY DEF CacheIsHistory
    <2>1. cache'[u] = cache[u]
      BY DEF Empty
    <2>2. QED  BY <1>1, <1>2, <2>1 DEF CacheIsHistory
  <1>5. \A u \in Users : cache'[u].items \subseteq Stored'
    BY <1>1, <1>3 DEF LoadsAreRecent, Empty
  <1>6. ASSUME NEW x \in Requests, req'[x].pc = "read"
        PROVE  /\ req'[x].snapshot \subseteq Stored'
               /\ \A i \in Requests : req'[i].user = req'[x].user /\ item'[i] = "published" =>
                    i \in req'[x].snapshot \cup raced'
    BY <1>1, <1>3, <1>6 DEF LoadsAreRecent
  <1>7. QED  BY <1>4, <1>5, <1>6 DEF LoadsAreRecent

\* The messages, where one request moves and no other gets a run.
LEMMA MessagesStay ==
  ASSUME TypeOK, Messages, NEW r \in Requests, NEW q, Becomes(r, q),
         item' = item, raced \subseteq raced',
         \A x \in Requests : x # r /\ run[x] = "none" => run'[x] = "none",
         q.kind = "message" => MessageWaits(r)'
  PROVE  Messages'
  <1> SUFFICES ASSUME NEW x \in Requests, req'[x].kind = "message" PROVE MessageWaits(x)'
    BY DEF Messages
  <1>1. CASE x = r
    BY <1>1, BecomesThat
  <1>2. CASE x # r
    <2>1. req'[x] = req[x]
      BY <1>2, BecomesThat
    <2>2. MessageWaits(x)
      BY <2>1 DEF Messages
    <2>3. run[x] = "none" => run'[x] = "none"
      BY <1>2
    <2>4. QED  BY <2>1, <2>2, <2>3 DEF MessageWaits
  <1>3. QED  BY <1>1, <1>2

\* The registrations, where none of them takes a step.
LEMMA InvitesStay ==
  ASSUME InvitesAreSpent, accounts' = accounts, invites' \subseteq invites,
         \A x \in Requests : Spent(x)' => Spent(x) /\ req'[x].args = req[x].args
  PROVE  InvitesAreSpent'
  BY DEF InvitesAreSpent

\* A step of one request that neither reads, publishes nor registers.
LEMMA OneMoves ==
  ASSUME IInv, NEW r \in Requests, NEW q, Becomes(r, q),
         q.pc \notin {"read", "names", "insertNames", "insert"},
         item' = item, raced' = raced, invites' = invites, accounts' = accounts,
         \A x \in Requests : x # r /\ run[x] = "none" => run'[x] = "none",
         \A u \in Users : cache'[u] \in {cache[u], Empty},
         \A x \in Requests : session'[x].state = "open" => session[x].state = "open" \/ req[x].kind = "events",
         q.kind = "message" => MessageWaits(r)'
  PROVE  Safe'
  <1>1. TypeOK /\ Messages /\ Places /\ InvitesAreSpent
    BY DEF IInv
  <1>2. \A x \in Requests :
          \/ req'[x] = req[x]
          \/ req'[x].pc = q.pc /\ req'[x].kind = req[x].kind /\ req'[x].user = req[x].user
    BY <1>1, BecomesThat DEF Becomes
  <1>3. CacheIsHistory' /\ LoadsAreRecent'
    BY <1>2, CacheStays
  <1>4. Messages'
    BY <1>1, MessagesStay
  <1>5. Places'
    BY <1>1, <1>2 DEF Places
  <1>6. InvitesAreSpent'
    BY <1>1, <1>2, InvitesStay DEF Spent
  <1>7. QED  BY <1>3, <1>4, <1>5, <1>6 DEF Safe

\* A step that only cancels requests, ends those that have an open session or moves runs on.
LEMMA SomeAreCancelled ==
  ASSUME IInv, item' = item, raced' = raced, invites' \subseteq invites, accounts' = accounts,
         \A x \in Requests : run[x] = "none" => run'[x] = "none",
         \A u \in Users : cache'[u] \in {cache[u], Empty},
         \A x \in Requests : session'[x].state = "open" => session[x].state = "open",
         \A x \in Requests :
           /\ req'[x].kind = req[x].kind /\ req'[x].user = req[x].user
           /\ \/ /\ req'[x].pc = req[x].pc /\ req'[x].stage = req[x].stage
                 /\ req'[x].snapshot = req[x].snapshot /\ req'[x].known = req[x].known
                 /\ req'[x].answer = req[x].answer /\ req'[x].failed = req[x].failed
                 /\ req'[x].args = req[x].args
              \/ req'[x].pc = "done" /\ req[x].kind # "message"
  PROVE  Safe'
  <1>1. TypeOK /\ Messages /\ Places /\ InvitesAreSpent
    BY DEF IInv
  <1>2. CacheIsHistory' /\ LoadsAreRecent'
    BY CacheStays
  <1>3. Messages'
    BY <1>1 DEF Messages, MessageWaits
  <1>4. Places'
    BY <1>1 DEF Places
  <1>5. InvitesAreSpent'
    BY <1>1, InvitesStay DEF Spent
  <1>6. QED  BY <1>2, <1>3, <1>4, <1>5 DEF Safe

-----------------------------------------------------------------------------
(* The steps of a request. *)

\* Arriving, opening a stream, starting it, and the end of the wait for a displaced run.
LEMMA WaySteps ==
  ASSUME IInv, NEW r \in Requests,
         Arrive(r) \/ HandleStream(r) \/ WrapperStarts(r) \/ Replaced(r)
  PROVE  TypeOK' /\ Safe'
  <1>t. TypeOK /\ Messages
    BY DEF IInv
  <1>r. req[r] \in Request
    BY <1>t DEF TypeOK
  <1>m. req[r].kind = "message" => MessageWaits(r)
    BY <1>t DEF Messages
  <1>f. item' = item /\ raced' = raced /\ invites' = invites /\ accounts' = accounts
        /\ cache' = cache /\ session' = session /\ stop' = stop /\ gathered' = gathered
        /\ run' = run /\ slot' = slot
    BY DEF Arrive, HandleStream, WrapperStarts, Replaced
  <1>g. streamTasks' \subseteq Requests /\ streamUsers' \subseteq Requests
    BY <1>t DEF Arrive, HandleStream, WrapperStarts, Replaced, TypeOK
  <1>p. ASSUME NEW q, Becomes(r, q), q.pc \notin {"read", "names", "insertNames", "insert"},
               q.kind = "message" => MessageWaits(r)'
        PROVE  TypeOK' /\ Safe'
    <2>1. req' \in [Requests -> Request]
      BY <1>t, <1>p, BecomesThat
    <2>2. TypeOK'
      BY <1>t, <1>f, <1>g, <2>1 DEF TypeOK
    <2>3. QED  BY <1>f, <1>p, <2>2, OneMoves
  <1>1. CASE Arrive(r)
    <2> DEFINE q == [req[r] EXCEPT !.pc = "auth"]
    <2>1. req' = [req EXCEPT ![r] = q]
      BY <1>1 DEF Arrive
    <2> HIDE DEF q
    <2>2. /\ q \in Request /\ q.pc = "auth" /\ q.kind = req[r].kind /\ q.user = req[r].user
      BY <1>r, AtAwait DEF q, Pcs
    <2>3. Becomes(r, q)
      BY <2>1, <2>2 DEF Becomes
    <2>4. q.kind = "message" => MessageWaits(r)'
      BY <1>1, <1>f, <1>m, <1>t, <2>2, <2>3, BecomesThat DEF MessageWaits, Arrive
    <2>5. QED  BY <1>p, <2>2, <2>3, <2>4
  <1>2. CASE HandleStream(r)
    <2> DEFINE q == [req[r] EXCEPT !.pc = "created"]
    <2>1. req' = [req EXCEPT ![r] = q] /\ req[r].kind = "stream"
      BY <1>2 DEF HandleStream, Authenticated
    <2> HIDE DEF q
    <2>2. /\ q \in Request /\ q.pc = "created" /\ q.kind = req[r].kind /\ q.user = req[r].user
      BY <1>r, AtAwait DEF q, Pcs
    <2>3. QED  BY <1>p, <2>1, <2>2 DEF Becomes
  <1>3. CASE WrapperStarts(r)
    <2> DEFINE c == req[r].cancelled
               p == IF c THEN "done" ELSE "submit"
               q == [req[r] EXCEPT !.pc = p, !.failed = c]
    <2>1. req' = [req EXCEPT ![r] = q] /\ req[r].pc = "created"
      BY <1>3 DEF WrapperStarts
    <2>2. c \in BOOLEAN /\ p \in {"done", "submit"}
      BY <1>r DEF Request
    <2> HIDE DEF q, p, c
    <2>3. p \in Pcs
      BY <2>2 DEF Pcs
    <2>4. /\ q \in Request /\ q.pc = p /\ q.kind = req[r].kind /\ q.user = req[r].user
      BY <1>r, <2>2, <2>3 DEF q, Request
    <2>5. req[r].kind # "message"
      BY <1>m, <2>1 DEF MessageWaits
    <2>6. QED  BY <1>p, <2>1, <2>2, <2>4, <2>5 DEF Becomes
  <1>4. CASE Replaced(r)
    <2> DEFINE q == [req[r] EXCEPT !.pc = "run"]
    <2>1. req' = [req EXCEPT ![r] = q] /\ req[r].pc = "replace"
      BY <1>4 DEF Replaced
    <2> HIDE DEF q
    <2>2. /\ q \in Request /\ q.pc = "run" /\ q.kind = req[r].kind /\ q.user = req[r].user
          /\ q.known = req[r].known
      BY <1>r, AtAwait DEF q, Pcs
    <2>3. Becomes(r, q)
      BY <2>1, <2>2 DEF Becomes
    <2>4. q.kind = "message" => MessageWaits(r)'
      BY <1>f, <1>m, <1>t, <2>1, <2>2, <2>3, BecomesThat DEF MessageWaits
    <2>5. QED  BY <1>p, <2>2, <2>3, <2>4
  <1>5. QED  BY <1>1, <1>2, <1>3, <1>4

\* The run is submitted: it is at work from now on, beside the one it displaces.
LEMMA StartStep ==
  ASSUME IInv, NEW r \in Requests, StartRun(r)
  PROVE  TypeOK' /\ Safe'
  <1>t. TypeOK /\ Messages
    BY DEF IInv
  <1>r. req[r] \in Request /\ req[r].user \in Users
    BY <1>t DEF TypeOK, Request
  <1> DEFINE u == req[r].user
             old == {x \in slot[u] : AtWork(x)}
             p == IF old = {} THEN "run" ELSE "replace"
             q == [req[r] EXCEPT !.pc = p, !.behind = old]
  <1>f. item' = item /\ raced' = raced /\ invites' = invites /\ accounts' = accounts
        /\ cache' = cache /\ session' = session /\ stop' = stop /\ gathered' = gathered
        /\ streamTasks' = streamTasks /\ streamUsers' = streamUsers /\ req[r].pc = "submit"
    BY DEF StartRun
  <1>1. /\ req' = [req EXCEPT ![r] = q]
        /\ slot' = [slot EXCEPT ![u] = {r}]
        /\ run' = [x \in Requests |-> CASE x = r -> "going"
                                         [] x # r /\ x \in old -> "cancelled"
                                         [] OTHER -> run[x]]
    BY DEF StartRun
  <1>2. old \in SUBSET Requests /\ p \in {"run", "replace"}
    BY <1>t, <1>r DEF TypeOK
  <1> HIDE DEF p
  <1>4. /\ run' \in [Requests -> Runs] /\ slot' \in [Users -> SUBSET Requests]
    BY <1>t, <1>r, <1>1 DEF TypeOK, Runs
  <1>5. /\ q \in Request /\ q.pc = p /\ q.kind = req[r].kind /\ q.user = req[r].user
        /\ q.known = req[r].known
    BY <1>r, <1>2 DEF Request
  <1> HIDE DEF q
  <1>6. Becomes(r, q)
    BY <1>1, <1>5 DEF Becomes
  <1>7. req' \in [Requests -> Request] /\ req'[r] = q
    BY <1>t, <1>6, BecomesThat
  <1>8. q.kind = "message" => MessageWaits(r)'
    BY <1>t, <1>f, <1>2, <1>5, <1>7 DEF Messages, MessageWaits
  <1>9. \A x \in Requests : x # r /\ run[x] = "none" => run'[x] = "none"
    BY <1>1 DEF AtWork
  <1>10. TypeOK'
    BY <1>t, <1>f, <1>4, <1>7 DEF TypeOK
  <1>11. QED  BY <1>f, <1>2, <1>5, <1>6, <1>8, <1>9, <1>10, OneMoves

\* Asking for the history, before and after a run or for itself.
LEMMA AskSteps ==
  ASSUME IInv, NEW r \in Requests, HandleHistory(r) \/ HandleMessage(r) \/ MessageEnds(r)
  PROVE  TypeOK' /\ Safe'
  <1>t. TypeOK /\ CacheIsHistory /\ LoadsAreRecent /\ Messages
    BY DEF IInv
  <1>r. req[r] \in Request /\ req[r].user \in Users
    BY <1>t DEF TypeOK, Request
  <1>m. req[r].kind = "message" => MessageWaits(r)
    BY <1>t DEF Messages
  <1>f. item' = item /\ raced' = raced /\ invites' = invites /\ accounts' = accounts
        /\ cache' = cache /\ session' = session /\ stop' = stop /\ gathered' = gathered
        /\ streamTasks' = streamTasks /\ streamUsers' = streamUsers
        /\ run' = run /\ slot' = slot
    BY DEF HandleHistory, HandleMessage, MessageEnds
  <1>p. ASSUME NEW q, Becomes(r, q), q.pc \notin {"read", "names", "insertNames", "insert"},
               q.kind = "message" => MessageWaits(r)'
        PROVE  TypeOK' /\ Safe'
    <2>1. req' \in [Requests -> Request]
      BY <1>t, <1>p, BecomesThat
    <2>2. TypeOK'
      BY <1>t, <1>f, <2>1 DEF TypeOK
    <2>3. QED  BY <1>f, <1>p, <2>2, OneMoves
  <1>c. cache[req[r].user].items \subseteq Stored
    BY <1>t, <1>r DEF LoadsAreRecent
  <1>w. ASSUME NEW st \in {"history", "before", "after"},
               req' = [req EXCEPT ![r] = Wanting([@ EXCEPT !.stage = st])],
               req[r].kind = "message" => /\ st # "history"
                                          /\ st = "before" => item[r] = "new" /\ run[r] = "none"
                                          /\ st = "after" => item[r] = "published" /\ r \notin req[r].known
        PROVE  TypeOK' /\ Safe'
    <2> DEFINE n == [req[r] EXCEPT !.stage = st]
               q == Wanting(n)
    <2>1. /\ n \in Request /\ n.kind = req[r].kind /\ n.user = req[r].user /\ n.stage = st
          /\ n.known = req[r].known
      BY <1>r, AtStage
    <2>2. req' = [req EXCEPT ![r] = q]
      BY <1>w
    <2> HIDE DEF n
    <2>3. /\ q \in Request /\ q.kind = n.kind /\ q.user = n.user /\ q.stage = n.stage
          /\ \/ q.pc = "load" /\ q.known = n.known
             \/ /\ cache[n.user].filled /\ q = Got(n, cache[n.user].items)
                /\ q.pc = (IF n.stage = "before" THEN "submit" ELSE "done")
                /\ n.stage = "before" => q.known = cache[n.user].items
                /\ n.stage = "after" => q.answer = cache[n.user].items \ n.known
      <3>1. cache[n.user].items \in SUBSET Requests
        BY <1>t, <1>r, <2>1 DEF TypeOK
      <3>2. QED  BY <1>t, <2>1, <3>1, WantingType, GotType
    <2> HIDE DEF q
    <2>4. Becomes(r, q)
      BY <2>1, <2>2, <2>3 DEF Becomes
    <2>5. q.pc \notin {"read", "names", "insertNames", "insert"}
      BY <2>3
    <2>6. ASSUME q.kind = "message" PROVE MessageWaits(r)'
      <3>1. req'[r] = q /\ req[r].kind = "message"
        BY <1>t, <2>1, <2>3, <2>4, <2>6, BecomesThat
      <3>2. CASE st = "before"
        <4>1. r \notin cache[req[r].user].items
          BY <1>c, <1>w, <3>1, <3>2 DEF Stored
        <4>2. QED  BY <1>f, <1>w, <2>1, <2>3, <3>1, <3>2, <4>1 DEF MessageWaits
      <3>3. CASE st = "after"
        <4>1. cache[req[r].user].filled => r \in cache[req[r].user].items \cup raced
          BY <1>t, <1>r, <1>w, <3>1, <3>3 DEF CacheIsHistory, Of
        <4>2. QED  BY <1>f, <1>w, <2>1, <2>3, <3>1, <3>3, <4>1 DEF MessageWaits
      <3>4. QED  BY <1>w, <3>1, <3>2, <3>3
    <2>7. QED  BY <1>p, <2>4, <2>5, <2>6
  <1>1. CASE HandleHistory(r)
    BY <1>1, <1>w DEF HandleHistory, Authenticated
  <1>2. CASE HandleMessage(r)
    BY <1>2, <1>m, <1>w DEF HandleMessage, Authenticated, MessageWaits
  <1>3. CASE MessageEnds(r)
    <2>1. CASE Succeeded(r)
      <3>1. req[r].pc = "run"
        BY <1>3, <1>m, <2>1 DEF MessageEnds, RunIsOver, Succeeded, MessageWaits
      <3>2. item[r] = "published" /\ r \notin req[r].known
        BY <1>3, <1>m, <2>1, <3>1 DEF MessageEnds, Succeeded, MessageWaits
      <3>3. QED  BY <1>3, <1>w, <2>1, <3>2 DEF MessageEnds
    <2>2. CASE ~Succeeded(r)
      <3> DEFINE q == [req[r] EXCEPT !.pc = "done", !.failed = TRUE]
      <3>1. req' = [req EXCEPT ![r] = q]
        BY <1>3, <2>2 DEF MessageEnds
      <3>2. /\ q \in Request /\ q.pc = "done" /\ q.kind = req[r].kind /\ q.user = req[r].user
            /\ q.failed
        BY <1>r DEF Request
      <3> HIDE DEF q
      <3>3. Becomes(r, q)
        BY <3>1, <3>2 DEF Becomes
      <3>4. MessageWaits(r)'
        BY <1>t, <3>2, <3>3, BecomesThat DEF MessageWaits
      <3>5. QED  BY <1>p, <3>2, <3>3, <3>4
    <2>3. QED  BY <2>1, <2>2
  <1>4. QED  BY <1>1, <1>2, <1>3

\* The storage answers the query of a load: every item that is published is stored.
LEMMA ReadStep ==
  ASSUME IInv, NEW r \in Requests, LoadReads(r)
  PROVE  TypeOK' /\ Safe'
  <1>t. TypeOK /\ CacheIsHistory /\ LoadsAreRecent /\ Messages /\ Places /\ InvitesAreSpent
    BY DEF IInv
  <1>r. req[r] \in Request /\ req[r].user \in Users
    BY <1>t DEF TypeOK, Request
  <1> DEFINE S == {i \in Of(req[r].user) : item[i] # "new"}
             q == [req[r] EXCEPT !.pc = "read", !.snapshot = S]
  <1>1. req' = [req EXCEPT ![r] = q]
    BY DEF LoadReads
  <1>2. S \in SUBSET Requests /\ S \subseteq Stored
        /\ \A i \in Requests : req[i].user = req[r].user /\ item[i] = "published" => i \in S
    BY DEF Of, Stored
  <1> HIDE DEF S
  <1>3. /\ q \in Request /\ q.pc = "read" /\ q.kind = req[r].kind /\ q.user = req[r].user
        /\ q.stage = req[r].stage /\ q.snapshot = S /\ q.known = req[r].known
    BY <1>r, <1>2 DEF Request
  <1> HIDE DEF q
  <1>4. Becomes(r, q)
    BY <1>1, <1>3 DEF Becomes
  <1>5. /\ req' \in [Requests -> Request] /\ req'[r] = q
        /\ \A x \in Requests : x # r => req'[x] = req[x]
        /\ \A x \in Requests : req'[x].kind = req[x].kind /\ req'[x].user = req[x].user
    BY <1>t, <1>4, BecomesThat
  <1>f. item' = item /\ raced' = raced /\ invites' = invites /\ accounts' = accounts
        /\ cache' = cache /\ session' = session /\ stop' = stop /\ gathered' = gathered
        /\ streamTasks' = streamTasks /\ streamUsers' = streamUsers /\ req[r].pc = "load"
        /\ run' = run /\ slot' = slot
    BY DEF LoadReads
  <1>6. TypeOK'
    BY <1>t, <1>f, <1>5 DEF TypeOK
  <1>7. CacheIsHistory'
    BY <1>t, <1>f, <1>5 DEF CacheIsHistory, Of
  <1>8. LoadsAreRecent'
    <2>1. Stored' = Stored
      BY <1>f DEF Stored
    <2>2. \A u \in Users : cache'[u].items \subseteq Stored'
      BY <1>t, <1>f, <2>1 DEF LoadsAreRecent
    <2>3. ASSUME NEW x \in Requests, req'[x].pc = "read"
          PROVE  /\ req'[x].snapshot \subseteq Stored'
                 /\ \A i \in Requests : req'[i].user = req'[x].user /\ item'[i] = "published" =>
                      i \in req'[x].snapshot \cup raced'
      <3>1. CASE x = r
        BY <1>2, <1>3, <1>5, <1>f, <2>1, <3>1
      <3>2. CASE x # r
        BY <1>t, <1>5, <1>f, <2>1, <2>3, <3>2 DEF LoadsAreRecent
      <3>3. QED  BY <3>1, <3>2
    <2>4. QED  BY <2>2, <2>3 DEF LoadsAreRecent
  <1>9. Messages'
    <2>1. q.kind = "message" => MessageWaits(r)'
      BY <1>t, <1>3, <1>5, <1>f DEF Messages, MessageWaits
    <2>2. QED  BY <1>t, <1>4, <1>f, <2>1, MessagesStay
  <1>10. Places'
    BY <1>t, <1>3, <1>5, <1>f DEF Places
  <1>11. InvitesAreSpent'
    BY <1>t, <1>3, <1>5, <1>f, InvitesStay DEF Spent
  <1>12. QED  BY <1>6, <1>7, <1>8, <1>9, <1>10, <1>11 DEF Safe

\* The load returns: what was published since the query is not in the list, and raced.
LEMMA ReturnStep ==
  ASSUME IInv, NEW r \in Requests, LoadReturns(r)
  PROVE  TypeOK' /\ Safe'
  <1>t. TypeOK /\ CacheIsHistory /\ LoadsAreRecent /\ Messages /\ Places /\ InvitesAreSpent
    BY DEF IInv
  <1>r. req[r] \in Request /\ req[r].user \in Users /\ req[r].snapshot \in SUBSET Requests
    BY <1>t DEF TypeOK, Request
  <1> DEFINE S == req[r].snapshot
             q == Got(req[r], S)
  <1>1. req' = [req EXCEPT ![r] = q] /\ req[r].pc = "read"
    BY DEF LoadReturns
  <1>2. /\ S \subseteq Stored
        /\ \A i \in Requests : req[i].user = req[r].user /\ item[i] = "published" => i \in S \cup raced
    BY <1>t, <1>1 DEF LoadsAreRecent
  <1>3. /\ q \in Request /\ q.kind = req[r].kind /\ q.user = req[r].user
        /\ q.pc = (IF req[r].stage = "before" THEN "submit" ELSE "done")
        /\ req[r].stage = "before" => q.known = S
        /\ req[r].stage = "after" => q.answer = S \ req[r].known
    BY <1>r, GotType
  <1> HIDE DEF S, q
  <1>4. Becomes(r, q)
    BY <1>1, <1>3 DEF Becomes
  <1>5. /\ req' \in [Requests -> Request] /\ req'[r] = q
        /\ \A x \in Requests : x # r => req'[x] = req[x]
        /\ \A x \in Requests : req'[x].kind = req[x].kind /\ req'[x].user = req[x].user
    BY <1>t, <1>4, BecomesThat
  <1>f. item' = item /\ raced' = raced /\ invites' = invites /\ accounts' = accounts
        /\ session' = session /\ stop' = stop /\ gathered' = gathered
        /\ streamTasks' = streamTasks /\ streamUsers' = streamUsers
        /\ run' = run /\ slot' = slot
    BY DEF LoadReturns
  <1>c. /\ cache' \in [Users -> [filled : BOOLEAN, items : SUBSET Requests]]
        /\ cache'[req[r].user].items = S
        /\ \A u \in Users : u # req[r].user => cache'[u] = cache[u]
    BY <1>t, <1>r DEF LoadReturns, TypeOK, S
  <1>6. TypeOK'
    BY <1>t, <1>f, <1>5, <1>c DEF TypeOK
  <1>7. CacheIsHistory'
    <2> SUFFICES ASSUME NEW u \in Users, cache'[u].filled
                 PROVE  {i \in Of(u)' : item'[i] = "published"} \subseteq cache'[u].items \cup raced'
      BY DEF CacheIsHistory
    <2>1. Of(u)' = Of(u)
      BY <1>5 DEF Of
    <2>2. CASE u = req[r].user
      BY <1>2, <1>c, <1>f, <2>1, <2>2 DEF Of
    <2>3. CASE u # req[r].user
      BY <1>t, <1>c, <1>f, <2>1, <2>3 DEF CacheIsHistory
    <2>4. QED  BY <2>2, <2>3
  <1>8. LoadsAreRecent'
    <2>1. Stored' = Stored
      BY <1>f DEF Stored
    <2>2. \A u \in Users : cache'[u].items \subseteq Stored'
      BY <1>t, <1>2, <1>c, <2>1 DEF LoadsAreRecent
    <2>3. QED  BY <1>t, <1>3, <1>5, <1>f, <2>1, <2>2 DEF LoadsAreRecent
  <1>9. Messages'
    <2>1. ASSUME q.kind = "message" PROVE MessageWaits(r)'
      <3>1. MessageWaits(r)
        BY <1>t, <1>3, <2>1 DEF Messages
      <3>2. CASE req[r].stage = "before" /\ item[r] = "new"
        <4>1. r \notin S
          BY <1>2, <3>2 DEF Stored
        <4>2. QED  BY <1>1, <1>3, <1>5, <1>f, <3>1, <3>2, <4>1 DEF MessageWaits
      <3>3. CASE req[r].stage = "after" /\ item[r] = "published" /\ r \notin req[r].known
        <4>1. r \in S \cup raced
          BY <1>2, <3>3
        <4>2. QED  BY <1>3, <1>5, <1>f, <3>3, <4>1 DEF MessageWaits
      <3>4. QED  BY <1>1, <3>1, <3>2, <3>3 DEF MessageWaits
    <2>2. QED  BY <1>t, <1>4, <1>f, <2>1, MessagesStay
  <1>10. Places'
    BY <1>t, <1>3, <1>5, <1>f DEF Places
  <1>11. InvitesAreSpent'
    BY <1>t, <1>3, <1>5, <1>f, InvitesStay DEF Spent
  <1>12. QED  BY <1>6, <1>7, <1>8, <1>9, <1>10, <1>11 DEF Safe

\* Sessions open and close, streams are cancelled and end.
LEMMA SessionSteps ==
  ASSUME IInv, NEW r \in Requests, HandleEvents(r) \/ CloseSession(r) \/ StreamEnds(r)
  PROVE  TypeOK' /\ Safe'
  <1>t. TypeOK /\ Messages /\ Places
    BY DEF IInv
  <1>r. req[r] \in Request /\ req[r].user \in Users
    BY <1>t DEF TypeOK, Request
  <1>f. item' = item /\ raced' = raced /\ invites' = invites /\ accounts' = accounts
        /\ stop' = stop /\ gathered' = gathered /\ run' = run /\ slot' = slot
    BY DEF HandleEvents, CloseSession, StreamEnds
  <1>g. streamTasks' \subseteq Requests /\ streamUsers' \subseteq Requests
    BY <1>t DEF HandleEvents, CloseSession, StreamEnds, TypeOK
  <1>c. \A u \in Users : cache'[u] \in {cache[u], Empty}
    <2>1. cache' = cache \/ cache' = [cache EXCEPT ![req[r].user] = Empty]
      BY DEF HandleEvents, CloseSession, StreamEnds
    <2>2. QED  BY <1>t, <2>1 DEF TypeOK
  <1>d. cache' \in [Users -> [filled : BOOLEAN, items : SUBSET Requests]]
    <2>1. cache' = cache \/ cache' = [cache EXCEPT ![req[r].user] = Empty]
      BY DEF HandleEvents, CloseSession, StreamEnds
    <2>2. Empty \in [filled : BOOLEAN, items : SUBSET Requests]
      BY DEF Empty
    <2>3. QED  BY <1>t, <2>1, <2>2 DEF TypeOK
  <1>p. ASSUME NEW q, Becomes(r, q), q.pc \notin {"read", "names", "insertNames", "insert"},
               q.kind # "message",
               DOMAIN session' = Requests, \A x \in Requests : IsSession(session'[x]),
               \A x \in Requests : session'[x].state = "open" => session[x].state = "open" \/ req[x].kind = "events"
        PROVE  TypeOK' /\ Safe'
    <2>1. req' \in [Requests -> Request]
      BY <1>t, <1>p, BecomesThat
    <2>2. TypeOK'
      BY <1>t, <1>d, <1>f, <1>g, <1>p, <2>1 DEF TypeOK, IsSession
    <2>3. QED  BY <1>c, <1>f, <1>p, <2>2, OneMoves
  <1>1. CASE HandleEvents(r)
    <2> DEFINE q == [req[r] EXCEPT !.pc = "open"]
    <2>1. req' = [req EXCEPT ![r] = q] /\ req[r].kind = "events"
      BY <1>1 DEF HandleEvents, Authenticated
    <2> HIDE DEF q
    <2>2. /\ q \in Request /\ q.pc = "open" /\ q.kind = req[r].kind /\ q.user = req[r].user
      BY <1>r, AtAwait DEF q, Pcs
    <2>3. /\ DOMAIN session' = Requests /\ session'[r].state = "open" /\ "state" \in DOMAIN session'[r]
          /\ \A x \in Requests : x # r => session'[x] = session[x]
      BY <1>1, <1>t DEF HandleEvents, TypeOK
    <2>4. \A x \in Requests : IsSession(session'[x])
      BY <1>t, <2>3 DEF TypeOK, IsSession
    <2>5. QED  BY <1>p, <2>1, <2>2, <2>3, <2>4 DEF Becomes
  <1>2. CASE CloseSession(r)
    <2> DEFINE q == [req[r] EXCEPT !.pc = "done"]
    <2>1. req' = [req EXCEPT ![r] = q] /\ req[r].kind = "events"
      BY <1>2, <1>t DEF CloseSession, Places
    <2> HIDE DEF q
    <2>2. /\ q \in Request /\ q.pc = "done" /\ q.kind = req[r].kind /\ q.user = req[r].user
      BY <1>r, AtAwait DEF q, Pcs
    <2>3. /\ DOMAIN session' = Requests /\ session'[r].state = "closed" /\ "state" \in DOMAIN session'[r]
          /\ \A x \in Requests : x # r => session'[x] = session[x]
      BY <1>2, <1>t DEF CloseSession, TypeOK, IsSession
    <2>4. \A x \in Requests : IsSession(session'[x])
      BY <1>t, <2>3 DEF TypeOK, IsSession
    <2>5. QED  BY <1>p, <2>1, <2>2, <2>3, <2>4 DEF Becomes
  <1>3. CASE StreamEnds(r)
    <2> DEFINE b == ~Succeeded(r)
               q == [req[r] EXCEPT !.pc = "done", !.failed = b]
    <2>1. req' = [req EXCEPT ![r] = q] /\ req[r].kind = "stream"
      BY <1>3 DEF StreamEnds
    <2>2. b \in BOOLEAN
      OBVIOUS
    <2> HIDE DEF b
    <2>3. /\ q \in Request /\ q.pc = "done" /\ q.kind = req[r].kind /\ q.user = req[r].user
      BY <1>r, <2>2 DEF Request
    <2> HIDE DEF q
    <2>4. session' = Published(req[r].user, <<"done", r>>)
      BY <1>3 DEF StreamEnds
    <2>5. /\ DOMAIN session' = Requests
          /\ \A x \in Requests : session'[x].state = session[x].state /\ "state" \in DOMAIN session'[x]
      BY <1>t, <2>4 DEF Published, TypeOK, IsSession
    <2>6. \A x \in Requests : IsSession(session'[x])
      BY <1>t, <2>5 DEF TypeOK, IsSession
    <2>7. QED  BY <1>p, <2>1, <2>3, <2>5, <2>6 DEF Becomes
  <1>4. QED  BY <1>1, <1>2, <1>3

\* The item of a run is stored, and then published: what a load has read before, it
\* will not have, and the item has raced with it.
LEMMA ItemSteps ==
  ASSUME IInv, NEW r \in Requests, SaveItem(r) \/ PublishItem(r)
  PROVE  TypeOK' /\ Safe'
  <1>t. TypeOK /\ CacheIsHistory /\ LoadsAreRecent /\ Messages /\ Places /\ InvitesAreSpent
    BY DEF IInv
  <1>r. req[r] \in Request /\ req[r].user \in Users
    BY <1>t DEF TypeOK, Request
  <1>f. /\ req' = req /\ invites' = invites /\ accounts' = accounts /\ session' = session
        /\ stop' = stop /\ gathered' = gathered
        /\ streamTasks' = streamTasks /\ streamUsers' = streamUsers
        /\ run' = run /\ slot' = slot /\ run[r] # "none" /\ item[r] # "published"
    BY DEF SaveItem, PublishItem, AtWork
  <1>i. /\ item' \in [Requests -> {"new", "saved", "published"}]
        /\ item'[r] # "new" /\ \A x \in Requests : x # r => item'[x] = item[x]
    BY <1>t DEF SaveItem, PublishItem, TypeOK
  <1>j. item'[r] = "published" => PublishItem(r)
    BY <1>t DEF SaveItem, TypeOK
  <1>c. /\ raced \subseteq raced' /\ raced' \subseteq Requests
        /\ cache' \in [Users -> [filled : BOOLEAN, items : SUBSET Requests]]
        /\ \A u \in Users : cache'[u].filled = cache[u].filled
        /\ \A u \in Users : cache[u].items \subseteq cache'[u].items
        /\ \A u \in Users : cache'[u].items \subseteq cache[u].items \cup {r}
    <2>1. raced \subseteq raced' /\ raced' \subseteq Requests
      BY <1>t DEF SaveItem, PublishItem, TypeOK
    <2>2. CASE cache' = cache
      BY <1>t, <2>1, <2>2 DEF TypeOK
    <2>3. CASE cache' # cache
      <3> DEFINE u == req[r].user
                 c == [cache[u] EXCEPT !.items = @ \cup {r}]
      <3>1. cache' = [cache EXCEPT ![u] = c]
        BY <2>3 DEF SaveItem, PublishItem
      <3>2. u \in Users /\ cache[u] \in [filled : BOOLEAN, items : SUBSET Requests]
        BY <1>t, <1>r DEF TypeOK
      <3> HIDE DEF u
      <3>3. /\ c \in [filled : BOOLEAN, items : SUBSET Requests]
            /\ c.filled = cache[u].filled /\ c.items = cache[u].items \cup {r}
        BY <3>2
      <3> HIDE DEF c
      <3>4. QED  BY <1>t, <2>1, <3>1, <3>2, <3>3 DEF TypeOK
    <2>4. QED  BY <2>2, <2>3
  <1>1. TypeOK'
    BY <1>t, <1>c, <1>f, <1>i DEF TypeOK
  <1>2. CacheIsHistory'
    <2> SUFFICES ASSUME NEW u \in Users, cache'[u].filled, NEW i \in Of(u), item'[i] = "published"
                 PROVE  i \in cache'[u].items \cup raced'
      BY <1>f DEF CacheIsHistory, Of
    <2>1. CASE i # r
      BY <1>t, <1>c, <1>i, <2>1 DEF CacheIsHistory, Of
    <2>2. CASE i = r
      <3>1. u = req[r].user
        BY <2>2 DEF Of
      <3>2. r \in cache'[u].items
        BY <1>t, <1>c, <1>j, <1>r, <2>2, <3>1 DEF PublishItem, TypeOK
      <3>3. QED  BY <2>2, <3>2
    <2>3. QED  BY <2>1, <2>2
  <1>3. LoadsAreRecent'
    <2>1. Stored \cup {r} \subseteq Stored'
      BY <1>i DEF Stored
    <2>2. \A u \in Users : cache'[u].items \subseteq Stored'
      BY <1>t, <1>c, <2>1 DEF LoadsAreRecent
    <2>3. ASSUME NEW x \in Requests, req[x].pc = "read", NEW i \in Requests,
                 req[i].user = req[x].user, item'[i] = "published"
          PROVE  i \in req[x].snapshot \cup raced'
      <3>1. CASE i # r
        BY <1>t, <1>c, <1>i, <2>3, <3>1 DEF LoadsAreRecent
      <3>2. CASE i = r
        BY <1>j, <2>3, <3>2 DEF PublishItem, Of
      <3>3. QED  BY <3>1, <3>2
    <2>4. QED  BY <1>t, <1>f, <2>1, <2>2, <2>3 DEF LoadsAreRecent
  <1>4. Messages'
    <2> SUFFICES ASSUME NEW x \in Requests, req[x].kind = "message" PROVE MessageWaits(x)'
      BY <1>f DEF Messages
    <2>1. MessageWaits(x)
      BY <1>t DEF Messages
    <2>2. CASE x # r
      BY <1>c, <1>f, <1>i, <2>1, <2>2 DEF MessageWaits
    <2>3. CASE x = r
      BY <1>c, <1>f, <2>1, <2>3 DEF MessageWaits
    <2>4. QED  BY <2>2, <2>3
  <1>5. Places' /\ InvitesAreSpent'
    BY <1>t, <1>f DEF Places, InvitesAreSpent, Spent
  <1>6. QED  BY <1>1, <1>2, <1>3, <1>4, <1>5 DEF Safe

\* Requests are cancelled by others, runs end, and all come to an end with stop().
LEMMA OthersSteps ==
  ASSUME IInv,
         \/ \E r, x \in Requests : HandleCancel(r, x)
         \/ \E r \in Requests : RunEnds(r)
         \/ StopBegins \/ StopEnds
  PROVE  TypeOK' /\ Safe'
  <1>t. TypeOK /\ Places
    BY DEF IInv
  <1>r. \A x \in Requests : req[x] \in Request
    BY <1>t DEF TypeOK
  <1>e. Empty \in [filled : BOOLEAN, items : SUBSET Requests]
    BY DEF Empty
  <1>f. item' = item /\ raced' = raced /\ accounts' = accounts /\ invites' \subseteq invites
    BY DEF HandleCancel, RunEnds, StopBegins, StopEnds
  <1>n. /\ run' \in [Requests -> Runs] /\ slot' = slot
        /\ \A x \in Requests : run[x] = "none" => run'[x] = "none"
    <2>1. ASSUME NEW T, run' = RunsWithout(T), slot' = slot
          PROVE  /\ run' \in [Requests -> Runs] /\ slot' = slot
                 /\ \A x \in Requests : run[x] = "none" => run'[x] = "none"
      BY <1>t, <2>1 DEF RunsWithout, TypeOK, Runs
    <2>2. CASE \E r, x \in Requests : HandleCancel(r, x)
      BY <2>1, <2>2 DEF HandleCancel
    <2>3. CASE \E r \in Requests : RunEnds(r)
      BY <1>t, <2>3 DEF RunEnds, TypeOK, Runs
    <2>4. CASE StopBegins
      BY <2>1, <2>4 DEF StopBegins
    <2>5. CASE StopEnds
      BY <1>t, <2>5 DEF StopEnds, TypeOK
    <2>6. QED  BY <2>2, <2>3, <2>4, <2>5
  <1>g. /\ streamTasks' \subseteq Requests /\ streamUsers' \subseteq Requests
        /\ stop' \in {"no", "gathering", "done"} /\ gathered' \subseteq Requests
    BY <1>t DEF HandleCancel, RunEnds, StopBegins, StopEnds, TypeOK
  <1>c. /\ cache' \in [Users -> [filled : BOOLEAN, items : SUBSET Requests]]
        /\ \A u \in Users : cache'[u] \in {cache[u], Empty}
    <2>1. cache' = cache \/ cache' = [u \in Users |-> Empty]
      BY DEF HandleCancel, RunEnds, StopBegins, StopEnds
    <2>2. QED  BY <1>e, <1>t, <2>1 DEF TypeOK
  <1>s. /\ DOMAIN session' = Requests /\ \A x \in Requests : IsSession(session'[x])
        /\ \A x \in Requests : session'[x].state = "open" => session[x].state = "open"
    <2>1. \/ session' = session
          \/ session' = [s \in Requests |-> IF session[s].state = "open"
                                            THEN [session[s] EXCEPT !.state = "closed"] ELSE session[s]]
      BY DEF HandleCancel, RunEnds, StopBegins, StopEnds
    <2>2. ASSUME NEW x \in Requests
          PROVE  /\ IsSession(session[x])
                 /\ IsSession([session[x] EXCEPT !.state = "closed"])
                 /\ [session[x] EXCEPT !.state = "closed"].state = "closed"
      BY <1>t DEF TypeOK, IsSession
    <2>3. CASE session' = session
      BY <1>t, <2>3 DEF TypeOK
    <2>4. CASE session' # session
      <3>1. DOMAIN session' = Requests
        BY <2>1, <2>4
      <3>2. ASSUME NEW x \in Requests
            PROVE  session'[x] = IF session[x].state = "open"
                                 THEN [session[x] EXCEPT !.state = "closed"] ELSE session[x]
        BY <2>1, <2>4
      <3>3. QED  BY <2>2, <3>1, <3>2
    <2>5. QED  BY <2>3, <2>4
  <1>p. ASSUME req' \in [Requests -> Request],
               \A x \in Requests :
                 /\ req'[x].kind = req[x].kind /\ req'[x].user = req[x].user
                 /\ \/ /\ req'[x].pc = req[x].pc /\ req'[x].stage = req[x].stage
                       /\ req'[x].snapshot = req[x].snapshot /\ req'[x].known = req[x].known
                       /\ req'[x].answer = req[x].answer /\ req'[x].failed = req[x].failed
                       /\ req'[x].args = req[x].args
                    \/ req'[x].pc = "done" /\ req[x].kind # "message"
        PROVE  TypeOK' /\ Safe'
    <2>1. TypeOK'
      BY <1>t, <1>c, <1>f, <1>g, <1>n, <1>p, <1>s DEF TypeOK
    <2>2. QED  BY <1>c, <1>f, <1>n, <1>p, <1>s, <2>1, SomeAreCancelled
  <1>a. ASSUME NEW T,
               req' = [x \in Requests |-> [req[x] EXCEPT !.cancelled = @ \/ Interrupted(x, T)]]
        PROVE  TypeOK' /\ Safe'
    <2>1. ASSUME NEW x \in Requests
          PROVE  /\ req'[x] \in Request
                 /\ req'[x].pc = req[x].pc /\ req'[x].kind = req[x].kind /\ req'[x].user = req[x].user
                 /\ req'[x].stage = req[x].stage /\ req'[x].snapshot = req[x].snapshot
                 /\ req'[x].known = req[x].known /\ req'[x].answer = req[x].answer
                 /\ req'[x].failed = req[x].failed /\ req'[x].args = req[x].args
      <3> DEFINE b == req[x].cancelled \/ Interrupted(x, T)
      <3>1. b \in BOOLEAN
        BY DEF Interrupted
      <3>2. req'[x] = [req[x] EXCEPT !.cancelled = b]
        BY <1>a
      <3> HIDE DEF b
      <3>3. QED  BY <1>r, <3>1, <3>2, AtCancel
    <2>2. req' \in [Requests -> Request]
      BY <1>a, <2>1
    <2>3. QED  BY <1>p, <2>1, <2>2
  <1>1. ASSUME NEW r \in Requests, NEW y \in Requests, HandleCancel(r, y)
        PROVE  TypeOK' /\ Safe'
    <2> DEFINE n == [req[r] EXCEPT !.pc = "done"]
               mid == [req EXCEPT ![r] = n]
               b == mid[y].cancelled \/ Interrupted(y, streamTasks)
    <2>1. req' = [mid EXCEPT ![y] = [@ EXCEPT !.cancelled = b]] /\ req[r].kind = "cancel"
      BY <1>1, <1>t DEF HandleCancel, Authenticated, TypeOK
    <2> HIDE DEF b
    <2>2. /\ mid \in [Requests -> Request]
          /\ mid[r].pc = "done" /\ mid[r].kind = req[r].kind /\ mid[r].user = req[r].user
          /\ \A x \in Requests : x # r => mid[x] = req[x]
      <3>1. /\ n \in Request /\ n.pc = "done" /\ n.kind = req[r].kind /\ n.user = req[r].user
        BY <1>r, AtAwait DEF Pcs
      <3> HIDE DEF n
      <3>2. QED  BY <1>t, <3>1 DEF TypeOK
    <2>3. b \in BOOLEAN
      BY DEF b, Interrupted
    <2> HIDE DEF mid
    <2>4. ASSUME NEW x \in Requests
          PROVE  /\ req'[x] \in Request
                 /\ req'[x].pc = mid[x].pc /\ req'[x].kind = mid[x].kind /\ req'[x].user = mid[x].user
                 /\ req'[x].stage = mid[x].stage /\ req'[x].snapshot = mid[x].snapshot
                 /\ req'[x].known = mid[x].known /\ req'[x].answer = mid[x].answer
                 /\ req'[x].failed = mid[x].failed /\ req'[x].args = mid[x].args
      <3>1. CASE x # y
        BY <2>1, <2>2, <3>1
      <3>2. CASE x = y
        <4>1. req'[x] = [mid[x] EXCEPT !.cancelled = b]
          BY <2>1, <2>2, <3>2
        <4>2. QED  BY <2>2, <2>3, <4>1, AtCancel
      <3>3. QED  BY <3>1, <3>2
    <2>5. req' \in [Requests -> Request]
      BY <2>1, <2>2, <2>4
    <2>6. QED  BY <1>p, <2>1, <2>2, <2>4, <2>5
  <1>2. ASSUME NEW r \in Requests, RunEnds(r) PROVE TypeOK' /\ Safe'
    <2>1. req' = req
      BY <1>2 DEF RunEnds
    <2>2. QED  BY <1>p, <1>t, <2>1 DEF TypeOK
  <1>3. CASE StopBegins
    BY <1>3, <1>a DEF StopBegins
  <1>4. CASE StopEnds
    <2>1. ASSUME NEW x \in Requests
          PROVE  /\ req'[x] \in Request /\ req'[x].kind = req[x].kind /\ req'[x].user = req[x].user
                 /\ req'[x] = req[x] \/ (req'[x].pc = "done" /\ req[x].kind # "message")
      <3>1. CASE session[x].state = "open"
        <4>1. req'[x] = [req[x] EXCEPT !.pc = "done"] /\ req[x].kind = "events"
          BY <1>4, <1>t, <3>1 DEF StopEnds, Places
        <4>2. QED  BY <1>r, <4>1, AtAwait DEF Pcs
      <3>2. CASE session[x].state # "open"
        BY <1>4, <1>r, <3>2 DEF StopEnds
      <3>3. QED  BY <3>1, <3>2
    <2>2. req' \in [Requests -> Request]
      BY <1>4, <2>1 DEF StopEnds
    <2>3. QED  BY <1>p, <2>1, <2>2
  <1>5. QED  BY <1>1, <1>2, <1>3, <1>4

-----------------------------------------------------------------------------
(* Registration. *)

\* An invitation that is still there, and a name.
LEMMA RegisterStep ==
  ASSUME IInv, NEW r \in Requests, NEW t \in Invites, NEW n \in Names, HandleRegister(r, t, n)
  PROVE  TypeOK' /\ Safe'
  <1>t. TypeOK /\ Messages /\ Places /\ InvitesAreSpent
    BY DEF IInv
  <1>r. req[r] \in Request
    BY <1>t DEF TypeOK
  <1>f. item' = item /\ raced' = raced /\ invites' = invites /\ accounts' = accounts
        /\ cache' = cache /\ session' = session /\ stop' = stop /\ gathered' = gathered
        /\ streamTasks' = streamTasks /\ streamUsers' = streamUsers
        /\ run' = run /\ slot' = slot /\ req[r].pc = "auth" /\ req[r].kind = "register"
    BY DEF HandleRegister, Authenticated
  <1>p. ASSUME NEW q, Becomes(r, q), q.pc \in {"names", "done"},
               q.pc = "names" => q.args \in Invites \X Names
        PROVE  TypeOK' /\ Safe'
    <2>1. /\ req' \in [Requests -> Request] /\ req'[r] = q
          /\ \A x \in Requests : x # r => req'[x] = req[x]
          /\ \A x \in Requests : req'[x].kind = req[x].kind /\ req'[x].user = req[x].user
      BY <1>t, <1>p, BecomesThat
    <2>2. TypeOK'
      BY <1>t, <1>f, <2>1 DEF TypeOK
    <2>3. CacheIsHistory' /\ LoadsAreRecent'
      BY <1>f, <1>p, <2>1, CacheStays
    <2>4. Messages'
      BY <1>t, <1>f, <1>p, MessagesStay DEF Becomes
    <2>5. Places'
      BY <1>t, <1>f, <1>p, <2>1 DEF Places
    <2>6. InvitesAreSpent'
      BY <1>t, <1>f, <1>p, <2>1, InvitesStay DEF Spent
    <2>7. QED  BY <2>2, <2>3, <2>4, <2>5, <2>6 DEF Safe
  <1>1. CASE t \in invites
    <2> DEFINE a == <<t, n>>
               q == [req[r] EXCEPT !.pc = "names", !.args = a]
    <2>1. req' = [req EXCEPT ![r] = q]
      BY <1>1 DEF HandleRegister
    <2>2. a \in Invites \X Names
      OBVIOUS
    <2> HIDE DEF a
    <2>3. q \in Request /\ q.pc = "names" /\ q.kind = req[r].kind /\ q.user = req[r].user /\ q.args = a
      BY <1>r, <2>2 DEF Request
    <2> HIDE DEF q
    <2>4. QED  BY <1>p, <2>1, <2>2, <2>3 DEF Becomes
  <1>2. CASE t \notin invites
    <2> DEFINE q == [req[r] EXCEPT !.pc = "done", !.failed = TRUE]
    <2>1. req' = [req EXCEPT ![r] = q]
      BY <1>2 DEF HandleRegister, Rejected
    <2>2. q \in Request /\ q.pc = "done" /\ q.kind = req[r].kind /\ q.user = req[r].user
      BY <1>r DEF Request
    <2> HIDE DEF q
    <2>3. QED  BY <1>p, <2>1, <2>2 DEF Becomes
  <1>3. QED  BY <1>1, <1>2

\* The invitation is spent before the name is looked up again and inserted.
LEMMA SpendStep ==
  ASSUME IInv, NEW r \in Requests, SpendInvite(r) \/ InsertUser(r)
  PROVE  TypeOK' /\ Safe'
  <1>t. TypeOK /\ Messages /\ Places /\ InvitesAreSpent
    BY DEF IInv
  <1>r. req[r] \in Request
    BY <1>t DEF TypeOK
  <1>f. item' = item /\ raced' = raced /\ cache' = cache /\ session' = session
        /\ stop' = stop /\ gathered' = gathered
        /\ streamTasks' = streamTasks /\ streamUsers' = streamUsers
        /\ run' = run /\ slot' = slot
    BY DEF SpendInvite, InsertUser
  <1>a. req[r].kind = "register" /\ req[r].args \in Invites \X Names
    BY <1>t DEF SpendInvite, InsertUser, Places
  <1>p. ASSUME NEW q, Becomes(r, q), q.pc \in {"insertNames", "insert", "done"}, q.args = req[r].args,
               invites' \subseteq Invites, accounts' \subseteq Requests \X Invites \X Names,
               InvitesAreSpent'
        PROVE  TypeOK' /\ Safe'
    <2>1. /\ req' \in [Requests -> Request] /\ req'[r] = q
          /\ \A x \in Requests : x # r => req'[x] = req[x]
          /\ \A x \in Requests : req'[x].kind = req[x].kind /\ req'[x].user = req[x].user
      BY <1>t, <1>p, BecomesThat
    <2>2. TypeOK'
      BY <1>t, <1>f, <1>p, <2>1 DEF TypeOK
    <2>3. CacheIsHistory' /\ LoadsAreRecent'
      BY <1>f, <1>p, <2>1, CacheStays
    <2>4. Messages'
      BY <1>t, <1>a, <1>f, <1>p, MessagesStay DEF Becomes
    <2>5. Places'
      BY <1>t, <1>a, <1>f, <1>p, <2>1 DEF Places
    <2>6. QED  BY <1>p, <2>2, <2>3, <2>4, <2>5 DEF Safe
  <1>d. ASSUME Rejected(r), invites' = invites, accounts' = accounts
        PROVE  TypeOK' /\ Safe'
    <2> DEFINE q == [req[r] EXCEPT !.pc = "done", !.failed = TRUE]
    <2>1. req' = [req EXCEPT ![r] = q]
      BY <1>d DEF Rejected
    <2>2. /\ q \in Request /\ q.pc = "done" /\ q.kind = req[r].kind /\ q.user = req[r].user
          /\ q.args = req[r].args
      BY <1>r DEF Request
    <2> HIDE DEF q
    <2>3. Becomes(r, q)
      BY <2>1, <2>2 DEF Becomes
    <2>4. InvitesAreSpent'
      BY <1>t, <1>d, <2>2, <2>3, BecomesThat, InvitesStay DEF Spent
    <2>5. QED  BY <1>d, <1>p, <1>t, <2>2, <2>3, <2>4 DEF TypeOK
  <1>1. CASE SpendInvite(r)
    <2>1. CASE Rejected(r) /\ invites' = invites
      BY <1>1, <1>d, <2>1 DEF SpendInvite
    <2>2. CASE ~(Rejected(r) /\ invites' = invites)
      <3> DEFINE q == [req[r] EXCEPT !.pc = "insertNames"]
                 i == req[r].args[1]
      <3>1. req' = [req EXCEPT ![r] = q] /\ i \in invites /\ invites' = invites \ {i} /\ accounts' = accounts
            /\ req[r].pc = "names"
        BY <1>1, <2>2 DEF SpendInvite
      <3> HIDE DEF i
      <3>2. /\ q \in Request /\ q.pc = "insertNames" /\ q.kind = req[r].kind /\ q.user = req[r].user
            /\ q.args = req[r].args
        BY <1>r, AtAwait DEF Pcs
      <3> HIDE DEF q
      <3>3. Becomes(r, q)
        BY <3>1, <3>2 DEF Becomes
      <3>4. /\ req'[r] = q /\ \A x \in Requests : x # r => req'[x] = req[x]
        BY <1>t, <3>3, BecomesThat
      <3>5. InvitesAreSpent'
        <4>1. \A x \in Requests : Spent(x)' => x = r \/ (Spent(x) /\ req'[x] = req[x])
          BY <3>4 DEF Spent
        <4>2. req'[r].args[1] = i
          BY <3>2, <3>4 DEF i
        <4>3. \A x \in Requests : Spent(x) => req[x].args[1] # i
          BY <1>t, <3>1 DEF InvitesAreSpent
        <4>4. \A a \in accounts : a[2] # i
          BY <1>t, <3>1 DEF InvitesAreSpent
        <4>5. QED  BY <1>t, <3>1, <4>1, <4>2, <4>3, <4>4 DEF InvitesAreSpent
      <3>6. invites' \subseteq Invites /\ accounts' \subseteq Requests \X Invites \X Names
        BY <1>t, <3>1 DEF TypeOK
      <3>7. QED  BY <1>p, <3>2, <3>3, <3>5, <3>6
    <2>3. QED  BY <2>1, <2>2
  <1>2. CASE InsertUser(r)
    <2>1. CASE Taken(req[r].args[2])
      BY <1>2, <1>d, <2>1 DEF InsertUser
    <2>2. CASE ~Taken(req[r].args[2]) /\ req[r].pc = "insertNames"
      <3> DEFINE q == [req[r] EXCEPT !.pc = "insert"]
      <3>1. req' = [req EXCEPT ![r] = q] /\ invites' = invites /\ accounts' = accounts
        BY <1>2, <2>2 DEF InsertUser
      <3>2. /\ q \in Request /\ q.pc = "insert" /\ q.kind = req[r].kind /\ q.user = req[r].user
            /\ q.args = req[r].args
        BY <1>r, AtAwait DEF Pcs
      <3> HIDE DEF q
      <3>3. Becomes(r, q)
        BY <3>1, <3>2 DEF Becomes
      <3>4. InvitesAreSpent'
        BY <1>t, <2>2, <3>1, <3>2, <3>3, BecomesThat, InvitesStay DEF Spent
      <3>5. QED  BY <1>p, <1>t, <3>1, <3>2, <3>3, <3>4 DEF TypeOK
    <2>3. CASE ~Taken(req[r].args[2]) /\ req[r].pc = "insert"
      <3> DEFINE q == [req[r] EXCEPT !.pc = "done"]
                 g == <<r, req[r].args[1], req[r].args[2]>>
      <3>1. /\ req' = [req EXCEPT ![r] = q] /\ invites' = invites
            /\ ~Taken(req[r].args[2]) /\ accounts' = accounts \cup {g}
        BY <1>2, <2>3 DEF InsertUser
      <3>2. /\ q \in Request /\ q.pc = "done" /\ q.kind = req[r].kind /\ q.user = req[r].user
            /\ q.args = req[r].args
        BY <1>r, AtAwait DEF Pcs
      <3> HIDE DEF q
      <3>3. Becomes(r, q)
        BY <3>1, <3>2 DEF Becomes
      <3>4. /\ req'[r] = q /\ \A x \in Requests : x # r => req'[x] = req[x]
        BY <1>t, <3>3, BecomesThat
      <3>5. g \in Requests \X Invites \X Names /\ g[2] = req[r].args[1] /\ g[3] = req[r].args[2]
        BY <1>a
      <3> HIDE DEF g
      <3>6. InvitesAreSpent'
        <4>1. \A x \in Requests : Spent(x)' => x # r /\ Spent(x) /\ req'[x] = req[x]
          BY <3>2, <3>4 DEF Spent
        <4>2. Spent(r)
          BY <2>3 DEF Spent
        <4>3. accounts' = accounts \cup {g}
          BY <3>1
        <4>4. \A b \in accounts : b[2] # g[2] /\ b[3] # g[3]
          BY <1>t, <3>1, <3>5, <4>2 DEF InvitesAreSpent, Taken
        <4>5. \A a, b \in accounts' : a[2] = b[2] \/ a[3] = b[3] => a = b
          <5> SUFFICES ASSUME NEW a \in accounts', NEW b \in accounts', a[2] = b[2] \/ a[3] = b[3]
                       PROVE  a = b
            OBVIOUS
          <5>1. CASE a \in accounts /\ b \in accounts
            BY <1>t, <5>1 DEF InvitesAreSpent
          <5>2. CASE a = g \/ b = g
            BY <4>3, <4>4, <5>2
          <5>3. QED  BY <4>3, <5>1, <5>2
        <4>6. g[2] \notin invites
          BY <1>t, <3>5, <4>2 DEF InvitesAreSpent
        <4>7. \A x \in Requests : Spent(x) /\ x # r => g[2] # req[x].args[1]
          BY <1>t, <3>5, <4>2 DEF InvitesAreSpent
        <4>8. /\ \A x \in Requests : Spent(x)' => req'[x].args[1] \notin invites'
              /\ \A x, y \in Requests : Spent(x)' /\ Spent(y)' /\ req'[x].args[1] = req'[y].args[1] => x = y
          BY <1>t, <3>1, <4>1 DEF InvitesAreSpent
        <4>9. /\ \A a \in accounts' : a[2] \notin invites'
              /\ \A a \in accounts', x \in Requests : Spent(x)' => a[2] # req'[x].args[1]
          BY <1>t, <3>1, <4>1, <4>3, <4>6, <4>7 DEF InvitesAreSpent
        <4>10. QED  BY <4>5, <4>8, <4>9 DEF InvitesAreSpent
      <3>7. invites' \subseteq Invites /\ accounts' \subseteq Requests \X Invites \X Names
        BY <1>t, <3>1, <3>5 DEF TypeOK
      <3>8. QED  BY <1>p, <3>2, <3>3, <3>6, <3>7
    <2>4. QED  BY <1>2, <2>1, <2>2, <2>3 DEF InsertUser
  <1>3. QED  BY <1>1, <1>2

-----------------------------------------------------------------------------
(* The theorems. *)

\* The requests, the cache and the accounts as the connector begins.
LEMMA InitHolds == Init => IInv
  <1> SUFFICES ASSUME Init PROVE IInv
    OBVIOUS
  <1>1. PICK w \in Workloads, o \in [Requests -> Users] :
          req = [r \in Requests |->
                  [kind |-> w[r], user |-> o[r], pc |-> "idle", stage |-> "history",
                   snapshot |-> {}, known |-> {}, answer |-> {}, behind |-> {},
                   cancelled |-> FALSE, failed |-> FALSE, args |-> <<>>]]
    BY DEF Init
  <1>2. \A r \in Requests : w[r] \in Kinds
    BY HttpAssumption
  <1>3. TypeOK
    <2>1. req \in [Requests -> Request]
      BY <1>1, <1>2 DEF Request
    <2>2. QED  BY <2>1 DEF Init, TypeOK, IsSession, Empty, Runs
  <1>4. \A r \in Requests : req[r].pc = "idle"
    BY <1>1
  <1>5. CacheIsHistory /\ LoadsAreRecent
    BY <1>4 DEF Init, CacheIsHistory, LoadsAreRecent, Empty
  <1>6. Messages /\ Places
    BY <1>4 DEF Init, Messages, MessageWaits, Places
  <1>7. InvitesAreSpent
    BY <1>4 DEF Init, InvitesAreSpent, Spent
  <1>8. QED  BY <1>3, <1>5, <1>6, <1>7 DEF IInv

\* No step of a request, nor the stop of the connector, leaves the invariant.
LEMMA NextHolds == IInv /\ [Next]_vars => IInv'
  <1> SUFFICES ASSUME IInv, [Next]_vars PROVE TypeOK' /\ Safe'
    BY DEF IInv, Safe
  <1>1. ASSUME NEW r \in Requests,
               Arrive(r) \/ HandleStream(r) \/ WrapperStarts(r) \/ StartRun(r) \/ Replaced(r)
        PROVE  TypeOK' /\ Safe'
    BY <1>1, WaySteps, StartStep
  <1>2. ASSUME NEW r \in Requests, HandleHistory(r) \/ HandleMessage(r) \/ MessageEnds(r)
        PROVE  TypeOK' /\ Safe'
    BY <1>2, AskSteps
  <1>3. ASSUME NEW r \in Requests, LoadReads(r) \/ LoadReturns(r)
        PROVE  TypeOK' /\ Safe'
    BY <1>3, ReadStep, ReturnStep
  <1>4. ASSUME NEW r \in Requests, HandleEvents(r) \/ CloseSession(r) \/ StreamEnds(r)
        PROVE  TypeOK' /\ Safe'
    BY <1>4, SessionSteps
  <1>5. ASSUME NEW r \in Requests, SaveItem(r) \/ PublishItem(r)
        PROVE  TypeOK' /\ Safe'
    BY <1>5, ItemSteps
  <1>6. ASSUME \/ \E r, x \in Requests : HandleCancel(r, x)
               \/ \E r \in Requests : RunEnds(r)
               \/ StopBegins \/ StopEnds
        PROVE  TypeOK' /\ Safe'
    BY <1>6, OthersSteps
  <1>7. ASSUME NEW r \in Requests, NEW t \in Invites, NEW n \in Names, HandleRegister(r, t, n)
        PROVE  TypeOK' /\ Safe'
    BY <1>7, RegisterStep
  <1>8. ASSUME NEW r \in Requests, SpendInvite(r) \/ InsertUser(r)
        PROVE  TypeOK' /\ Safe'
    BY <1>8, SpendStep
  <1>9. CASE UNCHANGED vars
    BY <1>9 DEF vars, IInv, Safe, TypeOK, CacheIsHistory, LoadsAreRecent, Stored, Messages,
                MessageWaits, Places, InvitesAreSpent, Spent, Of, IsSession
  <1>10. QED
    BY <1>1, <1>2, <1>3, <1>4, <1>5, <1>6, <1>7, <1>8, <1>9 DEF Next

\* The invariant is inductive.
THEOREM Inductive == Spec => []IInv
  BY InitHolds, NextHolds, PTL DEF Spec

\* Whatever is loaded, dropped and loaded again, a cached history has every item that
\* was published, but for those that raced with a load.
THEOREM CacheHolds == Spec => []CacheIsHistory
  <1>1. IInv => CacheIsHistory
    BY DEF IInv
  <1>2. QED  BY <1>1, Inductive, PTL

\* The response to a message has the item that its run published, unless it raced.
THEOREM MessageIsAnswered == Spec => []ResponseHasAnswer
  <1>1. IInv => ResponseHasAnswer
    BY DEF IInv, Messages, MessageWaits, ResponseHasAnswer
  <1>2. QED  BY <1>1, Inductive, PTL

\* An invitation makes one account at most and a name is given once, however the
\* registrations interleave.
THEOREM InvitationServesOnce == Spec => []InvitationsServeOnce
  <1>1. IInv => InvitationsServeOnce
    BY DEF IInv, InvitesAreSpent, InvitationsServeOnce
  <1>2. QED  BY <1>1, Inductive, PTL

=============================================================================
