----------------------------- MODULE SqlSchema ------------------------------
(***************************************************************************)
(* The SQL storage on SQLite: the one connection that is opened lazily by  *)
(* whoever needs it first, the dialog table that grows a column for every  *)
(* field of every origin class, the tables of extensions with their        *)
(* recorded versions and migrations, and the items that runs save and read *)
(* while the agent starts, refreshes, stops and crashes.                   *)
(*                                                                         *)
(* Every task is a sequence of steps still to do, one step per await;      *)
(* calling a coroutine puts its steps in front.  A connection has at most  *)
(* one open transaction, shared by all tasks that use it: INSERT opens it, *)
(* ALTER and CREATE join it or commit on their own, and any task's commit  *)
(* commits what the others have written.                                   *)
(***************************************************************************)
EXTENDS Naturals, FiniteSets, SequencesExt

CONSTANTS
  NTables,       \* extension tables are 1..NTables, in the order of their ids
  MaxVersion,    \* declared versions are 1..MaxVersion
  Base, Origins, \* columns of DialogItem and DialogOrigin; of origin classes
  Registered,    \* origin classes defined before the storage connects
  Clients,       \* coroutines of runs and requests that use the storage
  Agent,         \* the coroutine that starts, refreshes and stops the agent
  MaxConns,      \* bound on connections of one process
  MaxStarts,     \* bound on starts, over all processes
  NoConn, NoTx

Tables == 1..NTables
Conns == 1..MaxConns
Tasks == Clients \cup {Agent}
DialogColumns == Base \cup Origins \cup Registered

\* What a connection sees: the dialog table, the extension tables, the recorded
\* versions (0 for none).
Contents == [dialog : SUBSET DialogColumns, rows : SUBSET Clients, cols : [Tables -> SUBSET Nat],
             versions : BOOLEAN, rec : [Tables -> Nat], indexed : SUBSET Tables]

ASSUME SqlAssumption ==
  /\ NTables \in Nat /\ MaxVersion \in Nat \ {0} /\ MaxConns \in Nat /\ MaxStarts \in Nat
  /\ Base # {} /\ IsFiniteSet(DialogColumns)
  /\ Agent \notin Clients
  /\ NoConn \notin Conns /\ NoTx \notin Contents

VARIABLES
  disk,   \* what is committed: dialog columns and rows, tables, versions
  tx,     \* [Conns -> contents with the open transaction, or NoTx]
  open,   \* open connections
  used,   \* number of connections made by this process
  db,     \* SqlStorage._db
  known,  \* SqlStorage._known_columns
  code,   \* [Tables -> version declared by the running program]
  work,   \* [Tasks -> steps left]
  local,  \* [Tasks -> the db variable of the task's coroutine]
  phase,  \* of the agent
  status, \* [Clients -> what became of the client's call]
  excused,\* clients whose connection was closed under them, or whose call began
           \* with a stale _known_columns (history)
  starts  \* number of starts so far

process == <<open, used, db, known>>
vars == <<disk, tx, open, used, db, known, code, work, local, phase, status,
          excused, starts>>

Fresh == [dialog |-> {}, rows |-> {}, cols |-> [t \in Tables |-> {}],
          versions |-> FALSE, rec |-> [t \in Tables |-> 0], indexed |-> {}]

Init ==
  /\ disk = Fresh /\ tx = [c \in Conns |-> NoTx] /\ open = {} /\ used = 0
  /\ db = NoConn /\ known = {} /\ code = [t \in Tables |-> 1]
  /\ work = [k \in Tasks |-> <<>>] /\ local = [k \in Tasks |-> NoConn]
  /\ phase = "down" /\ status = [k \in Clients |-> "new"]
  /\ excused = {} /\ starts = 0

-----------------------------------------------------------------------------
\* Steps.
Step(op) == [op |-> op, c |-> NoConn, arg |-> 0]
On(op, c) == [op |-> op, c |-> c, arg |-> 0]
At(op, x) == [op |-> op, c |-> NoConn, arg |-> x]
Alter(c, column) == [op |-> "alter", c |-> c, arg |-> column]

Is(k, op) == work[k] # <<>> /\ Head(work[k]).op = op
Then(k, steps) == work' = [work EXCEPT ![k] = steps \o Tail(@)]
Done(k) == Then(k, <<>>)

\* SQLite: what a connection sees, and who holds the write lock.
View(c) == IF tx[c] = NoTx THEN disk ELSE tx[c]
MayWrite(c) == c \in open /\ \A d \in Conns \ {c} : tx[d] = NoTx

\* A statement waits for the lock while a task is about to commit the other
\* transaction (the busy timeout is seconds, a commit the task's next await);
\* on a transaction nobody will commit it times out.
Held(d) == \E k \in Tasks : \E i \in DOMAIN work[k] : work[k][i].c = d
Proceeds(c) == c = NoConn \/ \A d \in Conns \ {c} : tx[d] = NoTx \/ ~Held(d)

\* CREATE and ALTER take part in an open transaction and otherwise commit.
Define(c, new) ==
  IF tx[c] = NoTx THEN disk' = new /\ UNCHANGED tx
                  ELSE tx' = [tx EXCEPT ![c] = new] /\ UNCHANGED disk

\* INSERT, UPDATE and DELETE open a transaction.
Modify(c, new) == tx' = [tx EXCEPT ![c] = new] /\ UNCHANGED disk

Committed(c) == disk' = View(c) /\ tx' = [tx EXCEPT ![c] = NoTx]

\* An exception ends the coroutine.  The lifecycle stops what a failed start
\* had started; a failed refresh leaves the agent running.
Raise(k) ==
  /\ work' = [work EXCEPT ![k] = IF k = Agent /\ phase = "starting"
                                 THEN <<Step("close"), Step("clear")>> ELSE <<>>]
  /\ phase' = IF k # Agent THEN phase
              ELSE IF phase = "starting" THEN "stopping" ELSE "stale"
  /\ status' = IF k = Agent THEN status
               ELSE [status EXCEPT ![k] = IF Cardinality(open) > 1 THEN "split" ELSE "failed"]

quiet == <<phase, status>>
rest == <<code, excused, starts>>

-----------------------------------------------------------------------------
\* _get_db: a task that finds no connection makes one and initialises it;
\* _db is assigned before _init_db runs.
EnsureTables ==
  [n \in 1..(2 * NTables) |->
    IF n % 2 = 1 THEN Step("get") ELSE At("columns", n \div 2)]

GetDb(k) ==
  /\ Is(k, "get")
  /\ IF db # NoConn
     THEN local' = [local EXCEPT ![k] = db] /\ Done(k)
     ELSE Then(k, <<Step("connect"), Step("got")>>) /\ UNCHANGED local
  /\ UNCHANGED <<disk, tx, process, quiet, rest>>

InitDb(c) ==
  <<On("create", c), On("commit", c), On("versions", c), On("commit", c),
    On("known", c), At("migrate", Base), At("migrate", Registered)>>

Connect(k) ==
  /\ Is(k, "connect") /\ used < MaxConns
  /\ used' = used + 1 /\ open' = open \cup {used'} /\ db' = used'
  /\ UNCHANGED excused
  /\ Then(k, InitDb(used'))
  /\ UNCHANGED <<disk, tx, known, local, quiet, code, starts>>

Got(k) ==
  /\ Is(k, "got") /\ local' = [local EXCEPT ![k] = db] /\ Done(k)
  /\ UNCHANGED <<disk, tx, process, quiet, rest>>

\* CREATE TABLE IF NOT EXISTS commamatrix_dialog
CreateDialog(k) ==
  /\ Is(k, "create") /\ Proceeds(Head(work[k]).c)
  /\ LET c == Head(work[k]).c IN
     IF c \in open /\ (View(c).dialog # {} \/ MayWrite(c))
     THEN /\ Define(c, IF View(c).dialog # {} THEN View(c)
                       ELSE [View(c) EXCEPT !.dialog = Base])
          /\ Done(k) /\ UNCHANGED quiet
     ELSE Raise(k) /\ UNCHANGED <<disk, tx>>
  /\ UNCHANGED <<process, local, rest>>

\* _ensure_schema_versions
CreateVersions(k) ==
  /\ Is(k, "versions") /\ Proceeds(Head(work[k]).c)
  /\ LET c == Head(work[k]).c IN
     IF c \in open /\ (View(c).versions \/ MayWrite(c))
     THEN /\ Define(c, [View(c) EXCEPT !.versions = TRUE])
          /\ Done(k) /\ UNCHANGED quiet
     ELSE Raise(k) /\ UNCHANGED <<disk, tx>>
  /\ UNCHANGED <<process, local, rest>>

ReadKnown(k) ==
  /\ Is(k, "known")
  /\ LET c == Head(work[k]).c IN
     IF c \in open
     THEN known' = View(c).dialog /\ Done(k) /\ UNCHANGED quiet
     ELSE Raise(k) /\ UNCHANGED known
  /\ UNCHANGED <<disk, tx, open, used, db, local, rest>>

Commit(k) ==
  /\ Is(k, "commit")
  /\ LET c == Head(work[k]).c IN
     IF c \in open THEN Committed(c) /\ Done(k) /\ UNCHANGED quiet
                   ELSE Raise(k) /\ UNCHANGED <<disk, tx>>
  /\ UNCHANGED <<process, local, rest>>

-----------------------------------------------------------------------------
\* _migrate_columns: every column the cache does not know is added; if that
\* fails the columns are read again, and only a column that is still missing
\* is an error.
Migrate(k) ==
  /\ Is(k, "migrate")
  /\ Then(k, SetToSeq({Alter(db, column) : column \in Head(work[k]).arg}))
  /\ UNCHANGED <<disk, tx, process, local, quiet, rest>>

AlterDialogRaising(k) ==
  /\ Is(k, "alter") /\ Proceeds(Head(work[k]).c)
  /\ LET c == Head(work[k]).c   column == Head(work[k]).arg IN
     IF column \in known THEN Done(k) /\ UNCHANGED <<disk, tx, quiet>>
     ELSE IF /\ c \in open /\ MayWrite(c)
             /\ View(c).dialog # {} /\ column \notin View(c).dialog
     THEN /\ Define(c, [View(c) EXCEPT !.dialog = @ \cup {column}])
          /\ Then(k, <<[op |-> "altered", c |-> c, arg |-> column]>>)
          /\ UNCHANGED quiet
     ELSE Raise(k) /\ UNCHANGED <<disk, tx>>
  /\ UNCHANGED <<process, local, rest>>

AlterDialog(k) ==
  /\ Is(k, "alter") /\ Proceeds(Head(work[k]).c)
  /\ LET c == Head(work[k]).c   column == Head(work[k]).arg IN
     IF column \in known THEN Done(k) /\ UNCHANGED <<disk, tx>>
     ELSE IF /\ c \in open /\ MayWrite(c)
             /\ View(c).dialog # {} /\ column \notin View(c).dialog
     THEN /\ Define(c, [View(c) EXCEPT !.dialog = @ \cup {column}])
          /\ Then(k, <<[op |-> "altered", c |-> c, arg |-> column]>>)
     ELSE /\ Then(k, <<[op |-> "recheck", c |-> c, arg |-> column]>>)
          /\ UNCHANGED <<disk, tx>>
  /\ UNCHANGED <<process, local, quiet, rest>>

Altered(k) ==
  /\ Is(k, "altered")
  /\ LET c == Head(work[k]).c   column == Head(work[k]).arg IN
     IF c \in open
     THEN Committed(c) /\ known' = known \cup {column} /\ Done(k)
     ELSE /\ Then(k, <<[op |-> "recheck", c |-> c, arg |-> column]>>)
          /\ UNCHANGED <<disk, tx, known>>
  /\ UNCHANGED <<open, used, db, local, quiet, rest>>

Recheck(k) ==
  /\ Is(k, "recheck")
  /\ LET c == Head(work[k]).c   column == Head(work[k]).arg IN
     IF c \in open
     THEN /\ known' = View(c).dialog
          /\ IF column \in known' THEN Done(k) /\ UNCHANGED quiet ELSE Raise(k)
     ELSE Raise(k) /\ UNCHANGED known
  /\ UNCHANGED <<disk, tx, open, used, db, local, rest>>

-----------------------------------------------------------------------------
\* save_event and get_history.
StaleCache == ~(known \subseteq View(db).dialog)

Begin(k, steps) ==
  /\ phase \in {"up", "stale", "refreshing"} /\ status[k] = "new"
  /\ status' = [status EXCEPT ![k] = "running"]
  /\ excused' = IF StaleCache THEN excused \cup {k} ELSE excused
  /\ work' = [work EXCEPT ![k] = steps]
  /\ UNCHANGED <<disk, tx, process, local, phase, code, starts>>

SaveEvent(k, origin) ==
  Begin(k, <<Step("get"), At("migrate", {origin}), At("insert", origin)>>)

GetHistory(k, origin) ==
  Begin(k, <<Step("get"), At("migrate", Base), At("migrate", {origin}),
             At("fetch", origin)>>)

InsertUncommitted(k) ==
  /\ Is(k, "insert") /\ Proceeds(local[k])
  /\ LET c == local[k] IN
     IF /\ c \in open /\ MayWrite(c)
        /\ Base \cup {Head(work[k]).arg} \subseteq View(c).dialog
     THEN /\ Modify(c, [View(c) EXCEPT !.rows = @ \cup {k}])
          /\ Then(k, <<Step("return")>>) /\ UNCHANGED quiet
     ELSE Raise(k) /\ UNCHANGED <<disk, tx>>
  /\ UNCHANGED <<process, local, rest>>

Insert(k) ==
  /\ Is(k, "insert") /\ Proceeds(local[k])
  /\ LET c == local[k] IN
     IF /\ c \in open /\ MayWrite(c)
        /\ Base \cup {Head(work[k]).arg} \subseteq View(c).dialog
     THEN /\ Modify(c, [View(c) EXCEPT !.rows = @ \cup {k}])
          /\ Then(k, <<On("commit", c), Step("return")>>) /\ UNCHANGED quiet
     ELSE Raise(k) /\ UNCHANGED <<disk, tx>>
  /\ UNCHANGED <<process, local, rest>>

Fetch(k) ==
  /\ Is(k, "fetch")
  /\ IF local[k] \in open
        /\ Base \cup {Head(work[k]).arg} \subseteq View(local[k]).dialog
     THEN /\ status' = [status EXCEPT ![k] = "read"] /\ Done(k) /\ UNCHANGED phase
     ELSE Raise(k)
  /\ UNCHANGED <<disk, tx, process, local, rest>>

Return(k) ==
  /\ Is(k, "return") /\ Done(k)
  /\ status' = [status EXCEPT ![k] = "saved"]
  /\ UNCHANGED <<disk, tx, process, local, phase, rest>>

\* The run a client belongs to is cancelled at an await.
Cancel(k) ==
  /\ status[k] = "running"
  /\ work' = [work EXCEPT ![k] = <<>>]
  /\ status' = [status EXCEPT ![k] = "cancelled"]
  /\ UNCHANGED <<disk, tx, process, local, phase, rest>>

-----------------------------------------------------------------------------

\* ensure_table, for each table of the TableManager in the order of their ids.
Columns(k) ==
  /\ Is(k, "columns")
  /\ LET t == Head(work[k]).arg   c == local[k] IN
     IF c \notin open THEN Raise(k)
     ELSE /\ Then(k, IF View(c).cols[t] = {}
                     THEN <<At("table", t), On("commit", c), At("record", t),
                            On("commit", c), At("index", t), On("commit", c)>>
                     ELSE <<At("version", t), At("index", t), On("commit", c)>>)
          /\ UNCHANGED quiet
  /\ UNCHANGED <<disk, tx, process, local, rest>>

CreateTable(k) ==
  /\ Is(k, "table") /\ Proceeds(local[k])
  /\ LET t == Head(work[k]).arg   c == local[k] IN
     IF c \in open /\ MayWrite(c)
     THEN /\ Define(c, [View(c) EXCEPT !.cols[t] = 1..code[t]])
          /\ Done(k) /\ UNCHANGED quiet
     ELSE Raise(k) /\ UNCHANGED <<disk, tx>>
  /\ UNCHANGED <<process, local, rest>>

Record(k) ==
  /\ Is(k, "record") /\ Proceeds(local[k])
  /\ LET t == Head(work[k]).arg   c == local[k] IN
     IF c \in open /\ MayWrite(c) /\ View(c).versions
     THEN /\ Modify(c, [View(c) EXCEPT !.rec[t] = code[t]])
          /\ Done(k) /\ UNCHANGED quiet
     ELSE Raise(k) /\ UNCHANGED <<disk, tx>>
  /\ UNCHANGED <<process, local, rest>>

\* The recorded version decides: migrate, refuse or leave.  A table without a
\* recorded version counts as version 1.  The migration is the extension's:
\* it adds, version by version, the columns the table lacks.
Recorded(c, t) == IF View(c).rec[t] = 0 THEN 1 ELSE View(c).rec[t]

Migration(t, from) ==
  [i \in 1..(code[t] - from) |-> [op |-> "column", c |-> NoConn, arg |-> <<t, from + i>>]]

VersionUnrecorded(k) ==
  /\ Is(k, "version")
  /\ LET t == Head(work[k]).arg   c == local[k] IN
     IF c \notin open \/ ~View(c).versions \/ Recorded(c, t) > code[t] THEN Raise(k)
     ELSE Then(k, Migration(t, Recorded(c, t))) /\ UNCHANGED quiet
  /\ UNCHANGED <<disk, tx, process, local, rest>>

Version(k) ==
  /\ Is(k, "version")
  /\ LET t == Head(work[k]).arg   c == local[k] IN
     IF c \notin open \/ ~View(c).versions \/ Recorded(c, t) > code[t] THEN Raise(k)
     ELSE /\ Then(k, IF Recorded(c, t) = code[t] THEN <<>>
                     ELSE Migration(t, Recorded(c, t))
                          \o <<At("record", t), On("commit", c)>>)
          /\ UNCHANGED quiet
  /\ UNCHANGED <<disk, tx, process, local, rest>>

\* add_column, on the connection of the moment.
AddColumn(k) ==
  /\ Is(k, "column") /\ Proceeds(db)
  /\ LET t == Head(work[k]).arg[1]   column == Head(work[k]).arg[2] IN
     IF db = NoConn
     THEN /\ work' = [work EXCEPT ![k] = <<Step("connect")>> \o @]
          /\ UNCHANGED <<disk, tx, quiet>>
     ELSE IF db \in open /\ MayWrite(db) /\ column \notin View(db).cols[t]
     THEN /\ Define(db, [View(db) EXCEPT !.cols[t] = @ \cup {column}])
          /\ Then(k, <<On("commit", db)>>) /\ UNCHANGED quiet
     ELSE Raise(k) /\ UNCHANGED <<disk, tx>>
  /\ UNCHANGED <<process, local, rest>>

EnsureIndexes(k) ==
  /\ Is(k, "index") /\ Proceeds(local[k])
  /\ LET t == Head(work[k]).arg   c == local[k] IN
     IF c \in open /\ (t \in View(c).indexed \/ MayWrite(c))
     THEN /\ Define(c, [View(c) EXCEPT !.indexed = @ \cup {t}])
          /\ Done(k) /\ UNCHANGED quiet
     ELSE Raise(k) /\ UNCHANGED <<disk, tx>>
  /\ UNCHANGED <<process, local, rest>>

-----------------------------------------------------------------------------
\* The agent: start opens the storage and ensures the tables the program
\* declares, refresh ensures those of reloaded extensions, stop closes.
Declares(release) == code' = release

Start(release) ==
  /\ phase = "down" /\ work[Agent] = <<>> /\ starts < MaxStarts
  /\ starts' = starts + 1 /\ Declares(release)
  /\ phase' = "starting"
  /\ work' = [work EXCEPT ![Agent] = <<Step("get")>> \o EnsureTables \o <<Step("ready")>>]
  /\ UNCHANGED <<disk, tx, process, local, status, excused>>

Refresh(release) ==
  /\ phase \in {"up", "stale"} /\ Declares(release) /\ release # code
  /\ phase' = "refreshing"
  /\ work' = [work EXCEPT ![Agent] = EnsureTables \o <<Step("ready")>>]
  /\ UNCHANGED <<disk, tx, process, local, status, excused, starts>>

Ready(k) ==
  /\ Is(k, "ready") /\ Done(k) /\ phase' = "up"
  /\ UNCHANGED <<disk, tx, process, local, status, rest>>

Stop ==
  /\ phase \in {"up", "stale"}
  /\ phase' = "stopping"
  /\ work' = [work EXCEPT ![Agent] = <<Step("close"), Step("clear")>>]
  /\ UNCHANGED <<disk, tx, process, local, status, rest>>

\* _close: nothing without a connection, else close and then forget it.
Close(k) ==
  /\ Is(k, "close")
  /\ IF db = NoConn
     THEN /\ work' = [work EXCEPT ![k] = <<>>] /\ phase' = "down"
          /\ UNCHANGED <<open, tx, excused>>
     ELSE /\ open' = open \ {db} /\ tx' = [tx EXCEPT ![db] = NoTx]
          /\ excused' = excused \cup {s \in Clients : status[s] = "running"}
          /\ Done(k) /\ UNCHANGED phase
  /\ UNCHANGED <<disk, used, db, known, local, status, code, starts>>

Clear(k) ==
  /\ Is(k, "clear") /\ db' = NoConn /\ Done(k) /\ phase' = "down"
  /\ UNCHANGED <<disk, tx, open, used, known, local, status, rest>>

\* The process dies: what was not committed is gone.
Crash ==
  /\ phase # "down" \/ open # {}
  /\ tx' = [c \in Conns |-> NoTx] /\ open' = {} /\ used' = 0 /\ db' = NoConn
  /\ known' = {} /\ work' = [k \in Tasks |-> <<>>]
  /\ local' = [k \in Tasks |-> NoConn] /\ phase' = "down"
  /\ status' = [k \in Clients |-> IF status[k] = "running" THEN "cancelled" ELSE status[k]]
  /\ UNCHANGED <<disk, code, starts, excused>>

StepOf(k) ==
  \/ GetDb(k) \/ Connect(k) \/ Got(k) \/ CreateDialog(k) \/ CreateVersions(k)
  \/ ReadKnown(k) \/ Commit(k) \/ Migrate(k) \/ AlterDialog(k) \/ Altered(k)
  \/ Recheck(k) \/ Insert(k) \/ Fetch(k) \/ Return(k) \/ Columns(k)
  \/ CreateTable(k) \/ Record(k) \/ Version(k) \/ AddColumn(k)
  \/ EnsureIndexes(k) \/ Ready(k) \/ Close(k) \/ Clear(k)

Next ==
  \/ \E k \in Tasks : StepOf(k)
  \/ \E k \in Clients, o \in Origins : SaveEvent(k, o) \/ GetHistory(k, o)
  \/ \E k \in Clients : Cancel(k)
  \/ \E release \in [Tables -> 1..MaxVersion] : Start(release) \/ Refresh(release)
  \/ Stop \/ Crash

Spec == Init /\ [][Next]_vars

-----------------------------------------------------------------------------

\* When the agent runs, every declared table is on disk with its columns, its
\* version (none counts as 1) and its indexes, committed and not merely seen
\* by the agent's own connection.
ReadyMeansComplete ==
  phase = "up" =>
    \A t \in Tables : /\ (IF disk.rec[t] = 0 THEN 1 ELSE disk.rec[t]) = code[t]
                      /\ t \in disk.indexed
                      /\ 1..code[t] \subseteq disk.cols[t]

\* An item whose save returned is on disk and in every later read, whatever
\* crashes, stops and cancelled neighbours in the shared transaction follow.
SavedIsDurable ==
  \A k \in Clients : status[k] = "saved" =>
    k \in disk.rows /\ \A c \in open : k \in View(c).rows

\* Saving and reading side by side, with whichever columns both find missing,
\* never fails, except for a call whose connection was closed under it or that
\* began with a stale _known_columns (_close() keeps it and _get_db() publishes
\* the next connection before it is read again), and while two callers of
\* _get_db have left the storage with two connections.
CallsSucceed ==
  \A k \in Clients : status[k] = "failed" => k \in excused
=============================================================================
