-------------------------- MODULE SqlSchemaProofs ---------------------------
(***************************************************************************)
(* Theorems about SqlSchema, for any number of tables, versions, columns,  *)
(* clients and connections.  Every step of a task is one of five things    *)
(* done to a connection, all of which keep what it sees; on this rest the  *)
(* rows that are saved, the columns a client has asked for, and the tables *)
(* that only the agent writes, whose next commit is its own next step.     *)
(***************************************************************************)
EXTENDS SqlSchema, FiniteSetTheorems, TLAPS

-----------------------------------------------------------------------------
(* Types                                                                   *)

Steps ==
  [op : {"get", "connect", "got", "return", "ready", "close", "clear"}, c : {NoConn}, arg : {0}]
  \cup [op : {"create", "commit", "versions", "known"}, c : Conns, arg : {0}]
  \cup [op : {"migrate"}, c : {NoConn}, arg : SUBSET DialogColumns]
  \cup [op : {"alter", "altered", "recheck"}, c : Conns \cup {NoConn}, arg : DialogColumns]
  \cup [op : {"insert", "fetch"}, c : {NoConn}, arg : Origins]
  \cup [op : {"columns", "table", "record", "version", "index"}, c : {NoConn}, arg : Tables]
  \cup [op : {"column"}, c : {NoConn}, arg : Tables \X Nat]

\* Only connections that were made occur in the steps.
Issued(s, n) == \A i \in DOMAIN s : s[i].c \in (1..n) \cup {NoConn}

WorkOK ==
  /\ work \in [Tasks -> Seq(Steps)]
  /\ \A k \in Tasks : Issued(work[k], used)

TypeOK ==
  /\ disk \in Contents
  /\ tx \in [Conns -> Contents \cup {NoTx}]
  /\ used \in 0..MaxConns
  /\ open \subseteq 1..used
  /\ db \in (1..used) \cup {NoConn}
  /\ known \subseteq DialogColumns
  /\ code \in [Tables -> 1..MaxVersion]
  /\ WorkOK
  /\ local \in [Tasks -> (1..used) \cup {NoConn}]
  /\ phase \in {"down", "starting", "up", "refreshing", "stale", "stopping"}
  /\ status \in [Clients -> {"new", "running", "saved", "read", "failed", "split", "cancelled"}]
  /\ excused \subseteq Clients
  /\ starts \in Nat

-----------------------------------------------------------------------------
(* The contents of connections                                             *)

\* a has nothing that b lacks.
Below(a, b) ==
  /\ a.dialog \subseteq b.dialog
  /\ a.rows \subseteq b.rows
  /\ \A t \in Tables : a.cols[t] \subseteq b.cols[t]
  /\ a.versions => b.versions
  /\ a.indexed \subseteq b.indexed

\* A transaction belongs to an open connection, is the only one, and adds to
\* what is committed.
Transactions ==
  /\ \A c \in Conns : tx[c] # NoTx => c \in open /\ Below(disk, tx[c])
  /\ \A c, d \in Conns : tx[c] # NoTx /\ tx[d] # NoTx => c = d

\* The dialog table is created with the columns of Base.
DialogMade(s) == s.dialog = {} \/ Base \subseteq s.dialog

Dialogs ==
  /\ DialogMade(disk)
  /\ \A c \in Conns : tx[c] # NoTx => DialogMade(tx[c])

-----------------------------------------------------------------------------
(* What clients do                                                         *)

Op(k, i) == work[k][i].op

\* A column whose ALTER has been executed is there.
AlteredIsThere ==
  \A k \in Tasks : \A i \in DOMAIN work[k] :
    Op(k, i) = "altered" =>
      i = 1 /\ (work[k][i].c \in open => work[k][i].arg \in View(work[k][i].c).dialog)

\* A client runs its steps while it is running, those of the storage only; the
\* last is to insert, to read or to return.
ClientOps == {"get", "connect", "got", "return", "create", "commit", "versions", "known",
              "migrate", "alter", "altered", "recheck", "insert", "fetch"}

ClientSteps ==
  \A k \in Clients :
    /\ status[k] # "running" => work[k] = <<>>
    /\ \A i \in DOMAIN work[k] :
         /\ Op(k, i) \in ClientOps
         /\ Op(k, i) \in {"insert", "fetch", "return"} => i = Len(work[k])

\* Before it returns, what it has inserted is committed.

Durable(k) == k \in disk.rows

Written ==
  \A k \in Clients : \A i \in DOMAIN work[k] :
    Op(k, i) = "return" =>
      \/ i = 1 /\ Durable(k)
      \/ /\ i = 2 /\ Op(k, 1) = "commit"
         /\ work[k][1].c \in open => k \in View(work[k][1].c).rows

\* The running clients that get no excuse.
Fine(k) == status[k] = "running" /\ k \notin excused

\* Such a client found an open connection, and it stays open; while it is the
\* only one, the columns the client needs are there or will be asked for.
Usable(w, o) ==
  \A i \in DOMAIN w :
    /\ w[i].op \notin {"connect", "got", "create", "versions", "known"}
    /\ w[i].op \in {"alter", "altered", "recheck", "commit"} => w[i].c \in o
    /\ w[i].op = "get" => i = 1

Asked(step, column) ==
  \/ step.op = "migrate" /\ column \in step.arg
  \/ step.op = "alter" /\ column = step.arg

Provided(w, columns) ==
  \A i \in DOMAIN w :
    /\ w[i].op = "recheck" => i = 1 /\ w[i].arg \in columns
    /\ w[i].op \in {"insert", "fetch"} =>
         w[i].arg \in columns \/ \E j \in DOMAIN w : j < i /\ Asked(w[j], w[i].arg)

FineSteps(k) ==
  /\ db \in open
  /\ Usable(work[k], open)
  /\ work[k] # <<>> => Op(k, 1) = "get" \/ local[k] \in open
  /\ open = {db} =>
       known \subseteq View(db).dialog /\ Provided(work[k], View(db).dialog)

FineClients == \A k \in Clients : Fine(k) => FineSteps(k)

\* Until the dialog table is made nobody but a starting agent uses the storage.
DialogFirst ==
  disk.dialog = {} =>
    /\ \A k \in Clients : status[k] # "running"
    /\ phase \in {"down", "starting", "stopping"}
    /\ phase = "down" => db = NoConn
    /\ (phase = "starting" /\ db # NoConn) =>
         \/ Is(Agent, "create") /\ Head(work[Agent]).c = db /\ work[Agent][2] = On("commit", db)
         \/ Is(Agent, "commit") /\ Head(work[Agent]).c = db /\ View(db).dialog # {}

-----------------------------------------------------------------------------
(* What the agent does                                                     *)

StartSteps == {"get", "connect", "got", "create", "commit", "versions", "known", "migrate",
               "alter", "altered", "recheck", "columns", "table", "record", "version",
               "index", "column"}

AgentSteps ==
  /\ phase \in {"down", "up", "stale"} => work[Agent] = <<>>
  /\ phase = "stopping" => work[Agent] \in {<<Step("close"), Step("clear")>>, <<Step("clear")>>}
  /\ phase \in {"starting", "refreshing"} =>
       /\ work[Agent] # <<>>
       /\ work[Agent][Len(work[Agent])] = Step("ready")
       /\ \A i \in 1..(Len(work[Agent]) - 1) : Op(Agent, i) \in StartSteps

\* The connection of the storage is open, but for the last step of a stop.
Connected ==
  /\ db # NoConn => db \in open \/ Is(Agent, "clear")
  /\ phase \in {"up", "stale", "refreshing"} => db # NoConn
  /\ (phase = "starting" /\ db = NoConn) => Op(Agent, 1) \in {"get", "connect"}
  /\ (phase \in {"down", "starting"} \/ Is(Agent, "clear")) => \A k \in Clients : ~Fine(k)

-----------------------------------------------------------------------------
(* The tables of extensions                                                *)

SameTables(a, b) == a.cols = b.cols /\ a.rec = b.rec /\ a.indexed = b.indexed

\* What the agent has written of the tables: its next step commits it, if it
\* is not committed.
Committing == Is(Agent, "commit")
Now == IF Committing THEN View(Head(work[Agent]).c) ELSE disk

\* Nobody else writes tables.
TablesAreAgents ==
  \A c \in Conns : tx[c] # NoTx =>
    SameTables(tx[c], disk) \/ (Committing /\ Head(work[Agent]).c = c)

\* The recorded version never says more than the table has.
Version1(n) == IF n = 0 THEN 1 ELSE n
Migrated(s, t) == s.cols[t] # {} => 1..Version1(s.rec[t]) \subseteq s.cols[t]
Honest(s) == \A t \in Tables : Migrated(s, t) /\ (s.rec[t] # 0 => s.cols[t] # {})
Records == Honest(disk) /\ Honest(Now)

Complete(s, t) ==
  /\ Version1(s.rec[t]) = code[t]
  /\ t \in s.indexed
  /\ 1..code[t] \subseteq s.cols[t]

\* The steps of ensure_table() that are left for t: i is the place of its
\* indexes, n the number of columns still to migrate.
TableOps == {"table", "record", "version", "index", "column"}
TableOf(step) == IF step.op = "column" THEN step.arg[1] ELSE step.arg

Migrating(w, t, v, from, n) ==
  \A j \in from..n : w[j] = At("column", <<t, v - n + j>>)

\* Such steps w are left for t, on connection c, if its tables are those of s and
\* v is its declared version.
Left(w, c, s, v, t, i) ==
  LET commit == On("commit", c)
      n == i - 3
  IN /\ i + 1 < Len(w)
     /\ w[i] = At("index", t) /\ w[i + 1] = commit
     /\ c \in Conns
     /\ \A j \in (i + 1)..Len(w) : w[j].op \notin TableOps
     /\ \/ /\ \/ i = 1
              \/ i = 2 /\ w[1].op = "commit"
           /\ Version1(s.rec[t]) = v /\ 1..v \subseteq s.cols[t]
        \/ i = 2 /\ w[1] = At("version", t) /\ s.cols[t] # {}
        \/ /\ i >= 3
           /\ w[i - 2] = At("record", t) /\ w[i - 1] = commit
           /\ \/ i = 5 /\ w[1] = At("table", t) /\ w[2] = commit /\ s.cols[t] = {}
              \/ n < v /\ Migrating(w, t, v, 1, n) /\ 1..(v - n) \subseteq s.cols[t]
              \/ /\ i >= 4 /\ n <= v /\ w[1].op = "commit" /\ Migrating(w, t, v, 2, n)
                 /\ 1..(v - n + 1) \subseteq s.cols[t]

Ensuring(t, i) == Left(work[Agent], local[Agent], Now, code[t], t, i)

Ahead(t) == \E i \in DOMAIN work[Agent] : work[Agent][i] = At("columns", t)
InTurn(t) == \E i \in DOMAIN work[Agent] : Ensuring(t, i)

Tabled ==
  /\ phase \in {"starting", "refreshing"} =>
       \A t \in Tables : Ahead(t) \/ InTurn(t) \/ Complete(Now, t)
  /\ phase = "up" => \A t \in Tables : Complete(disk, t)
  /\ \A i \in DOMAIN work[Agent] :
       Op(Agent, i) \in TableOps => InTurn(TableOf(work[Agent][i]))

-----------------------------------------------------------------------------
IInv ==
  /\ TypeOK /\ Transactions /\ Dialogs
  /\ AlteredIsThere /\ ClientSteps /\ Written /\ FineClients /\ DialogFirst
  /\ AgentSteps /\ Connected
  /\ TablesAreAgents /\ Records /\ Tabled
  /\ SavedIsDurable /\ CallsSucceed

-----------------------------------------------------------------------------
(* Steps                                                                   *)

\* The first of the steps w are replaced by s: what is where.
LEMMA Replacing ==
  ASSUME NEW S, NEW s \in Seq(S), NEW w \in Seq(S), w # <<>>
  PROVE  /\ s \o Tail(w) \in Seq(S)
         /\ Len(s \o Tail(w)) = Len(s) + Len(w) - 1
         /\ \A i \in 1..Len(s) : (s \o Tail(w))[i] = s[i]
         /\ \A i \in (Len(s) + 1)..(Len(s) + Len(w) - 1) :
              (s \o Tail(w))[i] = w[i - Len(s) + 1]
<1>1. Tail(w) \in Seq(S) /\ Len(Tail(w)) = Len(w) - 1 /\ Len(w) \in Nat \ {0}
  OBVIOUS
<1>2. \A i \in 1..(Len(w) - 1) : Tail(w)[i] = w[i + 1]
  OBVIOUS
<1> QED
  BY <1>1, <1>2

\* A step of task k that calls a coroutine: what is where in its work.
ThenWork(k, s) ==
  LET v == work[k]   w == work'[k]
  IN /\ work' \in [Tasks -> Seq(Steps)]
     /\ \A j \in Tasks : j # k => work'[j] = work[j]
     /\ Len(w) = Len(s) + Len(v) - 1
     /\ \A i \in 1..Len(s) : w[i] = s[i]
     /\ \A i \in (Len(s) + 1)..Len(w) : w[i] = v[i - Len(s) + 1] /\ i - Len(s) + 1 \in 2..Len(v)

\* What is left once a task has put steps in front.
LEMMA Thens ==
  ASSUME work \in [Tasks -> Seq(Steps)], NEW k \in Tasks, work[k] # <<>>,
         NEW s \in Seq(Steps), Then(k, s)
  PROVE  ThenWork(k, s)
<1>1. work[k] \in Seq(Steps)
  OBVIOUS
<1>2. work'[k] = s \o Tail(work[k])
  BY DEF Then
<1>3. \A j \in Tasks : j # k => work'[j] = work[j]
  BY DEF Then
<1>4. /\ work'[k] \in Seq(Steps)
      /\ Len(work'[k]) = Len(s) + Len(work[k]) - 1
      /\ \A i \in 1..Len(s) : work'[k][i] = s[i]
      /\ \A i \in (Len(s) + 1)..(Len(s) + Len(work[k]) - 1) :
           work'[k][i] = work[k][i - Len(s) + 1]
  BY <1>1, <1>2, Replacing
<1>5. work' = [work EXCEPT ![k] = work'[k]]
  BY <1>2 DEF Then
<1>6. work' \in [Tasks -> Seq(Steps)]
  BY <1>4, <1>5
<1>7. Len(work[k]) \in Nat /\ Len(s) \in Nat
  BY <1>1
<1> QED
  BY <1>3, <1>4, <1>6, <1>7 DEF ThenWork

\* The steps a task may be given.
LEMMA StepTypes ==
  ASSUME SqlAssumption
  PROVE  /\ \A op \in {"get", "connect", "got", "return", "ready", "close", "clear"} : Step(op) \in Steps
         /\ \A op \in {"create", "commit", "versions", "known"} : \A c \in Conns : On(op, c) \in Steps
         /\ \A S \in SUBSET DialogColumns : At("migrate", S) \in Steps
         /\ \A op \in {"alter", "altered", "recheck"} : \A c \in Conns \cup {NoConn} :
              \A x \in DialogColumns : [op |-> op, c |-> c, arg |-> x] \in Steps
         /\ \A op \in {"insert", "fetch"} : \A o \in Origins : At(op, o) \in Steps
         /\ \A op \in {"columns", "table", "record", "version", "index"} : \A t \in Tables : At(op, t) \in Steps
         /\ \A t \in Tables : \A n \in Nat : At("column", <<t, n>>) \in Steps
BY DEF Steps, Step, On, At

\* What the kind of a step tells of it.
LEMMA StepArgs ==
  ASSUME NEW step \in Steps
  PROVE  /\ step.c \in Conns \cup {NoConn}
         /\ step.op \in {"create", "commit", "versions", "known"} => step.c \in Conns /\ step = On(step.op, step.c)
         /\ step.op = "migrate" => step.arg \in SUBSET DialogColumns
         /\ step.op \in {"alter", "altered", "recheck"} => step.arg \in DialogColumns
         /\ step.op \in {"insert", "fetch"} => step.arg \in Origins
         /\ step.op \in {"columns", "table", "record", "version", "index"} => step.arg \in Tables /\ step = At(step.op, step.arg)
         /\ step.op = "column" => /\ step.arg \in Tables \X Nat
                                  /\ step.arg[1] \in Tables /\ step.arg[2] \in Nat
                                  /\ step.arg = <<step.arg[1], step.arg[2]>>
                                  /\ step = At("column", step.arg)
<1>1. /\ step.c \in Conns \cup {NoConn}
      /\ step.op \in {"create", "commit", "versions", "known"} => step.c \in Conns /\ step = On(step.op, step.c)
  BY DEF Steps, On
<1>2. /\ step.op = "migrate" => step.arg \in SUBSET DialogColumns
      /\ step.op \in {"alter", "altered", "recheck"} => step.arg \in DialogColumns
      /\ step.op \in {"insert", "fetch"} => step.arg \in Origins
  BY DEF Steps
<1>3. step.op \in {"columns", "table", "record", "version", "index"} => step.arg \in Tables /\ step = At(step.op, step.arg)
  BY DEF Steps, At
<1>4. step.op = "column" => step.arg \in Tables \X Nat /\ step = At("column", step.arg)
  BY DEF Steps, At
<1>5. \A p \in Tables \X Nat : p[1] \in Tables /\ p[2] \in Nat /\ p = <<p[1], p[2]>>
  OBVIOUS
<1> QED
  BY <1>1, <1>2, <1>3, <1>4, <1>5

\* The step a task is at.
LEMMA Heads ==
  ASSUME work \in [Tasks -> Seq(Steps)], NEW k \in Tasks, NEW op, Is(k, op)
  PROVE  /\ work[k] # <<>> /\ 1 \in DOMAIN work[k]
         /\ Head(work[k]) = work[k][1] /\ Head(work[k]) \in Steps
         /\ Op(k, 1) = op /\ Head(work[k]).op = op
BY DEF Is, Op

\* _migrate_columns() goes through the columns of a class, each of them once.
LEMMA Listing ==
  ASSUME NEW S, IsFiniteSet(S)
  PROVE  /\ SetToSeq(S) \in Seq(S)
         /\ \A x \in S : \E i \in DOMAIN SetToSeq(S) : SetToSeq(S)[i] = x
<1> DEFINE n == Cardinality(S)
           Ok(f) == f \in [1..n -> S] /\ IsInjective(f)
<1>1. n \in Nat /\ ExistsBijection(1..n, S)
  BY FS_CardinalityType
<1>2. PICK f \in Bijection(1..n, S) : TRUE
  BY <1>1 DEF ExistsBijection
<1>3. f \in [1..n -> S] /\ IsInjective(f)
  BY <1>2 DEF Bijection, Injection, IsInjective
<1>4. SetToSeq(S) \in [1..n -> S] /\ IsInjective(SetToSeq(S))
  BY <1>3 DEF SetToSeq
<1>5. SetToSeq(S) \in Injection(1..n, S)
  BY <1>4 DEF Injection, IsInjective
<1>6. Cardinality(1..n) = n
  BY <1>1, FS_Interval
<1>7. SetToSeq(S) \in Surjection(1..n, S)
  BY <1>5, <1>6, FS_Injection
<1>8. SetToSeq(S) \in Seq(S)
  BY <1>1, <1>4
<1>9. \A x \in S : \E i \in DOMAIN SetToSeq(S) : SetToSeq(S)[i] = x
  BY <1>4, <1>7 DEF Surjection
<1> QED
  BY <1>8, <1>9

AlterSteps(c, S) == SetToSeq({Alter(c, x) : x \in S})

\* The ALTERs of _migrate_columns() are steps, one for every column.
LEMMA Alters ==
  ASSUME SqlAssumption, NEW S \in SUBSET DialogColumns, NEW c \in Conns \cup {NoConn}
  PROVE  /\ AlterSteps(c, S) \in Seq(Steps)
         /\ \A i \in DOMAIN AlterSteps(c, S) :
              AlterSteps(c, S)[i].op = "alter" /\ AlterSteps(c, S)[i].c = c
         /\ \A x \in S : \E i \in DOMAIN AlterSteps(c, S) : AlterSteps(c, S)[i].arg = x
<1> DEFINE A == {Alter(c, x) : x \in S}
           s == SetToSeq(A)
<1>1. IsFiniteSet(S)
  BY FS_Subset DEF SqlAssumption
<1>2. IsFiniteSet(A)
  <2> DEFINE f == [x \in S |-> Alter(c, x)]
  <2>1. f \in Surjection(S, A)
    BY DEF Surjection
  <2> QED BY <1>1, <2>1, FS_Surjection
<1>3. s \in Seq(A) /\ \A a \in A : \E i \in DOMAIN s : s[i] = a
  BY <1>2, Listing
<1>4. A \subseteq Steps
  BY StepTypes DEF Alter
<1>5. \A a \in A : a.op = "alter" /\ a.c = c
  BY DEF Alter
<1>6. \A x \in S : Alter(c, x) \in A /\ Alter(c, x).arg = x
  BY DEF Alter
<1> HIDE DEF s, A
<1>7. s \in Seq(Steps)
  BY <1>3, <1>4
<1>8. \A i \in DOMAIN s : s[i] \in A
  BY <1>3
<1>9. \A x \in S : \E i \in DOMAIN s : s[i].arg = x
  BY <1>3, <1>6
<1>10. \A i \in DOMAIN s : s[i].op = "alter" /\ s[i].c = c
  BY <1>5, <1>8
<1> QED
  BY <1>7, <1>9, <1>10 DEF s, A, AlterSteps

-----------------------------------------------------------------------------
(* What the steps do to the contents of connections                        *)

StoreOK ==
  /\ disk \in Contents
  /\ tx \in [Conns -> Contents \cup {NoTx}]
  /\ open \subseteq Conns
  /\ Transactions
  /\ Dialogs

\* What is committed, and what a connection sees that stays open, is kept.
Kept ==
  /\ Below(disk, disk')
  /\ \A c \in Conns : c \in open /\ c \in open' => Below(View(c), View(c)')

\* Having no more is reflexive and transitive.
LEMMA BelowFacts ==
  /\ \A a : Below(a, a)
  /\ \A a, b, c : Below(a, b) /\ Below(b, c) => Below(a, c)
BY DEF Below

\* What a connection sees is of the right kind, and no less than what is committed.
LEMMA Views ==
  ASSUME StoreOK, NEW c \in Conns
  PROVE  View(c) \in Contents /\ Below(disk, View(c)) /\ DialogMade(View(c))
BY BelowFacts DEF StoreOK, View, Transactions, Dialogs

\* A step that touches no contents keeps them in order.
LEMMA StoreSame ==
  ASSUME StoreOK, UNCHANGED <<disk, tx>>, open \subseteq open', open' \subseteq Conns
  PROVE  StoreOK' /\ Kept
BY BelowFacts DEF StoreOK, View, Transactions, Dialogs, Kept, DialogMade, Below

\* So does CREATE or ALTER,
LEMMA StoreDefine ==
  ASSUME StoreOK, NEW c \in open, NEW new \in Contents, Below(View(c), new), DialogMade(new),
         MayWrite(c) \/ new = View(c), Define(c, new), open \subseteq open', open' \subseteq Conns,
         SqlAssumption
  PROVE  StoreOK' /\ Kept /\ View(c)' = new
<1>0. c \in Conns /\ new # NoTx
  BY DEF StoreOK, SqlAssumption
<1>1. CASE tx[c] = NoTx
  <2>1. disk' = new /\ tx' = tx /\ View(c) = disk
    BY <1>1 DEF Define, View
  <2>2. Below(disk, disk')
    BY <2>1
  <2>3. CASE new = disk
    <3>1. UNCHANGED <<disk, tx>>
      BY <2>1, <2>3
    <3> QED BY <3>1, <2>1, <1>0, <1>1, StoreSame DEF View
  <2>4. CASE new # disk
    <3>1. \A d \in Conns : tx[d] = NoTx
      BY <2>1, <2>4, <1>1 DEF MayWrite
    <3>2. \A d \in Conns : View(d) = disk /\ View(d)' = disk'
      BY <2>1, <3>1 DEF View
    <3>3. Kept
      BY <2>2, <3>2 DEF Kept
    <3>4. StoreOK'
      BY <2>1, <3>1 DEF StoreOK, Transactions, Dialogs, DialogMade
    <3> QED BY <3>2, <3>3, <3>4, <2>1, <1>0
  <2> QED BY <2>3, <2>4
<1>2. CASE tx[c] # NoTx
  <2>1. disk' = disk /\ tx' = [tx EXCEPT ![c] = new] /\ View(c) = tx[c]
    BY <1>2 DEF Define, View
  <2>2. /\ tx'[c] = new /\ \A d \in Conns \ {c} : tx'[d] = tx[d] /\ tx[d] = NoTx
        /\ tx' \in [Conns -> Contents \cup {NoTx}]
    BY <2>1, <1>0, <1>2 DEF StoreOK, Transactions
  <2>3. View(c)' = new
    BY <2>2, <1>0 DEF View
  <2>4. \A d \in Conns \ {c} : View(d)' = View(d)
    BY <2>1, <2>2 DEF View
  <2>5. Kept
    BY <2>1, <2>3, <2>4, BelowFacts DEF Kept
  <2>6. Below(disk, new)
    BY <1>0, Views, BelowFacts
  <2>7. Transactions'
    BY <2>1, <2>2, <2>6, <1>0 DEF Transactions
  <2>8. Dialogs'
    BY <2>1, <2>2, <1>0 DEF Dialogs, StoreOK, DialogMade
  <2> QED BY <2>1, <2>2, <2>3, <2>5, <2>7, <2>8 DEF StoreOK
<1> QED BY <1>1, <1>2

\* so does INSERT, UPDATE or DELETE,
LEMMA StoreModify ==
  ASSUME StoreOK, NEW c \in open, NEW new \in Contents, Below(View(c), new), DialogMade(new),
         MayWrite(c), Modify(c, new), open' = open, SqlAssumption
  PROVE  StoreOK' /\ Kept /\ View(c)' = new
<1>0. c \in Conns /\ new # NoTx
  BY DEF StoreOK, SqlAssumption
<1>1. disk' = disk /\ tx' = [tx EXCEPT ![c] = new]
  BY DEF Modify
<1>2. /\ tx'[c] = new /\ \A d \in Conns \ {c} : tx'[d] = tx[d] /\ tx[d] = NoTx
      /\ tx' \in [Conns -> Contents \cup {NoTx}]
  BY <1>0, <1>1 DEF StoreOK, MayWrite
<1>3. View(c)' = new
  BY <1>2, <1>0 DEF View
<1>4. \A d \in Conns \ {c} : View(d)' = View(d)
  BY <1>1, <1>2 DEF View
<1>5. Kept
  BY <1>1, <1>3, <1>4, BelowFacts DEF Kept
<1>6. Below(disk, new)
  BY <1>0, Views, BelowFacts
<1>7. Transactions'
  BY <1>1, <1>2, <1>6, <1>0 DEF Transactions
<1>8. Dialogs'
  BY <1>1, <1>2, <1>0 DEF Dialogs, StoreOK, DialogMade
<1> QED BY <1>1, <1>2, <1>3, <1>5, <1>7, <1>8 DEF StoreOK

\* so does a commit,
LEMMA StoreCommit ==
  ASSUME StoreOK, NEW c \in open, Committed(c), open' = open
  PROVE  /\ StoreOK' /\ Kept /\ disk' = View(c)
         /\ \A d \in Conns : tx'[d] = NoTx \/ UNCHANGED <<disk, tx>>
<1>0. c \in Conns
  BY DEF StoreOK
<1>1. disk' = View(c) /\ tx' = [tx EXCEPT ![c] = NoTx]
  BY DEF Committed
<1>2. CASE tx[c] = NoTx
  <2>1. disk' = disk /\ tx' = tx
    BY <1>0, <1>1, <1>2 DEF View, StoreOK
  <2> QED BY <2>1, <1>1, StoreSame DEF StoreOK
<1>3. CASE tx[c] # NoTx
  <2>1. \A d \in Conns : tx'[d] = NoTx
    BY <1>0, <1>1, <1>3 DEF StoreOK, Transactions
  <2>2. disk' = tx[c] /\ disk' \in Contents
    BY <1>0, <1>1, <1>3 DEF StoreOK, View
  <2>3. \A d \in Conns : View(d)' = disk' /\ Below(View(d), disk')
    <3>1. \A d \in Conns : d # c => View(d) = disk
      BY <1>0, <1>3 DEF StoreOK, Transactions, View
    <3>2. Below(disk, disk') /\ Below(View(c), disk')
      BY <1>0, <1>1, <1>3, <2>2, BelowFacts DEF StoreOK, Transactions
    <3> QED BY <2>1, <3>1, <3>2 DEF View
  <2>4. Below(disk, disk')
    BY <1>0, <1>3, <2>2 DEF StoreOK, Transactions
  <2>5. Kept
    BY <2>3, <2>4 DEF Kept
  <2>6. tx' \in [Conns -> Contents \cup {NoTx}]
    BY <1>0, <1>1 DEF StoreOK
  <2>7. StoreOK'
    BY <2>1, <2>2, <2>6, <1>0, <1>3 DEF StoreOK, Transactions, Dialogs, DialogMade
  <2> QED BY <2>1, <2>5, <2>7, <1>1
<1> QED BY <1>2, <1>3

\* and so does closing a connection, which loses its transaction.
LEMMA StoreClose ==
  ASSUME StoreOK, NEW c \in Conns, open' = open \ {c}, tx' = [tx EXCEPT ![c] = NoTx],
         disk' = disk
  PROVE  StoreOK' /\ Kept
<1>1. tx'[c] = NoTx /\ \A d \in Conns \ {c} : tx'[d] = tx[d]
  BY DEF StoreOK
<1>2. tx' \in [Conns -> Contents \cup {NoTx}]
  BY DEF StoreOK
<1>3. \A d \in Conns : d \in open' => View(d)' = View(d)
  BY <1>1 DEF View
<1>4. Kept
  BY <1>3, BelowFacts DEF Kept
<1>5. Transactions'
  BY <1>1 DEF StoreOK, Transactions, Below
<1>6. Dialogs'
  BY <1>1 DEF StoreOK, Dialogs, DialogMade
<1> QED BY <1>2, <1>4, <1>5, <1>6 DEF StoreOK

-----------------------------------------------------------------------------
(* Every step of a task is one of a few                                    *)

\* A statement that changes what connection c sees to new.
Writes(c, new) ==
  /\ c \in open /\ open' = open
  /\ new \in Contents /\ Below(View(c), new) /\ DialogMade(new)
  /\ \/ Define(c, new) /\ (MayWrite(c) \/ new = View(c))
     \/ Modify(c, new) /\ MayWrite(c)

\* What a step of task k does to the contents; only the steps of ensure_table()
\* write the tables of extensions.
StoreMove(k) ==
  \/ UNCHANGED <<disk, tx>> /\ open' = open
  \/ UNCHANGED <<disk, tx>> /\ Is(k, "connect") /\ open' = open \cup {used'} /\ used' = used + 1
  \/ \E c \in open : \E new \in Contents :
       /\ Writes(c, new) /\ Op(k, 1) # "commit"
       /\ Op(k, 1) \in TableOps \/ SameTables(new, View(c))
  \/ /\ Is(k, "commit") \/ Is(k, "altered")
     /\ Head(work[k]).c \in open /\ Committed(Head(work[k]).c) /\ open' = open
  \/ /\ Is(k, "close") /\ db # NoConn
     /\ open' = open \ {db} /\ tx' = [tx EXCEPT ![db] = NoTx] /\ disk' = disk

\* Which coroutine calls which.
Called(op, o) ==
  \/ op = "get" /\ o \in {"connect", "got"}
  \/ op = "connect" /\ o \in {"create", "commit", "versions", "known", "migrate"}
  \/ op = "migrate" /\ o = "alter"
  \/ op = "alter" /\ o \in {"altered", "recheck"}
  \/ op = "altered" /\ o = "recheck"
  \/ op = "insert" /\ o \in {"commit", "return"}
  \/ op = "columns" /\ o \in {"table", "record", "index", "version", "commit"}
  \/ op = "version" /\ o \in {"column", "record", "commit"}
  \/ op = "column" /\ o = "commit"

Calling(k, s) == \A i \in DOMAIN s : Called(Op(k, 1), s[i].op)

\* What it does to the work of the tasks.
WorkMove(k) ==
  \/ Raise(k)
  \/ /\ Is(k, "close") /\ db = NoConn /\ work' = [work EXCEPT ![k] = <<>>]
  \/ \E s \in Seq(Steps) : Calling(k, s) /\ ThenWork(k, s)

\* Calling a coroutine leaves steps of the right kind.
LEMMA WorkThen ==
  ASSUME TypeOK, NEW k \in Tasks, work[k] # <<>>, NEW s \in Seq(Steps), Then(k, s),
         used' \in Nat, used <= used', Issued(s, used')
  PROVE  ThenWork(k, s) /\ WorkOK'
<1>1. ThenWork(k, s)
  BY Thens DEF TypeOK, WorkOK
<1>2. 1..used \subseteq 1..used'
  BY DEF TypeOK
<1>3. ASSUME NEW j \in Tasks, NEW i \in DOMAIN work'[j]
      PROVE  work'[j][i].c \in (1..used') \cup {NoConn}
  <2>1. CASE j # k
    BY <1>1, <1>2, <2>1 DEF ThenWork, TypeOK, WorkOK, Issued
  <2>2. CASE j = k
    <3>1. i \in 1..Len(work'[k]) /\ Len(s) \in Nat /\ DOMAIN s = 1..Len(s) /\ DOMAIN work[k] = 1..Len(work[k])
      BY <1>1, <2>2 DEF ThenWork, TypeOK, WorkOK
    <3>2. CASE i \in 1..Len(s)
      BY <1>1, <2>2, <3>1, <3>2 DEF ThenWork, Issued
    <3>3. CASE i \in (Len(s) + 1)..Len(work'[k])
      <4>1. work'[k][i] = work[k][i - Len(s) + 1] /\ i - Len(s) + 1 \in DOMAIN work[k]
        <5>1. i - Len(s) + 1 \in 2..Len(work[k])
          BY <1>1, <2>2, <3>3 DEF ThenWork
        <5>2. i - Len(s) + 1 \in DOMAIN work[k]
          BY <3>1, <5>1
        <5>3. work'[k][i] = work[k][i - Len(s) + 1]
          BY <1>1, <3>3 DEF ThenWork
        <5> QED BY <5>2, <5>3
      <4> QED BY <4>1, <1>2, <2>2 DEF TypeOK, WorkOK, Issued
    <3> QED BY <3>1, <3>2, <3>3
  <2> QED BY <2>1, <2>2
<1>4. \A j \in Tasks : Issued(work'[j], used')
  BY <1>3 DEF Issued
<1> QED BY <1>1, <1>4 DEF ThenWork, WorkOK

\* An exception does, too.
LEMMA WorkRaise ==
  ASSUME TypeOK, SqlAssumption, NEW k \in Tasks, Raise(k), used' = used
  PROVE  /\ WorkOK'
         /\ \A j \in Tasks : j # k => work'[j] = work[j]
         /\ work'[k] = IF k = Agent /\ phase = "starting" THEN <<Step("close"), Step("clear")>> ELSE <<>>
         /\ phase' \in {"down", "starting", "up", "refreshing", "stale", "stopping"}
         /\ status' \in [Clients -> {"new", "running", "saved", "read", "failed", "split", "cancelled"}]
         /\ \A j \in Clients : j # k => status'[j] = status[j]
         /\ k = Agent => status' = status
         /\ k # Agent => phase' = phase
<1>1. <<Step("close"), Step("clear")>> \in Seq(Steps) /\ <<>> \in Seq(Steps)
  BY StepTypes
<1>2. /\ work' \in [Tasks -> Seq(Steps)]
      /\ \A j \in Tasks : j # k => work'[j] = work[j]
      /\ work'[k] = IF k = Agent /\ phase = "starting" THEN <<Step("close"), Step("clear")>> ELSE <<>>
  BY <1>1 DEF Raise, TypeOK, WorkOK
<1>3. Issued(<<Step("close"), Step("clear")>>, used') /\ Issued(<<>>, used')
  BY DEF Issued, Step
<1>4. \A j \in Tasks : Issued(work'[j], used')
  <2>1. ASSUME NEW j \in Tasks, j # k PROVE Issued(work'[j], used')
    BY <1>2, <2>1 DEF Issued, TypeOK, WorkOK
  <2>2. Issued(work'[k], used')
    BY <1>2, <1>3 DEF Issued
  <2> QED BY <2>1, <2>2
<1>5. /\ status' \in [Clients -> {"new", "running", "saved", "read", "failed", "split", "cancelled"}]
      /\ \A j \in Clients : j # k => status'[j] = status[j]
  BY DEF Raise, TypeOK
<1>6. /\ phase' \in {"down", "starting", "up", "refreshing", "stale", "stopping"}
      /\ k = Agent => status' = status
      /\ k # Agent => phase' = phase
  BY DEF Raise, TypeOK
<1> QED BY <1>2, <1>4, <1>5, <1>6 DEF WorkOK

\* The rest of the types.
RestOK ==
  /\ used \in 0..MaxConns
  /\ open \subseteq 1..used
  /\ db \in (1..used) \cup {NoConn}
  /\ known \subseteq DialogColumns
  /\ code \in [Tables -> 1..MaxVersion]
  /\ WorkOK
  /\ local \in [Tasks -> (1..used) \cup {NoConn}]
  /\ phase \in {"down", "starting", "up", "refreshing", "stale", "stopping"}
  /\ status \in [Clients -> {"new", "running", "saved", "read", "failed", "split", "cancelled"}]
  /\ excused \subseteq Clients
  /\ starts \in Nat

\* The type invariant in two parts, contents and processes.
LEMMA TypeParts ==
  ASSUME SqlAssumption, Transactions, Dialogs
  PROVE  TypeOK <=> StoreOK /\ RestOK
<1>1. ASSUME RestOK PROVE open \subseteq Conns
  BY <1>1 DEF RestOK, Conns, SqlAssumption
<1> QED BY <1>1 DEF TypeOK, RestOK, StoreOK

\* Whatever a step does to the contents keeps them in order.
LEMMA StoreMoves ==
  ASSUME SqlAssumption, StoreOK, RestOK, NEW k \in Tasks, StoreMove(k), used' \in 0..MaxConns
  PROVE  StoreOK' /\ Kept
<1>1. CASE UNCHANGED <<disk, tx>> /\ open' = open
  BY <1>1, StoreSame DEF StoreOK
<1>2. CASE UNCHANGED <<disk, tx>> /\ Is(k, "connect") /\ open' = open \cup {used'} /\ used' = used + 1
  <2>1. used' \in Conns
    BY <1>2 DEF RestOK, Conns, SqlAssumption
  <2> QED BY <1>2, <2>1, StoreSame DEF StoreOK
<1>3. CASE \E c \in open : \E new \in Contents : Writes(c, new)
  <2> PICK c \in open, new \in Contents : Writes(c, new)
    BY <1>3
  <2>1. CASE Define(c, new)
    <3>1. MayWrite(c) \/ new = View(c)
      <4>1. CASE Modify(c, new) /\ MayWrite(c)
        BY <4>1
      <4> QED BY <4>1 DEF Writes
    <3> QED BY <2>1, <3>1, StoreDefine DEF Writes, StoreOK
  <2>2. CASE Modify(c, new) /\ MayWrite(c)
    BY <2>2, StoreModify DEF Writes
  <2> QED BY <2>1, <2>2 DEF Writes
<1>4. CASE \E c \in open : Committed(c) /\ open' = open
  BY <1>4, StoreCommit
<1>5. CASE db # NoConn /\ open' = open \ {db} /\ tx' = [tx EXCEPT ![db] = NoTx] /\ disk' = disk
  <2>1. db \in Conns
    BY <1>5 DEF RestOK, Conns
  <2> QED BY <1>5, <2>1, StoreClose
<1> QED BY <1>1, <1>2, <1>3, <1>4, <1>5 DEF StoreMove

\* What the lemmas about steps conclude.
StepOK(k) == TypeOK' /\ StoreOK' /\ Kept /\ StoreMove(k) /\ WorkMove(k)

\* What has to be shown of a step.
LEMMA StepOKs ==
  ASSUME SqlAssumption, IInv, NEW k \in Tasks, StoreMove(k), WorkMove(k), RestOK'
  PROVE  StepOK(k)
<1>1. StoreOK /\ RestOK
  BY TypeParts DEF IInv
<1>2. StoreOK' /\ Kept
  BY <1>1, StoreMoves DEF RestOK
<1>3. TypeOK'
  <2>1. open' \subseteq Conns
    BY <1>2 DEF StoreOK
  <2> QED BY <1>2, <2>1 DEF TypeOK, RestOK, StoreOK
<1> QED BY <1>2, <1>3 DEF StepOK

\* A step that gives its task the steps s and changes little else.
LEMMA RestThen ==
  ASSUME SqlAssumption, IInv, NEW k \in Tasks, work[k] # <<>>,
         NEW s \in Seq(Steps), Then(k, s), Issued(s, used'), Calling(k, s),
         used' \in used..MaxConns, open' \subseteq 1..used', db' \in (1..used') \cup {NoConn},
         known' \subseteq DialogColumns, code' = code, starts' = starts,
         local' = local \/ local' = [local EXCEPT ![k] = db],
         phase' \in {"down", "starting", "up", "refreshing", "stale", "stopping"},
         status' \in [Clients -> {"new", "running", "saved", "read", "failed", "split", "cancelled"}],
         excused' \subseteq Clients
  PROVE  RestOK' /\ WorkMove(k)
<1>1. used \in Nat /\ used' \in Nat /\ used <= used' /\ used' \in 0..MaxConns
  BY DEF IInv, TypeOK, SqlAssumption
<1>2. ThenWork(k, s) /\ WorkOK'
  BY <1>1, WorkThen DEF IInv
<1>3. local' \in [Tasks -> (1..used') \cup {NoConn}]
  <2>1. 1..used \subseteq 1..used'
    BY <1>1
  <2> QED BY <2>1 DEF IInv, TypeOK
<1> QED BY <1>1, <1>2, <1>3 DEF RestOK, WorkMove, IInv, TypeOK

\* After an exception the process is of the right kind.
LEMMA RestRaise ==
  ASSUME SqlAssumption, IInv, NEW k \in Tasks, Raise(k),
         UNCHANGED <<open, used, db>>, known' \subseteq DialogColumns,
         UNCHANGED <<local, code, excused, starts>>
  PROVE  RestOK' /\ WorkMove(k)
<1>1. WorkOK' /\ phase' \in {"down", "starting", "up", "refreshing", "stale", "stopping"}
      /\ status' \in [Clients -> {"new", "running", "saved", "read", "failed", "split", "cancelled"}]
  BY WorkRaise DEF IInv
<1> QED BY <1>1 DEF RestOK, WorkMove, IInv, TypeOK

\* The step a task is at, in a reachable state.
LEMMA HeadFacts ==
  ASSUME SqlAssumption, IInv, NEW k \in Tasks, NEW op, Is(k, op)
  PROVE  /\ work[k] # <<>> /\ Head(work[k]) = work[k][1] /\ 1 \in DOMAIN work[k]
         /\ Head(work[k]) \in Steps /\ Op(k, 1) = op /\ Head(work[k]).op = op
         /\ Head(work[k]).c \in (1..used) \cup {NoConn}
         /\ 1..used \subseteq Conns
         /\ used \in Nat /\ used <= MaxConns
<1>1. work \in [Tasks -> Seq(Steps)] /\ used \in 0..MaxConns /\ Issued(work[k], used)
  BY DEF IInv, TypeOK, WorkOK
<1>2. 1..used \subseteq Conns
  BY <1>1 DEF Conns, SqlAssumption
<1> QED BY <1>1, <1>2, Heads DEF Issued

\* The parts of the type invariant.
LEMMA Typed ==
  ASSUME SqlAssumption, IInv
  PROVE  /\ used \in used..MaxConns /\ open \subseteq 1..used /\ db \in (1..used) \cup {NoConn}
         /\ known \subseteq DialogColumns /\ excused \subseteq Clients
         /\ phase \in {"down", "starting", "up", "refreshing", "stale", "stopping"}
         /\ status \in [Clients -> {"new", "running", "saved", "read", "failed", "split", "cancelled"}]
BY DEF IInv, TypeOK, SqlAssumption

\* No steps at all.
LEMMA NoSteps == <<>> \in Seq(Steps) /\ Issued(<<>>, used') /\ \A k : Calling(k, <<>>)
BY DEF Issued, Calling

\* _get_db() keeps types and contents,
LEMMA GetDbOK ==
  ASSUME SqlAssumption, IInv, NEW k \in Tasks, GetDb(k)
  PROVE  StepOK(k)
<1>1. work[k] # <<>> /\ Op(k, 1) = "get"
  BY HeadFacts DEF GetDb
<1>2. StoreMove(k)
  BY DEF GetDb, StoreMove, process
<1>3. RestOK' /\ WorkMove(k)
  <2>1. CASE db # NoConn
    <3>1. Then(k, <<>>) /\ local' = [local EXCEPT ![k] = db]
      BY <2>1 DEF GetDb, Done
    <3>2. UNCHANGED <<open, used, db, known, code, excused, starts, phase, status>>
      BY DEF GetDb, process, quiet, rest
    <3> QED BY <1>1, <3>1, <3>2, NoSteps, RestThen, Typed
  <2>2. CASE db = NoConn
    <3>1. Then(k, <<Step("connect"), Step("got")>>) /\ local' = local
      BY <2>2 DEF GetDb
    <3>2. <<Step("connect"), Step("got")>> \in Seq(Steps) /\ Issued(<<Step("connect"), Step("got")>>, used')
      BY StepTypes DEF Issued, Step
    <3>3. UNCHANGED <<open, used, db, known, code, excused, starts, phase, status>>
      BY DEF GetDb, process, quiet, rest
    <3>4. Calling(k, <<Step("connect"), Step("got")>>)
      BY <1>1 DEF Calling, Called, Step
    <3> QED BY <1>1, <3>1, <3>2, <3>3, <3>4, RestThen, Typed
  <2> QED BY <2>1, <2>2
<1> QED BY <1>2, <1>3, StepOKs

\* and connecting does,
LEMMA ConnectOK ==
  ASSUME SqlAssumption, IInv, NEW k \in Tasks, Connect(k)
  PROVE  StepOK(k)
<1>1. work[k] # <<>> /\ used \in Nat /\ used < MaxConns /\ used' = used + 1 /\ Op(k, 1) = "connect"
  BY HeadFacts DEF Connect
<1>2. used' \in Conns /\ used' \in 1..used'
  BY <1>1 DEF Conns, SqlAssumption
<1>3. StoreMove(k)
  BY DEF Connect, StoreMove
<1>4. InitDb(used') \in Seq(Steps)
  <2>1. Base \in SUBSET DialogColumns /\ Registered \in SUBSET DialogColumns
    BY DEF DialogColumns
  <2> QED BY <1>2, <2>1, StepTypes DEF InitDb
<1>5. Issued(InitDb(used'), used')
  BY <1>2 DEF Issued, InitDb, On, At
<1>6. open' \subseteq 1..used'
  <2>1. 1..used \subseteq 1..used'
    BY <1>1
  <2> QED BY <1>2, <2>1 DEF Connect, IInv, TypeOK
<1>7. Then(k, InitDb(used')) /\ Calling(k, InitDb(used'))
  BY <1>1 DEF Connect, Calling, Called, InitDb, On, At
<1>8. RestOK' /\ WorkMove(k)
  <2>1. UNCHANGED <<known, local, phase, status, code, starts, excused>> /\ db' = used'
    BY DEF Connect, quiet
  <2>2. used' \in used..MaxConns
    BY <1>1, SqlAssumption DEF SqlAssumption
  <2> QED BY <1>1, <1>2, <1>4, <1>5, <1>6, <1>7, <2>1, <2>2, RestThen, Typed
<1> QED BY <1>3, <1>8, StepOKs

\* A step that ends, or fails, and changes at most known and what is stored.
LEMMA RestDone ==
  ASSUME SqlAssumption, IInv, NEW k \in Tasks, work[k] # <<>>, Done(k),
         UNCHANGED <<open, used, db, code, excused, starts>>, known' \subseteq DialogColumns,
         local' = local \/ local' = [local EXCEPT ![k] = db],
         phase' \in {"down", "starting", "up", "refreshing", "stale", "stopping"},
         status' \in [Clients -> {"new", "running", "saved", "read", "failed", "split", "cancelled"}]
  PROVE  RestOK' /\ WorkMove(k)
<1>1. Then(k, <<>>)
  BY DEF Done
<1> QED BY <1>1, NoSteps, RestThen, Typed

\* and handing the connection to the caller,
LEMMA GotOK ==
  ASSUME SqlAssumption, IInv, NEW k \in Tasks, Got(k)
  PROVE  StepOK(k)
<1>1. work[k] # <<>>
  BY HeadFacts DEF Got
<1>2. StoreMove(k)
  BY DEF Got, StoreMove, process
<1>3. RestOK' /\ WorkMove(k)
  BY <1>1, RestDone, Typed DEF Got, process, quiet, rest
<1> QED BY <1>2, <1>3, StepOKs

\* A step that fails and changes at most known.
LEMMA FailedOK ==
  ASSUME SqlAssumption, IInv, NEW k \in Tasks, Raise(k), UNCHANGED <<disk, tx, open, used, db>>,
         known' \subseteq DialogColumns, UNCHANGED <<local, code, excused, starts>>
  PROVE  StepOK(k)
<1>1. StoreMove(k)
  BY DEF StoreMove
<1> QED BY <1>1, RestRaise, StepOKs

\* A statement that succeeds: its connection and what it makes of the contents.
LEMMA WriteOK ==
  ASSUME SqlAssumption, IInv, NEW k \in Tasks, work[k] # <<>>,
         NEW s \in Seq(Steps), Then(k, s), Issued(s, used'), Calling(k, s),
         NEW c \in open, NEW new \in Contents, Writes(c, new), Op(k, 1) # "commit",
         Op(k, 1) \in TableOps \/ SameTables(new, View(c)),
         UNCHANGED <<open, used, db, known, code, excused, starts, local, phase, status>>
  PROVE  StepOK(k)
<1>1. StoreMove(k)
  BY DEF StoreMove
<1>2. RestOK' /\ WorkMove(k)
  BY RestThen, Typed
<1> QED BY <1>1, <1>2, StepOKs

\* What a connection sees, in parts.
LEMMA ViewFacts ==
  ASSUME SqlAssumption, IInv, NEW c \in Conns
  PROVE  /\ View(c) \in Contents /\ DialogMade(View(c)) /\ Below(disk, View(c))
         /\ View(c).dialog \subseteq DialogColumns /\ View(c).rows \subseteq Clients
BY TypeParts, Views DEF IInv, Contents

\* ALTER adds a column to the dialog table.
LEMMA Widened ==
  ASSUME SqlAssumption, IInv, NEW c \in Conns, NEW column \in DialogColumns, View(c).dialog # {}
  PROVE  LET new == [View(c) EXCEPT !.dialog = @ \cup {column}]
         IN /\ View(c) \in Contents /\ new \in Contents /\ Below(View(c), new) /\ DialogMade(new)
            /\ SameTables(new, View(c)) /\ column \in new.dialog
<1> DEFINE v == View(c)
           new == [v EXCEPT !.dialog = @ \cup {column}]
<1>1. v \in Contents /\ DialogMade(v) /\ v.dialog # {}
  BY ViewFacts
<1> HIDE DEF v
<1>2. new \in Contents /\ new.dialog = v.dialog \cup {column}
  BY <1>1 DEF Contents
<1>3. Below(v, new) /\ SameTables(new, v)
  BY <1>1 DEF Contents, Below, SameTables
<1>4. DialogMade(new)
  BY <1>1, <1>2 DEF DialogMade
<1> QED BY <1>1, <1>2, <1>3, <1>4 DEF v

\* and making the dialog table,
LEMMA CreateDialogOK ==
  ASSUME SqlAssumption, IInv, NEW k \in Tasks, CreateDialog(k)
  PROVE  StepOK(k)
<1> DEFINE c == Head(work[k]).c
           new == IF View(c).dialog # {} THEN View(c) ELSE [View(c) EXCEPT !.dialog = Base]
<1>1. work[k] # <<>> /\ c \in Conns /\ Op(k, 1) = "create"
  BY HeadFacts, StepArgs DEF CreateDialog
<1>2. UNCHANGED <<open, used, db, known, code, excused, starts, local>>
  BY DEF CreateDialog, process, rest
<1>3. CASE c \in open /\ (View(c).dialog # {} \/ MayWrite(c))
  <2>1. Define(c, new) /\ Then(k, <<>>) /\ UNCHANGED <<phase, status>>
    BY <1>3 DEF CreateDialog, Done, quiet
  <2>2. /\ new \in Contents /\ Below(View(c), new) /\ DialogMade(new) /\ SameTables(new, View(c))
        /\ MayWrite(c) \/ new = View(c)
    <3>1. View(c) \in Contents /\ DialogMade(View(c))
      BY <1>1, ViewFacts
    <3>2. CASE View(c).dialog # {}
      <4>1. new = View(c)
        BY <3>2
      <4> QED BY <3>1, <4>1 DEF Below, SameTables
    <3>3. CASE View(c).dialog = {}
      <4>1. new = [View(c) EXCEPT !.dialog = Base]
        BY <3>3
      <4>2. new \in Contents
        BY <3>1, <4>1 DEF Contents, DialogColumns
      <4>3. Below(View(c), new) /\ DialogMade(new) /\ SameTables(new, View(c))
        BY <3>1, <3>3, <4>1 DEF Contents, Below, DialogMade, SameTables
      <4> QED BY <1>3, <3>3, <4>2, <4>3
    <3> QED BY <3>2, <3>3
  <2>3. Writes(c, new)
    BY <2>1, <2>2, <1>2, <1>3 DEF Writes
  <2> HIDE DEF c, new
  <2> QED BY <1>1, <1>2, <1>3, <2>1, <2>2, <2>3, NoSteps, WriteOK
<1>4. CASE ~(c \in open /\ (View(c).dialog # {} \/ MayWrite(c)))
  <2>1. Raise(k) /\ UNCHANGED <<disk, tx>>
    BY <1>4 DEF CreateDialog
  <2> QED BY <1>2, <2>1, FailedOK, Typed
<1> QED BY <1>3, <1>4

\* and making the table of versions,
LEMMA CreateVersionsOK ==
  ASSUME SqlAssumption, IInv, NEW k \in Tasks, CreateVersions(k)
  PROVE  StepOK(k)
<1> DEFINE c == Head(work[k]).c
           new == [View(c) EXCEPT !.versions = TRUE]
<1>1. work[k] # <<>> /\ c \in Conns /\ Op(k, 1) = "versions"
  BY HeadFacts, StepArgs DEF CreateVersions
<1>2. UNCHANGED <<open, used, db, known, code, excused, starts, local>>
  BY DEF CreateVersions, process, rest
<1>3. CASE c \in open /\ (View(c).versions \/ MayWrite(c))
  <2>1. Define(c, new) /\ Then(k, <<>>) /\ UNCHANGED <<phase, status>>
    BY <1>3 DEF CreateVersions, Done, quiet
  <2>2. /\ new \in Contents /\ Below(View(c), new) /\ DialogMade(new) /\ SameTables(new, View(c))
    BY <1>1, <1>3, ViewFacts DEF Contents, Below, DialogMade, SameTables, DialogColumns
  <2>3. MayWrite(c) \/ new = View(c)
    BY <1>1, <1>3, ViewFacts DEF Contents
  <2>4. Writes(c, new)
    BY <2>1, <2>2, <2>3, <1>2, <1>3 DEF Writes
  <2> HIDE DEF c, new
  <2> QED BY <1>1, <1>2, <1>3, <2>1, <2>2, <2>4, NoSteps, WriteOK
<1>4. CASE ~(c \in open /\ (View(c).versions \/ MayWrite(c)))
  <2>1. Raise(k) /\ UNCHANGED <<disk, tx>>
    BY <1>4 DEF CreateVersions
  <2> QED BY <1>2, <2>1, FailedOK, Typed
<1> QED BY <1>3, <1>4

\* and reading the columns,
LEMMA ReadKnownOK ==
  ASSUME SqlAssumption, IInv, NEW k \in Tasks, ReadKnown(k)
  PROVE  StepOK(k)
<1>1. work[k] # <<>> /\ Head(work[k]).c \in Conns
  BY HeadFacts, StepArgs DEF ReadKnown
<1>2. known' \subseteq DialogColumns
  BY <1>1, ViewFacts, Typed DEF ReadKnown
<1>3. UNCHANGED <<disk, tx, open, used, db, local, code, excused, starts>>
  BY DEF ReadKnown, rest
<1>4. CASE Raise(k)
  BY <1>2, <1>3, <1>4, FailedOK
<1>5. CASE Done(k) /\ UNCHANGED <<phase, status>>
  <2>1. StoreMove(k)
    BY <1>3 DEF StoreMove
  <2> QED BY <1>1, <1>2, <1>3, <1>5, <2>1, RestDone, Typed, StepOKs
<1> QED BY <1>4, <1>5 DEF ReadKnown, quiet

\* and a commit,
LEMMA CommitOK ==
  ASSUME SqlAssumption, IInv, NEW k \in Tasks, Commit(k)
  PROVE  StepOK(k)
<1>1. work[k] # <<>>
  BY HeadFacts DEF Commit
<1>2. UNCHANGED <<open, used, db, known, code, excused, starts, local>>
  BY DEF Commit, process, rest
<1>3. CASE Raise(k) /\ UNCHANGED <<disk, tx>>
  BY <1>2, <1>3, FailedOK, Typed
<1>4. CASE Head(work[k]).c \in open /\ Committed(Head(work[k]).c) /\ Done(k) /\ UNCHANGED <<phase, status>>
  <2>1. StoreMove(k)
    BY <1>2, <1>4 DEF StoreMove, Commit
  <2> QED BY <1>1, <1>2, <1>4, <2>1, RestDone, Typed, StepOKs
<1> QED BY <1>3, <1>4 DEF Commit, quiet

\* and _migrate_columns(),
LEMMA MigrateOK ==
  ASSUME SqlAssumption, IInv, NEW k \in Tasks, Migrate(k)
  PROVE  StepOK(k) /\ Then(k, AlterSteps(db, Head(work[k]).arg))
<1> DEFINE S == Head(work[k]).arg
           s == AlterSteps(db, S)
<1>1. work[k] # <<>> /\ S \in SUBSET DialogColumns /\ Op(k, 1) = "migrate"
  BY HeadFacts, StepArgs DEF Migrate
<1>2. UNCHANGED <<disk, tx, open, used, db, known, code, excused, starts, local, phase, status>>
  BY DEF Migrate, process, rest, quiet
<1>3. db \in Conns \cup {NoConn}
  BY Typed, HeadFacts DEF Migrate
<1>4. s \in Seq(Steps) /\ \A i \in DOMAIN s : s[i].c = db /\ s[i].op = "alter"
  <2> HIDE DEF S
  <2>1. /\ AlterSteps(db, S) \in Seq(Steps)
        /\ \A i \in DOMAIN AlterSteps(db, S) : AlterSteps(db, S)[i].op = "alter" /\ AlterSteps(db, S)[i].c = db
    <3>1. S \in SUBSET DialogColumns
      BY <1>1
    <3>2. AlterSteps(db, S) \in Seq(Steps)
      BY <1>3, <3>1, Alters
    <3>3. \A i \in DOMAIN AlterSteps(db, S) : AlterSteps(db, S)[i].op = "alter"
      BY <1>3, <3>1, Alters
    <3>4. \A i \in DOMAIN AlterSteps(db, S) : AlterSteps(db, S)[i].c = db
      BY <1>3, <3>1, Alters
    <3> QED BY <3>2, <3>3, <3>4
  <2> QED BY <2>1
<1>5. Then(k, s)
  BY DEF Migrate, AlterSteps
<1> HIDE DEF s, S
<1>6. Issued(s, used') /\ Calling(k, s)
  BY <1>1, <1>2, <1>4, Typed DEF Issued, Calling, Called
<1>7. StoreMove(k)
  BY <1>2 DEF StoreMove
<1>8. StepOK(k)
  BY <1>1, <1>2, <1>4, <1>5, <1>6, <1>7, RestThen, Typed, StepOKs
<1> QED BY <1>5, <1>8 DEF s, S

\* A step that gives way to another of the same connection.
LEMMA OneStep ==
  ASSUME SqlAssumption, IInv, NEW k \in Tasks, NEW h \in {"alter", "altered"}, Is(k, h),
         NEW op \in {"altered", "recheck"}
  PROVE  LET s == <<[op |-> op, c |-> Head(work[k]).c, arg |-> Head(work[k]).arg]>>
         IN s \in Seq(Steps) /\ Issued(s, used) /\ (h = "alter" \/ op = "recheck" => Calling(k, s))
<1> DEFINE x == [op |-> op, c |-> Head(work[k]).c, arg |-> Head(work[k]).arg]
<1>1. /\ Head(work[k]).c \in Conns \cup {NoConn} /\ Head(work[k]).arg \in DialogColumns
      /\ Head(work[k]).c \in (1..used) \cup {NoConn} /\ Op(k, 1) = h
  BY HeadFacts, StepArgs
<1>2. x \in Steps
  BY <1>1, StepTypes
<1>3. h = "alter" \/ op = "recheck" => Calling(k, <<x>>)
  BY <1>1 DEF Calling, Called
<1> QED BY <1>1, <1>2, <1>3 DEF Issued

\* and an ALTER of the dialog table,
LEMMA AlterDialogOK ==
  ASSUME SqlAssumption, IInv, NEW k \in Tasks, AlterDialog(k)
  PROVE  StepOK(k)
<1> DEFINE c == Head(work[k]).c
           column == Head(work[k]).arg
           new == [View(c) EXCEPT !.dialog = @ \cup {column}]
           may == c \in open /\ MayWrite(c) /\ View(c).dialog # {} /\ column \notin View(c).dialog
           next(op) == <<[op |-> op, c |-> c, arg |-> column]>>
<1>1. work[k] # <<>> /\ column \in DialogColumns /\ Op(k, 1) = "alter"
  BY HeadFacts, StepArgs DEF AlterDialog
<1>2. UNCHANGED <<open, used, db, known, code, excused, starts, local, phase, status>>
  BY DEF AlterDialog, process, rest, quiet
<1>3. \A op \in {"altered", "recheck"} :
        next(op) \in Seq(Steps) /\ Issued(next(op), used') /\ Calling(k, next(op))
  BY <1>2, OneStep DEF AlterDialog
<1>4. CASE column \in known
  <2>1. UNCHANGED <<disk, tx>> /\ Done(k)
    BY <1>4 DEF AlterDialog
  <2>2. StoreMove(k)
    BY <1>2, <2>1 DEF StoreMove
  <2> QED BY <1>1, <1>2, <2>1, <2>2, RestDone, Typed, StepOKs
<1>5. CASE column \notin known /\ may
  <2>1. Define(c, new) /\ Then(k, next("altered"))
    BY <1>5 DEF AlterDialog
  <2>2. c \in Conns
    BY <1>5, TypeParts DEF IInv, StoreOK
  <2>3. new \in Contents /\ Below(View(c), new) /\ DialogMade(new) /\ SameTables(new, View(c))
    BY <1>1, <1>5, <2>2, Widened
  <2>4. Writes(c, new)
    BY <2>1, <2>3, <1>2, <1>5 DEF Writes
  <2>5. next("altered") \in Seq(Steps) /\ Issued(next("altered"), used') /\ Calling(k, next("altered"))
    BY <1>3
  <2> HIDE DEF c, new, next
  <2> QED BY <1>1, <1>2, <1>5, <2>1, <2>3, <2>4, <2>5, WriteOK
<1>6. CASE column \notin known /\ ~may
  <2>1. UNCHANGED <<disk, tx>> /\ Then(k, next("recheck"))
    BY <1>6 DEF AlterDialog
  <2>2. StoreMove(k)
    BY <1>2, <2>1 DEF StoreMove
  <2>3. next("recheck") \in Seq(Steps) /\ Issued(next("recheck"), used') /\ Calling(k, next("recheck"))
    BY <1>3
  <2> HIDE DEF c, column, next
  <2> QED BY <1>1, <1>2, <2>1, <2>2, <2>3, RestThen, Typed, StepOKs
<1> QED BY <1>4, <1>5, <1>6

\* and its commit,
LEMMA AlteredOK ==
  ASSUME SqlAssumption, IInv, NEW k \in Tasks, Altered(k)
  PROVE  StepOK(k)
<1> DEFINE c == Head(work[k]).c
           column == Head(work[k]).arg
           s == <<[op |-> "recheck", c |-> c, arg |-> column]>>
<1>1. work[k] # <<>> /\ column \in DialogColumns
  BY HeadFacts, StepArgs DEF Altered
<1>2. UNCHANGED <<open, used, db, code, excused, starts, local, phase, status>>
  BY DEF Altered, rest, quiet
<1>3. CASE c \in open
  <2>1. Committed(c) /\ known' = known \cup {column} /\ Done(k)
    BY <1>3 DEF Altered
  <2>2. known' \subseteq DialogColumns
    BY <1>1, <2>1, Typed
  <2>3. StoreMove(k)
    BY <1>2, <1>3, <2>1 DEF StoreMove, Altered
  <2> HIDE DEF c, column
  <2> QED BY <1>1, <1>2, <2>1, <2>2, <2>3, RestDone, Typed, StepOKs
<1>4. CASE c \notin open
  <2>1. Then(k, s) /\ UNCHANGED <<disk, tx, known>>
    BY <1>4 DEF Altered
  <2>2. s \in Seq(Steps) /\ Issued(s, used') /\ Calling(k, s)
    BY <1>2, OneStep DEF Altered
  <2>3. StoreMove(k)
    BY <1>2, <2>1 DEF StoreMove
  <2> HIDE DEF c, column, s
  <2> QED BY <1>1, <1>2, <2>1, <2>2, <2>3, RestThen, Typed, StepOKs
<1> QED BY <1>3, <1>4

\* and the look at the columns after it failed,
LEMMA RecheckOK ==
  ASSUME SqlAssumption, IInv, NEW k \in Tasks, Recheck(k)
  PROVE  StepOK(k)
<1> DEFINE c == Head(work[k]).c
<1>1. work[k] # <<>>
  BY HeadFacts DEF Recheck
<1>2. UNCHANGED <<disk, tx, open, used, db, local, code, excused, starts>>
  BY DEF Recheck, rest
<1>3. known' \subseteq DialogColumns
  <2>1. CASE c \in open
    <3>1. c \in Conns /\ known' = View(c).dialog
      BY <2>1, TypeParts DEF Recheck, IInv, StoreOK
    <3> QED BY <3>1, ViewFacts
  <2>2. CASE c \notin open
    BY <2>2, Typed DEF Recheck
  <2> QED BY <2>1, <2>2
<1>4. CASE Raise(k)
  BY <1>2, <1>3, <1>4, FailedOK
<1>5. CASE Done(k) /\ UNCHANGED <<phase, status>>
  <2>1. StoreMove(k)
    BY <1>2 DEF StoreMove
  <2> QED BY <1>1, <1>2, <1>3, <1>5, <2>1, RestDone, Typed, StepOKs
<1> QED BY <1>4, <1>5 DEF Recheck, quiet

\* and an INSERT,
LEMMA InsertOK ==
  ASSUME SqlAssumption, IInv, NEW k \in Tasks, Insert(k)
  PROVE  StepOK(k)
<1> DEFINE c == local[k]
           new == [View(c) EXCEPT !.rows = @ \cup {k}]
           s == <<On("commit", c), Step("return")>>
<1>1. work[k] # <<>> /\ Op(k, 1) = "insert"
  BY HeadFacts DEF Insert
<1>2. UNCHANGED <<open, used, db, known, code, excused, starts, local>>
  BY DEF Insert, process, rest
<1>3. CASE Raise(k) /\ UNCHANGED <<disk, tx>>
  BY <1>2, <1>3, FailedOK, Typed
<1>4. CASE /\ c \in open /\ MayWrite(c)
           /\ Modify(c, new) /\ Then(k, s) /\ UNCHANGED <<phase, status>>
  <2>1. c \in Conns /\ c \in 1..used
    BY <1>4, TypeParts, Typed DEF IInv, StoreOK
  <2>2. k \in Clients
    <3>1. CASE k = Agent
      <4>1. Is(Agent, "insert") /\ work[Agent] \in Seq(Steps)
        BY <3>1 DEF Insert, IInv, TypeOK, WorkOK
      <4>2. Op(Agent, 1) = "insert" /\ Len(work[Agent]) \in Nat \ {0}
        BY <4>1, <1>1, <3>1, HeadFacts
      <4>3. phase \in {"starting", "refreshing"} => FALSE
        <5>1. phase \in {"starting", "refreshing"} =>
                /\ work[Agent][Len(work[Agent])].op = "ready"
                /\ \A i \in 1..(Len(work[Agent]) - 1) : Op(Agent, i) \in StartSteps
          BY DEF IInv, AgentSteps, Step
        <5> QED BY <4>2, <5>1 DEF StartSteps, Op
      <4>4. phase = "stopping" => FALSE
        BY <4>2 DEF IInv, AgentSteps, Step, Op
      <4>5. phase \in {"down", "up", "stale"} => FALSE
        BY <1>1, <3>1 DEF IInv, AgentSteps
      <4> QED BY <4>3, <4>4, <4>5, Typed
    <3> QED BY <3>1 DEF Tasks
  <2>3. new \in Contents /\ Below(View(c), new) /\ DialogMade(new) /\ SameTables(new, View(c))
    BY <2>1, <2>2, ViewFacts DEF Contents, Below, DialogMade, SameTables
  <2>4. Writes(c, new)
    BY <2>3, <1>2, <1>4 DEF Writes
  <2>5. s \in Seq(Steps)
    BY <2>1, StepTypes
  <2>6. Issued(s, used') /\ Calling(k, s)
    BY <1>1, <1>2, <2>1 DEF Issued, Calling, Called, On, Step
  <2> HIDE DEF c, new, s
  <2> QED BY <1>1, <1>2, <1>4, <2>3, <2>4, <2>5, <2>6, WriteOK
<1> QED BY <1>3, <1>4 DEF Insert, quiet

\* and a SELECT,
LEMMA FetchOK ==
  ASSUME SqlAssumption, IInv, NEW k \in Clients, Fetch(k)
  PROVE  StepOK(k)
<1>1. work[k] # <<>> /\ k \in Tasks
  BY HeadFacts DEF Fetch, Tasks
<1>2. UNCHANGED <<disk, tx, open, used, db, known, code, excused, starts, local>>
  BY DEF Fetch, process, rest
<1>3. CASE Raise(k)
  BY <1>1, <1>2, <1>3, FailedOK, Typed
<1>4. CASE status' = [status EXCEPT ![k] = "read"] /\ Done(k) /\ UNCHANGED phase
  <2>1. StoreMove(k)
    BY <1>2 DEF StoreMove
  <2>2. status' \in [Clients -> {"new", "running", "saved", "read", "failed", "split", "cancelled"}]
    BY <1>4, Typed
  <2> QED BY <1>1, <1>2, <1>4, <2>1, <2>2, RestDone, Typed, StepOKs
<1> QED BY <1>3, <1>4 DEF Fetch

\* and a return.
LEMMA ReturnOK ==
  ASSUME SqlAssumption, IInv, NEW k \in Clients, Return(k)
  PROVE  StepOK(k)
<1>1. work[k] # <<>> /\ k \in Tasks
  BY HeadFacts DEF Return, Tasks
<1>2. UNCHANGED <<disk, tx, open, used, db, known, code, excused, starts, local, phase>>
  BY DEF Return, process, rest
<1>3. StoreMove(k)
  BY <1>2 DEF StoreMove
<1>4. status' \in [Clients -> {"new", "running", "saved", "read", "failed", "split", "cancelled"}]
  BY Typed DEF Return
<1> QED BY <1>1, <1>2, <1>3, <1>4, RestDone, Typed, StepOKs DEF Return

-----------------------------------------------------------------------------
(* The steps of ensure_table()                                             *)

\* Only an agent that starts or is refreshed takes one, and then nothing that it
\* has written is left to commit.
LEMMA TableSteps ==
  ASSUME SqlAssumption, IInv, NEW k \in Tasks, work[k] # <<>>,
         Op(k, 1) \in TableOps \cup {"columns"}
  PROVE  /\ k = Agent /\ phase \in {"starting", "refreshing"} /\ db \in open /\ db # NoConn
         /\ ~Committing /\ Now = disk /\ \A c \in Conns : SameTables(View(c), disk)
<1>1. work[k] \in Seq(Steps) /\ 1 \in DOMAIN work[k]
  BY DEF IInv, TypeOK, WorkOK
<1>2. k = Agent
  BY <1>1 DEF IInv, ClientSteps, ClientOps, TableOps, Tasks
<1>3. phase \in {"starting", "refreshing"}
  <2>1. phase = "stopping" => Op(Agent, 1) \in {"close", "clear"}
    BY DEF IInv, AgentSteps, Step, Op
  <2>2. phase \in {"down", "up", "stale"} => work[Agent] = <<>>
    BY DEF IInv, AgentSteps
  <2> QED BY <1>2, <2>1, <2>2, Typed DEF TableOps
<1>4. ~Is(Agent, "commit") /\ ~Is(Agent, "clear")
  BY <1>1, <1>2 DEF Is, Op, TableOps
<1>5. db # NoConn /\ db \in open
  BY <1>2, <1>3, <1>4 DEF IInv, Connected, TableOps
<1>6. \A c \in Conns : SameTables(View(c), disk)
  BY <1>4 DEF IInv, TablesAreAgents, Committing, View, SameTables
<1> QED BY <1>2, <1>3, <1>4, <1>5, <1>6 DEF Committing, Now

\* What is left for a table, by the step that is next.
LEMMA Turns ==
  ASSUME SqlAssumption, IInv, NEW t \in Tables, NEW i \in DOMAIN work[Agent], Ensuring(t, i)
  PROVE  LET w == work[Agent]
             commit == On("commit", local[Agent])
             n == i - 3
         IN /\ w # <<>> /\ Len(w) \in Nat /\ i \in Nat \ {0} /\ i + 1 < Len(w)
            /\ local[Agent] \in Conns
            /\ Op(Agent, 1) \in TableOps \cup {"commit"}
            /\ Op(Agent, 1) \in TableOps => TableOf(w[1]) = t
            /\ Op(Agent, 1) = "table" =>
                 i = 5 /\ w[1] = At("table", t) /\ w[2] = commit /\ w[3] = At("record", t)
                 /\ w[4] = commit /\ Now.cols[t] = {}
            /\ Op(Agent, 1) = "record" =>
                 i = 3 /\ w[1] = At("record", t) /\ w[2] = commit /\ 1..code[t] \subseteq Now.cols[t]
            /\ Op(Agent, 1) = "index" =>
                 /\ i = 1 /\ w[1] = At("index", t)
                 /\ Version1(Now.rec[t]) = code[t] /\ 1..code[t] \subseteq Now.cols[t]
            /\ Op(Agent, 1) = "version" =>
                 i = 2 /\ w[1] = At("version", t) /\ Now.cols[t] # {}
            /\ Op(Agent, 1) = "column" =>
                 /\ i >= 4 /\ n < code[t] /\ w[1] = At("column", <<t, code[t] - n + 1>>)
                 /\ w[i - 2] = At("record", t) /\ w[i - 1] = commit
                 /\ Migrating(w, t, code[t], 1, n) /\ 1..(code[t] - n) \subseteq Now.cols[t]
            /\ Op(Agent, 1) = "commit" =>
                 \/ i = 2 /\ Version1(Now.rec[t]) = code[t] /\ 1..code[t] \subseteq Now.cols[t]
                 \/ /\ i >= 4 /\ n <= code[t] /\ w[i - 2] = At("record", t) /\ w[i - 1] = commit
                    /\ Migrating(w, t, code[t], 2, n) /\ 1..(code[t] - n + 1) \subseteq Now.cols[t]
<1> DEFINE w == work[Agent]
           commit == On("commit", local[Agent])
           n == i - 3
<1>1. w \in Seq(Steps) /\ w # <<>> /\ Len(w) \in Nat /\ i \in Nat \ {0} /\ Agent \in Tasks
      /\ code[t] \in Nat
  BY DEF IInv, TypeOK, WorkOK, Tasks
<1>2. /\ i + 1 < Len(w) /\ w[i] = At("index", t) /\ w[i + 1] = commit /\ local[Agent] \in Conns
  BY DEF Ensuring, Left
<1>3. CASE i = 1 /\ Version1(Now.rec[t]) = code[t] /\ 1..code[t] \subseteq Now.cols[t]
  BY <1>1, <1>2, <1>3 DEF Op, At, TableOps, TableOf
<1>4. CASE i = 2 /\ w[1].op = "commit" /\ Version1(Now.rec[t]) = code[t] /\ 1..code[t] \subseteq Now.cols[t]
  BY <1>1, <1>2, <1>4 DEF Op, At, TableOps, TableOf
<1>5. CASE i = 2 /\ w[1] = At("version", t) /\ Now.cols[t] # {}
  BY <1>1, <1>2, <1>5 DEF Op, At, TableOps, TableOf
<1>6. CASE /\ i = 5 /\ w[1] = At("table", t) /\ w[2] = commit /\ Now.cols[t] = {}
           /\ w[i - 2] = At("record", t) /\ w[i - 1] = commit
  BY <1>1, <1>2, <1>6 DEF Op, At, TableOps, TableOf
<1>7. CASE /\ i >= 3 /\ n < code[t] /\ Migrating(w, t, code[t], 1, n) /\ 1..(code[t] - n) \subseteq Now.cols[t]
           /\ w[i - 2] = At("record", t) /\ w[i - 1] = commit
  <2>1. CASE i = 3
    <3>1. w[1] = At("record", t) /\ w[2] = commit /\ n = 0
      BY <1>7, <2>1
    <3> QED BY <1>1, <1>2, <1>7, <2>1, <3>1 DEF Op, At, TableOps, TableOf
  <2>2. CASE i >= 4
    <3>1. w[1] = At("column", <<t, code[t] - n + 1>>)
      <4>1. n \in Nat /\ 1 \in 1..n
        BY <1>1, <2>2
      <4> HIDE DEF n
      <4> QED BY <1>7, <4>1 DEF Migrating
    <3>2. Op(Agent, 1) = "column" /\ TableOf(w[1]) = t
      BY <3>1 DEF Op, At, TableOf
    <3> QED BY <1>1, <1>2, <1>7, <2>2, <3>1, <3>2 DEF TableOps
  <2>3. i = 3 \/ i >= 4
    BY <1>1, <1>7
  <2> QED BY <2>1, <2>2, <2>3
<1>8. CASE /\ i >= 4 /\ n <= code[t] /\ w[1].op = "commit" /\ Migrating(w, t, code[t], 2, n)
           /\ 1..(code[t] - n + 1) \subseteq Now.cols[t]
           /\ w[i - 2] = At("record", t) /\ w[i - 1] = commit
  BY <1>1, <1>2, <1>8 DEF Op, TableOps
<1> QED BY <1>3, <1>4, <1>5, <1>6, <1>7, <1>8 DEF Ensuring, Left

\* A step that writes a table belongs to a table in turn.
LEMMA TurnOf ==
  ASSUME SqlAssumption, IInv, NEW k \in Tasks, work[k] # <<>>, Op(k, 1) \in TableOps
  PROVE  /\ TableOf(work[Agent][1]) \in Tables
         /\ \E i \in DOMAIN work[Agent] : Ensuring(TableOf(work[Agent][1]), i)
<1>1. k = Agent
  BY TableSteps
<1>2. 1 \in DOMAIN work[Agent] /\ work[Agent][1] \in Steps
  BY <1>1 DEF IInv, TypeOK, WorkOK, Tasks
<1>3. TableOf(work[Agent][1]) \in Tables
  BY <1>1, <1>2, StepArgs DEF TableOf, TableOps, Op
<1>4. InTurn(TableOf(work[Agent][1]))
  BY <1>1, <1>2 DEF IInv, Tabled
<1> QED BY <1>3, <1>4 DEF InTurn

\* ensure_table() keeps types and contents,
LEMMA ColumnsOK ==
  ASSUME SqlAssumption, IInv, NEW k \in Tasks, Columns(k)
  PROVE  StepOK(k)
<1> DEFINE t == Head(work[k]).arg
           c == local[k]
           s == IF View(c).cols[t] = {}
                THEN <<At("table", t), On("commit", c), At("record", t),
                       On("commit", c), At("index", t), On("commit", c)>>
                ELSE <<At("version", t), At("index", t), On("commit", c)>>
<1>1. work[k] # <<>> /\ t \in Tables /\ Op(k, 1) = "columns"
  BY HeadFacts, StepArgs DEF Columns
<1>2. UNCHANGED <<disk, tx, open, used, db, known, code, excused, starts, local>>
  BY DEF Columns, process, rest
<1>3. CASE c \notin open
  BY <1>2, <1>3, FailedOK, Typed DEF Columns
<1>4. CASE c \in open
  <2>1. Then(k, s) /\ UNCHANGED <<phase, status>>
    BY <1>4 DEF Columns, quiet
  <2>2. c \in Conns /\ c \in 1..used
    BY <1>4, TypeParts, Typed DEF IInv, StoreOK
  <2>3. s \in Seq(Steps)
    BY <1>1, <2>2, StepTypes
  <2>4. Issued(s, used') /\ Calling(k, s)
    <3>1. DOMAIN s \subseteq 1..6 /\ \A i \in DOMAIN s : s[i].c \in {c, NoConn}
      BY DEF On, At
    <3>2. \A i \in DOMAIN s : s[i].op \in {"table", "commit", "record", "index", "version"}
      BY DEF On, At
    <3> HIDE DEF s
    <3> QED BY <1>1, <1>2, <2>2, <3>1, <3>2 DEF Issued, Calling, Called
  <2>5. StoreMove(k)
    BY <1>2 DEF StoreMove
  <2> HIDE DEF c, s, t
  <2> QED BY <1>1, <1>2, <2>1, <2>3, <2>4, <2>5, RestThen, Typed, StepOKs
<1> QED BY <1>3, <1>4

\* The table is written with the columns of the declared version.
LEMMA CreateTableCases ==
  ASSUME SqlAssumption, IInv, NEW k \in Tasks, CreateTable(k)
  PROVE  LET t == Head(work[k]).arg
             c == local[k]
         IN \/ Raise(k) /\ UNCHANGED <<disk, tx>>
            \/ /\ Done(k) /\ UNCHANGED <<phase, status>> /\ c \in open
               /\ \E new \in Contents :
                    /\ Writes(c, new)
                    /\ new.cols[t] = 1..code[t] /\ \A r \in Tables : r # t => new.cols[r] = disk.cols[r]
                    /\ new.rec = disk.rec /\ new.indexed = disk.indexed
<1> DEFINE t == Head(work[k]).arg
           c == local[k]
           new == [View(c) EXCEPT !.cols[t] = 1..code[t]]
<1>1. work[k] # <<>> /\ t \in Tables /\ Op(k, 1) = "table"
  BY HeadFacts, StepArgs DEF CreateTable
<1>3. CASE Raise(k) /\ UNCHANGED <<disk, tx>>
  BY <1>3
<1>4. CASE c \in open /\ MayWrite(c) /\ Define(c, new) /\ Done(k) /\ UNCHANGED <<phase, status>>
  <2>1. c \in Conns
    BY <1>4, TypeParts DEF IInv, StoreOK
  <2>2. k = Agent /\ Now = disk /\ SameTables(View(c), disk)
    BY <1>1, <2>1, TableSteps DEF TableOps
  <2>3. View(c).cols[t] = {}
    <3>1. PICK i \in DOMAIN work[Agent] : Ensuring(TableOf(work[Agent][1]), i)
      BY <1>1, TurnOf DEF TableOps
    <3>2. TableOf(work[Agent][1]) = t
      BY <1>1, <2>2, HeadFacts DEF TableOf, CreateTable
    <3>3. Now.cols[t] = {}
      <4> HIDE DEF t
      <4> QED BY <1>1, <2>2, <3>1, <3>2, Turns
    <3> QED BY <2>2, <3>3 DEF SameTables
  <2>4. View(c) \in Contents /\ DialogMade(View(c)) /\ 1..code[t] \in SUBSET Nat
    BY <1>1, <2>1, ViewFacts DEF IInv, TypeOK
  <2>5. new \in Contents
    BY <1>1, <2>4 DEF Contents
  <2>6. Below(View(c), new) /\ DialogMade(new)
    BY <1>1, <2>3, <2>4 DEF Below, Contents, DialogMade
  <2>7. /\ new.cols[t] = 1..code[t] /\ \A r \in Tables : r # t => new.cols[r] = disk.cols[r]
        /\ new.rec = disk.rec /\ new.indexed = disk.indexed
    BY <1>1, <2>2, <2>4 DEF Contents, SameTables
  <2>8. open' = open
    BY DEF CreateTable, process
  <2>9. Writes(c, new)
    BY <2>5, <2>6, <2>8, <1>4 DEF Writes
  <2> HIDE DEF new
  <2> QED BY <1>4, <2>5, <2>7, <2>9
<1> QED BY <1>3, <1>4 DEF CreateTable, quiet

\* and the CREATE of its table,
LEMMA CreateTableOK ==
  ASSUME SqlAssumption, IInv, NEW k \in Tasks, CreateTable(k)
  PROVE  StepOK(k)
<1> DEFINE c == local[k]
<1>1. work[k] # <<>> /\ Op(k, 1) = "table"
  BY HeadFacts DEF CreateTable
<1>2. UNCHANGED <<open, used, db, known, code, excused, starts, local>>
  BY DEF CreateTable, process, rest
<1>3. CASE Raise(k) /\ UNCHANGED <<disk, tx>>
  BY <1>2, <1>3, FailedOK, Typed
<1>4. CASE Done(k) /\ UNCHANGED <<phase, status>> /\ c \in open /\ \E new \in Contents : Writes(c, new)
  <2> PICK new \in Contents : Writes(c, new)
    BY <1>4
  <2>1. Then(k, <<>>)
    BY <1>4 DEF Done
  <2> HIDE DEF c
  <2> QED BY <1>1, <1>2, <1>4, <2>1, NoSteps, WriteOK DEF TableOps
<1> QED BY <1>3, <1>4, CreateTableCases

\* ... which is recorded.
LEMMA RecordCases ==
  ASSUME SqlAssumption, IInv, NEW k \in Tasks, Record(k)
  PROVE  LET t == Head(work[k]).arg
             c == local[k]
         IN \/ Raise(k) /\ UNCHANGED <<disk, tx>>
            \/ /\ Done(k) /\ UNCHANGED <<phase, status>> /\ c \in open
               /\ \E new \in Contents :
                    /\ Writes(c, new)
                    /\ new.rec[t] = code[t] /\ \A r \in Tables : r # t => new.rec[r] = disk.rec[r]
                    /\ new.cols = disk.cols /\ new.indexed = disk.indexed
<1> DEFINE t == Head(work[k]).arg
           c == local[k]
           new == [View(c) EXCEPT !.rec[t] = code[t]]
<1>1. work[k] # <<>> /\ t \in Tables /\ Op(k, 1) = "record"
  BY HeadFacts, StepArgs DEF Record
<1>3. CASE Raise(k) /\ UNCHANGED <<disk, tx>>
  BY <1>3
<1>4. CASE c \in open /\ MayWrite(c) /\ Modify(c, new) /\ Done(k) /\ UNCHANGED <<phase, status>>
  <2>1. c \in Conns /\ code[t] \in Nat
    <3>1. c \in Conns
      BY <1>4, TypeParts DEF IInv, StoreOK
    <3>2. code[t] \in Nat
      BY <1>1 DEF IInv, TypeOK
    <3> QED BY <3>1, <3>2
  <2>2. SameTables(View(c), disk)
    BY <1>1, <2>1, TableSteps DEF TableOps
  <2>3. View(c) \in Contents
    BY <2>1, ViewFacts
  <2>4. new \in Contents /\ Below(View(c), new) /\ DialogMade(new)
    BY <1>1, <2>1, ViewFacts DEF Contents, Below, DialogMade
  <2>5. /\ new.rec[t] = code[t] /\ \A r \in Tables : r # t => new.rec[r] = disk.rec[r]
        /\ new.cols = disk.cols /\ new.indexed = disk.indexed
    BY <1>1, <2>1, <2>2, <2>3 DEF Contents, SameTables
  <2>6. open' = open
    BY DEF Record, process
  <2>7. Writes(c, new)
    BY <2>4, <2>6, <1>4 DEF Writes
  <2> HIDE DEF new
  <2> QED BY <1>4, <2>4, <2>5, <2>7
<1> QED BY <1>3, <1>4 DEF Record, quiet

\* and recording a version,
LEMMA RecordOK ==
  ASSUME SqlAssumption, IInv, NEW k \in Tasks, Record(k)
  PROVE  StepOK(k)
<1> DEFINE c == local[k]
<1>1. work[k] # <<>> /\ Op(k, 1) = "record"
  BY HeadFacts DEF Record
<1>2. UNCHANGED <<open, used, db, known, code, excused, starts, local>>
  BY DEF Record, process, rest
<1>3. CASE Raise(k) /\ UNCHANGED <<disk, tx>>
  BY <1>2, <1>3, FailedOK, Typed
<1>4. CASE Done(k) /\ UNCHANGED <<phase, status>> /\ c \in open /\ \E new \in Contents : Writes(c, new)
  <2> PICK new \in Contents : Writes(c, new)
    BY <1>4
  <2>1. Then(k, <<>>)
    BY <1>4 DEF Done
  <2> HIDE DEF c
  <2> QED BY <1>1, <1>2, <1>4, <2>1, NoSteps, WriteOK DEF TableOps
<1> QED BY <1>3, <1>4, RecordCases

\* The indexes of the table.
LEMMA IndexCases ==
  ASSUME SqlAssumption, IInv, NEW k \in Tasks, EnsureIndexes(k)
  PROVE  LET t == Head(work[k]).arg
             c == local[k]
         IN \/ Raise(k) /\ UNCHANGED <<disk, tx>>
            \/ /\ Done(k) /\ UNCHANGED <<phase, status>> /\ c \in open
               /\ \E new \in Contents :
                    /\ Writes(c, new)
                    /\ new.indexed = disk.indexed \cup {t} /\ new.cols = disk.cols /\ new.rec = disk.rec
<1> DEFINE t == Head(work[k]).arg
           c == local[k]
           new == [View(c) EXCEPT !.indexed = @ \cup {t}]
<1>1. work[k] # <<>> /\ t \in Tables /\ Op(k, 1) = "index"
  BY HeadFacts, StepArgs DEF EnsureIndexes
<1>3. CASE Raise(k) /\ UNCHANGED <<disk, tx>>
  BY <1>3
<1>4. CASE /\ c \in open /\ (t \in View(c).indexed \/ MayWrite(c))
           /\ Define(c, new) /\ Done(k) /\ UNCHANGED <<phase, status>>
  <2>1. c \in Conns
    BY <1>4, TypeParts DEF IInv, StoreOK
  <2>2. SameTables(View(c), disk) /\ View(c) \in Contents
    BY <1>1, <2>1, TableSteps, ViewFacts DEF TableOps
  <2>4. new \in Contents /\ Below(View(c), new) /\ DialogMade(new)
    <3>1. View(c) \in Contents /\ DialogMade(View(c))
      BY <2>1, ViewFacts
    <3>2. new \in Contents
      BY <1>1, <3>1 DEF Contents
    <3>3. Below(View(c), new) /\ DialogMade(new)
      BY <3>1 DEF Contents, Below, DialogMade
    <3> QED BY <3>2, <3>3
  <2>5. ASSUME t \in View(c).indexed PROVE new = View(c)
    <3>1. View(c).indexed \cup {t} = View(c).indexed
      BY <2>5
    <3> QED BY <3>1, <2>1, ViewFacts DEF Contents
  <2>6. open' = open
    BY DEF EnsureIndexes, process
  <2>7. Writes(c, new)
    BY <2>4, <2>5, <2>6, <1>4 DEF Writes
  <2>8. new.indexed = disk.indexed \cup {t} /\ new.cols = disk.cols /\ new.rec = disk.rec
    BY <2>2 DEF Contents, SameTables
  <2> HIDE DEF new
  <2> QED BY <1>4, <2>4, <2>7, <2>8
<1> QED BY <1>3, <1>4 DEF EnsureIndexes, quiet

\* and making indexes,
LEMMA EnsureIndexesOK ==
  ASSUME SqlAssumption, IInv, NEW k \in Tasks, EnsureIndexes(k)
  PROVE  StepOK(k)
<1> DEFINE c == local[k]
<1>1. work[k] # <<>> /\ Op(k, 1) = "index"
  BY HeadFacts DEF EnsureIndexes
<1>2. UNCHANGED <<open, used, db, known, code, excused, starts, local>>
  BY DEF EnsureIndexes, process, rest
<1>3. CASE Raise(k) /\ UNCHANGED <<disk, tx>>
  BY <1>2, <1>3, FailedOK, Typed
<1>4. CASE Done(k) /\ UNCHANGED <<phase, status>> /\ c \in open /\ \E new \in Contents : Writes(c, new)
  <2> PICK new \in Contents : Writes(c, new)
    BY <1>4
  <2>1. Then(k, <<>>)
    BY <1>4 DEF Done
  <2> HIDE DEF c
  <2> QED BY <1>1, <1>2, <1>4, <2>1, NoSteps, WriteOK DEF TableOps
<1> QED BY <1>3, <1>4, IndexCases

\* The recorded version of a table, and the columns it is about.
LEMMA RecordedFacts ==
  ASSUME SqlAssumption, IInv, NEW c \in Conns, NEW t \in Tables
  PROVE  Recorded(c, t) = Version1(View(c).rec[t]) /\ Recorded(c, t) \in Nat \ {0}
<1>1. View(c).rec[t] \in Nat
  BY ViewFacts DEF Contents
<1> QED BY <1>1 DEF Recorded, Version1

\* What is where in two sequences of steps, one after the other.
LEMMA Joining ==
  ASSUME NEW S, NEW a \in Seq(S), NEW b \in Seq(S)
  PROVE  /\ a \o b \in Seq(S) /\ Len(a \o b) = Len(a) + Len(b)
         /\ \A i \in 1..Len(a) : (a \o b)[i] = a[i]
         /\ \A i \in 1..Len(b) : (a \o b)[Len(a) + i] = b[i]
OBVIOUS

\* The steps of a migration: a column for every version that is missing.
LEMMA VersionSteps ==
  ASSUME SqlAssumption, IInv, NEW c \in Conns, NEW t \in Tables, Recorded(c, t) < code[t]
  PROVE  LET s == Migration(t, Recorded(c, t)) \o <<At("record", t), On("commit", c)>>
             m == code[t] - Recorded(c, t)
         IN /\ s \in Seq(Steps) /\ Len(s) = m + 2 /\ m \in Nat \ {0}
            /\ \A j \in 1..m : s[j] = At("column", <<t, code[t] - m + j>>)
            /\ s[m + 1] = At("record", t) /\ s[m + 2] = On("commit", c)
            /\ \A j \in DOMAIN s : s[j].c \in {c, NoConn} /\ s[j].op \in {"column", "record", "commit"}
<1> DEFINE m == code[t] - Recorded(c, t)
           a == Migration(t, Recorded(c, t))
           b == <<At("record", t), On("commit", c)>>
<1>1. Recorded(c, t) \in Nat \ {0} /\ code[t] \in Nat
  BY RecordedFacts DEF IInv, TypeOK
<1>2. m \in Nat \ {0} /\ Recorded(c, t) = code[t] - m
  BY <1>1
<1>3. a = [i \in 1..m |-> At("column", <<t, Recorded(c, t) + i>>)]
  BY DEF Migration, At
<1>4. b \in Seq(Steps) /\ Len(b) = 2 /\ b[1] = At("record", t) /\ b[2] = On("commit", c)
  BY StepTypes
<1>5. \A i \in 1..m : At("column", <<t, Recorded(c, t) + i>>) \in Steps
  BY <1>1, <1>2, StepTypes
<1> HIDE DEF m, a, b
<1>6. a \in [1..m -> Steps] /\ \A j \in 1..m : a[j] = At("column", <<t, code[t] - m + j>>)
  BY <1>2, <1>3, <1>5
<1>7. a \in Seq(Steps) /\ Len(a) = m
  BY <1>2, <1>6
<1> a \in Seq(Steps) /\ b \in Seq(Steps)
  BY <1>4, <1>7
<1>8. a \o b \in Seq(Steps) /\ Len(a \o b) = m + 2 /\ DOMAIN (a \o b) = 1..(m + 2)
  <2>1. a \o b \in Seq(Steps) /\ Len(a \o b) = Len(a) + Len(b)
    BY Joining
  <2> HIDE DEF a, b
  <2>2. Len(a \o b) = m + 2
    BY <1>4, <1>7, <2>1
  <2>3. DOMAIN (a \o b) = 1..(m + 2)
    BY <2>1, <2>2
  <2> QED BY <2>1, <2>2, <2>3
<1>9. \A j \in 1..m : (a \o b)[j] = At("column", <<t, code[t] - m + j>>)
  <2>1. \A j \in 1..Len(a) : (a \o b)[j] = a[j]
    BY Joining
  <2> QED BY <1>6, <1>7, <2>1
<1>10. (a \o b)[m + 1] = At("record", t) /\ (a \o b)[m + 2] = On("commit", c)
  <2>1. \A j \in 1..Len(b) : (a \o b)[Len(a) + j] = b[j]
    BY Joining
  <2>2. 1 \in 1..Len(b) /\ 2 \in 1..Len(b)
    BY <1>4
  <2>3. (a \o b)[Len(a) + 1] = b[1] /\ (a \o b)[Len(a) + 2] = b[2]
    BY <2>1, <2>2
  <2> QED BY <1>4, <1>7, <2>3
<1>11. ASSUME NEW j \in DOMAIN (a \o b)
       PROVE  (a \o b)[j].c \in {c, NoConn} /\ (a \o b)[j].op \in {"column", "record", "commit"}
  <2>1. j \in 1..m \/ j = m + 1 \/ j = m + 2
    BY <1>2, <1>8
  <2>2. CASE j \in 1..m
    <3>1. (a \o b)[j] = At("column", <<t, code[t] - m + j>>)
      BY <1>9, <2>2
    <3> QED BY <3>1 DEF At
  <2>3. CASE j = m + 1
    BY <1>10, <2>3 DEF At
  <2>4. CASE j = m + 2
    BY <1>10, <2>4 DEF On
  <2> QED BY <2>1, <2>2, <2>3, <2>4
<1> QED BY <1>2, <1>8, <1>9, <1>10, <1>11 DEF a, b, m

\* Comparing versions keeps types and contents,
LEMMA VersionOK ==
  ASSUME SqlAssumption, IInv, NEW k \in Tasks, Version(k)
  PROVE  StepOK(k)
<1> DEFINE t == Head(work[k]).arg
           c == local[k]
           s == IF Recorded(c, t) = code[t] THEN <<>>
                ELSE Migration(t, Recorded(c, t)) \o <<At("record", t), On("commit", c)>>
<1>1. work[k] # <<>> /\ t \in Tables /\ Op(k, 1) = "version"
  BY HeadFacts, StepArgs DEF Version
<1>2. UNCHANGED <<disk, tx, open, used, db, known, code, excused, starts, local>>
  BY DEF Version, process, rest
<1>3. CASE c \notin open \/ ~View(c).versions \/ Recorded(c, t) > code[t]
  BY <1>2, <1>3, FailedOK, Typed DEF Version
<1>4. CASE ~(c \notin open \/ ~View(c).versions \/ Recorded(c, t) > code[t])
  <2>1. Then(k, s) /\ UNCHANGED <<phase, status>>
    BY <1>4 DEF Version, quiet
  <2>2. c \in Conns /\ c \in 1..used /\ used \in Nat
    <3>1. c \in open /\ used \in 0..MaxConns
      BY <1>4 DEF IInv, TypeOK
    <3> QED BY <3>1, TypeParts, Typed DEF IInv, StoreOK, SqlAssumption
  <2>3. Recorded(c, t) <= code[t]
    BY <1>1, <1>4, <2>2, RecordedFacts DEF IInv, TypeOK
  <2>4. s \in Seq(Steps) /\ Issued(s, used) /\ Calling(k, s)
    <3>1. CASE Recorded(c, t) = code[t]
      BY <3>1, NoSteps DEF Issued
    <3>2. CASE Recorded(c, t) # code[t]
      <4> DEFINE v == Migration(t, Recorded(c, t)) \o <<At("record", t), On("commit", c)>>
      <4>1. Recorded(c, t) < code[t]
        BY <1>1, <2>2, <2>3, <3>2, RecordedFacts DEF IInv, TypeOK
      <4>2. /\ v \in Seq(Steps)
            /\ \A j \in DOMAIN v : v[j].c \in {c, NoConn} /\ v[j].op \in {"column", "record", "commit"}
        <5> HIDE DEF t, c
        <5> QED BY <1>1, <2>2, <4>1, VersionSteps
      <4>3. s = v
        BY <3>2
      <4> HIDE DEF s, v, t, c
      <4> QED BY <1>1, <2>2, <4>2, <4>3 DEF Issued, Calling, Called
    <3> QED BY <3>1, <3>2
  <2>5. StoreMove(k)
    BY <1>2 DEF StoreMove
  <2> HIDE DEF c, s, t
  <2> QED BY <1>1, <1>2, <2>1, <2>4, <2>5, RestThen, Typed, StepOKs
<1> QED BY <1>3, <1>4

\* A migration adds a column to what is committed of the table.
LEMMA AddColumnCases ==
  ASSUME SqlAssumption, IInv, NEW k \in Tasks, AddColumn(k)
  PROVE  LET t == Head(work[k]).arg[1]
             column == Head(work[k]).arg[2]
         IN \/ Raise(k) /\ UNCHANGED <<disk, tx>>
            \/ /\ Then(k, <<On("commit", db)>>) /\ UNCHANGED <<phase, status>> /\ db \in open
               /\ \E new \in Contents :
                    /\ Writes(db, new)
                    /\ new.cols[t] = disk.cols[t] \cup {column}
                    /\ \A r \in Tables : r # t => new.cols[r] = disk.cols[r]
                    /\ new.rec = disk.rec /\ new.indexed = disk.indexed
<1> DEFINE t == Head(work[k]).arg[1]
           column == Head(work[k]).arg[2]
           new == [View(db) EXCEPT !.cols[t] = @ \cup {column}]
<1>1. work[k] # <<>> /\ t \in Tables /\ column \in Nat /\ Op(k, 1) = "column"
  BY HeadFacts, StepArgs DEF AddColumn
<1>3. CASE Raise(k) /\ UNCHANGED <<disk, tx>>
  BY <1>3
<1>4. CASE db \in open /\ MayWrite(db) /\ Define(db, new) /\ Then(k, <<On("commit", db)>>) /\ UNCHANGED <<phase, status>>
  <2>1. db \in Conns
    BY <1>4, TypeParts DEF IInv, StoreOK
  <2>2. View(db) \in Contents /\ DialogMade(View(db)) /\ SameTables(View(db), disk)
    BY <1>1, <2>1, TableSteps, ViewFacts DEF TableOps
  <2>3. View(db).cols[t] \cup {column} \in SUBSET Nat
    BY <1>1, <2>2 DEF Contents
  <2>4. open' = open
    BY DEF AddColumn, process
  <2> HIDE DEF t, column
  <2>5. new \in Contents
    BY <1>1, <2>2, <2>3 DEF Contents
  <2>6. Below(View(db), new)
    BY <1>1, <2>2 DEF Below, Contents
  <2>7. DialogMade(new)
    BY <2>2 DEF DialogMade, Contents
  <2>8. Writes(db, new)
    BY <2>4, <2>5, <2>6, <2>7, <1>4 DEF Writes
  <2>9. /\ new.cols[t] = disk.cols[t] \cup {column}
        /\ \A r \in Tables : r # t => new.cols[r] = disk.cols[r]
        /\ new.rec = disk.rec /\ new.indexed = disk.indexed
    BY <1>1, <2>2 DEF Contents, SameTables
  <2> HIDE DEF new
  <2> QED BY <1>4, <2>5, <2>8, <2>9 DEF t, column
<1>5. db # NoConn
  BY <1>1, TableSteps DEF TableOps
<1> QED BY <1>3, <1>4, <1>5 DEF AddColumn, quiet

\* and add_column() does,
LEMMA AddColumnOK ==
  ASSUME SqlAssumption, IInv, NEW k \in Tasks, AddColumn(k)
  PROVE  StepOK(k)
<1> DEFINE s == <<On("commit", db)>>
<1>1. work[k] # <<>> /\ Op(k, 1) = "column"
  BY HeadFacts DEF AddColumn
<1>2. UNCHANGED <<open, used, db, known, code, excused, starts, local>>
  BY DEF AddColumn, process, rest
<1>3. CASE Raise(k) /\ UNCHANGED <<disk, tx>>
  BY <1>2, <1>3, FailedOK, Typed
<1>4. CASE Then(k, s) /\ UNCHANGED <<phase, status>> /\ db \in open /\ \E new \in Contents : Writes(db, new)
  <2> PICK new \in Contents : Writes(db, new)
    BY <1>4
  <2>1. db \in Conns /\ db \in 1..used
    BY <1>4, TypeParts, Typed DEF IInv, StoreOK
  <2>2. s \in Seq(Steps)
    BY <2>1, StepTypes
  <2>3. Issued(s, used') /\ Calling(k, s)
    BY <1>1, <1>2, <2>1 DEF Issued, Calling, Called, On
  <2> HIDE DEF s
  <2> QED BY <1>1, <1>2, <1>4, <2>2, <2>3, WriteOK DEF TableOps
<1> QED BY <1>3, <1>4, AddColumnCases

-----------------------------------------------------------------------------
(* Start, refresh and stop                                                 *)

\* and the end of a start or refresh,
LEMMA ReadyOK ==
  ASSUME SqlAssumption, IInv, NEW k \in Tasks, Ready(k)
  PROVE  StepOK(k)
<1>1. work[k] # <<>>
  BY HeadFacts DEF Ready
<1>2. UNCHANGED <<disk, tx, open, used, db, known, code, excused, starts, local, status>>
      /\ Done(k) /\ phase' = "up"
  BY DEF Ready, process, rest
<1>3. StoreMove(k)
  BY <1>2 DEF StoreMove
<1> QED BY <1>1, <1>2, <1>3, RestDone, Typed, StepOKs

\* and closing,
LEMMA CloseOK ==
  ASSUME SqlAssumption, IInv, NEW k \in Tasks, Close(k)
  PROVE  StepOK(k)
<1>1. work[k] # <<>>
  BY HeadFacts DEF Close
<1>2. UNCHANGED <<disk, used, db, known, code, starts, local, status>>
  BY DEF Close
<1>3. CASE db = NoConn
  <2>1. work' = [work EXCEPT ![k] = <<>>] /\ phase' = "down" /\ UNCHANGED <<open, tx, excused>>
    BY <1>3 DEF Close
  <2>2. StoreMove(k)
    BY <1>2, <2>1 DEF StoreMove
  <2>3. WorkMove(k)
    BY <1>3, <2>1 DEF Close, WorkMove
  <2>4. WorkOK'
    <3>1. work' \in [Tasks -> Seq(Steps)]
      BY <2>1, NoSteps DEF IInv, TypeOK, WorkOK
    <3>2. \A j \in Tasks : Issued(work'[j], used')
      BY <1>2, <2>1 DEF IInv, TypeOK, WorkOK, Issued
    <3> QED BY <3>1, <3>2 DEF WorkOK
  <2>5. RestOK'
    BY <1>2, <2>1, <2>4, Typed DEF RestOK, IInv, TypeOK
  <2> QED BY <2>2, <2>3, <2>5, StepOKs
<1>4. CASE db # NoConn
  <2>1. /\ open' = open \ {db} /\ tx' = [tx EXCEPT ![db] = NoTx]
        /\ excused' = excused \cup {s \in Clients : status[s] = "running"}
        /\ Then(k, <<>>) /\ UNCHANGED phase
    BY <1>4 DEF Close, Done
  <2>2. StoreMove(k)
    BY <1>2, <1>4, <2>1 DEF StoreMove, Close
  <2>3. excused' \subseteq Clients
    BY <2>1, Typed
  <2>4. open' \subseteq 1..used'
    BY <1>2, <2>1, Typed
  <2> QED BY <1>1, <1>2, <2>1, <2>2, <2>3, <2>4, NoSteps, RestThen, Typed, StepOKs
<1> QED BY <1>3, <1>4

\* and forgetting the connection.
LEMMA ClearOK ==
  ASSUME SqlAssumption, IInv, NEW k \in Tasks, Clear(k)
  PROVE  StepOK(k)
<1>1. work[k] # <<>>
  BY HeadFacts DEF Clear
<1>2. UNCHANGED <<disk, tx, open, used, known, code, excused, starts, local, status>>
      /\ Then(k, <<>>) /\ phase' = "down" /\ db' = NoConn
  BY DEF Clear, rest, Done
<1>3. StoreMove(k)
  BY <1>2 DEF StoreMove
<1> QED BY <1>1, <1>2, <1>3, NoSteps, RestThen, Typed, StepOKs

-----------------------------------------------------------------------------
(* What a step leaves alone                                                *)

\* The steps the agent can be at, by its phase.
LEMMA AgentOps ==
  ASSUME SqlAssumption, IInv, work[Agent] # <<>>
  PROVE  /\ phase \in {"starting", "refreshing", "stopping"}
         /\ phase = "stopping" => Op(Agent, 1) \in {"close", "clear"}
         /\ phase # "stopping" => Op(Agent, 1) \in StartSteps \cup {"ready"}
<1>1. work[Agent] \in Seq(Steps) /\ Len(work[Agent]) \in Nat \ {0}
  BY DEF IInv, TypeOK, WorkOK, Tasks
<1>2. phase \in {"starting", "refreshing", "stopping"}
  BY Typed DEF IInv, AgentSteps
<1>3. phase = "stopping" => Op(Agent, 1) \in {"close", "clear"}
  BY DEF IInv, AgentSteps, Op, Step
<1>4. ASSUME phase # "stopping" PROVE Op(Agent, 1) \in StartSteps \cup {"ready"}
  <2>1. /\ work[Agent][Len(work[Agent])].op = "ready"
        /\ \A i \in 1..(Len(work[Agent]) - 1) : Op(Agent, i) \in StartSteps
    BY <1>2, <1>4 DEF IInv, AgentSteps, Step
  <2>2. CASE Len(work[Agent]) = 1
    BY <2>1, <2>2 DEF Op
  <2>3. CASE Len(work[Agent]) # 1
    <3>1. 1 \in 1..(Len(work[Agent]) - 1)
      <4> DEFINE n == Len(work[Agent])
      <4>1. n \in Nat \ {0} /\ n # 1
        BY <1>1, <2>3
      <4> HIDE DEF n
      <4>2. 1 \in 1..(n - 1)
        BY <4>1
      <4> QED BY <4>2 DEF n
    <3> QED BY <2>1, <3>1
  <2> QED BY <2>2, <2>3
<1> QED BY <1>2, <1>3, <1>4

\* Whose steps they are.
LEMMA Whose ==
  ASSUME SqlAssumption, IInv, NEW k \in Tasks, work[k] # <<>>
  PROVE  /\ k = Agent => Op(k, 1) \in StartSteps \cup {"ready", "close", "clear"}
         /\ k # Agent => k \in Clients /\ status[k] = "running" /\ Op(k, 1) \in ClientOps
<1>1. work[k] \in Seq(Steps) /\ 1 \in DOMAIN work[k]
  BY DEF IInv, TypeOK, WorkOK
<1>2. k # Agent => k \in Clients
  BY DEF Tasks
<1> QED BY <1>1, <1>2, AgentOps DEF IInv, ClientSteps

\* What every step of task k leaves alone.
Frame(k) ==
  /\ \A j \in Tasks : j # k => work'[j] = work[j] /\ local'[j] = local[j]
  /\ \A j \in Clients : j # k => status'[j] = status[j]
  /\ k = Agent => status' = status
  /\ k # Agent => phase' = phase
  /\ local'[k] = local[k] \/ (local'[k] = db /\ (Is(k, "get") \/ Is(k, "got")))
  /\ code' = code
  /\ excused \subseteq excused'
  /\ used' = used \/ (Is(k, "connect") /\ used' = used + 1)
  /\ open' = open \/ (Is(k, "close") /\ open' = open \ {db})
                  \/ (Is(k, "connect") /\ open' = open \cup {used'} /\ used' = used + 1)
  /\ db' = db \/ (Is(k, "connect") /\ db' = used') \/ (Is(k, "clear") /\ db' = NoConn)

\* The cache is read from a connection, or grows by a column that was altered.
KnownMove(k) ==
  \/ known' = known
  \/ \E c \in open : known' = View(c).dialog
  \/ Is(k, "altered") /\ Head(work[k]).c \in open /\ known' = known \cup {Head(work[k]).arg}

\* A step of one task leaves the others their steps.
LEMMA Others ==
  ASSUME TypeOK, NEW k \in Tasks, WorkMove(k), NEW j \in Tasks, j # k
  PROVE  work'[j] = work[j]
BY DEF WorkMove, Raise, ThenWork, TypeOK, WorkOK

\* What is to be shown of a step for the lemma Frames.
LEMMA FrameParts ==
  ASSUME IInv, NEW k \in Tasks, WorkMove(k), code' = code, excused \subseteq excused',
         UNCHANGED <<open, used, db>>,
         \/ local' = local
         \/ local' = [local EXCEPT ![k] = db] /\ (Is(k, "get") \/ Is(k, "got")),
         k # Agent => phase' = phase,
         k = Agent => status' = status,
         \A j \in Clients : j # k => status'[j] = status[j]
  PROVE  Frame(k)
<1>1. \A j \in Tasks : j # k => work'[j] = work[j]
  BY Others DEF IInv
<1>0. local \in [Tasks -> (1..used) \cup {NoConn}]
  BY DEF IInv, TypeOK
<1>2. local'[k] = local[k] \/ (local'[k] = db /\ (Is(k, "get") \/ Is(k, "got")))
  BY <1>0
<1>3. \A j \in Tasks : j # k => local'[j] = local[j]
  BY <1>0
<1> QED BY <1>1, <1>2, <1>3 DEF Frame

\* Every step of a task keeps types and contents.
LEMMA StepsOK ==
  ASSUME SqlAssumption, IInv, NEW k \in Tasks, StepOf(k)
  PROVE  StepOK(k)
<1>1. ASSUME Fetch(k) \/ Return(k) PROVE k \in Clients
  <2>1. work[k] # <<>> /\ Op(k, 1) \in {"fetch", "return"}
    BY <1>1, HeadFacts DEF Fetch, Return
  <2> QED BY <2>1, Whose DEF StartSteps
<1> QED BY <1>1, GetDbOK, ConnectOK, GotOK, CreateDialogOK, CreateVersionsOK, ReadKnownOK, CommitOK,
           MigrateOK, AlterDialogOK, AlteredOK, RecheckOK, InsertOK, FetchOK, ReturnOK, ColumnsOK,
           CreateTableOK, RecordOK, VersionOK, AddColumnOK, EnsureIndexesOK, ReadyOK, CloseOK,
           ClearOK DEF StepOf

\* An exception changes the phase of the agent or the status of the client.
LEMMA RaiseParts ==
  ASSUME IInv, NEW k \in Tasks, Raise(k)
  PROVE  /\ k # Agent => phase' = phase
         /\ k = Agent => status' = status
         /\ \A j \in Clients : j # k => status'[j] = status[j]
BY DEF Raise, IInv, TypeOK

\* A step of a task leaves the rest of the process as it is.
LEMMA Frames ==
  ASSUME SqlAssumption, IInv, NEW k \in Tasks, StepOf(k)
  PROVE  Frame(k) /\ KnownMove(k)
<1>0. WorkMove(k) /\ IInv /\ open \subseteq Conns
  BY StepsOK, TypeParts DEF StepOK, IInv, StoreOK
<1>1. CASE GetDb(k)
  BY <1>0, <1>1, FrameParts, RaiseParts DEF GetDb, KnownMove, process, quiet, rest
<1>2. CASE Got(k)
  BY <1>0, <1>2, FrameParts, RaiseParts DEF Got, KnownMove, process, quiet, rest
<1>3. CASE CreateDialog(k)
  BY <1>0, <1>3, FrameParts, RaiseParts DEF CreateDialog, KnownMove, process, quiet, rest
<1>4. CASE CreateVersions(k)
  BY <1>0, <1>4, FrameParts, RaiseParts DEF CreateVersions, KnownMove, process, quiet, rest
<1>5. CASE Commit(k)
  BY <1>0, <1>5, FrameParts, RaiseParts DEF Commit, KnownMove, process, quiet, rest
<1>6. CASE Migrate(k)
  BY <1>0, <1>6, FrameParts, RaiseParts DEF Migrate, KnownMove, process, quiet, rest
<1>7. CASE AlterDialog(k)
  BY <1>0, <1>7, FrameParts, RaiseParts DEF AlterDialog, KnownMove, process, quiet, rest
<1>8. CASE Insert(k)
  BY <1>0, <1>8, FrameParts, RaiseParts DEF Insert, KnownMove, process, quiet, rest
<1>9. CASE Columns(k)
  BY <1>0, <1>9, FrameParts, RaiseParts DEF Columns, KnownMove, process, quiet, rest
<1>10. CASE CreateTable(k)
  BY <1>0, <1>10, FrameParts, RaiseParts DEF CreateTable, KnownMove, process, quiet, rest
<1>11. CASE Record(k)
  BY <1>0, <1>11, FrameParts, RaiseParts DEF Record, KnownMove, process, quiet, rest
<1>12. CASE Version(k)
  BY <1>0, <1>12, FrameParts, RaiseParts DEF Version, KnownMove, process, quiet, rest
<1>13. CASE AddColumn(k)
  BY <1>0, <1>13, FrameParts, RaiseParts DEF AddColumn, KnownMove, process, quiet, rest
<1>14. CASE EnsureIndexes(k)
  BY <1>0, <1>14, FrameParts, RaiseParts DEF EnsureIndexes, KnownMove, process, quiet, rest
<1>15. CASE ReadKnown(k)
  <2>1. Frame(k)
    BY <1>0, <1>15, FrameParts, RaiseParts DEF ReadKnown, quiet, rest
  <2>2. KnownMove(k)
    BY <1>15 DEF ReadKnown, KnownMove
  <2> QED BY <2>1, <2>2
<1>16. CASE Altered(k)
  <2>1. Frame(k)
    BY <1>0, <1>16, FrameParts, RaiseParts DEF Altered, quiet, rest
  <2>2. KnownMove(k)
    BY <1>16 DEF Altered, KnownMove
  <2> QED BY <2>1, <2>2
<1>17. CASE Recheck(k)
  <2>1. Frame(k)
    BY <1>0, <1>17, FrameParts, RaiseParts DEF Recheck, quiet, rest
  <2>2. KnownMove(k)
    BY <1>17 DEF Recheck, KnownMove
  <2> QED BY <2>1, <2>2
<1>18. CASE Fetch(k)
  <2>1. k # Agent
    BY <1>18, HeadFacts, Whose DEF Fetch, StartSteps
  <2>2. \A j \in Clients : j # k => status'[j] = status[j]
    BY <1>18, RaiseParts DEF Fetch, IInv, TypeOK
  <2> QED BY <1>0, <1>18, <2>1, <2>2, FrameParts, RaiseParts DEF Fetch, KnownMove, process, rest
<1>19. CASE Return(k)
  <2>1. k # Agent
    BY <1>19, HeadFacts, Whose DEF Return, StartSteps
  <2>2. \A j \in Clients : j # k => status'[j] = status[j]
    BY <1>19 DEF Return, IInv, TypeOK
  <2> QED BY <1>0, <1>19, <2>1, <2>2, FrameParts DEF Return, KnownMove, process, rest
<1>20. CASE Ready(k)
  <2>1. k = Agent
    BY <1>20, HeadFacts, Whose DEF Ready, ClientOps
  <2> QED BY <1>0, <1>20, <2>1, FrameParts DEF Ready, KnownMove, process, rest
<1>21. ASSUME Connect(k) \/ Close(k) \/ Clear(k) PROVE Frame(k) /\ KnownMove(k)
  <2>1. Close(k) \/ Clear(k) => k = Agent
    BY HeadFacts, Whose DEF Close, Clear, ClientOps
  <2>2. \A j \in Tasks : j # k => work'[j] = work[j]
    BY <1>0, Others DEF IInv
  <2>3. CASE Connect(k)
    BY <2>2, <2>3 DEF Connect, Frame, KnownMove, quiet
  <2>4. CASE Close(k)
    BY <2>1, <2>2, <2>4 DEF Close, Frame, KnownMove
  <2>5. CASE Clear(k)
    BY <2>1, <2>2, <2>5 DEF Clear, Frame, KnownMove, rest
  <2> QED BY <1>21, <2>3, <2>4, <2>5
<1> QED BY <1>1, <1>2, <1>3, <1>4, <1>5, <1>6, <1>7, <1>8, <1>9, <1>10, <1>11, <1>12, <1>13, <1>14,
           <1>15, <1>16, <1>17, <1>18, <1>19, <1>20, <1>21 DEF StepOf

-----------------------------------------------------------------------------
(* The steps that are left, and what they rely on                          *)

\* The same of given steps s: where the steps come from, and where they go.
LEMMA FromThen ==
  ASSUME SqlAssumption, IInv, NEW k \in Tasks, NEW s \in Seq(Steps), ThenWork(k, s)
  PROVE  /\ \A i \in DOMAIN work'[k] :
              \/ i \in 1..Len(s) /\ work'[k][i] = s[i]
              \/ \E m \in DOMAIN work[k] : m >= 2 /\ i = m + Len(s) - 1 /\ work'[k][i] = work[k][m]
         /\ \A m \in DOMAIN work[k] :
              m >= 2 => m + Len(s) - 1 \in DOMAIN work'[k] /\ work'[k][m + Len(s) - 1] = work[k][m]
         /\ DOMAIN work'[k] = 1..(Len(s) + Len(work[k]) - 1) /\ Len(work'[k]) = Len(s) + Len(work[k]) - 1
         /\ DOMAIN work[k] = 1..Len(work[k]) /\ Len(work[k]) \in Nat /\ Len(s) \in Nat
         /\ \A i \in 1..Len(s) : work'[k][i] = s[i] /\ (work[k] # <<>> => i \in DOMAIN work'[k])
<1>1. /\ Len(s) \in Nat /\ Len(work[k]) \in Nat /\ DOMAIN work[k] = 1..Len(work[k])
      /\ Len(work'[k]) = Len(s) + Len(work[k]) - 1 /\ DOMAIN work'[k] = 1..Len(work'[k])
      /\ work[k] # <<>> => Len(work[k]) >= 1
  BY DEF ThenWork, IInv, TypeOK, WorkOK
<1>2. /\ \A i \in 1..Len(s) : work'[k][i] = s[i]
      /\ \A i \in (Len(s) + 1)..Len(work'[k]) :
           work'[k][i] = work[k][i - Len(s) + 1] /\ i - Len(s) + 1 \in 2..Len(work[k])
  BY DEF ThenWork
<1> DEFINE a == Len(s)
           b == Len(work[k])
           e == Len(work'[k])
<1> HIDE DEF a, b, e
<1>3. a \in Nat /\ b \in Nat /\ e = a + b - 1 /\ DOMAIN work[k] = 1..b /\ DOMAIN work'[k] = 1..e
  BY <1>1 DEF a, b, e
<1>4. /\ \A i \in 1..a : work'[k][i] = s[i]
      /\ \A i \in (a + 1)..e : work'[k][i] = work[k][i - a + 1] /\ i - a + 1 \in 2..b
  BY <1>2 DEF a, b, e
<1>5. ASSUME NEW i \in 1..e
      PROVE  \/ i \in 1..a /\ work'[k][i] = s[i]
             \/ \E m \in 1..b : m >= 2 /\ i = m + a - 1 /\ work'[k][i] = work[k][m]
  <2>1. CASE i \in 1..a
    BY <1>4, <2>1
  <2>2. CASE i \in (a + 1)..e
    <3>1. work'[k][i] = work[k][i - a + 1] /\ i - a + 1 \in 2..b
      BY <1>4, <2>2
    <3>2. i - a + 1 \in 1..b /\ i - a + 1 >= 2 /\ i = (i - a + 1) + a - 1
      BY <1>3, <3>1
    <3> QED BY <3>1, <3>2
  <2> QED BY <1>3, <2>1, <2>2
<1>6. ASSUME NEW m \in 1..b, m >= 2
      PROVE  m + a - 1 \in 1..e /\ work'[k][m + a - 1] = work[k][m]
  <2> DEFINE i == m + a - 1
  <2>1. i \in 1..e /\ i \in (a + 1)..e /\ i - a + 1 = m
    BY <1>3, <1>6
  <2> HIDE DEF i
  <2>2. work'[k][i] = work[k][m]
    BY <1>4, <2>1
  <2> QED BY <2>1, <2>2 DEF i
<1>7. ASSUME NEW i \in 1..a, work[k] # <<>> PROVE i \in 1..e
  <2>1. b >= 1
    BY <1>1, <1>7 DEF b
  <2> QED BY <1>3, <2>1
<1> QED BY <1>3, <1>4, <1>5, <1>6, <1>7 DEF a, b, e

\* What is left after a step that calls nothing.
LEMMA FromNone ==
  ASSUME SqlAssumption, IInv, NEW k \in Tasks, ThenWork(k, <<>>)
  PROVE  /\ Len(work'[k]) = Len(work[k]) - 1
         /\ \A i \in DOMAIN work'[k] :
              i \in Nat \ {0} /\ i + 1 \in DOMAIN work[k] /\ work'[k][i] = work[k][i + 1]
         /\ \A m \in DOMAIN work[k] :
              m >= 2 => m - 1 \in DOMAIN work'[k] /\ work'[k][m - 1] = work[k][m]
<1> DEFINE e == <<>>
<1>1. e \in Seq(Steps) /\ Len(e) = 0 /\ ThenWork(k, e)
  OBVIOUS
<1> HIDE DEF e
<1>2. /\ \A i \in DOMAIN work'[k] :
           \/ i \in 1..Len(e) /\ work'[k][i] = e[i]
           \/ \E m \in DOMAIN work[k] : m >= 2 /\ i = m + Len(e) - 1 /\ work'[k][i] = work[k][m]
      /\ \A m \in DOMAIN work[k] :
           m >= 2 => m + Len(e) - 1 \in DOMAIN work'[k] /\ work'[k][m + Len(e) - 1] = work[k][m]
      /\ Len(work'[k]) = Len(e) + Len(work[k]) - 1
      /\ DOMAIN work[k] = 1..Len(work[k]) /\ Len(work[k]) \in Nat
  BY <1>1, FromThen, ZenonT(30)
<1>3. Len(work'[k]) = Len(work[k]) - 1
  BY <1>1, <1>2
<1>4. ASSUME NEW i \in DOMAIN work'[k]
      PROVE  i \in Nat \ {0} /\ i + 1 \in DOMAIN work[k] /\ work'[k][i] = work[k][i + 1]
  <2>1. PICK m \in DOMAIN work[k] : m >= 2 /\ i = m - 1 /\ work'[k][i] = work[k][m]
    BY <1>1, <1>2
  <2>2. m \in Nat /\ i + 1 = m /\ i \in Nat \ {0}
    BY <1>2, <2>1
  <2> QED BY <2>1, <2>2
<1>5. ASSUME NEW m \in DOMAIN work[k], m >= 2
      PROVE  m - 1 \in DOMAIN work'[k] /\ work'[k][m - 1] = work[k][m]
  <2>1. m + Len(e) - 1 = m - 1
    BY <1>1, <1>2
  <2> QED BY <1>2, <1>5, <2>1
<1> QED BY <1>3, <1>4, <1>5

\* A step that is left was left before, or was given by the one that is done.
LEMMA NextSteps ==
  ASSUME SqlAssumption, IInv, NEW k \in Tasks, StepOf(k), NEW i \in DOMAIN work'[k]
  PROVE  \/ Called(Op(k, 1), work'[k][i].op)
         \/ \E m \in DOMAIN work[k] :
              m >= 2 /\ work'[k][i] = work[k][m] /\ Len(work'[k]) - i = Len(work[k]) - m
         \/ k = Agent /\ phase = "starting" /\ work'[k] = <<Step("close"), Step("clear")>>
<1>1. WorkMove(k) /\ work \in [Tasks -> Seq(Steps)]
  BY StepsOK DEF StepOK, IInv, TypeOK, WorkOK
<1>2. CASE Raise(k)
  BY <1>1, <1>2 DEF Raise
<1>3. CASE work' = [work EXCEPT ![k] = <<>>]
  BY <1>1, <1>3
<1>4. CASE \E s \in Seq(Steps) : Calling(k, s) /\ ThenWork(k, s)
  <2>1. PICK s \in Seq(Steps) : Calling(k, s) /\ ThenWork(k, s)
    BY <1>4
  <2>2. /\ Len(s) \in Nat /\ DOMAIN s = 1..Len(s) /\ Len(work[k]) \in Nat /\ DOMAIN work[k] = 1..Len(work[k])
        /\ Len(work'[k]) = Len(s) + Len(work[k]) - 1 /\ DOMAIN work'[k] = 1..Len(work'[k])
    BY <1>1, <2>1 DEF ThenWork
  <2>3. CASE i \in 1..Len(s)
    BY <2>1, <2>2, <2>3 DEF ThenWork, Calling
  <2>4. CASE i \in (Len(s) + 1)..Len(work'[k])
    <3>1. work'[k][i] = work[k][i - Len(s) + 1] /\ i - Len(s) + 1 \in 2..Len(work[k])
      BY <2>1, <2>4 DEF ThenWork
    <3> DEFINE m == i - Len(s) + 1
    <3>2. m \in DOMAIN work[k] /\ m >= 2 /\ Len(work'[k]) - i = Len(work[k]) - m
      BY <2>2, <2>4, <3>1
    <3> QED BY <3>1, <3>2
  <2> QED BY <2>2, <2>3, <2>4
<1> QED BY <1>1, <1>2, <1>3, <1>4 DEF WorkMove

\* What a connection sees after a step.
ViewAfter(c) == IF tx'[c] = NoTx THEN disk' ELSE tx'[c]

\* What a connection sees after a step.
LEMMA ViewsAfter == \A c : View(c)' = ViewAfter(c)
BY DEF View, ViewAfter

\* A connection that a task has used, and that is open, was open before.
LEMMA Older ==
  ASSUME SqlAssumption, IInv, NEW k \in Tasks, StepOf(k),
         NEW c \in (1..used) \cup {NoConn}, c \in open'
  PROVE  c \in open /\ c \in Conns /\ Below(View(c), ViewAfter(c))
<1>1. used \in Nat /\ open' \subseteq Conns /\ Frame(k) /\ Kept
  BY StepsOK, Frames DEF StepOK, StoreOK, IInv, TypeOK
<1>2. c \in Conns /\ c \in 1..used
  BY <1>1 DEF SqlAssumption
<1>3. c \in open
  BY <1>1, <1>2 DEF Frame
<1> QED BY <1>1, <1>2, <1>3, ViewsAfter DEF Kept

\* The steps of a task are steps.
LEMMA Uses ==
  ASSUME IInv, NEW k \in Tasks, NEW i \in DOMAIN work[k]
  PROVE  work[k][i].c \in (1..used) \cup {NoConn} /\ work[k][i] \in Steps
BY DEF IInv, TypeOK, WorkOK, Issued

\* Which action a step is.
LEMMA Acts ==
  ASSUME SqlAssumption, IInv, NEW k \in Tasks, StepOf(k)
  PROVE  /\ work[k] # <<>> /\ 1 \in DOMAIN work[k] /\ Head(work[k]) = work[k][1]
         /\ Op(k, 1) = "get" => GetDb(k) /\ Is(k, "get")
         /\ Op(k, 1) = "connect" => Connect(k) /\ Is(k, "connect")
         /\ Op(k, 1) = "got" => Got(k) /\ Is(k, "got")
         /\ Op(k, 1) = "create" => CreateDialog(k) /\ Is(k, "create")
         /\ Op(k, 1) = "versions" => CreateVersions(k) /\ Is(k, "versions")
         /\ Op(k, 1) = "known" => ReadKnown(k) /\ Is(k, "known")
         /\ Op(k, 1) = "commit" => Commit(k) /\ Is(k, "commit")
         /\ Op(k, 1) = "migrate" => Migrate(k) /\ Is(k, "migrate")
         /\ Op(k, 1) = "alter" => AlterDialog(k) /\ Is(k, "alter")
         /\ Op(k, 1) = "altered" => Altered(k) /\ Is(k, "altered")
         /\ Op(k, 1) = "recheck" => Recheck(k) /\ Is(k, "recheck")
         /\ Op(k, 1) = "insert" => Insert(k) /\ Is(k, "insert")
         /\ Op(k, 1) = "fetch" => Fetch(k) /\ Is(k, "fetch")
         /\ Op(k, 1) = "return" => Return(k) /\ Is(k, "return")
         /\ Op(k, 1) = "columns" => Columns(k) /\ Is(k, "columns")
         /\ Op(k, 1) = "table" => CreateTable(k) /\ Is(k, "table")
         /\ Op(k, 1) = "record" => Record(k) /\ Is(k, "record")
         /\ Op(k, 1) = "version" => Version(k) /\ Is(k, "version")
         /\ Op(k, 1) = "column" => AddColumn(k) /\ Is(k, "column")
         /\ Op(k, 1) = "index" => EnsureIndexes(k) /\ Is(k, "index")
         /\ Op(k, 1) = "ready" => Ready(k) /\ Is(k, "ready")
         /\ Op(k, 1) = "close" => Close(k) /\ Is(k, "close")
         /\ Op(k, 1) = "clear" => Clear(k) /\ Is(k, "clear")
<1>1. \A op : Is(k, op) => work[k] # <<>> /\ 1 \in DOMAIN work[k] /\ Head(work[k]) = work[k][1] /\ Op(k, 1) = op
  BY HeadFacts
<1>2. /\ GetDb(k) => Is(k, "get")
      /\ Connect(k) => Is(k, "connect")
      /\ Got(k) => Is(k, "got")
      /\ CreateDialog(k) => Is(k, "create")
  BY DEF GetDb, Connect, Got, CreateDialog
<1>3. /\ CreateVersions(k) => Is(k, "versions")
      /\ ReadKnown(k) => Is(k, "known")
      /\ Commit(k) => Is(k, "commit")
      /\ Migrate(k) => Is(k, "migrate")
  BY DEF CreateVersions, ReadKnown, Commit, Migrate
<1>4. /\ AlterDialog(k) => Is(k, "alter")
      /\ Altered(k) => Is(k, "altered")
      /\ Recheck(k) => Is(k, "recheck")
      /\ Insert(k) => Is(k, "insert")
  BY DEF AlterDialog, Altered, Recheck, Insert
<1>5. /\ Fetch(k) => Is(k, "fetch")
      /\ Return(k) => Is(k, "return")
      /\ Columns(k) => Is(k, "columns")
      /\ CreateTable(k) => Is(k, "table")
  BY DEF Fetch, Return, Columns, CreateTable
<1>6. /\ Record(k) => Is(k, "record")
      /\ Version(k) => Is(k, "version")
      /\ AddColumn(k) => Is(k, "column")
      /\ EnsureIndexes(k) => Is(k, "index")
  BY DEF Record, Version, AddColumn, EnsureIndexes
<1>7. /\ Ready(k) => Is(k, "ready")
      /\ Close(k) => Is(k, "close")
      /\ Clear(k) => Is(k, "clear")
  BY DEF Ready, Close, Clear
<1> QED BY <1>1, <1>2, <1>3, <1>4, <1>5, <1>6, <1>7 DEF StepOf

\* What became of ALTER TABLE.
LEMMA AlterCases ==
  ASSUME SqlAssumption, IInv, NEW k \in Tasks, AlterDialog(k)
  PROVE  LET c == Head(work[k]).c
             column == Head(work[k]).arg
             s(op) == <<[op |-> op, c |-> c, arg |-> column]>>
         IN \/ column \in known /\ ThenWork(k, <<>>) /\ UNCHANGED <<disk, tx>>
            \/ c \in open /\ column \in ViewAfter(c).dialog /\ ThenWork(k, s("altered"))
            \/ /\ ~(c \in open /\ MayWrite(c) /\ View(c).dialog # {} /\ column \notin View(c).dialog)
               /\ ThenWork(k, s("recheck")) /\ UNCHANGED <<disk, tx>>
<1> DEFINE c == Head(work[k]).c
           column == Head(work[k]).arg
           new == [View(c) EXCEPT !.dialog = @ \cup {column}]
           may == c \in open /\ MayWrite(c) /\ View(c).dialog # {} /\ column \notin View(c).dialog
           s(op) == <<[op |-> op, c |-> c, arg |-> column]>>
<1>1. work[k] # <<>> /\ column \in DialogColumns /\ work \in [Tasks -> Seq(Steps)]
  BY HeadFacts, StepArgs DEF AlterDialog, IInv, TypeOK, WorkOK
<1>2. s("altered") \in Seq(Steps) /\ s("recheck") \in Seq(Steps) /\ <<>> \in Seq(Steps)
  BY OneStep, NoSteps DEF AlterDialog
<1>3. CASE column \in known
  <2>1. UNCHANGED <<disk, tx>> /\ Then(k, <<>>)
    BY <1>3 DEF AlterDialog, Done
  <2> HIDE DEF c, column, s
  <2>2. ThenWork(k, <<>>)
    BY <1>1, <1>2, <2>1, Thens
  <2> QED BY <1>3, <2>1, <2>2 DEF c, column, s
<1>4. CASE column \notin known /\ may
  <2>1. Define(c, new) /\ Then(k, s("altered"))
    BY <1>4 DEF AlterDialog
  <2>2. c \in Conns /\ View(c) \in Contents /\ new \in Contents /\ Below(View(c), new) /\ DialogMade(new)
    <3>1. c \in Conns
      BY <1>4, TypeParts DEF IInv, StoreOK
    <3> QED BY <1>1, <1>4, <3>1, Widened
  <2>3. column \in new.dialog
    BY <1>1, <1>4, <2>2, Widened
  <2>4. StoreOK /\ c \in open /\ MayWrite(c) /\ open' = open /\ open \subseteq Conns
    BY <1>4, TypeParts DEF IInv, StoreOK, AlterDialog, process
  <2> HIDE DEF c, column, s, new
  <2>5. ViewAfter(c) = new
    BY <2>1, <2>2, <2>4, StoreDefine, ViewsAfter
  <2>6. ThenWork(k, s("altered"))
    BY <1>1, <1>2, <2>1, Thens
  <2> QED BY <2>3, <2>4, <2>5, <2>6 DEF c, column, s
<1>5. CASE column \notin known /\ ~may
  <2>1. UNCHANGED <<disk, tx>> /\ Then(k, s("recheck"))
    BY <1>5 DEF AlterDialog
  <2> HIDE DEF c, column, s
  <2>2. ThenWork(k, s("recheck"))
    BY <1>1, <1>2, <2>1, Thens
  <2> QED BY <1>5, <2>1, <2>2 DEF c, column, s
<1> QED BY <1>3, <1>4, <1>5

\* A column that was altered stays there until the commit.
LEMMA AlteredIsThereKept ==
  ASSUME SqlAssumption, IInv, NEW k \in Tasks, StepOf(k)
  PROVE  AlteredIsThere'
<1>1. Frame(k) /\ WorkMove(k)
  BY StepsOK, Frames DEF StepOK
<1>2. ASSUME NEW j \in Tasks, j # k, NEW i \in DOMAIN work'[j], work'[j][i].op = "altered"
      PROVE  i = 1 /\ (work'[j][i].c \in open' => work'[j][i].arg \in ViewAfter(work'[j][i].c).dialog)
  <2>1. work'[j] = work[j]
    BY <1>1, <1>2 DEF Frame
  <2>2. i = 1 /\ (work[j][i].c \in open => work[j][i].arg \in View(work[j][i].c).dialog)
    BY <1>2, <2>1 DEF IInv, AlteredIsThere, Op
  <2>3. work[j][i].c \in (1..used) \cup {NoConn}
    BY <1>2, <2>1, Uses
  <2> QED BY <2>1, <2>2, <2>3, Older DEF Below
<1>3. ASSUME NEW i \in DOMAIN work'[k], work'[k][i].op = "altered"
      PROVE  i = 1 /\ (work'[k][i].c \in open' => work'[k][i].arg \in ViewAfter(work'[k][i].c).dialog)
  <2>1. Called(Op(k, 1), "altered")
    <3>1. ~(\E m \in DOMAIN work[k] : m >= 2 /\ work'[k][i] = work[k][m])
      BY <1>3 DEF IInv, AlteredIsThere, Op
    <3>2. ~(work'[k] = <<Step("close"), Step("clear")>>)
      BY <1>3 DEF Step
    <3> QED BY <1>3, <3>1, <3>2, NextSteps
  <2>2. Is(k, "alter") /\ AlterDialog(k) /\ 1 \in DOMAIN work[k]
    <3>1. Op(k, 1) = "alter"
      BY <2>1 DEF Called
    <3> QED BY <3>1, Acts
  <2> DEFINE c == Head(work[k]).c
             column == Head(work[k]).arg
             s(op) == <<[op |-> op, c |-> c, arg |-> column]>>
  <2>3. \A m \in DOMAIN work[k] : m >= 2 => work[k][m].op # "altered"
    BY DEF IInv, AlteredIsThere, Op
  <2>4. s("altered") \in Seq(Steps) /\ s("recheck") \in Seq(Steps) /\ <<>> \in Seq(Steps)
    BY <2>2, OneStep, NoSteps
  <2>5. /\ Len(s("altered")) = 1 /\ s("altered")[1].c = c /\ s("altered")[1].arg = column
        /\ Len(s("recheck")) = 1 /\ s("recheck")[1].op = "recheck" /\ Len(<<>>) = 0
    OBVIOUS
  <2> HIDE DEF c, column, s
  <2>6. \/ ThenWork(k, <<>>) \/ ThenWork(k, s("recheck"))
        \/ column \in ViewAfter(c).dialog /\ ThenWork(k, s("altered"))
    BY <2>2, AlterCases DEF c, column, s
  <2>7. ~ThenWork(k, <<>>)
    <3> SUFFICES ASSUME ThenWork(k, <<>>) PROVE FALSE
      OBVIOUS
    <3>1. i + 1 \in DOMAIN work[k] /\ i + 1 >= 2 /\ work'[k][i] = work[k][i + 1]
      BY <1>3, FromNone
    <3> QED BY <1>3, <2>3, <3>1
  <2>8. ~ThenWork(k, s("recheck"))
    <3> SUFFICES ASSUME ThenWork(k, s("recheck")) PROVE FALSE
      OBVIOUS
    <3>1. i \in 1..Len(s("recheck")) /\ work'[k][i] = s("recheck")[i]
      BY <1>3, <2>3, <2>4, FromThen
    <3> QED BY <1>3, <2>5, <3>1
  <2>9. ASSUME ThenWork(k, s("altered"))
        PROVE  i \in 1..Len(s("altered")) /\ work'[k][i] = s("altered")[i]
    BY <1>3, <2>3, <2>4, <2>9, FromThen
  <2> QED BY <2>5, <2>6, <2>7, <2>8, <2>9
<1> QED BY <1>2, <1>3, ViewsAfter DEF AlteredIsThere, Op, View, ViewAfter

\* How a step ends: with an exception, or with the phase of the agent and the
\* status of the client as they were, but for the last ones.
LEMMA Endings ==
  ASSUME NEW k \in Tasks, StepOf(k)
  PROVE  \/ Raise(k)
         \/ UNCHANGED <<phase, status>>
         \/ /\ Is(k, "fetch") \/ Is(k, "return")
            /\ Done(k) /\ phase' = phase
         \/ /\ Is(k, "ready") /\ Done(k) /\ phase' = "up" /\ status' = status
         \/ /\ Is(k, "clear") /\ Done(k) /\ phase' = "down" /\ status' = status
         \/ /\ Is(k, "close") /\ db = NoConn /\ work' = [work EXCEPT ![k] = <<>>]
            /\ phase' = "down" /\ status' = status
<1>1. (GetDb(k) => Raise(k) \/ UNCHANGED <<phase, status>>) /\ (Connect(k) => Raise(k) \/ UNCHANGED <<phase, status>>) /\ (Got(k) => Raise(k) \/ UNCHANGED <<phase, status>>)
  BY DEF GetDb, Connect, Got, quiet
<1>2. (CreateDialog(k) => Raise(k) \/ UNCHANGED <<phase, status>>) /\ (CreateVersions(k) => Raise(k) \/ UNCHANGED <<phase, status>>) /\ (ReadKnown(k) => Raise(k) \/ UNCHANGED <<phase, status>>)
  BY DEF CreateDialog, CreateVersions, ReadKnown, quiet
<1>3. (Commit(k) => Raise(k) \/ UNCHANGED <<phase, status>>) /\ (Migrate(k) => Raise(k) \/ UNCHANGED <<phase, status>>) /\ (AlterDialog(k) => Raise(k) \/ UNCHANGED <<phase, status>>)
  BY DEF Commit, Migrate, AlterDialog, quiet
<1>4. (Altered(k) => Raise(k) \/ UNCHANGED <<phase, status>>) /\ (Recheck(k) => Raise(k) \/ UNCHANGED <<phase, status>>) /\ (Insert(k) => Raise(k) \/ UNCHANGED <<phase, status>>)
  BY DEF Altered, Recheck, Insert, quiet
<1>5. (Columns(k) => Raise(k) \/ UNCHANGED <<phase, status>>) /\ (CreateTable(k) => Raise(k) \/ UNCHANGED <<phase, status>>) /\ (Record(k) => Raise(k) \/ UNCHANGED <<phase, status>>)
  BY DEF Columns, CreateTable, Record, quiet
<1>6. (Version(k) => Raise(k) \/ UNCHANGED <<phase, status>>) /\ (AddColumn(k) => Raise(k) \/ UNCHANGED <<phase, status>>) /\ (EnsureIndexes(k) => Raise(k) \/ UNCHANGED <<phase, status>>)
  BY DEF Version, AddColumn, EnsureIndexes, quiet
<1>7. Fetch(k) => Raise(k) \/ (Is(k, "fetch") /\ Done(k) /\ phase' = phase)
  BY DEF Fetch
<1>8. Return(k) => Is(k, "return") /\ Done(k) /\ phase' = phase
  BY DEF Return
<1>9. Ready(k) => Is(k, "ready") /\ Done(k) /\ phase' = "up" /\ status' = status
  BY DEF Ready
<1>10. Clear(k) => Is(k, "clear") /\ Done(k) /\ phase' = "down" /\ status' = status
  BY DEF Clear, rest
<1>11. Close(k) => \/ UNCHANGED <<phase, status>>
                 \/ /\ Is(k, "close") /\ db = NoConn /\ work' = [work EXCEPT ![k] = <<>>]
                    /\ phase' = "down" /\ status' = status
  BY DEF Close
<1> QED BY <1>1, <1>2, <1>3, <1>4, <1>5, <1>6, <1>7, <1>8, <1>9, <1>10, <1>11 DEF StepOf

\* An INSERT writes the row into the transaction, or fails.
LEMMA InsertCases ==
  ASSUME SqlAssumption, IInv, NEW k \in Clients, Insert(k)
  PROVE  \/ Raise(k)
         \/ /\ local[k] \in open /\ k \in ViewAfter(local[k]).rows
            /\ <<On("commit", local[k]), Step("return")>> \in Seq(Steps)
            /\ ThenWork(k, <<On("commit", local[k]), Step("return")>>)
<1> DEFINE c == local[k]
           new == [View(c) EXCEPT !.rows = @ \cup {k}]
           s == <<On("commit", c), Step("return")>>
<1>1. work[k] # <<>> /\ work \in [Tasks -> Seq(Steps)] /\ k \in Tasks
  BY HeadFacts DEF Insert, IInv, TypeOK, WorkOK, Tasks
<1>2. CASE /\ c \in open /\ MayWrite(c) /\ Modify(c, new) /\ Then(k, s)
  <2>1. c \in Conns /\ StoreOK /\ open' = open
    BY <1>2, TypeParts DEF IInv, StoreOK, Insert, process
  <2>2. new \in Contents /\ Below(View(c), new) /\ DialogMade(new) /\ k \in new.rows
    BY <2>1, ViewFacts DEF Contents, Below, DialogMade
  <2>3. s \in Seq(Steps)
    BY <2>1, StepTypes
  <2> HIDE DEF c, new, s
  <2>4. ViewAfter(c) = new
    BY <1>2, <2>1, <2>2, StoreModify, ViewsAfter
  <2>5. ThenWork(k, s)
    BY <1>1, <1>2, <2>3, Thens
  <2> QED BY <1>2, <2>2, <2>3, <2>4, <2>5 DEF c, s
<1> QED BY <1>2 DEF Insert

\* What a task has left after a step that calls nothing.
LEMMA DoneWork ==
  ASSUME SqlAssumption, IInv, NEW k \in Tasks, work[k] # <<>>, Done(k)
  PROVE  /\ ThenWork(k, <<>>) /\ Len(work'[k]) = Len(work[k]) - 1
         /\ \A i \in DOMAIN work'[k] : i + 1 \in DOMAIN work[k] /\ work'[k][i] = work[k][i + 1]
<1>1. ThenWork(k, <<>>)
  BY NoSteps, Thens DEF Done, IInv, TypeOK, WorkOK
<1> QED BY <1>1, FromNone

\* Clients keep to their steps.
LEMMA ClientStepsKept ==
  ASSUME SqlAssumption, IInv, NEW k \in Tasks, StepOf(k)
  PROVE  ClientSteps'
<1>1. Frame(k) /\ work' \in [Tasks -> Seq(Steps)]
  BY StepsOK, Frames DEF StepOK, TypeOK, WorkOK
<1>2. ASSUME NEW j \in Clients, j # k
      PROVE  /\ status'[j] # "running" => work'[j] = <<>>
             /\ \A i \in DOMAIN work'[j] :
                  /\ work'[j][i].op \in ClientOps
                  /\ work'[j][i].op \in {"insert", "fetch", "return"} => i = Len(work'[j])
  <2>1. work'[j] = work[j] /\ status'[j] = status[j]
    BY <1>1, <1>2 DEF Frame, Tasks
  <2> QED BY <2>1 DEF IInv, ClientSteps, Op
<1>3. ASSUME k \in Clients PROVE status'[k] # "running" => work'[k] = <<>>
  <2>1. work[k] # <<>> /\ k # Agent /\ status[k] = "running"
    BY <1>3, Acts, Whose DEF SqlAssumption
  <2>2. CASE Raise(k)
    BY <2>1, <2>2 DEF Raise, IInv, TypeOK, WorkOK
  <2>3. CASE Done(k) /\ (Is(k, "fetch") \/ Is(k, "return"))
    <3>1. Op(k, 1) \in {"fetch", "return"} /\ 1 \in DOMAIN work[k]
      BY <2>3, HeadFacts
    <3>2. Len(work[k]) = 1
      BY <1>3, <3>1 DEF IInv, ClientSteps
    <3>3. Len(work'[k]) = 0
      <4>1. Len(work'[k]) = Len(work[k]) - 1
        BY <2>1, <2>3, DoneWork
      <4> QED BY <3>2, <4>1
    <3> QED BY <1>1, <3>3
  <2> QED BY <2>1, <2>2, <2>3, Endings, Acts, Whose DEF ClientOps, Is, Op
<1>4. ASSUME k \in Clients, NEW i \in DOMAIN work'[k]
      PROVE  /\ work'[k][i].op \in ClientOps
             /\ work'[k][i].op \in {"insert", "fetch", "return"} => i = Len(work'[k])
  <2>1. k # Agent /\ Op(k, 1) \in ClientOps
    BY <1>4, Acts, Whose DEF SqlAssumption
  <2>2. ASSUME NEW m \in DOMAIN work[k], work'[k][i] = work[k][m], Len(work'[k]) - i = Len(work[k]) - m
        PROVE  /\ work'[k][i].op \in ClientOps
               /\ work'[k][i].op \in {"insert", "fetch", "return"} => i = Len(work'[k])
    <3>1. /\ work[k][m].op \in ClientOps
          /\ work[k][m].op \in {"insert", "fetch", "return"} => m = Len(work[k])
      BY <1>4 DEF IInv, ClientSteps, Op
    <3>2. i \in Nat /\ Len(work'[k]) \in Nat /\ m \in Nat /\ Len(work[k]) \in Nat
      BY <1>1 DEF IInv, TypeOK, WorkOK
    <3> QED BY <2>2, <3>1, <3>2
  <2>3. ASSUME Called(Op(k, 1), work'[k][i].op)
        PROVE  work'[k][i].op \in ClientOps
    BY <2>1, <2>3 DEF Called, ClientOps
  <2>4. ASSUME Called(Op(k, 1), work'[k][i].op), work'[k][i].op \in {"insert", "fetch", "return"}
        PROVE  i = Len(work'[k])
    <3>1. Op(k, 1) = "insert"
      BY <2>4 DEF Called
    <3>2. Insert(k) /\ 1 \in DOMAIN work[k]
      BY <3>1, Acts
    <3>3. Len(work[k]) = 1
      BY <1>4, <3>1, <3>2 DEF IInv, ClientSteps
    <3> DEFINE s == <<On("commit", local[k]), Step("return")>>
    <3>4. Raise(k) \/ (s \in Seq(Steps) /\ ThenWork(k, s))
      BY <1>4, <3>2, InsertCases
    <3>5. Len(s) = 2 /\ s[1].op = "commit"
      BY DEF On
    <3>6. CASE Raise(k)
      BY <1>4, <2>1, <3>6 DEF Raise, IInv, TypeOK, WorkOK
    <3>7. CASE s \in Seq(Steps) /\ ThenWork(k, s)
      <4> HIDE DEF s
      <4>1. DOMAIN work'[k] = 1..2 /\ Len(work'[k]) = 2 /\ (i = 1 => work'[k][i] = s[1])
        <5>1. /\ DOMAIN work'[k] = 1..(Len(s) + Len(work[k]) - 1)
              /\ Len(work'[k]) = Len(s) + Len(work[k]) - 1
              /\ \A n \in 1..Len(s) : work'[k][n] = s[n]
          BY <3>7, FromThen
        <5> QED BY <3>3, <3>5, <5>1
      <4> QED BY <1>4, <2>4, <3>5, <4>1
    <3> QED BY <3>4, <3>6, <3>7
  <2> QED BY <2>1, <2>2, <2>3, <2>4, NextSteps
<1> QED BY <1>2, <1>3, <1>4 DEF ClientSteps, Op

\* A commit makes permanent what its connection sees.
LEMMA CommitCases ==
  ASSUME SqlAssumption, IInv, NEW k \in Tasks, Commit(k)
  PROVE  LET c == Head(work[k]).c IN
         \/ Raise(k) /\ c \notin open /\ UNCHANGED <<disk, tx>>
         \/ c \in open /\ Committed(c) /\ disk' = View(c) /\ ThenWork(k, <<>>)
<1>1. work[k] # <<>>
  BY HeadFacts DEF Commit
<1>2. Done(k) => ThenWork(k, <<>>)
  BY <1>1, DoneWork
<1> QED BY <1>2 DEF Commit, Committed

\* A row is committed before the client returns.
LEMMA WrittenKept ==
  ASSUME SqlAssumption, IInv, NEW k \in Tasks, StepOf(k)
  PROVE  Written'
<1>1. Frame(k) /\ work' \in [Tasks -> Seq(Steps)] /\ Below(disk, disk')
  BY StepsOK, Frames DEF StepOK, TypeOK, WorkOK, Kept
<1> DEFINE Good(j, i) == \/ i = 1 /\ j \in disk'.rows
                         \/ /\ i = 2 /\ work'[j][1].op = "commit"
                            /\ work'[j][1].c \in open' => j \in ViewAfter(work'[j][1].c).rows
<1>2. ASSUME NEW j \in Clients, j # k, NEW i \in DOMAIN work'[j], work'[j][i].op = "return"
      PROVE  Good(j, i)
  <2>1. work'[j] = work[j] /\ j \in Tasks
    BY <1>1, <1>2 DEF Frame, Tasks
  <2>2. \/ i = 1 /\ j \in disk.rows
        \/ /\ i = 2 /\ work[j][1].op = "commit"
           /\ work[j][1].c \in open => j \in View(work[j][1].c).rows
    BY <1>2, <2>1 DEF IInv, Written, Op, Durable
  <2>3. CASE i = 1
    BY <1>1, <2>2, <2>3 DEF Below
  <2>4. CASE i = 2
    <3>1. 1 \in DOMAIN work[j]
      BY <1>2, <2>1, <2>4 DEF IInv, TypeOK, WorkOK
    <3>2. work[j][1].c \in (1..used) \cup {NoConn}
      BY <2>1, <3>1, Uses
    <3> DEFINE c == work[j][1].c
    <3>3. ASSUME c \in open' PROVE j \in ViewAfter(c).rows
      <4> HIDE DEF c
      <4>1. c \in open /\ Below(View(c), ViewAfter(c))
        BY <3>2, <3>3, Older DEF c
      <4>2. j \in View(c).rows
        BY <2>2, <2>4, <4>1 DEF c
      <4> QED BY <4>1, <4>2 DEF Below
    <3> QED BY <2>1, <2>2, <2>4, <3>3
  <2> QED BY <2>2, <2>3, <2>4
<1>3. ASSUME k \in Clients, NEW i \in DOMAIN work'[k], work'[k][i].op = "return"
      PROVE  Good(k, i)
  <2>0. k # Agent /\ Op(k, 1) \in ClientOps /\ 1 \in DOMAIN work[k]
    BY <1>3, Acts, Whose DEF SqlAssumption
  <2>1. CASE Called(Op(k, 1), "return")
    <3>1. Insert(k)
      BY <2>1, Acts DEF Called
    <3> DEFINE s == <<On("commit", local[k]), Step("return")>>
               c == local[k]
    <3>2. Raise(k) \/ (k \in ViewAfter(c).rows /\ s \in Seq(Steps) /\ ThenWork(k, s))
      BY <1>3, <3>1, InsertCases
    <3>3. Len(s) = 2 /\ s[1].op = "commit" /\ s[1].c = c
      BY DEF On
    <3>4. CASE Raise(k)
      BY <1>3, <2>0, <3>4 DEF Raise, IInv, TypeOK, WorkOK
    <3>5. CASE k \in ViewAfter(c).rows /\ s \in Seq(Steps) /\ ThenWork(k, s)
      <4>1. Len(work[k]) = 1
        BY <1>3, <2>0, <2>1 DEF IInv, ClientSteps, Called
      <4> HIDE DEF s, c
      <4>2. /\ DOMAIN work'[k] = 1..(Len(s) + Len(work[k]) - 1)
            /\ \A n \in 1..Len(s) : work'[k][n] = s[n]
        BY <3>5, FromThen
      <4>3. work'[k][1] = s[1] /\ i \in 1..2
        BY <1>3, <3>3, <4>1, <4>2
      <4>4. i # 1
        BY <1>3, <3>3, <4>3
      <4> QED BY <3>3, <3>5, <4>3, <4>4
    <3> QED BY <3>2, <3>4, <3>5
  <2>2. ASSUME NEW m \in DOMAIN work[k], m >= 2, work'[k][i] = work[k][m],
               Len(work'[k]) - i = Len(work[k]) - m
        PROVE  Good(k, i)
    <3>1. m = 2 /\ Op(k, 1) = "commit" /\ (work[k][1].c \in open => k \in View(work[k][1].c).rows)
          /\ m = Len(work[k])
      BY <1>3, <2>2 DEF IInv, Written, ClientSteps, Op
    <3>2. Commit(k) /\ Head(work[k]) = work[k][1]
      BY <3>1, Acts
    <3>3. CASE Raise(k)
      BY <1>3, <2>0, <3>3 DEF Raise, IInv, TypeOK, WorkOK
    <3>4. CASE Head(work[k]).c \in open /\ disk' = View(Head(work[k]).c) /\ ThenWork(k, <<>>)
      <4>1. Len(work'[k]) = 1
        <5>1. Len(work'[k]) = Len(work[k]) - 1
          BY <3>4, FromNone
        <5> QED BY <3>1, <5>1
      <4>2. i = 1
        BY <1>1, <1>3, <4>1
      <4> QED BY <3>1, <3>2, <3>4, <4>2
    <3> QED BY <3>2, <3>3, <3>4, CommitCases
  <2> QED BY <1>3, <2>0, <2>1, <2>2, NextSteps
<1> QED BY <1>2, <1>3, ViewsAfter DEF Written, Op, View, ViewAfter, Durable

\* No step loses a saved row.
LEMMA SavedIsDurableKept ==
  ASSUME SqlAssumption, IInv, NEW k \in Tasks, StepOf(k)
  PROVE  SavedIsDurable'
<1>1. Frame(k) /\ Kept /\ StoreOK'
  BY StepsOK, Frames DEF StepOK
<1>2. ASSUME NEW j \in Clients, status'[j] = "saved" PROVE j \in disk'.rows
  <2>1. CASE status[j] = "saved"
    BY <1>1, <2>1 DEF IInv, SavedIsDurable, Kept, Below
  <2>2. CASE status[j] # "saved"
    <3>1. j = k /\ k # Agent
      BY <1>1, <1>2, <2>2 DEF Frame, SqlAssumption
    <3>2. Return(k)
      <4>1. ~Raise(k)
        BY <1>2, <3>1 DEF Raise, IInv, TypeOK
      <4>2. ~Fetch(k)
        BY <1>2, <3>1, <4>1 DEF Fetch, IInv, TypeOK
      <4> QED BY <1>2, <2>2, <3>1, <4>1, <4>2, Endings, Acts, Whose DEF ClientOps, Is, Op
    <3>3. 1 \in DOMAIN work[k] /\ Op(k, 1) = "return"
      BY <3>2, Acts, HeadFacts DEF Return
    <3> QED BY <1>1, <3>1, <3>3 DEF IInv, Written, Durable, Kept, Below
  <2> QED BY <2>1, <2>2
<1>3. ASSUME NEW j \in Clients, status'[j] = "saved", NEW c \in open' PROVE j \in View(c)'.rows
  <2>1. c \in Conns
    BY <1>1, <1>3 DEF StoreOK
  <2> QED BY <1>1, <1>2, <1>3, <2>1 DEF StoreOK, Transactions, View, Below
<1> QED BY <1>2, <1>3 DEF SavedIsDurable, View

\* The agent keeps to its steps.
LEMMA AgentStepsKept ==
  ASSUME SqlAssumption, IInv, NEW k \in Tasks, StepOf(k)
  PROVE  AgentSteps'
<1>1. Frame(k) /\ work' \in [Tasks -> Seq(Steps)] /\ Agent \in Tasks /\ work[k] # <<>>
  BY StepsOK, Frames, Acts DEF StepOK, TypeOK, WorkOK, Tasks
<1>2. CASE k # Agent
  <2>1. work'[Agent] = work[Agent] /\ phase' = phase
    BY <1>1, <1>2 DEF Frame
  <2> QED BY <2>1 DEF IInv, AgentSteps, Op
<1>3. CASE k = Agent /\ phase = "stopping"
  <2>1. work[Agent] \in {<<Step("close"), Step("clear")>>, <<Step("clear")>>}
    BY <1>3 DEF IInv, AgentSteps
  <2>2. Op(Agent, 1) \in {"close", "clear"}
    BY <1>1, <1>3, AgentOps
  <2>3. CASE Op(Agent, 1) = "close"
    <3>1. Close(Agent)
      BY <1>3, <2>3, Acts
    <3>2. work[Agent] = <<Step("close"), Step("clear")>>
      BY <2>1, <2>3 DEF Op, Step
    <3>3. CASE db = NoConn
      BY <1>1, <3>1, <3>3 DEF Close, AgentSteps, IInv, TypeOK, WorkOK
    <3>4. CASE db # NoConn
      <4>1. phase' = "stopping" /\ work'[Agent] = <<>> \o Tail(work[Agent])
        BY <1>1, <1>3, <3>1, <3>4 DEF Close, Done, Then, IInv, TypeOK, WorkOK
      <4>2. work'[Agent] = <<Step("clear")>>
        BY <3>2, <4>1
      <4> QED BY <4>1, <4>2 DEF AgentSteps
    <3> QED BY <3>3, <3>4
  <2>4. CASE Op(Agent, 1) = "clear"
    <3>1. Clear(Agent)
      BY <1>3, <2>4, Acts
    <3>2. work[Agent] = <<Step("clear")>>
      BY <2>1, <2>4 DEF Op, Step
    <3>3. phase' = "down" /\ work'[Agent] = <<>> \o Tail(work[Agent])
      BY <1>1, <3>1 DEF Clear, Done, Then, IInv, TypeOK, WorkOK
    <3>4. work'[Agent] = <<>>
      BY <3>2, <3>3
    <3> QED BY <3>3, <3>4 DEF AgentSteps
  <2> QED BY <2>2, <2>3, <2>4
<1>4. CASE k = Agent /\ phase # "stopping"
  <2>1. phase \in {"starting", "refreshing"} /\ Op(Agent, 1) \in StartSteps \cup {"ready"}
    BY <1>1, <1>4, AgentOps
  <2>2. /\ work[Agent][Len(work[Agent])] = Step("ready")
        /\ \A i \in 1..(Len(work[Agent]) - 1) : Op(Agent, i) \in StartSteps
        /\ Len(work[Agent]) \in Nat \ {0} /\ DOMAIN work[Agent] = 1..Len(work[Agent])
    BY <1>1, <1>4, <2>1 DEF IInv, AgentSteps, TypeOK, WorkOK
  <2>3. CASE Raise(Agent)
    <3>1. \/ phase' = "stopping" /\ work'[Agent] = <<Step("close"), Step("clear")>>
          \/ phase' = "stale" /\ work'[Agent] = <<>>
      BY <1>1, <2>3 DEF Raise, IInv, TypeOK, WorkOK
    <3> QED BY <3>1 DEF AgentSteps
  <2>4. CASE Op(Agent, 1) = "ready"
    <3>1. Ready(Agent)
      BY <1>4, <2>4, Acts
    <3>2. Len(work[Agent]) = 1
      <4> DEFINE n == Len(work[Agent])
      <4>1. n \in Nat \ {0} /\ \A i \in 1..(n - 1) : Op(Agent, i) \in StartSteps
        BY <2>2
      <4> HIDE DEF n
      <4>2. ~(1 \in 1..(n - 1))
        BY <2>4, <4>1 DEF StartSteps
      <4>3. n = 1
        BY <4>1, <4>2
      <4> QED BY <4>3 DEF n
    <3>3. Len(work'[Agent]) = Len(work[Agent]) - 1
      BY <1>1, <1>4, <3>1, DoneWork DEF Ready
    <3>4. work'[Agent] = <<>> /\ phase' = "up"
      BY <1>1, <3>1, <3>2, <3>3 DEF Ready
    <3> QED BY <3>4 DEF AgentSteps
  <2>5. CASE ~Raise(Agent) /\ Op(Agent, 1) \in StartSteps
    <3>1. phase' = phase
      BY <1>4, <2>5, Endings, HeadFacts DEF StartSteps
    <3>2. PICK s \in Seq(Steps) : Calling(Agent, s) /\ ThenWork(Agent, s)
      <4>1. ~Is(Agent, "close")
        BY <1>1, <2>5, HeadFacts DEF StartSteps
      <4> QED BY <1>4, <2>5, <4>1, StepsOK DEF StepOK, WorkMove
    <3>3. Len(work[Agent]) >= 2
      <4> DEFINE n == Len(work[Agent])
      <4>1. n \in Nat \ {0} /\ work[Agent][n] = Step("ready")
        BY <2>2
      <4>2. n # 1
        BY <2>5, <4>1 DEF StartSteps, Op, Step
      <4> HIDE DEF n
      <4>3. n >= 2
        BY <4>1, <4>2
      <4> QED BY <4>3 DEF n
    <3> DEFINE a == Len(s)
               b == Len(work[Agent])
               e == Len(work'[Agent])
    <3>4. /\ a \in Nat /\ b \in Nat /\ b >= 2 /\ e = a + b - 1 /\ DOMAIN work'[Agent] = 1..e
          /\ DOMAIN work[Agent] = 1..b
          /\ \A i \in 1..e :
                \/ i \in 1..a /\ work'[Agent][i] = s[i]
                \/ \E m \in 1..b : m >= 2 /\ i = m + a - 1 /\ work'[Agent][i] = work[Agent][m]
          /\ \A m \in 1..b : m >= 2 => work'[Agent][m + a - 1] = work[Agent][m]
      <4>1. /\ \A i \in DOMAIN work'[Agent] :
                  \/ i \in 1..Len(s) /\ work'[Agent][i] = s[i]
                  \/ \E m \in DOMAIN work[Agent] :
                       m >= 2 /\ i = m + Len(s) - 1 /\ work'[Agent][i] = work[Agent][m]
            /\ \A m \in DOMAIN work[Agent] :
                  m >= 2 => work'[Agent][m + Len(s) - 1] = work[Agent][m]
            /\ DOMAIN work'[Agent] = 1..(Len(s) + Len(work[Agent]) - 1)
            /\ Len(work'[Agent]) = Len(s) + Len(work[Agent]) - 1
            /\ DOMAIN work[Agent] = 1..Len(work[Agent]) /\ Len(work[Agent]) \in Nat /\ Len(s) \in Nat
        BY <1>1, <3>2, FromThen
      <4> HIDE DEF a, b, e
      <4>2. /\ a \in Nat /\ b \in Nat /\ b >= 2 /\ e = a + b - 1 /\ DOMAIN work'[Agent] = 1..e
            /\ DOMAIN work[Agent] = 1..b
        BY <3>3, <4>1 DEF a, b, e
      <4>3. \A i \in DOMAIN work'[Agent] :
              \/ i \in 1..a /\ work'[Agent][i] = s[i]
              \/ \E m \in DOMAIN work[Agent] : m >= 2 /\ i = m + a - 1 /\ work'[Agent][i] = work[Agent][m]
        BY <4>1 DEF a
      <4>4. \A m \in DOMAIN work[Agent] : m >= 2 => work'[Agent][m + a - 1] = work[Agent][m]
        BY <4>1 DEF a
      <4> QED BY <4>2, <4>3, <4>4
    <3>5. \A i \in 1..a : Called(Op(Agent, 1), s[i].op)
      BY <3>2 DEF Calling
    <3>6. work[Agent][b] = Step("ready") /\ \A i \in 1..(b - 1) : Op(Agent, i) \in StartSteps
      BY <2>2
    <3> HIDE DEF a, b, e
    <3>7. work'[Agent][e] = Step("ready") /\ e >= 1
      <4>1. b \in 1..b /\ b + a - 1 = e
        BY <3>4
      <4> QED BY <3>4, <3>6, <4>1
    <3>8. ASSUME NEW i \in 1..(e - 1) PROVE work'[Agent][i].op \in StartSteps
      <4>1. CASE i \in 1..a /\ work'[Agent][i] = s[i]
        BY <2>5, <3>5, <4>1 DEF Called, StartSteps
      <4>2. ASSUME NEW m \in 1..b, i = m + a - 1, work'[Agent][i] = work[Agent][m]
            PROVE  work'[Agent][i].op \in StartSteps
        <5>1. m \in 1..(b - 1)
          BY <3>4, <3>8, <4>2
        <5> QED BY <3>6, <4>2, <5>1 DEF Op
      <4>3. i \in 1..e
        BY <3>4
      <4> QED BY <3>4, <4>1, <4>2, <4>3
    <3>9. work'[Agent] # <<>>
      BY <3>4, <3>7 DEF e
    <3> QED BY <2>1, <3>1, <3>7, <3>8, <3>9 DEF AgentSteps, Op, e
  <2> QED BY <2>1, <2>3, <2>4, <2>5
<1> QED BY <1>2, <1>3, <1>4

\* Nobody who does not run starts to.
LEMMA FineWas ==
  ASSUME SqlAssumption, IInv, NEW k \in Tasks, StepOf(k), NEW j \in Clients,
         status'[j] = "running", j \notin excused'
  PROVE  Fine(j)
<1>1. status[j] = "running"
  <2>1. CASE j = k
    BY <2>1, Acts, Whose DEF SqlAssumption
  <2>2. CASE j # k
    BY <2>2, Frames DEF Frame
  <2> QED BY <2>1, <2>2
<1> QED BY <1>1, Frames DEF Frame, Fine

\* A client without an excuse has an open connection.
LEMMA FineOpen ==
  ASSUME SqlAssumption, IInv, NEW j \in Clients, Fine(j)
  PROVE  db \in open /\ db # NoConn /\ FineSteps(j) /\ db \in Conns
<1>1. FineSteps(j)
  BY DEF IInv, FineClients
<1>2. db \in open /\ open \subseteq Conns
  BY <1>1, TypeParts DEF IInv, StoreOK, FineSteps
<1> QED BY <1>1, <1>2 DEF SqlAssumption

\* A starting or refreshing agent is at a step of a start, or at the end of it.
LEMMA FirstStep ==
  ASSUME NEW w \in Seq(Steps), w # <<>>, w[Len(w)] = Step("ready"),
         \A i \in 1..(Len(w) - 1) : w[i].op \in StartSteps
  PROVE  Head(w) = w[1] /\ w[1].op \in StartSteps \cup {"ready"}
<1> DEFINE n == Len(w)
<1>1. n \in Nat \ {0} /\ Head(w) = w[1] /\ w[n].op = "ready" /\ \A i \in 1..(n - 1) : w[i].op \in StartSteps
  BY DEF Step
<1> HIDE DEF n
<1>2. n = 1 \/ 1 \in 1..(n - 1)
  BY <1>1
<1> QED BY <1>1, <1>2

\* What a task finds that calls _get_db().
LEMMA GetCases ==
  ASSUME SqlAssumption, IInv, NEW k \in Tasks, GetDb(k)
  PROVE  \/ db # NoConn /\ ThenWork(k, <<>>) /\ local'[k] = db
         \/ /\ db = NoConn /\ work'[k] # <<>> /\ work'[k][1] = Step("connect")
            /\ Head(work'[k]) = work'[k][1]
<1> DEFINE s == <<Step("connect"), Step("got")>>
<1>1. work[k] # <<>> /\ work \in [Tasks -> Seq(Steps)] /\ work[k] \in Seq(Steps)
  BY HeadFacts DEF GetDb, IInv, TypeOK, WorkOK
<1>2. CASE db # NoConn
  <2>1. ThenWork(k, <<>>)
    BY <1>1, <1>2, DoneWork DEF GetDb
  <2>2. local'[k] = db
    BY <1>2 DEF GetDb, IInv, TypeOK
  <2> QED BY <1>2, <2>1, <2>2
<1>3. CASE db = NoConn
  <2>1. Then(k, s) /\ s \in Seq(Steps) /\ Len(s) = 2 /\ s[1] = Step("connect")
    BY <1>3, StepTypes DEF GetDb
  <2> HIDE DEF s
  <2>2. ThenWork(k, s)
    BY <1>1, <2>1, Thens
  <2>3. work'[k][1] = s[1] /\ 1 \in DOMAIN work'[k]
    BY <1>1, <2>1, <2>2, FromThen
  <2>4. work'[k] \in Seq(Steps)
    BY <2>2 DEF ThenWork
  <2> QED BY <1>3, <2>1, <2>3, <2>4
<1> QED BY <1>2, <1>3

\* The connection of the storage stays open.
LEMMA ConnectedKept ==
  ASSUME SqlAssumption, IInv, NEW k \in Tasks, StepOf(k)
  PROVE  Connected'
<1>1. /\ Frame(k) /\ work' \in [Tasks -> Seq(Steps)] /\ Agent \in Tasks /\ work[k] # <<>>
      /\ AgentSteps' /\ open' \subseteq Conns
  BY StepsOK, Frames, Acts, AgentStepsKept DEF StepOK, TypeOK, WorkOK, Tasks, StoreOK
<1>2. ASSUME Is(k, "connect") PROVE db' = used' /\ used' \in open' /\ db' # NoConn
  <2>1. Connect(k)
    BY <1>2, HeadFacts, Acts
  <2> QED BY <1>1, <2>1 DEF Connect, SqlAssumption
<1>3. \A j \in Clients : Fine(j)' => Fine(j)
  BY FineWas DEF Fine
<1>4. CASE k # Agent
  <2>1. work'[Agent] = work[Agent] /\ phase' = phase /\ (Is(Agent, "clear")' <=> Is(Agent, "clear"))
    BY <1>1, <1>4 DEF Frame, Is
  <2>2. ~Is(k, "close") /\ ~Is(k, "clear")
    <3>1. \A op : Is(k, op) => Op(k, 1) = op
      BY HeadFacts
    <3> QED BY <1>1, <1>4, <3>1, Whose DEF ClientOps
  <2>3. open \subseteq open' /\ (db' = db \/ (db' \in open' /\ db' # NoConn))
    BY <1>1, <1>2, <2>2 DEF Frame
  <2> QED BY <1>3, <2>1, <2>3 DEF IInv, Connected, Op
<1>5. CASE k = Agent /\ phase = "stopping"
  <2>1. Op(Agent, 1) \in {"close", "clear"} /\ work[Agent] # <<>>
    BY <1>1, <1>5, AgentOps
  <2>2. CASE Op(Agent, 1) = "clear"
    <3>1. Clear(Agent) /\ Is(Agent, "clear")
      BY <1>5, <2>2, Acts
    <3>2. db' = NoConn /\ phase' = "down" /\ \A j \in Clients : ~Fine(j)
      BY <3>1 DEF Clear, IInv, Connected
    <3> QED BY <1>3, <3>2 DEF Connected
  <2>3. CASE Op(Agent, 1) = "close" /\ db = NoConn
    <3>1. Close(Agent)
      BY <1>5, <2>3, Acts
    <3>2. db' = NoConn /\ phase' = "down"
      BY <2>3, <3>1 DEF Close
    <3>3. \A j \in Clients : ~Fine(j)
      BY <2>3, FineOpen
    <3> QED BY <1>3, <3>2, <3>3 DEF Connected
  <2>4. CASE Op(Agent, 1) = "close" /\ db # NoConn
    <3>1. Close(Agent)
      BY <1>5, <2>4, Acts
    <3>2. phase' = "stopping" /\ work'[Agent] = <<>> \o Tail(work[Agent]) /\ status' = status
          /\ excused' = excused \cup {s \in Clients : status[s] = "running"}
      BY <1>1, <1>5, <2>4, <3>1 DEF Close, Done, Then, IInv, TypeOK, WorkOK
    <3>3. work[Agent] = <<Step("close"), Step("clear")>>
      BY <1>5, <2>4 DEF IInv, AgentSteps, Op, Step
    <3>4. work'[Agent] = <<Step("clear")>>
      BY <3>2, <3>3
    <3>5. Is(Agent, "clear")'
      BY <3>4 DEF Is, Step
    <3>6. \A j \in Clients : ~Fine(j)'
      BY <3>2 DEF Fine
    <3> QED BY <3>2, <3>5, <3>6 DEF Connected
  <2> QED BY <2>1, <2>2, <2>3, <2>4
<1>6. CASE k = Agent /\ phase # "stopping"
  <2>1. /\ phase \in {"starting", "refreshing"} /\ Op(Agent, 1) \in StartSteps \cup {"ready"}
        /\ work[Agent] # <<>> /\ \A op : Is(Agent, op) => Op(Agent, 1) = op
    BY <1>1, <1>6, AgentOps, HeadFacts
  <2>2. ~Is(Agent, "clear") /\ ~Is(Agent, "close")
    BY <2>1 DEF StartSteps
  <2>3. (db # NoConn => db \in open) /\ open \subseteq open' /\ (db' = db \/ (db' \in open' /\ db' # NoConn))
    BY <1>1, <1>2, <1>6, <2>2 DEF IInv, Connected, Frame
  <2>4. phase' \in {"starting", "refreshing"} => ~Is(Agent, "clear")'
    <3> SUFFICES ASSUME phase' \in {"starting", "refreshing"} PROVE ~Is(Agent, "clear")'
      OBVIOUS
    <3> DEFINE w == work'[Agent]
    <3>1. w \in Seq(Steps) /\ w # <<>> /\ w[Len(w)] = Step("ready")
          /\ \A i \in 1..(Len(w) - 1) : w[i].op \in StartSteps
      BY <1>1 DEF AgentSteps, Op
    <3> HIDE DEF w
    <3>2. Head(w) = w[1] /\ w[1].op \in StartSteps \cup {"ready"}
      BY <3>1, FirstStep
    <3> QED BY <3>2 DEF Is, StartSteps, w
  <2>5. phase' \in {"stale", "up", "down"} => ~Is(Agent, "clear")'
    BY <1>1 DEF AgentSteps, Is
  <2>6. CASE Raise(Agent)
    <3>1. \/ phase' = "stopping" /\ work'[Agent] = <<Step("close"), Step("clear")>> /\ phase = "starting"
          \/ phase' = "stale" /\ phase = "refreshing"
      BY <1>1, <2>1, <2>6 DEF Raise, IInv, TypeOK, WorkOK
    <3>2. ~Is(Agent, "clear")'
      BY <2>5, <3>1 DEF Is, Step
    <3>3. phase = "refreshing" => db # NoConn
      BY DEF IInv, Connected
    <3> QED BY <2>3, <3>1, <3>2, <3>3 DEF Connected
  <2>7. CASE Is(Agent, "ready") /\ phase' = "up"
    <3>1. db # NoConn
      BY <2>1, <2>7 DEF IInv, Connected
    <3> QED BY <2>3, <2>5, <2>7, <3>1 DEF Connected
  <2>8. CASE ~Raise(Agent) /\ phase' = phase
    <3>1. ASSUME phase' = "starting", db' = NoConn PROVE Op(Agent, 1)' \in {"get", "connect"}
      <4>1. db = NoConn /\ Op(Agent, 1) \in {"get", "connect"}
        BY <2>1, <2>3, <2>8, <3>1 DEF IInv, Connected
      <4>2. ~Is(Agent, "connect")
        BY <1>2, <1>6, <3>1
      <4>3. GetDb(Agent)
        BY <1>6, <4>1, <4>2, Acts
      <4>4. work'[Agent][1] = Step("connect")
        BY <1>1, <4>1, <4>3, GetCases
      <4> QED BY <4>4 DEF Op, Step
    <3>2. phase = "starting" => \A j \in Clients : ~Fine(j)
      BY DEF IInv, Connected
    <3>3. phase = "refreshing" => db # NoConn
      BY DEF IInv, Connected
    <3> QED BY <1>3, <2>1, <2>3, <2>4, <2>8, <3>1, <3>2, <3>3 DEF Connected
  <2> QED BY <1>6, <2>1, <2>2, <2>6, <2>7, <2>8, Endings, HeadFacts DEF StartSteps
<1> QED BY <1>4, <1>5, <1>6

\* The dialog table is there, or made, or the agent fails.
LEMMA CreateCases ==
  ASSUME SqlAssumption, IInv, NEW k \in Tasks, CreateDialog(k)
  PROVE  LET c == Head(work[k]).c
         IN Raise(k) \/ (c \in open /\ ViewAfter(c).dialog # {} /\ ThenWork(k, <<>>))
<1> DEFINE c == Head(work[k]).c
           new == IF View(c).dialog # {} THEN View(c) ELSE [View(c) EXCEPT !.dialog = Base]
<1>1. work[k] # <<>> /\ StoreOK /\ open' = open /\ open \subseteq Conns
  BY HeadFacts, TypeParts DEF CreateDialog, process, IInv, StoreOK
<1>2. CASE c \in open /\ (View(c).dialog # {} \/ MayWrite(c))
  <2>1. Define(c, new) /\ Done(k)
    BY <1>2 DEF CreateDialog
  <2>2. c \in Conns
    BY <1>1, <1>2
  <2>3. /\ new \in Contents /\ Below(View(c), new) /\ DialogMade(new)
        /\ MayWrite(c) \/ new = View(c)
        /\ new.dialog # {}
    <3>1. View(c) \in Contents /\ DialogMade(View(c)) /\ Base # {} /\ Base \subseteq DialogColumns
      BY <2>2, ViewFacts DEF SqlAssumption, DialogColumns
    <3>2. new.dialog # {}
      BY <3>1 DEF Contents
    <3> QED BY <1>2, <3>1, <3>2 DEF Contents, Below, DialogMade
  <2> HIDE DEF c, new
  <2>4. ViewAfter(c) = new
    BY <1>1, <1>2, <2>1, <2>3, StoreDefine, ViewsAfter
  <2>5. ThenWork(k, <<>>)
    BY <1>1, <2>1, DoneWork
  <2> QED BY <1>2, <2>3, <2>4, <2>5 DEF c
<1> QED BY <1>2 DEF CreateDialog

\* A connection is new, and first makes the dialog table.
LEMMA ConnectCases ==
  ASSUME SqlAssumption, IInv, NEW k \in Tasks, Connect(k)
  PROVE  /\ db' = used' /\ db' \in Conns /\ phase' = phase
         /\ work'[k] \in Seq(Steps) /\ Len(work'[k]) >= 2
         /\ Head(work'[k]) = On("create", used') /\ work'[k][2] = On("commit", used')
<1>1. work[k] # <<>> /\ work \in [Tasks -> Seq(Steps)] /\ used' \in Conns /\ db' = used' /\ phase' = phase
  <2>1. used \in Nat /\ used < MaxConns /\ used' = used + 1
    BY HeadFacts DEF Connect
  <2> QED BY <2>1, HeadFacts DEF Connect, IInv, TypeOK, WorkOK, Conns, quiet, SqlAssumption
<1> DEFINE s == InitDb(used')
<1>2. s \in Seq(Steps) /\ Len(s) = 7 /\ s[1] = On("create", used') /\ s[2] = On("commit", used')
  <2>1. Base \in SUBSET DialogColumns /\ Registered \in SUBSET DialogColumns
    BY DEF DialogColumns
  <2> QED BY <1>1, <2>1, StepTypes DEF InitDb
<1>3. Then(k, s)
  BY DEF Connect
<1> HIDE DEF s
<1>4. ThenWork(k, s)
  BY <1>1, <1>2, <1>3, Thens
<1>5. /\ work'[k] \in Seq(Steps)
      /\ \A i \in 1..Len(s) : work'[k][i] = s[i] /\ i \in DOMAIN work'[k]
      /\ Len(work'[k]) = Len(s) + Len(work[k]) - 1 /\ Len(work[k]) \in Nat
  BY <1>1, <1>2, <1>4, FromThen DEF ThenWork
<1>6. work'[k][1] = s[1] /\ work'[k][2] = s[2] /\ 1 \in DOMAIN work'[k] /\ Len(work'[k]) >= 2
  BY <1>2, <1>5
<1> QED BY <1>1, <1>2, <1>5, <1>6

\* The dialog table is made before anybody uses it.
LEMMA DialogFirstKept ==
  ASSUME SqlAssumption, IInv, NEW k \in Tasks, StepOf(k)
  PROVE  DialogFirst'
<1> SUFFICES ASSUME disk'.dialog = {}
             PROVE  /\ \A j \in Clients : status'[j] # "running"
                    /\ phase' \in {"down", "starting", "stopping"}
                    /\ phase' = "down" => db' = NoConn
                    /\ (phase' = "starting" /\ db' # NoConn) =>
                         \/ /\ work'[Agent] # <<>> /\ Head(work'[Agent]).op = "create"
                            /\ Head(work'[Agent]).c = db' /\ work'[Agent][2] = On("commit", db')
                         \/ /\ work'[Agent] # <<>> /\ Head(work'[Agent]).op = "commit"
                            /\ Head(work'[Agent]).c = db' /\ ViewAfter(db').dialog # {}
  BY ViewsAfter DEF DialogFirst, Is, View, ViewAfter
<1>1. /\ Frame(k) /\ work \in [Tasks -> Seq(Steps)] /\ Agent \in Tasks /\ work[k] # <<>>
      /\ disk.dialog = {}
  BY StepsOK, Frames, Acts DEF StepOK, Kept, Below, IInv, TypeOK, WorkOK, Tasks
<1>2. /\ \A j \in Clients : status[j] # "running"
      /\ phase \in {"down", "starting", "stopping"}
      /\ (phase = "starting" /\ db # NoConn) =>
           \/ Is(Agent, "create") /\ Head(work[Agent]).c = db /\ work[Agent][2] = On("commit", db)
           \/ Is(Agent, "commit") /\ Head(work[Agent]).c = db /\ View(db).dialog # {}
  BY <1>1 DEF IInv, DialogFirst
<1>3. k = Agent /\ status' = status
  BY <1>1, <1>2, Whose DEF Frame
<1>4. \A op : Is(Agent, op) => Op(Agent, 1) = op
  BY <1>3, HeadFacts
<1>5. CASE phase = "stopping"
  <2>1. Op(Agent, 1) \in {"close", "clear"}
    BY <1>1, <1>3, <1>5, AgentOps
  <2>2. Close(Agent) \/ Clear(Agent)
    BY <1>3, <2>1, Acts
  <2> QED BY <1>2, <1>3, <1>5, <2>2 DEF Close, Clear
<1>6. CASE phase = "starting" /\ db = NoConn
  <2>1. Op(Agent, 1) \in {"get", "connect"}
    BY <1>6 DEF IInv, Connected
  <2>2. CASE GetDb(Agent)
    BY <1>2, <1>3, <1>6, <2>2 DEF GetDb, process, quiet
  <2>3. CASE Connect(Agent)
    <3>1. /\ db' = used' /\ phase' = phase /\ Len(work'[Agent]) >= 2
          /\ Head(work'[Agent]) = On("create", used') /\ work'[Agent][2] = On("commit", used')
      BY <1>1, <2>3, ConnectCases
    <3> QED BY <1>2, <1>3, <1>6, <3>1 DEF On
  <2> QED BY <1>3, <2>1, <2>2, <2>3, Acts
<1>7. CASE phase = "starting" /\ db # NoConn
  <2>1. CASE Raise(Agent)
    BY <1>2, <1>3, <1>7, <2>1 DEF Raise
  <2>2. ASSUME ~Raise(Agent), Is(Agent, "create"), Head(work[Agent]).c = db,
               work[Agent][2] = On("commit", db)
        PROVE  /\ phase' = "starting" /\ db' = db /\ work'[Agent] # <<>>
               /\ Head(work'[Agent]) = On("commit", db) /\ ViewAfter(db).dialog # {}
    <3>1. CreateDialog(Agent)
      BY <1>3, <1>4, <2>2, Acts
    <3>2. ViewAfter(db).dialog # {} /\ ThenWork(Agent, <<>>)
      BY <1>1, <2>2, <3>1, CreateCases
    <3>3. phase' = phase /\ db' = db
      BY <2>2, <3>1 DEF CreateDialog, quiet, process
    <3>4. Len(work[Agent]) >= 2 /\ 2 \in DOMAIN work[Agent]
      <4> DEFINE n == Len(work[Agent])
      <4>1. n \in Nat \ {0} /\ DOMAIN work[Agent] = 1..n /\ work[Agent][n].op = "ready"
        BY <1>1, <1>3, <1>7 DEF IInv, AgentSteps, Step
      <4>2. Op(Agent, 1) = "create"
        BY <1>4, <2>2
      <4> HIDE DEF n
      <4>3. n # 1
        BY <4>1, <4>2 DEF Op
      <4>4. n >= 2 /\ 2 \in DOMAIN work[Agent]
        BY <4>1, <4>3
      <4> QED BY <4>4 DEF n
    <3>5. 1 \in DOMAIN work'[Agent] /\ work'[Agent][1] = work[Agent][2]
      <4>1. \A m \in DOMAIN work[Agent] :
              m >= 2 => m - 1 \in DOMAIN work'[Agent] /\ work'[Agent][m - 1] = work[Agent][m]
        BY <1>1, <3>2, FromNone
      <4>2. 2 - 1 \in DOMAIN work'[Agent] /\ work'[Agent][2 - 1] = work[Agent][2]
        BY <3>4, <4>1
      <4> QED BY <4>2
    <3>6. work'[Agent] \in Seq(Steps)
      BY <1>1, <3>2 DEF ThenWork
    <3> QED BY <1>7, <2>2, <3>2, <3>3, <3>5, <3>6
  <2>3. ASSUME ~Raise(Agent), Is(Agent, "commit"), Head(work[Agent]).c = db, View(db).dialog # {}
        PROVE  FALSE
    <3>1. Commit(Agent)
      BY <1>3, <1>4, <2>3, Acts
    <3>2. disk' = View(db)
      BY <1>1, <2>3, <3>1, CommitCases
    <3> QED BY <2>3, <3>2
  <2> QED BY <1>2, <1>3, <1>7, <2>1, <2>2, <2>3 DEF On
<1> QED BY <1>1, <1>2, <1>3, <1>5, <1>6, <1>7, AgentOps

-----------------------------------------------------------------------------
(* The calls that succeed                                                  *)

\* More connections do no harm to what is left,
LEMMA MoreOpen ==
  ASSUME NEW w, NEW o, NEW p, Usable(w, o), o \subseteq p
  PROVE  Usable(w, p)
BY DEF Usable

\* and neither do more columns.
LEMMA MoreColumns ==
  ASSUME NEW w, NEW S, NEW T, Provided(w, S), S \subseteq T
  PROVE  Provided(w, T)
BY DEF Provided

\* The steps of coroutines that were called work on open connections.
LEMMA UsableThen ==
  ASSUME SqlAssumption, IInv, NEW k \in Tasks, NEW s \in Seq(Steps), ThenWork(k, s),
         NEW o, Usable(work[k], o),
         \A i \in 1..Len(s) :
           /\ s[i].op \in {"alter", "altered", "recheck", "commit", "return"}
           /\ s[i].op # "return" => s[i].c \in o
  PROVE  Usable(work'[k], o)
<1> SUFFICES ASSUME NEW i \in DOMAIN work'[k]
             PROVE  /\ work'[k][i].op \notin {"connect", "got", "create", "versions", "known"}
                    /\ work'[k][i].op \in {"alter", "altered", "recheck", "commit"} => work'[k][i].c \in o
                    /\ work'[k][i].op = "get" => i = 1
  BY DEF Usable
<1>1. CASE i \in 1..Len(s) /\ work'[k][i] = s[i]
  BY <1>1
<1>2. ASSUME NEW m \in DOMAIN work[k], m >= 2, work'[k][i] = work[k][m]
      PROVE  /\ work'[k][i].op \notin {"connect", "got", "create", "versions", "known", "get"}
             /\ work'[k][i].op \in {"alter", "altered", "recheck", "commit"} => work'[k][i].c \in o
  <2>1. m # 1
    BY <1>2 DEF IInv, TypeOK, WorkOK
  <2> QED BY <1>2, <2>1 DEF Usable
<1>3. \/ i \in 1..Len(s) /\ work'[k][i] = s[i]
      \/ \E m \in DOMAIN work[k] : m >= 2 /\ work'[k][i] = work[k][m]
  BY FromThen
<1> QED BY <1>1, <1>2, <1>3

\* What the step asked for is there, or asked for by the steps it gives.
LEMMA ProvidedThen ==
  ASSUME SqlAssumption, IInv, NEW k \in Tasks, work[k] # <<>>, NEW s \in Seq(Steps), ThenWork(k, s),
         NEW S, NEW T, S \subseteq T, Provided(work[k], S),
         \A i \in 1..Len(s) : /\ s[i].op \notin {"insert", "fetch"}
                              /\ s[i].op = "recheck" => i = 1 /\ s[i].arg \in T,
         \A x : Asked(work[k][1], x) => x \in T \/ \E i \in 1..Len(s) : Asked(s[i], x)
  PROVE  Provided(work'[k], T)
<1> SUFFICES ASSUME NEW i \in DOMAIN work'[k]
             PROVE  /\ work'[k][i].op = "recheck" => i = 1 /\ work'[k][i].arg \in T
                    /\ work'[k][i].op \in {"insert", "fetch"} =>
                         \/ work'[k][i].arg \in T
                         \/ \E j \in DOMAIN work'[k] : j < i /\ Asked(work'[k][j], work'[k][i].arg)
  BY DEF Provided
<1>0. /\ DOMAIN work[k] = 1..Len(work[k]) /\ Len(work[k]) \in Nat /\ Len(s) \in Nat
      /\ \A m \in DOMAIN work[k] :
           m >= 2 => m + Len(s) - 1 \in DOMAIN work'[k] /\ work'[k][m + Len(s) - 1] = work[k][m]
      /\ \A n \in 1..Len(s) : n \in DOMAIN work'[k] /\ work'[k][n] = s[n]
  BY FromThen
<1>1. CASE i \in 1..Len(s) /\ work'[k][i] = s[i]
  BY <1>1
<1>2. ASSUME NEW m \in DOMAIN work[k], m >= 2, i = m + Len(s) - 1, work'[k][i] = work[k][m]
      PROVE  /\ work'[k][i].op # "recheck"
             /\ work'[k][i].op \in {"insert", "fetch"} =>
                  \/ work'[k][i].arg \in T
                  \/ \E j \in DOMAIN work'[k] : j < i /\ Asked(work'[k][j], work'[k][i].arg)
  <2>1. m # 1 /\ m \in Nat
    BY <1>0, <1>2
  <2>2. work[k][m].op # "recheck"
    BY <2>1 DEF Provided
  <2> SUFFICES ASSUME work[k][m].op \in {"insert", "fetch"}, work[k][m].arg \notin T
               PROVE  \E j \in DOMAIN work'[k] : j < i /\ Asked(work'[k][j], work[k][m].arg)
    BY <1>2, <2>2
  <2> DEFINE x == work[k][m].arg
  <2>3. PICK j \in DOMAIN work[k] : j < m /\ Asked(work[k][j], x)
    BY DEF Provided
  <2> HIDE DEF x
  <2>4. CASE j = 1
    <3>1. PICK n \in 1..Len(s) : Asked(s[n], x)
      BY <2>3, <2>4 DEF x
    <3>2. n \in DOMAIN work'[k] /\ work'[k][n] = s[n] /\ n < i
      BY <1>0, <1>2, <2>1
    <3> QED BY <3>1, <3>2 DEF x
  <2>5. CASE j # 1
    <3>1. j >= 2 /\ j \in Nat
      BY <1>0, <2>5
    <3>2. j + Len(s) - 1 \in DOMAIN work'[k] /\ work'[k][j + Len(s) - 1] = work[k][j]
      BY <1>0, <3>1
    <3>3. j + Len(s) - 1 < i
      BY <1>0, <1>2, <2>1, <2>3, <3>1
    <3> QED BY <2>3, <3>2, <3>3 DEF x
  <2> QED BY <2>4, <2>5
<1>3. \/ i \in 1..Len(s) /\ work'[k][i] = s[i]
      \/ \E m \in DOMAIN work[k] : m >= 2 /\ i = m + Len(s) - 1 /\ work'[k][i] = work[k][m]
  BY FromThen
<1> QED BY <1>1, <1>2, <1>3

\* While a client gets no excuse its connection is not closed.
LEMMA FineFrame ==
  ASSUME SqlAssumption, IInv, NEW k \in Tasks, StepOf(k), NEW j \in Clients,
         status'[j] = "running", j \notin excused'
  PROVE  /\ Fine(j) /\ FineSteps(j) /\ db \in open /\ db \in Conns
         /\ db' \in open' /\ open \subseteq open'
         /\ open' = {db'} => open = {db} /\ db' = db /\ known' \subseteq ViewAfter(db).dialog
         /\ Below(View(db), ViewAfter(db))
<1>1. Fine(j) /\ FineSteps(j) /\ db \in open /\ db # NoConn /\ db \in Conns
  BY FineWas, FineOpen
<1>2. /\ Frame(k) /\ KnownMove(k) /\ Kept /\ open \subseteq 1..used /\ used \in Nat
      /\ \A op : Is(k, op) => Op(k, 1) = op
  BY StepsOK, Frames, Typed, HeadFacts DEF StepOK, IInv, TypeOK
<1>3. ~Is(k, "clear")
  <2>1. Is(k, "clear") => k = Agent
    BY <1>2, Acts, Whose DEF ClientOps
  <2> QED BY <1>1, <2>1 DEF IInv, Connected
<1>4. ~Is(k, "close")
  <2> SUFFICES ASSUME Is(k, "close") PROVE FALSE
    OBVIOUS
  <2>1. Close(k)
    BY <1>2, Acts
  <2> QED BY <1>1, <2>1 DEF Close, Fine
<1>5. \/ db' = db /\ open' = open
      \/ db' = used' /\ open' = open \cup {used'} /\ used' = used + 1
  <2>1. CASE Is(k, "connect")
    <3>1. Connect(k)
      BY <1>2, <2>1, Acts
    <3> QED BY <3>1 DEF Connect
  <2>2. CASE ~Is(k, "connect")
    BY <1>2, <1>3, <1>4, <2>2 DEF Frame
  <2> QED BY <2>1, <2>2
<1>6. db' \in open' /\ open \subseteq open'
  BY <1>1, <1>5
<1>7. open' = {db'} => open = {db} /\ db' = db
  <2>1. used + 1 \notin open
    BY <1>2
  <2> QED BY <1>1, <1>5, <2>1
<1>8. Below(View(db), ViewAfter(db))
  BY <1>1, <1>2, <1>6, ViewsAfter DEF Kept
<1>9. ASSUME open = {db} PROVE known' \subseteq ViewAfter(db).dialog
  <2>1. known \subseteq View(db).dialog /\ View(db).dialog \subseteq ViewAfter(db).dialog
    BY <1>1, <1>8, <1>9 DEF FineSteps, Below
  <2>2. CASE \E c \in open : known' = View(c).dialog
    BY <1>9, <2>1, <2>2
  <2>3. CASE Is(k, "altered") /\ Head(work[k]).c \in open /\ known' = known \cup {Head(work[k]).arg}
    <3>1. Head(work[k]).arg \in View(Head(work[k]).c).dialog
      <4>1. 1 \in DOMAIN work[k] /\ Head(work[k]) = work[k][1] /\ Op(k, 1) = "altered"
        BY <1>2, <2>3, Acts
      <4> QED BY <2>3, <4>1 DEF IInv, AlteredIsThere
    <3>2. Head(work[k]).c = db
      BY <1>9, <2>3
    <3> QED BY <2>1, <2>3, <3>1, <3>2
  <2> QED BY <1>2, <2>1, <2>2, <2>3 DEF KnownMove
<1> QED BY <1>1, <1>6, <1>7, <1>8, <1>9

\* FineSteps after a step.
FineAfter(j) ==
  /\ db' \in open'
  /\ Usable(work'[j], open')
  /\ work'[j] # <<>> => work'[j][1].op = "get" \/ local'[j] \in open'
  /\ open' = {db'} =>
       known' \subseteq ViewAfter(db').dialog /\ Provided(work'[j], ViewAfter(db').dialog)

\* A step of one task leaves the others what they need,
LEMMA FineOthers ==
  ASSUME SqlAssumption, IInv, NEW k \in Tasks, StepOf(k), NEW j \in Clients, j # k,
         status'[j] = "running", j \notin excused'
  PROVE  FineAfter(j)
<1>1. /\ FineSteps(j) /\ db \in open /\ db' \in open' /\ open \subseteq open'
      /\ open' = {db'} => open = {db} /\ db' = db /\ known' \subseteq ViewAfter(db).dialog
      /\ Below(View(db), ViewAfter(db))
  BY FineFrame
<1>2. work'[j] = work[j] /\ local'[j] = local[j]
  BY Frames DEF Frame, Tasks
<1>3. Usable(work'[j], open')
  BY <1>1, <1>2, MoreOpen DEF FineSteps
<1>4. open' = {db'} => Provided(work'[j], ViewAfter(db').dialog)
  <2> SUFFICES ASSUME open' = {db'} PROVE Provided(work'[j], ViewAfter(db').dialog)
    OBVIOUS
  <2>1. Provided(work[j], View(db).dialog) /\ View(db).dialog \subseteq ViewAfter(db).dialog /\ db' = db
    BY <1>1 DEF FineSteps, Below
  <2> QED BY <1>2, <2>1, MoreColumns
<1>5. work'[j] # <<>> => work'[j][1].op = "get" \/ local'[j] \in open'
  BY <1>1, <1>2 DEF FineSteps, Op
<1> QED BY <1>1, <1>3, <1>4, <1>5 DEF FineAfter

\* The client's own step gave it the steps s.
LEMMA FineThen ==
  ASSUME SqlAssumption, IInv, NEW k \in Clients, StepOf(k), status'[k] = "running", k \notin excused',
         local'[k] \in open,
         NEW s \in Seq(Steps), ThenWork(k, s),
         \A i \in 1..Len(s) :
           /\ s[i].op \in {"alter", "altered", "recheck", "commit", "return"}
           /\ s[i].op # "return" => s[i].c \in open
           /\ (s[i].op = "recheck" /\ open = {db}) => i = 1 /\ s[i].arg \in ViewAfter(db).dialog,
         open = {db} =>
           \A x : Asked(work[k][1], x) =>
             x \in ViewAfter(db).dialog \/ \E i \in 1..Len(s) : Asked(s[i], x)
  PROVE  FineAfter(k)
<1>1. /\ FineSteps(k) /\ db \in open /\ db' \in open' /\ open \subseteq open'
      /\ open' = {db'} => open = {db} /\ db' = db /\ known' \subseteq ViewAfter(db).dialog
      /\ Below(View(db), ViewAfter(db)) /\ k \in Tasks
  BY FineFrame DEF Tasks
<1>2. Usable(work'[k], open')
  <2>1. Usable(work[k], open)
    BY <1>1 DEF FineSteps
  <2>2. Usable(work'[k], open)
    BY <1>1, <2>1, UsableThen
  <2> QED BY <1>1, <2>2, MoreOpen
<1>3. ASSUME open' = {db'} PROVE Provided(work'[k], ViewAfter(db').dialog)
  <2>1. /\ Provided(work[k], View(db).dialog) /\ View(db).dialog \subseteq ViewAfter(db).dialog
        /\ db' = db /\ open = {db}
    BY <1>1, <1>3 DEF FineSteps, Below
  <2>2. work[k] # <<>>
    BY <1>1, Acts
  <2> DEFINE S == View(db).dialog
             T == ViewAfter(db).dialog
  <2>3. S \subseteq T /\ Provided(work[k], S)
    BY <2>1
  <2>4. \A i \in 1..Len(s) : /\ s[i].op \notin {"insert", "fetch"}
                             /\ s[i].op = "recheck" => i = 1 /\ s[i].arg \in T
    BY <2>1
  <2>5. \A x : Asked(work[k][1], x) => x \in T \/ \E i \in 1..Len(s) : Asked(s[i], x)
    BY <2>1
  <2> HIDE DEF S, T
  <2>6. Provided(work'[k], T)
    BY <1>1, <2>2, <2>3, <2>4, <2>5, ProvidedThen
  <2> QED BY <2>1, <2>6 DEF T
<1> QED BY <1>1, <1>2, <1>3 DEF FineAfter

\* The only connection may write, and finds the dialog table.
LEMMA Alone ==
  ASSUME SqlAssumption, IInv, NEW k \in Clients, Fine(k), open = {db}
  PROVE  MayWrite(db) /\ View(db).dialog # {} /\ Base \subseteq View(db).dialog
<1>1. db \in Conns /\ db \in open
  BY FineOpen
<1>2. \A d \in Conns \ {db} : tx[d] = NoTx
  BY DEF IInv, Transactions
<1>3. disk.dialog # {}
  BY DEF IInv, DialogFirst, Fine
<1>4. Below(disk, View(db)) /\ DialogMade(View(db))
  BY <1>1, ViewFacts
<1>5. View(db).dialog # {}
  BY <1>3, <1>4 DEF Below
<1> QED BY <1>1, <1>2, <1>4, <1>5 DEF MayWrite, DialogMade

\* The steps of a client that gets no excuse, and what they work on.
LEMMA FineHead ==
  ASSUME SqlAssumption, IInv, NEW k \in Clients, StepOf(k), Fine(k)
  PROVE  /\ k \in Tasks /\ 1 \in DOMAIN work[k] /\ Head(work[k]) = work[k][1]
         /\ Op(k, 1) \in {"get", "return", "commit", "migrate", "alter", "altered", "recheck",
                          "insert", "fetch"}
         /\ Op(k, 1) \in {"commit", "alter", "altered", "recheck"} => Head(work[k]).c \in open
         /\ Op(k, 1) # "get" => local[k] \in open
         /\ open = {db} /\ Op(k, 1) = "recheck" => Head(work[k]).arg \in View(db).dialog
         /\ open = {db} /\ Op(k, 1) \in {"insert", "fetch"} => Head(work[k]).arg \in View(db).dialog
<1>1. k \in Tasks /\ k # Agent
  BY DEF Tasks, SqlAssumption
<1>2. work[k] # <<>> /\ 1 \in DOMAIN work[k] /\ Head(work[k]) = work[k][1] /\ Op(k, 1) \in ClientOps
  BY <1>1, Acts, Whose
<1>3. FineSteps(k)
  BY FineOpen
<1>4. /\ Op(k, 1) \notin {"connect", "got", "create", "versions", "known"}
      /\ Op(k, 1) \in {"alter", "altered", "recheck", "commit"} => work[k][1].c \in open
  BY <1>2, <1>3 DEF FineSteps, Usable, Op
<1>5. ASSUME open = {db}
      PROVE  /\ Op(k, 1) = "recheck" => work[k][1].arg \in View(db).dialog
             /\ Op(k, 1) \in {"insert", "fetch"} => work[k][1].arg \in View(db).dialog
  <2>1. \A j \in DOMAIN work[k] : ~(j < 1)
    BY <1>1 DEF IInv, TypeOK, WorkOK
  <2> QED BY <1>2, <1>3, <1>5, <2>1 DEF FineSteps, Provided, Op
<1> QED BY <1>1, <1>2, <1>3, <1>4, <1>5 DEF ClientOps, FineSteps

\* _migrate_columns() asks for an ALTER for every column.
LEMMA MigrateCases ==
  ASSUME SqlAssumption, IInv, NEW k \in Tasks, Migrate(k)
  PROVE  \E s \in Seq(Steps) :
           /\ ThenWork(k, s) /\ \A i \in 1..Len(s) : s[i].op = "alter" /\ s[i].c = db
           /\ \A x \in Head(work[k]).arg : \E i \in 1..Len(s) : s[i].arg = x
<1> DEFINE S == Head(work[k]).arg
           z == AlterSteps(db, S)
<1>1. work \in [Tasks -> Seq(Steps)] /\ work[k] # <<>> /\ S \in SUBSET DialogColumns /\ db \in Conns \cup {NoConn}
  BY HeadFacts, StepArgs, Typed DEF Migrate, IInv, TypeOK, WorkOK
<1>2. Then(k, z)
  BY DEF Migrate, AlterSteps
<1> HIDE DEF S
<1>3. /\ z \in Seq(Steps)
      /\ \A i \in DOMAIN z : z[i].op = "alter" /\ z[i].c = db
      /\ \A x \in S : \E i \in DOMAIN z : z[i].arg = x
  BY <1>1, Alters, ZenonT(30)
<1> HIDE DEF z
<1>4. ThenWork(k, z) /\ DOMAIN z = 1..Len(z)
  BY <1>1, <1>2, <1>3, Thens
<1> QED BY <1>3, <1>4 DEF S

\* and leaves it what it needs itself.
LEMMA FineOwn ==
  ASSUME SqlAssumption, IInv, NEW k \in Clients, StepOf(k), status'[k] = "running", k \notin excused'
  PROVE  FineAfter(k)
<1>1. /\ Fine(k) /\ FineSteps(k) /\ db \in open /\ db \in Conns /\ db # NoConn
      /\ Below(View(db), ViewAfter(db)) /\ k \in Tasks /\ k # Agent
  BY FineFrame, FineOpen DEF Tasks, SqlAssumption
<1>2. /\ 1 \in DOMAIN work[k] /\ Head(work[k]) = work[k][1] /\ work[k] # <<>>
      /\ Op(k, 1) \in {"get", "return", "commit", "migrate", "alter", "altered", "recheck",
                       "insert", "fetch"}
      /\ Op(k, 1) \in {"commit", "alter", "altered", "recheck"} => Head(work[k]).c \in open
      /\ Op(k, 1) # "get" => local[k] \in open
  BY <1>1, FineHead, Acts
<1>3. ~Raise(k)
  BY <1>1 DEF Raise, IInv, TypeOK
<1>4. Op(k, 1) # "get" => local'[k] \in open
  <2>1. \A op : Is(k, op) => Op(k, 1) = op
    BY <1>1, HeadFacts
  <2> QED BY <1>1, <1>2, <2>1, Frames DEF Frame
<1>5. <<>> \in Seq(Steps) /\ \A i : i \notin 1..Len(<<>>)
  BY NoSteps
\* A step that asks for nothing, or for what is there.
<1>6. ASSUME ThenWork(k, <<>>), local'[k] \in open,
             open = {db} => \A x : Asked(work[k][1], x) => x \in ViewAfter(db).dialog
      PROVE  FineAfter(k)
  <2> DEFINE e == <<>>
  <2>1. e \in Seq(Steps) /\ (\A i : i \notin 1..Len(e)) /\ ThenWork(k, e)
    BY <1>5, <1>6
  <2> HIDE DEF e
  <2> QED BY <1>6, <2>1, FineThen
<1>7. \A x : Asked(work[k][1], x) => Op(k, 1) \in {"migrate", "alter"}
  BY DEF Asked, Op
<1>8. CASE Op(k, 1) = "get"
  <2>1. GetDb(k)
    BY <1>1, <1>8, Acts
  <2>2. ThenWork(k, <<>>) /\ local'[k] = db
    BY <1>1, <2>1, GetCases
  <2> QED BY <1>1, <1>6, <1>7, <1>8, <2>2
<1>9. CASE Op(k, 1) = "commit"
  <2>1. Commit(k)
    BY <1>1, <1>9, Acts
  <2>2. ThenWork(k, <<>>)
    BY <1>1, <1>3, <2>1, CommitCases
  <2> QED BY <1>4, <1>6, <1>7, <1>9, <2>2
<1>10. CASE Op(k, 1) \in {"altered", "recheck"}
  <2>1. Done(k)
    BY <1>1, <1>2, <1>3, <1>10, Acts DEF Altered, Recheck
  <2>2. ThenWork(k, <<>>)
    BY <1>1, <1>2, <2>1, DoneWork
  <2> QED BY <1>4, <1>6, <1>7, <1>10, <2>2
<1>11. CASE Op(k, 1) = "migrate"
  <2>1. Migrate(k)
    BY <1>1, <1>11, Acts
  <2>2. PICK s \in Seq(Steps) :
          /\ ThenWork(k, s) /\ \A i \in 1..Len(s) : s[i].op = "alter" /\ s[i].c = db
          /\ \A x \in Head(work[k]).arg : \E i \in 1..Len(s) : s[i].arg = x
    BY <1>1, <2>1, MigrateCases
  <2>3. \A x : Asked(work[k][1], x) => x \in Head(work[k]).arg
    BY <1>2, <1>11 DEF Asked, Op
  <2>4. \A x : Asked(work[k][1], x) => \E i \in 1..Len(s) : Asked(s[i], x)
    BY <2>2, <2>3 DEF Asked
  <2>5. \A i \in 1..Len(s) : s[i].op = "alter" /\ s[i].c \in open
    BY <1>1, <2>2
  <2>6. local'[k] \in open
    BY <1>4, <1>11
  <2> QED BY <2>2, <2>4, <2>5, <2>6, FineThen
<1>12. CASE Op(k, 1) = "alter"
  <2> DEFINE c == Head(work[k]).c
             column == Head(work[k]).arg
             s(op) == <<[op |-> op, c |-> c, arg |-> column]>>
             may == c \in open /\ MayWrite(c) /\ View(c).dialog # {} /\ column \notin View(c).dialog
  <2>1. AlterDialog(k) /\ Is(k, "alter") /\ c \in open
    BY <1>1, <1>2, <1>12, Acts
  <2>2. \A x : Asked(work[k][1], x) => x = column
    BY <1>2, <1>12 DEF Asked, Op
  <2>3. \A op \in {"altered", "recheck"} :
          /\ s(op) \in Seq(Steps) /\ Len(s(op)) = 1
          /\ s(op)[1].op = op /\ s(op)[1].c = c /\ s(op)[1].arg = column
    BY <1>1, <2>1, OneStep
  <2>4. \/ column \in known /\ ThenWork(k, <<>>)
        \/ column \in ViewAfter(c).dialog /\ ThenWork(k, s("altered"))
        \/ ~may /\ ThenWork(k, s("recheck"))
    BY <1>1, <2>1, AlterCases
  <2>5. open = {db} => c = db
    BY <2>1
  <2>6. local'[k] \in open
    BY <1>4, <1>12
  <2>7. CASE column \in known /\ ThenWork(k, <<>>)
    <3>1. open = {db} => column \in ViewAfter(db).dialog
      BY <1>1, <2>7 DEF FineSteps, Below
    <3> HIDE DEF c, column
    <3> QED BY <1>6, <2>2, <2>6, <2>7, <3>1
  <2>8. CASE column \in ViewAfter(c).dialog /\ ThenWork(k, s("altered"))
    <3>0. open = {db} => column \in ViewAfter(db).dialog
      BY <2>5, <2>8
    <3> DEFINE r == s("altered")
    <3>1. r \in Seq(Steps) /\ ThenWork(k, r) /\ Len(r) = 1 /\ r[1].op = "altered" /\ r[1].c \in open
      BY <2>1, <2>3, <2>8
    <3> HIDE DEF r, s, c, column, may
    <3>2. \A i \in 1..Len(r) : r[i].op = "altered" /\ r[i].c \in open
      BY <3>1
    <3>3. open = {db} => \A x : Asked(work[k][1], x) => x \in ViewAfter(db).dialog
      BY <2>2, <3>0
    <3> QED BY <2>6, <3>1, <3>2, <3>3, FineThen
  <2>9. CASE ~may /\ ThenWork(k, s("recheck"))
    <3>0. open = {db} => column \in ViewAfter(db).dialog
      <4>1. open = {db} => column \in View(db).dialog
        BY <1>1, <2>1, <2>5, <2>9, Alone
      <4> QED BY <1>1, <4>1 DEF Below
    <3> DEFINE r == s("recheck")
    <3>1. /\ r \in Seq(Steps) /\ ThenWork(k, r) /\ Len(r) = 1 /\ r[1].op = "recheck" /\ r[1].c \in open
          /\ r[1].arg = column
      BY <2>1, <2>3, <2>9
    <3> HIDE DEF r, s, c, column, may
    <3>2. \A i \in 1..Len(r) : /\ r[i].op = "recheck" /\ r[i].c \in open
                               /\ open = {db} => i = 1 /\ r[i].arg \in ViewAfter(db).dialog
      BY <3>0, <3>1
    <3>3. open = {db} => \A x : Asked(work[k][1], x) => x \in ViewAfter(db).dialog
      BY <2>2, <3>0
    <3> QED BY <2>6, <3>1, <3>2, <3>3, FineThen
  <2> QED BY <2>4, <2>7, <2>8, <2>9
<1>13. CASE Op(k, 1) = "insert"
  <2> DEFINE s == <<On("commit", local[k]), Step("return")>>
  <2>1. Insert(k)
    BY <1>1, <1>13, Acts
  <2>2. s \in Seq(Steps) /\ ThenWork(k, s)
    BY <1>3, <2>1, InsertCases
  <2>3. Len(s) = 2 /\ s[1].op = "commit" /\ s[1].c \in open /\ s[2].op = "return"
    BY <1>2, <1>13 DEF On, Step
  <2> HIDE DEF s
  <2>4. \A i \in 1..Len(s) : s[i].op \in {"commit", "return"} /\ (s[i].op # "return" => s[i].c \in open)
    BY <2>3
  <2>5. \A x : ~Asked(work[k][1], x)
    BY <1>7, <1>13
  <2>6. local'[k] \in open
    BY <1>4, <1>13
  <2> QED BY <2>2, <2>4, <2>5, <2>6, FineThen
<1>14. CASE Op(k, 1) \in {"fetch", "return"}
  <2>1. status'[k] # "running"
    BY <1>1, <1>3, <1>14, Acts DEF Fetch, Return, IInv, TypeOK
  <2> QED BY <2>1
<1> QED BY <1>2, <1>8, <1>9, <1>10, <1>11, <1>12, <1>13, <1>14

\* What is to be shown of the clients without an excuse.
LEMMA FineParts ==
  (\A j \in Clients : status'[j] = "running" /\ j \notin excused' => FineAfter(j)) => FineClients'
<1>1. \A j \in Clients : FineAfter(j) => FineSteps(j)'
  BY DEF FineAfter, FineSteps, View, ViewAfter, Op, Usable, Provided
<1> QED BY <1>1 DEF FineClients, Fine

\* A client without an excuse keeps what it needs.
LEMMA FineClientsKept ==
  ASSUME SqlAssumption, IInv, NEW k \in Tasks, StepOf(k)
  PROVE  FineClients'
BY FineOthers, FineOwn, FineParts

\* So its calls do not fail.
LEMMA CallsSucceedKept ==
  ASSUME SqlAssumption, IInv, NEW k \in Tasks, StepOf(k)
  PROVE  CallsSucceed'
<1> SUFFICES ASSUME NEW j \in Clients, status'[j] = "failed", j \notin excused' PROVE FALSE
  BY DEF CallsSucceed
<1>1. Frame(k) /\ open \subseteq 1..used /\ used \in Nat
  BY Frames, Typed DEF IInv, TypeOK
<1>2. status[j] # "failed"
  BY <1>1 DEF IInv, CallsSucceed, Frame
<1>3. j = k /\ k # Agent
  BY <1>1, <1>2 DEF Frame, SqlAssumption
<1>4. Fine(k) /\ work[k] # <<>>
  BY <1>1, <1>3, Acts, Whose DEF Fine, Frame
<1>5. db \in open /\ FineSteps(k)
  BY <1>3, <1>4, FineOpen
<1>6. Raise(k)
  <2>1. ~Return(k) /\ (Fetch(k) => Raise(k))
    BY <1>3 DEF Return, Fetch, IInv, TypeOK
  <2> QED BY <1>2, <1>3, <2>1, Endings, Acts, Whose DEF ClientOps, Is, Op
<1>7. ~(Cardinality(open) > 1)
  BY <1>3, <1>6 DEF Raise, IInv, TypeOK
<1>8. open = {db}
  <2>1. IsFiniteSet(open)
    <3>1. IsFiniteSet(1..used)
      BY <1>1, FS_Interval
    <3> QED BY <1>1, <3>1, FS_Subset
  <2>2. ASSUME NEW c \in open, c # db PROVE FALSE
    <3>1. {c} \cup {db} \subseteq open /\ Cardinality({c} \cup {db}) = 2
      <4>1. IsFiniteSet({c}) /\ Cardinality({c}) = 1
        BY FS_Singleton
      <4>2. Cardinality({c} \cup {db}) = Cardinality({c}) + 1
        BY <2>2, <4>1, FS_AddElement
      <4> QED BY <1>5, <4>1, <4>2
    <3>2. Cardinality({c} \cup {db}) <= Cardinality(open)
      BY <2>1, <3>1, FS_Subset
    <3>3. Cardinality(open) \in Nat
      BY <2>1, FS_CardinalityType
    <3> QED BY <1>7, <3>1, <3>2, <3>3
  <2> QED BY <1>5, <2>2
<1>9. /\ Op(k, 1) \in {"get", "return", "commit", "migrate", "alter", "altered", "recheck",
                       "insert", "fetch"}
      /\ Op(k, 1) \in {"commit", "recheck"} => Head(work[k]).c \in open
      /\ Op(k, 1) # "get" => local[k] \in open
      /\ Op(k, 1) \in {"insert", "fetch", "recheck"} => Head(work[k]).arg \in View(db).dialog
      /\ MayWrite(db) /\ Base \subseteq View(db).dialog
  BY <1>3, <1>4, <1>8, FineHead, Alone
<1>10. status[k] = "running" /\ k \in Tasks /\ DOMAIN status = Clients
  BY <1>3, <1>4 DEF Fine, Tasks, IInv, TypeOK
<1>11. CASE Op(k, 1) \in {"get", "migrate", "alter", "altered"}
  BY <1>3, <1>10, <1>11, Acts DEF GetDb, Migrate, AlterDialog, Altered, quiet
<1>12. CASE Op(k, 1) = "commit"
  BY <1>3, <1>9, <1>10, <1>12, Acts DEF Commit, quiet
<1>13. CASE Op(k, 1) = "recheck"
  <2>1. Recheck(k) /\ Head(work[k]).c = db
    BY <1>8, <1>9, <1>13, Acts
  <2> QED BY <1>3, <1>8, <1>9, <1>10, <1>13, <2>1 DEF Recheck, quiet
<1>14. CASE Op(k, 1) = "insert"
  <2>1. Insert(k) /\ local[k] = db
    BY <1>8, <1>9, <1>14, Acts
  <2> QED BY <1>3, <1>8, <1>9, <1>10, <1>14, <2>1 DEF Insert, quiet
<1>15. CASE Op(k, 1) = "fetch"
  <2>1. Fetch(k) /\ local[k] = db
    BY <1>8, <1>9, <1>15, Acts
  <2>2. status' = [status EXCEPT ![k] = "read"]
    BY <1>8, <1>9, <1>15, <2>1 DEF Fetch
  <2> QED BY <1>3, <1>10, <2>2
<1>16. CASE Op(k, 1) = "return"
  BY <1>3, <1>10, <1>16, Acts DEF Return
<1> QED BY <1>9, <1>11, <1>12, <1>13, <1>14, <1>15, <1>16

-----------------------------------------------------------------------------
(* The tables of extensions, after a step                                  *)

CommittingAfter == work'[Agent] # <<>> /\ Head(work'[Agent]).op = "commit"
NowAfter == IF CommittingAfter THEN ViewAfter(Head(work'[Agent]).c) ELSE disk'

\* What Tabled says of a table while steps w are left.
Turn(w, c, s, t) == \E i \in DOMAIN w : Left(w, c, s, code[t], t, i)
Due(w, c, s, t) ==
  \/ \E i \in DOMAIN w : w[i] = At("columns", t)
  \/ Turn(w, c, s, t)
  \/ Complete(s, t)

AgentsAfter ==
  \A c \in Conns : tx'[c] # NoTx =>
    SameTables(tx'[c], disk') \/ (CommittingAfter /\ Head(work'[Agent]).c = c)

TabledAfter ==
  /\ phase' \in {"starting", "refreshing"} =>
       \A t \in Tables : Due(work'[Agent], local'[Agent], NowAfter, t)
  /\ phase' = "up" => \A t \in Tables : Complete(disk', t)
  /\ \A i \in DOMAIN work'[Agent] : work'[Agent][i].op \in TableOps =>
       Turn(work'[Agent], local'[Agent], NowAfter, TableOf(work'[Agent][i]))

TablesAfter == AgentsAfter /\ Honest(disk') /\ Honest(NowAfter) /\ TabledAfter

\* What is to be shown of the tables after a step.
LEMMA AfterTables ==
  ASSUME code' = code, TablesAfter
  PROVE  TablesAreAgents' /\ Records' /\ Tabled'
<1>1. TablesAreAgents'
  BY DEF TablesAfter, AgentsAfter, TablesAreAgents, CommittingAfter, Committing, Is, SameTables
<1>2. Now' = NowAfter
  BY DEF Now, NowAfter, View, ViewAfter, CommittingAfter, Committing, Is
<1>3. Records'
  BY <1>2 DEF TablesAfter, Records, Honest, Migrated
<1>5. \A t : InTurn(t)' <=> Turn(work'[Agent], local'[Agent], NowAfter, t)
  BY <1>2 DEF InTurn, Turn, Ensuring, Left, Migrating
<1>6. \A t : Complete(Now, t)' <=> Complete(NowAfter, t)
  BY <1>2 DEF Complete
<1>7. \A t : Complete(disk, t)' <=> Complete(disk', t)
  BY DEF Complete
<1>8. (phase \in {"starting", "refreshing"} =>
         \A t \in Tables : Ahead(t) \/ InTurn(t) \/ Complete(Now, t))'
  BY <1>5, <1>6 DEF TablesAfter, TabledAfter, Due, Ahead
<1>9. (\A i \in DOMAIN work[Agent] : Op(Agent, i) \in TableOps => InTurn(TableOf(work[Agent][i])))'
  BY <1>5 DEF TablesAfter, TabledAfter, TableOps, TableOf, Op
<1>10. Tabled'
  BY <1>7, <1>8, <1>9 DEF TablesAfter, TabledAfter, Tabled
<1> QED BY <1>1, <1>3, <1>10

\* Contents with the same tables are as far.
LEMMA SameFacts ==
  ASSUME SqlAssumption, NEW a, NEW b, SameTables(a, b)
  PROVE  /\ SameTables(b, a)
         /\ \A c : SameTables(b, c) => SameTables(a, c)
         /\ Honest(a) => Honest(b)
         /\ \A t : Complete(a, t) => Complete(b, t)
         /\ \A w, c, t : Turn(w, c, a, t) => Turn(w, c, b, t)
         /\ \A w, c, t : Due(w, c, a, t) => Due(w, c, b, t)
BY DEF SameTables, Honest, Migrated, Complete, Turn, Due, Left

\* What is known of the tables before a step.
LEMMA Before ==
  ASSUME SqlAssumption, IInv
  PROVE  /\ \A t : InTurn(t) <=> Turn(work[Agent], local[Agent], Now, t)
         /\ phase \in {"starting", "refreshing"} =>
              \A t \in Tables : Due(work[Agent], local[Agent], Now, t)
         /\ phase = "up" => \A t \in Tables : Complete(disk, t)
         /\ \A i \in DOMAIN work[Agent] : work[Agent][i].op \in TableOps =>
              Turn(work[Agent], local[Agent], Now, TableOf(work[Agent][i]))
         /\ Honest(disk) /\ Honest(Now)
<1>1. \A t : InTurn(t) <=> Turn(work[Agent], local[Agent], Now, t)
  BY DEF InTurn, Turn, Ensuring
<1> QED BY <1>1 DEF IInv, Tabled, Due, Ahead, Records, Op

\* A step of another task that changes nothing of what the agent sees.
LEMMA Untouched ==
  ASSUME SqlAssumption, IInv, work'[Agent] = work[Agent], local'[Agent] = local[Agent], phase' = phase,
         SameTables(Now, NowAfter), SameTables(disk, disk') \/ SameTables(Now, disk'), AgentsAfter
  PROVE  TablesAfter
<1>1. Honest(disk') /\ Honest(NowAfter)
  BY Before, SameFacts
<1>2. phase = "up" => Now = disk
  BY DEF IInv, AgentSteps, Now, Committing, Is
<1>3. phase = "up" => \A t \in Tables : Complete(disk', t)
  BY <1>2, Before, SameFacts
<1>4. TabledAfter
  <2>1. \A t : Turn(work[Agent], local[Agent], Now, t) => Turn(work'[Agent], local'[Agent], NowAfter, t)
    BY SameFacts
  <2>2. \A t : Due(work[Agent], local[Agent], Now, t) => Due(work'[Agent], local'[Agent], NowAfter, t)
    BY SameFacts
  <2> QED BY <1>3, <2>1, <2>2, Before DEF TabledAfter
<1> QED BY <1>1, <1>4 DEF TablesAfter

\* A step that writes no tables leaves what every connection sees of them, or
\* commits the only transaction.
LEMMA Moves ==
  ASSUME SqlAssumption, IInv, NEW k \in Tasks, StepOf(k), Op(k, 1) \notin TableOps
  PROVE  \/ /\ SameTables(disk, disk')
            /\ \A d \in Conns : SameTables(View(d), ViewAfter(d))
         \/ \E c \in Conns : disk' = View(c) /\ \A d \in Conns : tx'[d] = NoTx /\ (d # c => tx[d] = NoTx)
<1>1. StoreMove(k) /\ StoreOK /\ tx \in [Conns -> Contents \cup {NoTx}] /\ open \subseteq Conns /\ NoTx \notin Contents
  BY StepsOK, TypeParts DEF StepOK, IInv, StoreOK, SqlAssumption
<1>2. CASE UNCHANGED <<disk, tx>>
  BY <1>2 DEF View, ViewAfter, SameTables
<1>3. CASE \E c \in open : \E new \in Contents : Writes(c, new) /\ SameTables(new, View(c))
  <2> PICK c \in open, new \in Contents : Writes(c, new) /\ SameTables(new, View(c))
    BY <1>3
  <2>1. CASE tx[c] = NoTx /\ disk' = new /\ tx' = tx
    BY <1>1, <2>1 DEF View, ViewAfter, SameTables
  <2>2. CASE tx' = [tx EXCEPT ![c] = new] /\ disk' = disk
    BY <1>1, <2>2 DEF View, ViewAfter, SameTables
  <2> QED BY <2>1, <2>2 DEF Writes, Define, Modify
<1>4. CASE Head(work[k]).c \in open /\ Committed(Head(work[k]).c)
  <2> DEFINE c == Head(work[k]).c
  <2>1. c \in Conns /\ disk' = View(c) /\ tx' = [tx EXCEPT ![c] = NoTx]
    BY <1>1, <1>4 DEF Committed
  <2> HIDE DEF c
  <2>2. CASE tx[c] = NoTx
    <3>1. disk' = disk /\ tx' = tx
      BY <1>1, <2>1, <2>2 DEF View
    <3> QED BY <1>2, <3>1
  <2>3. CASE tx[c] # NoTx
    <3>1. \A d \in Conns : d # c => tx[d] = NoTx
      BY <2>1, <2>3 DEF IInv, Transactions
    <3>2. \A d \in Conns : tx'[d] = NoTx
      BY <1>1, <2>1, <3>1
    <3> QED BY <2>1, <3>1, <3>2
  <2> QED BY <2>2, <2>3
<1>5. CASE Is(k, "close") /\ db # NoConn /\ tx' = [tx EXCEPT ![db] = NoTx] /\ disk' = disk
  <2>1. k = Agent /\ ~Committing
    BY <1>5, Acts, Whose, HeadFacts DEF ClientOps, Committing, Is, Tasks
  <2>2. \A d \in Conns : SameTables(View(d), disk)
    BY <2>1 DEF IInv, TablesAreAgents, View, SameTables
  <2>3. db \in Conns
    BY <1>5, Typed DEF IInv, TypeOK, SqlAssumption, Conns
  <2>4. \A d \in Conns : SameTables(View(d), ViewAfter(d))
    <3>1. ViewAfter(db) = disk
      BY <1>1, <1>5, <2>3 DEF ViewAfter
    <3>2. \A d \in Conns : d # db => ViewAfter(d) = View(d)
      BY <1>1, <1>5, <2>3 DEF ViewAfter, View
    <3> QED BY <2>2, <3>1, <3>2 DEF SameTables
  <2> QED BY <1>5, <2>4 DEF SameTables
<1> QED BY <1>1, <1>2, <1>3, <1>4, <1>5 DEF StoreMove

\* What the next commit of the agent is about.
LEMMA Commits ==
  ASSUME SqlAssumption, IInv, NEW k \in Tasks, StepOf(k)
  PROVE  /\ Committing => Head(work[Agent]).c \in Conns
         /\ CommittingAfter => Head(work'[Agent]).c \in Conns
<1>1. work \in [Tasks -> Seq(Steps)] /\ work' \in [Tasks -> Seq(Steps)] /\ Agent \in Tasks
  BY StepsOK DEF StepOK, IInv, TypeOK, WorkOK, Tasks
<1>2. Committing => Head(work[Agent]) \in Steps
  BY <1>1 DEF Committing, Is
<1>3. CommittingAfter => Head(work'[Agent]) \in Steps
  BY <1>1 DEF CommittingAfter
<1> QED BY <1>2, <1>3, StepArgs DEF Committing, CommittingAfter, Is

\* A step of a client does not touch the tables of extensions,
LEMMA ClientTables ==
  ASSUME SqlAssumption, IInv, NEW k \in Tasks, StepOf(k), k # Agent
  PROVE  TablesAfter
<1>1. work'[Agent] = work[Agent] /\ local'[Agent] = local[Agent] /\ phase' = phase
  BY Frames DEF Frame, Tasks
<1>2. Op(k, 1) \notin TableOps
  BY Acts, Whose DEF ClientOps, TableOps
<1>3. CommittingAfter <=> Committing
  BY <1>1 DEF CommittingAfter, Committing, Is
<1> DEFINE c0 == Head(work[Agent]).c
<1>4. (Committing => c0 \in Conns) /\ Head(work'[Agent]).c = c0
  BY <1>1, Commits
<1> HIDE DEF c0
<1>5. Now = (IF Committing THEN View(c0) ELSE disk) /\ NowAfter = (IF Committing THEN ViewAfter(c0) ELSE disk')
  BY <1>1, <1>3 DEF Now, NowAfter, c0
<1>6. \A d \in Conns : tx[d] # NoTx => SameTables(tx[d], disk) \/ (Committing /\ c0 = d)
  BY DEF IInv, TablesAreAgents, c0
<1>7. CASE SameTables(disk, disk') /\ \A d \in Conns : SameTables(View(d), ViewAfter(d))
  <2>1. AgentsAfter
    BY <1>3, <1>4, <1>6, <1>7 DEF AgentsAfter, View, ViewAfter, SameTables
  <2> QED BY <1>1, <1>4, <1>5, <1>7, <2>1, Untouched
<1>8. CASE \E c \in Conns : disk' = View(c) /\ \A d \in Conns : tx'[d] = NoTx /\ (d # c => tx[d] = NoTx)
  <2> PICK c \in Conns : disk' = View(c) /\ \A d \in Conns : tx'[d] = NoTx /\ (d # c => tx[d] = NoTx)
    BY <1>8
  <2>1. AgentsAfter
    BY DEF AgentsAfter
  <2>2. NowAfter = View(c)
    BY <1>4, <1>5 DEF ViewAfter
  <2>3. SameTables(Now, View(c))
    <3>1. CASE Committing /\ c0 = c
      BY <1>5, <3>1 DEF SameTables
    <3>2. CASE ~(Committing /\ c0 = c)
      <4>1. SameTables(disk, View(c))
        BY <1>6, <3>2 DEF View, SameTables
      <4>2. Now = disk
        BY <1>4, <1>5, <3>2 DEF View
      <4> QED BY <4>1, <4>2
    <3> QED BY <3>1, <3>2
  <2> QED BY <1>1, <2>1, <2>2, <2>3, Untouched
<1> QED BY <1>2, <1>7, <1>8, Moves

\* A step of the agent that writes no tables, while nothing is left to commit.
LEMMA QuietStore ==
  ASSUME SqlAssumption, IInv, StepOf(Agent), ~Committing,
         Op(Agent, 1) \notin TableOps \/ UNCHANGED <<disk, tx>>
  PROVE  /\ Now = disk /\ (\A c \in Conns : SameTables(View(c), disk)) /\ SameTables(disk, disk')
         /\ SameTables(disk, NowAfter)
         /\ AgentsAfter /\ Honest(disk') /\ Honest(NowAfter)
<1>1. Now = disk /\ Agent \in Tasks
  BY DEF Now, Tasks
<1>2. \A c \in Conns : SameTables(View(c), disk)
  BY DEF IInv, TablesAreAgents, View, SameTables
<1>3. CASE SameTables(disk, disk') /\ \A d \in Conns : SameTables(View(d), ViewAfter(d))
  <2>1. \A d \in Conns : SameTables(disk, ViewAfter(d)) /\ SameTables(ViewAfter(d), disk')
    BY <1>2, <1>3 DEF SameTables
  <2>2. AgentsAfter
    BY <2>1 DEF AgentsAfter, ViewAfter
  <2>3. SameTables(disk, NowAfter)
    BY <1>1, <1>3, <2>1, Commits DEF NowAfter
  <2> QED BY <1>1, <1>2, <1>3, <2>2, <2>3, Before, SameFacts
<1>4. CASE \E c \in Conns : disk' = View(c) /\ \A d \in Conns : tx'[d] = NoTx /\ (d # c => tx[d] = NoTx)
  <2>1. SameTables(disk, disk') /\ AgentsAfter
    BY <1>2, <1>4 DEF SameTables, AgentsAfter
  <2>2. NowAfter = disk'
    BY <1>1, <1>4, Commits DEF NowAfter, ViewAfter
  <2> QED BY <1>1, <1>2, <2>1, <2>2, Before, SameFacts
<1>5. CASE UNCHANGED <<disk, tx>>
  <2>1. SameTables(disk, disk') /\ \A d \in Conns : SameTables(View(d), ViewAfter(d))
    BY <1>5 DEF View, ViewAfter, SameTables
  <2> QED BY <1>3, <2>1
<1> QED BY <1>1, <1>3, <1>4, <1>5, Moves

\* A coroutine that fails leaves no table to do.
LEMMA RaiseTables ==
  ASSUME SqlAssumption, IInv, StepOf(Agent), Raise(Agent), AgentsAfter, Honest(disk'), Honest(NowAfter)
  PROVE  TablesAfter
<1>1. /\ phase' \notin {"starting", "refreshing", "up"}
      /\ work'[Agent] \in {<<Step("close"), Step("clear")>>, <<>>}
  BY DEF Raise, IInv, TypeOK, WorkOK, Tasks
<1>2. \A i \in DOMAIN work'[Agent] : work'[Agent][i].op \notin TableOps
  BY <1>1 DEF Step, TableOps
<1> QED BY <1>1, <1>2 DEF TablesAfter, TabledAfter

\* Without a table in turn each is ahead or complete.
LEMMA NoTurn ==
  ASSUME SqlAssumption, IInv, work[Agent] # <<>>, Op(Agent, 1) \notin TableOps \cup {"commit"}
  PROVE  /\ \A t \in Tables : ~Turn(work[Agent], local[Agent], Now, t)
         /\ \A i \in DOMAIN work[Agent] : work[Agent][i].op \notin TableOps
<1>1. \A t \in Tables : ~Turn(work[Agent], local[Agent], Now, t)
  BY Turns DEF Turn, Ensuring
<1>2. ASSUME NEW i \in DOMAIN work[Agent], work[Agent][i].op \in TableOps PROVE FALSE
  <2>1. work[Agent][i] \in Steps
    BY <1>2, Uses DEF Tasks
  <2>2. TableOf(work[Agent][i]) \in Tables
    BY <1>2, <2>1, StepArgs DEF TableOf, TableOps
  <2> QED BY <1>1, <1>2, <2>2, Before
<1> QED BY <1>1, <1>2

\* nor does a step of the agent that is not about them.
LEMMA QuietTables ==
  ASSUME SqlAssumption, IInv, StepOf(Agent), Op(Agent, 1) \notin TableOps \cup {"commit", "columns"}
  PROVE  TablesAfter
<1>1. /\ Agent \in Tasks /\ 1 \in DOMAIN work[Agent] /\ work[Agent] # <<>>
      /\ work[Agent] \in Seq(Steps) /\ work'[Agent] \in Seq(Steps) /\ WorkMove(Agent)
  BY Acts, StepsOK DEF StepOK, IInv, TypeOK, WorkOK, Tasks
<1>2. ~Committing
  BY <1>1, HeadFacts DEF Committing
<1>3. /\ Now = disk /\ SameTables(disk, disk') /\ SameTables(disk, NowAfter)
      /\ AgentsAfter /\ Honest(disk') /\ Honest(NowAfter)
  BY <1>2, QuietStore
<1>4. /\ \A t \in Tables : ~Turn(work[Agent], local[Agent], Now, t)
      /\ \A i \in DOMAIN work[Agent] : work[Agent][i].op \notin TableOps
  BY <1>1, NoTurn
<1>5. phase \notin {"up", "down", "stale"}
  BY <1>1 DEF IInv, AgentSteps
<1>6. \A i \in DOMAIN work'[Agent] : work'[Agent][i].op \notin TableOps
  <2> SUFFICES ASSUME NEW i \in DOMAIN work'[Agent], work'[Agent][i].op \in TableOps PROVE FALSE
    OBVIOUS
  <2>1. ~Called(Op(Agent, 1), work'[Agent][i].op)
    BY <1>1, Whose DEF Called, TableOps
  <2>2. work'[Agent] # <<Step("close"), Step("clear")>>
    BY DEF Step, TableOps
  <2> QED BY <1>1, <1>4, <2>1, <2>2, NextSteps
<1>7. ASSUME phase' \in {"starting", "refreshing"}, NEW t \in Tables
      PROVE  Due(work'[Agent], local'[Agent], NowAfter, t)
  <2>1. ~Raise(Agent) /\ phase' = phase
    BY <1>1, <1>7, Endings DEF Raise
  <2>2. Due(work[Agent], local[Agent], Now, t)
    BY <1>7, <2>1, Before
  <2>3. CASE Complete(Now, t)
    BY <1>3, <2>3, SameFacts DEF Due
  <2>4. CASE \E i \in DOMAIN work[Agent] : work[Agent][i] = At("columns", t)
    <3> PICK m \in DOMAIN work[Agent] : work[Agent][m] = At("columns", t)
      BY <2>4
    <3>1. m # 1 /\ m \in Nat \ {0}
      BY <1>1, Acts DEF At, Op
    <3>2. PICK s \in Seq(Steps) : ThenWork(Agent, s)
      <4>1. ~(Is(Agent, "close") /\ db = NoConn)
        BY <1>1, <1>7, Acts, HeadFacts DEF Close
      <4> QED BY <1>1, <2>1, <4>1 DEF WorkMove
    <3>3. m + Len(s) - 1 \in DOMAIN work'[Agent] /\ work'[Agent][m + Len(s) - 1] = work[Agent][m]
      <4>1. \A j \in DOMAIN work[Agent] :
              j >= 2 => j + Len(s) - 1 \in DOMAIN work'[Agent] /\ work'[Agent][j + Len(s) - 1] = work[Agent][j]
        BY <1>1, <3>2, FromThen
      <4>2. m >= 2
        BY <3>1
      <4> QED BY <4>1, <4>2
    <3> QED BY <3>3 DEF Due
  <2> QED BY <1>4, <2>2, <2>3, <2>4 DEF Due
<1>8. ASSUME phase' = "up", NEW t \in Tables
      PROVE  Complete(disk', t)
  <2>1. Is(Agent, "ready")
    BY <1>1, <1>5, <1>8, Endings DEF Raise
  <2>2. Op(Agent, 1) = "ready"
    BY <1>1, <2>1, HeadFacts
  <2>3. phase \in {"starting", "refreshing"}
    BY <1>1, <2>2, AgentOps
  <2>4. Len(work[Agent]) = 1
    <3>1. \A i \in 1..(Len(work[Agent]) - 1) : Op(Agent, i) \in StartSteps
      BY <2>3 DEF IInv, AgentSteps
    <3>2. 1 \notin 1..(Len(work[Agent]) - 1)
      BY <2>2, <3>1 DEF StartSteps
    <3> DEFINE n == Len(work[Agent])
    <3>3. n \in Nat \ {0}
      BY <1>1
    <3> HIDE DEF n
    <3>4. 1 \notin 1..(n - 1)
      BY <3>2 DEF n
    <3>5. n = 1
      BY <3>3, <3>4
    <3> QED BY <3>5 DEF n
  <2>5. ~\E i \in DOMAIN work[Agent] : work[Agent][i] = At("columns", t)
    BY <1>1, <2>2, <2>4 DEF At, Op
  <2>6. Complete(Now, t)
    BY <1>4, <2>3, <2>5, Before DEF Due
  <2> QED BY <1>3, <2>6, SameFacts
<1> QED BY <1>3, <1>6, <1>7, <1>8 DEF TablesAfter, TabledAfter

\* A step that calls nothing is taken from the front.
LEMMA Popped ==
  ASSUME SqlAssumption, IInv, work[Agent] # <<>>, ThenWork(Agent, <<>>)
  PROVE  LET w == work[Agent]
             u == work'[Agent]
         IN /\ Len(u) = Len(w) - 1 /\ Len(w) \in Nat /\ DOMAIN u = 1..Len(u)
            /\ \A j \in 1..(Len(w) - 1) : u[j] = w[j + 1]
<1> DEFINE w == work[Agent]
           u == work'[Agent]
<1>1. /\ Len(u) = Len(w) - 1
      /\ \A m \in DOMAIN w : m >= 2 => m - 1 \in DOMAIN u /\ u[m - 1] = w[m]
      /\ DOMAIN w = 1..Len(w) /\ Len(w) \in Nat
  BY FromNone DEF Tasks, IInv, TypeOK, WorkOK
<1>2. DOMAIN u = 1..Len(u)
  BY DEF ThenWork, Tasks
<1> HIDE DEF w, u
<1>3. \A j \in 1..(Len(w) - 1) : u[j] = w[j + 1]
  <2> SUFFICES ASSUME NEW j \in 1..(Len(w) - 1) PROVE u[j] = w[j + 1]
    OBVIOUS
  <2>1. j + 1 \in DOMAIN w /\ j + 1 >= 2 /\ (j + 1) - 1 = j
    BY <1>1
  <2> QED BY <1>1, <2>1
<1> QED BY <1>1, <1>2, <1>3 DEF w, u

\* What is left for a table once the next commit is done.
LEMMA CommitTurn ==
  ASSUME SqlAssumption, IInv, Op(Agent, 1) = "commit", ThenWork(Agent, <<>>), NEW t \in Tables,
         Turn(work[Agent], local[Agent], Now, t)
  PROVE  Turn(work'[Agent], local[Agent], Now, t)
<1> DEFINE w == work[Agent]
           u == work'[Agent]
           c == local[Agent]
           commit == On("commit", c)
           v == code[t]
<1>1. PICK i \in DOMAIN w : Ensuring(t, i)
  BY DEF Turn, Ensuring
<1>2. /\ w # <<>> /\ Len(w) \in Nat /\ i \in Nat \ {0} /\ i + 1 < Len(w)
      /\ c \in Conns
      /\ \/ i = 2 /\ Version1(Now.rec[t]) = v /\ 1..v \subseteq Now.cols[t]
         \/ /\ i >= 4 /\ i - 3 <= v /\ w[i - 2] = At("record", t) /\ w[i - 1] = commit
            /\ Migrating(w, t, v, 2, i - 3) /\ 1..(v - (i - 3) + 1) \subseteq Now.cols[t]
  BY <1>1, Turns DEF TableOps
<1>3. w[i] = At("index", t) /\ w[i + 1] = commit /\ \A j \in (i + 1)..Len(w) : w[j].op \notin TableOps
  BY <1>1 DEF Ensuring, Left
<1>4. /\ Len(u) = Len(w) - 1 /\ DOMAIN u = 1..Len(u)
      /\ DOMAIN w = 1..Len(w) /\ v \in Nat
  BY <1>2, Popped DEF IInv, TypeOK
<1>5. \A j \in 1..(Len(w) - 1) : u[j] = w[j + 1]
  BY <1>2, Popped
<1> HIDE DEF w, u, c, v, commit
<1>6. /\ (i - 1) + 1 < Len(u) /\ u[i - 1] = At("index", t) /\ u[(i - 1) + 1] = commit
      /\ \A j \in ((i - 1) + 1)..Len(u) : u[j].op \notin TableOps
  <2>1. i - 1 \in 1..(Len(w) - 1) /\ i \in 1..(Len(w) - 1) /\ (i - 1) + 1 = i
    BY <1>2
  <2>2. ASSUME NEW j \in i..Len(u) PROVE u[j].op \notin TableOps
    <3>1. j \in 1..(Len(w) - 1) /\ j + 1 \in (i + 1)..Len(w)
      BY <1>2, <1>4
    <3> QED BY <1>3, <1>5, <3>1
  <2> QED BY <1>2, <1>3, <1>4, <1>5, <2>1, <2>2
<1>7. i - 1 \in DOMAIN u
  <2>1. i >= 2
    BY <1>2
  <2> QED BY <1>2, <1>4, <2>1
<1>8. CASE i = 2 /\ Version1(Now.rec[t]) = v /\ 1..v \subseteq Now.cols[t]
  <2>1. Left(u, c, Now, v, t, 1)
    BY <1>2, <1>6, <1>8 DEF Left, commit
  <2> QED BY <1>7, <1>8, <2>1 DEF Turn, u, v, c
<1>9. CASE /\ i >= 4 /\ i - 3 <= v /\ w[i - 2] = At("record", t) /\ w[i - 1] = commit
           /\ Migrating(w, t, v, 2, i - 3) /\ 1..(v - (i - 3) + 1) \subseteq Now.cols[t]
  <2> DEFINE n == (i - 1) - 3
             l == Len(w)
  <2>0. i \in Nat /\ i >= 4 /\ i - 3 <= v /\ v \in Nat /\ l \in Nat /\ i + 1 < l
    BY <1>2, <1>4, <1>9
  <2> HIDE DEF l
  <2>1. n < v /\ n \in Nat /\ v - n = v - (i - 3) + 1 /\ i - 3 = n + 1 /\ i = n + 4
    BY <2>0
  <2> HIDE DEF n
  <2>2. u[(i - 1) - 2] = At("record", t) /\ u[(i - 1) - 1] = commit
    <3>1. i - 3 \in 1..(l - 1) /\ i - 2 \in 1..(l - 1) /\ (i - 3) + 1 = i - 2 /\ (i - 2) + 1 = i - 1
          /\ (i - 1) - 2 = i - 3 /\ (i - 1) - 1 = i - 2
      BY <2>0
    <3> QED BY <1>5, <1>9, <3>1 DEF l
  <2>3. Migrating(u, t, v, 1, n)
    <3> SUFFICES ASSUME NEW j \in 1..n PROVE u[j] = At("column", <<t, v - n + j>>)
      BY DEF Migrating
    <3>1. j + 1 \in 2..(i - 3) /\ v - (i - 3) + (j + 1) = v - n + j /\ j \in 1..(l - 1)
      <4>1. j \in Nat \ {0} /\ j <= n
        BY <2>1
      <4> QED BY <2>0, <2>1, <4>1
    <3>2. w[j + 1] = At("column", <<t, v - (i - 3) + (j + 1)>>)
      BY <1>9, <3>1 DEF Migrating
    <3> QED BY <1>5, <3>1, <3>2 DEF l
  <2>4. 1..(v - n) \subseteq Now.cols[t] /\ i - 1 >= 3
    BY <1>9, <2>0, <2>1
  <2>5. Left(u, c, Now, v, t, i - 1)
    <3>1. n = (i - 1) - 3
      BY DEF n
    <3> QED BY <1>2, <1>6, <2>1, <2>2, <2>3, <2>4, <3>1 DEF Left, commit
  <2> QED BY <1>7, <2>5 DEF Turn, u, v, c
<1> QED BY <1>2, <1>8, <1>9

\* What is ahead stays ahead.
LEMMA AheadThen ==
  ASSUME SqlAssumption, IInv, work[Agent] # <<>>, NEW s \in Seq(Steps), ThenWork(Agent, s),
         NEW t, NEW m \in DOMAIN work[Agent], work[Agent][m] = At("columns", t),
         work[Agent][1] # At("columns", t)
  PROVE  \E i \in DOMAIN work'[Agent] : work'[Agent][i] = At("columns", t)
<1>1. \A j \in DOMAIN work[Agent] :
        j >= 2 => j + Len(s) - 1 \in DOMAIN work'[Agent] /\ work'[Agent][j + Len(s) - 1] = work[Agent][j]
  BY FromThen DEF Tasks
<1>2. m >= 2
  <2>1. m \in Nat \ {0}
    BY DEF IInv, TypeOK, WorkOK, Tasks
  <2> QED BY <2>1
<1> QED BY <1>1, <1>2

\* A commit of the agent makes what it has written durable.
LEMMA CommitTables ==
  ASSUME SqlAssumption, IInv, StepOf(Agent), Op(Agent, 1) = "commit"
  PROVE  TablesAfter
<1> DEFINE c == Head(work[Agent]).c
<1>1. /\ Agent \in Tasks /\ work[Agent] # <<>> /\ Head(work[Agent]) = work[Agent][1]
      /\ Commit(Agent) /\ Is(Agent, "commit")
  BY Acts DEF Tasks
<1>2. Committing /\ c \in Conns /\ Now = View(c)
  BY <1>1, Commits DEF Committing, Now
<1>3. \A d \in Conns : tx[d] # NoTx => d \in open /\ (SameTables(tx[d], disk) \/ d = c)
  BY DEF IInv, Transactions, TablesAreAgents
<1>4. CASE Raise(Agent) /\ c \notin open /\ UNCHANGED <<disk, tx>>
  <2>1. AgentsAfter
    BY <1>3, <1>4 DEF AgentsAfter
  <2>2. ~CommittingAfter
    <3>1. work'[Agent] \in {<<Step("close"), Step("clear")>>, <<>>}
      BY <1>1, <1>4 DEF Raise, IInv, TypeOK, WorkOK
    <3> QED BY <3>1 DEF CommittingAfter, Step
  <2>3. NowAfter = disk'
    BY <2>2 DEF NowAfter
  <2>4. Honest(disk')
    BY <1>4, Before
  <2> QED BY <1>4, <2>1, <2>3, <2>4, RaiseTables
<1>5. CASE c \in open /\ Committed(c) /\ disk' = View(c) /\ ThenWork(Agent, <<>>)
  <2>1. phase' = phase /\ local'[Agent] = local[Agent] /\ open' = open
    BY <1>1, <1>5, Frames, HeadFacts DEF Frame, Commit, quiet, process
  <2>2. \A d \in Conns : tx'[d] # NoTx => SameTables(tx'[d], disk')
    <3>1. \A d \in Conns : tx'[d] = NoTx \/ UNCHANGED <<disk, tx>>
      BY <1>5, <2>1, TypeParts, StoreCommit DEF IInv
    <3>2. tx'[c] = NoTx
      BY <1>2, <1>5 DEF Committed, IInv, TypeOK
    <3> QED BY <1>3, <3>1, <3>2
  <2>3. AgentsAfter
    BY <2>2 DEF AgentsAfter
  <2>4. SameTables(Now, NowAfter)
    BY <1>1, <1>2, <1>5, <2>2, Commits DEF NowAfter, ViewAfter, SameTables
  <2>5. Honest(disk') /\ Honest(NowAfter)
    BY <1>2, <1>5, <2>4, Before, SameFacts
  <2>6. \A t \in Tables : Turn(work[Agent], local[Agent], Now, t) => Turn(work'[Agent], local'[Agent], NowAfter, t)
    BY <1>1, <1>5, <2>1, <2>4, CommitTurn, SameFacts
  <2>7. ASSUME NEW t \in Tables, Due(work[Agent], local[Agent], Now, t)
        PROVE  Due(work'[Agent], local'[Agent], NowAfter, t)
    <3> DEFINE e == <<>>
    <3>1. work[Agent][1] # At("columns", t)
      BY DEF Op, At
    <3>2. e \in Seq(Steps) /\ ThenWork(Agent, e)
      BY <1>5, NoSteps
    <3> HIDE DEF e
    <3>3. CASE \E m \in DOMAIN work[Agent] : work[Agent][m] = At("columns", t)
      BY <1>1, <3>1, <3>2, <3>3, AheadThen DEF Due
    <3>4. CASE Turn(work[Agent], local[Agent], Now, t)
      BY <2>6, <3>4 DEF Due
    <3>5. CASE Complete(Now, t)
      BY <2>4, <3>5, SameFacts DEF Due
    <3> QED BY <2>7, <3>3, <3>4, <3>5 DEF Due
  <2>8. ASSUME NEW i \in DOMAIN work'[Agent], work'[Agent][i].op \in TableOps
        PROVE  Turn(work'[Agent], local'[Agent], NowAfter, TableOf(work'[Agent][i]))
    <3>1. i + 1 \in DOMAIN work[Agent] /\ work'[Agent][i] = work[Agent][i + 1]
      BY <1>1, <1>5, FromNone
    <3>2. TableOf(work[Agent][i + 1]) \in Tables
      <4>1. work[Agent][i + 1] \in Steps
        BY <1>1, <3>1, Uses
      <4> QED BY <2>8, <3>1, <4>1, StepArgs DEF TableOf, TableOps
    <3> QED BY <2>6, <2>8, <3>1, <3>2, Before
  <2>9. phase # "up"
    BY <1>1 DEF IInv, AgentSteps
  <2>10. TabledAfter
    BY <2>1, <2>7, <2>8, <2>9, Before DEF TabledAfter
  <2> QED BY <2>3, <2>5, <2>10 DEF TablesAfter
<1> QED BY <1>1, <1>4, <1>5, CommitCases

\* A step of ensure_table() for table t is over: t is still in turn, or complete.
LEMMA TurnTables ==
  ASSUME SqlAssumption, IInv, work[Agent] # <<>>, Op(Agent, 1) \in TableOps \cup {"columns"},
         NEW t \in Tables, t = TableOf(work[Agent][1]),
         NEW s \in Seq(Steps), ThenWork(Agent, s), phase' = phase,
         \A i \in 1..Len(s) : s[i].op \in TableOps => TableOf(s[i]) = t,
         AgentsAfter, Honest(disk'), Honest(NowAfter),
         \A r \in Tables : r # t => /\ NowAfter.cols[r] = disk.cols[r] /\ NowAfter.rec[r] = disk.rec[r]
                                    /\ r \in disk.indexed => r \in NowAfter.indexed,
         \/ Turn(work'[Agent], local'[Agent], NowAfter, t)
         \/ Complete(NowAfter, t) /\ \A i \in DOMAIN work'[Agent] : work'[Agent][i].op \notin TableOps
  PROVE  TablesAfter
<1>1. /\ Agent \in Tasks /\ phase \in {"starting", "refreshing"} /\ Now = disk
      /\ work[Agent] \in Seq(Steps) /\ work[Agent][1] \in Steps
  BY TableSteps DEF IInv, TypeOK, WorkOK, Tasks
<1>2. \A r \in Tables : Turn(work[Agent], local[Agent], Now, r) => r = t
  <2>1. CASE Op(Agent, 1) \in TableOps
    BY <2>1, Turns DEF Turn, Ensuring
  <2>2. CASE Op(Agent, 1) = "columns"
    BY <2>2, NoTurn DEF TableOps
  <2> QED BY <2>1, <2>2
<1>3. \A m \in DOMAIN work[Agent] : work[Agent][m].op \in TableOps => TableOf(work[Agent][m]) = t
  <2> SUFFICES ASSUME NEW m \in DOMAIN work[Agent], work[Agent][m].op \in TableOps
               PROVE  TableOf(work[Agent][m]) = t
    OBVIOUS
  <2>1. TableOf(work[Agent][m]) \in Tables
    <3>1. work[Agent][m] \in Steps
      BY <1>1, Uses
    <3> QED BY <3>1, StepArgs DEF TableOf, TableOps
  <2> QED BY <1>2, <2>1, Before
<1>4. \A r \in Tables : r # t => work[Agent][1] # At("columns", r)
  BY DEF TableOf, At
<1>5. \A r \in Tables : Due(work'[Agent], local'[Agent], NowAfter, r)
  <2> SUFFICES ASSUME NEW r \in Tables, r # t PROVE Due(work'[Agent], local'[Agent], NowAfter, r)
    BY DEF Due
  <2>1. Due(work[Agent], local[Agent], Now, r)
    BY <1>1, Before
  <2>2. CASE \E m \in DOMAIN work[Agent] : work[Agent][m] = At("columns", r)
    BY <1>4, <2>2, AheadThen DEF Due
  <2>3. CASE Complete(Now, r)
    BY <1>1, <2>3 DEF Due, Complete
  <2> QED BY <1>2, <2>1, <2>2, <2>3 DEF Due
<1>6. \A i \in DOMAIN work'[Agent] : work'[Agent][i].op \in TableOps => TableOf(work'[Agent][i]) = t
  <2> SUFFICES ASSUME NEW i \in DOMAIN work'[Agent], work'[Agent][i].op \in TableOps
               PROVE  TableOf(work'[Agent][i]) = t
    OBVIOUS
  <2>1. \/ i \in 1..Len(s) /\ work'[Agent][i] = s[i]
        \/ \E m \in DOMAIN work[Agent] : work'[Agent][i] = work[Agent][m]
    BY <1>1, FromThen
  <2> QED BY <1>3, <2>1
<1>7. TabledAfter
  BY <1>1, <1>5, <1>6 DEF TabledAfter
<1> QED BY <1>7 DEF TablesAfter

\* What the agent has written of the tables is what its next step commits.
LEMMA TableWrite ==
  ASSUME SqlAssumption, IInv, work[Agent] # <<>>, Op(Agent, 1) \in TableOps,
         NEW c \in open, NEW new \in Contents, Writes(c, new),
         CommittingAfter, Head(work'[Agent]).c = c, Honest(new)
  PROVE  AgentsAfter /\ Honest(disk') /\ Honest(NowAfter) /\ NowAfter = new
<1>1. Agent \in Tasks /\ c \in Conns /\ NoTx \notin Contents /\ tx \in [Conns -> Contents \cup {NoTx}]
  BY TypeParts DEF Tasks, IInv, StoreOK, SqlAssumption
<1>2. \A d \in Conns : SameTables(View(d), disk)
  BY <1>1, TableSteps
<1>3. \A d \in Conns : tx[d] # NoTx => SameTables(tx[d], disk)
  BY <1>2 DEF View
<1>4. CASE tx[c] = NoTx /\ disk' = new /\ tx' = tx
  <2>1. NowAfter = new
    BY <1>4 DEF NowAfter, ViewAfter
  <2>2. \A d \in Conns : tx'[d] # NoTx => SameTables(tx'[d], disk')
    <3>1. CASE MayWrite(c)
      BY <1>4, <3>1 DEF MayWrite
    <3>2. CASE new = View(c)
      BY <1>3, <1>4, <3>2 DEF View
    <3> QED BY <1>4, <3>1, <3>2 DEF Writes
  <2> QED BY <1>4, <2>1, <2>2 DEF AgentsAfter
<1>5. CASE disk' = disk /\ tx' = [tx EXCEPT ![c] = new]
  <2>1. NowAfter = new
    BY <1>1, <1>5 DEF NowAfter, ViewAfter
  <2>2. AgentsAfter
    BY <1>1, <1>3, <1>5 DEF AgentsAfter
  <2> QED BY <1>5, <2>1, <2>2, Before
<1> QED BY <1>4, <1>5 DEF Writes, Define, Modify

\* Whose turn it is when a step of ensure_table() is next.
LEMMA MyTurn ==
  ASSUME SqlAssumption, IInv, StepOf(Agent), Op(Agent, 1) \in TableOps
  PROVE  /\ Agent \in Tasks /\ work[Agent] # <<>> /\ Head(work[Agent]) = work[Agent][1]
         /\ local'[Agent] = local[Agent] /\ Now = disk /\ Honest(disk)
         /\ TableOf(work[Agent][1]) \in Tables
         /\ code[TableOf(work[Agent][1])] \in Nat \ {0}
         /\ \E i \in DOMAIN work[Agent] : Ensuring(TableOf(work[Agent][1]), i)
<1>1. Agent \in Tasks /\ work[Agent] # <<>> /\ Head(work[Agent]) = work[Agent][1]
  BY Acts DEF Tasks
<1>2. Now = disk /\ Honest(disk)
  BY <1>1, TableSteps, Before
<1>3. \A op : Is(Agent, op) => Op(Agent, 1) = op
  BY <1>1, HeadFacts
<1>4. local'[Agent] = local[Agent]
  BY <1>1, <1>3, Frames DEF Frame, TableOps
<1>5. /\ TableOf(work[Agent][1]) \in Tables
      /\ \E i \in DOMAIN work[Agent] : Ensuring(TableOf(work[Agent][1]), i)
  BY <1>1, TurnOf
<1>6. code[TableOf(work[Agent][1])] \in Nat \ {0}
  BY <1>5 DEF IInv, TypeOK, SqlAssumption
<1> QED BY <1>1, <1>2, <1>4, <1>5, <1>6

\* A step that fails leaves the tables as they are, with nothing to do.
LEMMA FailedTables ==
  ASSUME SqlAssumption, IInv, StepOf(Agent), Op(Agent, 1) \in TableOps \cup {"columns"},
         Raise(Agent), UNCHANGED <<disk, tx>>
  PROVE  TablesAfter
<1>1. work[Agent] # <<>> /\ Agent \in Tasks
  BY Acts DEF Tasks
<1> QED BY <1>1, TableSteps, QuietStore, RaiseTables

\* CREATE brings a table on,
LEMMA CreateTableTables ==
  ASSUME SqlAssumption, IInv, StepOf(Agent), Op(Agent, 1) = "table"
  PROVE  TablesAfter
<1> DEFINE w == work[Agent]
           u == work'[Agent]
           t == TableOf(w[1])
           c == local[Agent]
           v == code[t]
<1>1. /\ Agent \in Tasks /\ w # <<>> /\ Head(w) = w[1] /\ local'[Agent] = c /\ Now = disk /\ Honest(disk)
      /\ t \in Tables /\ v \in Nat \ {0} /\ CreateTable(Agent) /\ Op(Agent, 1) \in TableOps
  BY MyTurn, Acts DEF TableOps
<1>2. t = Head(w).arg
  BY <1>1 DEF TableOf, Op
<1>3. PICK i \in DOMAIN w : Ensuring(t, i)
  BY <1>1, MyTurn
<1>4. /\ i = 5 /\ Len(w) \in Nat /\ i + 1 < Len(w) /\ c \in Conns
      /\ w[2] = On("commit", c) /\ w[3] = At("record", t) /\ w[4] = On("commit", c) /\ disk.cols[t] = {}
  <2> HIDE DEF t
  <2> QED BY <1>1, <1>3, Turns
<1>5. /\ w[5] = At("index", t) /\ w[6] = On("commit", c)
      /\ \A j \in 6..Len(w) : w[j].op \notin TableOps
  BY <1>3, <1>4 DEF Ensuring, Left
<1>6. CASE Raise(Agent) /\ UNCHANGED <<disk, tx>>
  BY <1>1, <1>6, FailedTables
<1>7. CASE /\ Done(Agent) /\ UNCHANGED <<phase, status>> /\ c \in open
           /\ \E new \in Contents :
                /\ Writes(c, new)
                /\ new.cols[t] = 1..v /\ \A r \in Tables : r # t => new.cols[r] = disk.cols[r]
                /\ new.rec = disk.rec /\ new.indexed = disk.indexed
  <2> PICK new \in Contents :
                /\ Writes(c, new)
                /\ new.cols[t] = 1..v /\ \A r \in Tables : r # t => new.cols[r] = disk.cols[r]
                /\ new.rec = disk.rec /\ new.indexed = disk.indexed
    BY <1>7
  <2>1. ThenWork(Agent, <<>>)
    BY <1>1, <1>7, DoneWork
  <2>2. Len(u) = Len(w) - 1 /\ DOMAIN u = 1..Len(u) /\ \A j \in 1..(Len(w) - 1) : u[j] = w[j + 1]
    BY <1>1, <2>1, Popped
  <2> HIDE DEF w, u, t, c, v
  <2>3. /\ u[1] = On("commit", c) /\ u[2] = At("record", t) /\ u[3] = On("commit", c)
        /\ u[4] = At("index", t) /\ u[5] = On("commit", c) /\ 5 < Len(u) /\ 4 \in DOMAIN u
    <3>1. 1 \in 1..(Len(w) - 1) /\ 2 \in 1..(Len(w) - 1) /\ 3 \in 1..(Len(w) - 1)
          /\ 4 \in 1..(Len(w) - 1) /\ 5 \in 1..(Len(w) - 1) /\ 5 < Len(w) - 1
      BY <1>4
    <3>2. u[1] = w[1 + 1] /\ u[2] = w[2 + 1] /\ u[3] = w[3 + 1] /\ u[4] = w[4 + 1] /\ u[5] = w[5 + 1]
      BY <2>2, <3>1, Zenon
    <3>3. u[1] = w[2] /\ u[2] = w[3] /\ u[3] = w[4] /\ u[4] = w[5] /\ u[5] = w[6]
      BY <3>2
    <3> QED BY <1>4, <1>5, <2>2, <3>1, <3>3
  <2>4. \A j \in 5..Len(u) : u[j].op \notin TableOps
    <3> SUFFICES ASSUME NEW j \in 5..Len(u) PROVE u[j].op \notin TableOps
      OBVIOUS
    <3>1. j \in 1..(Len(w) - 1) /\ j + 1 \in 6..Len(w)
      BY <1>4, <2>2
    <3> QED BY <1>5, <2>2, <3>1
  <2>5. CommittingAfter /\ Head(u).c = c
    <3>1. u # <<>> /\ Head(u) = u[1]
      BY <2>3
    <3> QED BY <2>3, <3>1 DEF CommittingAfter, On, u
  <2>6. Honest(new)
    <3>1. disk.rec[t] = 0
      BY <1>1, <1>4 DEF Honest
    <3>2. 1..1 \subseteq 1..v /\ 1 \in 1..v
      BY <1>1
    <3> QED BY <1>1, <3>1, <3>2 DEF Honest, Migrated, Version1
  <2>7. AgentsAfter /\ Honest(disk') /\ Honest(NowAfter) /\ NowAfter = new
    BY <1>1, <1>7, <2>5, <2>6, TableWrite DEF w, u
  <2>8. Turn(u, c, new, t)
    <3>1. Migrating(u, t, v, 2, 1) /\ 1..(v - 1 + 1) \subseteq new.cols[t] /\ 1 <= v
      BY <1>1 DEF Migrating
    <3>2. Left(u, c, new, v, t, 4)
      BY <1>4, <2>3, <2>4, <3>1 DEF Left, On
    <3> QED BY <2>3, <3>2 DEF Turn, v
  <2> DEFINE e == <<>>
  <2>9. e \in Seq(Steps) /\ ThenWork(Agent, e) /\ \A j : j \notin 1..Len(e)
    BY <2>1, NoSteps
  <2> HIDE DEF e
  <2> QED BY <1>1, <1>7, <2>7, <2>8, <2>9, TurnTables DEF w, u, t, c
<1> QED BY <1>1, <1>2, <1>6, <1>7, CreateTableCases

\* and recording its version,
LEMMA RecordTables ==
  ASSUME SqlAssumption, IInv, StepOf(Agent), Op(Agent, 1) = "record"
  PROVE  TablesAfter
<1> DEFINE w == work[Agent]
           u == work'[Agent]
           t == TableOf(w[1])
           c == local[Agent]
           v == code[t]
           Recording(new) == /\ Writes(c, new)
                             /\ new.rec[t] = v /\ \A r \in Tables : r # t => new.rec[r] = disk.rec[r]
                             /\ new.cols = disk.cols /\ new.indexed = disk.indexed
<1>1. /\ Agent \in Tasks /\ w # <<>> /\ Head(w) = w[1] /\ local'[Agent] = c /\ Now = disk /\ Honest(disk)
      /\ t \in Tables /\ v \in Nat \ {0} /\ Record(Agent) /\ Op(Agent, 1) \in TableOps
  BY MyTurn, Acts DEF TableOps
<1>2. t = Head(w).arg
  BY <1>1 DEF TableOf, Op
<1>3. PICK i \in DOMAIN w : Ensuring(t, i)
  BY <1>1, MyTurn
<1>4. /\ i = 3 /\ Len(w) \in Nat /\ i + 1 < Len(w) /\ c \in Conns
      /\ w[2] = On("commit", c) /\ 1..v \subseteq disk.cols[t]
  <2> HIDE DEF t
  <2> QED BY <1>1, <1>3, Turns
<1>5. /\ w[3] = At("index", t) /\ w[4] = On("commit", c)
      /\ \A j \in 4..Len(w) : w[j].op \notin TableOps
  BY <1>3, <1>4 DEF Ensuring, Left
<1>6. CASE Raise(Agent) /\ UNCHANGED <<disk, tx>>
  BY <1>1, <1>6, FailedTables
<1>7. CASE /\ Done(Agent) /\ UNCHANGED <<phase, status>> /\ c \in open
           /\ \E new \in Contents : Recording(new)
  <2> PICK new \in Contents : Recording(new)
    BY <1>7
  <2>1. ThenWork(Agent, <<>>)
    BY <1>1, <1>7, DoneWork
  <2>2. Len(u) = Len(w) - 1 /\ DOMAIN u = 1..Len(u) /\ \A j \in 1..(Len(w) - 1) : u[j] = w[j + 1]
    BY <1>1, <2>1, Popped
  <2> HIDE DEF w, u, t, c, v
  <2>3. /\ u[1] = On("commit", c) /\ u[2] = At("index", t) /\ u[3] = On("commit", c)
        /\ 3 < Len(u) /\ 2 \in DOMAIN u
    <3>1. 1 \in 1..(Len(w) - 1) /\ 2 \in 1..(Len(w) - 1) /\ 3 \in 1..(Len(w) - 1) /\ 3 < Len(w) - 1
      BY <1>4
    <3>2. u[1] = w[1 + 1] /\ u[2] = w[2 + 1] /\ u[3] = w[3 + 1]
      BY <2>2, <3>1, Zenon
    <3>3. u[1] = w[2] /\ u[2] = w[3] /\ u[3] = w[4]
      BY <3>2
    <3> QED BY <1>4, <1>5, <2>2, <3>1, <3>3
  <2>4. \A j \in 3..Len(u) : u[j].op \notin TableOps
    <3> SUFFICES ASSUME NEW j \in 3..Len(u) PROVE u[j].op \notin TableOps
      OBVIOUS
    <3>1. j \in 1..(Len(w) - 1) /\ j + 1 \in 4..Len(w)
      BY <1>4, <2>2
    <3> QED BY <1>5, <2>2, <3>1
  <2>5. CommittingAfter /\ Head(u).c = c
    <3>1. u # <<>> /\ Head(u) = u[1]
      BY <2>3
    <3> QED BY <2>3, <3>1 DEF CommittingAfter, On, u
  <2>6. Honest(new) /\ Version1(v) = v
    <3>1. 1 \in 1..v /\ Version1(v) = v
      BY <1>1 DEF Version1
    <3>2. \A r \in Tables : r # t => new.rec[r] = disk.rec[r] /\ new.cols[r] = disk.cols[r]
      OBVIOUS
    <3>3. 1..Version1(new.rec[t]) \subseteq new.cols[t] /\ new.cols[t] # {}
      BY <1>4, <3>1
    <3> QED BY <1>1, <3>1, <3>2, <3>3 DEF Honest, Migrated
  <2>7. AgentsAfter /\ Honest(disk') /\ Honest(NowAfter) /\ NowAfter = new
    BY <1>1, <1>7, <2>5, <2>6, TableWrite DEF w, u
  <2>8. Turn(u, c, new, t)
    <3>1. Left(u, c, new, v, t, 2)
      BY <1>4, <2>3, <2>4, <2>6 DEF Left, On
    <3> QED BY <2>3, <3>1 DEF Turn, v
  <2> DEFINE e == <<>>
  <2>9. e \in Seq(Steps) /\ ThenWork(Agent, e) /\ \A j : j \notin 1..Len(e)
    BY <2>1, NoSteps
  <2> HIDE DEF e
  <2> QED BY <1>1, <1>7, <2>7, <2>8, <2>9, TurnTables DEF w, u, t, c
<1> QED BY <1>1, <1>2, <1>6, <1>7, RecordCases

\* and its indexes, which complete it,
LEMMA IndexTables ==
  ASSUME SqlAssumption, IInv, StepOf(Agent), Op(Agent, 1) = "index"
  PROVE  TablesAfter
<1> DEFINE w == work[Agent]
           u == work'[Agent]
           t == TableOf(w[1])
           c == local[Agent]
           v == code[t]
           Indexing(new) == /\ Writes(c, new) /\ new.indexed = disk.indexed \cup {t}
                            /\ new.cols = disk.cols /\ new.rec = disk.rec
<1>1. /\ Agent \in Tasks /\ w # <<>> /\ Head(w) = w[1] /\ local'[Agent] = c /\ Now = disk /\ Honest(disk)
      /\ t \in Tables /\ v \in Nat \ {0} /\ EnsureIndexes(Agent) /\ Op(Agent, 1) \in TableOps
  BY MyTurn, Acts DEF TableOps
<1>2. t = Head(w).arg
  BY <1>1 DEF TableOf, Op
<1>3. PICK i \in DOMAIN w : Ensuring(t, i)
  BY <1>1, MyTurn
<1>4. /\ i = 1 /\ Len(w) \in Nat /\ i + 1 < Len(w) /\ c \in Conns
      /\ Version1(disk.rec[t]) = v /\ 1..v \subseteq disk.cols[t]
  <2> HIDE DEF t
  <2> QED BY <1>1, <1>3, Turns
<1>5. w[2] = On("commit", c) /\ \A j \in 2..Len(w) : w[j].op \notin TableOps
  BY <1>3, <1>4 DEF Ensuring, Left
<1>6. CASE Raise(Agent) /\ UNCHANGED <<disk, tx>>
  BY <1>1, <1>6, FailedTables
<1>7. CASE /\ Done(Agent) /\ UNCHANGED <<phase, status>> /\ c \in open
           /\ \E new \in Contents : Indexing(new)
  <2> PICK new \in Contents : Indexing(new)
    BY <1>7
  <2>1. ThenWork(Agent, <<>>)
    BY <1>1, <1>7, DoneWork
  <2>2. Len(u) = Len(w) - 1 /\ DOMAIN u = 1..Len(u) /\ \A j \in 1..(Len(w) - 1) : u[j] = w[j + 1]
    BY <1>1, <2>1, Popped
  <2> HIDE DEF w, u, t, c, v
  <2>3. u[1] = On("commit", c) /\ 1 \in DOMAIN u
    <3>1. 1 \in 1..(Len(w) - 1)
      BY <1>4
    <3>2. u[1] = w[1 + 1]
      BY <2>2, <3>1, Zenon
    <3> QED BY <1>5, <2>2, <3>1, <3>2
  <2>4. \A j \in DOMAIN u : u[j].op \notin TableOps
    <3> SUFFICES ASSUME NEW j \in DOMAIN u PROVE u[j].op \notin TableOps
      OBVIOUS
    <3>1. j \in 1..(Len(w) - 1) /\ j + 1 \in 2..Len(w)
      BY <1>4, <2>2
    <3> QED BY <1>5, <2>2, <3>1
  <2>5. CommittingAfter /\ Head(u).c = c
    <3>1. u # <<>> /\ Head(u) = u[1]
      BY <2>2, <2>3, <1>4
    <3> QED BY <2>3, <3>1 DEF CommittingAfter, On, u
  <2>6. Honest(new)
    BY <1>1 DEF Honest, Migrated
  <2>7. AgentsAfter /\ Honest(disk') /\ Honest(NowAfter) /\ NowAfter = new
    BY <1>1, <1>7, <2>5, <2>6, TableWrite DEF w, u
  <2>8. Complete(new, t)
    BY <1>4 DEF Complete, v
  <2> DEFINE e == <<>>
  <2>9. e \in Seq(Steps) /\ ThenWork(Agent, e) /\ \A j : j \notin 1..Len(e)
    BY <2>1, NoSteps
  <2> HIDE DEF e
  <2> QED BY <1>1, <1>7, <2>4, <2>7, <2>8, <2>9, TurnTables DEF w, u, t, c
<1> QED BY <1>1, <1>2, <1>6, <1>7, IndexCases

\* and a column of a migration,
LEMMA ColumnTables ==
  ASSUME SqlAssumption, IInv, StepOf(Agent), Op(Agent, 1) = "column"
  PROVE  TablesAfter
<1> DEFINE w == work[Agent]
           u == work'[Agent]
           t == TableOf(w[1])
           c == local[Agent]
           v == code[t]
           s == <<On("commit", db)>>
           column == w[1].arg[2]
           Adding(new) == /\ Writes(db, new) /\ new.cols[t] = disk.cols[t] \cup {column}
                          /\ \A r \in Tables : r # t => new.cols[r] = disk.cols[r]
                          /\ new.rec = disk.rec /\ new.indexed = disk.indexed
<1>1. /\ Agent \in Tasks /\ w # <<>> /\ Head(w) = w[1] /\ local'[Agent] = c /\ Now = disk /\ Honest(disk)
      /\ t \in Tables /\ v \in Nat \ {0} /\ AddColumn(Agent) /\ Op(Agent, 1) \in TableOps
  BY MyTurn, Acts DEF TableOps
<1>2. t = Head(w).arg[1]
  BY <1>1 DEF TableOf, Op
<1>3. PICK i \in DOMAIN w : Ensuring(t, i)
  BY <1>1, MyTurn
<1> DEFINE n == i - 3
<1>4. /\ Len(w) \in Nat /\ i \in Nat /\ i >= 4 /\ i + 1 < Len(w) /\ c \in Conns
      /\ n < v /\ w[1] = At("column", <<t, v - n + 1>>)
      /\ w[i - 2] = At("record", t) /\ w[i - 1] = On("commit", c)
      /\ Migrating(w, t, v, 1, n) /\ 1..(v - n) \subseteq disk.cols[t]
  <2> HIDE DEF t
  <2> QED BY <1>1, <1>3, Turns
<1>5. /\ w[i] = At("index", t) /\ w[i + 1] = On("commit", c)
      /\ \A j \in (i + 1)..Len(w) : w[j].op \notin TableOps
  BY <1>3 DEF Ensuring, Left
<1>6. CASE Raise(Agent) /\ UNCHANGED <<disk, tx>>
  BY <1>1, <1>6, FailedTables
<1>7. CASE /\ Then(Agent, s) /\ UNCHANGED <<phase, status>> /\ db \in open
           /\ \E new \in Contents : Adding(new)
  <2> PICK new \in Contents : Adding(new)
    BY <1>7
  <2>0. db \in Conns
    BY <1>7, TypeParts DEF IInv, StoreOK
  <2>1. s \in Seq(Steps) /\ Len(s) = 1 /\ s[1] = On("commit", db)
    BY <2>0, StepTypes
  <2>2. column = v - n + 1
    BY <1>4 DEF At
  <2> HIDE DEF w, u, t, c, v, s, column
  <2>3. ThenWork(Agent, s)
    BY <1>1, <1>7, <2>1, Thens DEF IInv, TypeOK, WorkOK, w
  <2>4. Len(u) = Len(w) /\ DOMAIN u = 1..Len(u) /\ u[1] = s[1] /\ \A j \in 2..Len(w) : u[j] = w[j]
    <3>1. /\ Len(u) = Len(s) + Len(w) - 1
          /\ \A j \in 1..Len(s) : u[j] = s[j]
          /\ \A j \in (Len(s) + 1)..Len(u) : u[j] = w[j - Len(s) + 1]
          /\ u \in Seq(Steps)
      BY <1>1, <2>3 DEF ThenWork, w, u
    <3>2. Len(u) = Len(w) /\ 1 \in 1..Len(s)
      BY <1>4, <2>1, <3>1
    <3>3. \A j \in 2..Len(w) : j \in (Len(s) + 1)..Len(u) /\ j - Len(s) + 1 = j
      BY <1>4, <2>1, <3>2
    <3>4. \A j \in 2..Len(w) : u[j] = w[j]
      <4> SUFFICES ASSUME NEW j \in 2..Len(w) PROVE u[j] = w[j]
        OBVIOUS
      <4>1. u[j] = w[j - Len(s) + 1]
        BY <3>1, <3>3
      <4> QED BY <3>3, <4>1
    <3>5. DOMAIN u = 1..Len(u)
      BY <3>1
    <3> QED BY <3>1, <3>2, <3>4, <3>5
  <2>5. CommittingAfter /\ Head(u).c = db
    <3>1. u # <<>> /\ Head(u) = u[1]
      BY <1>4, <2>4
    <3> QED BY <2>1, <2>4, <3>1 DEF CommittingAfter, On, u
  <2>6. Honest(new)
    <3>1. disk.cols[t] # {}
      <4>1. 1 \in 1..(v - n)
        BY <1>1, <1>4
      <4> QED BY <1>4, <4>1
    <3> QED BY <1>1, <3>1 DEF Honest, Migrated
  <2>7. AgentsAfter /\ Honest(disk') /\ Honest(NowAfter) /\ NowAfter = new
    BY <1>1, <1>7, <2>5, <2>6, TableWrite DEF w, u
  <2>8. Turn(u, c, new, t)
    <3>1. /\ i + 1 < Len(u) /\ u[i] = At("index", t) /\ u[i + 1] = On("commit", c)
          /\ u[i - 2] = At("record", t) /\ u[i - 1] = On("commit", c) /\ i \in DOMAIN u
          /\ u[1].op = "commit"
      <4>1. i \in 2..Len(w) /\ i + 1 \in 2..Len(w) /\ i - 1 \in 2..Len(w) /\ i - 2 \in 2..Len(w)
        BY <1>4
      <4> QED BY <1>4, <1>5, <2>1, <2>4, <4>1 DEF On
    <3>2. \A j \in (i + 1)..Len(u) : u[j].op \notin TableOps
      BY <1>4, <1>5, <2>4
    <3>3. Migrating(u, t, v, 2, n)
      <4> SUFFICES ASSUME NEW j \in 2..n PROVE u[j] = At("column", <<t, v - n + j>>)
        BY DEF Migrating
      <4>1. j \in 1..n /\ j \in 2..Len(w)
        BY <1>4
      <4> QED BY <1>4, <2>4, <4>1 DEF Migrating
    <3>4. 1..(v - n + 1) \subseteq new.cols[t]
      <4> HIDE DEF n
      <4>1. n \in Int
        BY <1>4 DEF n
      <4>2. \A x \in 1..(v - n + 1) : x \in 1..(v - n) \/ x = column
        BY <1>1, <2>2, <4>1
      <4> QED BY <1>4, <4>2
    <3>5. n <= v /\ n = i - 3
      BY <1>1, <1>4
    <3> HIDE DEF n
    <3>6. Left(u, c, new, v, t, i)
      BY <1>4, <3>1, <3>2, <3>3, <3>4, <3>5 DEF Left, On
    <3> QED BY <3>1, <3>6 DEF Turn, v
  <2>9. \A j \in 1..Len(s) : s[j].op \notin TableOps
    BY <2>1 DEF On, TableOps
  <2> QED BY <1>1, <1>7, <2>1, <2>3, <2>7, <2>8, <2>9, TurnTables DEF w, u, t, c
<1> QED BY <1>1, <1>2, <1>6, <1>7, AddColumnCases

\* and the comparison of versions, which may complete it.
LEMMA VersionTables ==
  ASSUME SqlAssumption, IInv, StepOf(Agent), Op(Agent, 1) = "version"
  PROVE  TablesAfter
<1> DEFINE w == work[Agent]
           u == work'[Agent]
           t == TableOf(w[1])
           c == local[Agent]
           v == code[t]
<1>1. /\ Agent \in Tasks /\ w # <<>> /\ Head(w) = w[1] /\ local'[Agent] = c /\ Now = disk /\ Honest(disk)
      /\ t \in Tables /\ v \in Nat \ {0} /\ Version(Agent) /\ Op(Agent, 1) \in TableOps
  BY MyTurn, Acts DEF TableOps
<1>2. t = Head(w).arg
  BY <1>1 DEF TableOf, Op
<1>3. PICK i \in DOMAIN w : Ensuring(t, i)
  BY <1>1, MyTurn
<1>4. i = 2 /\ Len(w) \in Nat /\ i + 1 < Len(w) /\ c \in Conns /\ disk.cols[t] # {}
  <2> HIDE DEF t
  <2> QED BY <1>1, <1>3, Turns
<1>5. /\ w[2] = At("index", t) /\ w[3] = On("commit", c)
      /\ \A j \in 3..Len(w) : w[j].op \notin TableOps
  BY <1>3, <1>4 DEF Ensuring, Left
<1>6. UNCHANGED <<disk, tx>>
  BY <1>1 DEF Version
<1>7. /\ SameTables(disk, NowAfter) /\ AgentsAfter /\ Honest(disk') /\ Honest(NowAfter)
      /\ SameTables(View(c), disk)
  BY <1>1, <1>4, <1>6, TableSteps, QuietStore
<1> DEFINE from == Recorded(c, t)
           steps == Migration(t, from) \o <<At("record", t), On("commit", c)>>
<1>8. from = Version1(disk.rec[t]) /\ from \in Nat \ {0} /\ 1..from \subseteq disk.cols[t]
  <2>1. from = Version1(disk.rec[t]) /\ from \in Nat \ {0}
    <3> HIDE DEF t, c
    <3> QED BY <1>1, <1>4, <1>7, RecordedFacts DEF SameTables
  <2> QED BY <1>1, <1>4, <2>1 DEF Honest, Migrated
<1>9. CASE Raise(Agent)
  BY <1>1, <1>6, <1>9, FailedTables
<1>10. CASE from = v /\ Done(Agent) /\ UNCHANGED <<phase, status>>
  <2>1. ThenWork(Agent, <<>>)
    BY <1>1, <1>10, DoneWork
  <2>2. Len(u) = Len(w) - 1 /\ DOMAIN u = 1..Len(u) /\ \A j \in 1..(Len(w) - 1) : u[j] = w[j + 1]
    BY <1>1, <2>1, Popped
  <2> HIDE DEF w, u, t, c, v, from, steps
  <2>3. u[1] = At("index", t) /\ u[2] = On("commit", c) /\ 2 < Len(u) /\ 1 \in DOMAIN u
    <3>1. 1 \in 1..(Len(w) - 1) /\ 2 \in 1..(Len(w) - 1) /\ 2 < Len(w) - 1
      BY <1>4
    <3>2. u[1] = w[1 + 1] /\ u[2] = w[2 + 1]
      BY <2>2, <3>1, Zenon
    <3>3. u[1] = w[2] /\ u[2] = w[3]
      BY <3>2
    <3> QED BY <1>5, <2>2, <3>1, <3>3
  <2>4. \A j \in 2..Len(u) : u[j].op \notin TableOps
    <3> SUFFICES ASSUME NEW j \in 2..Len(u) PROVE u[j].op \notin TableOps
      OBVIOUS
    <3>1. j \in 1..(Len(w) - 1) /\ j + 1 \in 3..Len(w)
      BY <1>4, <2>2
    <3> QED BY <1>5, <2>2, <3>1
  <2>5. Left(u, c, disk, v, t, 1)
    BY <1>4, <1>8, <1>10, <2>3, <2>4 DEF Left
  <2>6. Turn(u, c, disk, t)
    BY <2>3, <2>5 DEF Turn, v
  <2>7. Turn(u, c, NowAfter, t)
    BY <1>7, <2>6, SameFacts
  <2> DEFINE e == <<>>
  <2>9. e \in Seq(Steps) /\ ThenWork(Agent, e) /\ \A j : j \notin 1..Len(e)
    BY <2>1, NoSteps
  <2>10. \A r \in Tables : /\ NowAfter.cols[r] = disk.cols[r] /\ NowAfter.rec[r] = disk.rec[r]
                           /\ r \in disk.indexed => r \in NowAfter.indexed
    BY <1>7 DEF SameTables
  <2> HIDE DEF e
  <2> QED BY <1>1, <1>7, <1>10, <2>7, <2>9, <2>10, TurnTables DEF w, u, t, c
<1>11. CASE from < v /\ Then(Agent, steps) /\ UNCHANGED <<phase, status>>
  <2> DEFINE m == v - from
  <2>1. /\ steps \in Seq(Steps) /\ Len(steps) = m + 2 /\ m \in Nat \ {0}
        /\ \A j \in 1..m : steps[j] = At("column", <<t, v - m + j>>)
        /\ steps[m + 1] = At("record", t) /\ steps[m + 2] = On("commit", c)
    <3> HIDE DEF t, c
    <3>1. c \in Conns /\ t \in Tables /\ Recorded(c, t) < code[t]
      BY <1>1, <1>4, <1>11
    <3> QED BY <3>1, VersionSteps
  <2>2. ThenWork(Agent, steps)
    <3> HIDE DEF steps
    <3> QED BY <1>1, <1>11, <2>1, Thens DEF IInv, TypeOK, WorkOK, w
  <2> HIDE DEF w, u, t, c, v, from, steps, m
  <2>3. m = v - from
    BY DEF m
  <2>4. /\ Len(u) = m + Len(w) + 1 /\ DOMAIN u = 1..Len(u)
        /\ \A j \in 1..(m + 2) : u[j] = steps[j]
        /\ \A j \in (m + 3)..Len(u) : u[j] = w[j - m - 1]
    <3>1. /\ Len(u) = Len(steps) + Len(w) - 1
          /\ \A j \in 1..Len(steps) : u[j] = steps[j]
          /\ \A j \in (Len(steps) + 1)..Len(u) : u[j] = w[j - Len(steps) + 1]
          /\ u \in Seq(Steps)
      BY <1>1, <2>2 DEF ThenWork, w, u
    <3>2. Len(u) = m + Len(w) + 1 /\ DOMAIN u = 1..Len(u) /\ \A j \in 1..(m + 2) : u[j] = steps[j]
      <4>1. Len(u) = m + Len(w) + 1
        BY <1>4, <2>1, <3>1
      <4>2. DOMAIN u = 1..Len(u)
        BY <3>1
      <4>3. \A j \in 1..(m + 2) : u[j] = steps[j]
        BY <2>1, <3>1
      <4> QED BY <4>1, <4>2, <4>3
    <3>3. ASSUME NEW j \in (m + 3)..Len(u) PROVE u[j] = w[j - m - 1]
      <4>1. j \in (Len(steps) + 1)..Len(u) /\ j - Len(steps) + 1 = j - m - 1
        BY <1>4, <2>1, <3>2
      <4>2. u[j] = w[j - Len(steps) + 1]
        BY <3>1, <4>1
      <4> QED BY <4>1, <4>2
    <3> QED BY <3>2, <3>3
  <2>5. /\ (m + 3) + 1 < Len(u) /\ u[m + 3] = At("index", t) /\ u[(m + 3) + 1] = On("commit", c)
        /\ u[(m + 3) - 2] = At("record", t) /\ u[(m + 3) - 1] = On("commit", c) /\ m + 3 \in DOMAIN u
    <3>1. /\ m + 3 \in (m + 3)..Len(u) /\ m + 4 \in (m + 3)..Len(u) /\ (m + 3) - m - 1 = 2
          /\ (m + 4) - m - 1 = 3 /\ (m + 3) - 2 = m + 1 /\ (m + 3) - 1 = m + 2 /\ (m + 3) + 1 = m + 4
          /\ m + 1 \in 1..(m + 2) /\ m + 2 \in 1..(m + 2) /\ m + 4 < Len(u) /\ m + 3 \in 1..Len(u)
      <4> DEFINE l == Len(w)
      <4>1. l \in Nat /\ l > 3 /\ Len(u) = m + l + 1 /\ m \in Nat \ {0}
        BY <1>4, <2>1, <2>4
      <4> HIDE DEF l
      <4> QED BY <4>1
    <3>2. u[m + 3] = w[2] /\ u[m + 4] = w[3]
      BY <2>4, <3>1
    <3>3. u[m + 1] = steps[m + 1] /\ u[m + 2] = steps[m + 2]
      BY <2>4, <3>1
    <3> QED BY <1>5, <2>1, <2>4, <3>1, <3>2, <3>3
  <2>6. \A j \in ((m + 3) + 1)..Len(u) : u[j].op \notin TableOps
    <3> SUFFICES ASSUME NEW j \in (m + 4)..Len(u) PROVE u[j].op \notin TableOps
      BY <2>1
    <3>1. j \in (m + 3)..Len(u) /\ j - m - 1 \in 3..Len(w)
      BY <1>4, <2>1, <2>4
    <3> QED BY <1>5, <2>4, <3>1
  <2>7. Migrating(u, t, v, 1, m)
    <3> SUFFICES ASSUME NEW j \in 1..m PROVE u[j] = At("column", <<t, v - m + j>>)
      BY DEF Migrating
    <3>1. j \in 1..(m + 2)
      BY <2>1
    <3> QED BY <2>1, <2>4, <3>1
  <2>8. m < v /\ 1..(v - m) \subseteq disk.cols[t] /\ m + 3 >= 3 /\ m = (m + 3) - 3
    <3>1. v - m = from
      BY <1>1, <1>8, <2>3
    <3> QED BY <1>1, <1>8, <2>1, <2>3, <3>1
  <2>9. Turn(u, c, NowAfter, t)
    <3> DEFINE k == m + 3
    <3>1. k \in Nat /\ k = m + 3
      BY <2>1
    <3>2. Left(u, c, disk, v, t, k)
      <4> HIDE DEF k
      <4> QED BY <1>4, <2>5, <2>6, <2>7, <2>8, <3>1 DEF Left
    <3>3. Turn(u, c, disk, t)
      BY <2>5, <3>2 DEF Turn, v
    <3> QED BY <1>7, <3>3, SameFacts
  <2>10. \A j \in 1..Len(steps) : steps[j].op \in TableOps => TableOf(steps[j]) = t
    <3> SUFFICES ASSUME NEW j \in 1..Len(steps), steps[j].op \in TableOps PROVE TableOf(steps[j]) = t
      OBVIOUS
    <3>1. j \in 1..m \/ j = m + 1 \/ j = m + 2
      BY <2>1
    <3>2. CASE j \in 1..m
      <4>1. steps[j] = At("column", <<t, v - m + j>>)
        BY <2>1, <3>2
      <4> QED BY <4>1 DEF At, TableOf
    <3>3. CASE j = m + 1
      BY <2>1, <3>3 DEF At, TableOf
    <3>4. CASE j = m + 2
      BY <2>1, <3>4 DEF On, TableOps
    <3> QED BY <3>1, <3>2, <3>3, <3>4
  <2>11. \A r \in Tables : /\ NowAfter.cols[r] = disk.cols[r] /\ NowAfter.rec[r] = disk.rec[r]
                           /\ r \in disk.indexed => r \in NowAfter.indexed
    BY <1>7 DEF SameTables
  <2> QED BY <1>1, <1>7, <1>11, <2>1, <2>2, <2>9, <2>10, <2>11, TurnTables DEF w, u, t, c
<1>12. \/ Raise(Agent)
       \/ from <= v /\ Then(Agent, IF from = v THEN <<>> ELSE steps) /\ UNCHANGED <<phase, status>>
  BY <1>1, <1>2, <1>8 DEF Version, quiet
<1> QED BY <1>1, <1>8, <1>9, <1>10, <1>11, <1>12 DEF Done

\* ensure_table() begins: what it has to do depends on whether the table is there.
LEMMA ColumnsTables ==
  ASSUME SqlAssumption, IInv, StepOf(Agent), Op(Agent, 1) = "columns"
  PROVE  TablesAfter
<1> DEFINE w == work[Agent]
           u == work'[Agent]
           t == TableOf(w[1])
           c == local[Agent]
           v == code[t]
           commit == On("commit", c)
           new == <<At("table", t), commit, At("record", t), commit, At("index", t), commit>>
           old == <<At("version", t), At("index", t), commit>>
<1>1. /\ Agent \in Tasks /\ w # <<>> /\ Head(w) = w[1] /\ Columns(Agent)
      /\ w \in Seq(Steps) /\ w[1] \in Steps /\ Len(w) \in Nat
  BY Acts DEF Tasks, IInv, TypeOK, WorkOK
<1>2. t = Head(w).arg /\ t \in Tables
  BY <1>1, StepArgs DEF TableOf, Op
<1>3. local'[Agent] = c
  <2>1. \A op : Is(Agent, op) => Op(Agent, 1) = op
    BY <1>1, HeadFacts
  <2> QED BY <1>1, <2>1, Frames DEF Frame
<1>4. UNCHANGED <<disk, tx>>
  BY <1>1 DEF Columns
<1>5. /\ ~Committing /\ Now = disk /\ phase \in {"starting", "refreshing"}
      /\ SameTables(disk, NowAfter) /\ AgentsAfter /\ Honest(disk') /\ Honest(NowAfter)
      /\ \A d \in Conns : SameTables(View(d), disk)
  BY <1>1, <1>4, TableSteps, QuietStore
<1>6. \A m \in DOMAIN w : w[m].op \notin TableOps
  BY <1>1, NoTurn DEF TableOps
<1>7. Len(w) >= 2
  <2>1. w[Len(w)] = Step("ready")
    BY <1>5 DEF IInv, AgentSteps
  <2>2. w[1].op = "columns"
    BY DEF Op
  <2>3. Len(w) # 1
    BY <2>1, <2>2 DEF Step
  <2>4. Len(w) # 0
    BY <1>1
  <2> DEFINE l == Len(w)
  <2>5. l \in Nat /\ l # 0 /\ l # 1
    BY <1>1, <2>3, <2>4
  <2> HIDE DEF l
  <2>6. l >= 2
    BY <2>5
  <2> QED BY <2>6 DEF l
<1>8. CASE Raise(Agent)
  BY <1>1, <1>4, <1>8, FailedTables
<1>9. ASSUME NEW s \in Seq(Steps), Then(Agent, s), UNCHANGED <<phase, status>>, c \in open,
             \A j \in 1..Len(s) : s[j].op \in TableOps => TableOf(s[j]) = t,
             NEW i \in 1..(Len(s) - 1), \A j \in (i + 1)..Len(s) : s[j].op \notin TableOps,
             \A x : /\ i + 1 < Len(x) /\ Len(s) <= Len(x) /\ \A j \in 1..Len(s) : x[j] = s[j]
                    /\ \A j \in (i + 1)..Len(x) : x[j].op \notin TableOps
                    => Left(x, c, disk, v, t, i)
      PROVE  TablesAfter
  <2>1. ThenWork(Agent, s)
    BY <1>1, <1>9, Thens DEF IInv, TypeOK, WorkOK
  <2> HIDE DEF w, u, t, c, v, commit, new, old
  <2>2. /\ Len(u) = Len(s) + Len(w) - 1 /\ DOMAIN u = 1..Len(u)
        /\ \A j \in 1..Len(s) : u[j] = s[j]
        /\ \A j \in (Len(s) + 1)..Len(u) : u[j] = w[j - Len(s) + 1]
    BY <1>1, <2>1 DEF ThenWork, w, u
  <2> DEFINE n == Len(s)
             l == Len(w)
  <2>3. n \in Nat /\ l \in Nat /\ l >= 2 /\ Len(u) = n + l - 1 /\ DOMAIN w = 1..l
    BY <1>1, <1>7, <2>2
  <2> HIDE DEF l
  <2>4. n + 1 <= Len(u) /\ i + 1 < Len(u) /\ i \in 1..Len(u)
    BY <1>9, <2>3
  <2>5. ASSUME NEW j \in (i + 1)..Len(u) PROVE u[j].op \notin TableOps
    <3>1. CASE j <= n
      <4>1. j \in (i + 1)..Len(s) /\ j \in 1..Len(s)
        BY <1>9, <2>3, <2>4, <3>1
      <4> QED BY <1>9, <2>2, <4>1
    <3>2. CASE j > n
      <4>1. j \in (Len(s) + 1)..Len(u) /\ j - Len(s) + 1 \in 1..l
        BY <2>3, <2>4, <3>2
      <4> QED BY <1>6, <2>2, <2>3, <4>1
    <3> QED BY <2>3, <2>4, <3>1, <3>2
  <2>6. Left(u, c, disk, v, t, i)
    BY <1>9, <2>2, <2>3, <2>4, <2>5
  <2>7. Turn(u, c, disk, t)
    BY <2>2, <2>4, <2>6 DEF Turn, v
  <2>8. Turn(u, c, NowAfter, t)
    BY <1>5, <2>7, SameFacts
  <2>9. \A r \in Tables : /\ NowAfter.cols[r] = disk.cols[r] /\ NowAfter.rec[r] = disk.rec[r]
                          /\ r \in disk.indexed => r \in NowAfter.indexed
    BY <1>5 DEF SameTables
  <2> HIDE DEF n
  <2> QED BY <1>1, <1>2, <1>3, <1>5, <1>9, <2>1, <2>8, <2>9, TurnTables DEF w, u, t, c
<1>10. CASE c \in open /\ disk.cols[t] = {} /\ Then(Agent, new) /\ UNCHANGED <<phase, status>>
  <2>1. c \in Conns
    BY <1>10, TypeParts DEF IInv, StoreOK
  <2>2. new \in Seq(Steps) /\ Len(new) = 6
    BY <1>2, <2>1, StepTypes
  <2>3. /\ new[1] = At("table", t) /\ new[2] = commit /\ new[3] = At("record", t)
        /\ new[4] = commit /\ new[5] = At("index", t) /\ new[6] = commit
    OBVIOUS
  <2> HIDE DEF new, t, c, v, w, u
  <2>4. \A j \in 1..Len(new) : new[j].op \in TableOps => TableOf(new[j]) = t
    BY <2>2, <2>3 DEF At, On, TableOps, TableOf, commit
  <2>5. 5 \in 1..(Len(new) - 1) /\ \A j \in (5 + 1)..Len(new) : new[j].op \notin TableOps
    BY <2>2, <2>3 DEF On, TableOps, commit
  <2>6. ASSUME NEW x, 5 + 1 < Len(x), \A j \in 1..Len(new) : x[j] = new[j],
               \A j \in (5 + 1)..Len(x) : x[j].op \notin TableOps
        PROVE  Left(x, c, disk, v, t, 5)
    <3>1. /\ x[1] = At("table", t) /\ x[2] = commit /\ x[3] = At("record", t)
          /\ x[4] = commit /\ x[5] = At("index", t) /\ x[6] = commit
      BY <2>2, <2>3, <2>6
    <3> QED BY <1>10, <2>1, <2>6, <3>1 DEF Left, commit
  <2> HIDE DEF commit
  <2> QED BY <1>9, <1>10, <2>2, <2>4, <2>5, <2>6
<1>11. CASE c \in open /\ disk.cols[t] # {} /\ Then(Agent, old) /\ UNCHANGED <<phase, status>>
  <2>1. c \in Conns
    BY <1>11, TypeParts DEF IInv, StoreOK
  <2>2. old \in Seq(Steps) /\ Len(old) = 3
    BY <1>2, <2>1, StepTypes
  <2>3. old[1] = At("version", t) /\ old[2] = At("index", t) /\ old[3] = commit
    OBVIOUS
  <2> HIDE DEF old, t, c, v, w, u
  <2>4. \A j \in 1..Len(old) : old[j].op \in TableOps => TableOf(old[j]) = t
    BY <2>2, <2>3 DEF At, On, TableOps, TableOf, commit
  <2>5. 2 \in 1..(Len(old) - 1) /\ \A j \in (2 + 1)..Len(old) : old[j].op \notin TableOps
    BY <2>2, <2>3 DEF On, TableOps, commit
  <2>6. ASSUME NEW x, 2 + 1 < Len(x), \A j \in 1..Len(old) : x[j] = old[j],
               \A j \in (2 + 1)..Len(x) : x[j].op \notin TableOps
        PROVE  Left(x, c, disk, v, t, 2)
    <3>1. x[1] = At("version", t) /\ x[2] = At("index", t) /\ x[3] = commit
      BY <2>2, <2>3, <2>6
    <3> QED BY <1>11, <2>1, <2>6, <3>1 DEF Left, commit
  <2> HIDE DEF commit
  <2> QED BY <1>9, <1>11, <2>2, <2>4, <2>5, <2>6
<1>12. \/ Raise(Agent)
       \/ /\ c \in open /\ Then(Agent, IF disk.cols[t] = {} THEN new ELSE old)
          /\ UNCHANGED <<phase, status>>
  <2>1. c \in open => View(c).cols = disk.cols
    BY <1>5, TypeParts DEF SameTables, IInv, StoreOK
  <2> QED BY <1>1, <1>2, <2>1 DEF Columns, quiet
<1> QED BY <1>8, <1>10, <1>11, <1>12

\* All steps bring the tables on.
LEMMA TablesKept ==
  ASSUME SqlAssumption, IInv, NEW k \in Tasks, StepOf(k)
  PROVE  TablesAreAgents' /\ Records' /\ Tabled'
<1>1. CASE k # Agent
  BY <1>1, ClientTables, AfterTables, Frames DEF Frame
<1>2. CASE k = Agent
  <2>1. TablesAfter
    BY <1>2, QuietTables, CommitTables, ColumnsTables, CreateTableTables, RecordTables, IndexTables,
       ColumnTables, VersionTables DEF TableOps
  <2> QED BY <1>2, <2>1, AfterTables, Frames DEF Frame
<1> QED BY <1>1, <1>2

-----------------------------------------------------------------------------
(* The other actions                                                       *)

\* Task k is given the steps s from outside; the storage does nothing.
Given(k, s) ==
  /\ UNCHANGED <<disk, tx, open, used, db, known, local>>
  /\ work' = [work EXCEPT ![k] = s]

GivenOps == {"get", "migrate", "insert", "fetch", "columns", "ready", "close", "clear"}

\* Steps given from outside, of the kinds a call begins with, keep contents in order.
LEMMA GivenKept ==
  ASSUME SqlAssumption, IInv, NEW k \in Tasks, NEW s \in Seq(Steps), Given(k, s),
         \A i \in DOMAIN s : s[i].op \in GivenOps /\ s[i].c = NoConn
  PROVE  /\ WorkOK' /\ Transactions' /\ Dialogs' /\ AlteredIsThere' /\ Written'
         /\ work'[k] = s /\ \A j \in Tasks : j # k => work'[j] = work[j]
<1>1. /\ work \in [Tasks -> Seq(Steps)] /\ work' \in [Tasks -> Seq(Steps)]
      /\ work'[k] = s /\ \A j \in Tasks : j # k => work'[j] = work[j]
  BY DEF Given, IInv, TypeOK, WorkOK
<1>2. UNCHANGED <<disk, tx, open, used>>
  BY DEF Given
<1>3. WorkOK'
  BY <1>1, <1>2 DEF IInv, TypeOK, WorkOK, Issued
<1>4. Transactions' /\ Dialogs'
  BY <1>2 DEF IInv, Transactions, Dialogs, DialogMade, Below
<1>5. AlteredIsThere'
  <2> SUFFICES ASSUME NEW j \in Tasks, NEW i \in DOMAIN work'[j], work'[j][i].op = "altered"
               PROVE  i = 1 /\ (work'[j][i].c \in open' => work'[j][i].arg \in ViewAfter(work'[j][i].c).dialog)
    BY DEF AlteredIsThere, Op, View, ViewAfter
  <2>1. j # k
    BY <1>1 DEF GivenOps
  <2> QED BY <1>1, <1>2, <2>1 DEF IInv, AlteredIsThere, Op, View, ViewAfter
<1>6. Written'
  <2> SUFFICES ASSUME NEW j \in Clients, NEW i \in DOMAIN work'[j], work'[j][i].op = "return"
               PROVE  \/ i = 1 /\ j \in disk'.rows
                      \/ /\ i = 2 /\ work'[j][1].op = "commit"
                         /\ work'[j][1].c \in open' => j \in ViewAfter(work'[j][1].c).rows
    BY DEF Written, Op, View, ViewAfter, Durable
  <2>1. j # k /\ j \in Tasks
    BY <1>1 DEF GivenOps, Tasks
  <2> QED BY <1>1, <1>2, <2>1 DEF IInv, Written, Op, View, ViewAfter, Durable
<1> QED BY <1>1, <1>3, <1>4, <1>5, <1>6

\* What it leaves to the clients it says nothing of.
LEMMA GivenFine ==
  ASSUME SqlAssumption, IInv, NEW k \in Tasks, NEW s \in Seq(Steps), Given(k, s),
         \A i \in DOMAIN s : s[i].op \in GivenOps /\ s[i].c = NoConn,
         NEW j \in Clients, j # k, Fine(j)
  PROVE  FineAfter(j)
<1>1. work'[j] = work[j] /\ UNCHANGED <<disk, tx, open, db, known, local>>
  BY GivenKept DEF Given, Tasks
<1> QED BY <1>1 DEF IInv, FineClients, FineSteps, FineAfter, View, ViewAfter, Op

\* A client is given steps, or stopped: the tables stay as they are.
LEMMA GivenTables ==
  ASSUME SqlAssumption, IInv, NEW k \in Clients, NEW s \in Seq(Steps), Given(k, s),
         \A i \in DOMAIN s : s[i].op \in GivenOps /\ s[i].c = NoConn,
         phase' = phase, code' = code
  PROVE  /\ AgentSteps' /\ TablesAreAgents' /\ Records' /\ Tabled' /\ work'[Agent] = work[Agent]
<1>1. work'[Agent] = work[Agent] /\ UNCHANGED <<disk, tx, local>>
  BY GivenKept DEF Given, Tasks, SqlAssumption
<1>2. AgentSteps'
  BY <1>1 DEF IInv, AgentSteps, Op
<1>3. \A d : ViewAfter(d) = View(d)
  BY <1>1 DEF View, ViewAfter
<1>4. CommittingAfter <=> Committing
  BY <1>1 DEF CommittingAfter, Committing, Is
<1>5. NowAfter = Now
  BY <1>1, <1>3, <1>4 DEF NowAfter, Now
<1>6. SameTables(Now, NowAfter) /\ SameTables(disk, disk')
  BY <1>1, <1>5 DEF SameTables
<1>7. AgentsAfter
  BY <1>1, <1>4 DEF AgentsAfter, IInv, TablesAreAgents
<1>8. TablesAfter
  BY <1>1, <1>6, <1>7, Untouched
<1> QED BY <1>1, <1>2, <1>8, AfterTables

\* Where nothing is written no item is lost and no call fails.
LEMMA SavedSame ==
  ASSUME IInv, UNCHANGED <<disk, tx>>, open' \subseteq open,
         \A j \in Clients : status'[j] = "saved" => status[j] = "saved",
         \A j \in Clients : status'[j] = "failed" => status[j] = "failed",
         excused \subseteq excused'
  PROVE  SavedIsDurable' /\ CallsSucceed'
<1>1. SavedIsDurable'
  BY DEF IInv, SavedIsDurable, View
<1>2. CallsSucceed'
  BY DEF IInv, CallsSucceed
<1> QED BY <1>1, <1>2

\* A client is cancelled.
LEMMA CancelKept ==
  ASSUME SqlAssumption, IInv, NEW k \in Clients, Cancel(k)
  PROVE  IInv'
<1> DEFINE e == <<>>
<1>1. e \in Seq(Steps) /\ (\A i \in DOMAIN e : e[i].op \in GivenOps /\ e[i].c = NoConn) /\ Given(k, e)
      /\ DOMAIN e = {}
  BY DEF Cancel, Given, process
<1>2. k \in Tasks /\ k # Agent /\ phase' = phase /\ code' = code /\ excused' = excused /\ starts' = starts
      /\ local' = local /\ UNCHANGED <<disk, tx, open, used, db, known>>
  BY DEF Cancel, Tasks, SqlAssumption, rest, process
<1>3. /\ status' \in [Clients -> {"new", "running", "saved", "read", "failed", "split", "cancelled"}]
      /\ status'[k] = "cancelled" /\ \A j \in Clients : j # k => status'[j] = status[j]
  BY DEF Cancel, IInv, TypeOK
<1> HIDE DEF e
<1>4. /\ WorkOK' /\ Transactions' /\ Dialogs' /\ AlteredIsThere' /\ Written'
      /\ work'[k] = e /\ \A j \in Tasks : j # k => work'[j] = work[j]
  BY <1>1, <1>2, GivenKept
<1>5. TypeOK'
  BY <1>2, <1>3, <1>4 DEF IInv, TypeOK
<1>6. ClientSteps'
  <2>1. \A j \in Clients : j # k => work'[j] = work[j] /\ status'[j] = status[j]
    BY <1>3, <1>4 DEF Tasks
  <2>2. work'[k] = <<>> /\ \A i \in DOMAIN work'[k] : FALSE
    BY <1>1, <1>4 DEF e
  <2> QED BY <2>1, <2>2 DEF IInv, ClientSteps, Op
<1>7. \A j \in Clients : status'[j] = "running" /\ j \notin excused' => j # k /\ Fine(j)
  BY <1>2, <1>3 DEF Fine
<1>8. FineClients'
  BY <1>1, <1>2, <1>7, GivenFine, FineParts
<1>9. /\ AgentSteps' /\ TablesAreAgents' /\ Records' /\ Tabled' /\ work'[Agent] = work[Agent]
  BY <1>1, <1>2, GivenTables
<1>10. Connected'
  BY <1>2, <1>7, <1>9 DEF IInv, Connected, Is, Op, Fine
<1>11. DialogFirst'
  BY <1>2, <1>3, <1>9 DEF IInv, DialogFirst, Is, View
<1>12. SavedIsDurable' /\ CallsSucceed'
  BY <1>2, <1>3, SavedSame
<1> QED BY <1>4, <1>5, <1>6, <1>8, <1>9, <1>10, <1>11, <1>12 DEF IInv

\* While the agent is up its storage has an open connection, with the dialog table.
LEMMA UpFacts ==
  ASSUME SqlAssumption, IInv, phase \in {"up", "stale", "refreshing"}
  PROVE  db \in open /\ ~Is(Agent, "clear") /\ disk.dialog # {}
<1>1. ~Is(Agent, "clear")
  <2>1. \A op : Is(Agent, op) => Op(Agent, 1) = op /\ work[Agent] # <<>>
    BY HeadFacts DEF Tasks
  <2> QED BY <2>1, AgentOps DEF StartSteps
<1> QED BY <1>1 DEF IInv, Connected, DialogFirst

\* A call of save_event() or get_history() begins: what it will insert or fetch
\* needs a column that it asks for.
LEMMA BeginKept ==
  ASSUME SqlAssumption, IInv, NEW k \in Clients, NEW s \in Seq(Steps), Begin(k, s),
         s # <<>>, s[1].op = "get",
         \A i \in DOMAIN s :
           /\ s[i].op \in {"get", "migrate", "insert", "fetch"} /\ s[i].c = NoConn
           /\ s[i].op = "get" => i = 1
           /\ s[i].op \in {"insert", "fetch"} =>
                i = Len(s) /\ \E j \in DOMAIN s : j < i /\ Asked(s[j], s[i].arg)
  PROVE  IInv'
<1>1. Given(k, s) /\ \A i \in DOMAIN s : s[i].op \in GivenOps /\ s[i].c = NoConn
  BY DEF Begin, Given, GivenOps, process
<1>2. /\ k \in Tasks /\ k # Agent /\ phase' = phase /\ code' = code /\ starts' = starts
      /\ local' = local /\ UNCHANGED <<disk, tx, open, used, db, known>>
      /\ phase \in {"up", "stale", "refreshing"} /\ status[k] = "new"
  BY DEF Begin, Tasks, SqlAssumption, process
<1>3. /\ status' \in [Clients -> {"new", "running", "saved", "read", "failed", "split", "cancelled"}]
      /\ status'[k] = "running" /\ \A j \in Clients : j # k => status'[j] = status[j]
  BY DEF Begin, IInv, TypeOK
<1>4. /\ WorkOK' /\ Transactions' /\ Dialogs' /\ AlteredIsThere' /\ Written'
      /\ work'[k] = s /\ \A j \in Tasks : j # k => work'[j] = work[j]
  BY <1>1, <1>2, GivenKept
<1>5. excused \subseteq excused' /\ excused' \subseteq Clients /\ (k \in excused' \/ ~StaleCache)
  BY DEF Begin, IInv, TypeOK
<1>6. TypeOK'
  BY <1>2, <1>3, <1>4, <1>5 DEF IInv, TypeOK
<1>7. ClientSteps'
  <2>1. \A j \in Clients : j # k => work'[j] = work[j] /\ status'[j] = status[j]
    BY <1>3, <1>4 DEF Tasks
  <2>2. \A i \in DOMAIN s : s[i].op \in ClientOps /\ (s[i].op \in {"insert", "fetch", "return"} => i = Len(s))
    BY DEF ClientOps
  <2> QED BY <1>3, <1>4, <2>1, <2>2 DEF IInv, ClientSteps, Op
<1>8. db \in open /\ ~Is(Agent, "clear") /\ disk.dialog # {}
  BY <1>2, UpFacts
<1>9. ASSUME k \notin excused' PROVE FineAfter(k)
  <2>1. known \subseteq View(db).dialog /\ ViewAfter(db) = View(db)
    BY <1>2, <1>5, <1>9 DEF StaleCache, View, ViewAfter
  <2>2. Usable(s, open)
    BY DEF Usable
  <2>3. Provided(s, View(db).dialog)
    BY DEF Provided
  <2> QED BY <1>2, <1>4, <1>8, <2>1, <2>2, <2>3 DEF FineAfter
<1>10. FineClients'
  <2>1. ASSUME NEW j \in Clients, status'[j] = "running", j \notin excused', j # k PROVE FineAfter(j)
    <3>1. Fine(j)
      BY <1>3, <1>5, <2>1 DEF Fine
    <3> QED BY <1>1, <1>2, <2>1, <3>1, GivenFine
  <2> QED BY <1>9, <2>1, FineParts
<1>11. AgentSteps' /\ TablesAreAgents' /\ Records' /\ Tabled' /\ work'[Agent] = work[Agent]
  BY <1>1, <1>2, GivenTables
<1>12. Connected'
  BY <1>2, <1>8, <1>11 DEF IInv, Connected, Is, Op, Fine
<1>13. DialogFirst'
  BY <1>2, <1>8 DEF DialogFirst
<1>14. SavedIsDurable' /\ CallsSucceed'
  BY <1>2, <1>3, <1>5, SavedSame
<1> QED BY <1>4, <1>6, <1>7, <1>10, <1>11, <1>12, <1>13, <1>14 DEF IInv

\* save_event() begins.
LEMMA SaveEventKept ==
  ASSUME SqlAssumption, IInv, NEW k \in Clients, NEW o \in Origins, SaveEvent(k, o)
  PROVE  IInv'
<1> DEFINE s == <<Step("get"), At("migrate", {o}), At("insert", o)>>
<1>1. {o} \in SUBSET DialogColumns
  BY DEF DialogColumns
<1>2. s \in Seq(Steps) /\ Len(s) = 3
  BY <1>1, StepTypes
<1>3. /\ s[1].op = "get" /\ s[2].op = "migrate" /\ s[2].arg = {o} /\ s[3].op = "insert" /\ s[3].arg = o
      /\ s[1].c = NoConn /\ s[2].c = NoConn /\ s[3].c = NoConn
  BY DEF Step, At
<1>4. Begin(k, s)
  BY DEF SaveEvent
<1> HIDE DEF s
<1>5. DOMAIN s = 1..3 /\ s # <<>>
  BY <1>2
<1>6. \A i \in DOMAIN s :
        /\ s[i].op \in {"get", "migrate", "insert", "fetch"} /\ s[i].c = NoConn
        /\ s[i].op = "get" => i = 1
        /\ s[i].op \in {"insert", "fetch"} => i = 3
  BY <1>3, <1>5
<1>7. 2 \in DOMAIN s /\ 2 < 3 /\ Asked(s[2], s[3].arg)
  BY <1>3, <1>5 DEF Asked
<1>8. \A i \in DOMAIN s :
        /\ s[i].op \in {"get", "migrate", "insert", "fetch"} /\ s[i].c = NoConn
        /\ s[i].op = "get" => i = 1
        /\ s[i].op \in {"insert", "fetch"} =>
             i = Len(s) /\ \E j \in DOMAIN s : j < i /\ Asked(s[j], s[i].arg)
  BY <1>2, <1>6, <1>7
<1> QED BY <1>2, <1>3, <1>4, <1>5, <1>8, BeginKept

\* get_history() begins.
LEMMA GetHistoryKept ==
  ASSUME SqlAssumption, IInv, NEW k \in Clients, NEW o \in Origins, GetHistory(k, o)
  PROVE  IInv'
<1> DEFINE s == <<Step("get"), At("migrate", Base), At("migrate", {o}), At("fetch", o)>>
<1>1. {o} \in SUBSET DialogColumns /\ Base \in SUBSET DialogColumns
  BY DEF DialogColumns
<1>2. s \in Seq(Steps) /\ Len(s) = 4
  BY <1>1, StepTypes
<1>3. /\ s[1].op = "get" /\ s[2].op = "migrate" /\ s[3].op = "migrate" /\ s[3].arg = {o}
      /\ s[4].op = "fetch" /\ s[4].arg = o
      /\ s[1].c = NoConn /\ s[2].c = NoConn /\ s[3].c = NoConn /\ s[4].c = NoConn
  BY DEF Step, At
<1>4. Begin(k, s)
  BY DEF GetHistory
<1> HIDE DEF s
<1>5. DOMAIN s = 1..4 /\ s # <<>>
  BY <1>2
<1>6. \A i \in DOMAIN s :
        /\ s[i].op \in {"get", "migrate", "insert", "fetch"} /\ s[i].c = NoConn
        /\ s[i].op = "get" => i = 1
        /\ s[i].op \in {"insert", "fetch"} => i = 4
  BY <1>3, <1>5
<1>7. 3 \in DOMAIN s /\ 3 < 4 /\ Asked(s[3], s[4].arg)
  BY <1>3, <1>5 DEF Asked
<1>8. \A i \in DOMAIN s :
        /\ s[i].op \in {"get", "migrate", "insert", "fetch"} /\ s[i].c = NoConn
        /\ s[i].op = "get" => i = 1
        /\ s[i].op \in {"insert", "fetch"} =>
             i = Len(s) /\ \E j \in DOMAIN s : j < i /\ Asked(s[j], s[i].arg)
  BY <1>2, <1>6, <1>7
<1> QED BY <1>2, <1>3, <1>4, <1>5, <1>8, BeginKept

\* start() and refresh() go through the tables of the program in their order.
LEMMA EnsureSteps ==
  ASSUME SqlAssumption
  PROVE  /\ EnsureTables \in Seq(Steps) /\ Len(EnsureTables) = 2 * NTables /\ 2 * NTables \in Nat
         /\ \A i \in 1..(2 * NTables) :
              EnsureTables[i].op \in {"get", "columns"} /\ EnsureTables[i].c = NoConn
         /\ \A t \in Tables : 2 * t \in 1..(2 * NTables) /\ EnsureTables[2 * t] = At("columns", t)
<1> DEFINE m == 2 * NTables
<1>1. NTables \in Nat /\ m \in Nat
  BY DEF SqlAssumption
<1>2. \A n \in 1..m : n % 2 # 1 => n \div 2 \in Tables
  BY <1>1 DEF Tables
<1>3. \A t \in Tables : 2 * t \in 1..m /\ (2 * t) % 2 # 1 /\ (2 * t) \div 2 = t
  BY <1>1 DEF Tables
<1> HIDE DEF m
<1>4. EnsureTables = [n \in 1..m |-> IF n % 2 = 1 THEN Step("get") ELSE At("columns", n \div 2)]
  BY DEF EnsureTables, m
<1>5. \A n \in 1..m : EnsureTables[n] = IF n % 2 = 1 THEN Step("get") ELSE At("columns", n \div 2)
  BY <1>4
<1>6. \A n \in 1..m : EnsureTables[n] \in Steps
  BY <1>2, <1>5, StepTypes
<1>7. EnsureTables \in [1..m -> Steps]
  BY <1>4, <1>6
<1>8. EnsureTables \in Seq(Steps) /\ Len(EnsureTables) = m
  BY <1>1, <1>7
<1>9. \A i \in 1..m : EnsureTables[i].op \in {"get", "columns"} /\ EnsureTables[i].c = NoConn
  <2>1. Step("get").op = "get" /\ Step("get").c = NoConn
    BY DEF Step
  <2>2. \A x : At("columns", x).op = "columns" /\ At("columns", x).c = NoConn
    BY DEF At
  <2>3. \A i \in 1..m : EnsureTables[i] = Step("get") \/ \E x : EnsureTables[i] = At("columns", x)
    BY <1>5
  <2> QED BY <2>1, <2>2, <2>3
<1>10. \A t \in Tables : 2 * t \in 1..m /\ EnsureTables[2 * t] = At("columns", t)
  BY <1>3, <1>5
<1> QED BY <1>1, <1>8, <1>9, <1>10 DEF m

\* The agent, idle so far, is given steps that write nothing yet.
LEMMA IdleAgent ==
  ASSUME SqlAssumption, IInv, NEW s \in Seq(Steps), Given(Agent, s), work[Agent] = <<>>,
         \A i \in DOMAIN s : s[i].op \in {"get", "columns", "ready", "close", "clear"} /\ s[i].c = NoConn,
         code' \in [Tables -> 1..MaxVersion], starts' \in Nat, status' = status, excused' = excused,
         phase' \in {"down", "starting", "up", "refreshing", "stale", "stopping"}
  PROVE  /\ TypeOK' /\ Transactions' /\ Dialogs' /\ AlteredIsThere' /\ ClientSteps' /\ Written'
         /\ FineClients' /\ SavedIsDurable' /\ CallsSucceed' /\ TablesAreAgents' /\ Records'
         /\ work'[Agent] = s /\ db' = db /\ open' = open /\ disk' = disk
         /\ db # NoConn => db \in open
         /\ \A j \in Clients : Fine(j)' => Fine(j)
<1>1. /\ Agent \in Tasks /\ \A i \in DOMAIN s : s[i].op \in GivenOps /\ s[i].c = NoConn
  BY DEF GivenOps, Tasks
<1>2. /\ WorkOK' /\ Transactions' /\ Dialogs' /\ AlteredIsThere' /\ Written'
      /\ work'[Agent] = s /\ \A j \in Tasks : j # Agent => work'[j] = work[j]
  BY <1>1, GivenKept
<1>3. UNCHANGED <<disk, tx, open, used, db, known, local>>
  BY DEF Given
<1>4. TypeOK'
  BY <1>2, <1>3 DEF IInv, TypeOK
<1>5. \A j \in Clients : j # Agent /\ j \in Tasks /\ work'[j] = work[j]
  BY <1>2 DEF SqlAssumption, Tasks
<1>6. ClientSteps'
  BY <1>5 DEF IInv, ClientSteps, Op
<1>7. \A j \in Clients : Fine(j)' => Fine(j)
  BY DEF Fine
<1>8. FineClients'
  <2>1. \A j \in Clients : status'[j] = "running" /\ j \notin excused' => Fine(j)
    BY DEF Fine
  <2> QED BY <1>1, <1>5, <2>1, GivenFine, FineParts
<1>9. SavedIsDurable' /\ CallsSucceed'
  BY <1>3, SavedSame
<1>10. ~Committing /\ Now = disk /\ ~Is(Agent, "clear")
  BY DEF Committing, Is, Now
<1>11. ~Committing'
  <2>1. ASSUME s # <<>> PROVE Head(s).op # "commit"
    <3>1. 1 \in DOMAIN s /\ Head(s) = s[1]
      BY <2>1
    <3> QED BY <3>1
  <2> QED BY <1>2, <2>1 DEF Committing, Is
<1>12. TablesAreAgents'
  BY <1>3, <1>10 DEF IInv, TablesAreAgents, SameTables
<1>13. Records'
  BY <1>3, <1>10, <1>11 DEF IInv, Records, Now, Honest, Migrated
<1>14. db # NoConn => db \in open
  BY <1>10 DEF IInv, Connected
<1> QED BY <1>2, <1>3, <1>4, <1>6, <1>7, <1>8, <1>9, <1>12, <1>13, <1>14

\* The agent is sent round the tables.
LEMMA RoundKept ==
  ASSUME SqlAssumption, IInv, NEW s \in Seq(Steps), Given(Agent, s),
         s # <<>>, s[Len(s)] = Step("ready"),
         \A i \in 1..(Len(s) - 1) : s[i].op \in {"get", "columns"} /\ s[i].c = NoConn,
         \A t \in Tables : \E i \in DOMAIN s : s[i] = At("columns", t),
         \/ phase = "down" /\ work[Agent] = <<>> /\ phase' = "starting" /\ s[1].op = "get"
         \/ phase \in {"up", "stale"} /\ phase' = "refreshing",
         code' \in [Tables -> 1..MaxVersion], starts' \in Nat, status' = status, excused' = excused
  PROVE  IInv'
<1>1. work[Agent] = <<>>
  BY DEF IInv, AgentSteps
<1>2. Len(s) \in Nat \ {0} /\ DOMAIN s = 1..Len(s)
  OBVIOUS
<1>3. \A i \in DOMAIN s : s[i].op \in {"get", "columns", "ready"} /\ s[i].c = NoConn
  <2>1. ASSUME NEW i \in DOMAIN s PROVE i = Len(s) \/ i \in 1..(Len(s) - 1)
    BY <1>2
  <2> QED BY <2>1 DEF Step
<1>4. /\ TypeOK' /\ Transactions' /\ Dialogs' /\ AlteredIsThere' /\ ClientSteps' /\ Written'
      /\ FineClients' /\ SavedIsDurable' /\ CallsSucceed' /\ TablesAreAgents' /\ Records'
      /\ work'[Agent] = s /\ db' = db /\ open' = open /\ disk' = disk
      /\ db # NoConn => db \in open
      /\ \A j \in Clients : Fine(j)' => Fine(j)
  BY <1>1, <1>3, IdleAgent
<1>5. 1 \in DOMAIN s /\ Head(s) = s[1]
  BY <1>2
<1>6. ~Is(Agent, "clear")'
  BY <1>3, <1>4, <1>5 DEF Is
<1>7. AgentSteps'
  BY <1>4 DEF AgentSteps, Op, StartSteps
<1>8. Connected'
  BY <1>4, <1>6 DEF IInv, Connected, Op
<1>9. DialogFirst'
  BY <1>4 DEF IInv, DialogFirst
<1>10. Tabled'
  <2>1. \A t \in Tables : Ahead(t)'
    BY <1>4 DEF Ahead
  <2>2. \A i \in DOMAIN work'[Agent] : work'[Agent][i].op \notin TableOps
    BY <1>3, <1>4 DEF TableOps
  <2> QED BY <2>1, <2>2 DEF Tabled, Op
<1> QED BY <1>4, <1>7, <1>8, <1>9, <1>10 DEF IInv

\* ... with the tables its program declares.
LEMMA RoundSteps ==
  ASSUME SqlAssumption, NEW f \in Seq(Steps), \A i \in DOMAIN f : f[i].op = "get" /\ f[i].c = NoConn
  PROVE  LET s == f \o EnsureTables \o <<Step("ready")>>
         IN /\ s \in Seq(Steps) /\ s # <<>> /\ s[Len(s)] = Step("ready")
            /\ \A i \in 1..(Len(s) - 1) : s[i].op \in {"get", "columns"} /\ s[i].c = NoConn
            /\ \A t \in Tables : \E i \in DOMAIN s : s[i] = At("columns", t)
            /\ \A i \in 1..Len(f) : s[i] = f[i]
<1> DEFINE e == EnsureTables
           g == f \o e
           r == <<Step("ready")>>
           s == g \o r
           m == 2 * NTables
<1>1. /\ e \in Seq(Steps) /\ Len(e) = m /\ m \in Nat
      /\ \A i \in 1..m : e[i].op \in {"get", "columns"} /\ e[i].c = NoConn
      /\ \A t \in Tables : 2 * t \in 1..m /\ e[2 * t] = At("columns", t)
  BY EnsureSteps
<1>2. r \in Seq(Steps) /\ Len(r) = 1 /\ r[1] = Step("ready")
  BY StepTypes
<1> HIDE DEF e, m, r
<1>3. /\ g \in Seq(Steps) /\ Len(g) = Len(f) + Len(e)
      /\ \A i \in 1..Len(f) : g[i] = f[i]
      /\ \A i \in 1..Len(e) : g[Len(f) + i] = e[i]
  <2>1. f \in Seq(Steps) /\ e \in Seq(Steps)
    BY <1>1
  <2>2. g \in Seq(Steps) /\ Len(g) = Len(f) + Len(e)
    BY <2>1, Joining
  <2>3. \A i \in 1..Len(f) : g[i] = f[i]
    BY <2>1, Joining
  <2>4. \A i \in 1..Len(e) : g[Len(f) + i] = e[i]
    BY <2>1, Joining
  <2> QED BY <2>2, <2>3, <2>4
<1> HIDE DEF g
<1>4. /\ s \in Seq(Steps) /\ Len(s) = Len(g) + Len(r)
      /\ \A i \in 1..Len(g) : s[i] = g[i]
      /\ \A i \in 1..Len(r) : s[Len(g) + i] = r[i]
  <2>1. g \in Seq(Steps) /\ r \in Seq(Steps)
    BY <1>2, <1>3
  <2>2. s \in Seq(Steps) /\ Len(s) = Len(g) + Len(r)
    BY <2>1, Joining
  <2>3. \A i \in 1..Len(g) : s[i] = g[i]
    BY <2>1, Joining
  <2>4. \A i \in 1..Len(r) : s[Len(g) + i] = r[i]
    BY <2>1, Joining
  <2> QED BY <2>2, <2>3, <2>4
<1> HIDE DEF s
<1> DEFINE n == Len(f)
<1>5. n \in Nat /\ Len(g) = n + m /\ Len(s) = n + m + 1 /\ DOMAIN s = 1..(n + m + 1) /\ DOMAIN f = 1..n
  BY <1>1, <1>2, <1>3, <1>4
<1>6. \A i \in 1..n : s[i] = f[i]
  BY <1>1, <1>3, <1>4, <1>5
<1>7. \A i \in 1..m : s[n + i] = e[i] /\ n + i \in 1..(n + m + 1)
  BY <1>1, <1>3, <1>4, <1>5
<1>8. s[n + m + 1] = Step("ready")
  <2>1. 1 \in 1..Len(r)
    BY <1>2
  <2>2. s[Len(g) + 1] = r[1]
    BY <1>4, <2>1
  <2> QED BY <1>2, <1>5, <2>2
<1> HIDE DEF n
<1>9. ASSUME NEW i \in 1..(n + m) PROVE s[i].op \in {"get", "columns"} /\ s[i].c = NoConn
  <2>1. CASE i <= n
    BY <1>5, <1>6, <2>1
  <2>2. CASE i > n
    <3>1. i - n \in 1..m /\ n + (i - n) = i
      BY <1>1, <1>5, <2>2
    <3> QED BY <1>1, <1>7, <3>1
  <2> QED BY <1>1, <1>5, <2>1, <2>2
<1>10. \A t \in Tables : \E i \in DOMAIN s : s[i] = At("columns", t)
  BY <1>1, <1>5, <1>7
<1>11. Len(s) - 1 = n + m /\ s # <<>> /\ s[Len(s)] = Step("ready")
  <2>1. Len(s) # 0
    BY <1>1, <1>5
  <2> QED BY <1>1, <1>5, <1>8, <2>1
<1>12. s = f \o EnsureTables \o <<Step("ready")>>
  BY DEF s, g, e, r
<1> QED BY <1>4, <1>6, <1>9, <1>10, <1>11, <1>12 DEF n

\* start() begins.
LEMMA StartKept ==
  ASSUME SqlAssumption, IInv, NEW release \in [Tables -> 1..MaxVersion], Start(release)
  PROVE  IInv'
<1> DEFINE f == <<Step("get")>>
           s == f \o EnsureTables \o <<Step("ready")>>
<1>1. f \in Seq(Steps) /\ Len(f) = 1 /\ f[1] = Step("get") /\ f[1].op = "get" /\ f[1].c = NoConn
  BY StepTypes DEF Step
<1>2. Given(Agent, s) /\ phase = "down" /\ work[Agent] = <<>> /\ phase' = "starting"
      /\ code' = release /\ starts' = starts + 1 /\ status' = status /\ excused' = excused
  BY DEF Start, Given, process, Declares
<1> HIDE DEF f
<1>3. \A i \in DOMAIN f : f[i].op = "get" /\ f[i].c = NoConn
  BY <1>1
<1>4. /\ s \in Seq(Steps) /\ s # <<>> /\ s[Len(s)] = Step("ready")
      /\ \A i \in 1..(Len(s) - 1) : s[i].op \in {"get", "columns"} /\ s[i].c = NoConn
      /\ \A t \in Tables : \E i \in DOMAIN s : s[i] = At("columns", t)
      /\ \A i \in 1..Len(f) : s[i] = f[i]
  BY <1>1, <1>3, RoundSteps
<1> HIDE DEF s
<1>5. s[1].op = "get"
  BY <1>1, <1>4
<1>6. starts' \in Nat
  BY <1>2 DEF IInv, TypeOK
<1> QED BY <1>2, <1>4, <1>5, <1>6, RoundKept

\* refresh() begins.
LEMMA RefreshKept ==
  ASSUME SqlAssumption, IInv, NEW release \in [Tables -> 1..MaxVersion], Refresh(release)
  PROVE  IInv'
<1> DEFINE f == <<>>
           s == f \o EnsureTables \o <<Step("ready")>>
<1>1. f \in Seq(Steps) /\ Len(f) = 0 /\ DOMAIN f = {}
  OBVIOUS
<1>2. EnsureTables \o <<Step("ready")>> = s
  <2>1. f \o EnsureTables = EnsureTables
    BY EnsureSteps
  <2> QED BY <2>1
<1>3. Given(Agent, s) /\ phase \in {"up", "stale"} /\ phase' = "refreshing"
      /\ code' = release /\ starts' = starts /\ status' = status /\ excused' = excused
  BY <1>2 DEF Refresh, Given, process, Declares
<1> HIDE DEF f
<1>4. /\ s \in Seq(Steps) /\ s # <<>> /\ s[Len(s)] = Step("ready")
      /\ \A i \in 1..(Len(s) - 1) : s[i].op \in {"get", "columns"} /\ s[i].c = NoConn
      /\ \A t \in Tables : \E i \in DOMAIN s : s[i] = At("columns", t)
  BY <1>1, RoundSteps
<1> HIDE DEF s
<1>5. starts' \in Nat
  BY <1>3 DEF IInv, TypeOK
<1> QED BY <1>3, <1>4, <1>5, RoundKept

\* stop() begins.
LEMMA StopKept ==
  ASSUME SqlAssumption, IInv, Stop
  PROVE  IInv'
<1> DEFINE s == <<Step("close"), Step("clear")>>
<1>1. /\ s \in Seq(Steps) /\ DOMAIN s = 1..2 /\ s # <<>> /\ Head(s).op = "close"
      /\ \A i \in DOMAIN s : s[i].op \in {"close", "clear"} /\ s[i].c = NoConn
  BY StepTypes DEF Step
<1>2. /\ Given(Agent, s) /\ phase \in {"up", "stale"} /\ phase' = "stopping"
      /\ code' = code /\ starts' = starts /\ status' = status /\ excused' = excused
  BY DEF Stop, Given, process, rest
<1>3. work[Agent] = <<>> /\ code' \in [Tables -> 1..MaxVersion] /\ starts' \in Nat
  BY <1>2 DEF IInv, AgentSteps, TypeOK
<1> HIDE DEF s
<1>4. /\ TypeOK' /\ Transactions' /\ Dialogs' /\ AlteredIsThere' /\ ClientSteps' /\ Written'
      /\ FineClients' /\ SavedIsDurable' /\ CallsSucceed' /\ TablesAreAgents' /\ Records'
      /\ work'[Agent] = s /\ db' = db /\ open' = open /\ disk' = disk
      /\ db # NoConn => db \in open
      /\ \A j \in Clients : Fine(j)' => Fine(j)
  BY <1>1, <1>2, <1>3, IdleAgent
<1>5. AgentSteps'
  BY <1>2, <1>4 DEF AgentSteps, s
<1>6. Connected'
  BY <1>1, <1>2, <1>4 DEF Connected, Is
<1>7. DialogFirst'
  BY <1>2, <1>4 DEF IInv, DialogFirst
<1>8. Tabled'
  BY <1>1, <1>2, <1>4 DEF Tabled, Op, TableOps
<1> QED BY <1>4, <1>5, <1>6, <1>7, <1>8 DEF IInv

\* The process dies.
LEMMA CrashKept ==
  ASSUME SqlAssumption, IInv, Crash
  PROVE  IInv'
<1>1. /\ disk' = disk /\ open' = {} /\ used' = 0 /\ db' = NoConn /\ known' = {} /\ phase' = "down"
      /\ code' = code /\ starts' = starts /\ excused' = excused
      /\ \A c \in Conns : tx'[c] = NoTx
      /\ \A k \in Tasks : work'[k] = <<>> /\ local'[k] = NoConn
      /\ \A k \in Clients : status'[k] # "running"
      /\ \A k \in Clients : status'[k] \in {"saved", "failed"} => status'[k] = status[k]
  BY DEF Crash
<1>2. /\ tx' \in [Conns -> Contents \cup {NoTx}] /\ local' \in [Tasks -> (1..0) \cup {NoConn}]
      /\ work' \in [Tasks -> Seq(Steps)]
      /\ status' \in [Clients -> {"new", "running", "saved", "read", "failed", "split", "cancelled"}]
  BY DEF Crash, IInv, TypeOK
<1> DEFINE e == <<>>
<1>3. DOMAIN e = {}
  OBVIOUS
<1>4. \A k \in Tasks : work'[k] = e /\ DOMAIN work'[k] = {}
  BY <1>1
<1> HIDE DEF e
<1>5. WorkOK'
  BY <1>2, <1>4 DEF WorkOK, Issued
<1>6. TypeOK'
  <2>1. MaxConns \in Nat
    BY DEF SqlAssumption
  <2> QED BY <1>1, <1>2, <1>5, <2>1 DEF IInv, TypeOK
<1>7. Transactions' /\ Dialogs'
  BY <1>1 DEF IInv, Transactions, Dialogs, DialogMade
<1>8. Agent \in Tasks /\ \A k \in Clients : k \in Tasks
  BY DEF Tasks
<1>9. AlteredIsThere' /\ ClientSteps' /\ Written'
  BY <1>1, <1>4, <1>8 DEF AlteredIsThere, ClientSteps, Written
<1>10. FineClients' /\ \A k \in Clients : ~Fine(k)'
  BY <1>1 DEF FineClients, Fine
<1>11. DialogFirst'
  BY <1>1 DEF DialogFirst
<1>12. AgentSteps'
  BY <1>1, <1>8 DEF AgentSteps
<1>13. Connected'
  BY <1>1, <1>10 DEF Connected
<1>14. ~Committing'
  BY <1>1, <1>8 DEF Committing, Is
<1>15. TablesAreAgents' /\ Records'
  BY <1>1, <1>14 DEF IInv, TablesAreAgents, Records, Now, Honest, Migrated
<1>16. Tabled'
  BY <1>1, <1>4, <1>8 DEF Tabled
<1>17. SavedIsDurable' /\ CallsSucceed'
  BY <1>1 DEF IInv, SavedIsDurable, CallsSucceed
<1> QED BY <1>6, <1>7, <1>9, <1>10, <1>11, <1>12, <1>13, <1>15, <1>16, <1>17 DEF IInv

-----------------------------------------------------------------------------
(* The theorems                                                            *)

\* A step of a task keeps the invariant,
LEMMA StepKept ==
  ASSUME SqlAssumption, IInv, NEW k \in Tasks, StepOf(k)
  PROVE  IInv'
<1>1. TypeOK' /\ Transactions' /\ Dialogs'
  BY StepsOK DEF StepOK, StoreOK
<1> QED
  BY <1>1, AlteredIsThereKept, ClientStepsKept, WrittenKept, FineClientsKept, DialogFirstKept,
     AgentStepsKept, ConnectedKept, TablesKept, SavedIsDurableKept, CallsSucceedKept DEF IInv

\* and no step at all does,
LEMMA StutterKept ==
  ASSUME IInv, UNCHANGED vars
  PROVE  IInv'
<1>1. TypeOK'
  BY DEF vars, IInv, TypeOK, WorkOK, Issued
<1>2. Transactions' /\ Dialogs' /\ AlteredIsThere' /\ ClientSteps' /\ Written'
  BY DEF vars, IInv, Transactions, Below, Dialogs, DialogMade, AlteredIsThere, ClientSteps, Written,
         Durable, Op, View
<1>3. FineClients' /\ DialogFirst' /\ AgentSteps' /\ Connected'
  BY DEF vars, IInv, FineClients, Fine, FineSteps, DialogFirst, AgentSteps, Connected, Op, Is, View
<1>4. Now' = Now /\ \A t : Complete(Now, t)' = Complete(Now, t)
  BY DEF vars, Now, Committing, Is, View, Complete
<1>5. TablesAreAgents' /\ Records'
  BY <1>4 DEF vars, IInv, TablesAreAgents, Records, Committing, Is, Honest, Migrated
<1>6. \A t : InTurn(t)' = InTurn(t)
  BY <1>4 DEF vars, InTurn, Ensuring, Left
<1>7. Tabled'
  BY <1>4, <1>6 DEF vars, IInv, Tabled, Ahead, Complete, Op
<1>8. SavedIsDurable' /\ CallsSucceed'
  BY DEF vars, IInv, SavedIsDurable, CallsSucceed, View
<1> QED BY <1>1, <1>2, <1>3, <1>5, <1>7, <1>8 DEF IInv

\* and it holds in the beginning,
LEMMA InitHolds ==
  ASSUME SqlAssumption, Init
  PROVE  IInv
<1> DEFINE e == <<>>
<1>1. DOMAIN e = {} /\ e \in Seq(Steps)
  OBVIOUS
<1>2. /\ work = [k \in Tasks |-> e] /\ \A k \in Tasks : work[k] = e
  BY DEF Init
<1>3. \A k \in Tasks : work[k] = <<>>
  BY DEF Init
<1> HIDE DEF e
<1>4. Agent \in Tasks /\ \A k \in Clients : k \in Tasks
  BY DEF Tasks
<1>5. WorkOK
  BY <1>1, <1>2 DEF WorkOK, Issued
<1>6. Fresh \in Contents /\ disk = Fresh
  BY DEF Init, Fresh, Contents
<1>7. TypeOK
  <2>1. disk \in Contents /\ tx \in [Conns -> Contents \cup {NoTx}] /\ used \in 0..MaxConns
    BY <1>6 DEF Init, SqlAssumption
  <2>2. open \subseteq 1..used /\ db \in (1..used) \cup {NoConn} /\ known \subseteq DialogColumns
    BY DEF Init
  <2>3. code \in [Tables -> 1..MaxVersion] /\ local \in [Tasks -> (1..used) \cup {NoConn}]
    BY DEF Init, SqlAssumption
  <2>4. /\ status \in [Clients -> {"new", "running", "saved", "read", "failed", "split", "cancelled"}]
        /\ excused \subseteq Clients /\ starts \in Nat
        /\ phase \in {"down", "starting", "up", "refreshing", "stale", "stopping"}
    BY DEF Init
  <2> QED BY <1>5, <2>1, <2>2, <2>3, <2>4 DEF TypeOK
<1>8. Transactions /\ Dialogs
  BY DEF Init, Fresh, Transactions, Dialogs, DialogMade
<1>9. AlteredIsThere /\ ClientSteps /\ Written
  BY <1>1, <1>2, <1>3, <1>4 DEF AlteredIsThere, ClientSteps, Written
<1>10. \A k \in Clients : ~Fine(k)
  BY DEF Init, Fine
<1>11. FineClients /\ DialogFirst /\ AgentSteps /\ Connected
  BY <1>3, <1>4, <1>10 DEF Init, FineClients, DialogFirst, AgentSteps, Connected
<1>12. Now = disk
  BY <1>3, <1>4 DEF Now, Committing, Is
<1>13. TablesAreAgents /\ Records
  BY <1>12 DEF Init, Fresh, TablesAreAgents, Records, Honest, Migrated
<1>14. Tabled
  BY <1>1, <1>2, <1>4 DEF Init, Tabled
<1>15. SavedIsDurable /\ CallsSucceed
  BY DEF Init, SavedIsDurable, CallsSucceed
<1> QED BY <1>7, <1>8, <1>9, <1>11, <1>13, <1>14, <1>15 DEF IInv

\* so that it always does.
LEMMA NextKept ==
  ASSUME SqlAssumption, IInv, [Next]_vars
  PROVE  IInv'
BY StepKept, SaveEventKept, GetHistoryKept, CancelKept, StartKept, RefreshKept, StopKept, CrashKept,
   StutterKept DEF Next

\* The inductive invariant: what connections see, what is left to do for every
\* table and client, and which connections those steps are on, after every
\* await of _get_db, _init_db, _migrate_columns, save_event, get_history and
\* ensure_table, every cancelled call, start, refresh, stop and crash.
THEOREM SqlInvariant == Spec => []IInv
<1>1. Init => IInv
  BY SqlAssumption, InitHolds
<1>2. IInv /\ [Next]_vars => IInv'
  BY SqlAssumption, NextKept
<1> QED BY <1>1, <1>2, PTL DEF Spec

\* A connection sees tables, columns, rows and versions of the right kind, and
\* the steps left to the tasks are steps of the code, on connections it made.
THEOREM SqlTypeCorrect == Spec => []TypeOK
<1>1. IInv => TypeOK
  BY DEF IInv
<1> QED BY <1>1, SqlInvariant, PTL

\* An agent that has started or refreshed without an error finds all its tables
\* committed, with the columns and indexes of the declared version and with
\* that version recorded, whatever runs did on the same connection meanwhile
\* and at whichever await an earlier process crashed.
THEOREM SqlReadyMeansComplete == Spec => []ReadyMeansComplete
<1>1. IInv => ReadyMeansComplete
  BY DEF IInv, Tabled, Complete, Version1, ReadyMeansComplete
<1> QED BY <1>1, SqlInvariant, PTL

\* An item whose save_event() returned stays committed and is in every read,
\* although the transaction it was written in is shared by all the tasks.
THEOREM SqlSavedIsDurable == Spec => []SavedIsDurable
<1>1. IInv => SavedIsDurable
  BY DEF IInv
<1> QED BY <1>1, SqlInvariant, PTL

\* save_event() and get_history() fail only where _close() interrupts them or
\* has left them a stale _known_columns, or where there are two connections.
THEOREM SqlCallsSucceed == Spec => []CallsSucceed
<1>1. IInv => CallsSucceed
  BY DEF IInv
<1> QED BY <1>1, SqlInvariant, PTL
=============================================================================
