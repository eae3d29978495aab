--------------------------- MODULE DialogRunProofs ---------------------------
(***************************************************************************)
(* Agent.run(), proved for any number of runs over one storage, any        *)
(* answers of the model, and any failures and cancellations; and the       *)
(* history page over what they store.                                      *)
(***************************************************************************)
EXTENDS HttpHistory, Integers, FiniteSetTheorems, SequenceTheorems, WellFoundedInduction, TLAPS

-----------------------------------------------------------------------------
(* Types *)

Dialogs == Origins \cup {NoOrigin}
ChainStates == Chains \cup {Empty}
CallIds == {<<>>} \cup (Runs \X Nat)
Sent == [type : OutputTypes, call : CallIds, origin : Origins]
Lines == [type : OutputTypes, call : CallIds]
StoredItems ==
  [by : Runs, type : OutputTypes \cup {"input"}, call : CallIds, origin : Origins,
   prev : Nat, chain : ChainStates]
Flags == BOOLEAN
Contexts == [
  pc : Places, saved : Flags, base : Nat, inputs : Nat,
  origin : Dialogs, moved : Dialogs, typing : Dialogs, chain : ChainStates,
  last : Nat, tail : Nat, memory : Seq(StoredItems), todo : Seq(Sent), calls : Seq(CallIds),
  more : Flags, asks : Nat, made : Nat, shown : Seq(Lines),
  outcome : Outcomes, cancels : Nat, afterRun : Nat]

Types ==
  /\ store \in Seq(StoredItems)
  /\ \A i \in DOMAIN store : store[i].prev \in 0..(i - 1)
  /\ run \in [Runs -> Contexts]

-----------------------------------------------------------------------------
(* The inductive invariant, run by run *)

\* What a run points at is there, and a run at work has a dialog to talk to.
PointsAtItems(r) ==
  /\ {run[r].base, run[r].last, run[r].tail} \subseteq 0..Len(store)
  /\ run[r].pc \in Body => run[r].origin \in Origins

\* x is the newest item of the run, or the item it continues where it has none.
IsNewest(r, x) ==
  \/ Own(r) = {} /\ x = run[r].base
  \/ x \in Own(r) /\ \A j \in Own(r) : j <= x

\* The outputs of a run continue one another, and while it is at work the next one
\* will continue the newest.
OnePath(r) ==
  /\ ~ run[r].saved \/ run[r].pc = "new" => Own(r) = {}
  /\ \A i \in Own(r) : store[i].type # "input" =>
       LET before == {j \in Own(r) : j < i}
       IN store[i].prev = IF before = {} THEN run[r].base ELSE Max(before)
  /\ run[r].saved /\ run[r].pc \in Body => IsNewest(r, run[r].last)

\* The tail a tool leaves for the next one is the newest item by then.
TailIsNewest(r) == run[r].pc = "tool" => run[r].tail \in {NoItem, run[r].last}

OwnOutputs(r) == {i \in Own(r) : store[i].type # "input"}

\* While a run is at work its outputs are those it has shown, but for the one it
\* has sent and not yet stored.
Shows(r) ==
  /\ run[r].pc = "new" => run[r].shown = <<>>
  /\ run[r].saved =>
       LET stored == Cardinality(OwnOutputs(r)) IN
       /\ Len(run[r].shown) \in {stored, stored + 1}
       /\ run[r].pc \in Body =>
            Len(run[r].shown) = IF run[r].pc = "save" THEN stored + 1 ELSE stored

\* AFTER_RUN is the last thing a run does.
Ends(r) ==
  /\ run[r].afterRun <= 1
  /\ run[r].pc # "done" => run[r].afterRun = 0

ResultOf(r, n) == [type |-> "result", call |-> <<r, n>>]
Never(r, n) == \A m \in DOMAIN run[r].shown : run[r].shown[m] # ResultOf(r, n)
Once(r, n) ==
  \E m \in DOMAIN run[r].shown :
    /\ run[r].shown[m] = ResultOf(r, n)
    /\ \A j \in DOMAIN run[r].shown : run[r].shown[j] = ResultOf(r, n) => j = m

\* The answer in delivery: the texts, and then the calls that are not queued yet.
FromModel(r, k) ==
  LET queued == k + Len(run[r].calls)
      number(i) == run[r].made - Len(run[r].todo) + i
  IN /\ run[r].tail = NoItem
     /\ run[r].made - Len(run[r].todo) <= queued
     /\ \A i \in DOMAIN run[r].todo :
          IF number(i) > queued
          THEN run[r].todo[i].type = "call" /\ run[r].todo[i].call = <<r, number(i)>>
          ELSE run[r].todo[i].type = "text"

\* The result of call k in delivery, and what follows it.
FromTool(r, k) ==
  /\ run[r].pc # "afterLlm"
  /\ run[r].todo # <<>>
  /\ k + Len(run[r].calls) = run[r].made
  /\ run[r].todo[1].type = "result" => k > 0 /\ run[r].todo[1].call = <<r, k>>
  /\ \A i \in DOMAIN run[r].todo : /\ run[r].todo[i].type \in {"result", "followUp"}
                                   /\ i > 1 => run[r].todo[i].type = "followUp"

\* The result at the head of the items to deliver has not been shown.
Pending(r) == run[r].pc = "send" /\ run[r].todo # <<>> /\ run[r].todo[1].type = "result"

\* The calls of a run are numbered in the order it makes them: the first k have
\* been answered, the next ones are queued, and the rest are still to be delivered.
Ledger(r, k) ==
  /\ k + Len(run[r].calls) <= run[r].made
  /\ \A i \in DOMAIN run[r].calls : run[r].calls[i] = <<r, k + i>>
  /\ \A n \in Nat \ {0} : IF n < k \/ (n = k /\ ~ Pending(r)) THEN Once(r, n) ELSE Never(r, n)
  /\ run[r].pc \in {"ask", "retype", "tool"} => k + Len(run[r].calls) = run[r].made
  /\ run[r].pc \in {"ask", "retype"} => k = run[r].made
  /\ run[r].pc \in {"send", "save", "afterLlm"} => FromModel(r, k) \/ FromTool(r, k)
  /\ run[r].pc = "save" => run[r].todo # <<>>
  /\ run[r].pc = "afterLlm" => run[r].todo = <<>>

Answers(r) ==
  /\ run[r].pc \in {"new", "input", "before"} =>
       run[r].shown = <<>> /\ run[r].made = 0 /\ run[r].calls = <<>> /\ run[r].tail = NoItem
  /\ run[r].pc \in Loop \cup {"retype"} => \E k \in Nat : Ledger(r, k)

RunInv(r) ==
  /\ PointsAtItems(r)
  /\ OnePath(r)
  /\ TailIsNewest(r)
  /\ Shows(r)
  /\ Ends(r)
  /\ Answers(r)

IInv == Types /\ \A r \in Runs : RunInv(r)

-----------------------------------------------------------------------------
(* Sequences and sets                                                      *)

\* The head and the tail of a sequence that is not empty.
LEMMA HeadAndTail ==
  ASSUME NEW S, NEW s \in Seq(S), s # <<>>
  PROVE  /\ Head(s) = s[1] /\ Head(s) \in S /\ Tail(s) \in Seq(S)
         /\ Len(s) \in Nat \ {0} /\ Len(Tail(s)) = Len(s) - 1
         /\ DOMAIN Tail(s) = 1..(Len(s) - 1)
         /\ \A i \in 1..(Len(s) - 1) : Tail(s)[i] = s[i + 1]
         /\ (Tail(s) = <<>> <=> Len(s) = 1)
<1>1. Len(s) \in Nat \ {0}
  BY EmptySeq, LenProperties, SMT
<1>2. Head(s) = s[1] /\ Head(s) \in S
  BY <1>1, SMT
<1>3. /\ Tail(s) \in Seq(S) /\ Len(Tail(s)) = Len(s) - 1
      /\ DOMAIN Tail(s) = 1..(Len(s) - 1)
      /\ \A i \in 1..(Len(s) - 1) : Tail(s)[i] = s[i + 1]
  BY <1>1, SMT
<1>4. Tail(s) = <<>> <=> Len(Tail(s)) = 0
  BY <1>3, EmptySeq
<1> QED BY <1>1, <1>2, <1>3, <1>4, SMT

\* A sequence grows by one element.
LEMMA OneMore ==
  ASSUME NEW S, NEW s \in Seq(S), NEW e \in S, NEW t, t = Append(s, e)
  PROVE  /\ t \in Seq(S) /\ Len(t) = Len(s) + 1 /\ t[Len(s) + 1] = e
         /\ DOMAIN s = 1..Len(s) /\ DOMAIN t = 1..(Len(s) + 1) /\ Len(s) \in Nat
         /\ \A i \in DOMAIN s : t[i] = s[i]
  BY SMT

\* How many blocks of a type an answer has is a number.
LEMMA CountIsNat ==
  ASSUME NEW answer \in Seq(BlockTypes), NEW type
  PROVE  Count(answer, type) \in Nat
<1> DEFINE N == {n \in DOMAIN answer : answer[n] = type}
<1>1. IsFiniteSet(DOMAIN answer)
  <2>1. DOMAIN answer = 1..Len(answer) /\ Len(answer) \in Nat
    BY SMT
  <2> QED BY <2>1, FS_Interval
<1>2. IsFiniteSet(N)
  BY <1>1, FS_Subset
<1> QED BY <1>2, FS_CardinalityType DEF Count

\* The greatest element of a set of numbers that has one.
LEMMA Greatest ==
  ASSUME NEW S \in SUBSET Nat, NEW x \in S, \A y \in S : y <= x
  PROVE  Max(S) = x
<1>1. \A z \in S : (\A y \in S : z >= y) => z = x
  BY SMT
<1>2. \A y \in S : x >= y
  BY SMT
<1> QED BY <1>1, <1>2, Zenon DEF Max

-----------------------------------------------------------------------------
(* The storage                                                             *)

\* What a step of a run may do to the storage.
Adds(r, item) ==
  /\ item \in StoredItems /\ item.by = r /\ item.prev \in 0..Len(store)
  /\ store' = Append(store, item)

\* An item a run stores is the only one its dialog gets, and the newest one.
LEMMA Added ==
  ASSUME Types, NEW r \in Runs, NEW item, Adds(r, item)
  PROVE  /\ store' \in Seq(StoredItems) /\ Len(store) \in Nat /\ Len(store') = Len(store) + 1
         /\ DOMAIN store = 1..Len(store) /\ DOMAIN store' = 1..(Len(store) + 1)
         /\ store'[Len(store) + 1] = item
         /\ \A i \in DOMAIN store : store'[i] = store[i]
         /\ \A i \in DOMAIN store' : store'[i].prev \in 0..(i - 1)
         /\ Own(r)' = Own(r) \cup {Len(store')}
         /\ \A q \in Runs \ {r} : Own(q)' = Own(q)
<1>1. /\ store' \in Seq(StoredItems) /\ Len(store) \in Nat /\ Len(store') = Len(store) + 1
      /\ DOMAIN store = 1..Len(store) /\ DOMAIN store' = 1..(Len(store) + 1)
      /\ store'[Len(store) + 1] = item
      /\ \A i \in DOMAIN store : store'[i] = store[i]
  BY OneMore DEF Types, Adds
<1>2. \A i \in DOMAIN store' : store'[i].prev \in 0..(i - 1)
  BY <1>1, SMT DEF Types, Adds
<1>3. Own(r)' = Own(r) \cup {Len(store')}
  BY <1>1, SMT DEF Own, Adds
<1>4. \A q \in Runs \ {r} : Own(q)' = Own(q)
  BY <1>1, SMT DEF Own, Adds
<1> QED BY <1>1, <1>2, <1>3, <1>4

\* The items of a run are positions of the storage.
LEMMA OwnAreItems ==
  ASSUME Types, NEW r \in Runs
  PROVE  /\ Own(r) \subseteq 1..Len(store) /\ Len(store) \in Nat
         /\ IsFiniteSet(Own(r)) /\ IsFiniteSet(OwnOutputs(r))
         /\ Cardinality(OwnOutputs(r)) \in Nat
<1>1. DOMAIN store = 1..Len(store) /\ Len(store) \in Nat
  BY DEF Types
<1>2. Own(r) \subseteq 1..Len(store) /\ OwnOutputs(r) \subseteq 1..Len(store)
  BY <1>1 DEF Own, OwnOutputs
<1>3. IsFiniteSet(1..Len(store))
  BY <1>1, FS_Interval
<1> QED BY <1>1, <1>2, <1>3, FS_Subset, FS_CardinalityType

\* The ledger of a run is read from its context alone.
LEMMA SameAnswers ==
  ASSUME NEW r \in Runs, run'[r] = run[r], Answers(r)
  PROVE  Answers(r)'
<1>1. \A k : (FromModel(r, k)' <=> FromModel(r, k)) /\ (FromTool(r, k)' <=> FromTool(r, k))
  BY DEF FromModel, FromTool
<1>2. \A n : (Once(r, n)' <=> Once(r, n)) /\ (Never(r, n)' <=> Never(r, n))
  BY DEF Once, Never
<1>3. ASSUME NEW k \in Nat, Ledger(r, k)
      PROVE  Ledger(r, k)'
  BY <1>1, <1>2, <1>3 DEF Ledger, Pending
<1> QED BY <1>3 DEF Answers

\* A run that comes to its end has fired AFTER_RUN or is cancelled in this step.
Finished(r) ==
  run[r].pc \notin {"new", "done"} /\ run'[r].pc = "done" =>
    run'[r].afterRun = 1 \/ run'[r].cancels > run[r].cancels

Keeps == IInv' /\ \A r \in Runs : Finished(r)

\* A step of one run leaves the others what the invariant says of them.
LEMMA Frame ==
  ASSUME IInv, NEW r \in Runs, run' \in [Runs -> Contexts],
         \A q \in Runs \ {r} : run'[q] = run[q],
         store' = store \/ \E item : Adds(r, item),
         RunInv(r)', Finished(r)
  PROVE  Keeps
<1>1. Types
  BY DEF IInv
<1>2. Types'
  <2>1. CASE store' = store
    BY <2>1, <1>1 DEF Types
  <2>2. CASE \E item : Adds(r, item)
    BY <2>2, <1>1, Added DEF Types
  <2> QED BY <2>1, <2>2
<1>3. /\ \A q \in Runs \ {r} : Own(q)' = Own(q)
      /\ Len(store) \in Nat /\ Len(store') \in Nat /\ Len(store) <= Len(store')
      /\ DOMAIN store = 1..Len(store)
      /\ \A i \in DOMAIN store : store'[i] = store[i]
  <2>1. CASE store' = store
    BY <2>1, <1>1 DEF Types, Own
  <2>2. CASE \E item : Adds(r, item)
    <3> PICK item : Adds(r, item)
      BY <2>2
    <3> QED BY <1>1, Added, SMT
  <2> QED BY <2>1, <2>2
<1>4. ASSUME NEW q \in Runs, q # r
      PROVE  RunInv(q)'
  <2>1. RunInv(q) /\ run'[q] = run[q] /\ Own(q)' = Own(q)
    BY <1>3, <1>4 DEF IInv
  <2>2. \A i \in Own(q) : store'[i] = store[i]
    BY <1>3 DEF Own
  <2>3. PointsAtItems(q)'
    BY <1>3, <2>1, SMT DEF RunInv, PointsAtItems
  <2>4. OnePath(q)'
    BY <2>1, <2>2 DEF RunInv, OnePath, IsNewest
  <2>5. OwnOutputs(q)' = OwnOutputs(q)
    BY <2>1, <2>2 DEF OwnOutputs
  <2>6. Shows(q)'
    BY <2>1, <2>5 DEF RunInv, Shows
  <2>7. TailIsNewest(q)' /\ Ends(q)'
    BY <2>1 DEF RunInv, TailIsNewest, Ends
  <2>8. Answers(q)'
    BY <2>1, SameAnswers DEF RunInv
  <2> QED BY <2>3, <2>4, <2>6, <2>7, <2>8 DEF RunInv
<1>5. \A q \in Runs : Finished(q)
  BY DEF Finished
<1> QED BY <1>2, <1>4, <1>5 DEF IInv, Keeps

\* A step that stores nothing leaves the path of the run as it is.
LEMMA PathKept ==
  ASSUME Types, NEW r \in Runs, OnePath(r), store' = store,
         run'[r].saved = run[r].saved, run'[r].base = run[r].base,
         run[r].pc # "new", run'[r].pc # "new",
         run'[r].pc \in Body =>
           run[r].pc \in Body /\ (run[r].saved => run'[r].last = run[r].last)
  PROVE  OnePath(r)' /\ OwnOutputs(r)' = OwnOutputs(r)
<1>1. Own(r)' = Own(r)
  BY DEF Own
<1> QED BY <1>1 DEF OnePath, IsNewest, OwnOutputs

\* A step that stores an output behind the newest item, or an input wherever it
\* belongs, prolongs the path.
LEMMA PathGrows ==
  ASSUME Types, NEW r \in Runs, OnePath(r), PointsAtItems(r), NEW item, Adds(r, item),
         run[r].saved, run[r].pc \in Body,
         run'[r].saved = run[r].saved, run'[r].base = run[r].base, run'[r].pc # "new",
         run'[r].pc \in Body => run'[r].last = Len(store'),
         item.type # "input" => item.prev = run[r].last
  PROVE  /\ OnePath(r)'
         /\ Cardinality(OwnOutputs(r))' =
              IF item.type = "input" THEN Cardinality(OwnOutputs(r))
              ELSE Cardinality(OwnOutputs(r)) + 1
<1> DEFINE new == Len(store')
           Before(i) == {j \in Own(r) : j < i}
<1>1. /\ Len(store) \in Nat /\ new = Len(store) + 1 /\ store'[new] = item
      /\ DOMAIN store = 1..Len(store)
      /\ \A i \in DOMAIN store : store'[i] = store[i]
      /\ Own(r)' = Own(r) \cup {new}
  BY Added
<1>2. Own(r) \subseteq 1..Len(store) /\ IsFiniteSet(OwnOutputs(r))
  BY OwnAreItems
<1>3. IsNewest(r, run[r].last)
  BY DEF OnePath
<1>4. \A i \in Own(r)' : store'[i].type # "input" =>
        LET before == {j \in Own(r)' : j < i}
        IN store'[i].prev = IF before = {} THEN run'[r].base ELSE Max(before)
  <2>1. ASSUME NEW i \in Own(r), store'[i].type # "input"
        PROVE  LET before == {j \in Own(r)' : j < i}
               IN store'[i].prev = IF before = {} THEN run'[r].base ELSE Max(before)
    <3>1. {j \in Own(r)' : j < i} = Before(i)
      BY <1>1, <1>2, SMT
    <3>2. store'[i] = store[i]
      BY <1>1, <1>2
    <3> QED BY <3>1, <3>2, <2>1 DEF OnePath
  <2>2. ASSUME item.type # "input"
        PROVE  LET before == {j \in Own(r)' : j < new}
               IN store'[new].prev = IF before = {} THEN run'[r].base ELSE Max(before)
    <3>1. {j \in Own(r)' : j < new} = Own(r)
      BY <1>1, <1>2, SMT
    <3>2. CASE Own(r) = {} /\ run[r].last = run[r].base
      BY <3>1, <3>2, <2>2, <1>1
    <3>3. CASE run[r].last \in Own(r) /\ \A j \in Own(r) : j <= run[r].last
      <4>1. Own(r) \in SUBSET Nat
        BY <1>1, <1>2, SMT
      <4>2. Max(Own(r)) = run[r].last
        BY <3>3, <4>1, Greatest
      <4> QED BY <3>1, <3>3, <4>2, <2>2, <1>1
    <3> QED BY <3>2, <3>3, <1>3 DEF IsNewest
  <2> QED BY <2>1, <2>2, <1>1
<1>5. run'[r].pc \in Body => IsNewest(r, run[r].last)'
  <2>1. \A j \in Own(r)' : j <= new
    BY <1>1, <1>2, SMT
  <2> QED BY <2>1, <1>1 DEF IsNewest
<1>6. OnePath(r)'
  BY <1>4, <1>5 DEF OnePath
<1>7. CASE item.type = "input"
  <2>1. OwnOutputs(r)' = OwnOutputs(r)
    BY <1>1, <1>2, <1>7 DEF OwnOutputs
  <2> QED BY <2>1, <1>6, <1>7
<1>8. CASE item.type # "input"
  <2>1. OwnOutputs(r)' = OwnOutputs(r) \cup {new}
    BY <1>1, <1>2, <1>8 DEF OwnOutputs
  <2>2. new \notin OwnOutputs(r)
    BY <1>1, <1>2, SMT DEF OwnOutputs
  <2>3. Cardinality(OwnOutputs(r) \cup {new}) = Cardinality(OwnOutputs(r)) + 1
    BY <2>2, <1>2, FS_AddElement
  <2> QED BY <2>1, <2>3, <1>6, <1>8
<1> QED BY <1>7, <1>8

-----------------------------------------------------------------------------
(* The steps of a run                                                      *)

\* The fields of a context, so that a step's EXCEPT can be read field by field.
Record(c) == [
  pc |-> c.pc, saved |-> c.saved, base |-> c.base, inputs |-> c.inputs,
  origin |-> c.origin, moved |-> c.moved, typing |-> c.typing, chain |-> c.chain,
  last |-> c.last, tail |-> c.tail, memory |-> c.memory, todo |-> c.todo,
  calls |-> c.calls, more |-> c.more, asks |-> c.asks, made |-> c.made,
  shown |-> c.shown, outcome |-> c.outcome, cancels |-> c.cancels,
  afterRun |-> c.afterRun]

\* What the types say of the context of a run.
LEMMA Context ==
  ASSUME IInv, NEW r \in Runs
  PROVE  /\ Types /\ RunInv(r) /\ run[r] \in Contexts /\ run[r] = Record(run[r])
         /\ run \in [Runs -> Contexts] /\ Len(store) \in Nat /\ DOMAIN store = 1..Len(store)
<1>1. Types /\ RunInv(r)
  BY DEF IInv
<1>2. run \in [Runs -> Contexts] /\ Len(store) \in Nat /\ DOMAIN store = 1..Len(store)
  BY <1>1 DEF Types
<1>3. run[r] \in Contexts
  BY <1>2
<1>4. ASSUME NEW c \in Contexts
      PROVE  c = Record(c)
  BY SMT DEF Contexts, Record
<1> QED BY <1>1, <1>2, <1>3, <1>4

\* A step replaces the context of one run.
LEMMA Turns ==
  ASSUME run \in [Runs -> Contexts], NEW r \in Runs, NEW c \in Contexts,
         run' = [run EXCEPT ![r] = c]
  PROVE  /\ run' \in [Runs -> Contexts] /\ run'[r] = c
         /\ \A q \in Runs \ {r} : run'[q] = run[q]
  OBVIOUS

\* The context a run leaves the loop with.
LEMMA LeftIsContext ==
  ASSUME IInv, NEW r \in Runs, NEW left, left = Left(r)
  PROVE  /\ left \in Contexts /\ left = Record(left)
         /\ left.pc = run[r].pc /\ left.saved = run[r].saved /\ left.base = run[r].base
         /\ left.last = run[r].last /\ left.tail = NoItem /\ left.typing = run[r].typing
         /\ left.afterRun = run[r].afterRun /\ left.shown = run[r].shown
         /\ left.cancels = run[r].cancels
<1>1. run[r] \in Contexts /\ run[r] = Record(run[r])
  BY Context
<1>2. left = [Record(run[r]) EXCEPT !.todo = <<>>, !.calls = <<>>, !.moved = NoOrigin,
                                    !.tail = NoItem, !.more = FALSE, !.inputs = 0]
  BY <1>1 DEF Left
<1>3. /\ NoOrigin \in Dialogs /\ NoItem \in Nat /\ 0 \in Nat /\ FALSE \in Flags
      /\ <<>> \in Seq(Sent) /\ <<>> \in Seq(CallIds)
  BY EmptySeq DEF Dialogs, NoItem, Flags
<1>4. left \in Contexts
  <2> DEFINE c == [Record(run[r]) EXCEPT !.todo = <<>>, !.calls = <<>>, !.moved = NoOrigin,
                                         !.tail = NoItem, !.more = FALSE, !.inputs = 0]
  <2>1. c \in Contexts
    BY <1>1, <1>3 DEF Contexts, Record
  <2> QED BY <2>1, <1>2
<1>5. left = Record(left)
  BY <1>2 DEF Record
<1>6. /\ left.pc = run[r].pc /\ left.saved = run[r].saved /\ left.base = run[r].base
      /\ left.last = run[r].last /\ left.tail = NoItem /\ left.typing = run[r].typing
      /\ left.afterRun = run[r].afterRun /\ left.shown = run[r].shown
      /\ left.cancels = run[r].cancels
  BY <1>2 DEF Record
<1> QED BY <1>4, <1>5, <1>6

\* A run that leaves the loop, whatever it was about to store.
LEMMA Halts ==
  ASSUME IInv, NEW r \in Runs, NEW c \in Contexts, run' = [run EXCEPT ![r] = c],
         \/ store' = store
         \/ /\ run[r].saved /\ run[r].pc \in Body
            /\ \E item : /\ Adds(r, item)
                         /\ item.type # "input" => run[r].pc = "save" /\ item.prev = run[r].last,
         run[r].pc # "new", c.pc \in {"leave", "error", "final", "done"},
         c.saved = run[r].saved, c.base = run[r].base, c.shown = run[r].shown,
         c.last = run[r].last, c.tail \in {run[r].tail, NoItem},
         c.afterRun <= 1, c.pc # "done" => c.afterRun = 0,
         c.pc = "done" => c.afterRun = 1 \/ c.cancels > run[r].cancels
  PROVE  Keeps
<1>1. /\ Types /\ RunInv(r) /\ run[r] \in Contexts
      /\ run \in [Runs -> Contexts] /\ Len(store) \in Nat
  BY Context
<1>2. run' \in [Runs -> Contexts] /\ run'[r] = c /\ \A q \in Runs \ {r} : run'[q] = run[q]
  BY <1>1, Turns
<1>3. c.pc \notin Body /\ c.pc \notin Loop /\ c.pc \notin {"new", "input", "before", "retype"}
  BY DEF Body, Loop
<1>4. /\ OnePath(r) /\ PointsAtItems(r) /\ Cardinality(OwnOutputs(r)) \in Nat
      /\ Len(run[r].shown) \in Nat
  <2>1. run[r].shown \in Seq(Lines)
    BY <1>1 DEF Contexts
  <2> QED BY <2>1, <1>1, OwnAreItems DEF RunInv
<1>5. PointsAtItems(r)' /\ OnePath(r)' /\ Shows(r)'
  <2>1. CASE store' = store
    <3>1. OnePath(r)' /\ OwnOutputs(r)' = OwnOutputs(r)
      BY <2>1, <1>1, <1>2, <1>3, <1>4, PathKept
    <3>2. PointsAtItems(r)'
      BY <2>1, <1>2, <1>3, <1>4, SMT DEF PointsAtItems, NoItem
    <3>3. Shows(r)'
      BY <3>1, <1>1, <1>2, <1>3 DEF RunInv, Shows
    <3> QED BY <3>1, <3>2, <3>3
  <2>2. CASE /\ run[r].saved /\ run[r].pc \in Body
             /\ \E item : /\ Adds(r, item)
                          /\ item.type # "input" => run[r].pc = "save" /\ item.prev = run[r].last
    <3>1. PICK item : /\ Adds(r, item)
                      /\ item.type # "input" => run[r].pc = "save" /\ item.prev = run[r].last
      BY <2>2
    <3>2. /\ OnePath(r)'
          /\ Cardinality(OwnOutputs(r))' =
               IF item.type = "input" THEN Cardinality(OwnOutputs(r))
               ELSE Cardinality(OwnOutputs(r)) + 1
      BY <2>2, <3>1, <1>1, <1>2, <1>3, <1>4, PathGrows
    <3>3. Len(store') = Len(store) + 1
      BY <3>1, <1>1, Added
    <3>4. PointsAtItems(r)'
      BY <3>3, <1>1, <1>2, <1>3, <1>4, SMT DEF PointsAtItems, NoItem
    <3>5. item.type # "input" => Len(run[r].shown) = Cardinality(OwnOutputs(r)) + 1
      BY <2>2, <3>1, <1>1 DEF RunInv, Shows
    <3>6. Len(run[r].shown) \in {Cardinality(OwnOutputs(r)), Cardinality(OwnOutputs(r)) + 1}
      BY <2>2, <1>1 DEF RunInv, Shows
    <3>7. Len(c.shown) \in {Cardinality(OwnOutputs(r))', Cardinality(OwnOutputs(r))' + 1}
      BY <3>2, <3>5, <3>6, <1>4, SMT
    <3> QED BY <3>2, <3>4, <3>7, <1>2, <1>3 DEF Shows
  <2> QED BY <2>1, <2>2
<1>6. TailIsNewest(r)' /\ Ends(r)' /\ Answers(r)'
  BY <1>2, <1>3 DEF TailIsNewest, Ends, Answers
<1>7. store' = store \/ \E item : Adds(r, item)
  OBVIOUS
<1>8. Finished(r)
  BY <1>2 DEF Finished
<1> QED BY <1>2, <1>5, <1>6, <1>7, <1>8, Frame DEF RunInv

\* A run at work that stores nothing and shows its head when it goes on to store it.
LEMMA Works ==
  ASSUME IInv, NEW r \in Runs, NEW c \in Contexts, run' = [run EXCEPT ![r] = c],
         store' = store, run[r].pc \in Body, c.pc \in Body,
         c.saved = run[r].saved, c.base = run[r].base, c.last = run[r].last,
         c.tail \in {run[r].tail, NoItem}, c.origin \in Origins, c.afterRun = run[r].afterRun,
         run[r].pc # "save",
         IF c.pc = "save" THEN Len(c.shown) = Len(run[r].shown) + 1
         ELSE c.shown = run[r].shown,
         TailIsNewest(r)', Answers(r)'
  PROVE  Keeps
<1>1. Types /\ RunInv(r) /\ run[r] \in Contexts /\ run \in [Runs -> Contexts]
  BY Context
<1>2. run' \in [Runs -> Contexts] /\ run'[r] = c /\ \A q \in Runs \ {r} : run'[q] = run[q]
  BY <1>1, Turns
<1>3. run[r].pc \notin {"new", "done"} /\ c.pc \notin {"new", "done"}
  BY DEF Body, Loop
<1>4. PointsAtItems(r)'
  BY <1>1, <1>2, SMT DEF RunInv, PointsAtItems, NoItem
<1>5. OnePath(r)' /\ OwnOutputs(r)' = OwnOutputs(r)
  BY <1>1, <1>2, <1>3, PathKept DEF RunInv
<1>6. Shows(r)'
  <2>1. run[r].saved => Len(run[r].shown) = Cardinality(OwnOutputs(r))
    BY <1>1 DEF RunInv, Shows
  <2>2. Cardinality(OwnOutputs(r)) \in Nat
    BY <1>1, OwnAreItems
  <2> QED BY <2>1, <2>2, <1>2, <1>3, <1>5 DEF Shows
<1>7. Ends(r)'
  BY <1>1, <1>2, <1>3 DEF RunInv, Ends
<1>8. Finished(r)
  BY <1>2, <1>3 DEF Finished
<1> QED BY <1>2, <1>4, <1>5, <1>6, <1>7, <1>8, Frame DEF RunInv

-----------------------------------------------------------------------------
(* The actions before the loop                                             *)

\* Create: a run starts with nothing stored and nothing shown.
LEMMA CreateKeeps ==
  ASSUME IInv, NEW r \in Runs, NEW base \in {NoItem} \cup DOMAIN store,
         NEW saved \in BOOLEAN, NEW n \in Nat, Create(r, base, saved, n)
  PROVE  Keeps
<1>1. /\ Types /\ RunInv(r) /\ run[r] \in Contexts /\ run[r] = Record(run[r])
      /\ run \in [Runs -> Contexts] /\ run[r].pc = "new" /\ store' = store
  BY Context DEF Create, At
<1>2. /\ run' \in [Runs -> Contexts]
      /\ \A q \in Runs \ {r} : run'[q] = run[q]
      /\ \/ /\ run'[r].pc = "input" /\ run'[r].base = base /\ run'[r].last = base
            /\ run'[r].origin = Home[r] /\ run'[r].shown = <<>> /\ run'[r].afterRun = 0
            /\ run'[r].tail = NoItem /\ run'[r].made = 0 /\ run'[r].calls = <<>>
         \/ /\ run'[r].pc = "done" /\ run'[r].shown = run[r].shown
            /\ run'[r].base = run[r].base /\ run'[r].last = run[r].last
            /\ run'[r].tail = run[r].tail /\ run'[r].afterRun = run[r].afterRun
  <2> DEFINE new == [NewRun EXCEPT
            !.pc = "input", !.saved = saved, !.base = base, !.inputs = n,
            !.origin = Home[r], !.last = base]
  <2>1. CASE run' = [run EXCEPT ![r] = new]
    <3>1. NewRun \in Contexts
      BY DialogAssumption DEF NewRun, Contexts, Places, Body, Loop, Dialogs, ChainStates,
         Outcomes, NoItem, Flags
    <3>2. base \in Nat /\ Home[r] \in Dialogs
      BY <1>1, DialogAssumption DEF Types, NoItem, Dialogs
    <3>3. new \in Contexts
      BY <3>1, <3>2 DEF Contexts, Places, Body, Flags
    <3>4. /\ new.pc = "input" /\ new.base = base /\ new.last = base
          /\ new.origin = Home[r] /\ new.shown = <<>> /\ new.afterRun = 0
          /\ new.tail = NoItem /\ new.made = 0 /\ new.calls = <<>>
      BY DEF NewRun
    <3> HIDE DEF new
    <3> QED BY <2>1, <3>3, <3>4, <1>1 DEF Types
  <2>2. CASE run' = [run EXCEPT ![r].pc = "done", ![r].outcome = "failed"]
    <3> DEFINE c == [Record(run[r]) EXCEPT !.pc = "done", !.outcome = "failed"]
    <3>1. run' = [run EXCEPT ![r] = c]
      BY <2>2, <1>1
    <3>2. c \in Contexts
      BY <1>1 DEF Contexts, Record, Places, Outcomes
    <3>3. /\ c.pc = "done" /\ c.shown = run[r].shown /\ c.base = run[r].base
          /\ c.last = run[r].last /\ c.tail = run[r].tail /\ c.afterRun = run[r].afterRun
      BY DEF Record
    <3> HIDE DEF c, new
    <3> QED BY <3>1, <3>2, <3>3, <1>1, Turns
  <2> QED BY <2>1, <2>2 DEF Create
<1>3. Own(r)' = Own(r) /\ Own(r) = {} /\ OwnOutputs(r)' = {}
  BY <1>1 DEF RunInv, OnePath, Own, OwnOutputs
<1>4. PointsAtItems(r)'
  <2>1. Len(store) \in Nat /\ DOMAIN store = 1..Len(store) /\ Home[r] \in Origins
    BY <1>1, DialogAssumption DEF Types
  <2> QED BY <1>1, <1>2, <2>1, SMT DEF PointsAtItems, RunInv, NoItem, Body, Loop
<1>5. OnePath(r)'
  BY <1>2, <1>3 DEF OnePath, IsNewest, Body, Loop
<1>6. TailIsNewest(r)' /\ Ends(r)'
  BY <1>1, <1>2 DEF RunInv, TailIsNewest, Ends
<1>7. Shows(r)'
  <2>1. Cardinality(OwnOutputs(r)') = 0
    BY <1>3, FS_EmptySet
  <2>2. run'[r].shown = <<>>
    BY <1>1, <1>2 DEF RunInv, Shows
  <2> QED BY <1>2, <2>1, <2>2 DEF Shows
<1>8. Answers(r)'
  BY <1>1, <1>2 DEF RunInv, Answers, Loop
<1>9. Finished(r)
  BY <1>1 DEF Finished
<1> QED BY <1>1, <1>2, <1>4, <1>5, <1>6, <1>7, <1>8, <1>9, Frame DEF RunInv

\* What an input item of a run is.
LEMMA InputsAreItems ==
  ASSUME IInv, NEW r \in Runs, run[r].pc \in Body, NEW item \in Inputs(r), store' = Append(store, item)
  PROVE  Adds(r, item) /\ item.type = "input" /\ item \in StoredItems
<1>1. /\ Types /\ RunInv(r) /\ run[r] \in Contexts /\ Len(store) \in Nat
  BY Context
<1>2. /\ run[r].base \in 0..Len(store) /\ run[r].last \in 0..Len(store)
      /\ run[r].origin \in Origins
  BY <1>1 DEF RunInv, PointsAtItems
<1>3. run[r].chain \in ChainStates
  BY <1>1 DEF Contexts
<1>4. PICK prev \in {run[r].base, run[r].last} :
        item = [by |-> r, type |-> "input", call |-> <<>>, origin |-> run[r].origin,
                prev |-> prev, chain |-> run[r].chain]
  BY DEF Inputs, Stored, Output
<1> QED BY <1>1, <1>2, <1>3, <1>4 DEF Adds, StoredItems, CallIds

\* What Save appends is an item of the run that continues its last one.
LEMMA SavedIsItem ==
  ASSUME IInv, NEW r \in Runs, run[r].pc = "save",
         store' = Append(store, Stored(r, Head(run[r].todo), run[r].last))
  PROVE  Adds(r, Stored(r, Head(run[r].todo), run[r].last))
<1> DEFINE head == Head(run[r].todo)
           item == Stored(r, head, run[r].last)
<1>1. /\ Types /\ RunInv(r) /\ run[r] \in Contexts /\ Len(store) \in Nat
  BY Context
<1>2. run[r].todo # <<>>
  BY <1>1 DEF RunInv, Answers, Ledger, Loop
<1>3. run[r].todo \in Seq(Sent) /\ run[r].chain \in ChainStates
  BY <1>1 DEF Contexts
<1>4. head \in Sent
  BY <1>2, <1>3, HeadAndTail
<1>5. run[r].last \in 0..Len(store) /\ run[r].last \in Nat
  BY <1>1 DEF RunInv, PointsAtItems
<1>6. item = [by |-> r, type |-> head.type, call |-> head.call, origin |-> head.origin,
              prev |-> run[r].last, chain |-> run[r].chain]
  BY DEF Stored
<1>7. head.type \in OutputTypes /\ head.call \in CallIds /\ head.origin \in Origins
  BY <1>4 DEF Sent
<1>8. item \in StoredItems /\ item.by = r /\ item.prev = run[r].last
  BY <1>3, <1>5, <1>6, <1>7 DEF StoredItems
<1> QED BY <1>5, <1>8 DEF Adds

\* RestoreChain takes the state of the newest item; it stores nothing.
LEMMA RestoreChainKeeps ==
  ASSUME IInv, NEW r \in Runs, RestoreChain(r)
  PROVE  Keeps
<1> DEFINE chain == IF run[r].last = NoItem THEN run[r].chain
                    ELSE Update(run[r].chain, store[run[r].last].chain)
           c == [Record(run[r]) EXCEPT !.pc = "before", !.chain = chain]
<1>1. /\ Types /\ RunInv(r) /\ run[r] \in Contexts /\ run[r] = Record(run[r])
      /\ run \in [Runs -> Contexts] /\ Len(store) \in Nat /\ DOMAIN store = 1..Len(store)
  BY Context
<1>2. run[r].pc = "input" /\ run[r].inputs = 0 /\ run' = [run EXCEPT ![r] = c] /\ store' = store
  BY <1>1 DEF RestoreChain, At
<1>3. chain \in ChainStates
  <2>1. run[r].last \in 0..Len(store)
    BY <1>1 DEF RunInv, PointsAtItems
  <2>2. run[r].last # NoItem => store[run[r].last] \in StoredItems
    BY <1>1, <2>1, SMT DEF Types, NoItem
  <2>3. run[r].chain \in ChainStates
    BY <1>1 DEF Contexts
  <2>4. run[r].last # NoItem => store[run[r].last].chain \in ChainStates
    BY <2>2 DEF StoredItems
  <2> QED BY <2>3, <2>4 DEF Update
<1>4. run[r].origin \in Origins
  BY <1>1, <1>2 DEF RunInv, PointsAtItems, Body
<1> HIDE DEF chain
<1>5. c \in Contexts
  BY <1>1, <1>3 DEF Contexts, Record, Places, Body
<1>6. /\ c.pc = "before" /\ c.saved = run[r].saved /\ c.base = run[r].base
      /\ c.last = run[r].last /\ c.tail = run[r].tail /\ c.origin = run[r].origin
      /\ c.afterRun = run[r].afterRun /\ c.shown = run[r].shown /\ c.made = run[r].made
      /\ c.calls = run[r].calls
  BY DEF Record
<1> HIDE DEF c
<1>7. run'[r] = c
  BY <1>1, <1>2, <1>5, Turns
<1>8. TailIsNewest(r)' /\ Answers(r)'
  BY <1>1, <1>2, <1>6, <1>7 DEF RunInv, TailIsNewest, Answers, Loop
<1>9. run[r].pc \in Body /\ c.pc \in Body
  BY <1>2, <1>6 DEF Body
<1> QED BY <1>2, <1>4, <1>5, <1>6, <1>8, <1>9, Works

\* BeforeRun: the run is aborted, or its first question comes next.
LEMMA BeforeRunKeeps ==
  ASSUME IInv, NEW r \in Runs, BeforeRun(r)
  PROVE  Keeps
<1>1. /\ Types /\ RunInv(r) /\ run[r] \in Contexts /\ run[r] = Record(run[r])
      /\ run \in [Runs -> Contexts] /\ run[r].pc = "before" /\ store' = store
  BY Context DEF BeforeRun, At
<1>2. CASE run' = [run EXCEPT ![r].outcome = "returned", ![r].pc = "final"]
  <2> DEFINE c == [Record(run[r]) EXCEPT !.outcome = "returned", !.pc = "final"]
  <2>1. run' = [run EXCEPT ![r] = c]
    BY <1>1, <1>2
  <2>2. c \in Contexts
    BY <1>1 DEF Contexts, Record, Places, Outcomes
  <2>3. /\ c.pc = "final" /\ c.saved = run[r].saved /\ c.base = run[r].base
        /\ c.last = run[r].last /\ c.tail = run[r].tail
        /\ c.afterRun = run[r].afterRun /\ c.shown = run[r].shown
    BY DEF Record
  <2> HIDE DEF c
  <2>4. c.afterRun = 0
    BY <1>1, <2>3 DEF RunInv, Ends
  <2>5. /\ run[r].pc # "new" /\ c.pc \in {"leave", "error", "final", "done"}
        /\ c.tail \in {run[r].tail, NoItem} /\ c.afterRun <= 1
    BY <1>1, <2>3, <2>4
  <2> QED BY <1>1, <2>1, <2>2, <2>3, <2>4, <2>5, Halts
<1>3. ASSUME NEW chain \in Chains \cup {run[r].chain},
             run' = [run EXCEPT ![r].chain = chain, ![r].typing = run[r].origin, ![r].pc = "ask"]
      PROVE  Keeps
  <2> DEFINE origin == run[r].origin
             c == [Record(run[r]) EXCEPT !.chain = chain, !.typing = origin, !.pc = "ask"]
  <2>1. run' = [run EXCEPT ![r] = c]
    BY <1>1, <1>3
  <2>2. origin \in Origins /\ origin \in Dialogs /\ chain \in ChainStates
    <3>1. origin \in Origins
      BY <1>1 DEF RunInv, PointsAtItems, Body
    <3>2. run[r].chain \in ChainStates
      BY <1>1 DEF Contexts
    <3> QED BY <3>1, <3>2 DEF Dialogs, ChainStates
  <2>3. /\ c.pc = "ask" /\ c.saved = run[r].saved /\ c.base = run[r].base /\ c.origin = origin
        /\ c.last = run[r].last /\ c.tail = run[r].tail /\ c.afterRun = run[r].afterRun
        /\ c.shown = run[r].shown /\ c.made = run[r].made /\ c.calls = run[r].calls
    BY DEF Record
  <2> HIDE DEF origin
  <2>4. c \in Contexts
    BY <1>1, <2>2 DEF Contexts, Record, Places, Body, Loop
  <2> HIDE DEF c
  <2>5. run'[r] = c
    BY <1>1, <2>1, <2>4, Turns
  <2>6. Answers(r)'
    <3>1. c.shown = <<>> /\ c.made = 0 /\ c.calls = <<>>
      BY <1>1, <2>3 DEF RunInv, Answers
    <3>2. Ledger(r, 0)'
      BY <3>1, <2>3, <2>5, SMT DEF Ledger, Never, Once, Pending
    <3> QED BY <3>2, <2>3, <2>5 DEF Answers
  <2>7. TailIsNewest(r)'
    BY <2>3, <2>5 DEF TailIsNewest
  <2>8. run[r].pc \in Body /\ c.pc \in Body
    BY <1>1, <2>3 DEF Body, Loop
  <2> QED BY <1>1, <2>1, <2>2, <2>3, <2>4, <2>6, <2>7, <2>8, Works
<1> QED BY <1>2, <1>3 DEF BeforeRun

\* StoreInput: an input is stored, or remembered where the run is not saved.
LEMMA StoreInputKeeps ==
  ASSUME IInv, NEW r \in Runs, StoreInput(r)
  PROVE  Keeps
<1>1. /\ Types /\ RunInv(r) /\ run[r] \in Contexts /\ run[r] = Record(run[r])
      /\ run \in [Runs -> Contexts] /\ Len(store) \in Nat /\ DOMAIN store = 1..Len(store)
  BY Context
<1>2. PICK item \in Inputs(r) :
        IF run[r].saved
        THEN /\ store' = Append(store, item)
             /\ run' = [run EXCEPT ![r].inputs = @ - 1, ![r].last = Len(store')]
        ELSE /\ run' = [run EXCEPT ![r].inputs = @ - 1, ![r].memory = Append(@, item)]
             /\ UNCHANGED store
  BY DEF StoreInput
<1>3. run[r].pc = "input" /\ run[r].inputs > 0 /\ run[r].pc \in Body
  BY DEF StoreInput, At, Body
<1> DEFINE inputs == run[r].inputs - 1
<1>4. run[r].inputs \in Nat /\ inputs \in Nat /\ run[r].memory \in Seq(StoredItems)
  <2>1. run[r].inputs \in Nat /\ run[r].memory \in Seq(StoredItems)
    BY <1>1 DEF Contexts
  <2> QED BY <2>1, <1>3
<1> HIDE DEF inputs
<1>5. CASE run[r].saved
  <2> DEFINE last == Len(store')
             c == [Record(run[r]) EXCEPT !.inputs = inputs, !.last = last]
  <2>1. store' = Append(store, item) /\ Adds(r, item) /\ item.type = "input"
    BY <1>2, <1>3, <1>5, InputsAreItems
  <2>2. run' = [run EXCEPT ![r] = c]
    BY <1>1, <1>2, <1>5 DEF inputs
  <2>3. last \in Nat /\ last = Len(store) + 1
    BY <2>1, <1>1, Added
  <2> HIDE DEF last
  <2>4. c \in Contexts
    BY <1>1, <1>4, <2>3 DEF Contexts, Record
  <2>5. /\ c.pc = run[r].pc /\ c.saved = run[r].saved /\ c.base = run[r].base
        /\ c.last = last /\ c.tail = run[r].tail /\ c.origin = run[r].origin
        /\ c.afterRun = run[r].afterRun /\ c.shown = run[r].shown /\ c.made = run[r].made
        /\ c.calls = run[r].calls
    BY DEF Record
  <2> HIDE DEF c
  <2>6. run' \in [Runs -> Contexts] /\ run'[r] = c /\ \A q \in Runs \ {r} : run'[q] = run[q]
    BY <1>1, <2>2, <2>4, Turns
  <2>7. OnePath(r) /\ PointsAtItems(r)
    BY <1>1 DEF RunInv
  <2>8. OnePath(r)' /\ Cardinality(OwnOutputs(r))' = Cardinality(OwnOutputs(r))
    BY <2>1, <2>5, <2>6, <2>7, <1>1, <1>3, <1>5, PathGrows DEF last
  <2>9. PointsAtItems(r)'
    BY <1>1, <2>3, <2>5, <2>6, <2>7, SMT DEF PointsAtItems, last
  <2>10. Shows(r)'
    <3>1. /\ run'[r].pc = "input" /\ run'[r].saved = run[r].saved
          /\ run'[r].shown = run[r].shown
      BY <1>3, <2>5, <2>6
    <3>2. Len(run[r].shown) = Cardinality(OwnOutputs(r))
      BY <1>1, <1>3, <1>5 DEF RunInv, Shows
    <3> QED BY <3>1, <3>2, <2>8 DEF Shows
  <2>11. TailIsNewest(r)' /\ Ends(r)' /\ Answers(r)'
    BY <1>1, <1>3, <2>5, <2>6 DEF RunInv, TailIsNewest, Ends, Answers, Loop
  <2>12. Finished(r)
    BY <1>3, <2>5, <2>6 DEF Finished
  <2> QED BY <2>1, <2>6, <2>8, <2>9, <2>10, <2>11, <2>12, Frame DEF RunInv
<1>6. CASE ~ run[r].saved
  <2> DEFINE memory == Append(run[r].memory, item)
             c == [Record(run[r]) EXCEPT !.inputs = inputs, !.memory = memory]
  <2>1. item \in StoredItems
    <3>1. run[r].base \in 0..Len(store) /\ run[r].last \in 0..Len(store)
          /\ run[r].origin \in Origins /\ run[r].chain \in ChainStates
      BY <1>1, <1>3 DEF RunInv, PointsAtItems, Contexts
    <3>2. PICK prev \in {run[r].base, run[r].last} :
            item = [by |-> r, type |-> "input", call |-> <<>>, origin |-> run[r].origin,
                    prev |-> prev, chain |-> run[r].chain]
      BY <1>2 DEF Inputs, Stored, Output
    <3>3. prev \in Nat
      BY <3>1, <1>1
    <3> QED BY <3>1, <3>2, <3>3 DEF StoredItems, CallIds
  <2>2. memory \in Seq(StoredItems)
    BY <2>1, <1>4, OneMore
  <2>3. run' = [run EXCEPT ![r] = c] /\ store' = store
    BY <1>1, <1>2, <1>6 DEF inputs
  <2> HIDE DEF memory
  <2>4. c \in Contexts
    BY <1>1, <1>4, <2>2 DEF Contexts, Record
  <2>5. /\ c.pc = run[r].pc /\ c.saved = run[r].saved /\ c.base = run[r].base
        /\ c.last = run[r].last /\ c.tail = run[r].tail /\ c.origin = run[r].origin
        /\ c.afterRun = run[r].afterRun /\ c.shown = run[r].shown /\ c.made = run[r].made
        /\ c.calls = run[r].calls
    BY DEF Record
  <2> HIDE DEF c
  <2>6. run'[r] = c
    BY <1>1, <2>3, <2>4, Turns
  <2>7. TailIsNewest(r)' /\ Answers(r)'
    BY <1>1, <1>3, <2>5, <2>6 DEF RunInv, TailIsNewest, Answers, Loop
  <2>8. run[r].origin \in Origins /\ c.tail \in {run[r].tail, NoItem}
    BY <1>1, <1>3, <2>5 DEF RunInv, PointsAtItems
  <2>9. c.pc \in Body /\ c.pc = "input"
    BY <1>3, <2>5
  <2> QED BY <2>3, <2>4, <2>5, <2>7, <2>8, <2>9, <1>3, Works
<1> QED BY <1>5, <1>6

-----------------------------------------------------------------------------
(* The loop                                                                *)

\* At each await of the loop the calls are in the ledger.
LEMMA InTheLoop ==
  ASSUME IInv, NEW r \in Runs, run[r].pc \in Loop \cup {"retype"}
  PROVE  /\ run[r].pc \in Body /\ run[r].origin \in Origins /\ run[r].last \in 0..Len(store)
         /\ run[r].tail \in 0..Len(store) /\ run[r].shown \in Seq(Lines)
         /\ run[r].todo \in Seq(Sent) /\ run[r].calls \in Seq(CallIds)
         /\ run[r].made \in Nat /\ run[r].asks \in Nat /\ run[r].last \in Nat
         /\ run[r].tail \in Nat /\ run[r].chain \in ChainStates
         /\ run[r].moved \in Dialogs /\ run[r].memory \in Seq(StoredItems)
         /\ \E k \in Nat : Ledger(r, k)
<1>1. /\ RunInv(r) /\ run[r] \in Contexts /\ Len(store) \in Nat
  BY Context
<1>2. run[r].pc \in Body
  BY DEF Body
<1>3. /\ run[r].origin \in Origins /\ run[r].last \in 0..Len(store)
      /\ run[r].tail \in 0..Len(store)
  BY <1>1, <1>2 DEF RunInv, PointsAtItems
<1>4. \E k \in Nat : Ledger(r, k)
  BY <1>1 DEF RunInv, Answers
<1>5. /\ run[r].shown \in Seq(Lines)
      /\ run[r].todo \in Seq(Sent) /\ run[r].calls \in Seq(CallIds)
      /\ run[r].made \in Nat /\ run[r].asks \in Nat /\ run[r].last \in Nat
      /\ run[r].tail \in Nat /\ run[r].chain \in ChainStates
      /\ run[r].moved \in Dialogs /\ run[r].memory \in Seq(StoredItems)
  BY <1>1 DEF Contexts
<1> QED BY <1>2, <1>3, <1>4, <1>5

\* AskModel: the calls of the answer are numbered on.
LEMMA AskModelKeeps ==
  ASSUME IInv, NEW r \in Runs, AskModel(r)
  PROVE  Keeps
<1>1. /\ run[r] \in Contexts /\ run[r] = Record(run[r]) /\ run \in [Runs -> Contexts]
      /\ run[r].pc = "ask" /\ store' = store /\ run[r].asks < Len(Responses[r])
  BY Context DEF AskModel, At
<1>2. /\ run[r].pc \in Body /\ run[r].origin \in Origins /\ run[r].calls \in Seq(CallIds)
      /\ run[r].made \in Nat /\ run[r].asks \in Nat
      /\ \E k \in Nat : Ledger(r, k)
  BY <1>1, InTheLoop DEF Loop
<1>3. PICK answer \in Responses[r][run[r].asks + 1] :
        LET texts == Count(answer, "text")
            calls == Count(answer, "call")
            text == [n \in 1..texts |-> Output("text", <<>>, run[r].origin)]
            call == [n \in 1..calls |->
                       Output("call", <<r, run[r].made + n>>, run[r].origin)]
        IN run' = [run EXCEPT
             ![r].pc = "send", ![r].asks = @ + 1, ![r].tail = NoItem,
             ![r].todo = text \o call, ![r].calls = <<>>,
             ![r].more = calls > 0, ![r].made = @ + calls]
  BY DEF AskModel
<1>4. answer \in Seq(BlockTypes)
  <2>1. Responses[r] \in Seq(SUBSET Seq(BlockTypes))
    BY DialogAssumption
  <2>2. run[r].asks + 1 \in 1..Len(Responses[r])
    BY <2>1, <1>1, <1>2
  <2>3. Responses[r][run[r].asks + 1] \in SUBSET Seq(BlockTypes)
    BY <2>1, <2>2
  <2> QED BY <2>3
<1> DEFINE texts == Count(answer, "text")
           calls == Count(answer, "call")
           text == [n \in 1..texts |-> Output("text", <<>>, run[r].origin)]
           call == [n \in 1..calls |-> Output("call", <<r, run[r].made + n>>, run[r].origin)]
           todo == text \o call
           made == run[r].made + calls
           asks == run[r].asks + 1
           more == calls > 0
           c == [Record(run[r]) EXCEPT
                   !.pc = "send", !.asks = asks, !.tail = NoItem, !.todo = todo,
                   !.calls = <<>>, !.more = more, !.made = made]
<1>5. run' = [run EXCEPT ![r] = c]
  BY <1>1, <1>3
<1>6. texts \in Nat /\ calls \in Nat
  BY <1>4, CountIsNat
<1> HIDE DEF texts, calls
<1>7. /\ todo \in Seq(Sent) /\ Len(todo) = texts + calls
      /\ DOMAIN todo = 1..(texts + calls)
      /\ \A i \in 1..(texts + calls) :
           IF i > texts
           THEN todo[i].type = "call" /\ todo[i].call = <<r, run[r].made - texts + i>>
           ELSE todo[i].type = "text"
  <2>1. text \in Seq(Sent) /\ Len(text) = texts /\ \A i \in 1..texts : text[i].type = "text"
    <3>1. Output("text", <<>>, run[r].origin) \in Sent
      BY <1>2 DEF Output, Sent, OutputTypes, CallIds
    <3>2. Output("text", <<>>, run[r].origin).type = "text"
      BY DEF Output
    <3> QED BY <3>1, <3>2, <1>6
  <2>2. /\ call \in Seq(Sent) /\ Len(call) = calls
        /\ \A i \in 1..calls : call[i].type = "call" /\ call[i].call = <<r, run[r].made + i>>
    <3>1. ASSUME NEW n \in 1..calls
          PROVE  Output("call", <<r, run[r].made + n>>, run[r].origin) \in Sent
      <4>1. run[r].made + n \in Nat
        BY <1>2, <1>6
      <4>2. <<r, run[r].made + n>> \in CallIds
        BY <4>1 DEF CallIds
      <4> QED BY <4>2, <1>2 DEF Output, Sent, OutputTypes
    <3>2. \A n \in 1..calls :
            /\ Output("call", <<r, run[r].made + n>>, run[r].origin).type = "call"
            /\ Output("call", <<r, run[r].made + n>>, run[r].origin).call = <<r, run[r].made + n>>
      BY DEF Output
    <3> QED BY <3>1, <3>2, <1>6
  <2> HIDE DEF text, call
  <2>3. /\ todo \in Seq(Sent) /\ Len(todo) = texts + calls
        /\ \A i \in 1..(texts + calls) :
             todo[i] = IF i <= texts THEN text[i] ELSE call[i - texts]
    <3>1. /\ text \o call \in Seq(Sent)
          /\ Len(text \o call) = Len(text) + Len(call)
          /\ \A i \in 1..(Len(text) + Len(call)) :
               (text \o call)[i] = IF i <= Len(text) THEN text[i] ELSE call[i - Len(text)]
      BY <2>1, <2>2, ConcatProperties
    <3> QED BY <3>1, <2>1, <2>2
  <2>4. DOMAIN todo = 1..(texts + calls)
    BY <2>3
  <2>5. ASSUME NEW i \in 1..(texts + calls)
        PROVE  IF i > texts
               THEN todo[i].type = "call" /\ todo[i].call = <<r, run[r].made - texts + i>>
               ELSE todo[i].type = "text"
    <3>1. CASE i > texts
      <4>1. i - texts \in 1..calls /\ run[r].made + (i - texts) = run[r].made - texts + i
        BY <3>1, <1>2, <1>6
      <4> QED BY <4>1, <3>1, <2>2, <2>3, <1>6
    <3>2. CASE ~(i > texts)
      BY <3>2, <2>1, <2>3, <1>6
    <3> QED BY <3>1, <3>2
  <2> QED BY <2>3, <2>4, <2>5
<1>8. /\ made \in Nat /\ made = run[r].made + calls /\ asks \in Nat /\ more \in Flags
      /\ "send" \in Places /\ NoItem \in Nat /\ <<>> \in Seq(CallIds)
  BY <1>2, <1>6, EmptySeq DEF Places, Body, Loop, NoItem, Flags
<1> HIDE DEF todo, made, asks, more
<1>9. c \in Contexts
  <2>1. /\ todo \in Seq(Sent) /\ run[r] \in Contexts /\ made \in Nat /\ asks \in Nat
        /\ more \in Flags /\ "send" \in Places /\ NoItem \in Nat /\ <<>> \in Seq(CallIds)
    BY <1>1, <1>7, <1>8
  <2> QED BY <2>1, Zenon DEF Contexts, Record
<1>10. /\ c.pc = "send" /\ c.saved = run[r].saved /\ c.base = run[r].base
       /\ c.origin = run[r].origin /\ c.last = run[r].last /\ c.tail = NoItem
       /\ c.afterRun = run[r].afterRun /\ c.shown = run[r].shown /\ c.made = made
       /\ c.calls = <<>> /\ c.todo = todo
  BY DEF Record
<1> HIDE DEF c
<1>11. run'[r] = c
  BY <1>1, <1>5, <1>9, Turns
<1>12. Answers(r)'
  <2>1. PICK k \in Nat : Ledger(r, k)
    BY <1>2
  <2>2. k = run[r].made /\ ~ Pending(r)
    BY <1>1, <2>1 DEF Ledger, Pending
  <2>3. ~ Pending(r)'
    BY <1>6, <1>7, <1>10, <1>11 DEF Pending
  <2>4. \A n \in Nat \ {0} : IF n < k \/ (n = k /\ ~ Pending(r)') THEN Once(r, n)' ELSE Never(r, n)'
    <3>1. \A n \in Nat \ {0} : IF n < k \/ n = k THEN Once(r, n) ELSE Never(r, n)
      BY <2>1, <2>2 DEF Ledger
    <3>2. \A n \in Nat \ {0} : (Once(r, n)' <=> Once(r, n)) /\ (Never(r, n)' <=> Never(r, n))
      BY <1>10, <1>11 DEF Once, Never
    <3> QED BY <2>3, <3>1, <3>2
  <2>5. FromModel(r, k)'
    <3>1. \A i \in DOMAIN c.todo :
            LET number == c.made - Len(c.todo) + i
            IN IF number > k
               THEN c.todo[i].type = "call" /\ c.todo[i].call = <<r, number>>
               ELSE c.todo[i].type = "text"
      <4>1. \A i \in 1..(texts + calls) :
              /\ c.made - Len(c.todo) + i = run[r].made - texts + i
              /\ (c.made - Len(c.todo) + i > k <=> i > texts)
        <5>1. c.made = run[r].made + calls /\ Len(c.todo) = texts + calls /\ k = run[r].made
          BY <1>7, <1>8, <1>10, <2>2
        <5> QED BY <5>1, <1>2, <1>6
      <4> QED BY <4>1, <1>7, <1>10
    <3>2. c.made - Len(c.todo) <= k + Len(c.calls) /\ k + Len(c.calls) = k
      BY <1>2, <1>6, <1>7, <1>8, <1>10, <2>2, EmptySeq
    <3> QED BY <3>1, <3>2, <1>10, <1>11 DEF FromModel
  <2>6. k + Len(c.calls) <= c.made
    BY <1>2, <1>6, <1>8, <1>10, <2>2, EmptySeq
  <2>7. DOMAIN c.calls = {}
    BY <1>10
  <2>8. Ledger(r, k)'
    BY <2>4, <2>5, <2>6, <2>7, <1>10, <1>11 DEF Ledger
  <2> QED BY <2>8, <1>10, <1>11 DEF Answers
<1>13. TailIsNewest(r)'
  BY <1>10, <1>11 DEF TailIsNewest
<1>14. c.pc \in Body /\ c.pc # "save" /\ run[r].pc # "save"
  BY <1>1, <1>10 DEF Body, Loop
<1> QED BY <1>1, <1>2, <1>5, <1>9, <1>10, <1>12, <1>13, <1>14, Works

\* A line that is shown is the result it is, and no other.
LEMMA OneMoreLine ==
  ASSUME NEW r \in Runs, run[r].shown \in Seq(Lines), NEW line \in Lines,
         run'[r].shown = Append(run[r].shown, line), NEW n
  PROVE  /\ line # ResultOf(r, n) =>
              (Once(r, n) => Once(r, n)') /\ (Never(r, n) => Never(r, n)')
         /\ line = ResultOf(r, n) /\ Never(r, n) => Once(r, n)'
<1> DEFINE shown == run[r].shown
           last == Len(shown) + 1
           new == run'[r].shown
<1>1. /\ Len(shown) \in Nat /\ DOMAIN shown = 1..Len(shown) /\ DOMAIN new = 1..last
      /\ new[last] = line /\ \A i \in DOMAIN shown : new[i] = shown[i]
  BY OneMore
<1>2. last \notin DOMAIN shown /\ DOMAIN new = DOMAIN shown \cup {last}
  BY <1>1
<1>3. ASSUME line # ResultOf(r, n), Once(r, n)
      PROVE  Once(r, n)'
  <2>1. PICK m \in DOMAIN shown :
          /\ shown[m] = ResultOf(r, n)
          /\ \A j \in DOMAIN shown : shown[j] = ResultOf(r, n) => j = m
    BY <1>3 DEF Once
  <2>2. m \in DOMAIN new /\ new[m] = ResultOf(r, n)
    BY <1>1, <1>2, <2>1
  <2>3. \A j \in DOMAIN new : new[j] = ResultOf(r, n) => j = m
    BY <1>1, <1>2, <1>3, <2>1
  <2> QED BY <2>2, <2>3 DEF Once, ResultOf
<1>4. ASSUME line # ResultOf(r, n), Never(r, n)
      PROVE  Never(r, n)'
  <2>1. \A j \in DOMAIN new : new[j] # ResultOf(r, n)
    BY <1>1, <1>2, <1>4 DEF Never
  <2> QED BY <2>1 DEF Never, ResultOf
<1>5. ASSUME line = ResultOf(r, n), Never(r, n)
      PROVE  Once(r, n)'
  <2>1. last \in DOMAIN new /\ new[last] = ResultOf(r, n)
    BY <1>1, <1>2, <1>5
  <2>2. \A j \in DOMAIN new : new[j] = ResultOf(r, n) => j = last
    BY <1>1, <1>2, <1>5 DEF Never
  <2> QED BY <2>1, <2>2 DEF Once, ResultOf
<1> QED BY <1>3, <1>4, <1>5

\* Results of different calls differ.
LEMMA ResultsDiffer ==
  ASSUME NEW r, NEW n \in Nat, NEW m \in Nat, n # m
  PROVE  ResultOf(r, n) # ResultOf(r, m)
<1>1. ResultOf(r, n).call[2] = n /\ ResultOf(r, m).call[2] = m
  BY DEF ResultOf
<1> QED BY <1>1

\* Send: a result that is sent is the first for its call.
LEMMA SendKeeps ==
  ASSUME IInv, NEW r \in Runs, Send(r)
  PROVE  Keeps
<1> DEFINE head == Head(run[r].todo)
           line == [type |-> head.type, call |-> head.call]
           shown == Append(run[r].shown, line)
           c == [Record(run[r]) EXCEPT !.pc = "save", !.shown = shown]
<1>1. /\ run[r] \in Contexts /\ run[r] = Record(run[r]) /\ run \in [Runs -> Contexts]
      /\ run[r].pc = "send" /\ store' = store /\ run[r].todo # <<>>
  BY Context DEF Send, At
<1>2. /\ run[r].pc \in Body /\ run[r].origin \in Origins /\ run[r].todo \in Seq(Sent)
      /\ run[r].shown \in Seq(Lines) /\ \E k \in Nat : Ledger(r, k)
  BY <1>1, InTheLoop DEF Loop
<1>3. run' = [run EXCEPT ![r] = c]
  BY <1>1 DEF Send
<1>4. head \in Sent /\ head = run[r].todo[1] /\ Len(run[r].todo) \in Nat \ {0}
  BY <1>1, <1>2, HeadAndTail
<1>5. line \in Lines /\ line.type = head.type
  BY <1>4 DEF Sent, Lines
<1>6. head.type = "result" => line = [type |-> "result", call |-> head.call]
  OBVIOUS
<1> HIDE DEF line, head
<1>7. shown \in Seq(Lines) /\ Len(shown) = Len(run[r].shown) + 1
  BY <1>2, <1>5, OneMore
<1>8. shown = Append(run[r].shown, line)
  OBVIOUS
<1> HIDE DEF shown
<1>9. c \in Contexts
  <2>1. run[r] \in Contexts /\ "save" \in Places /\ shown \in Seq(Lines)
    BY <1>1, <1>7 DEF Places, Body, Loop
  <2> QED BY <2>1 DEF Contexts, Record
<1>10. /\ c.pc = "save" /\ c.saved = run[r].saved /\ c.base = run[r].base
       /\ c.origin = run[r].origin /\ c.last = run[r].last /\ c.tail = run[r].tail
       /\ c.afterRun = run[r].afterRun /\ c.shown = shown /\ c.made = run[r].made
       /\ c.calls = run[r].calls /\ c.todo = run[r].todo
  BY DEF Record
<1> HIDE DEF c
<1>11. run'[r] = c
  BY <1>1, <1>3, <1>9, Turns
<1>12. Answers(r)'
  <2>1. PICK k \in Nat : Ledger(r, k)
    BY <1>2
  <2>2. 1 \in DOMAIN run[r].todo
    BY <1>2, <1>4
  <2>3. head.type = "result" => k > 0 /\ head.call = <<r, k>>
    BY <1>1, <1>4, <2>1, <2>2 DEF Ledger, FromModel, FromTool
  <2>4. Pending(r) <=> head.type = "result"
    BY <1>1, <1>4 DEF Pending
  <2>5. \A n \in Nat \ {0} : IF n < k \/ (n = k /\ ~ Pending(r)) THEN Once(r, n) ELSE Never(r, n)
    BY <2>1 DEF Ledger
  <2>6. \A n \in Nat \ {0} : IF n < k \/ n = k THEN Once(r, n)' ELSE Never(r, n)'
    <3> SUFFICES ASSUME NEW n \in Nat \ {0}
                 PROVE  IF n < k \/ n = k THEN Once(r, n)' ELSE Never(r, n)'
      OBVIOUS
    <3>1. /\ line # ResultOf(r, n) =>
               (Once(r, n) => Once(r, n)') /\ (Never(r, n) => Never(r, n)')
          /\ line = ResultOf(r, n) /\ Never(r, n) => Once(r, n)'
      BY <1>2, <1>5, <1>8, <1>10, <1>11, OneMoreLine
    <3>2. CASE head.type = "result"
      <4>1. line = ResultOf(r, k)
        BY <1>6, <2>3, <3>2 DEF ResultOf
      <4>2. n # k => line # ResultOf(r, n)
        BY <4>1, ResultsDiffer
      <4> QED BY <2>4, <2>5, <3>1, <3>2, <4>1, <4>2
    <3>3. CASE head.type # "result"
      <4>1. line # ResultOf(r, n)
        BY <1>5, <3>3 DEF ResultOf
      <4> QED BY <2>4, <2>5, <3>1, <3>3, <4>1
    <3> QED BY <3>2, <3>3
  <2>7. ~ Pending(r)'
    BY <1>10, <1>11 DEF Pending
  <2>8. FromModel(r, k)' \/ FromTool(r, k)'
    <3>1. FromModel(r, k) \/ FromTool(r, k)
      BY <1>1, <2>1 DEF Ledger
    <3> QED BY <3>1, <1>10, <1>11 DEF FromModel, FromTool
  <2>9. Ledger(r, k)'
    BY <1>1, <2>1, <2>6, <2>7, <2>8, <1>10, <1>11 DEF Ledger
  <2> QED BY <2>9, <1>10, <1>11 DEF Answers
<1>13. TailIsNewest(r)'
  BY <1>10, <1>11 DEF TailIsNewest
<1>14. c.pc \in Body /\ run[r].pc # "save" /\ c.tail \in {run[r].tail, NoItem}
  BY <1>1, <1>10 DEF Body, Loop
<1> QED BY <1>1, <1>2, <1>3, <1>7, <1>9, <1>10, <1>12, <1>13, <1>14, Works

\* AfterLlm: the whole answer has been delivered.
LEMMA AfterLlmKeeps ==
  ASSUME IInv, NEW r \in Runs, AfterLlm(r)
  PROVE  Keeps
<1> DEFINE c == [Record(run[r]) EXCEPT !.pc = "tool"]
<1>1. /\ run[r] \in Contexts /\ run[r] = Record(run[r]) /\ run \in [Runs -> Contexts]
      /\ run[r].pc \in {"send", "afterLlm"} /\ (run[r].pc = "send" => run[r].todo = <<>>)
      /\ store' = store
  BY Context DEF AfterLlm, At
<1>2. /\ run[r].pc \in Body /\ run[r].origin \in Origins /\ run[r].calls \in Seq(CallIds)
      /\ run[r].made \in Nat /\ \E k \in Nat : Ledger(r, k)
  BY <1>1, InTheLoop DEF Loop
<1>3. run' = [run EXCEPT ![r] = c]
  BY <1>1 DEF AfterLlm, Goto
<1>4. c \in Contexts
  <2>1. run[r] \in Contexts /\ "tool" \in Places
    BY <1>1 DEF Places, Body, Loop
  <2> QED BY <2>1 DEF Contexts, Record
<1>5. /\ c.pc = "tool" /\ c.saved = run[r].saved /\ c.base = run[r].base
      /\ c.origin = run[r].origin /\ c.last = run[r].last /\ c.tail = run[r].tail
      /\ c.afterRun = run[r].afterRun /\ c.shown = run[r].shown /\ c.made = run[r].made
      /\ c.calls = run[r].calls /\ c.todo = run[r].todo
  BY DEF Record
<1> HIDE DEF c
<1>6. run'[r] = c
  BY <1>1, <1>3, <1>4, Turns
<1>7. PICK k \in Nat : Ledger(r, k)
  BY <1>2
<1>8. run[r].todo = <<>> /\ FromModel(r, k)
  BY <1>1, <1>7 DEF Ledger, FromTool
<1>9. k + Len(run[r].calls) = run[r].made
  <2>1. Len(run[r].todo) = 0 /\ Len(run[r].calls) \in Nat
    BY <1>2, <1>8, EmptySeq
  <2>2. run[r].made - Len(run[r].todo) <= k + Len(run[r].calls)
    BY <1>8 DEF FromModel
  <2>3. k + Len(run[r].calls) <= run[r].made
    BY <1>7 DEF Ledger
  <2> QED BY <2>1, <2>2, <2>3, <1>2
<1>10. Answers(r)'
  <2>1. \A n \in Nat \ {0} : IF n < k \/ n = k THEN Once(r, n)' ELSE Never(r, n)'
    <3>1. ~ Pending(r)
      BY <1>8 DEF Pending
    <3> QED BY <1>5, <1>6, <1>7, <3>1 DEF Ledger, Once, Never
  <2>2. Ledger(r, k)'
    BY <1>5, <1>6, <1>7, <1>9, <2>1 DEF Ledger, Pending
  <2> QED BY <2>2, <1>5, <1>6 DEF Answers
<1>11. TailIsNewest(r)'
  BY <1>5, <1>6, <1>8 DEF TailIsNewest, FromModel
<1>12. c.pc \in Body /\ c.pc # "save" /\ run[r].pc # "save" /\ c.tail \in {run[r].tail, NoItem}
  BY <1>1, <1>5 DEF Body, Loop
<1> QED BY <1>1, <1>2, <1>3, <1>4, <1>5, <1>10, <1>11, <1>12, Works

\* Save: the item becomes the newest one, a call is queued, and what is left is still
\* the rest of the answer or of the result.
LEMMA SaveKeeps ==
  ASSUME IInv, NEW r \in Runs, Save(r)
  PROVE  Keeps
<1> DEFINE head == Head(run[r].todo)
           rest == Tail(run[r].todo)
           item == Stored(r, head, run[r].last)
           fromTool == head.type \in {"result", "followUp"}
           last == IF run[r].saved THEN Len(store) + 1 ELSE run[r].last
           memory == IF run[r].saved THEN run[r].memory ELSE Append(run[r].memory, item)
           calls == IF head.type = "call" THEN Append(run[r].calls, head.call) ELSE run[r].calls
           tail == IF fromTool /\ rest = <<>> THEN last ELSE run[r].tail
           origin == IF run[r].moved # NoOrigin THEN run[r].moved ELSE run[r].origin
           pc == IF rest # <<>> THEN "send" ELSE IF fromTool THEN "tool" ELSE "afterLlm"
           c == [Record(run[r]) EXCEPT
                   !.last = last, !.memory = memory, !.todo = rest, !.calls = calls,
                   !.tail = tail, !.origin = origin, !.moved = NoOrigin, !.pc = pc]
<1>1. /\ run[r] \in Contexts /\ run[r] = Record(run[r]) /\ run \in [Runs -> Contexts]
      /\ run[r].pc = "save" /\ RunInv(r) /\ Types /\ Len(store) \in Nat
      /\ store' = IF run[r].saved THEN Append(store, item) ELSE store
  BY Context DEF Save, At
<1>2. /\ run[r].pc \in Body /\ run[r].origin \in Origins /\ run[r].calls \in Seq(CallIds)
      /\ run[r].made \in Nat /\ run[r].chain \in ChainStates /\ run[r].moved \in Dialogs
      /\ run[r].last \in Nat /\ run[r].tail \in Nat /\ run[r].memory \in Seq(StoredItems)
      /\ run[r].todo \in Seq(Sent) /\ run[r].last \in 0..Len(store)
      /\ run[r].tail \in 0..Len(store) /\ run[r].shown \in Seq(Lines)
      /\ \E k \in Nat : Ledger(r, k)
  BY <1>1, InTheLoop DEF Loop
<1>3. run' = [run EXCEPT ![r] = c]
  <2>1. run' = [run EXCEPT
          ![r].last = last, ![r].memory = memory, ![r].todo = rest, ![r].calls = calls,
          ![r].tail = tail, ![r].origin = origin, ![r].moved = NoOrigin, ![r].pc = pc]
    BY Zenon DEF Save
  <2> HIDE DEF head, rest, item, last, memory, calls, tail, origin, pc
  <2> QED BY <1>1, <2>1
<1>4. run[r].todo # <<>>
  BY <1>1, <1>2 DEF Ledger
<1>5. /\ head = run[r].todo[1] /\ head \in Sent /\ rest \in Seq(Sent)
      /\ Len(run[r].todo) \in Nat \ {0} /\ Len(rest) = Len(run[r].todo) - 1
      /\ DOMAIN rest = 1..(Len(run[r].todo) - 1)
      /\ \A i \in 1..(Len(run[r].todo) - 1) : rest[i] = run[r].todo[i + 1]
      /\ (rest = <<>> <=> Len(run[r].todo) = 1)
      /\ DOMAIN run[r].todo = 1..Len(run[r].todo)
  <2>1. DOMAIN run[r].todo = 1..Len(run[r].todo)
    BY <1>2
  <2> HIDE DEF item, last, memory, calls, tail, origin, pc, c
  <2> QED BY <1>2, <1>4, <2>1, HeadAndTail
<1>6. head.type \in OutputTypes /\ head.call \in CallIds /\ head.origin \in Origins
  BY <1>5 DEF Sent
<1>7. item = [by |-> r, type |-> head.type, call |-> head.call, origin |-> head.origin,
              prev |-> run[r].last, chain |-> run[r].chain]
  BY DEF Stored
<1>8. item \in StoredItems /\ item.by = r /\ item.prev = run[r].last /\ item.type = head.type
  BY <1>2, <1>6, <1>7 DEF StoredItems
<1>9. memory \in Seq(StoredItems)
  BY <1>2, <1>8, OneMore
<1>10. calls \in Seq(CallIds)
  BY <1>2, <1>6, OneMore
<1>11. last \in Nat /\ tail \in Nat
  BY <1>1, <1>2
<1>12. origin \in Origins /\ origin \in Dialogs /\ NoOrigin \in Dialogs
  BY <1>2 DEF Dialogs
<1>13. pc \in {"send", "tool", "afterLlm"} /\ pc \in Places /\ pc \in Body
  BY DEF Places, Body, Loop
<1>14. (pc = "send" <=> rest # <<>>) /\ (pc = "tool" <=> rest = <<>> /\ fromTool)
  OBVIOUS
<1>15. (pc = "tool" => tail = last) /\ (~ fromTool => tail = run[r].tail)
  OBVIOUS
<1>16. IF head.type = "call"
       THEN /\ Len(calls) = Len(run[r].calls) + 1 /\ calls[Len(run[r].calls) + 1] = head.call
            /\ DOMAIN calls = 1..(Len(run[r].calls) + 1)
            /\ \A i \in DOMAIN run[r].calls : calls[i] = run[r].calls[i]
       ELSE calls = run[r].calls
  BY <1>2, <1>6, OneMore
<1>17. /\ run[r].saved => last = Len(store) + 1
       /\ ~ run[r].saved => last = run[r].last
       /\ tail \in {last, run[r].tail}
  OBVIOUS
<1> HIDE DEF head, rest, item, last, memory, calls, tail, origin, pc
<1>18. c \in Contexts
  <2>1. /\ run[r] \in Contexts /\ last \in Nat /\ memory \in Seq(StoredItems)
        /\ rest \in Seq(Sent) /\ calls \in Seq(CallIds) /\ tail \in Nat /\ origin \in Dialogs
        /\ NoOrigin \in Dialogs /\ pc \in Places
    BY <1>1, <1>5, <1>9, <1>10, <1>11, <1>12, <1>13
  <2> QED BY <2>1, Zenon DEF Contexts, Record
<1>19. /\ c.pc = pc /\ c.saved = run[r].saved /\ c.base = run[r].base
       /\ c.origin = origin /\ c.last = last /\ c.tail = tail
       /\ c.afterRun = run[r].afterRun /\ c.shown = run[r].shown /\ c.made = run[r].made
       /\ c.calls = calls /\ c.todo = rest
  BY DEF Record
<1> HIDE DEF c
<1>20. run' \in [Runs -> Contexts] /\ run'[r] = c /\ \A q \in Runs \ {r} : run'[q] = run[q]
  BY <1>1, <1>3, <1>18, Turns
<1>21. OnePath(r) /\ PointsAtItems(r) /\ run[r].pc # "new" /\ run'[r].pc # "new" /\ c.pc # "new"
  BY <1>1, <1>13, <1>19, <1>20 DEF RunInv
<1>22. /\ OnePath(r)' /\ PointsAtItems(r)' /\ Shows(r)'
       /\ store' = store \/ \E x : Adds(r, x)
  <2>1. CASE run[r].saved
    <3>1. store' = Append(store, item)
      BY <1>1, <2>1
    <3>2. Adds(r, item)
      BY <3>1, <1>2, <1>8 DEF Adds
    <3>3. Len(store') = Len(store) + 1 /\ last = Len(store')
      BY <3>2, <2>1, <1>1, <1>17, Added
    <3>4. item.type # "input"
      BY <1>6, <1>8 DEF OutputTypes
    <3>5. OnePath(r)' /\ Cardinality(OwnOutputs(r))' = Cardinality(OwnOutputs(r)) + 1
      BY <2>1, <3>2, <3>3, <3>4, <1>1, <1>2, <1>8, <1>19, <1>20, <1>21, PathGrows
    <3>6. PointsAtItems(r)'
      <4>1. {run'[r].base, run'[r].last, run'[r].tail} \subseteq 0..Len(store')
        BY <3>3, <1>1, <1>2, <1>17, <1>19, <1>20, <1>21 DEF PointsAtItems
      <4> QED BY <4>1, <1>12, <1>19, <1>20 DEF PointsAtItems
    <3>7. Len(run[r].shown) = Cardinality(OwnOutputs(r)) + 1
      BY <1>1, <1>2, <2>1 DEF RunInv, Shows
    <3>8. Shows(r)'
      BY <3>5, <3>7, <1>13, <1>19, <1>20 DEF Shows
    <3> QED BY <3>2, <3>5, <3>6, <3>8
  <2>2. CASE ~ run[r].saved
    <3>1. store' = store /\ last = run[r].last
      BY <1>1, <1>17, <2>2
    <3>2. OnePath(r)'
      BY <3>1, <2>2, <1>1, <1>2, <1>19, <1>20, <1>21, PathKept
    <3>3. PointsAtItems(r)'
      <4>1. {run'[r].base, run'[r].last, run'[r].tail} \subseteq 0..Len(store')
        BY <3>1, <1>2, <1>17, <1>19, <1>20, <1>21 DEF PointsAtItems
      <4> QED BY <4>1, <1>12, <1>19, <1>20 DEF PointsAtItems
    <3>4. Shows(r)'
      BY <2>2, <1>13, <1>19, <1>20 DEF Shows
    <3> QED BY <3>1, <3>2, <3>3, <3>4
  <2> QED BY <2>1, <2>2
<1>23. Answers(r)'
  <2>1. PICK k \in Nat : Ledger(r, k)
    BY <1>2
  <2>2. /\ FromModel(r, k) \/ FromTool(r, k)
        /\ k + Len(run[r].calls) <= run[r].made
        /\ \A i \in DOMAIN run[r].calls : run[r].calls[i] = <<r, k + i>>
    BY <1>1, <2>1 DEF Ledger
  <2>3. 1 \in DOMAIN run[r].todo /\ Len(run[r].calls) \in Nat
        /\ DOMAIN run[r].calls = 1..Len(run[r].calls)
    BY <1>2, <1>5
  <2>4. ~ Pending(r)'
    <3>1. ASSUME rest # <<>>
          PROVE  rest[1].type # "result"
      <4>1. 1 \in 1..(Len(run[r].todo) - 1)
        BY <3>1, <1>5
      <4>2. 2 \in DOMAIN run[r].todo /\ rest[1] = run[r].todo[2]
        BY <4>1, <1>5
      <4> QED BY <4>2, <2>2 DEF FromModel, FromTool
    <3> QED BY <3>1, <1>19, <1>20 DEF Pending
  <2>5. \A n \in Nat \ {0} : IF n < k \/ n = k THEN Once(r, n)' ELSE Never(r, n)'
    <3>1. ~ Pending(r)
      BY <1>1 DEF Pending
    <3> QED BY <3>1, <1>19, <1>20, <2>1 DEF Ledger, Once, Never
  <2>6. CASE FromModel(r, k)
    <3> DEFINE queued == k + Len(run[r].calls)
               before == run[r].made - Len(run[r].todo)
    <3>1. /\ run[r].tail = NoItem /\ before <= queued
          /\ \A i \in DOMAIN run[r].todo :
               IF before + i > queued
               THEN run[r].todo[i].type = "call" /\ run[r].todo[i].call = <<r, before + i>>
               ELSE run[r].todo[i].type = "text"
      BY <2>6 DEF FromModel
    <3>2. IF before + 1 > queued
          THEN head.type = "call" /\ head.call = <<r, before + 1>>
          ELSE head.type = "text"
      BY <3>1, <2>3, <1>5
    <3>3. tail = NoItem /\ pc # "tool"
      BY <3>1, <3>2, <1>14, <1>15
    <3>4. /\ before \in Int /\ queued \in Nat /\ before + Len(run[r].todo) = run[r].made
          /\ run[r].made - Len(rest) = before + 1
      <4>1. /\ run[r].made \in Nat /\ Len(run[r].todo) \in Nat \ {0}
            /\ Len(rest) = Len(run[r].todo) - 1 /\ Len(run[r].calls) \in Nat
        BY <1>2, <1>5, <2>3
      <4>2. before \in Int
        BY <4>1
      <4>3. queued \in Nat
        BY <4>1
      <4>4. before + Len(run[r].todo) = run[r].made
        BY <4>1
      <4>5. run[r].made - Len(rest) = before + 1
        BY <4>1
      <4> HIDE DEF before, queued
      <4> QED BY <4>2, <4>3, <4>4, <4>5
    <3>5. k + Len(calls) = IF before + 1 > queued THEN queued + 1 ELSE queued
      <4>1. CASE before + 1 > queued
        BY <4>1, <3>2, <1>16, <2>3
      <4>2. CASE ~(before + 1 > queued)
        BY <4>2, <3>2, <1>16
      <4> QED BY <4>1, <4>2
    <3> HIDE DEF before, queued
    <3>6. before + 1 > queued => before = queued
      BY <3>1, <3>4
    <3>7. k + Len(calls) <= run[r].made /\ before + 1 <= k + Len(calls)
      <4>1. queued <= run[r].made /\ run[r].made \in Nat /\ Len(run[r].todo) \in Nat \ {0}
        BY <1>2, <1>5, <2>2 DEF queued
      <4> QED BY <4>1, <3>4, <3>5, <3>6
    <3>8. \A i \in DOMAIN calls : calls[i] = <<r, k + i>>
      <4>1. CASE before + 1 > queued
        <5>1. before + 1 = k + (Len(run[r].calls) + 1)
          BY <3>6, <4>1, <2>3 DEF queued
        <5>2. head.call = <<r, k + (Len(run[r].calls) + 1)>> /\ head.type = "call"
          BY <3>2, <4>1, <5>1
        <5>3. DOMAIN calls = DOMAIN run[r].calls \cup {Len(run[r].calls) + 1}
          BY <5>2, <1>16, <2>3
        <5> QED BY <5>2, <5>3, <1>16, <2>2
      <4>2. CASE ~(before + 1 > queued)
        BY <4>2, <3>2, <1>16, <2>2
      <4> QED BY <4>1, <4>2
    <3>9. \A i \in DOMAIN rest :
            IF before + 1 + i > k + Len(calls)
            THEN rest[i].type = "call" /\ rest[i].call = <<r, before + 1 + i>>
            ELSE rest[i].type = "text"
      <4> SUFFICES ASSUME NEW i \in DOMAIN rest
                   PROVE  IF before + 1 + i > k + Len(calls)
                          THEN rest[i].type = "call" /\ rest[i].call = <<r, before + 1 + i>>
                          ELSE rest[i].type = "text"
        OBVIOUS
      <4>1. /\ i \in Nat \ {0} /\ i + 1 \in DOMAIN run[r].todo /\ rest[i] = run[r].todo[i + 1]
            /\ before + (i + 1) = before + 1 + i
        <5>1. i \in 1..(Len(run[r].todo) - 1) /\ Len(run[r].todo) \in Nat
          BY <1>5
        <5>2. i \in Nat \ {0} /\ i + 1 \in 1..Len(run[r].todo)
          BY <5>1
        <5>3. before + (i + 1) = before + 1 + i
          BY <5>2, <3>4
        <5> QED BY <5>1, <5>2, <5>3, <1>5
      <4>2. before + 1 + i > k + Len(calls) <=> before + 1 + i > queued
        BY <4>1, <3>4, <3>5, <3>6
      <4> QED BY <4>1, <4>2, <3>1
    <3>10. FromModel(r, k)'
      <4>1. run'[r].made - Len(run'[r].todo) = before + 1
        BY <3>4, <1>19, <1>20
      <4>2. before + 1 <= k + Len(c.calls)
        BY <3>7, <1>19
      <4> QED BY <4>1, <4>2, <3>3, <3>9, <1>19, <1>20 DEF FromModel
    <3>11. Ledger(r, k)'
      BY <3>3, <3>7, <3>8, <3>10, <2>4, <2>5, <1>13, <1>14, <1>19, <1>20 DEF Ledger
    <3> QED BY <3>11, <1>13, <1>19, <1>20 DEF Answers
  <2>7. CASE FromTool(r, k)
    <3>1. /\ k + Len(run[r].calls) = run[r].made
          /\ \A i \in DOMAIN run[r].todo : /\ run[r].todo[i].type \in {"result", "followUp"}
                                           /\ i > 1 => run[r].todo[i].type = "followUp"
      BY <2>7 DEF FromTool
    <3>2. head.type \in {"result", "followUp"}
      BY <3>1, <2>3, <1>5
    <3>3. calls = run[r].calls /\ pc # "afterLlm"
      BY <3>2, <1>13, <1>14, <1>16
    <3>4. \A i \in DOMAIN rest : rest[i].type = "followUp"
      <4> SUFFICES ASSUME NEW i \in DOMAIN rest
                   PROVE  rest[i].type = "followUp"
        OBVIOUS
      <4>1. i + 1 \in DOMAIN run[r].todo /\ rest[i] = run[r].todo[i + 1] /\ i + 1 > 1
        BY <1>5
      <4> QED BY <4>1, <3>1
    <3>5. pc = "send" => FromTool(r, k)'
      <4>1. ASSUME rest # <<>>
            PROVE  rest[1].type = "followUp"
        <5>1. 1 \in DOMAIN rest
          BY <4>1, <1>5
        <5> QED BY <5>1, <3>4
      <4> QED BY <4>1, <3>1, <3>3, <3>4, <1>14, <1>19, <1>20 DEF FromTool
    <3>6. Ledger(r, k)'
      BY <3>1, <3>3, <3>5, <2>2, <2>4, <2>5, <1>13, <1>19, <1>20 DEF Ledger
    <3> QED BY <3>6, <1>13, <1>19, <1>20 DEF Answers
  <2> QED BY <2>2, <2>6, <2>7
<1>24. TailIsNewest(r)'
  BY <1>15, <1>19, <1>20 DEF TailIsNewest
<1>25. Ends(r)'
  BY <1>1, <1>13, <1>19, <1>20 DEF RunInv, Ends
<1>26. Finished(r)
  BY <1>13, <1>19, <1>20 DEF Finished
<1> QED BY <1>20, <1>22, <1>23, <1>24, <1>25, <1>26, Frame DEF RunInv

\* RunTool: the result of the next call comes next.
LEMMA RunToolKeeps ==
  ASSUME IInv, NEW r \in Runs, RunTool(r)
  PROVE  Keeps
<1>1. /\ run[r] \in Contexts /\ run[r] = Record(run[r]) /\ run \in [Runs -> Contexts]
      /\ run[r].pc = "tool" /\ store' = store /\ run[r].calls # <<>> /\ RunInv(r)
  BY Context DEF RunTool, At
<1>2. /\ run[r].pc \in Body /\ run[r].origin \in Origins /\ run[r].calls \in Seq(CallIds)
      /\ run[r].made \in Nat /\ run[r].chain \in ChainStates /\ run[r].moved \in Dialogs
      /\ run[r].last \in Nat /\ \E k \in Nat : Ledger(r, k)
  BY <1>1, InTheLoop DEF Loop
<1>3. PICK chain \in Chains \cup {run[r].chain}, o \in Origins \cup {NoOrigin}, more \in FollowUps :
        LET result == Output("result", Head(run[r].calls), run[r].origin)
            follow == Output("followUp", <<>>, run[r].origin)
        IN run' = [run EXCEPT
             ![r].pc = "send",
             ![r].calls = Tail(@),
             ![r].chain = chain,
             ![r].moved = IF o = NoOrigin THEN @ ELSE o,
             ![r].last = IF run[r].tail # NoItem THEN run[r].tail ELSE @,
             ![r].todo = IF more THEN <<result, follow>> ELSE <<result>>]
  BY DEF RunTool
<1> DEFINE call == Head(run[r].calls)
           calls == Tail(run[r].calls)
           moved == IF o = NoOrigin THEN run[r].moved ELSE o
           last == IF run[r].tail # NoItem THEN run[r].tail ELSE run[r].last
           result == Output("result", call, run[r].origin)
           follow == Output("followUp", <<>>, run[r].origin)
           todo == IF more THEN <<result, follow>> ELSE <<result>>
           c == [Record(run[r]) EXCEPT
                   !.pc = "send", !.calls = calls, !.chain = chain, !.moved = moved,
                   !.last = last, !.todo = todo]
<1>4. run' = [run EXCEPT ![r] = c]
  BY <1>1, <1>3
<1>5. /\ calls \in Seq(CallIds) /\ call \in CallIds /\ call = run[r].calls[1]
      /\ Len(run[r].calls) \in Nat \ {0} /\ Len(calls) = Len(run[r].calls) - 1
      /\ DOMAIN calls = 1..(Len(run[r].calls) - 1)
      /\ \A i \in 1..(Len(run[r].calls) - 1) : calls[i] = run[r].calls[i + 1]
      /\ DOMAIN run[r].calls = 1..Len(run[r].calls)
  BY <1>1, <1>2, HeadAndTail
<1>6. last = run[r].last
  BY <1>1 DEF RunInv, TailIsNewest
<1>7. moved \in Dialogs /\ chain \in ChainStates /\ "send" \in Places
  BY <1>2 DEF Dialogs, ChainStates, Places, Body, Loop
<1> HIDE DEF call, calls, moved, last
<1>8. /\ todo \in Seq(Sent) /\ todo # <<>> /\ todo[1].type = "result" /\ todo[1].call = call
      /\ \A i \in DOMAIN todo : /\ todo[i].type \in {"result", "followUp"}
                                /\ i > 1 => todo[i].type = "followUp"
  <2>1. result \in Sent /\ follow \in Sent
    BY <1>2, <1>5 DEF Output, Sent, OutputTypes, CallIds
  <2>2. /\ result.type = "result" /\ result.call = call /\ follow.type = "followUp"
    BY DEF Output
  <2> HIDE DEF result, follow
  <2>3. CASE more
    BY <2>1, <2>2, <2>3
  <2>4. CASE ~ more
    BY <2>1, <2>2, <2>4
  <2> QED BY <2>3, <2>4
<1> HIDE DEF todo
<1>9. c \in Contexts
  <2>1. /\ run[r] \in Contexts /\ todo \in Seq(Sent) /\ calls \in Seq(CallIds)
        /\ last \in Nat /\ moved \in Dialogs /\ chain \in ChainStates /\ "send" \in Places
    BY <1>1, <1>2, <1>5, <1>6, <1>7, <1>8
  <2> QED BY <2>1, Zenon DEF Contexts, Record
<1>10. /\ c.pc = "send" /\ c.saved = run[r].saved /\ c.base = run[r].base
       /\ c.origin = run[r].origin /\ c.last = last /\ c.tail = run[r].tail
       /\ c.afterRun = run[r].afterRun /\ c.shown = run[r].shown /\ c.made = run[r].made
       /\ c.calls = calls /\ c.todo = todo
  BY DEF Record
<1> HIDE DEF c
<1>11. run'[r] = c
  BY <1>1, <1>4, <1>9, Turns
<1>12. Answers(r)'
  <2>1. PICK k \in Nat : Ledger(r, k)
    BY <1>2
  <2>2. /\ k + Len(run[r].calls) = run[r].made /\ call = <<r, k + 1>>
        /\ \A i \in DOMAIN calls : calls[i] = <<r, (k + 1) + i>>
    <3>1. /\ k + Len(run[r].calls) = run[r].made
          /\ \A i \in DOMAIN run[r].calls : run[r].calls[i] = <<r, k + i>>
      BY <1>1, <2>1 DEF Ledger
    <3>2. call = <<r, k + 1>>
      BY <1>5, <3>1
    <3>3. ASSUME NEW i \in DOMAIN calls
          PROVE  calls[i] = <<r, (k + 1) + i>>
      <4>1. i + 1 \in DOMAIN run[r].calls /\ calls[i] = run[r].calls[i + 1]
        BY <1>5
      <4>2. k + (i + 1) = (k + 1) + i
        BY <1>5
      <4> QED BY <3>1, <4>1, <4>2
    <3> QED BY <3>1, <3>2, <3>3
  <2>3. Pending(r)' /\ ~ Pending(r)
    BY <1>1, <1>8, <1>10, <1>11 DEF Pending
  <2>4. \A n \in Nat \ {0} : IF n < k + 1 \/ (n = k + 1 /\ ~ Pending(r)')
                             THEN Once(r, n)' ELSE Never(r, n)'
    <3>1. \A n \in Nat \ {0} : IF n < k \/ n = k THEN Once(r, n) ELSE Never(r, n)
      BY <2>1, <2>3 DEF Ledger
    <3>2. \A n \in Nat \ {0} : (Once(r, n) => Once(r, n)') /\ (Never(r, n) => Never(r, n)')
      BY <1>10, <1>11 DEF Once, Never
    <3>3. \A n \in Nat : n < k + 1 <=> (n < k \/ n = k)
      OBVIOUS
    <3> QED BY <2>3, <3>1, <3>2, <3>3
  <2>5. FromTool(r, k + 1)'
    <3>1. (k + 1) + Len(c.calls) = c.made /\ k + 1 > 0
      BY <1>5, <1>10, <2>2
    <3> QED BY <3>1, <1>8, <1>10, <1>11, <2>2 DEF FromTool
  <2>6. (k + 1) + Len(c.calls) <= c.made
    BY <1>2, <1>5, <1>10, <2>2
  <2>7. Ledger(r, k + 1)'
    BY <2>2, <2>4, <2>5, <2>6, <1>10, <1>11 DEF Ledger
  <2>8. k + 1 \in Nat
    OBVIOUS
  <2> QED BY <2>7, <2>8, <1>10, <1>11 DEF Answers
<1>13. TailIsNewest(r)'
  BY <1>10, <1>11 DEF TailIsNewest
<1>14. /\ c.pc \in Body /\ c.pc # "save" /\ run[r].pc # "save"
       /\ c.tail \in {run[r].tail, NoItem} /\ c.last = run[r].last
  BY <1>1, <1>6, <1>10 DEF Body, Loop
<1> QED BY <1>1, <1>2, <1>4, <1>9, <1>10, <1>12, <1>13, <1>14, Works

\* A step between two iterations changes nothing but where the run is typing.
LEMMA Iterates ==
  ASSUME IInv, NEW r \in Runs, NEW c \in Contexts, run' = [run EXCEPT ![r] = c],
         store' = store, run[r].pc \in {"tool", "retype"}, c.pc \in {"ask", "retype"},
         run[r].pc = "tool" => run[r].calls = <<>>,
         c.saved = run[r].saved, c.base = run[r].base, c.origin = run[r].origin,
         c.last = run[r].last, c.tail = run[r].tail, c.afterRun = run[r].afterRun,
         c.shown = run[r].shown, c.made = run[r].made, c.calls = run[r].calls
  PROVE  Keeps
<1>1. run \in [Runs -> Contexts]
  BY Context
<1>2. run'[r] = c
  BY <1>1, Turns
<1>3. /\ run[r].pc \in Body /\ run[r].origin \in Origins /\ run[r].calls \in Seq(CallIds)
      /\ run[r].made \in Nat /\ \E k \in Nat : Ledger(r, k)
  BY InTheLoop DEF Loop
<1>4. PICK k \in Nat : Ledger(r, k)
  BY <1>3
<1>5. k = run[r].made /\ k + Len(run[r].calls) = run[r].made /\ ~ Pending(r) /\ ~ Pending(r)'
  <2>1. k + Len(run[r].calls) = run[r].made
    BY <1>4 DEF Ledger
  <2>2. run[r].pc = "tool" => Len(run[r].calls) = 0
    BY EmptySeq
  <2>3. run[r].pc = "retype" => k = run[r].made
    BY <1>4 DEF Ledger
  <2>4. ~ Pending(r) /\ ~ Pending(r)'
    BY <1>2 DEF Pending
  <2> QED BY <2>1, <2>2, <2>3, <2>4, <1>3
<1>6. \A n \in Nat \ {0} : IF n < k \/ n = k THEN Once(r, n)' ELSE Never(r, n)'
  BY <1>2, <1>4, <1>5 DEF Ledger, Once, Never
<1>7. Ledger(r, k)'
  BY <1>2, <1>4, <1>5, <1>6 DEF Ledger
<1>8. Answers(r)'
  BY <1>2, <1>7 DEF Answers
<1>9. TailIsNewest(r)'
  BY <1>2 DEF TailIsNewest
<1>10. c.pc \in Body /\ c.pc # "save" /\ run[r].pc # "save" /\ c.tail \in {run[r].tail, NoItem}
  BY DEF Body, Loop
<1> QED BY <1>3, <1>8, <1>9, <1>10, Works

\* EndIteration: the answer is returned, or the next question asked.
LEMMA EndIterationKeeps ==
  ASSUME IInv, NEW r \in Runs, EndIteration(r)
  PROVE  Keeps
<1>1. /\ run[r] \in Contexts /\ run[r] = Record(run[r]) /\ run \in [Runs -> Contexts]
      /\ run[r].pc = "tool" /\ store' = store /\ run[r].calls = <<>> /\ RunInv(r)
  BY Context DEF EndIteration, At
<1>2. CASE ~ run[r].more
  <2> DEFINE left == Left(r)
             c == [Record(left) EXCEPT !.outcome = "returned", !.pc = "leave"]
  <2>1. /\ left \in Contexts /\ left = Record(left)
        /\ left.saved = run[r].saved /\ left.base = run[r].base
        /\ left.last = run[r].last /\ left.tail = NoItem
        /\ left.afterRun = run[r].afterRun /\ left.shown = run[r].shown
    BY LeftIsContext
  <2>2. run' = [run EXCEPT ![r] = c]
    <3>1. run' = [run EXCEPT ![r] = [left EXCEPT !.outcome = "returned", !.pc = "leave"]]
      BY <1>2 DEF EndIteration
    <3> QED BY <2>1, <3>1
  <2> HIDE DEF left
  <2>3. c \in Contexts
    <3>1. "returned" \in Outcomes /\ "leave" \in Places
      BY DEF Outcomes, Places
    <3> QED BY <2>1, <3>1 DEF Contexts, Record
  <2>4. /\ c.pc = "leave" /\ c.saved = run[r].saved /\ c.base = run[r].base
        /\ c.last = run[r].last /\ c.tail = NoItem
        /\ c.afterRun = run[r].afterRun /\ c.shown = run[r].shown
    BY <2>1 DEF Record
  <2> HIDE DEF c
  <2>5. c.afterRun = 0
    BY <1>1, <2>4 DEF RunInv, Ends
  <2>6. c.pc \in {"leave", "error", "final", "done"} /\ c.tail \in {run[r].tail, NoItem}
        /\ c.afterRun <= 1 /\ run[r].pc # "new"
    BY <1>1, <2>4, <2>5
  <2> QED BY <1>1, <2>2, <2>3, <2>4, <2>5, <2>6, Halts
<1>3. CASE run[r].more
  <2> DEFINE pc == IF run[r].typing = run[r].origin THEN "ask" ELSE "retype"
             c == [Record(run[r]) EXCEPT !.pc = pc]
  <2>1. run' = [run EXCEPT ![r] = c]
    BY <1>1, <1>3 DEF EndIteration
  <2>2. pc \in {"ask", "retype"} /\ pc \in Places
    BY DEF Places, Body, Loop
  <2> HIDE DEF pc
  <2>3. c \in Contexts
    BY <1>1, <2>2 DEF Contexts, Record
  <2>4. /\ c.pc = pc /\ c.saved = run[r].saved /\ c.base = run[r].base
        /\ c.origin = run[r].origin /\ c.last = run[r].last /\ c.tail = run[r].tail
        /\ c.afterRun = run[r].afterRun /\ c.shown = run[r].shown /\ c.made = run[r].made
        /\ c.calls = run[r].calls
    BY DEF Record
  <2> HIDE DEF c
  <2>5. run[r].pc \in {"tool", "retype"} /\ c.pc \in {"ask", "retype"}
    BY <1>1, <2>2, <2>4
  <2> QED BY <1>1, <2>1, <2>3, <2>4, <2>5, Iterates
<1> QED BY <1>2, <1>3

\* Retype only moves the typing indicator to the dialog of the run.
LEMMA RetypeKeeps ==
  ASSUME IInv, NEW r \in Runs, Retype(r)
  PROVE  Keeps
<1> DEFINE origin == run[r].origin
           c == [Record(run[r]) EXCEPT !.typing = origin, !.pc = "ask"]
<1>1. /\ run[r] \in Contexts /\ run[r] = Record(run[r]) /\ run \in [Runs -> Contexts]
      /\ run[r].pc = "retype" /\ store' = store
  BY Context DEF Retype, At
<1>2. run' = [run EXCEPT ![r] = c]
  BY <1>1 DEF Retype
<1>3. origin \in Dialogs /\ "ask" \in Places
  BY <1>1 DEF Contexts, Places, Body, Loop
<1>4. /\ c.pc = "ask" /\ c.saved = run[r].saved /\ c.base = run[r].base
      /\ c.origin = run[r].origin /\ c.last = run[r].last /\ c.tail = run[r].tail
      /\ c.afterRun = run[r].afterRun /\ c.shown = run[r].shown /\ c.made = run[r].made
      /\ c.calls = run[r].calls
  BY DEF Record
<1> HIDE DEF origin
<1>5. c \in Contexts
  BY <1>1, <1>3 DEF Contexts, Record
<1> HIDE DEF c
<1>6. /\ run[r].pc \in {"tool", "retype"} /\ c.pc \in {"ask", "retype"}
      /\ run[r].pc = "tool" => run[r].calls = <<>>
  BY <1>1, <1>4
<1> QED BY <1>1, <1>2, <1>4, <1>5, <1>6, Iterates

-----------------------------------------------------------------------------
(* The end of a run                                                        *)

\* Fail leaves the loop with nothing in progress; what was shown but not stored is at most the last item.
LEMMA FailKeeps ==
  ASSUME IInv, NEW r \in Runs, Fail(r)
  PROVE  Keeps
<1> DEFINE left == Left(r)
           pc == IF run[r].pc \in Loop THEN "leave" ELSE "error"
           typing == IF At(r, "retype") THEN NoOrigin ELSE run[r].typing
           c == [Record(left) EXCEPT !.outcome = "failed", !.pc = pc, !.typing = typing]
<1>1. /\ Types /\ RunInv(r) /\ run[r] \in Contexts /\ run[r].pc \in Body /\ store' = store
  BY Context DEF Fail
<1>2. /\ left \in Contexts /\ left = Record(left)
      /\ left.pc = run[r].pc /\ left.saved = run[r].saved /\ left.base = run[r].base
      /\ left.last = run[r].last /\ left.tail = NoItem /\ left.typing = run[r].typing
      /\ left.afterRun = run[r].afterRun /\ left.shown = run[r].shown
  BY LeftIsContext
<1>3. /\ typing \in Dialogs /\ pc \in {"leave", "error"} /\ pc \in Places
      /\ "failed" \in Outcomes
  BY <1>1 DEF Contexts, Dialogs, Places, Outcomes
<1>4. run' = [run EXCEPT ![r] = c]
  <2>1. run' = [run EXCEPT ![r] = [left EXCEPT
          !.outcome = "failed",
          !.pc = IF left.pc \in Loop THEN "leave" ELSE "error",
          !.typing = IF At(r, "retype") THEN NoOrigin ELSE left.typing]]
    BY DEF Fail
  <2> QED BY <2>1, <1>2
<1> HIDE DEF left, pc, typing
<1>5. c \in Contexts
  BY <1>2, <1>3 DEF Contexts, Record
<1>6. /\ c.pc = pc /\ c.saved = run[r].saved /\ c.base = run[r].base
      /\ c.last = run[r].last /\ c.tail = NoItem
      /\ c.afterRun = run[r].afterRun /\ c.shown = run[r].shown
  BY <1>2 DEF Record
<1> HIDE DEF c
<1>7. run[r].pc \notin {"new", "done"}
  BY <1>1 DEF Body, Loop
<1>8. c.afterRun = 0
  BY <1>1, <1>6, <1>7 DEF RunInv, Ends
<1>9. c.pc \in {"leave", "error", "final", "done"} /\ c.tail \in {run[r].tail, NoItem}
      /\ c.afterRun <= 1 /\ c.pc # "done"
  BY <1>3, <1>6, <1>8
<1> QED BY <1>1, <1>4, <1>5, <1>6, <1>7, <1>8, <1>9, Halts

\* Cancel: the item being stored may have been inserted.
LEMMA CancelKeeps ==
  ASSUME IInv, NEW r \in Runs, Cancel(r)
  PROVE  Keeps
<1>1. /\ Types /\ RunInv(r) /\ run[r] \in Contexts /\ run[r] = Record(run[r])
      /\ run[r].pc \notin {"new", "done"} /\ Len(store) \in Nat
  BY Context DEF Cancel
<1>2. PICK typing \in {run[r].typing}
                      \cup (IF run[r].pc \in {"retype", "leave"} THEN {NoOrigin} ELSE {}) :
        run' = [run EXCEPT ![r] = [Left(r) EXCEPT
          !.cancels = @ + 1, !.outcome = "cancelled", !.typing = typing,
          !.pc = IF @ \in Loop THEN "leave"
                 ELSE IF @ \in Body \cup {"leave", "error"} THEN "final" ELSE "done"]]
  BY DEF Cancel
<1> DEFINE left == Left(r)
           pc == IF run[r].pc \in Loop THEN "leave"
                 ELSE IF run[r].pc \in Body \cup {"leave", "error"} THEN "final" ELSE "done"
           cancels == run[r].cancels + 1
           c == [Record(left) EXCEPT !.cancels = cancels, !.outcome = "cancelled",
                                     !.typing = typing, !.pc = pc]
<1>3. /\ left \in Contexts /\ left = Record(left)
      /\ left.pc = run[r].pc /\ left.saved = run[r].saved /\ left.base = run[r].base
      /\ left.last = run[r].last /\ left.tail = NoItem /\ left.cancels = run[r].cancels
      /\ left.afterRun = run[r].afterRun /\ left.shown = run[r].shown
  BY LeftIsContext
<1>4. /\ typing \in Dialogs /\ cancels \in Nat /\ pc \in {"leave", "final", "done"}
      /\ pc \in Places /\ "cancelled" \in Outcomes
  <2>1. run[r].typing \in Dialogs /\ run[r].cancels \in Nat
    BY <1>1 DEF Contexts
  <2>2. typing \in Dialogs
    BY <2>1 DEF Dialogs
  <2>3. cancels \in Nat
    BY <2>1
  <2>4. pc \in {"leave", "final", "done"}
    OBVIOUS
  <2> QED BY <2>2, <2>3, <2>4 DEF Places, Outcomes
<1>5. run' = [run EXCEPT ![r] = c]
  <2>1. run' = [run EXCEPT ![r] = [left EXCEPT
          !.cancels = left.cancels + 1, !.outcome = "cancelled", !.typing = typing,
          !.pc = IF left.pc \in Loop THEN "leave"
                 ELSE IF left.pc \in Body \cup {"leave", "error"} THEN "final" ELSE "done"]]
    BY <1>2
  <2> QED BY <2>1, <1>3
<1> HIDE DEF left, pc, cancels
<1>10. c \in Contexts
  BY <1>3, <1>4 DEF Contexts, Record
<1>6. /\ c.pc = pc /\ c.saved = run[r].saved /\ c.base = run[r].base
      /\ c.last = run[r].last /\ c.tail = NoItem /\ c.cancels = cancels
      /\ c.afterRun = run[r].afterRun /\ c.shown = run[r].shown
  BY <1>3 DEF Record
<1>11. c.cancels > run[r].cancels
  <2>1. run[r].cancels \in Nat
    BY <1>1 DEF Contexts
  <2> QED BY <2>1, <1>6 DEF cancels
<1> HIDE DEF c
<1>7. c.afterRun = 0
  BY <1>1, <1>6 DEF RunInv, Ends
<1>8. c.pc \in {"leave", "error", "final", "done"} /\ c.tail \in {run[r].tail, NoItem}
      /\ c.afterRun <= 1
  BY <1>4, <1>6, <1>7
<1>9. \/ store' = store
      \/ /\ run[r].saved /\ run[r].pc \in Body
         /\ \E item : /\ Adds(r, item)
                      /\ item.type # "input" => run[r].pc = "save" /\ item.prev = run[r].last
  <2>1. CASE UNCHANGED store
    BY <2>1
  <2>2. CASE /\ At(r, "save") /\ run[r].saved
             /\ store' = Append(store, Stored(r, Head(run[r].todo), run[r].last))
    <3>1. run[r].pc = "save" /\ run[r].pc \in Body
      BY <2>2 DEF At, Body, Loop
    <3>2. Adds(r, Stored(r, Head(run[r].todo), run[r].last))
      BY <2>2, <3>1, SavedIsItem
    <3>3. Stored(r, Head(run[r].todo), run[r].last).prev = run[r].last
      BY DEF Stored
    <3> QED BY <2>2, <3>1, <3>2, <3>3
  <2>3. CASE /\ At(r, "input") /\ run[r].saved /\ run[r].inputs > 0
             /\ \E item \in Inputs(r) : store' = Append(store, item)
    <3>1. run[r].pc \in Body
      BY <2>3 DEF At, Body
    <3>2. PICK item \in Inputs(r) : store' = Append(store, item)
      BY <2>3
    <3>3. Adds(r, item) /\ item.type = "input"
      BY <3>1, <3>2, InputsAreItems
    <3> QED BY <2>3, <3>1, <3>3
  <2> QED BY <2>1, <2>2, <2>3 DEF Cancel
<1> QED BY <1>1, <1>5, <1>6, <1>7, <1>8, <1>9, <1>10, <1>11, Halts

\* LeaveTyping goes on to the error or the final hook.
LEMMA LeaveTypingKeeps ==
  ASSUME IInv, NEW r \in Runs, LeaveTyping(r)
  PROVE  Keeps
<1>1. /\ Types /\ RunInv(r) /\ run[r] \in Contexts /\ run[r] = Record(run[r])
      /\ run[r].pc = "leave" /\ store' = store
  BY Context DEF LeaveTyping, At
<1>2. ASSUME NEW c \in Contexts, run' = [run EXCEPT ![r] = c],
             c.pc \in {"error", "final"}, c.saved = run[r].saved, c.base = run[r].base,
             c.last = run[r].last, c.tail = run[r].tail,
             c.afterRun = run[r].afterRun, c.shown = run[r].shown
      PROVE  Keeps
  <2>1. c.afterRun = 0
    BY <1>1, <1>2 DEF RunInv, Ends
  <2>2. c.pc \in {"leave", "error", "final", "done"} /\ c.tail \in {run[r].tail, NoItem}
        /\ c.afterRun <= 1 /\ run[r].pc # "new"
    BY <1>1, <1>2, <2>1
  <2> QED BY <1>1, <1>2, <2>1, <2>2, Halts
<1>3. NoOrigin \in Dialogs /\ "failed" \in Outcomes /\ "error" \in Places /\ "final" \in Places
  BY DEF Dialogs, Outcomes, Places
<1>4. CASE run' = [run EXCEPT ![r].typing = NoOrigin,
                      ![r].pc = IF run[r].outcome = "failed" THEN "error" ELSE "final"]
  <2> DEFINE pc == IF run[r].outcome = "failed" THEN "error" ELSE "final"
             c == [Record(run[r]) EXCEPT !.typing = NoOrigin, !.pc = pc]
  <2>1. run' = [run EXCEPT ![r] = c]
    BY <1>1, <1>4
  <2>2. pc \in {"error", "final"} /\ pc \in Places
    BY <1>3
  <2> HIDE DEF pc
  <2>3. c \in Contexts
    BY <1>1, <1>3, <2>2 DEF Contexts, Record
  <2>4. /\ c.pc = pc /\ c.saved = run[r].saved /\ c.base = run[r].base
        /\ c.last = run[r].last /\ c.tail = run[r].tail
        /\ c.afterRun = run[r].afterRun /\ c.shown = run[r].shown
    BY DEF Record
  <2> HIDE DEF c
  <2> QED BY <2>1, <2>2, <2>3, <2>4, <1>2
<1>5. CASE run' = [run EXCEPT ![r].typing = NoOrigin, ![r].outcome = "failed", ![r].pc = "error"]
  <2> DEFINE c == [Record(run[r]) EXCEPT !.typing = NoOrigin, !.outcome = "failed", !.pc = "error"]
  <2>1. run' = [run EXCEPT ![r] = c]
    BY <1>1, <1>5
  <2>2. c \in Contexts
    BY <1>1, <1>3 DEF Contexts, Record
  <2>3. /\ c.pc = "error" /\ c.saved = run[r].saved /\ c.base = run[r].base
        /\ c.last = run[r].last /\ c.tail = run[r].tail
        /\ c.afterRun = run[r].afterRun /\ c.shown = run[r].shown
    BY DEF Record
  <2> HIDE DEF c
  <2>4. c.pc \in {"error", "final"}
    BY <2>3
  <2> QED BY <2>1, <2>2, <2>3, <2>4, <1>2
<1> QED BY <1>4, <1>5 DEF LeaveTyping

\* HandleError only goes on to the final hook.
LEMMA HandleErrorKeeps ==
  ASSUME IInv, NEW r \in Runs, HandleError(r)
  PROVE  Keeps
<1> DEFINE c == [Record(run[r]) EXCEPT !.pc = "final"]
<1>1. /\ Types /\ RunInv(r) /\ run[r] \in Contexts /\ run[r] = Record(run[r])
      /\ run[r].pc = "error" /\ store' = store
  BY Context DEF HandleError, At
<1>2. run' = [run EXCEPT ![r] = c]
  BY <1>1 DEF HandleError, Goto
<1>3. c \in Contexts
  BY <1>1 DEF Contexts, Record, Places
<1>4. /\ c.pc = "final" /\ c.saved = run[r].saved /\ c.base = run[r].base
      /\ c.last = run[r].last /\ c.tail = run[r].tail
      /\ c.afterRun = run[r].afterRun /\ c.shown = run[r].shown
  BY DEF Record
<1> HIDE DEF c
<1>5. c.afterRun = 0
  BY <1>1, <1>4 DEF RunInv, Ends
<1>6. c.pc \in {"leave", "error", "final", "done"} /\ c.tail \in {run[r].tail, NoItem}
      /\ c.afterRun <= 1 /\ run[r].pc # "new"
  BY <1>1, <1>4, <1>5
<1> QED BY <1>1, <1>2, <1>3, <1>4, <1>5, <1>6, Halts

\* AfterRun is the end of the run.
LEMMA AfterRunKeeps ==
  ASSUME IInv, NEW r \in Runs, AfterRun(r)
  PROVE  Keeps
<1> DEFINE c == [Record(run[r]) EXCEPT !.pc = "done", !.afterRun = 1]
<1>1. /\ Types /\ RunInv(r) /\ run[r] \in Contexts /\ run[r] = Record(run[r])
      /\ run[r].pc = "final" /\ store' = store
  BY Context DEF AfterRun, At
<1>2. run[r].afterRun = 0
  BY <1>1 DEF RunInv, Ends
<1>3. run' = [run EXCEPT ![r] = c]
  <2>1. run[r].afterRun + 1 = 1
    BY <1>2
  <2>2. run' = [run EXCEPT ![r].pc = "done", ![r].afterRun = 1]
    BY <2>1 DEF AfterRun
  <2> QED BY <2>2, <1>1
<1>4. c \in Contexts
  BY <1>1 DEF Contexts, Record, Places
<1>5. /\ c.pc = "done" /\ c.saved = run[r].saved /\ c.base = run[r].base
      /\ c.last = run[r].last /\ c.tail = run[r].tail
      /\ c.afterRun = 1 /\ c.shown = run[r].shown
  BY DEF Record
<1> HIDE DEF c
<1>6. c.pc \in {"leave", "error", "final", "done"} /\ c.tail \in {run[r].tail, NoItem}
      /\ c.afterRun <= 1 /\ run[r].pc # "new"
  BY <1>1, <1>5
<1> QED BY <1>1, <1>3, <1>4, <1>5, <1>6, Halts

-----------------------------------------------------------------------------
(* The invariant                                                           *)

\* Nothing is stored, and no run has begun.
LEMMA InitHolds ==
  ASSUME Init
  PROVE  IInv
<1>1. NewRun \in Contexts
  BY EmptySeq DEF NewRun, Contexts, Places, Flags, Dialogs, ChainStates, Outcomes, NoItem
<1>2. store = <<>> /\ \A r \in Runs : run[r] = NewRun
  BY DEF Init
<1>3. store \in Seq(StoredItems) /\ DOMAIN store = {} /\ Len(store) = 0
  BY <1>2, EmptySeq
<1>4. Types
  <2>1. run \in [Runs -> Contexts]
    BY <1>1 DEF Init
  <2> QED BY <2>1, <1>3 DEF Types
<1>5. ASSUME NEW r \in Runs
      PROVE  RunInv(r)
  <2>1. /\ run[r].pc = "new" /\ run[r].base = 0 /\ run[r].last = 0 /\ run[r].tail = 0
        /\ run[r].saved = TRUE /\ run[r].shown = <<>> /\ run[r].afterRun = 0
        /\ run[r].made = 0 /\ run[r].calls = <<>>
    BY <1>2 DEF NewRun, NoItem
  <2>2. Own(r) = {} /\ OwnOutputs(r) = {} /\ Cardinality({}) = 0
    BY <1>3, FS_EmptySet DEF Own, OwnOutputs
  <2>3. "new" \notin Body /\ "new" \notin Loop \cup {"retype"}
    BY DEF Body, Loop
  <2>4. PointsAtItems(r)
    BY <1>3, <2>1, <2>3 DEF PointsAtItems
  <2>5. OnePath(r) /\ TailIsNewest(r)
    BY <2>1, <2>2, <2>3 DEF OnePath, TailIsNewest
  <2>6. Shows(r)
    BY <2>1, <2>2, <2>3, EmptySeq DEF Shows
  <2>7. Ends(r) /\ Answers(r)
    BY <2>1, <2>3, SMT DEF Ends, Answers, NoItem
  <2> QED BY <2>4, <2>5, <2>6, <2>7 DEF RunInv
<1> QED BY <1>4, <1>5 DEF IInv

\* Every step of every run keeps the invariant.
LEMMA NextKeeps ==
  ASSUME IInv, [Next]_vars
  PROVE  Keeps
<1>1. CASE UNCHANGED vars
  <2>1. store' = store /\ run' = run
    BY <1>1 DEF vars
  <2>2. IInv'
    <3>1. Types'
      BY <2>1 DEF IInv, Types
    <3>2. ASSUME NEW r \in Runs
          PROVE  RunInv(r)'
      <4>1. RunInv(r)
        BY DEF IInv
      <4>2. Own(r)' = Own(r) /\ OwnOutputs(r)' = OwnOutputs(r)
        BY <2>1 DEF Own, OwnOutputs
      <4>3. PointsAtItems(r)' /\ OnePath(r)' /\ TailIsNewest(r)' /\ Shows(r)' /\ Ends(r)'
        BY <2>1, <4>1, <4>2
           DEF RunInv, PointsAtItems, OnePath, IsNewest, TailIsNewest, Shows, Ends
      <4>4. Answers(r)'
        BY <2>1, <4>1, SameAnswers DEF RunInv
      <4> QED BY <4>3, <4>4 DEF RunInv
    <3> QED BY <3>1, <3>2 DEF IInv
  <2>3. \A r \in Runs : Finished(r)
    BY <2>1 DEF Finished
  <2> QED BY <2>2, <2>3 DEF Keeps
<1>2. ASSUME NEW r \in Runs, Created(r)
      PROVE  Keeps
  <2>1. PICK base \in {NoItem} \cup {i \in DOMAIN store : store[i].by \in Continues[r]},
             saved \in Saves[r], n \in 0..MaxInputs : Create(r, base, saved, n)
    BY <1>2 DEF Created
  <2>2. base \in {NoItem} \cup DOMAIN store /\ saved \in BOOLEAN /\ n \in Nat
    BY DialogAssumption
  <2> QED BY <2>1, <2>2, CreateKeeps
<1>3. ASSUME NEW r \in Runs, Step(r)
      PROVE  Keeps
  <2>1. CASE StoreInput(r)
    BY <2>1, StoreInputKeeps
  <2>2. CASE RestoreChain(r)
    BY <2>2, RestoreChainKeeps
  <2>3. CASE BeforeRun(r)
    BY <2>3, BeforeRunKeeps
  <2>4. CASE AskModel(r)
    BY <2>4, AskModelKeeps
  <2>5. CASE Send(r)
    BY <2>5, SendKeeps
  <2>6. CASE Save(r)
    BY <2>6, SaveKeeps
  <2>7. CASE AfterLlm(r)
    BY <2>7, AfterLlmKeeps
  <2>8. CASE RunTool(r)
    BY <2>8, RunToolKeeps
  <2>9. CASE EndIteration(r)
    BY <2>9, EndIterationKeeps
  <2>10. CASE Retype(r)
    BY <2>10, RetypeKeeps
  <2>11. CASE Fail(r)
    BY <2>11, FailKeeps
  <2>12. CASE LeaveTyping(r)
    BY <2>12, LeaveTypingKeeps
  <2>13. CASE HandleError(r)
    BY <2>13, HandleErrorKeeps
  <2>14. CASE AfterRun(r)
    BY <2>14, AfterRunKeeps
  <2> QED BY <1>3, <2>1, <2>2, <2>3, <2>4, <2>5, <2>6, <2>7, <2>8, <2>9, <2>10, <2>11,
             <2>12, <2>13, <2>14 DEF Step
<1>4. ASSUME NEW r \in Runs, Cancel(r)
      PROVE  Keeps
  BY <1>4, CancelKeeps
<1> QED BY <1>1, <1>2, <1>3, <1>4 DEF Next

\* The invariant holds of every reachable state of Agent.run().
THEOREM Inductive == Spec => []IInv
<1>1. Init => IInv
  BY InitHolds
<1>2. IInv /\ [Next]_vars => IInv'
  BY NextKeeps DEF Keeps
<1> QED BY <1>1, <1>2, PTL DEF Spec

-----------------------------------------------------------------------------
(* Induction over the natural numbers and the existence of recursive        *)
(* functions, stated of sets and functions: a definition                    *)
(*    f[n \in 0..N] == IF n = 0 THEN a ELSE G(n, f[n - 1])                   *)
(* is a CHOOSE, and says something of f only once some f satisfies it.      *)

\* A set of numbers that is not empty has a least one.
LEMMA LeastNumber ==
  ASSUME NEW T, T \subseteq Nat, T # {}
  PROVE  \E m \in T : \A k \in T : m <= k
<1>1. PICK n \in T : TRUE
  OBVIOUS
<1>2. n \in Nat
  OBVIOUS
<1> DEFINE Up(k) == 0..k
           U == {Up(k) : k \in {j \in T : j <= n}}
           S == FiniteSubsetsOf(0..n)
           R == StrictSubsetOrdering(0..n)
<1>3. IsWellFoundedOn(R, S)
  BY FS_StrictSubsetOrderingWellFounded
<1>4. U \subseteq S
  <2> SUFFICES ASSUME NEW k \in T, k <= n PROVE Up(k) \in S
    OBVIOUS
  <2>1. k \in Nat
    OBVIOUS
  <2>2. Up(k) \subseteq 0..n
    BY <2>1, <1>2
  <2>3. IsFiniteSet(Up(k))
    BY <2>1, FS_Interval
  <2> QED BY <2>2, <2>3 DEF FiniteSubsetsOf
<1>5. U # {}
  BY <1>2
<1>6. PICK x \in U : \A y \in U : ~ (<<y, x>> \in R)
  <2> HIDE DEF R, S, U
  <2> QED BY <1>3, <1>4, <1>5, WFMin
<1>7. PICK m \in T : m <= n /\ x = Up(m)
  BY <1>6
<1>8. ASSUME NEW k \in T, k < m PROVE FALSE
  <2>1. k \in Nat /\ m \in Nat /\ k <= n
    BY <1>7, <1>8, <1>2
  <2>2. Up(k) \in U
    BY <2>1
  <2>3. Up(k) \subseteq 0..n /\ Up(m) \subseteq 0..n
    BY <2>1, <1>7, <1>2
  <2>4. Up(k) \subseteq Up(m) /\ m \in Up(m) /\ m \notin Up(k)
    BY <2>1, <1>8
  <2>5. <<Up(k), Up(m)>> \in R
    <3>1. Up(k) \in SUBSET (0..n) /\ Up(m) \in SUBSET (0..n) /\ Up(k) # Up(m)
      BY <2>3, <2>4
    <3> HIDE DEF Up
    <3> QED BY <2>4, <3>1 DEF StrictSubsetOrdering
  <2> QED BY <1>6, <1>7, <2>2, <2>5
<1> QED BY <1>8, <1>2

\* Induction up to N: a set that has 0 and with each number the next.
LEMMA Climb ==
  ASSUME NEW N \in Nat, NEW T, 0 \in T,
         \A n \in 1..N : n - 1 \in T => n \in T
  PROVE  0..N \subseteq T
<1> SUFFICES ASSUME ~ (0..N \subseteq T) PROVE FALSE
  OBVIOUS
<1> DEFINE Out == (0..N) \ T
<1>1. PICK m \in Out : \A k \in Out : m <= k
  <2>1. Out \subseteq Nat /\ Out # {}
    OBVIOUS
  <2> HIDE DEF Out
  <2> QED BY <2>1, LeastNumber
<1>2. m # 0 /\ m \in 1..N
  BY <1>1
<1>3. m - 1 \in 0..N /\ ~ (m <= m - 1)
  BY <1>2
<1>4. m - 1 \in T
  BY <1>1, <1>3
<1> QED BY <1>1, <1>2, <1>4

\* Induction over the values below: a set that has each number up to N whose
\* lesser numbers it has.
LEMMA StrongInduction ==
  ASSUME NEW N \in Nat, NEW T,
         \A n \in 0..N : (\A k \in 0..(n - 1) : k \in T) => n \in T
  PROVE  0..N \subseteq T
<1> SUFFICES ASSUME ~ (0..N \subseteq T) PROVE FALSE
  OBVIOUS
<1> DEFINE Out == (0..N) \ T
<1>1. PICK m \in Out : \A k \in Out : m <= k
  <2>1. Out \subseteq Nat /\ Out # {}
    OBVIOUS
  <2> HIDE DEF Out
  <2> QED BY <2>1, LeastNumber
<1>2. ASSUME NEW k \in 0..(m - 1) PROVE k \in T
  BY <1>1
<1> QED BY <1>1, <1>2

\* What a recursive definition on 0..N says: the value at 0, and how the value at n
\* comes from the one at prev[n], with values in S.
IsRecursion(N, S, prev, step) ==
  /\ prev \in [1..N -> Nat] /\ \A n \in 1..N : prev[n] < n
  /\ step \in [1..N -> [S -> S]]

Solves(f, N, a, prev, step) ==
  f[0] = a /\ \A n \in 1..N : f[n] = step[n][f[prev[n]]]

\* A function on 0..N whose value at n comes from an earlier one exists.
LEMMA RecursiveFunction ==
  ASSUME NEW N \in Nat, NEW S, NEW a \in S, NEW prev, NEW step, IsRecursion(N, S, prev, step)
  PROVE  \E f \in [0..N -> S] : Solves(f, N, a, prev, step)
<1> USE DEF IsRecursion
<1> DEFINE Upto(f, n) == f[0] = a /\ \A k \in 1..n : f[k] = step[k][f[prev[k]]]
           T == {n \in 0..N : \E f \in [0..n -> S] : Upto(f, n)}
<1>1. 0 \in T
  <2> DEFINE f == [k \in 0..0 |-> a]
  <2>1. f \in [0..0 -> S] /\ f[0] = a
    OBVIOUS
  <2>2. \A k \in 1..0 : f[k] = step[k][f[prev[k]]]
    OBVIOUS
  <2> HIDE DEF f
  <2> QED BY <2>1, <2>2
<1>2. ASSUME NEW n \in 1..N, n - 1 \in T PROVE n \in T
  <2>1. PICK f \in [0..(n - 1) -> S] : Upto(f, n - 1)
    BY <1>2
  <2> DEFINE g == [k \in 0..n |-> IF k = n THEN step[n][f[prev[n]]] ELSE f[k]]
  <2>2. prev[n] \in 0..(n - 1)
    OBVIOUS
  <2>3. step[n][f[prev[n]]] \in S
    BY <2>2
  <2>4. g \in [0..n -> S]
    <3> SUFFICES ASSUME NEW k \in 0..n PROVE g[k] \in S
      OBVIOUS
    <3>1. CASE k = n
      BY <3>1, <2>3
    <3>2. CASE k # n
      <4>1. k \in 0..(n - 1)
        BY <3>2
      <4> QED BY <4>1, <3>2
    <3> QED BY <3>1, <3>2
  <2>5. ASSUME NEW k \in 1..n PROVE g[k] = step[k][g[prev[k]]]
    <3>1. prev[k] \in 0..(k - 1) /\ prev[k] \in 0..(n - 1) /\ prev[k] # n
      <4>1. k \in 1..N
        OBVIOUS
      <4> QED BY <4>1
    <3>2. g[prev[k]] = f[prev[k]]
      BY <3>1
    <3>3. CASE k = n
      BY <3>2, <3>3
    <3>4. CASE k # n
      <4>1. k \in 1..(n - 1)
        BY <3>4
      <4> QED BY <4>1, <3>4, <3>2, <2>1
    <3> QED BY <3>3, <3>4
  <2>6. g[0] = a
    BY <2>1
  <2> HIDE DEF g
  <2>7. Upto(g, n)
    BY <2>5, <2>6
  <2> HIDE DEF Upto
  <2> QED BY <2>4, <2>7
<1>3. N \in T
  <2> HIDE DEF T
  <2>1. \A n \in 1..N : n - 1 \in T => n \in T
    BY <1>2
  <2>2. 0..N \subseteq T
    BY <1>1, <2>1, Climb
  <2> QED BY <2>2
<1> QED BY <1>3 DEF Solves

-----------------------------------------------------------------------------
(* The dialog of an item                                                   *)

\* The branch of an item is the branch of the one it continues and the item.
BranchLaw ==
  /\ Branch(NoItem) = <<>>
  /\ \A i \in 0..Len(store) : Branch(i) \in Seq(DOMAIN store)
  /\ \A i \in DOMAIN store, p \in 0..Len(store) :
       p = store[i].prev => Branch(i) = Append(Branch(p), i)

\* get_branch() walks from an item to the root.
LEMMA BranchFacts == Types => BranchLaw
<1> SUFFICES ASSUME Types PROVE BranchLaw
  OBVIOUS
<1> DEFINE N == Len(store)
           S == Seq(DOMAIN store)
           prev == [n \in 1..N |-> store[n].prev]
           step == [n \in 1..N |-> [x \in S |-> Append(x, n)]]
           Value(d, n) == IF n = NoItem THEN <<>> ELSE Append(d[store[n].prev], n)
           branch == CHOOSE d : d = [n \in 0..N |-> Value(d, n)]
<1>1. /\ N \in Nat /\ DOMAIN store = 1..N /\ <<>> \in S
      /\ \A n \in 1..N : store[n].prev \in 0..(n - 1)
  BY DEF Types
<1>2. \A n \in 1..N, x \in S : Append(x, n) \in S
  BY <1>1
<1>3. IsRecursion(N, S, prev, step)
  <2>1. prev \in [1..N -> Nat] /\ \A n \in 1..N : prev[n] < n
    BY <1>1
  <2> HIDE DEF prev, S, N
  <2>2. step \in [1..N -> [S -> S]]
    BY <1>2
  <2> HIDE DEF step
  <2> QED BY <2>1, <2>2 DEF IsRecursion
<1>4. PICK d \in [0..N -> S] : d[0] = <<>> /\ \A n \in 1..N : d[n] = step[n][d[prev[n]]]
  <2> HIDE DEF step, prev, S, N
  <2>1. \E d \in [0..N -> S] : Solves(d, N, <<>>, prev, step)
    BY <1>1, <1>3, RecursiveFunction
  <2> QED BY <2>1 DEF Solves
<1> HIDE DEF S
<1>5. ASSUME NEW n \in 1..N PROVE d[n] = Append(d[store[n].prev], n)
  <2>1. store[n].prev \in 0..N /\ prev[n] = store[n].prev
    BY <1>1
  <2>2. d[prev[n]] \in S
    BY <2>1, <1>4
  <2>3. step[n][d[prev[n]]] = Append(d[prev[n]], n)
    BY <2>2
  <2> HIDE DEF step, prev
  <2> QED BY <1>4, <2>1, <2>3
<1>6. d = [n \in 0..N |-> Value(d, n)]
  <2> SUFFICES ASSUME NEW n \in 0..N PROVE d[n] = Value(d, n)
    BY <1>4
  <2>1. CASE n = 0
    BY <1>4, <2>1 DEF NoItem
  <2>2. CASE n # 0
    <3>1. n \in 1..N
      BY <2>2, <1>1
    <3> QED BY <1>5, <2>2, <3>1 DEF NoItem
  <2> QED BY <2>1, <2>2
<1>7. branch = [n \in 0..N |-> Value(branch, n)]
  <2> HIDE DEF Value
  <2> QED BY <1>6
<1>8. ASSUME NEW i PROVE Branch(i) = branch[i]
  BY DEF Branch
<1> HIDE DEF branch
<1>9. branch[0] = <<>>
  <2>1. 0 \in 0..N /\ Value(branch, 0) = <<>>
    BY <1>1 DEF NoItem
  <2> HIDE DEF Value
  <2> QED BY <1>7, <2>1
<1>10. ASSUME NEW n \in 1..N PROVE branch[n] = Append(branch[store[n].prev], n)
  <2>1. n \in 0..N /\ Value(branch, n) = Append(branch[store[n].prev], n)
    BY <1>1 DEF NoItem
  <2> HIDE DEF Value
  <2> QED BY <1>7, <2>1
<1> DEFINE T == {n \in 0..N : branch[n] \in S}
<1>11. ASSUME NEW n \in 0..N, \A k \in 0..(n - 1) : k \in T PROVE n \in T
  <2>1. CASE n = 0
    BY <1>1, <1>9, <2>1
  <2>2. CASE n # 0
    <3>1. n \in 1..N /\ branch[store[n].prev] \in S
      BY <1>1, <1>11, <2>2
    <3> QED BY <1>2, <1>10, <3>1
  <2> QED BY <2>1, <2>2
<1>12. \A n \in 0..N : branch[n] \in S
  <2> HIDE DEF T, N
  <2>1. 0..N \subseteq T
    BY <1>1, <1>11, StrongInduction
  <2> QED BY <2>1 DEF T
<1> QED BY <1>1, <1>8, <1>9, <1>10, <1>12 DEF BranchLaw, S, NoItem

\* The branches there are do not change when an item is stored.
LEMMA BranchKept ==
  ASSUME Types, Types', Len(store) <= Len(store'), \A i \in DOMAIN store : store'[i] = store[i]
  PROVE  \A i \in 0..Len(store) : Branch(i)' = Branch(i)
<1> DEFINE N == Len(store)
           T == {n \in 0..N : Branch(n)' = Branch(n)}
<1>1. /\ N \in Nat /\ DOMAIN store = 1..N /\ Len(store') \in Nat /\ DOMAIN store' = 1..Len(store')
      /\ \A n \in 1..N : store[n].prev \in 0..(n - 1) /\ n \in DOMAIN store'
  BY DEF Types
<1>2. BranchLaw /\ BranchLaw'
  <2>1. BranchLaw
    BY BranchFacts
  <2>2. BranchLaw'
    BY BranchFacts, PTL
  <2> QED BY <2>1, <2>2
<1>3. ASSUME NEW n \in 0..N, \A k \in 0..(n - 1) : k \in T PROVE n \in T
  <2>1. CASE n = 0
    BY <1>2, <2>1 DEF BranchLaw, NoItem
  <2>2. CASE n # 0
    <3>1. PICK p \in 0..(n - 1) : p = store[n].prev
      BY <1>1, <2>2
    <3>2. /\ n \in DOMAIN store /\ n \in DOMAIN store' /\ store'[n].prev = p
          /\ p \in 0..N /\ p \in 0..Len(store') /\ p \in T
      BY <1>1, <1>3, <2>2, <3>1
    <3>3. Branch(n) = Append(Branch(p), n) /\ Branch(n)' = Append(Branch(p)', n)
      BY <1>2, <3>1, <3>2 DEF BranchLaw
    <3> QED BY <3>2, <3>3
  <2> QED BY <2>1, <2>2
<1>4. 0..N \subseteq T
  <2> HIDE DEF T, N
  <2> QED BY <1>1, <1>3, StrongInduction
<1> QED BY <1>4

\* What the loop of _load_dialog() has kept of the first n items is f[n].
Keeping(f, dialog) ==
  /\ f[0] = <<>>
  /\ \A n \in 1..Len(dialog) :
       f[n] = IF Orphan(dialog, n) THEN f[n - 1] ELSE Append(f[n - 1], dialog[n])

\* KnownResults is what that loop has kept at the end.
LEMMA KeepingFacts ==
  ASSUME NEW S, NEW dialog \in Seq(S)
  PROVE  \E f \in [0..Len(dialog) -> Seq(S)] :
           Keeping(f, dialog) /\ KnownResults(dialog) = f[Len(dialog)]
<1> DEFINE N == Len(dialog)
           prev == [n \in 1..N |-> n - 1]
           step == [n \in 1..N |-> [x \in Seq(S) |->
                      IF Orphan(dialog, n) THEN x ELSE Append(x, dialog[n])]]
           Value(d, n) == IF n = 0 THEN <<>>
                          ELSE IF Orphan(dialog, n) THEN d[n - 1] ELSE Append(d[n - 1], dialog[n])
           known == CHOOSE d : d = [n \in 0..N |-> Value(d, n)]
<1>1. N \in Nat /\ DOMAIN dialog = 1..N /\ <<>> \in Seq(S) /\ \A n \in 1..N : dialog[n] \in S
  OBVIOUS
<1>2. IsRecursion(N, Seq(S), prev, step)
  <2>1. prev \in [1..N -> Nat] /\ \A n \in 1..N : prev[n] < n
    BY <1>1
  <2>2. ASSUME NEW n \in 1..N, NEW x \in Seq(S)
        PROVE  (IF Orphan(dialog, n) THEN x ELSE Append(x, dialog[n])) \in Seq(S)
    BY <1>1
  <2> HIDE DEF prev, N
  <2>3. step \in [1..N -> [Seq(S) -> Seq(S)]]
    BY <2>2
  <2> HIDE DEF step
  <2> QED BY <2>1, <2>3 DEF IsRecursion
<1>3. PICK f \in [0..N -> Seq(S)] : f[0] = <<>> /\ \A n \in 1..N : f[n] = step[n][f[prev[n]]]
  <2> HIDE DEF step, prev, N
  <2>1. \E d \in [0..N -> Seq(S)] : Solves(d, N, <<>>, prev, step)
    BY <1>1, <1>2, RecursiveFunction
  <2> QED BY <2>1 DEF Solves
<1>4. ASSUME NEW n \in 1..N
      PROVE  f[n] = IF Orphan(dialog, n) THEN f[n - 1] ELSE Append(f[n - 1], dialog[n])
  <2>1. n - 1 \in 0..N /\ prev[n] = n - 1
    BY <1>1
  <2>2. f[n - 1] \in Seq(S)
    BY <2>1, <1>3
  <2>3. step[n][f[n - 1]] = IF Orphan(dialog, n) THEN f[n - 1] ELSE Append(f[n - 1], dialog[n])
    BY <2>2
  <2> HIDE DEF step, prev
  <2> QED BY <1>3, <2>1, <2>3
<1>5. f = [n \in 0..N |-> Value(f, n)]
  <2> SUFFICES ASSUME NEW n \in 0..N PROVE f[n] = Value(f, n)
    BY <1>3
  <2>1. CASE n = 0
    BY <1>3, <2>1
  <2>2. CASE n # 0
    <3>1. n \in 1..N
      BY <2>2, <1>1
    <3> QED BY <1>4, <2>2, <3>1
  <2> QED BY <2>1, <2>2
<1>6. known = [n \in 0..N |-> Value(known, n)]
  <2> HIDE DEF Value
  <2> QED BY <1>5
<1>7. KnownResults(dialog) = known[N]
  BY DEF KnownResults
<1> HIDE DEF known
<1>8. known[0] = <<>>
  <2>1. 0 \in 0..N /\ Value(known, 0) = <<>>
    BY <1>1
  <2> HIDE DEF Value
  <2> QED BY <1>6, <2>1
<1>9. ASSUME NEW n \in 1..N
      PROVE  /\ known[n] = IF Orphan(dialog, n) THEN known[n - 1] ELSE Append(known[n - 1], dialog[n])
             /\ n \in 0..N /\ n - 1 \in 0..N
  <2>1. /\ n \in 0..N /\ n # 0 /\ n - 1 \in 0..N
        /\ Value(known, n) = IF Orphan(dialog, n) THEN known[n - 1] ELSE Append(known[n - 1], dialog[n])
    BY <1>1
  <2> HIDE DEF Value
  <2> QED BY <1>6, <2>1
<1> DEFINE T == {n \in 0..N : known[n] = f[n]}
<1>10. N \in T
  <2>1. 0 \in T
    BY <1>1, <1>3, <1>8
  <2>2. \A n \in 1..N : n - 1 \in T => n \in T
    BY <1>4, <1>9
  <2> HIDE DEF T, N
  <2>3. 0..N \subseteq T
    BY <1>1, <2>1, <2>2, Climb
  <2> QED BY <1>1, <2>3
<1> QED BY <1>3, <1>4, <1>7, <1>10 DEF Keeping

\* An item behind a dialog is kept unless it is an orphan.
LEMMA KnownFacts ==
  ASSUME NEW S, NEW dialog \in Seq(S), NEW item \in S
  PROVE  /\ KnownResults(<<>>) = <<>>
         /\ KnownResults(dialog) \in Seq(S)
         /\ KnownResults(Append(dialog, item)) =
              IF /\ item.type = "result"
                 /\ \A m \in DOMAIN dialog : dialog[m].type = "call" => dialog[m].call # item.call
              THEN KnownResults(dialog) ELSE Append(KnownResults(dialog), item)
<1> DEFINE N == Len(dialog)
           longer == Append(dialog, item)
<1>1. KnownResults(<<>>) = <<>>
  <2> DEFINE none == <<>>
  <2>1. none \in Seq(S) /\ Len(none) = 0
    OBVIOUS
  <2> HIDE DEF none
  <2>2. PICK f \in [0..Len(none) -> Seq(S)] : Keeping(f, none) /\ KnownResults(none) = f[Len(none)]
    BY <2>1, KeepingFacts
  <2>3. f[0] = <<>>
    BY <2>2 DEF Keeping
  <2> QED BY <2>1, <2>2, <2>3 DEF none
<1>2. PICK f \in [0..N -> Seq(S)] : Keeping(f, dialog) /\ KnownResults(dialog) = f[N]
  BY KeepingFacts
<1>3. /\ longer \in Seq(S) /\ Len(longer) = N + 1 /\ N \in Nat /\ longer[N + 1] = item
      /\ DOMAIN dialog = 1..N /\ DOMAIN longer = 1..(N + 1)
      /\ \A i \in DOMAIN dialog : longer[i] = dialog[i]
  BY OneMore
<1> HIDE DEF longer
<1>4. PICK g \in [0..(N + 1) -> Seq(S)] : Keeping(g, longer) /\ KnownResults(longer) = g[N + 1]
  BY <1>3, KeepingFacts
<1>5. ASSUME NEW n \in 1..N PROVE Orphan(longer, n) <=> Orphan(dialog, n)
  <2>1. n \in 1..n /\ \A m \in 1..n : m \in DOMAIN dialog
    BY <1>3
  <2>2. longer[n] = dialog[n] /\ \A m \in 1..(n - 1) : longer[m] = dialog[m]
    <3>1. \A m \in 1..(n - 1) : m \in DOMAIN dialog
      BY <1>3
    <3> QED BY <1>3, <2>1, <3>1
  <2> QED BY <2>2, Zenon DEF Orphan
<1>6. Orphan(longer, N + 1) <=>
        /\ item.type = "result"
        /\ \A m \in DOMAIN dialog : dialog[m].type = "call" => dialog[m].call # item.call
  <2>1. 1..((N + 1) - 1) = DOMAIN dialog
    BY <1>3
  <2>2. longer[N + 1] = item /\ \A m \in DOMAIN dialog : longer[m] = dialog[m]
    BY <1>3
  <2> QED BY <2>1, <2>2, Zenon DEF Orphan
<1> DEFINE T == {n \in 0..N : g[n] = f[n]}
<1>7. N \in T
  <2>1. 0 \in T
    BY <1>2, <1>3, <1>4 DEF Keeping
  <2>2. ASSUME NEW n \in 1..N, n - 1 \in T PROVE n \in T
    <3>1. n \in 1..Len(longer) /\ n \in 0..N /\ longer[n] = dialog[n]
      BY <1>3
    <3>2. /\ g[n] = IF Orphan(longer, n) THEN g[n - 1] ELSE Append(g[n - 1], longer[n])
          /\ f[n] = IF Orphan(dialog, n) THEN f[n - 1] ELSE Append(f[n - 1], dialog[n])
      BY <1>2, <1>4, <3>1 DEF Keeping
    <3> QED BY <1>5, <2>2, <3>1, <3>2
  <2> HIDE DEF T, N
  <2>3. 0..N \subseteq T
    BY <1>3, <2>1, <2>2, Climb
  <2> QED BY <1>3, <2>3
<1>8. g[N + 1] = IF Orphan(longer, N + 1) THEN g[N] ELSE Append(g[N], item)
  <2>1. N + 1 \in 1..Len(longer) /\ (N + 1) - 1 = N
    BY <1>3
  <2> QED BY <1>3, <1>4, <2>1 DEF Keeping
<1>9. KnownResults(dialog) \in Seq(S)
  <2> HIDE DEF T, N
  <2>1. N \in 0..N
    BY <1>3
  <2> QED BY <1>2, <2>1
<1> QED BY <1>1, <1>2, <1>4, <1>6, <1>7, <1>8, <1>9 DEF longer

\* What _load_dialog() makes of the branch of an item.
Past(i) == KnownResults(Items(Branch(i)))

\* A branch has the tool call.
InBranch(c, i) ==
  \E m \in DOMAIN Branch(i) : store[Branch(i)[m]].type = "call" /\ store[Branch(i)[m]].call = c

\* The items of a branch, and of one that is one item longer.
LEMMA ItemsFacts ==
  ASSUME Types, NEW ids \in Seq(DOMAIN store), NEW i \in DOMAIN store
  PROVE  /\ Items(ids) \in Seq(StoredItems)
         /\ Items(Append(ids, i)) = Append(Items(ids), store[i])
<1>1. store[i] \in StoredItems /\ \A n \in DOMAIN ids : store[ids[n]] \in StoredItems
  BY DEF Types
<1>2. Len(ids) \in Nat /\ DOMAIN ids = 1..Len(ids)
  OBVIOUS
<1>3. Items(ids) \in Seq(StoredItems) /\ Len(Items(ids)) = Len(ids)
  BY <1>1, <1>2 DEF Items
<1>4. Items(Append(ids, i)) = Append(Items(ids), store[i])
  <2> DEFINE longer == Append(ids, i)
  <2>1. /\ DOMAIN longer = 1..(Len(ids) + 1) /\ longer[Len(ids) + 1] = i
        /\ \A n \in 1..Len(ids) : longer[n] = ids[n]
    OBVIOUS
  <2> HIDE DEF longer
  <2> DEFINE items == Append(Items(ids), store[i])
  <2>2. /\ items \in Seq(StoredItems) /\ Len(items) = Len(ids) + 1
        /\ items[Len(ids) + 1] = store[i] /\ \A n \in 1..Len(ids) : items[n] = Items(ids)[n]
    BY <1>1, <1>2, <1>3, OneMore
  <2> HIDE DEF items
  <2>3. DOMAIN Items(longer) = 1..(Len(ids) + 1) /\ DOMAIN items = 1..(Len(ids) + 1)
    BY <1>2, <2>1, <2>2 DEF Items
  <2>4. ASSUME NEW n \in 1..(Len(ids) + 1)
        PROVE  Items(longer)[n] = items[n] /\ items[n] \in StoredItems
    <3>1. n = Len(ids) + 1 \/ n \in 1..Len(ids)
      BY <1>2
    <3> QED BY <1>1, <1>2, <2>1, <2>2, <3>1 DEF Items
  <2>5. Items(longer) \in Seq(StoredItems) /\ Len(Items(longer)) = Len(ids) + 1
    <3>1. Items(longer) = [n \in 1..(Len(ids) + 1) |-> store[longer[n]]]
      BY <2>1 DEF Items
    <3>2. \A n \in 1..(Len(ids) + 1) : store[longer[n]] \in StoredItems
      BY <2>1, <2>4 DEF Items
    <3> QED BY <1>2, <3>1, <3>2
  <2> QED BY <2>2, <2>4, <2>5, SeqEqual DEF longer, items
<1> QED BY <1>3, <1>4

PastLaw ==
  /\ Past(NoItem) = <<>>
  /\ \A i \in 0..Len(store) : Past(i) \in Seq(StoredItems)
  /\ \A i \in DOMAIN store, p \in 0..Len(store) : p = store[i].prev =>
       /\ Past(i) = IF store[i].type = "result" /\ ~ InBranch(store[i].call, p)
                    THEN Past(p) ELSE Append(Past(p), store[i])
       /\ \A c : InBranch(c, i) <=>
            InBranch(c, p) \/ (store[i].type = "call" /\ store[i].call = c)

\* The dialog of an item is the one of the item it continues and, unless it is a result
\* whose call is not there, the item.
LEMMA PastFacts == Types => PastLaw
<1> SUFFICES ASSUME Types PROVE PastLaw
  OBVIOUS
<1>1. BranchLaw /\ Len(store) \in Nat /\ DOMAIN store = 1..Len(store)
  BY BranchFacts DEF Types
<1>2. Past(NoItem) = <<>>
  <2>1. Items(<<>>) = <<>>
    BY DEF Items
  <2>2. KnownResults(<<>>) = <<>>
    <3>1. <<>> \in Seq({1})
      OBVIOUS
    <3> QED BY <3>1, KnownFacts
  <2> QED BY <1>1, <2>1, <2>2 DEF Past, BranchLaw
<1>3. ASSUME NEW i \in 0..Len(store) PROVE Past(i) \in Seq(StoredItems)
  <2>1. CASE i = 0
    <3>1. Past(i) = <<>>
      BY <1>2, <2>1 DEF NoItem
    <3> QED BY <3>1
  <2>2. CASE i # 0
    <3>1. i \in DOMAIN store /\ Branch(i) \in Seq(DOMAIN store)
      BY <1>1, <2>2 DEF BranchLaw
    <3>2. Items(Branch(i)) \in Seq(StoredItems) /\ store[i] \in StoredItems
      BY <3>1, ItemsFacts DEF Types
    <3> QED BY <3>2, KnownFacts DEF Past
  <2> QED BY <2>1, <2>2
<1>4. ASSUME NEW i \in DOMAIN store, NEW p \in 0..Len(store), p = store[i].prev
      PROVE  /\ Past(i) = IF store[i].type = "result" /\ ~ InBranch(store[i].call, p)
                          THEN Past(p) ELSE Append(Past(p), store[i])
             /\ \A c : InBranch(c, i) <=>
                  InBranch(c, p) \/ (store[i].type = "call" /\ store[i].call = c)
  <2> DEFINE ids == Branch(p)
             dialog == Items(ids)
             N == Len(ids)
  <2>1. Branch(i) = Append(ids, i) /\ ids \in Seq(DOMAIN store) /\ store[i] \in StoredItems
    BY <1>1, <1>4 DEF BranchLaw, Types
  <2> HIDE DEF ids
  <2>2. /\ N \in Nat /\ DOMAIN ids = 1..N /\ DOMAIN Branch(i) = 1..(N + 1) /\ Branch(i)[N + 1] = i
        /\ \A n \in 1..N : Branch(i)[n] = ids[n]
    BY <2>1, OneMore
  <2>3. dialog \in Seq(StoredItems) /\ Items(Branch(i)) = Append(dialog, store[i])
    BY <2>1, ItemsFacts
  <2>4. DOMAIN dialog = DOMAIN ids /\ \A m \in DOMAIN ids : dialog[m] = store[ids[m]]
    BY DEF Items
  <2> HIDE DEF dialog
  <2>5. InBranch(store[i].call, p) <=>
          \E m \in DOMAIN dialog : dialog[m].type = "call" /\ dialog[m].call = store[i].call
    BY <2>4 DEF InBranch, ids
  <2>6. KnownResults(Append(dialog, store[i])) =
          IF /\ store[i].type = "result"
             /\ \A m \in DOMAIN dialog : dialog[m].type = "call" => dialog[m].call # store[i].call
          THEN KnownResults(dialog) ELSE Append(KnownResults(dialog), store[i])
    BY <2>1, <2>3, KnownFacts
  <2>7. Past(p) = KnownResults(dialog) /\ Past(i) = KnownResults(Append(dialog, store[i]))
    BY <2>3 DEF Past, dialog, ids
  <2>8. ASSUME NEW c
        PROVE  InBranch(c, i) <=> InBranch(c, p) \/ (store[i].type = "call" /\ store[i].call = c)
    <3>1. InBranch(c, p) <=> \E m \in 1..N : store[ids[m]].type = "call" /\ store[ids[m]].call = c
      BY <2>2 DEF InBranch, ids
    <3>2. InBranch(c, i) <=>
            \E m \in 1..(N + 1) : store[Branch(i)[m]].type = "call" /\ store[Branch(i)[m]].call = c
      BY <2>2 DEF InBranch
    <3>3. 1..(N + 1) = 1..N \cup {N + 1}
      BY <2>2
    <3> QED BY <2>2, <3>1, <3>2, <3>3
  <2> QED BY <2>5, <2>6, <2>7, <2>8
<1> QED BY <1>2, <1>3, <1>4 DEF PastLaw

\* What a dialog holds is stored.
LEMMA PastIsStored ==
  Types => \A i \in 0..Len(store) : \A m \in DOMAIN Past(i) : \E j \in DOMAIN store : Past(i)[m] = store[j]
<1> HAVE Types
<1> DEFINE N == Len(store)
           Fine(i) == \A m \in DOMAIN Past(i) : \E j \in DOMAIN store : Past(i)[m] = store[j]
           T == {i \in 0..N : Fine(i)}
<1>1. /\ PastLaw /\ N \in Nat /\ DOMAIN store = 1..N
      /\ \A n \in 1..N : store[n].prev \in 0..(n - 1) /\ store[n] \in StoredItems
  BY PastFacts DEF Types
<1>2. ASSUME NEW i \in 0..N, \A k \in 0..(i - 1) : k \in T PROVE i \in T
  <2>1. CASE i = 0
    <3>1. DOMAIN Past(i) = {}
      BY <1>1, <2>1, EmptySeq DEF PastLaw, NoItem
    <3> QED BY <3>1
  <2>2. CASE i # 0
    <3>1. PICK p \in 0..(i - 1) : p = store[i].prev
      BY <1>1, <2>2
    <3>2. p \in T /\ p \in 0..N /\ i \in DOMAIN store /\ Fine(p)
      BY <1>1, <1>2, <2>2, <3>1
    <3>3. Past(i) = Past(p) \/ Past(i) = Append(Past(p), store[i])
      BY <1>1, <3>1, <3>2 DEF PastLaw
    <3>4. CASE Past(i) = Past(p)
      BY <3>2, <3>4
    <3>5. CASE Past(i) = Append(Past(p), store[i])
      <4>1. Past(p) \in Seq(StoredItems) /\ store[i] \in StoredItems
        BY <1>1, <3>2 DEF PastLaw
      <4>2. /\ DOMAIN Past(p) = 1..Len(Past(p)) /\ DOMAIN Past(i) = 1..(Len(Past(p)) + 1)
            /\ Len(Past(p)) \in Nat /\ Past(i)[Len(Past(p)) + 1] = store[i]
            /\ \A m \in DOMAIN Past(p) : Past(i)[m] = Past(p)[m]
        BY <3>5, <4>1, OneMore
      <4>3. ASSUME NEW m \in DOMAIN Past(i) PROVE \E j \in DOMAIN store : Past(i)[m] = store[j]
        <5>1. m = Len(Past(p)) + 1 \/ m \in DOMAIN Past(p)
          BY <4>2
        <5> QED BY <3>2, <4>2, <5>1
      <4> QED BY <4>3
    <3> QED BY <3>3, <3>4, <3>5
  <2> QED BY <2>1, <2>2
<1> HIDE DEF T, N
<1>3. 0..N \subseteq T
  BY <1>1, <1>2, StrongInduction
<1> QED BY <1>3 DEF T, N

\* The dialogs there are do not change when an item is stored.
LEMMA PastKept ==
  ASSUME Types, Types', Len(store) <= Len(store'), \A i \in DOMAIN store : store'[i] = store[i],
         NEW i \in 0..Len(store)
  PROVE  Past(i)' = Past(i) /\ \A c : InBranch(c, i)' <=> InBranch(c, i)
<1>1. Branch(i)' = Branch(i) /\ Branch(i) \in Seq(DOMAIN store)
  BY BranchKept, BranchFacts DEF BranchLaw
<1>2. \A m \in DOMAIN Branch(i) : store'[Branch(i)[m]] = store[Branch(i)[m]]
  BY <1>1
<1>3. Items(Branch(i))' = Items(Branch(i))
  BY <1>1, <1>2 DEF Items
<1> QED BY <1>1, <1>2, <1>3 DEF Past, InBranch

-----------------------------------------------------------------------------
(* What the model sees: the invariant                                      *)

OutLine(item) == [type |-> item.type, call |-> item.call]

\* The outputs of the run in a dialog are the first n lines shown.
Ours(r, dialog) == {m \in DOMAIN dialog : dialog[m].by = r /\ dialog[m].type \in OutputTypes}
Holds(r, dialog, shown, n) ==
  /\ Cardinality(Ours(r, dialog)) = n
  /\ \A m \in Ours(r, dialog) :
       OutLine(dialog[m]) = shown[Cardinality({j \in Ours(r, dialog) : j <= m})]

\* The calls a result is still to come for.
Waiting(r) ==
  {run[r].calls[i] : i \in DOMAIN run[r].calls} \cup
  {run[r].todo[i].call : i \in {j \in DOMAIN run[r].todo : run[r].todo[j].type = "result"}}

\* How many of the lines it has shown a run at work has stored or remembered.
Told(r) == IF run[r].pc = "save" THEN Len(run[r].shown) - 1 ELSE Len(run[r].shown)

\* The dialog of a run at work holds what it has shown, but for the line in delivery; and
\* the branch has the calls, so that _load_dialog() will not drop their results.
Sees(r) ==
  /\ run[r].saved => run[r].memory = <<>>
  /\ run[r].pc \in {"input", "before"} => run[r].todo = <<>>
  /\ run[r].pc \in Body =>
       /\ Holds(r, Dialog(r), run[r].shown, Told(r))
       /\ run[r].saved => \A c \in Waiting(r) : InBranch(c, run[r].last)
  /\ run[r].pc = "save" => run[r].shown[Len(run[r].shown)] = OutLine(run[r].todo[1])

SInv == \A r \in Runs : Sees(r)

\* How a dialog gets an item.
LEMMA OursGrow ==
  ASSUME NEW r, NEW dialog \in Seq(StoredItems), NEW item \in StoredItems
  PROVE  /\ IsFiniteSet(Ours(r, dialog)) /\ Ours(r, dialog) \subseteq 1..Len(dialog)
         /\ Ours(r, Append(dialog, item)) =
              IF item.by = r /\ item.type \in OutputTypes
              THEN Ours(r, dialog) \cup {Len(dialog) + 1} ELSE Ours(r, dialog)
         /\ \A m \in Ours(r, dialog) : Append(dialog, item)[m] = dialog[m]
         /\ Append(dialog, item)[Len(dialog) + 1] = item /\ Len(dialog) \in Nat
<1> DEFINE longer == Append(dialog, item)
<1>1. /\ DOMAIN dialog = 1..Len(dialog) /\ DOMAIN longer = 1..(Len(dialog) + 1)
      /\ Len(dialog) \in Nat /\ longer[Len(dialog) + 1] = item
      /\ \A m \in DOMAIN dialog : longer[m] = dialog[m]
  BY OneMore
<1> HIDE DEF longer
<1>2. Ours(r, dialog) \subseteq 1..Len(dialog)
  BY <1>1 DEF Ours
<1>3. IsFiniteSet(Ours(r, dialog))
  <2>1. IsFiniteSet(1..Len(dialog))
    BY <1>1, FS_Interval
  <2> QED BY <1>2, <2>1, FS_Subset
<1>4. DOMAIN longer = DOMAIN dialog \cup {Len(dialog) + 1}
  BY <1>1
<1>5. Ours(r, longer) = IF item.by = r /\ item.type \in OutputTypes
                        THEN Ours(r, dialog) \cup {Len(dialog) + 1} ELSE Ours(r, dialog)
  BY <1>1, <1>4 DEF Ours
<1> QED BY <1>1, <1>2, <1>3, <1>5 DEF longer, Ours

\* A dialog with one item more: of another, or the next line of the run.
LEMMA HoldsMore ==
  ASSUME NEW r, NEW dialog \in Seq(StoredItems), NEW item \in StoredItems, NEW shown, NEW n \in Nat,
         Holds(r, dialog, shown, n)
  PROVE  /\ ~ (item.by = r /\ item.type \in OutputTypes) => Holds(r, Append(dialog, item), shown, n)
         /\ item.by = r /\ item.type \in OutputTypes /\ shown[n + 1] = OutLine(item) =>
              Holds(r, Append(dialog, item), shown, n + 1)
<1> DEFINE longer == Append(dialog, item)
           old == Ours(r, dialog)
           new == Ours(r, longer)
           last == Len(dialog) + 1
<1>1. /\ IsFiniteSet(old) /\ old \subseteq 1..Len(dialog)
      /\ new = IF item.by = r /\ item.type \in OutputTypes THEN old \cup {last} ELSE old
      /\ \A m \in old : longer[m] = dialog[m]
      /\ longer[last] = item /\ Len(dialog) \in Nat
  BY OursGrow
<1>2. /\ Cardinality(old) = n
      /\ \A m \in old : OutLine(dialog[m]) = shown[Cardinality({j \in old : j <= m})]
  BY DEF Holds
<1> HIDE DEF longer, old, new, last
<1>3. ASSUME ~ (item.by = r /\ item.type \in OutputTypes)
      PROVE  Holds(r, longer, shown, n)
  <2>1. new = old
    BY <1>1, <1>3
  <2> QED BY <1>1, <1>2, <2>1 DEF Holds, new, OutLine
<1>4. ASSUME item.by = r /\ item.type \in OutputTypes /\ shown[n + 1] = OutLine(item)
      PROVE  Holds(r, longer, shown, n + 1)
  <2>1. new = old \cup {last} /\ last \notin old
    BY <1>1, <1>4 DEF last
  <2>2. Cardinality(new) = n + 1
    BY <1>1, <1>2, <2>1, FS_AddElement
  <2>3. \A m \in old : {j \in new : j <= m} = {j \in old : j <= m}
    BY <1>1, <2>1 DEF last
  <2>4. {j \in new : j <= last} = new
    <3>1. \A j \in new : j <= last
      BY <1>1, <2>1 DEF last
    <3> QED BY <3>1
  <2>5. ASSUME NEW m \in new
        PROVE  OutLine(longer[m]) = shown[Cardinality({j \in new : j <= m})]
    <3>1. CASE m = last
      BY <1>1, <1>4, <2>2, <2>4, <3>1
    <3>2. CASE m # last
      <4>1. m \in old
        BY <2>1, <3>2
      <4> QED BY <1>1, <1>2, <2>3, <4>1 DEF OutLine
    <3> QED BY <3>1, <3>2
  <2> QED BY <2>2, <2>5 DEF Holds, new
<1> QED BY <1>3, <1>4 DEF longer

\* What is shown later changes nothing of what was.
LEMMA HoldsStill ==
  ASSUME NEW r, NEW dialog \in Seq(StoredItems), NEW shown, NEW n \in Nat,
         Holds(r, dialog, shown, n), NEW more, \A i \in 1..n : more[i] = shown[i]
  PROVE  Holds(r, dialog, more, n)
<1> DEFINE own == Ours(r, dialog)
           Upto(m) == {j \in own : j <= m}
<1>1. IsFiniteSet(own) /\ own \subseteq 1..Len(dialog) /\ Len(dialog) \in Nat
  <2>1. DOMAIN dialog = 1..Len(dialog) /\ Len(dialog) \in Nat
    OBVIOUS
  <2>2. own \subseteq 1..Len(dialog)
    BY <2>1 DEF Ours
  <2> HIDE DEF own
  <2>3. IsFiniteSet(1..Len(dialog))
    BY <2>1, FS_Interval
  <2> QED BY <2>1, <2>2, <2>3, FS_Subset
<1>2. ASSUME NEW m \in own PROVE Cardinality(Upto(m)) \in 1..n
  <2>1. Upto(m) \subseteq own /\ m \in Upto(m)
    BY <1>1
  <2>2. Cardinality(own) = n
    BY DEF Holds
  <2> HIDE DEF Upto, own
  <2>3. /\ IsFiniteSet(Upto(m)) /\ Cardinality(Upto(m)) \in Nat /\ Cardinality(Upto(m)) <= n
        /\ Cardinality(Upto(m)) # 0
    BY <1>1, <2>1, <2>2, FS_Subset, FS_CardinalityType, FS_EmptySet
  <2> QED BY <2>3
<1>3. /\ Cardinality(own) = n
      /\ \A m \in own : OutLine(dialog[m]) = shown[Cardinality(Upto(m))]
  BY DEF Holds
<1>4. \A m \in own : OutLine(dialog[m]) = more[Cardinality(Upto(m))]
  <2> HIDE DEF own, Upto
  <2> QED BY <1>2, <1>3
<1> QED BY <1>3, <1>4 DEF Holds

\* A dialog without outputs of the run.
LEMMA HoldsNothing ==
  ASSUME NEW r, NEW dialog, NEW shown,
         \A m \in DOMAIN dialog : ~ (dialog[m].by = r /\ dialog[m].type \in OutputTypes)
  PROVE  Holds(r, dialog, shown, 0)
<1>1. Ours(r, dialog) = {}
  BY DEF Ours
<1> QED BY <1>1, FS_EmptySet DEF Holds

\* The dialog of a run, and what it is with one item more.
LEMMA DialogFacts ==
  ASSUME IInv, NEW r \in Runs
  PROVE  /\ run[r].last \in 0..Len(store) /\ run[r].memory \in Seq(StoredItems)
         /\ Past(run[r].last) \in Seq(StoredItems)
         /\ Dialog(r) = Past(run[r].last) \o run[r].memory
         /\ Dialog(r) \in Seq(StoredItems)
         /\ run[r].memory = <<>> => Dialog(r) = Past(run[r].last)
<1>1. Types /\ RunInv(r) /\ run[r] \in Contexts
  BY Context
<1>2. PastLaw /\ run[r].last \in 0..Len(store) /\ run[r].memory \in Seq(StoredItems)
  BY <1>1, PastFacts DEF RunInv, PointsAtItems, Contexts
<1>3. Past(run[r].last) \in Seq(StoredItems)
  BY <1>2 DEF PastLaw
<1>4. Dialog(r) = Past(run[r].last) \o run[r].memory
  BY DEF Dialog, Past
<1>5. ASSUME NEW past \in Seq(StoredItems), NEW memory \in Seq(StoredItems)
      PROVE  past \o memory \in Seq(StoredItems) /\ (memory = <<>> => past \o memory = past)
  OBVIOUS
<1> QED BY <1>2, <1>3, <1>4, <1>5

\* An item behind the second of two sequences is behind both.
LEMMA ConcatMore ==
  ASSUME NEW S, NEW s \in Seq(S), NEW t \in Seq(S), NEW e \in S
  PROVE  s \o Append(t, e) = Append(s \o t, e)
<1> DEFINE a == s \o Append(t, e)
           b == Append(s \o t, e)
<1>1. a \in Seq(S) /\ b \in Seq(S) /\ Len(a) = Len(s) + Len(t) + 1 /\ Len(b) = Len(a)
  OBVIOUS
<1>2. \A i \in 1..Len(a) : a[i] = b[i]
  OBVIOUS
<1> QED BY <1>1, <1>2, SeqEqual

-----------------------------------------------------------------------------
(* What the model sees: the steps                                          *)

\* No step takes an item out of the storage or changes one.
Grows == store' = store \/ \E item : store' = Append(store, item)

\* The dialog and the calls of a branch outlast every step.
LEMMA PastStays ==
  ASSUME IInv, IInv', Grows, NEW i \in 0..Len(store)
  PROVE  Past(i)' = Past(i) /\ \A c : InBranch(c, i)' <=> InBranch(c, i)
<1>1. Types /\ Types' /\ Len(store) \in Nat /\ store \in Seq(StoredItems)
  BY DEF IInv, Types
<1>2. Len(store) <= Len(store') /\ \A j \in DOMAIN store : store'[j] = store[j]
  <2>1. CASE store' = store
    BY <1>1, <2>1
  <2>2. ASSUME NEW item, store' = Append(store, item)
        PROVE  Len(store) <= Len(store') /\ \A j \in DOMAIN store : store'[j] = store[j]
    <3>1. store \in Seq(StoredItems \cup {item}) /\ item \in StoredItems \cup {item}
      BY <1>1
    <3> QED BY <1>1, <2>2, <3>1, OneMore
  <2> QED BY <2>1, <2>2 DEF Grows
<1> QED BY <1>1, <1>2, PastKept

\* While a run stores and remembers nothing its dialog stays as it is.
LEMMA DialogStays ==
  ASSUME IInv, IInv', Grows, NEW r \in Runs,
         run'[r].last = run[r].last, run'[r].memory = run[r].memory
  PROVE  /\ Dialog(r)' = Dialog(r)
         /\ \A c : InBranch(c, run[r].last)' <=> InBranch(c, run[r].last)
<1> DEFINE i == run[r].last
<1>1. i \in 0..Len(store)
  BY Context DEF RunInv, PointsAtItems
<1>2. i' = i
  OBVIOUS
<1> HIDE DEF i
<1>3. PICK n \in 0..Len(store) : n = i
  BY <1>1
<1>4. Past(n)' = Past(n) /\ \A c : InBranch(c, n)' <=> InBranch(c, n)
  BY PastStays
<1>5. Dialog(r) = Past(n) \o run[r].memory /\ Dialog(r)' = Past(n)' \o run'[r].memory
  BY <1>2, <1>3 DEF Dialog, Past, i
<1>6. \A c : /\ InBranch(c, run[r].last) <=> InBranch(c, n)
             /\ InBranch(c, run[r].last)' <=> InBranch(c, n)'
  BY <1>2, <1>3 DEF InBranch, i
<1> QED BY <1>4, <1>5, <1>6

\* What other runs do.
LEMMA OthersSee ==
  ASSUME IInv, IInv', Grows, NEW r \in Runs, run'[r] = run[r], Sees(r)
  PROVE  Sees(r)'
<1>1. /\ Dialog(r)' = Dialog(r)
      /\ \A c : InBranch(c, run[r].last)' <=> InBranch(c, run[r].last)
  BY DialogStays
<1>2. Waiting(r)' = Waiting(r) /\ Told(r)' = Told(r)
  BY DEF Waiting, Told
<1>3. Holds(r, Dialog(r), run[r].shown, Told(r))' <=> Holds(r, Dialog(r), run[r].shown, Told(r))
  BY <1>1, <1>2 DEF Holds, Ours
<1> QED BY <1>1, <1>2, <1>3 DEF Sees

\* A run that comes to its end.
LEMMA EndSees ==
  ASSUME NEW r \in Runs, Sees(r), run'[r].saved = run[r].saved, run'[r].memory = run[r].memory,
         run'[r].pc \notin Body
  PROVE  Sees(r)'
<1>1. \A place \in {"input", "before", "save"} : place \in Body
  BY DEF Body, Loop
<1> QED BY <1>1 DEF Sees

\* A run at work that stores, remembers and shows nothing.
LEMMA WorkSees ==
  ASSUME IInv, IInv', Grows, NEW r \in Runs, Sees(r),
         run'[r].saved = run[r].saved, run'[r].memory = run[r].memory,
         run'[r].last = run[r].last, run'[r].shown = run[r].shown,
         run[r].pc \in Body, run[r].pc # "save", run'[r].pc # "save",
         run'[r].pc \in {"input", "before"} => run'[r].todo = <<>>,
         Waiting(r)' \subseteq Waiting(r)
  PROVE  Sees(r)'
<1>1. /\ Dialog(r)' = Dialog(r)
      /\ \A c : InBranch(c, run[r].last)' <=> InBranch(c, run[r].last)
  BY DialogStays
<1>2. Told(r)' = Told(r)
  BY DEF Told
<1>3. Holds(r, Dialog(r), run[r].shown, Told(r))' <=> Holds(r, Dialog(r), run[r].shown, Told(r))
  BY <1>1, <1>2 DEF Holds, Ours
<1> QED BY <1>1, <1>2, <1>3 DEF Sees

\* What a step leaves as it is.
SameDialog(r) ==
  /\ run'[r].saved = run[r].saved /\ run'[r].memory = run[r].memory
  /\ run'[r].last = run[r].last /\ run'[r].shown = run[r].shown

\* chain_state is no part of the dialog.
LEMMA RestoreChainSees ==
  ASSUME IInv, IInv', NEW r \in Runs, Sees(r), RestoreChain(r)
  PROVE  Sees(r)'
<1>1. run[r] = Record(run[r]) /\ run \in [Runs -> Contexts] /\ run[r].pc = "input"
  BY Context DEF RestoreChain, At
<1>2. /\ SameDialog(r) /\ run'[r].todo = run[r].todo /\ run'[r].calls = run[r].calls
      /\ run'[r].pc = "before"
  <2> DEFINE chain == IF run[r].last = NoItem THEN run[r].chain
                      ELSE Update(run[r].chain, store[run[r].last].chain)
  <2>1. run' = [run EXCEPT ![r].pc = "before", ![r].chain = chain]
    BY DEF RestoreChain
  <2> HIDE DEF chain
  <2> QED BY <1>1, <2>1 DEF Record, SameDialog
<1>3. Waiting(r)' = Waiting(r) /\ Grows
  BY <1>2 DEF Waiting, Grows, RestoreChain
<1>4. run[r].pc \in Body
  BY <1>1 DEF Body
<1> QED BY <1>1, <1>2, <1>3, <1>4, WorkSees DEF SameDialog, Sees

\* Nothing of the run is shown or stored before the loop.
LEMMA BeforeRunSees ==
  ASSUME IInv, IInv', NEW r \in Runs, Sees(r), BeforeRun(r)
  PROVE  Sees(r)'
<1>1. run[r] = Record(run[r]) /\ run \in [Runs -> Contexts] /\ run[r].pc = "before" /\ Grows
  BY Context DEF BeforeRun, At, Grows
<1>2. CASE run' = [run EXCEPT ![r].outcome = "returned", ![r].pc = "final"]
  <2>1. SameDialog(r) /\ run'[r].pc = "final"
    BY <1>1, <1>2 DEF Record, SameDialog
  <2> QED BY <2>1, EndSees DEF SameDialog, Body, Loop
<1>3. ASSUME NEW c, run' = [run EXCEPT ![r].chain = c, ![r].typing = run[r].origin, ![r].pc = "ask"]
      PROVE  Sees(r)'
  <2>1. /\ SameDialog(r) /\ run'[r].todo = run[r].todo /\ run'[r].calls = run[r].calls
        /\ run'[r].pc = "ask"
    BY <1>1, <1>3 DEF Record, SameDialog
  <2>2. Waiting(r)' = Waiting(r) /\ run[r].pc \in Body
    BY <1>1, <2>1 DEF Waiting, Body
  <2> QED BY <1>1, <2>1, <2>2, WorkSees DEF SameDialog
<1> QED BY <1>2, <1>3 DEF BeforeRun

\* An answer of the model has no results, so none is waited for.
LEMMA AskModelSees ==
  ASSUME IInv, IInv', NEW r \in Runs, Sees(r), AskModel(r)
  PROVE  Sees(r)'
<1>1. /\ run[r] = Record(run[r]) /\ run \in [Runs -> Contexts] /\ run[r].pc = "ask" /\ Grows
      /\ run[r].asks \in Nat /\ run[r].asks < Len(Responses[r])
  BY Context DEF AskModel, At, Grows, Contexts
<1>2. PICK answer \in Responses[r][run[r].asks + 1] :
        LET texts == Count(answer, "text")
            calls == Count(answer, "call")
            text == [n \in 1..texts |-> Output("text", <<>>, run[r].origin)]
            call == [n \in 1..calls |->
                       Output("call", <<r, run[r].made + n>>, run[r].origin)]
        IN run' = [run EXCEPT
             ![r].pc = "send", ![r].asks = @ + 1, ![r].tail = NoItem,
             ![r].todo = text \o call, ![r].calls = <<>>,
             ![r].more = calls > 0, ![r].made = @ + calls]
  BY DEF AskModel
<1> DEFINE texts == Count(answer, "text")
           calls == Count(answer, "call")
           text == [n \in 1..texts |-> Output("text", <<>>, run[r].origin)]
           call == [n \in 1..calls |-> Output("call", <<r, run[r].made + n>>, run[r].origin)]
           todo == text \o call
<1>3. texts \in Nat /\ calls \in Nat
  <2>1. answer \in Seq(BlockTypes)
    BY <1>1, DialogAssumption
  <2> QED BY <2>1, CountIsNat
<1>4. \A n \in DOMAIN todo : todo[n].type # "result"
  <2> HIDE DEF texts, calls
  <2>1. Len(text) = texts /\ Len(call) = calls
    BY <1>3
  <2>2. \A n \in 1..texts : text[n].type = "text"
    BY DEF Output
  <2>3. \A n \in 1..calls : call[n].type = "call"
    BY DEF Output
  <2>4. /\ text \in Seq({text[n] : n \in 1..texts}) /\ call \in Seq({call[n] : n \in 1..calls})
    BY <1>3
  <2> HIDE DEF text, call
  <2>5. DOMAIN todo = 1..(texts + calls) /\ \A n \in 1..(texts + calls) :
          todo[n] = IF n <= texts THEN text[n] ELSE call[n - texts]
    BY <1>3, <2>1, <2>4
  <2> QED BY <1>3, <2>2, <2>3, <2>5
<1>5. /\ SameDialog(r) /\ run'[r].pc = "send" /\ run'[r].todo = todo /\ run'[r].calls = <<>>
  <2>1. run' = [run EXCEPT
          ![r].pc = "send", ![r].asks = @ + 1, ![r].tail = NoItem, ![r].todo = todo,
          ![r].calls = <<>>, ![r].more = calls > 0, ![r].made = @ + calls]
    BY <1>2
  <2> HIDE DEF calls, todo
  <2> QED BY <1>1, <2>1 DEF Record, SameDialog
<1>6. Waiting(r)' = {}
  <2> HIDE DEF todo
  <2> QED BY <1>4, <1>5 DEF Waiting
<1>7. run[r].pc \in Body /\ run[r].pc # "save"
  BY <1>1 DEF Body, Loop
<1> QED BY <1>1, <1>5, <1>6, <1>7, WorkSees DEF SameDialog

\* Between the answer and its tools nothing is shown or stored.
LEMMA AfterLlmSees ==
  ASSUME IInv, IInv', NEW r \in Runs, Sees(r), AfterLlm(r)
  PROVE  Sees(r)'
<1>1. /\ run[r] = Record(run[r]) /\ run \in [Runs -> Contexts] /\ Grows
      /\ run[r].pc \in {"afterLlm", "send"}
  BY Context DEF AfterLlm, At, Grows
<1>2. /\ SameDialog(r) /\ run'[r].pc = "tool"
      /\ run'[r].todo = run[r].todo /\ run'[r].calls = run[r].calls
  BY <1>1 DEF AfterLlm, Goto, Record, SameDialog
<1>3. Waiting(r)' = Waiting(r) /\ run[r].pc \in Body /\ run[r].pc # "save"
  BY <1>1, <1>2 DEF Waiting, Body, Loop
<1> QED BY <1>1, <1>2, <1>3, WorkSees DEF SameDialog

\* Nor while the typing indicator moves to another dialog.
LEMMA RetypeSees ==
  ASSUME IInv, IInv', NEW r \in Runs, Sees(r), Retype(r)
  PROVE  Sees(r)'
<1>1. /\ run[r] = Record(run[r]) /\ run \in [Runs -> Contexts] /\ Grows /\ run[r].pc = "retype"
  BY Context DEF Retype, At, Grows
<1>2. /\ SameDialog(r) /\ run'[r].pc = "ask"
      /\ run'[r].todo = run[r].todo /\ run'[r].calls = run[r].calls
  BY <1>1 DEF Retype, Record, SameDialog
<1>3. Waiting(r)' = Waiting(r) /\ run[r].pc \in Body
  BY <1>1, <1>2 DEF Waiting, Body
<1> QED BY <1>1, <1>2, <1>3, WorkSees DEF SameDialog

\* A tool's result is for a call that was waiting for it.
LEMMA RunToolSees ==
  ASSUME IInv, IInv', NEW r \in Runs, Sees(r), RunTool(r)
  PROVE  Sees(r)'
<1>1. /\ run[r] = Record(run[r]) /\ run \in [Runs -> Contexts] /\ Grows /\ run[r].pc = "tool"
      /\ run[r].calls # <<>> /\ run[r].calls \in Seq(CallIds)
      /\ run[r].tail \in {NoItem, run[r].last}
  BY Context DEF RunTool, At, Grows, Contexts, RunInv, TailIsNewest
<1> DEFINE result == Output("result", Head(run[r].calls), run[r].origin)
           follow == Output("followUp", <<>>, run[r].origin)
           last == IF run[r].tail # NoItem THEN run[r].tail ELSE run[r].last
<1>2. PICK c \in Chains \cup {run[r].chain}, o \in Origins \cup {NoOrigin}, more \in FollowUps :
        run' = [run EXCEPT
          ![r].pc = "send",
          ![r].calls = Tail(@),
          ![r].chain = c,
          ![r].moved = IF o = NoOrigin THEN @ ELSE o,
          ![r].last = last,
          ![r].todo = IF more THEN <<result, follow>> ELSE <<result>>]
  BY DEF RunTool
<1>3. last = run[r].last
  BY <1>1
<1> DEFINE todo == IF more THEN <<result, follow>> ELSE <<result>>
<1>4. \A n \in DOMAIN todo : todo[n].type = "result" => todo[n].call = Head(run[r].calls)
  BY DEF Output
<1> HIDE DEF last
<1>5. /\ SameDialog(r) /\ run'[r].pc = "send" /\ run'[r].todo = todo
      /\ run'[r].calls = Tail(run[r].calls)
  <2>1. run' = [run EXCEPT
          ![r].pc = "send", ![r].calls = Tail(@), ![r].chain = c,
          ![r].moved = IF o = NoOrigin THEN @ ELSE o, ![r].last = last, ![r].todo = todo]
    BY <1>2
  <2> HIDE DEF todo
  <2> QED BY <1>1, <1>3, <2>1 DEF Record, SameDialog
<1> HIDE DEF todo
<1>6. Waiting(r)' \subseteq Waiting(r)
  <2>1. /\ Len(run[r].calls) \in Nat \ {0} /\ DOMAIN run[r].calls = 1..Len(run[r].calls)
        /\ Head(run[r].calls) = run[r].calls[1]
        /\ DOMAIN Tail(run[r].calls) = 1..(Len(run[r].calls) - 1)
        /\ \A n \in 1..(Len(run[r].calls) - 1) : Tail(run[r].calls)[n] = run[r].calls[n + 1]
    BY <1>1, HeadAndTail
  <2>2. \A n \in DOMAIN Tail(run[r].calls) : Tail(run[r].calls)[n] \in Waiting(r)
    BY <2>1 DEF Waiting
  <2>3. Head(run[r].calls) \in Waiting(r)
    BY <2>1 DEF Waiting
  <2> QED BY <1>4, <1>5, <2>2, <2>3 DEF Waiting
<1>7. run[r].pc \in Body
  BY <1>1 DEF Body, Loop
<1> QED BY <1>1, <1>5, <1>6, <1>7, WorkSees DEF SameDialog

\* The line that is shown is the one Save will store.
LEMMA SendSees ==
  ASSUME IInv, IInv', NEW r \in Runs, Sees(r), Send(r)
  PROVE  Sees(r)'
<1> DEFINE shown == run[r].shown
           line == OutLine(Head(run[r].todo))
<1>1. /\ run[r] = Record(run[r]) /\ run \in [Runs -> Contexts] /\ Grows /\ run[r].pc = "send"
      /\ run[r].todo # <<>> /\ run[r].todo \in Seq(Sent) /\ shown \in Seq(Lines)
      /\ run[r].pc \in Body
  BY Context DEF Send, At, Grows, Contexts, Body, Loop
<1>2. run' = [run EXCEPT ![r].pc = "save", ![r].shown = Append(@, line)]
  BY DEF Send, OutLine
<1>3. Head(run[r].todo) = run[r].todo[1] /\ Head(run[r].todo) \in Sent
  BY <1>1, HeadAndTail
<1> HIDE DEF line
<1>4. /\ run'[r].saved = run[r].saved /\ run'[r].memory = run[r].memory
      /\ run'[r].last = run[r].last /\ run'[r].shown = Append(shown, line)
      /\ run'[r].todo = run[r].todo /\ run'[r].calls = run[r].calls /\ run'[r].pc = "save"
  BY <1>1, <1>2 DEF Record
<1>5. line \in Lines
  BY <1>3 DEF line, OutLine, Lines, Sent
<1>6. /\ Len(shown) \in Nat /\ Len(run'[r].shown) = Len(shown) + 1
      /\ run'[r].shown[Len(run'[r].shown)] = line
      /\ \A n \in 1..Len(shown) : run'[r].shown[n] = shown[n]
  BY <1>1, <1>4, <1>5, OneMore
<1>7. Told(r) = Len(shown) /\ Told(r)' = Len(shown)
  BY <1>1, <1>4, <1>6 DEF Told
<1>8. /\ Dialog(r)' = Dialog(r) /\ Dialog(r) \in Seq(StoredItems)
      /\ \A c : InBranch(c, run[r].last)' <=> InBranch(c, run[r].last)
  BY <1>1, <1>4, DialogStays, DialogFacts
<1>9. Holds(r, Dialog(r), run'[r].shown, Len(shown))
  BY <1>1, <1>6, <1>7, <1>8, HoldsStill DEF Sees
<1>10. Holds(r, Dialog(r), run[r].shown, Told(r))'
  BY <1>7, <1>8, <1>9 DEF Holds, Ours
<1>11. Waiting(r)' = Waiting(r)
  BY <1>4 DEF Waiting
<1>12. run'[r].shown[Len(run'[r].shown)] = OutLine(run'[r].todo[1])
  BY <1>3, <1>4, <1>6 DEF line
<1> QED BY <1>1, <1>4, <1>8, <1>10, <1>11, <1>12 DEF Sees

\* Nor between the last tool and the next question or the end.
LEMMA EndIterationSees ==
  ASSUME IInv, IInv', NEW r \in Runs, Sees(r), EndIteration(r)
  PROVE  Sees(r)'
<1>1. /\ run[r] = Record(run[r]) /\ run \in [Runs -> Contexts] /\ Grows /\ run[r].pc = "tool"
      /\ run[r].pc \in Body
  BY Context DEF EndIteration, At, Grows, Body, Loop
<1>2. CASE ~ run[r].more
  <2>1. /\ run'[r].saved = run[r].saved /\ run'[r].memory = run[r].memory /\ run'[r].pc = "leave"
    BY <1>1, <1>2 DEF EndIteration, Left, Record
  <2> QED BY <2>1, EndSees DEF Body, Loop
<1>3. CASE run[r].more
  <2>1. run' = [run EXCEPT ![r].pc = IF run[r].typing = run[r].origin THEN "ask" ELSE "retype"]
    BY <1>3 DEF EndIteration
  <2>2. /\ SameDialog(r) /\ run'[r].pc \in {"ask", "retype"}
        /\ run'[r].todo = run[r].todo /\ run'[r].calls = run[r].calls
    BY <1>1, <2>1 DEF Record, SameDialog
  <2>3. Waiting(r)' = Waiting(r)
    BY <2>2 DEF Waiting
  <2> QED BY <1>1, <2>2, <2>3, WorkSees DEF SameDialog
<1> QED BY <1>2, <1>3

\* The ways a run ends leave what it has stored and remembered.
LEMMA LeavesSee ==
  ASSUME IInv, NEW r \in Runs, Sees(r),
         Fail(r) \/ Cancel(r) \/ LeaveTyping(r) \/ HandleError(r) \/ AfterRun(r)
  PROVE  Sees(r)'
<1>1. run[r] = Record(run[r]) /\ run \in [Runs -> Contexts]
  BY Context
<1>2. /\ Left(r).saved = run[r].saved /\ Left(r).memory = run[r].memory /\ Left(r).pc = run[r].pc
      /\ Left(r) = Record(Left(r))
  <2>1. Left(r).memory = run[r].memory
    BY <1>1 DEF Left, Record
  <2> QED BY <2>1, LeftIsContext
<1> DEFINE Comes == /\ run'[r].saved = run[r].saved /\ run'[r].memory = run[r].memory
                    /\ run'[r].pc \in {"leave", "error", "final", "done"}
<1> SUFFICES Comes
  <2>1. Comes => run'[r].pc \notin Body
    BY DEF Body, Loop
  <2> QED BY <2>1, EndSees
<1>3. CASE Fail(r)
  <2> DEFINE typing == IF At(r, "retype") THEN NoOrigin ELSE Left(r).typing
  <2>1. run' = [run EXCEPT ![r] = [Left(r) EXCEPT
          !.outcome = "failed", !.pc = IF @ \in Loop THEN "leave" ELSE "error", !.typing = typing]]
    BY <1>3 DEF Fail
  <2> HIDE DEF typing
  <2> QED BY <1>1, <1>2, <2>1 DEF Record
<1>4. CASE Cancel(r)
  <2>1. PICK typing :
       run' = [run EXCEPT ![r] = [Left(r) EXCEPT
         !.cancels = @ + 1, !.outcome = "cancelled", !.typing = typing,
         !.pc = IF @ \in Loop THEN "leave"
                ELSE IF @ \in Body \cup {"leave", "error"} THEN "final" ELSE "done"]]
    BY <1>4 DEF Cancel
  <2> QED BY <1>1, <1>2, <2>1 DEF Record
<1>5. CASE LeaveTyping(r)
  BY <1>1, <1>5 DEF LeaveTyping, Record
<1>6. CASE HandleError(r)
  BY <1>1, <1>6 DEF HandleError, Goto, Record
<1>7. CASE AfterRun(r)
  BY <1>1, <1>7 DEF AfterRun, Record
<1> QED BY <1>3, <1>4, <1>5, <1>6, <1>7

\* A run begins with what it continues, in which nothing is its own.
LEMMA CreateSees ==
  ASSUME IInv, IInv', NEW r \in Runs, Sees(r), NEW base \in {NoItem} \cup DOMAIN store,
         NEW saved \in BOOLEAN, NEW n \in Nat, Create(r, base, saved, n)
  PROVE  Sees(r)'
<1>1. /\ run[r] = Record(run[r]) /\ run \in [Runs -> Contexts] /\ Grows /\ run[r].pc = "new"
      /\ Own(r) = {} /\ Types /\ Types' /\ Len(store) \in Nat /\ store' = store
      /\ DOMAIN store = 1..Len(store)
  BY Context DEF Create, At, Grows, RunInv, OnePath, IInv
<1>2. CASE run' = [run EXCEPT ![r].pc = "done", ![r].outcome = "failed"]
  <2>1. /\ run'[r].saved = run[r].saved /\ run'[r].memory = run[r].memory /\ run'[r].pc = "done"
    BY <1>1, <1>2 DEF Record
  <2> QED BY <2>1, EndSees DEF Body, Loop
<1>3. CASE run' = [run EXCEPT ![r] = [NewRun EXCEPT
            !.pc = "input", !.saved = saved, !.base = base, !.inputs = n,
            !.origin = Home[r], !.last = base]]
  <2>1. /\ run'[r].memory = <<>> /\ run'[r].shown = <<>> /\ run'[r].todo = <<>>
        /\ run'[r].calls = <<>> /\ run'[r].last = base /\ run'[r].pc = "input"
    BY <1>1, <1>3 DEF NewRun
  <2>2. base \in 0..Len(store)
    BY <1>1 DEF NoItem
  <2>3. Dialog(r)' = Past(base)
    <3>1. Past(base)' = Past(base) /\ Past(base) \in Seq(StoredItems)
      BY <1>1, <2>2, PastStays, PastFacts DEF PastLaw
    <3>2. Dialog(r)' = Past(base)' \o run'[r].memory
      BY <2>1 DEF Dialog, Past
    <3>3. ASSUME NEW past \in Seq(StoredItems) PROVE past \o <<>> = past
      OBVIOUS
    <3> QED BY <2>1, <3>1, <3>2, <3>3
  <2>4. \A m \in DOMAIN Past(base) :
          ~ (Past(base)[m].by = r /\ Past(base)[m].type \in OutputTypes)
    BY <1>1, <2>2, PastIsStored DEF Own
  <2>5. Holds(r, Past(base), run'[r].shown, 0)
    BY <2>4, HoldsNothing
  <2>6. Told(r)' = 0
    BY <2>1, EmptySeq DEF Told
  <2>7. Holds(r, Dialog(r), run[r].shown, Told(r))'
    BY <2>3, <2>5, <2>6 DEF Holds, Ours
  <2>8. Waiting(r)' = {}
    BY <2>1 DEF Waiting
  <2> QED BY <2>1, <2>7, <2>8 DEF Sees
<1> QED BY <1>2, <1>3 DEF Create

\* A run that is not saved remembers an item.
LEMMA Remembers ==
  ASSUME IInv, IInv', NEW r \in Runs, NEW item, store' = store,
         run'[r].last = run[r].last, run'[r].memory = Append(run[r].memory, item)
  PROVE  /\ item \in StoredItems /\ Dialog(r) \in Seq(StoredItems)
         /\ Dialog(r)' = Append(Dialog(r), item)
<1> DEFINE memory == run[r].memory
<1>1. /\ run[r].last \in 0..Len(store) /\ memory \in Seq(StoredItems)
      /\ Past(run[r].last) \in Seq(StoredItems) /\ Dialog(r) \in Seq(StoredItems)
      /\ Dialog(r) = Past(run[r].last) \o memory
  BY DialogFacts
<1>2. run'[r].memory \in Seq(StoredItems)
  BY DEF IInv, Types, Contexts
<1> HIDE DEF memory
<1>3. item \in StoredItems
  <2>1. memory \in Seq(StoredItems \cup {item}) /\ item \in StoredItems \cup {item}
    BY <1>1
  <2> DEFINE longer == Append(memory, item)
  <2>2. longer[Len(memory) + 1] = item /\ Len(memory) + 1 \in DOMAIN longer
    BY <1>1, <2>1, OneMore
  <2>3. longer \in Seq(StoredItems)
    BY <1>2 DEF memory
  <2> HIDE DEF longer
  <2> QED BY <2>2, <2>3
<1>4. PICK n \in 0..Len(store) : n = run[r].last
  BY <1>1
<1>5. Past(n)' = Past(n)
  BY PastStays DEF Grows
<1>6. Dialog(r)' = Past(n)' \o Append(memory, item)
  BY <1>4 DEF Dialog, Past, memory
<1>7. Past(n) \in Seq(StoredItems) /\ Dialog(r) = Past(n) \o memory
  BY <1>1, <1>4
<1> QED BY <1>1, <1>3, <1>5, <1>6, <1>7, ConcatMore

\* Input items are not outputs, wherever they are linked.
LEMMA StoreInputSees ==
  ASSUME IInv, IInv', NEW r \in Runs, Sees(r), StoreInput(r)
  PROVE  Sees(r)'
<1>1. /\ run[r] = Record(run[r]) /\ run \in [Runs -> Contexts] /\ run[r].pc = "input"
      /\ run[r].pc \in Body /\ run[r].shown = <<>> /\ run[r].calls = <<>> /\ run[r].todo = <<>>
      /\ Types /\ Types' /\ Len(store) \in Nat /\ DOMAIN store = 1..Len(store)
      /\ run[r].saved => Cardinality(OwnOutputs(r)) = 0
  <2>1. run[r].pc = "input" /\ RunInv(r)
    BY Context DEF StoreInput, At
  <2>2. run[r].shown = <<>> /\ run[r].calls = <<>> /\ run[r].pc \in Body
    BY <2>1 DEF RunInv, Answers, Body
  <2>3. run[r].saved => Cardinality(OwnOutputs(r)) = 0
    BY <2>1, <2>2, EmptySeq DEF RunInv, Shows
  <2> QED BY <2>1, <2>2, <2>3, Context DEF Sees, IInv
<1>2. PICK item \in Inputs(r) :
        IF run[r].saved
        THEN /\ store' = Append(store, item)
             /\ run' = [run EXCEPT ![r].inputs = @ - 1, ![r].last = Len(store')]
        ELSE /\ run' = [run EXCEPT ![r].inputs = @ - 1, ![r].memory = Append(@, item)]
             /\ UNCHANGED store
  BY DEF StoreInput
<1>3. Grows
  BY <1>2 DEF Grows
<1>4. item.type = "input"
  BY DEF Inputs, Stored, Output
<1>5. CASE run[r].saved
  <2>1. /\ store' = Append(store, item) /\ run'[r].last = Len(store')
        /\ run'[r].saved /\ run'[r].memory = <<>> /\ run'[r].shown = <<>>
        /\ run'[r].todo = <<>> /\ run'[r].calls = <<>> /\ run'[r].pc = "input"
    BY <1>1, <1>2, <1>5 DEF Record, Sees
  <2>2. Adds(r, item)
    BY <1>1, <2>1, InputsAreItems
  <2>3. OwnOutputs(r) = {}
    BY <1>1, <1>5, OwnAreItems, FS_EmptySet
  <2>4. ASSUME NEW j \in DOMAIN store' PROVE ~ (store'[j].by = r /\ store'[j].type \in OutputTypes)
    <3>1. /\ store'[Len(store) + 1] = item /\ \A i \in DOMAIN store : store'[i] = store[i]
          /\ DOMAIN store' = 1..(Len(store) + 1)
      BY <1>1, <2>2, Added
    <3>2. CASE j \in DOMAIN store
      BY <2>3, <3>1, <3>2 DEF OwnOutputs, Own, OutputTypes
    <3>3. CASE j \notin DOMAIN store
      <4>1. j = Len(store) + 1
        BY <1>1, <3>1, <3>3
      <4> QED BY <1>4, <3>1, <4>1 DEF OutputTypes
    <3> QED BY <3>2, <3>3
  <2>5. \A m \in DOMAIN Dialog(r)' : \E j \in DOMAIN store' : Dialog(r)'[m] = store'[j]
    <3>1. PICK n \in 0..Len(store') : n = run'[r].last
      BY DEF IInv, RunInv, PointsAtItems
    <3>2. Dialog(r)' = Past(n)' \o <<>>
      BY <2>1, <3>1 DEF Dialog, Past
    <3>3. PastLaw'
      BY <1>1, PastFacts, PTL
    <3>4. Past(n)' \in Seq(StoredItems)
      BY <3>1, <3>3 DEF PastLaw
    <3>5. \A m \in DOMAIN Past(n)' : \E j \in DOMAIN store' : Past(n)'[m] = store'[j]
      <4>1. (\A i \in 0..Len(store) : \A m \in DOMAIN Past(i) : \E j \in DOMAIN store : Past(i)[m] = store[j])'
        BY <1>1, PastIsStored, PTL
      <4> QED BY <3>1, <4>1
    <3>6. ASSUME NEW past \in Seq(StoredItems) PROVE past \o <<>> = past
      OBVIOUS
    <3> QED BY <3>2, <3>4, <3>5, <3>6
  <2>6. Holds(r, Dialog(r)', <<>>, 0)
    BY <2>4, <2>5, HoldsNothing
  <2>7. Told(r)' = 0 /\ Waiting(r)' = {}
    BY <2>1, EmptySeq DEF Told, Waiting
  <2>8. Holds(r, Dialog(r), run[r].shown, Told(r))'
    BY <2>1, <2>6, <2>7 DEF Holds, Ours
  <2> QED BY <2>1, <2>7, <2>8 DEF Sees
<1>6. CASE ~ run[r].saved
  <2>1. /\ store' = store /\ run'[r].last = run[r].last
        /\ run'[r].saved = run[r].saved /\ run'[r].memory = Append(run[r].memory, item)
        /\ run'[r].shown = <<>> /\ run'[r].todo = <<>> /\ run'[r].calls = <<>>
        /\ run'[r].pc = "input"
    BY <1>1, <1>2, <1>6 DEF Record
  <2>2. item \in StoredItems /\ Dialog(r) \in Seq(StoredItems) /\ Dialog(r)' = Append(Dialog(r), item)
    BY <2>1, Remembers
  <2>3. Told(r) = 0 /\ Told(r)' = 0 /\ Waiting(r)' = {}
    BY <1>1, <2>1, EmptySeq DEF Told, Waiting
  <2>4. Holds(r, Dialog(r), <<>>, 0)
    BY <1>1, <2>3 DEF Sees
  <2>5. Holds(r, Dialog(r)', <<>>, 0)
    BY <1>4, <2>2, <2>4, HoldsMore DEF OutputTypes
  <2>6. Holds(r, Dialog(r), run[r].shown, Told(r))'
    BY <2>1, <2>3, <2>5 DEF Holds, Ours
  <2> QED BY <1>6, <2>1, <2>3, <2>6 DEF Sees
<1> QED BY <1>5, <1>6

\* A run that is saved stores an item behind its last one.
LEMMA Stores ==
  ASSUME IInv, IInv', NEW r \in Runs, NEW item, Adds(r, item), item.prev = run[r].last,
         run'[r].last = Len(store'), run[r].memory = <<>>, run'[r].memory = <<>>,
         item.type = "result" => InBranch(item.call, run[r].last)
  PROVE  /\ item \in StoredItems /\ Dialog(r) \in Seq(StoredItems)
         /\ Dialog(r)' = Append(Dialog(r), item)
         /\ \A c : InBranch(c, run[r].last)' <=>
              InBranch(c, run[r].last) \/ (item.type = "call" /\ item.call = c)
<1>1. /\ Types /\ Types' /\ item \in StoredItems /\ store' = Append(store, item)
      /\ Dialog(r) \in Seq(StoredItems) /\ Dialog(r) = Past(run[r].last)
      /\ Past(run[r].last) \in Seq(StoredItems)
  BY DialogFacts DEF Adds, IInv
<1>2. /\ Len(store) \in Nat /\ Len(store') = Len(store) + 1 /\ store'[Len(store) + 1] = item
      /\ DOMAIN store' = 1..(Len(store) + 1)
  BY <1>1, Added
<1>3. PICK p \in 0..Len(store) : p = run[r].last
  BY DialogFacts
<1>4. PICK new \in 1..(Len(store) + 1) : new = Len(store')
  BY <1>2
<1>5. Grows
  BY <1>1 DEF Grows
<1>6. /\ Past(p)' = Past(p) /\ \A c : InBranch(c, p)' <=> InBranch(c, p)
  BY <1>5, PastStays
<1>7. PastLaw'
  BY <1>1, PastFacts, PTL
<1>8. new \in DOMAIN store' /\ p \in 0..Len(store') /\ store'[new] = item /\ p = store'[new].prev
  BY <1>2, <1>3, <1>4
<1>9. /\ Past(new)' = IF item.type = "result" /\ ~ InBranch(item.call, p)'
                      THEN Past(p)' ELSE Append(Past(p)', item)
      /\ \A c : InBranch(c, new)' <=> InBranch(c, p)' \/ (item.type = "call" /\ item.call = c)
  BY <1>7, <1>8 DEF PastLaw
<1>10. \A c : /\ InBranch(c, run[r].last) <=> InBranch(c, p)
              /\ InBranch(c, run[r].last)' <=> InBranch(c, new)'
  BY <1>3, <1>4 DEF InBranch
<1>11. Dialog(r)' = Past(new)' \o <<>> /\ Past(p) = Past(run[r].last)
  BY <1>3, <1>4 DEF Dialog, Past
<1>12. Past(new)' = Append(Dialog(r), item)
  BY <1>1, <1>6, <1>9, <1>10, <1>11
<1>13. Append(Dialog(r), item) \in Seq(StoredItems)
  BY <1>1, OneMore
<1>14. ASSUME NEW past \in Seq(StoredItems) PROVE past \o <<>> = past
  OBVIOUS
<1>15. Dialog(r)' = Append(Dialog(r), item)
  BY <1>11, <1>12, <1>13, <1>14
<1> QED BY <1>1, <1>6, <1>9, <1>10, <1>15

\* The line in delivery becomes the next item of the run's dialog.
LEMMA Delivered ==
  ASSUME NEW r, NEW dialog \in Seq(StoredItems), NEW item \in StoredItems, item.by = r,
         item.type \in OutputTypes, NEW shown, Len(shown) \in Nat,
         Holds(r, dialog, shown, Len(shown) - 1), shown[Len(shown)] = OutLine(item)
  PROVE  Holds(r, Append(dialog, item), shown, Len(shown))
<1>1. Len(shown) - 1 \in Nat
  <2>1. IsFiniteSet(Ours(r, dialog))
    BY OursGrow
  <2> QED BY <2>1, FS_CardinalityType DEF Holds
<1>2. (Len(shown) - 1) + 1 = Len(shown)
  OBVIOUS
<1> QED BY <1>1, <1>2, HoldsMore

\* Save stores or remembers the line that was shown last.
LEMMA SaveSees ==
  ASSUME IInv, IInv', NEW r \in Runs, Sees(r), Save(r)
  PROVE  Sees(r)'
<1> DEFINE head == Head(run[r].todo)
           rest == Tail(run[r].todo)
           item == Stored(r, head, run[r].last)
           last == IF run[r].saved THEN Len(store) + 1 ELSE run[r].last
           memory == IF run[r].saved THEN run[r].memory ELSE Append(run[r].memory, item)
           calls == IF head.type = "call" THEN Append(run[r].calls, head.call) ELSE run[r].calls
           fromTool == head.type \in {"result", "followUp"}
           pc == IF rest # <<>> THEN "send" ELSE IF fromTool THEN "tool" ELSE "afterLlm"
           tail == IF fromTool /\ rest = <<>> THEN last ELSE run[r].tail
           origin == IF run[r].moved # NoOrigin THEN run[r].moved ELSE run[r].origin
           shown == run[r].shown
<1>1. /\ run[r] \in Contexts /\ run[r] = Record(run[r]) /\ run \in [Runs -> Contexts]
      /\ run[r].pc = "save" /\ RunInv(r) /\ Types /\ Len(store) \in Nat
      /\ store' = IF run[r].saved THEN Append(store, item) ELSE store
  BY Context DEF Save, At
<1>2. /\ run[r].pc \in Body /\ run[r].calls \in Seq(CallIds) /\ run[r].todo \in Seq(Sent)
      /\ shown \in Seq(Lines) /\ Len(shown) \in Nat /\ run[r].todo # <<>>
  <2>1. \E k \in Nat : Ledger(r, k)
    BY <1>1, InTheLoop DEF Loop
  <2>2. run[r].todo # <<>>
    BY <1>1, <2>1 DEF Ledger
  <2>3. run[r].calls \in Seq(CallIds) /\ run[r].todo \in Seq(Sent) /\ run[r].shown \in Seq(Lines)
    BY <1>1 DEF Contexts
  <2> QED BY <1>1, <2>2, <2>3 DEF Body, Loop
<1>3. /\ run'[r].last = last /\ run'[r].memory = memory /\ run'[r].todo = rest
      /\ run'[r].calls = calls /\ run'[r].pc = pc /\ run'[r].shown = shown
      /\ run'[r].saved = run[r].saved
  <2>1. run' = [run EXCEPT
          ![r].last = last, ![r].memory = memory, ![r].todo = rest, ![r].calls = calls,
          ![r].tail = tail, ![r].origin = origin, ![r].moved = NoOrigin, ![r].pc = pc]
    BY Zenon DEF Save
  <2> HIDE DEF head, rest, item, last, memory, calls, tail, origin, pc
  <2> QED BY <1>1, <2>1 DEF Record
<1>4. /\ head = run[r].todo[1] /\ head \in Sent
      /\ DOMAIN run[r].todo = 1..Len(run[r].todo) /\ Len(run[r].todo) \in Nat \ {0}
      /\ DOMAIN rest = 1..(Len(run[r].todo) - 1)
      /\ \A i \in 1..(Len(run[r].todo) - 1) : rest[i] = run[r].todo[i + 1]
  <2>1. DOMAIN run[r].todo = 1..Len(run[r].todo)
    BY <1>2
  <2> HIDE DEF item, last, memory, calls, tail, origin, pc
  <2> QED BY <1>2, <2>1, HeadAndTail
<1>5. /\ item.type = head.type /\ item.call = head.call /\ item.by = r /\ item.prev = run[r].last
      /\ item.type \in OutputTypes
  BY <1>4 DEF Stored, Sent
<1>6. pc \in {"send", "tool", "afterLlm"} /\ pc \notin {"input", "before", "save"}
  OBVIOUS
<1>7. Told(r) = Len(shown) - 1 /\ Told(r)' = Len(shown)
  BY <1>1, <1>3, <1>6 DEF Told
<1>8. shown[Len(shown)] = OutLine(item)
  BY <1>1, <1>4, <1>5 DEF Sees, OutLine
<1>9. ASSUME NEW c \in Waiting(r)' PROVE c \in Waiting(r) \/ (item.type = "call" /\ item.call = c)
  <2>1. CASE \E i \in DOMAIN calls : c = calls[i]
    <3>1. PICK i \in DOMAIN calls : c = calls[i]
      BY <2>1
    <3>2. CASE head.type = "call"
      <4>1. /\ DOMAIN calls = 1..(Len(run[r].calls) + 1) /\ calls[Len(run[r].calls) + 1] = head.call
            /\ DOMAIN run[r].calls = 1..Len(run[r].calls) /\ Len(run[r].calls) \in Nat
            /\ \A j \in DOMAIN run[r].calls : calls[j] = run[r].calls[j]
        <5>1. head.call \in CallIds
          BY <1>4 DEF Sent
        <5>2. calls = Append(run[r].calls, head.call)
          BY <3>2
        <5> HIDE DEF calls, head
        <5> QED BY <1>2, <5>1, <5>2, OneMore
      <4>2. i = Len(run[r].calls) + 1 \/ i \in DOMAIN run[r].calls
        BY <3>1, <4>1
      <4> QED BY <1>5, <3>1, <3>2, <4>1, <4>2 DEF Waiting
    <3>3. CASE head.type # "call"
      BY <3>1, <3>3 DEF Waiting
    <3> QED BY <3>2, <3>3
  <2>2. CASE \E i \in DOMAIN rest : rest[i].type = "result" /\ c = rest[i].call
    <3>1. PICK i \in DOMAIN rest : rest[i].type = "result" /\ c = rest[i].call
      BY <2>2
    <3>2. i + 1 \in DOMAIN run[r].todo /\ rest[i] = run[r].todo[i + 1]
      BY <1>4, <3>1
    <3> QED BY <3>1, <3>2 DEF Waiting
  <2> HIDE DEF calls, rest
  <2> QED BY <1>3, <1>9, <2>1, <2>2 DEF Waiting
<1>10. CASE run[r].saved
  <2>1. /\ store' = Append(store, item) /\ run[r].memory = <<>> /\ run'[r].memory = <<>>
    BY <1>1, <1>3, <1>10 DEF Sees
  <2>2. Adds(r, item)
    BY <1>1, <2>1, SavedIsItem
  <2>3. run'[r].last = Len(store')
    BY <1>1, <1>3, <1>10, <2>2, Added
  <2>4. \A c \in Waiting(r) : InBranch(c, run[r].last)
    BY <1>2, <1>10 DEF Sees
  <2>5. item.type = "result" => InBranch(item.call, run[r].last)
    <3>1. head.type = "result" => head.call \in Waiting(r)
      BY <1>4 DEF Waiting
    <3> QED BY <1>5, <2>4, <3>1
  <2>11. item.prev = run[r].last
    BY <1>5
  <2> HIDE DEF item, head
  <2>6. /\ item \in StoredItems /\ Dialog(r) \in Seq(StoredItems)
        /\ Dialog(r)' = Append(Dialog(r), item)
        /\ \A c : InBranch(c, run[r].last)' <=>
             InBranch(c, run[r].last) \/ (item.type = "call" /\ item.call = c)
    BY <2>1, <2>2, <2>3, <2>5, <2>11, Stores
  <2>7. Holds(r, Dialog(r), shown, Told(r))
    BY <1>2 DEF Sees
  <2>8. Holds(r, Dialog(r)', shown, Len(shown))
    BY <1>2, <1>5, <1>7, <1>8, <2>6, <2>7, Delivered
  <2>9. Holds(r, Dialog(r), run[r].shown, Told(r))'
    BY <1>3, <1>7, <2>8 DEF Holds, Ours
  <2>10. \A c \in Waiting(r)' : InBranch(c, run[r].last)'
    BY <1>9, <2>4, <2>6
  <2> QED BY <1>3, <1>6, <2>1, <2>9, <2>10 DEF Sees
<1>11. CASE ~ run[r].saved
  <2>1. store' = store /\ run'[r].last = run[r].last /\ run'[r].memory = Append(run[r].memory, item)
    BY <1>1, <1>3, <1>11
  <2> HIDE DEF item
  <2>2. item \in StoredItems /\ Dialog(r) \in Seq(StoredItems) /\ Dialog(r)' = Append(Dialog(r), item)
    BY <2>1, Remembers
  <2>3. Holds(r, Dialog(r), shown, Told(r))
    BY <1>2 DEF Sees
  <2>4. Holds(r, Dialog(r)', shown, Len(shown))
    BY <1>2, <1>5, <1>7, <1>8, <2>2, <2>3, Delivered
  <2>5. Holds(r, Dialog(r), run[r].shown, Told(r))'
    BY <1>3, <1>7, <2>4 DEF Holds, Ours
  <2> QED BY <1>3, <1>6, <1>11, <2>5 DEF Sees
<1> QED BY <1>10, <1>11

-----------------------------------------------------------------------------
(* What the model sees: the invariant is kept                              *)

\* A step of a run is a step of that run only.
LEMMA OneRunSteps ==
  ASSUME IInv, NEW r \in Runs, Step(r) \/ Cancel(r)
  PROVE  Grows /\ \A q \in Runs \ {r} : run'[q] = run[q]
<1> DEFINE Others == \A q \in Runs \ {r} : run'[q] = run[q]
<1>1. Grows
  BY DEF Grows, Step, StoreInput, RestoreChain, BeforeRun, AskModel, Send, Save, AfterLlm,
         RunTool, EndIteration, Retype, Fail, LeaveTyping, HandleError, AfterRun, Cancel
<1>2. run \in [Runs -> Contexts]
  BY Context
<1> SUFFICES Others
  BY <1>1
<1>3. CASE StoreInput(r)
  BY <1>2, <1>3 DEF StoreInput
<1>4. CASE RestoreChain(r)
  BY <1>2, <1>4 DEF RestoreChain
<1>5. CASE BeforeRun(r)
  BY <1>2, <1>5 DEF BeforeRun
<1>6. CASE AskModel(r)
  BY <1>2, <1>6 DEF AskModel
<1>7. CASE Send(r)
  BY <1>2, <1>7 DEF Send
<1>8. CASE Save(r)
  BY <1>2, <1>8 DEF Save
<1>9. CASE AfterLlm(r)
  BY <1>2, <1>9 DEF AfterLlm, Goto
<1>10. CASE RunTool(r)
  BY <1>2, <1>10 DEF RunTool
<1>11. CASE EndIteration(r)
  BY <1>2, <1>11 DEF EndIteration
<1>12. CASE Retype(r)
  BY <1>2, <1>12 DEF Retype
<1>13. CASE Fail(r)
  BY <1>2, <1>13 DEF Fail
<1>14. CASE LeaveTyping(r)
  BY <1>2, <1>14 DEF LeaveTyping
<1>15. CASE HandleError(r)
  BY <1>2, <1>15 DEF HandleError, Goto
<1>16. CASE AfterRun(r)
  BY <1>2, <1>16 DEF AfterRun
<1>17. CASE Cancel(r)
  BY <1>2, <1>17 DEF Cancel
<1> QED BY <1>1, <1>3, <1>4, <1>5, <1>6, <1>7, <1>8, <1>9, <1>10, <1>11, <1>12, <1>13, <1>14, <1>15, <1>16, <1>17 DEF Step

\* Every step of every run keeps what the model sees.
LEMMA NextSees ==
  ASSUME IInv, IInv', SInv, [Next]_vars
  PROVE  SInv'
<1>1. ASSUME NEW r \in Runs, Grows, \A q \in Runs \ {r} : run'[q] = run[q], Sees(r)'
      PROVE  SInv'
  <2>1. ASSUME NEW q \in Runs, q # r PROVE Sees(q)'
    BY <1>1, <2>1, OthersSee DEF SInv
  <2> QED BY <1>1, <2>1 DEF SInv
<1>2. CASE UNCHANGED vars
  <2>1. Grows /\ run' = run
    BY <1>2 DEF vars, Grows
  <2> QED BY <2>1, OthersSee DEF SInv
<1>3. ASSUME NEW r \in Runs, Created(r)
      PROVE  SInv'
  <2>1. PICK base \in {NoItem} \cup {i \in DOMAIN store : store[i].by \in Continues[r]},
             saved \in Saves[r], n \in 0..MaxInputs : Create(r, base, saved, n)
    BY <1>3 DEF Created
  <2>2. base \in {NoItem} \cup DOMAIN store /\ saved \in BOOLEAN /\ n \in Nat
    BY DialogAssumption
  <2>3. Sees(r)'
    BY <2>1, <2>2, CreateSees DEF SInv
  <2>4. Grows /\ \A q \in Runs \ {r} : run'[q] = run[q]
    BY <2>1, Context DEF Create, Grows
  <2> QED BY <1>1, <2>3, <2>4
<1>4. ASSUME NEW r \in Runs, Step(r) \/ Cancel(r)
      PROVE  SInv'
  <2>1. Sees(r)
    BY DEF SInv
  <2>2. Sees(r)'
    BY <1>4, <2>1, StoreInputSees, RestoreChainSees, BeforeRunSees, AskModelSees, SendSees,
       SaveSees, AfterLlmSees, RunToolSees, EndIterationSees, RetypeSees, LeavesSee DEF Step
  <2>3. Grows /\ \A q \in Runs \ {r} : run'[q] = run[q]
    BY <1>4, OneRunSteps
  <2> QED BY <1>1, <2>2, <2>3
<1> QED BY <1>2, <1>3, <1>4 DEF Next

\* Nothing has been said yet.
LEMMA InitSees ==
  ASSUME Init
  PROVE  SInv
<1> SUFFICES ASSUME NEW r \in Runs PROVE Sees(r)
  BY DEF SInv
<1>1. run[r].pc = "new" /\ run[r].memory = <<>>
  BY DEF Init, NewRun
<1> QED BY <1>1 DEF Sees, Body, Loop

-----------------------------------------------------------------------------
(* The history page                                                        *)

\* The item before i in its branch, or NoItem.
Before(i) == store[i].prev

\* The ancestors of an item are those of the item it continues, and itself.
LineLaw ==
  /\ Line(NoItem) = {}
  /\ \A i \in 0..Len(store) : Line(i) \subseteq 1..i
  /\ \A i \in Ids : Line(i) = Line(Before(i)) \cup {i} /\ Before(i) \in 0..(i - 1)

\* The recursive query of get_branch(), as a set of ancestors.
LEMMA LineFacts ==
  ASSUME Types
  PROVE  LineLaw
<1> DEFINE N == Len(store)
           T == {n \in 0..N : Line(n) \subseteq 1..n}
<1>1. /\ BranchLaw /\ N \in Nat /\ Ids = 1..N
      /\ \A n \in 1..N : store[n].prev \in 0..(n - 1)
  BY BranchFacts DEF Types, Ids
<1>2. Line(NoItem) = {}
  BY <1>1 DEF BranchLaw, Line, ToSet
<1>3. ASSUME NEW i \in Ids PROVE Line(i) = Line(Before(i)) \cup {i} /\ Before(i) \in 0..(i - 1)
  <2>1. PICK p \in 0..N : p = Before(i)
    BY <1>1 DEF Before
  <2>2. Branch(i) = Append(Branch(p), i) /\ Branch(p) \in Seq(DOMAIN store) /\ i \in DOMAIN store
    BY <1>1, <2>1 DEF BranchLaw, Ids, Before
  <2> DEFINE s == Branch(p)
             t == Branch(i)
  <2>3. /\ t[Len(s) + 1] = i /\ DOMAIN s = 1..Len(s) /\ DOMAIN t = 1..(Len(s) + 1) /\ Len(s) \in Nat
        /\ \A m \in DOMAIN s : t[m] = s[m]
    BY <2>2, OneMore
  <2> HIDE DEF s, t
  <2>4. ToSet(t) = ToSet(s) \cup {i}
    <3>1. DOMAIN t = DOMAIN s \cup {Len(s) + 1}
      BY <2>3
    <3> QED BY <2>3, <3>1 DEF ToSet
  <2>5. Line(i) = Line(p) \cup {i}
    BY <2>4 DEF Line, s, t
  <2> QED BY <1>1, <2>1, <2>5 DEF Before
<1>4. ASSUME NEW n \in 0..N, \A k \in 0..(n - 1) : k \in T PROVE n \in T
  <2>1. CASE n = 0
    BY <1>1, <1>2, <2>1 DEF NoItem
  <2>2. CASE n # 0
    <3>1. n \in Ids
      BY <1>1, <2>2
    <3>2. Line(n) = Line(Before(n)) \cup {n} /\ Before(n) \in 0..(n - 1)
      BY <1>3, <3>1
    <3>3. Line(Before(n)) \subseteq 1..Before(n)
      BY <1>4, <3>2
    <3>4. Line(n) \subseteq 1..n
      BY <1>1, <3>2, <3>3
    <3> QED BY <3>4
  <2> QED BY <2>1, <2>2
<1>5. 0..N \subseteq T
  <2> HIDE DEF T, N
  <2> QED BY <1>1, <1>4, StrongInduction
<1> QED BY <1>2, <1>3, <1>5 DEF LineLaw

\* The ancestors of an item are a chain, and ancestors of ancestors are ancestors.
LEMMA LineIsChain ==
  ASSUME Types
  PROVE  \A i \in Ids : \A b \in Line(i) :
           /\ Line(b) \subseteq Line(i)
           /\ \A a \in Line(i) : a <= b => a \in Line(b)
<1> DEFINE N == Len(store)
           Chain(i) == \A b \in Line(i) :
             /\ Line(b) \subseteq Line(i)
             /\ \A a \in Line(i) : a <= b => a \in Line(b)
           T == {n \in 0..N : Chain(n)}
<1>1. LineLaw /\ N \in Nat /\ Ids = 1..N
  BY LineFacts DEF Types, Ids
<1>2. ASSUME NEW n \in 0..N, \A k \in 0..(n - 1) : k \in T PROVE n \in T
  <2>1. CASE n = 0
    BY <1>1, <2>1 DEF LineLaw, NoItem
  <2>2. CASE n # 0
    <3>1. n \in Ids
      BY <1>1, <2>2
    <3>2. PICK p \in 0..(n - 1) : p = Before(n)
      BY <1>1, <3>1 DEF LineLaw
    <3>3. Line(n) = Line(p) \cup {n} /\ Line(p) \subseteq 1..p /\ p \in T
      BY <1>1, <1>2, <3>1, <3>2 DEF LineLaw
    <3>4. ASSUME NEW b \in Line(n)
          PROVE  Line(b) \subseteq Line(n) /\ \A a \in Line(n) : a <= b => a \in Line(b)
      <4>1. CASE b = n
        BY <4>1
      <4>2. CASE b # n
        <5>1. b \in Line(p) /\ b <= p
          BY <3>3, <4>2
        <5>2. \A a \in Line(n) : a <= b => a \in Line(p)
          BY <3>2, <3>3, <5>1
        <5> QED BY <3>3, <5>1, <5>2
      <4> QED BY <4>1, <4>2
    <3> QED BY <3>4
  <2> QED BY <2>1, <2>2
<1>3. 0..N \subseteq T
  <2> HIDE DEF T, N
  <2> QED BY <1>1, <1>2, StrongInduction
<1> QED BY <1>1, <1>3

\* Upwards in a list of items that has the item before each of its items is the branch.
LEMMA UpwardsIsLine ==
  ASSUME Types, NEW items, items \subseteq Ids, \A i \in items : Before(i) \in items \cup {NoItem}
  PROVE  \A i \in items : Upwards(items, i) = Line(i)
<1> DEFINE N == Len(store)
           S == SUBSET Nat
           prev == [n \in 1..N |-> Before(n)]
           step == [n \in 1..N |-> [x \in S |-> {n} \cup (IF Before(n) \in items THEN x ELSE {})]]
           Value(d, j) == {j} \cup (IF Before(j) \in items THEN d[Before(j)] ELSE {})
           up == CHOOSE d : d = [j \in items |-> Value(d, j)]
<1>1. LineLaw /\ N \in Nat /\ Ids = 1..N /\ \A n \in 1..N : Before(n) \in 0..(n - 1)
  BY LineFacts DEF Types, Ids, Before
<1>2. IsRecursion(N, S, prev, step)
  <2>1. prev \in [1..N -> Nat] /\ \A n \in 1..N : prev[n] < n
    BY <1>1
  <2> HIDE DEF prev
  <2>2. ASSUME NEW n \in 1..N, NEW x \in S PROVE {n} \cup (IF Before(n) \in items THEN x ELSE {}) \in S
    BY <1>1
  <2> HIDE DEF S, N
  <2>3. step \in [1..N -> [S -> S]]
    BY <2>2
  <2> HIDE DEF step
  <2> QED BY <2>1, <2>3 DEF IsRecursion
<1>3. PICK f \in [0..N -> S] : \A n \in 1..N : f[n] = step[n][f[prev[n]]]
  <2>1. {} \in S
    OBVIOUS
  <2> HIDE DEF step, prev, S, N
  <2>2. \E d \in [0..N -> S] : Solves(d, N, {}, prev, step)
    BY <1>1, <1>2, <2>1, RecursiveFunction
  <2> QED BY <2>2 DEF Solves
<1> DEFINE g == [j \in items |-> f[j]]
<1>4. g = [j \in items |-> Value(g, j)]
  <2> SUFFICES ASSUME NEW j \in items PROVE f[j] = Value(g, j)
    OBVIOUS
  <2>1. j \in 1..N /\ prev[j] = Before(j) /\ Before(j) \in 0..N
    BY <1>1
  <2>2. f[Before(j)] \in S
    BY <1>3, <2>1
  <2>3. step[j][f[Before(j)]] = {j} \cup (IF Before(j) \in items THEN f[Before(j)] ELSE {})
    BY <2>1, <2>2
  <2> HIDE DEF step, prev
  <2> QED BY <1>3, <2>1, <2>3
<1>5. up = [j \in items |-> Value(up, j)]
  <2> HIDE DEF g, Value
  <2> QED BY <1>4
<1>6. ASSUME NEW i PROVE Upwards(items, i) = up[i]
  BY DEF Upwards, Before
<1> HIDE DEF up
<1>7. ASSUME NEW j \in items PROVE up[j] = Value(up, j)
  <2> HIDE DEF Value
  <2> QED BY <1>5
<1> DEFINE T == {n \in 0..N : n \in items => up[n] = Line(n)}
<1>8. ASSUME NEW n \in 0..N, \A k \in 0..(n - 1) : k \in T PROVE n \in T
  <2> SUFFICES ASSUME n \in items PROVE up[n] = Line(n)
    OBVIOUS
  <2>1. /\ n \in 1..N /\ Line(n) = Line(Before(n)) \cup {n}
        /\ Before(n) \in 0..(n - 1) /\ Before(n) \in T
    BY <1>1, <1>8 DEF LineLaw
  <2>2. up[n] = {n} \cup (IF Before(n) \in items THEN up[Before(n)] ELSE {})
    BY <1>7
  <2>3. CASE Before(n) \in items
    BY <2>1, <2>2, <2>3
  <2>4. CASE Before(n) \notin items
    <3>1. Before(n) = NoItem
      BY <2>4
    <3>2. Line(Before(n)) = {}
      BY <1>1, <3>1 DEF LineLaw
    <3> QED BY <2>1, <2>2, <2>4, <3>2
  <2> QED BY <2>3, <2>4
<1>9. 0..N \subseteq T
  <2> HIDE DEF T, N
  <2> QED BY <1>1, <1>8, StrongInduction
<1> QED BY <1>1, <1>6, <1>9

\* The history has the user's items and, with each item, the one before it.
LEMMA HistoryIsClosed ==
  ASSUME Types, NEW o
  PROVE  /\ Visible(o, Ids) \subseteq History(o) /\ History(o) \subseteq Ids
         /\ \A i \in History(o) : Before(i) \in History(o) \cup {NoItem}
<1> DEFINE own == Visible(o, Ids)
           cut == {i \in own : Before(i) \notin own \cup {NoItem}}
<1>1. /\ LineLaw /\ Len(store) \in Nat /\ Ids = 1..Len(store)
      /\ \A n \in Ids : Before(n) \in 0..(n - 1)
  BY LineFacts DEF Types, Ids, Before
<1>2. History(o) = own \cup UNION {Line(i) : i \in cut}
  BY DEF History, Before
<1>3. own \subseteq Ids /\ cut \subseteq own
  BY DEF Visible
<1> HIDE DEF own
<1>4. \A i \in Ids : Line(i) \subseteq Ids
  BY <1>1 DEF LineLaw
<1>5. ASSUME NEW i \in Ids, Before(i) # NoItem PROVE Before(i) \in Line(i) /\ Before(i) \in Ids
  <2>1. Before(i) \in Ids
    BY <1>1, <1>5 DEF NoItem
  <2>2. Line(Before(i)) = Line(Before(Before(i))) \cup {Before(i)}
    BY <1>1, <2>1 DEF LineLaw
  <2> QED BY <1>1, <2>1, <2>2 DEF LineLaw
<1>6. ASSUME NEW i \in History(o), Before(i) # NoItem PROVE Before(i) \in History(o)
  <2>1. CASE i \in own
    <3>1. CASE i \in cut
      BY <1>2, <1>3, <1>5, <1>6, <3>1
    <3>2. CASE i \notin cut
      BY <1>2, <1>6, <2>1, <3>2
    <3> QED BY <3>1, <3>2
  <2>2. CASE i \notin own
    <3>1. PICK c \in cut : i \in Line(c)
      BY <1>2, <1>6, <2>2
    <3>2. c \in Ids /\ i \in Ids
      BY <1>3, <1>4, <3>1
    <3>3. Line(i) \subseteq Line(c)
      BY <3>1, <3>2, LineIsChain
    <3> QED BY <1>2, <1>5, <1>6, <3>1, <3>2, <3>3
  <2> QED BY <2>1, <2>2
<1> QED BY <1>2, <1>3, <1>4, <1>6 DEF own

\* The least and the greatest of some items.
LEMMA LeastAndGreatest ==
  ASSUME NEW N \in Nat, NEW X, X \subseteq 1..N, X # {}
  PROVE  /\ Min(X) \in X /\ \A x \in X : Min(X) <= x
         /\ Max(X) \in X /\ \A x \in X : x <= Max(X)
<1>1. X \subseteq Nat
  OBVIOUS
<1>2. \E m \in X : \A x \in X : m <= x
  BY <1>1, LeastNumber
<1>3. \E m \in X : \A x \in X : m >= x
  <2> DEFINE Y == {k \in 0..N : N - k \in X}
  <2>1. PICK x \in X : TRUE
    OBVIOUS
  <2>2. x \in 1..N
    OBVIOUS
  <2>3. N - x \in 0..N /\ N - (N - x) = x
    BY <2>2
  <2>4. Y \subseteq Nat /\ Y # {}
    BY <2>3
  <2> HIDE DEF Y
  <2>5. PICK k \in Y : \A y \in Y : k <= y
    BY <2>4, LeastNumber
  <2>6. k \in 0..N /\ N - k \in X
    BY DEF Y
  <2>7. ASSUME NEW y \in X PROVE N - k >= y
    <3>1. y \in 1..N
      OBVIOUS
    <3>2. N - y \in 0..N /\ N - (N - y) = y
      BY <3>1
    <3>3. N - y \in Y
      BY <3>2 DEF Y
    <3> QED BY <2>5, <2>6, <3>1, <3>3
  <2> QED BY <2>6, <2>7
<1>4. Min(X) \in X /\ \A x \in X : Min(X) <= x
  BY <1>2 DEF Min
<1>5. Max(X) \in X /\ \A x \in X : Max(X) >= x
  BY <1>3 DEF Max
<1>6. \A x, y \in Nat : x >= y <=> y <= x
  OBVIOUS
<1> QED BY <1>1, <1>4, <1>5, <1>6

\* The forest decides what the history shows: nothing of the runs but the storage matters.
LEMMA HistoryIsWhole ==
  ASSUME Types, NEW o \in Origins
  PROVE  LET own == Visible(o, Ids)
             items == History(o)
             top == [i \in own |-> Min(Visible(o, Line(i)))]
             heads == Heads(o, items)
         IN /\ {h[2] : h \in heads} = {top[i] : i \in own}
            /\ \A h \in heads : LET dialog == {i \in own : top[i] = h[2]} IN
                 h[1] = Max(dialog) /\ dialog \subseteq Shown(o, h[1]) /\ ValidParent(o, h[1])
<1> DEFINE N == Len(store)
           own == Visible(o, Ids)
           items == History(o)
           top == [i \in own |-> Min(Visible(o, Line(i)))]
           heads == Heads(o, items)
           leaves == Leaves(o, items)
           Above(i) == Visible(o, Line(i))
           Under(root) == {i \in own : root \in Line(i)}
           Newest(root) == Max({i \in leaves : root \in Upwards(items, i)})
<1>1. /\ LineLaw /\ N \in Nat /\ Ids = 1..N
      /\ \A i \in Ids : i \in Line(i) /\ Line(i) \subseteq 1..i /\ Line(i) \subseteq Ids
  <2>1. LineLaw /\ N \in Nat /\ Ids = 1..N
    BY LineFacts DEF Types, Ids
  <2> QED BY <2>1 DEF LineLaw
<1>2. /\ own \subseteq items /\ items \subseteq Ids /\ own \subseteq Ids
      /\ \A i \in items : Before(i) \in items \cup {NoItem}
  BY HistoryIsClosed DEF Visible
<1>3. \A i \in items : Upwards(items, i) = Line(i)
  BY <1>2, UpwardsIsLine
<1>4. \A i \in Ids : \A b \in Line(i) :
        /\ Line(b) \subseteq Line(i)
        /\ \A a \in Line(i) : a <= b => a \in Line(b)
  BY LineIsChain
<1>5. \A i \in Ids : i \in own <=> store[i].origin = o
  BY DEF Visible
<1>6. Visible(o, items) = own
  BY <1>2 DEF Visible
<1>7. \A i \in Ids : Above(i) = {j \in Line(i) : store[j].origin = o}
  BY DEF Visible
<1> HIDE DEF own, items, N
<1>8. Roots(o, items) = {i \in own : \A j \in Line(i) : j # i => store[j].origin # o}
  BY <1>2, <1>3, <1>6 DEF Roots
<1>9. /\ leaves \subseteq own
      /\ \A i \in own : i \in leaves <=> \A j \in own : Before(j) # i
  BY <1>6 DEF Leaves, Before
<1>10. heads = {<<Newest(root), root>> : root \in Roots(o, items)}
  BY DEF Heads
<1> HIDE DEF leaves, heads
\* The topmost item of the user above one of the user is a root.
<1>11. ASSUME NEW i \in own
       PROVE  /\ top[i] \in Line(i) /\ top[i] \in own /\ top[i] \in Roots(o, items)
              /\ \A j \in Above(i) : top[i] <= j
  <2>1. i \in Ids /\ i \in Above(i) /\ Above(i) \subseteq Line(i) /\ Above(i) \subseteq 1..N
    BY <1>1, <1>2, <1>5, <1>7
  <2>2. top[i] = Min(Above(i))
    OBVIOUS
  <2> HIDE DEF Above, top
  <2>3. top[i] \in Above(i) /\ \A j \in Above(i) : top[i] <= j
    BY <1>1, <2>1, <2>2, LeastAndGreatest
  <2>4. top[i] \in Line(i) /\ top[i] \in Ids /\ top[i] \in own
    BY <1>1, <1>5, <1>7, <2>1, <2>3
  <2>5. ASSUME NEW j \in Line(top[i]), j # top[i] PROVE store[j].origin # o
    <3>1. Line(top[i]) \subseteq Line(i) /\ Line(top[i]) \subseteq 1..top[i]
      BY <1>1, <1>4, <2>1, <2>4
    <3>2. j \in Line(i) /\ j <= top[i] /\ j \in Nat /\ top[i] \in Nat
      BY <1>1, <2>4, <3>1
    <3>3. ~ (top[i] <= j)
      BY <2>5, <3>2
    <3> QED BY <1>7, <2>1, <2>3, <3>2, <3>3
  <2> QED BY <1>8, <2>3, <2>4, <2>5
<1>12. ASSUME NEW root \in Roots(o, items)
       PROVE  /\ root \in own /\ root \in Ids
              /\ {i \in own : top[i] = root} = Under(root)
  <2>1. root \in own /\ root \in Ids
    BY <1>2, <1>8
  <2>2. ASSUME NEW i \in own, root \in Line(i) PROVE top[i] = root
    <3>1. root \in Above(i) /\ i \in Ids
      BY <1>2, <1>5, <1>7, <2>1, <2>2
    <3>2. top[i] <= root /\ top[i] \in Line(i) /\ top[i] \in own
      BY <1>11, <3>1
    <3>3. top[i] \in Line(root)
      BY <1>4, <2>2, <3>1, <3>2
    <3> QED BY <1>2, <1>5, <1>8, <3>2, <3>3
  <2>3. ASSUME NEW i \in own, top[i] = root PROVE root \in Line(i)
    BY <1>11, <2>3
  <2> QED BY <2>1, <2>2, <2>3
<1>13. {h[2] : h \in heads} = {top[i] : i \in own}
  <2>1. {h[2] : h \in heads} = Roots(o, items)
    <3> HIDE DEF Newest, top
    <3>1. \A root \in Roots(o, items) : <<Newest(root), root>>[2] = root
      OBVIOUS
    <3>2. \A h \in heads : h[2] \in Roots(o, items)
      BY <1>10, <3>1
    <3>3. \A root \in Roots(o, items) : \E h \in heads : h[2] = root
      BY <1>10, <3>1
    <3> QED BY <3>2, <3>3
  <2>2. ASSUME NEW root \in Roots(o, items) PROVE root \in own /\ top[root] = root
    <3>1. root \in Under(root)
      BY <1>1, <1>12
    <3> QED BY <1>12, <3>1
  <2> HIDE DEF top
  <2> QED BY <1>11, <2>1, <2>2
<1>14. ASSUME NEW root \in Roots(o, items)
       PROVE  LET dialog == Under(root)
                  head == Newest(root)
              IN head = Max(dialog) /\ dialog \subseteq Shown(o, head) /\ ValidParent(o, head)
  <2> DEFINE dialog == Under(root)
             last == Max(dialog)
  <2>1. root \in own /\ root \in Ids /\ root \in dialog
    BY <1>1, <1>12
  <2>2. dialog \subseteq own /\ dialog \subseteq 1..N /\ dialog # {}
    BY <1>1, <1>2, <2>1
  <2>3. \A i \in own : i \in dialog <=> root \in Line(i)
    OBVIOUS
  <2> HIDE DEF dialog
  <2>4. last \in dialog /\ \A x \in dialog : x <= last
    BY <1>1, <2>2, LeastAndGreatest
  <2> HIDE DEF last
  <2>5. last \in own /\ last \in Ids /\ last \in items /\ root \in Line(last) /\ last \in Nat
    BY <1>1, <1>2, <2>2, <2>3, <2>4
  <2>6. last \in leaves
    <3> SUFFICES ASSUME NEW j \in own, Before(j) = last PROVE FALSE
      BY <1>9, <2>5
    <3>1. j \in Ids /\ Line(j) = Line(last) \cup {j} /\ last \in 0..(j - 1)
      BY <1>1, <1>2 DEF LineLaw
    <3>2. j \in dialog
      BY <2>3, <2>5, <3>1
    <3>3. j \in Nat /\ j <= last
      BY <1>1, <2>4, <3>1, <3>2
    <3> QED BY <3>1, <3>3
  <2> DEFINE ends == {i \in leaves : root \in Upwards(items, i)}
  <2>7. ends \subseteq dialog /\ last \in ends
    <3>1. \A i \in leaves : i \in own /\ i \in items
      BY <1>2, <1>9
    <3> QED BY <1>3, <2>3, <2>5, <2>6, <3>1
  <2>8. Newest(root) = Max(ends)
    OBVIOUS
  <2> HIDE DEF ends
  <2>9. Max(ends) = last
    <3>1. ends \in SUBSET Nat /\ \A y \in ends : y <= last
      BY <2>2, <2>4, <2>7
    <3> QED BY <2>7, <3>1, Greatest
  <2>10. dialog \subseteq Shown(o, last)
    <3> DEFINE first == Min(Line(last))
    <3>1. Line(last) \subseteq 1..N /\ Line(last) # {}
      BY <1>1, <2>5
    <3>2. first \in Line(last) /\ \A x \in Line(last) : first <= x
      BY <1>1, <3>1, LeastAndGreatest
    <3>3. Shown(o, last) = {i \in items : first \in Upwards(items, i)}
      BY <1>3, <2>5 DEF Shown, Tree, items
    <3> HIDE DEF first
    <3>4. first \in Line(root)
      BY <1>4, <2>5, <3>2
    <3>5. ASSUME NEW i \in dialog PROVE i \in Shown(o, last)
      <4>1. i \in own /\ i \in items /\ i \in Ids /\ root \in Line(i)
        BY <1>2, <2>2, <2>3
      <4>2. first \in Line(i)
        BY <1>4, <3>4, <4>1
      <4> QED BY <1>3, <3>3, <4>1, <4>2
    <3> QED BY <3>5
  <2>11. ValidParent(o, last)
    BY <1>1, <1>5, <2>5 DEF ValidParent, Visible
  <2> QED BY <2>8, <2>9, <2>10, <2>11 DEF last, dialog
<1>15. ASSUME NEW h \in heads
       PROVE  LET dialog == {i \in own : top[i] = h[2]} IN
                h[1] = Max(dialog) /\ dialog \subseteq Shown(o, h[1]) /\ ValidParent(o, h[1])
  <2>1. PICK root \in Roots(o, items) : h = <<Newest(root), root>>
    BY <1>10
  <2>2. h[1] = Newest(root) /\ h[2] = root
    BY <2>1
  <2> HIDE DEF Newest, Under, top
  <2> QED BY <1>12, <1>14, <2>2
<1> QED BY <1>13, <1>15 DEF own, items, heads

-----------------------------------------------------------------------------
(* Theorems                                                                *)

\* RunCtx and the stored items are what the annotations of agent.py say, and every
\* item is linked to one stored before it.
THEOREM TypeCorrect == Spec => []TypeOK
<1>1. IInv => TypeOK
  <2> SUFFICES ASSUME IInv PROVE TypeOK
    OBVIOUS
  <2>1. Types
    BY DEF IInv
  <2>2. ASSUME NEW i \in DOMAIN store
        PROVE  /\ store[i].by \in Runs /\ store[i].type \in OutputTypes \cup {"input"}
               /\ store[i].prev \in 0..(i - 1)
               /\ store[i].origin \in Origins /\ store[i].chain \in Chains \cup {Empty}
    <3>1. store[i] \in StoredItems /\ store[i].prev \in 0..(i - 1)
      BY <2>1 DEF Types
    <3> QED BY <3>1 DEF StoredItems, ChainStates
  <2>3. ASSUME NEW r \in Runs
        PROVE  /\ run[r].pc \in Places /\ run[r].outcome \in Outcomes
               /\ {run[r].base, run[r].last, run[r].tail} \subseteq 0..Len(store)
               /\ {run[r].origin, run[r].moved, run[r].typing} \subseteq Origins \cup {NoOrigin}
               /\ run[r].chain \in Chains \cup {Empty}
    <3>1. run[r] \in Contexts /\ PointsAtItems(r)
      BY Context DEF RunInv
    <3>2. /\ run[r].pc \in Places /\ run[r].outcome \in Outcomes
          /\ run[r].origin \in Dialogs /\ run[r].moved \in Dialogs /\ run[r].typing \in Dialogs
          /\ run[r].chain \in ChainStates
      BY <3>1 DEF Contexts
    <3> QED BY <3>1, <3>2 DEF PointsAtItems, Dialogs, ChainStates
  <2> QED BY <2>2, <2>3 DEF TypeOK
<1> QED BY <1>1, Inductive, PTL

\* Everything a run stores after its input is one path of the dialog forest, however
\* many other runs store in between and wherever it fails or is cancelled.
THEOREM OnePathEach == Spec => []OutputsFormOnePath
<1>1. IInv => OutputsFormOnePath
  <2> SUFFICES ASSUME IInv PROVE OutputsFormOnePath
    OBVIOUS
  <2>1. \A r \in Runs : OnePath(r)
    BY DEF IInv, RunInv
  <2> QED BY <2>1 DEF OnePath, OutputsFormOnePath
<1> QED BY <1>1, Inductive, PTL

\* What a run has shown and what it has stored differ by the item in delivery at most.
THEOREM StoredIsShown == Spec => []HistoryIsWhatWasShown
<1>1. IInv => HistoryIsWhatWasShown
  <2> SUFFICES ASSUME IInv PROVE HistoryIsWhatWasShown
    OBVIOUS
  <2>1. \A r \in Runs : Shows(r)
    BY DEF IInv, RunInv
  <2> QED BY <2>1 DEF Shows, OwnOutputs, HistoryIsWhatWasShown
<1> QED BY <1>1, Inductive, PTL

\* Whenever a run asks the model, each tool call it has made has exactly one result.
THEOREM EveryCallIsAnswered == Spec => []CallsAreAnswered
<1>1. IInv => CallsAreAnswered
  <2> SUFFICES ASSUME IInv, NEW r \in Runs, At(r, "ask"), NEW n \in 1..run[r].made
               PROVE  Cardinality({m \in DOMAIN run[r].shown :
                        run[r].shown[m] = [type |-> "result", call |-> <<r, n>>]}) = 1
    BY DEF CallsAreAnswered
  <2>1. run[r].pc = "ask" /\ run[r].made \in Nat /\ \E k \in Nat : Ledger(r, k)
    BY InTheLoop DEF At, Loop
  <2>2. PICK k \in Nat : Ledger(r, k)
    BY <2>1
  <2>3. k = run[r].made /\ ~ Pending(r)
    BY <2>1, <2>2 DEF Ledger, Pending
  <2>4. n \in Nat \ {0} /\ (n < k \/ n = k)
    BY <2>1, <2>3
  <2>5. Once(r, n)
    BY <2>2, <2>3, <2>4 DEF Ledger
  <2>6. PICK m \in DOMAIN run[r].shown :
          /\ run[r].shown[m] = ResultOf(r, n)
          /\ \A j \in DOMAIN run[r].shown : run[r].shown[j] = ResultOf(r, n) => j = m
    BY <2>5 DEF Once
  <2>7. {j \in DOMAIN run[r].shown : run[r].shown[j] = [type |-> "result", call |-> <<r, n>>]}
          = {m}
    BY <2>6 DEF ResultOf
  <2> QED BY <2>7, FS_Singleton
<1> QED BY <1>1, Inductive, PTL

\* AFTER_RUN fires once, and only a cancellation that hits the end of a run takes it
\* to its end without it.
THEOREM AfterRunFires == Spec => AfterRunRuns
<1> DEFINE Ended(r) ==
      /\ run'[r].afterRun <= 1
      /\ (run[r].pc \notin {"new", "done"} /\ run'[r].pc = "done") =>
           run'[r].afterRun = 1 \/ run'[r].cancels > run[r].cancels
<1>1. IInv /\ [Next]_vars => [\A r \in Runs : Ended(r)]_vars
  <2> SUFFICES ASSUME IInv, [Next]_vars PROVE \A r \in Runs : Ended(r)
    OBVIOUS
  <2>1. IInv' /\ \A r \in Runs : Finished(r)
    BY NextKeeps DEF Keeps
  <2>2. \A r \in Runs : run'[r].afterRun <= 1
    BY <2>1 DEF IInv, RunInv, Ends
  <2> QED BY <2>1, <2>2 DEF Finished
<1> QED BY <1>1, Inductive, PTL DEF Spec, AfterRunRuns

\* Whenever a run asks the model, the outputs of the run in the dialog the model gets are
\* the lines the user has been shown, in that order, whether the run is saved or not.
THEOREM ModelKnowsDialog == Spec => []ModelSeesWhatUserSaw
<1>1. IInv /\ SInv => ModelSeesWhatUserSaw
  <2> SUFFICES ASSUME IInv, SInv, NEW r \in Runs, At(r, "ask")
               PROVE  LET dialog == Dialog(r)
                          own == {n \in DOMAIN dialog :
                                    dialog[n].by = r /\ dialog[n].type \in OutputTypes}
                      IN /\ Cardinality(own) = Len(run[r].shown)
                         /\ \A n \in own : [type |-> dialog[n].type, call |-> dialog[n].call]
                              = run[r].shown[Cardinality({m \in own : m <= n})]
    BY DEF ModelSeesWhatUserSaw
  <2>1. run[r].pc = "ask" /\ run[r].pc \in Body
    BY DEF At, Body, Loop
  <2>2. Holds(r, Dialog(r), run[r].shown, Len(run[r].shown))
    BY <2>1 DEF SInv, Sees, Told
  <2> QED BY <2>2 DEF Holds, Ours, OutLine
<1>2. Init => SInv
  BY InitSees
<1>3. IInv /\ IInv' /\ SInv /\ [Next]_vars => SInv'
  BY NextSees
<1> QED BY <1>1, <1>2, <1>3, Inductive, PTL DEF Spec

\* The history loses nothing, whatever the runs have stored: each of a user's items is in
\* exactly the listed dialog that begins at the user's topmost item above it, that dialog
\* shows it when it is opened, and it is continued from its newest item.
THEOREM HistoryIsComplete == Spec => []HistoryShowsEverything
<1>1. IInv => HistoryShowsEverything
  BY HistoryIsWhole DEF IInv, HistoryShowsEverything
<1> QED BY <1>1, Inductive, PTL
==============================================================================
