--------------------------- MODULE ServiceProofs ---------------------------
(***************************************************************************)
(* Theorems about the services of an agent: first that their managers      *)
(* (Instances) keep one running instance for every class in scope, for any *)
(* classes, changes and failures; then what an execution of one of them,   *)
(* CodeAct (CodeActExec), leaves behind, for any tool calls and any number *)
(* of cancellations.                                                       *)
(***************************************************************************)
EXTENDS Instances, CodeActExec, FiniteSetTheorems, SequenceTheorems, TLAPS

-----------------------------------------------------------------------------
(* Instances: the inductive invariant                                      *)

Distinct(S) == {s \in Seq(S) : IsInjective(s)}
Lifes == {"starting", "up", "stopping", "stopped", "broken"}
Thing == [name : NameSet, ver : Versions, life : Lifes, stops : Nat]
Scopes == [NameSet -> Versions \cup {0}]
Loops == {"removing", "restarting", "creating", "refreshing"}
Syncs(made) ==
  [at : Loops \cup {"idle"}, kind : {"none", "start", "refresh"}, todo : Distinct(NameSet),
   held : 0 .. made, want : Scopes]
Halts(made) == [at : {"idle", "stop", "rollback", "cleared"}, ix : Nat, held : 0 .. made]

ScanType == scope \in Scopes /\ descs \in Scopes
ThingType ==
  /\ things \in Seq(Thing) /\ order \in Distinct(1 .. Len(things))
  /\ byId \in [NameSet -> 0 .. Len(things)] /\ byClass \in [Classes -> 0 .. Len(things)]
StepType ==
  /\ sync \in Syncs(Len(things)) /\ halt \in Halts(Len(things))
  /\ overlapped \in BOOLEAN /\ stopFailed \in BOOLEAN

IsUp(i) == things[i].life = "up"
HaltsAll == halt.at \in {"stop", "rollback"}
Dropping == sync.at \in {"removing", "restarting"}

\* A name is listed once; the instance a refresh brings is not listed yet.
OneEach ==
  /\ \A i, j \in ToSet(order) : NameOf(i) = NameOf(j) => i = j
  /\ sync.at = "creating" /\ sync.held # 0 => NameOf(sync.held) \notin Listed

Phases ==
  /\ sync.at = "idle" => sync = NoSync
  /\ halt.at = "idle" => halt = NoHalt
  /\ sync.at = "refreshing" => sync.held = 0
  /\ halt.at = "cleared" => halt.held = 0
  /\ sync.at = "idle" \/ halt.at = "idle" \/ overlapped

\* What is up is listed, and a stop has still to come to it.
Accounted ==
  /\ \A i \in 1 .. Len(things) : IsUp(i) => i \in ToSet(order)
  /\ HaltsAll => /\ halt.ix <= Len(order)
                 /\ \A k \in 1 .. Len(order) : k > halt.ix => ~IsUp(order[k])
  /\ halt.at = "cleared" => order = <<>>
  /\ sync.held # 0 => sync.held \notin ToSet(order) /\ ~IsUp(sync.held)
  /\ halt.held # 0 => ~IsUp(halt.held)

\* The registry names nothing but instances of S.
RegistryWithin(S) ==
  /\ \A n \in NameSet : byId[n] \in S \cup {0}
  /\ \A c \in Classes : byClass[c] \in S \cup {0}
ToHalt == {order[k] : k \in 1 .. halt.ix} \cup {halt.held}

Registered ==
  /\ \A n \in NameSet : byId[n] # 0 => NameOf(byId[n]) = n
  /\ \A i \in ToSet(order) :
       IsUp(i) => byId[NameOf(i)] = i /\ byClass[<<NameOf(i), things[i].ver>>] = i
  /\ Dropping => RegistryWithin(ToSet(order) \cup {sync.held})
  /\ ~Dropping /\ halt.at = "idle" => RegistryWithin(ToSet(order))
  /\ HaltsAll => RegistryWithin(ToHalt)
  /\ halt.at = "cleared" => RegistryWithin({})
  /\ halt.at = "idle" => \A i \in ToSet(order) : IsUp(i)

\* What the loops of a refresh have done, and what they have still to do.
Fits(i) == Fingerprint(things[i].ver) = Fingerprint(sync.want[NameOf(i)])
Ahead == ToSet(sync.todo)
Progress ==
  /\ sync.at = "removing" => \A i \in ToSet(order) : sync.want[NameOf(i)] = 0 => NameOf(i) \in Ahead
  /\ sync.at \in {"restarting", "creating", "refreshing"} =>
       \A i \in ToSet(order) : sync.want[NameOf(i)] # 0
  /\ sync.at = "restarting" => \A i \in ToSet(order) : Fits(i) \/ NameOf(i) \in Ahead
  /\ sync.at \in {"creating", "refreshing"} => \A i \in ToSet(order) : Fits(i)
  /\ sync.at = "creating" /\ sync.held # 0 => Fits(sync.held) /\ sync.want[NameOf(sync.held)] # 0
  /\ sync.at = "creating" => \A n \in NameSet : sync.want[n] # 0 =>
       n \in Listed \cup Ahead \/ (sync.held # 0 /\ NameOf(sync.held) = n)
  /\ sync.at = "refreshing" => \A n \in NameSet : sync.want[n] # 0 => n \in Listed

ServicesInv ==
  /\ ScanType /\ ThingType /\ StepType /\ OneEach /\ Phases
  /\ ~overlapped => Accounted /\ Progress
  /\ ~overlapped /\ ~stopFailed => Registered

-----------------------------------------------------------------------------
(* Lists without repetitions                                               *)

LEMMA Interval ==
  ASSUME NEW n \in Nat
  PROVE  IsFiniteSet(1 .. n) /\ Cardinality(1 .. n) = n
BY FS_Interval

LEMMA DistinctFacts ==
  ASSUME NEW S, NEW list \in Distinct(S)
  PROVE  /\ Len(list) \in Nat /\ DOMAIN list = 1 .. Len(list)
         /\ \A i \in 1 .. Len(list) : list[i] \in S /\ list[i] \in ToSet(list)
         /\ \A c \in ToSet(list) : \E i \in 1 .. Len(list) : list[i] = c
         /\ \A i, j \in 1 .. Len(list) : list[i] = list[j] => i = j
         /\ ToSet(list) \subseteq S
BY DEF Distinct, IsInjective, ToSet

LEMMA DistinctNone ==
  ASSUME NEW S
  PROVE  <<>> \in Distinct(S) /\ ToSet(<<>>) = {} /\ Len(<<>>) = 0
<1>1. <<>> \in Seq(S) /\ Len(<<>>) = 0
  OBVIOUS
<1>2. DOMAIN <<>> = {}
  OBVIOUS
<1> QED BY <1>1, <1>2 DEF Distinct, IsInjective, ToSet

LEMMA DistinctGrows ==
  ASSUME NEW m \in Nat, NEW n \in Nat, m <= n
  PROVE  Distinct(1 .. m) \subseteq Distinct(1 .. n)
<1>1. 1 .. m \subseteq 1 .. n
  OBVIOUS
<1>2. Seq(1 .. m) \subseteq Seq(1 .. n)
  BY <1>1, SeqMonotonic
<1> QED BY <1>2 DEF Distinct

LEMMA DistinctRest ==
  ASSUME NEW S, NEW list \in Distinct(S), NEW k \in 1 .. Len(list)
  PROVE  /\ SubSeq(list, 1 + k, Len(list)) \in Distinct(S)
         /\ \A j \in 1 .. Len(list) : j > k => list[j] \in ToSet(SubSeq(list, 1 + k, Len(list)))
<1> DEFINE n == Len(list)
           b == SubSeq(list, 1 + k, Len(list))
<1>1. list \in Seq(S) /\ n \in Nat
  BY DEF Distinct
<1>2. /\ b \in Seq(S) /\ Len(b) = n - k
      /\ \A i \in 1 .. n - k : b[i] = list[k + i]
  BY <1>1
<1> HIDE DEF b
<1>3. IsInjective(b)
  <2> SUFFICES ASSUME NEW i \in 1 .. n - k, NEW j \in 1 .. n - k, b[i] = b[j] PROVE i = j
    BY <1>2 DEF IsInjective
  <2>1. k + i \in 1 .. n /\ k + j \in 1 .. n /\ list[k + i] = list[k + j]
    BY <1>1, <1>2
  <2>2. k + i = k + j
    BY <2>1, DistinctFacts
  <2> QED BY <2>2, <1>1
<1>4. ASSUME NEW j \in 1 .. n, j > k PROVE list[j] \in ToSet(b)
  <2>1. j - k \in 1 .. n - k /\ k + (j - k) = j
    BY <1>1, <1>4
  <2>2. b[j - k] = list[j]
    BY <1>2, <2>1
  <2> QED BY <1>2, <2>1, <2>2 DEF ToSet
<1> QED BY <1>2, <1>3, <1>4 DEF Distinct, b

\* Something new is added at its end.
LEMMA DistinctAppend ==
  ASSUME NEW S, NEW list \in Distinct(S), NEW c \in S, c \notin ToSet(list)
  PROVE  /\ Append(list, c) \in Distinct(S)
         /\ ToSet(Append(list, c)) = ToSet(list) \cup {c}
         /\ Len(Append(list, c)) = Len(list) + 1
         /\ \A i \in 1 .. Len(list) + 1 :
              Append(list, c)[i] = IF i = Len(list) + 1 THEN c ELSE list[i]
<1> DEFINE s == Append(list, c)
<1>1. list \in Seq(S) /\ Len(list) \in Nat
  BY DEF Distinct
<1>2. /\ s \in Seq(S) /\ Len(s) = Len(list) + 1
      /\ \A i \in 1 .. Len(list) + 1 : s[i] = IF i = Len(list) + 1 THEN c ELSE list[i]
  BY <1>1, AppendProperties
<1> HIDE DEF s
<1>3. \A i \in 1 .. Len(list) : list[i] # c
  BY DistinctFacts
<1>4. IsInjective(s)
  <2> SUFFICES ASSUME NEW i \in 1 .. Len(list) + 1, NEW j \in 1 .. Len(list) + 1, s[i] = s[j]
               PROVE  i = j
    BY <1>2 DEF IsInjective
  <2>1. \A k \in 1 .. Len(list) + 1 : k \in 1 .. Len(list) \/ k = Len(list) + 1
    BY <1>1
  <2> QED BY <1>2, <1>3, <2>1, DistinctFacts
<1>5. ToSet(s) = ToSet(list) \cup {c}
  <2>1. ToSet(s) = {s[i] : i \in 1 .. Len(list) + 1}
    BY <1>2 DEF ToSet
  <2>2. ASSUME NEW x \in ToSet(list) PROVE x \in ToSet(s)
    <3>1. PICK i \in 1 .. Len(list) : list[i] = x
      BY DistinctFacts
    <3>2. i \in 1 .. Len(list) + 1 /\ i # Len(list) + 1
      BY <1>1
    <3> QED BY <2>1, <3>1, <3>2, <1>2
  <2>3. c \in ToSet(s)
    <3>1. Len(list) + 1 \in 1 .. Len(list) + 1
      BY <1>1
    <3> QED BY <2>1, <3>1, <1>2
  <2>4. ASSUME NEW x \in ToSet(s) PROVE x \in ToSet(list) \cup {c}
    <3>1. PICK i \in 1 .. Len(list) + 1 : s[i] = x
      BY <2>1
    <3>2. CASE i = Len(list) + 1
      BY <1>2, <3>1, <3>2
    <3>3. CASE i # Len(list) + 1
      <4>1. i \in 1 .. Len(list)
        BY <1>1, <3>3
      <4> QED BY <1>2, <3>1, <4>1, DistinctFacts
    <3> QED BY <3>2, <3>3
  <2> QED BY <2>2, <2>3, <2>4
<1> QED BY <1>2, <1>4, <1>5 DEF Distinct, s

LEMMA DistinctRemove ==
  ASSUME NEW S, NEW list \in Distinct(S), NEW c \in ToSet(list)
  PROVE  /\ RemoveFirst(list, c) \in Distinct(S)
         /\ ToSet(RemoveFirst(list, c)) = ToSet(list) \ {c}
         /\ Len(RemoveFirst(list, c)) = Len(list) - 1
<1> DEFINE s == RemoveFirst(list, c)
           n == Len(list)
<1>1. list \in Seq(S) /\ n \in Nat
  BY DEF Distinct
<1>2. PICK k \in 1 .. n : list[k] = c
  BY DistinctFacts
<1>3. {i \in 1 .. n : list[i] = c} = {k}
  BY <1>2, DistinctFacts
<1>4. SelectInSeq(list, LAMBDA v : v = c) = k
  <2>1. \A x \in {k} : (\A y \in {k} : x <= y) => x = k
    OBVIOUS
  <2>2. (CHOOSE x \in {k} : \A y \in {k} : x <= y) = k
    BY <1>1
  <2> QED BY <1>3, <2>2 DEF SelectInSeq, Min
<1>5. s = SubSeq(list, 1, k - 1) \o SubSeq(list, k + 1, n)
  BY <1>2, <1>4 DEF RemoveFirst, RemoveAt
<1> HIDE DEF s
<1>6. /\ SubSeq(list, 1, k - 1) \in Seq(S) /\ Len(SubSeq(list, 1, k - 1)) = k - 1
      /\ \A i \in 1 .. k - 1 : SubSeq(list, 1, k - 1)[i] = list[i]
  BY <1>1, <1>2
<1>7. /\ SubSeq(list, k + 1, n) \in Seq(S) /\ Len(SubSeq(list, k + 1, n)) = n - k
      /\ \A i \in 1 .. n - k : SubSeq(list, k + 1, n)[i] = list[k + i]
  BY <1>1, <1>2
<1> DEFINE a == SubSeq(list, 1, k - 1)
           b == SubSeq(list, k + 1, n)
<1> HIDE DEF a, b
<1>8. /\ s \in Seq(S) /\ Len(s) = n - 1
      /\ \A i \in 1 .. n - 1 : s[i] = IF i < k THEN list[i] ELSE list[i + 1]
  <2>1. /\ a \in Seq(S) /\ Len(a) = k - 1 /\ b \in Seq(S) /\ Len(b) = n - k
        /\ \A i \in 1 .. k - 1 : a[i] = list[i]
        /\ \A i \in 1 .. n - k : b[i] = list[k + i]
    BY <1>6, <1>7 DEF a, b
  <2>2. s = a \o b
    BY <1>5 DEF a, b
  <2>3. /\ s \in Seq(S) /\ Len(s) = Len(a) + Len(b)
        /\ \A i \in 1 .. Len(a) + Len(b) : s[i] = IF i <= Len(a) THEN a[i] ELSE b[i - Len(a)]
    BY <2>1, <2>2, ConcatProperties
  <2>4. Len(a) + Len(b) = n - 1
    BY <2>1, <1>1, <1>2
  <2>5. ASSUME NEW i \in 1 .. n - 1 PROVE s[i] = IF i < k THEN list[i] ELSE list[i + 1]
    <3>1. s[i] = IF i <= k - 1 THEN a[i] ELSE b[i - (k - 1)]
      BY <2>1, <2>3, <2>4
    <3>2. CASE i < k
      <4>1. i \in 1 .. k - 1 /\ i <= k - 1
        BY <1>1, <1>2, <3>2
      <4> QED BY <3>1, <2>1, <4>1, <3>2
    <3>3. CASE ~ (i < k)
      <4>1. ~ (i <= k - 1) /\ i - (k - 1) \in 1 .. n - k /\ k + (i - (k - 1)) = i + 1
        BY <1>1, <1>2, <3>3
      <4> QED BY <3>1, <2>1, <4>1, <3>3
    <3> QED BY <3>2, <3>3
  <2> QED BY <2>3, <2>4, <2>5
<1>9. ASSUME NEW i \in 1 .. n - 1 PROVE s[i] \in ToSet(list) /\ s[i] # c
  <2>1. CASE i < k
    <3>1. i \in 1 .. n /\ i # k
      BY <1>1, <1>2, <2>1
    <3> QED BY <1>2, <1>8, <2>1, <3>1, DistinctFacts
  <2>2. CASE ~ (i < k)
    <3>1. i + 1 \in 1 .. n /\ i + 1 # k
      BY <1>1, <1>2, <2>2
    <3> QED BY <1>2, <1>8, <2>2, <3>1, DistinctFacts
  <2> QED BY <2>1, <2>2
<1>10. ASSUME NEW i \in 1 .. n - 1, NEW j \in 1 .. n - 1, s[i] = s[j] PROVE i = j
  <2> DEFINE Was(x) == IF x < k THEN x ELSE x + 1
  <2>1. /\ Was(i) \in 1 .. n /\ Was(j) \in 1 .. n
        /\ list[Was(i)] = s[i] /\ list[Was(j)] = s[j]
    BY <1>1, <1>2, <1>8
  <2>2. Was(i) = Was(j)
    <3> HIDE DEF Was
    <3> QED BY <2>1, <1>10, DistinctFacts
  <2> QED BY <1>2, <2>2
<1>11. ASSUME NEW x \in ToSet(list) \ {c} PROVE x \in ToSet(s)
  <2>1. PICK i \in 1 .. n : list[i] = x
    BY DistinctFacts
  <2>2. i # k
    BY <1>2, <2>1
  <2> DEFINE j == IF i < k THEN i ELSE i - 1
  <2>3. j \in 1 .. n - 1 /\ s[j] = x
    <3>1. CASE i < k
      BY <1>1, <1>2, <1>8, <2>1, <3>1
    <3>2. CASE ~ (i < k)
      <4>1. j \in 1 .. n - 1 /\ ~ (j < k) /\ j + 1 = i
        BY <1>1, <1>2, <2>2, <3>2
      <4> HIDE DEF j
      <4> QED BY <1>8, <2>1, <4>1
    <3> QED BY <3>1, <3>2
  <2> HIDE DEF j
  <2> QED BY <1>8, <2>3 DEF ToSet
<1>12. ToSet(s) = ToSet(list) \ {c}
  <2>1. \A x \in ToSet(s) : x \in ToSet(list) \ {c}
    BY <1>8, <1>9 DEF ToSet
  <2> QED BY <2>1, <1>11
<1>13. s \in Distinct(S)
  BY <1>8, <1>10 DEF Distinct, IsInjective
<1> QED BY <1>2, <1>8, <1>12, <1>13 DEF s

-----------------------------------------------------------------------------
(* Instances and their names                                               *)

LEMMA NamesFacts == Names \in Distinct(NameSet) /\ ToSet(Names) = NameSet
BY InstancesAssumption DEF Distinct, NameSet

LEMMA Known ==
  ASSUME ServicesInv
  PROVE  /\ Len(things) \in Nat /\ DOMAIN things = 1 .. Len(things)
         /\ \A i \in 1 .. Len(things) :
              /\ things[i] \in Thing
              /\ NameOf(i) \in NameSet /\ things[i].ver \in Versions
              /\ <<NameOf(i), things[i].ver>> \in Classes
         /\ Len(order) \in Nat /\ DOMAIN order = 1 .. Len(order)
         /\ \A k \in 1 .. Len(order) : order[k] \in ToSet(order)
         /\ \A i \in ToSet(order) : i \in 1 .. Len(things)
         /\ \A n \in NameSet : byId[n] \in 0 .. Len(things)
         /\ \A c \in Classes : byClass[c] \in 0 .. Len(things)
         /\ sync.held \in 0 .. Len(things) /\ halt.held \in 0 .. Len(things)
         /\ \A n \in Listed : \E i \in ToSet(order) : NameOf(i) = n
         /\ \A i \in ToSet(order) : NameOf(i) \in Listed
<1>1. things \in Seq(Thing) /\ order \in Distinct(1 .. Len(things))
  BY DEF ServicesInv, ThingType
<1>2. Len(things) \in Nat /\ DOMAIN things = 1 .. Len(things)
  BY <1>1
<1>3. ASSUME NEW i \in 1 .. Len(things)
      PROVE  /\ things[i] \in Thing
             /\ NameOf(i) \in NameSet /\ things[i].ver \in Versions
             /\ <<NameOf(i), things[i].ver>> \in Classes
  <2>1. things[i] \in Thing
    BY <1>1
  <2> QED BY <2>1 DEF Thing, NameOf, Classes
<1>4. /\ Len(order) \in Nat /\ DOMAIN order = 1 .. Len(order)
      /\ \A k \in 1 .. Len(order) : order[k] \in ToSet(order)
      /\ \A i \in ToSet(order) : i \in 1 .. Len(things)
  BY <1>1, DistinctFacts
<1>5. /\ \A n \in NameSet : byId[n] \in 0 .. Len(things)
      /\ \A c \in Classes : byClass[c] \in 0 .. Len(things)
  BY DEF ServicesInv, ThingType
<1>6. sync.held \in 0 .. Len(things) /\ halt.held \in 0 .. Len(things)
  BY DEF ServicesInv, StepType, Syncs, Halts
<1>7. /\ \A n \in Listed : \E i \in ToSet(order) : NameOf(i) = n
      /\ \A i \in ToSet(order) : NameOf(i) \in Listed
  BY DEF Listed
<1> QED BY <1>2, <1>3, <1>4, <1>5, <1>6, <1>7

\* The tables find the one instance of a name.
LEMMA InstanceFacts ==
  ASSUME ServicesInv, NEW n \in Listed
  PROVE  /\ Instance(n) \in ToSet(order) /\ NameOf(Instance(n)) = n
         /\ Instance(n) \in 1 .. Len(things) /\ n \in NameSet
         /\ \A i \in ToSet(order) : NameOf(i) = n => i = Instance(n)
<1>1. \E i \in ToSet(order) : NameOf(i) = n
  BY Known
<1>2. Instance(n) \in ToSet(order) /\ NameOf(Instance(n)) = n
  BY <1>1 DEF Instance
<1>3. \A i, j \in ToSet(order) : NameOf(i) = NameOf(j) => i = j
  BY DEF ServicesInv, OneEach
<1>4. Instance(n) \in 1 .. Len(things)
  BY <1>2, Known
<1>5. NameOf(Instance(n)) \in NameSet
  BY <1>4, Known
<1> QED BY <1>2, <1>3, <1>4, <1>5

\* While a stop and a refresh do not overlap, one of the two is idle.
LEMMA OneAtATime ==
  ASSUME ServicesInv, ~overlapped
  PROVE  /\ sync.at # "idle" => halt = NoHalt /\ halt.at = "idle" /\ halt.held = 0 /\ ~HaltsAll
         /\ halt.at # "idle" => sync = NoSync /\ sync.at = "idle" /\ sync.held = 0 /\ ~Dropping
BY DEF ServicesInv, Phases, NoHalt, NoSync, HaltsAll, Dropping

\* What the loop has come to, and what it has still to visit after that.
LEMMA VisitFacts ==
  ASSUME ServicesInv, NEW n \in NameSet, Visits(n)
  PROVE  /\ sync.held = 0 /\ Due(n)
         /\ After(n) \in Distinct(NameSet)
         /\ \A m \in Ahead : m = n \/ m \in ToSet(After(n)) \/ ~Due(m)
<1>1. sync.held = 0 /\ sync.todo \in Distinct(NameSet)
  BY DEF Visits, ServicesInv, StepType, Syncs
<1>2. PICK k \in DOMAIN sync.todo :
        sync.todo[k] = n /\ Due(n) /\ \A j \in 1 .. k - 1 : ~Due(sync.todo[j])
  BY DEF Visits
<1> DEFINE list == sync.todo
<1>3. /\ Len(list) \in Nat /\ DOMAIN list = 1 .. Len(list) /\ k \in 1 .. Len(list)
      /\ \A j \in DOMAIN list : list[j] = n => j = k
  BY <1>1, <1>2, DistinctFacts
<1>4. (CHOOSE j \in DOMAIN list : list[j] = n) = k
  BY <1>2, <1>3
<1>5. After(n) = SubSeq(list, 1 + k, Len(list))
  BY <1>4 DEF After
<1>6. /\ After(n) \in Distinct(NameSet)
      /\ \A j \in 1 .. Len(list) : j > k => list[j] \in ToSet(After(n))
  <2> HIDE DEF list
  <2> QED BY <1>1, <1>3, <1>5, DistinctRest DEF list
<1>7. ASSUME NEW m \in Ahead PROVE m = n \/ m \in ToSet(After(n)) \/ ~Due(m)
  <2>1. PICK j \in 1 .. Len(list) : list[j] = m
    BY <1>1, DistinctFacts DEF Ahead
  <2>2. j = k \/ j > k \/ j \in 1 .. k - 1
    BY <1>3
  <2> QED BY <1>2, <1>3, <1>6, <2>1, <2>2
<1> QED BY <1>1, <1>2, <1>6, <1>7

-----------------------------------------------------------------------------
(* Changes of the instances                                                *)

\* The instances keep their names and classes; `life` of one of them changes.
Relives(i, life) ==
  /\ things' \in Seq(Thing) /\ Len(things') = Len(things)
  /\ \A j \in 1 .. Len(things) :
       /\ NameOf(j)' = NameOf(j) /\ things'[j].ver = things[j].ver
       /\ things'[j].life = IF j = i THEN life ELSE things[j].life

LEMMA LivesFacts ==
  ASSUME ServicesInv, NEW i \in 1 .. Len(things), NEW life \in Lifes, Lives(i, life)
  PROVE  Relives(i, life)
<1>1. things \in Seq(Thing) /\ Len(things) \in Nat /\ things \in [1 .. Len(things) -> Thing]
  BY DEF ServicesInv, ThingType
<1> DEFINE t == [things[i] EXCEPT !.life = life]
<1>2. things[i] \in Thing
  BY <1>1
<1>3. t \in Thing /\ t.name = things[i].name /\ t.ver = things[i].ver /\ t.life = life
  BY <1>2 DEF Thing
<1>4. things' = [things EXCEPT ![i] = t]
  BY <1>1 DEF Lives
<1> HIDE DEF t
<1>5. /\ things' \in Seq(Thing) /\ Len(things') = Len(things)
      /\ \A j \in 1 .. Len(things) : things'[j] = IF j = i THEN t ELSE things[j]
  BY <1>1, <1>3, <1>4
<1> QED BY <1>3, <1>5 DEF Relives, NameOf

LEMMA StoppingFacts ==
  ASSUME ServicesInv, NEW i \in 1 .. Len(things), Stopping(i)
  PROVE  Relives(i, "stopping")
<1>1. things \in Seq(Thing) /\ Len(things) \in Nat /\ things \in [1 .. Len(things) -> Thing]
  BY DEF ServicesInv, ThingType
<1> DEFINE t == [things[i] EXCEPT !.life = "stopping", !.stops = @ + 1]
<1>2. things[i] \in Thing
  BY <1>1
<1>3. t \in Thing /\ t.name = things[i].name /\ t.ver = things[i].ver /\ t.life = "stopping"
  <2>1. things[i].stops + 1 \in Nat /\ "stopping" \in Lifes
    BY <1>2 DEF Thing, Lifes
  <2> QED BY <1>2, <2>1 DEF Thing
<1>4. things' = [things EXCEPT ![i] = t]
  BY <1>1 DEF Stopping
<1> HIDE DEF t
<1>5. /\ things' \in Seq(Thing) /\ Len(things') = Len(things)
      /\ \A j \in 1 .. Len(things) : things'[j] = IF j = i THEN t ELSE things[j]
  BY <1>1, <1>3, <1>4
<1> QED BY <1>3, <1>5 DEF Relives, NameOf

\* The registry forgets an instance, whatever it was entered under.
LEMMA UnregisterFacts ==
  ASSUME ServicesInv, NEW i, Unregister(i)
  PROVE  /\ byId' \in [NameSet -> 0 .. Len(things)] /\ byClass' \in [Classes -> 0 .. Len(things)]
         /\ \A n \in NameSet : byId'[n] = IF byId[n] = i THEN 0 ELSE byId[n]
         /\ \A c \in Classes : byClass'[c] = IF byClass[c] = i THEN 0 ELSE byClass[c]
<1>1. /\ byId \in [NameSet -> 0 .. Len(things)] /\ byClass \in [Classes -> 0 .. Len(things)]
      /\ 0 \in 0 .. Len(things)
  BY Known DEF ServicesInv, ThingType
<1> QED BY <1>1 DEF Unregister

\* The names of the listed instances are the same, and so is what is listed.
LEMMA SameListed ==
  ASSUME ServicesInv, order' = order, NEW i, NEW life, Relives(i, life)
  PROVE  Listed' = Listed
<1>1. \A j \in ToSet(order) : j \in 1 .. Len(things) /\ NameOf(j)' = NameOf(j)
  BY Known DEF Relives
<1>2. Listed' = {NameOf(j)' : j \in ToSet(order)}
  BY DEF Listed
<1> QED BY <1>1, <1>2 DEF Listed

-----------------------------------------------------------------------------
(* The steps of a refresh                                                  *)

LEMMA Starts == InstancesInit => ServicesInv
<1> SUFFICES ASSUME InstancesInit PROVE ServicesInv
  OBVIOUS
<1>1. <<>> \in Seq(Thing) /\ Len(<<>>) = 0 /\ 0 \in 0 .. 0 /\ 0 \in Versions \cup {0} /\ 1 \in Versions
  BY InstancesAssumption
<1>2. <<>> \in Distinct(1 .. 0) /\ <<>> \in Distinct(NameSet) /\ ToSet(<<>>) = {}
  BY DistinctNone
<1>3. ScanType /\ ThingType
  BY <1>1, <1>2 DEF InstancesInit, ScanType, ThingType, Scopes
<1>4. StepType /\ Phases
  BY <1>1, <1>2 DEF InstancesInit, StepType, Phases, NoSync, NoHalt, Syncs, Halts, Scopes, Loops
<1>5. OneEach
  BY <1>2 DEF InstancesInit, OneEach, NoSync
<1>6. Accounted /\ Progress
  BY <1>1, <1>2 DEF InstancesInit, Accounted, Progress, NoSync, NoHalt, HaltsAll
<1>7. Registered
  BY <1>1, <1>2 DEF InstancesInit, Registered, NoSync, NoHalt, HaltsAll, Dropping, RegistryWithin
<1> QED BY <1>3, <1>4, <1>5, <1>6, <1>7 DEF ServicesInv

LEMMA ScopeChanges ==
  ASSUME ServicesInv, NEW n \in NameSet, NEW v \in Versions \cup {0}, ChangeScope(n, v)
  PROVE  ServicesInv'
<1>1. scope' \in Scopes
  BY DEF ServicesInv, ScanType, Scopes, ChangeScope
<1>2. UNCHANGED <<descs, order, things, byId, byClass, sync, halt, overlapped, stopFailed>>
  BY DEF ChangeScope, manager, registry, marks
<1>3. ScanType' /\ ThingType' /\ StepType' /\ OneEach' /\ Phases'
  BY <1>1, <1>2 DEF ServicesInv, ScanType, ThingType, StepType, OneEach, Phases, NameOf, Listed, Syncs, Halts
<1>4. Accounted' = Accounted /\ Progress' = Progress
  BY <1>2 DEF Accounted, Progress, HaltsAll, IsUp, NameOf, Fits, Ahead, Listed
<1>5. Registered' = Registered
  BY <1>2 DEF Registered, HaltsAll, IsUp, NameOf, Dropping, RegistryWithin, ToHalt
<1> QED BY <1>2, <1>3, <1>4, <1>5 DEF ServicesInv

LEMMA SyncBegins ==
  ASSUME ServicesInv, NEW kind \in {"start", "refresh"}, BeginSync(kind)
  PROVE  ServicesInv'
<1> DEFINE todo == [k \in DOMAIN order |-> NameOf(order[k])]
<1>1. /\ UNCHANGED <<scope, things, order, byId, byClass, halt, stopFailed>>
      /\ sync.at = "idle" /\ ~overlapped /\ descs' = Scanned(Found(available'))
      /\ sync' = [at |-> "removing", kind |-> kind, held |-> 0, want |-> descs', todo |-> todo]
      /\ overlapped' = (overlapped \/ halt.at # "idle")
  BY DEF BeginSync, registry
<1>2. descs' \in Scopes
  BY <1>1, InstancesAssumption DEF ServicesInv, ScanType, Scanned, Found, Scopes
<1>3. todo \in Distinct(NameSet) /\ ToSet(todo) = Listed
  <2>1. /\ Len(order) \in Nat /\ DOMAIN order = 1 .. Len(order)
        /\ \A k \in 1 .. Len(order) : NameOf(order[k]) \in NameSet
    <3>1. \A k \in 1 .. Len(order) : order[k] \in 1 .. Len(things)
      BY Known
    <3> QED BY <3>1, Known
  <2>2. todo \in Seq(NameSet) /\ DOMAIN todo = DOMAIN order
    BY <2>1
  <2>3. ASSUME NEW i \in DOMAIN order, NEW j \in DOMAIN order, NameOf(order[i]) = NameOf(order[j])
        PROVE  i = j
    <3>1. order[i] \in ToSet(order) /\ order[j] \in ToSet(order) /\ i \in 1 .. Len(order) /\ j \in 1 .. Len(order)
      BY <2>1, Known
    <3>2. order[i] = order[j]
      BY <2>3, <3>1 DEF ServicesInv, OneEach
    <3>3. order \in Distinct(1 .. Len(things))
      BY DEF ServicesInv, ThingType
    <3> QED BY <3>1, <3>2, <3>3, DistinctFacts
  <2>4. todo \in Distinct(NameSet)
    BY <2>2, <2>3 DEF Distinct, IsInjective
  <2>5. ToSet(todo) = {NameOf(order[k]) : k \in DOMAIN order}
    BY DEF ToSet
  <2>6. Listed = {NameOf(order[k]) : k \in DOMAIN order}
    BY DEF Listed, ToSet
  <2> QED BY <2>4, <2>5, <2>6
<1> HIDE DEF todo
<1>4. /\ sync' \in Syncs(Len(things)) /\ sync'.at = "removing" /\ sync'.held = 0
      /\ sync'.want = descs' /\ sync'.todo = todo
  <2>1. 0 \in 0 .. Len(things)
    BY Known
  <2> QED BY <1>1, <1>2, <1>3, <2>1 DEF Syncs, Loops
<1>5. ScanType' /\ ThingType' /\ StepType'
  BY <1>1, <1>2, <1>4 DEF ServicesInv, ScanType, ThingType, StepType
<1>6. OneEach' /\ Phases'
  BY <1>1, <1>4 DEF ServicesInv, OneEach, Phases, NameOf
<1>7. ~overlapped' => Accounted'
  BY <1>1, <1>4 DEF ServicesInv, Accounted, HaltsAll, IsUp
<1>8. Progress'
  <2>1. \A i \in ToSet(order) : NameOf(i) \in ToSet(todo)
    BY <1>3, Known
  <2> QED BY <1>1, <1>4, <2>1 DEF Progress, Ahead, NameOf
<1>9. ~overlapped' /\ ~stopFailed' => Registered'
  <2> SUFFICES ASSUME ~overlapped', ~stopFailed' PROVE Registered'
    OBVIOUS
  <2>1. Registered /\ halt.at = "idle" /\ ~HaltsAll /\ ~Dropping
    BY <1>1 DEF ServicesInv, HaltsAll, Dropping
  <2>2. RegistryWithin(ToSet(order))
    BY <2>1 DEF Registered
  <2>3. RegistryWithin(ToSet(order) \cup {sync.held})'
    BY <1>1, <1>4, <2>2 DEF RegistryWithin
  <2>4. ~HaltsAll' /\ halt'.at = "idle"
    BY <1>1, <2>1 DEF HaltsAll
  <2> QED BY <1>1, <1>4, <2>1, <2>3, <2>4 DEF Registered, IsUp, NameOf, Dropping
<1> QED BY <1>5, <1>6, <1>7, <1>8, <1>9 DEF ServicesInv

LEMMA LoopEnds ==
  ASSUME ServicesInv, NextLoop
  PROVE  ServicesInv'
<1>1. /\ UNCHANGED <<scope, descs, things, order, byId, byClass, halt, overlapped, stopFailed>>
      /\ sync.held = 0 /\ \A n \in Ahead : ~Due(n)
  BY DEF NextLoop, manager, registry, marks, Ahead, ToSet
<1>2. /\ sync.at \in {"removing", "restarting", "creating"}
      /\ sync' \in Syncs(Len(things)) /\ sync'.held = 0 /\ sync'.want = sync.want
      /\ sync.at = "removing" => sync'.at = "restarting" /\ sync'.todo = Names
      /\ sync.at = "restarting" => sync'.at = "creating" /\ sync'.todo = Names
      /\ sync.at = "creating" => sync'.at = "refreshing"
  <2>1. sync \in Syncs(Len(things)) /\ Names \in Distinct(NameSet) /\ <<>> \in Distinct(NameSet)
    BY NamesFacts, DistinctNone DEF ServicesInv, StepType
  <2> QED BY <1>1, <2>1 DEF NextLoop, Syncs, Loops
<1>3. ScanType' /\ ThingType' /\ StepType'
  BY <1>1, <1>2 DEF ServicesInv, ScanType, ThingType, StepType
<1>4. OneEach' /\ Phases'
  BY <1>1, <1>2 DEF ServicesInv, OneEach, Phases, NameOf
<1>5. ~overlapped' => Accounted'
  BY <1>1, <1>2 DEF ServicesInv, Accounted, HaltsAll, IsUp
<1>6. ASSUME ~overlapped PROVE Progress'
  <2>1. \A i \in ToSet(order) : NameOf(i) \in NameSet /\ NameOf(i) \in Listed /\ Instance(NameOf(i)) = i
    <3> SUFFICES ASSUME NEW i \in ToSet(order)
                 PROVE  NameOf(i) \in NameSet /\ NameOf(i) \in Listed /\ Instance(NameOf(i)) = i
      OBVIOUS
    <3>1. NameOf(i) \in Listed
      BY Known
    <3> QED BY <3>1, InstanceFacts
  <2>2. Progress
    BY <1>6 DEF ServicesInv
  <2>3. CASE sync.at = "removing"
    <3>1. \A i \in ToSet(order) : sync.want[NameOf(i)] # 0
      BY <1>1, <2>1, <2>2, <2>3 DEF Progress, Due
    <3>2. \A i \in ToSet(order) : NameOf(i) \in ToSet(sync'.todo)
      BY <1>2, <2>1, <2>3, NamesFacts
    <3> QED BY <1>1, <1>2, <2>3, <3>1, <3>2 DEF Progress, Ahead, NameOf
  <2>4. CASE sync.at = "restarting"
    <3>1. \A i \in ToSet(order) : sync.want[NameOf(i)] # 0 /\ Fits(i)
      <4> SUFFICES ASSUME NEW i \in ToSet(order) PROVE sync.want[NameOf(i)] # 0 /\ Fits(i)
        OBVIOUS
      <4>1. sync.want[NameOf(i)] # 0 /\ (Fits(i) \/ NameOf(i) \in Ahead)
        BY <2>2, <2>4 DEF Progress
      <4>2. ~Fits(i) => Due(NameOf(i))
        BY <2>1, <2>4, <4>1 DEF Due, Fits
      <4> QED BY <1>1, <4>1, <4>2
    <3>2. sync'.todo = Names /\ sync'.at = "creating"
      BY <1>2, <2>4
    <3> QED BY <1>1, <1>2, <3>1, <3>2, NamesFacts DEF Progress, Ahead, NameOf, Fits
  <2>5. CASE sync.at = "creating"
    <3>1. \A i \in ToSet(order) : sync.want[NameOf(i)] # 0 /\ Fits(i)
      BY <2>2, <2>5 DEF Progress
    <3>2. \A n \in NameSet : sync.want[n] # 0 => n \in Listed
      BY <1>1, <2>2, <2>5 DEF Progress, Due
    <3>3. Listed' = Listed
      BY <1>1 DEF Listed, NameOf
    <3> QED BY <1>1, <1>2, <2>5, <3>1, <3>2, <3>3 DEF Progress, NameOf, Fits
  <2> QED BY <1>2, <2>3, <2>4, <2>5
<1>7. ASSUME ~overlapped, ~stopFailed PROVE Registered'
  <2>1. Registered /\ halt.at = "idle" /\ ~HaltsAll
    BY <1>2, <1>7, OneAtATime DEF ServicesInv
  <2>2. RegistryWithin(ToSet(order))
    BY <1>1, <2>1 DEF Registered, RegistryWithin
  <2>3. RegistryWithin(ToSet(order))' /\ RegistryWithin(ToSet(order) \cup {sync.held})'
    BY <1>1, <1>2, <2>2 DEF RegistryWithin
  <2> QED BY <1>1, <1>2, <2>1, <2>3 DEF Registered, IsUp, NameOf, HaltsAll
<1> QED BY <1>1, <1>3, <1>4, <1>5, <1>6, <1>7 DEF ServicesInv

\* A refresh gives up: if it was part of a start, that is rolled back.
LEMMA SyncGivesUp ==
  ASSUME ServicesInv, SyncFails, order' = order, NEW i \in 0 .. Len(things), NEW life \in Lifes,
         IF i = 0 THEN things' = things ELSE Relives(i, life), life # "up",
         i # 0 => i = sync.held, sync.at # "idle",
         UNCHANGED <<scope, descs, byId, byClass, overlapped>>,
         stopFailed' = stopFailed \/ stopFailed' = TRUE,
         ~stopFailed' => ~Dropping \/ sync.held = 0
  PROVE  ServicesInv'
<1>1. /\ Len(things') = Len(things) /\ things' \in Seq(Thing) /\ Len(things) \in Nat
      /\ \A j \in 1 .. Len(things) :
           /\ NameOf(j)' = NameOf(j) /\ things'[j].ver = things[j].ver
           /\ IsUp(j)' => IsUp(j)
           /\ j # sync.held => (IsUp(j)' <=> IsUp(j))
  <2>1. CASE i = 0
    BY <2>1, Known DEF ServicesInv, ThingType, NameOf, IsUp
  <2>2. CASE i # 0
    BY <2>2, Known DEF Relives, IsUp
  <2> QED BY <2>1, <2>2
<1>2. sync' = NoSync /\ sync'.at = "idle" /\ sync'.held = 0 /\ ~Dropping'
  BY DEF SyncFails, NoSync, Dropping
<1>3. Len(order) \in Nat /\ 0 \in 0 .. Len(things)
  BY Known
<1>4. sync' \in Syncs(Len(things))
  <2>1. <<>> \in Distinct(NameSet)
    BY DistinctNone
  <2> QED BY <1>2, <1>3, <2>1 DEF NoSync, Syncs, Scopes
<1>5. halt' = halt \/ halt' = [at |-> "rollback", ix |-> Len(order), held |-> 0]
  BY DEF SyncFails
<1>6. halt' \in Halts(Len(things))
  BY <1>3, <1>5 DEF ServicesInv, StepType, Halts
<1>7. ScanType' /\ ThingType' /\ StepType'
  <2>1. stopFailed' \in BOOLEAN /\ overlapped' \in BOOLEAN
    BY DEF ServicesInv, StepType
  <2> QED BY <1>1, <1>4, <1>6, <2>1 DEF ServicesInv, ScanType, ThingType, StepType
<1>8. OneEach'
  <2>1. \A a, b \in ToSet(order) : NameOf(a)' = NameOf(b)' => a = b
    BY <1>1, Known DEF ServicesInv, OneEach
  <2> QED BY <1>2, <2>1 DEF OneEach
<1>9. Phases'
  BY <1>2, <1>5 DEF ServicesInv, Phases
<1>10. ASSUME ~overlapped
       PROVE  /\ halt = NoHalt /\ halt.at = "idle" /\ halt.held = 0 /\ ~HaltsAll
              /\ Accounted /\ (sync.held # 0 => ~IsUp(sync.held))
              /\ halt'.held = 0 /\ halt'.at \in {"idle", "rollback"}
              /\ halt'.at = "rollback" => halt'.ix = Len(order)
  BY <1>5, <1>10, OneAtATime DEF ServicesInv, Accounted
<1>11. ASSUME ~overlapped PROVE Accounted'
  <2>1. \A j \in 1 .. Len(things) : IsUp(j)' => j \in ToSet(order)
    BY <1>1, <1>10, <1>11 DEF Accounted
  <2>2. HaltsAll' => halt'.ix = Len(order)
    BY <1>10, <1>11 DEF HaltsAll
  <2>3. \A k \in 1 .. Len(order) : ~ (k > Len(order))
    BY <1>3
  <2>4. halt'.at # "cleared"
    BY <1>10, <1>11
  <2> QED BY <1>1, <1>2, <1>3, <1>10, <1>11, <2>1, <2>2, <2>3, <2>4 DEF Accounted
<1>12. Progress'
  BY <1>2 DEF Progress
<1>13. ASSUME ~overlapped, ~stopFailed' PROVE Registered'
  <2>1. ~stopFailed /\ Registered
    BY <1>13 DEF ServicesInv, StepType
  <2>2. RegistryWithin(ToSet(order))
    <3>1. CASE ~Dropping
      BY <1>10, <1>13, <2>1, <3>1 DEF Registered
    <3>2. CASE Dropping
      <4>1. sync.held = 0
        BY <1>13, <3>2
      <4> QED BY <2>1, <3>2, <4>1 DEF Registered, RegistryWithin
    <3> QED BY <3>1, <3>2
  <2>3. RegistryWithin(ToSet(order))'
    BY <2>2 DEF RegistryWithin
  <2>4. \A j \in ToSet(order) : j \in 1 .. Len(things) /\ IsUp(j) /\ IsUp(j)' /\ NameOf(j)' = NameOf(j)
    <3>1. \A j \in ToSet(order) : j # sync.held
      BY <1>10, <1>13, Known DEF Accounted
    <3> QED BY <1>1, <1>10, <1>13, <2>1, <3>1, Known DEF Registered
  <2>5. \A n \in NameSet : byId[n] # 0 => NameOf(byId[n])' = n
    <3> SUFFICES ASSUME NEW n \in NameSet, byId[n] # 0 PROVE NameOf(byId[n])' = n
      OBVIOUS
    <3>1. byId[n] \in 1 .. Len(things) /\ NameOf(byId[n]) = n
      BY <1>3, <2>1, Known DEF Registered
    <3> QED BY <1>1, <3>1
  <2>6. HaltsAll' => RegistryWithin(ToHalt)'
    <3>1. ASSUME HaltsAll' PROVE ToSet(order) \subseteq ToHalt'
      <4>1. halt'.ix = Len(order)
        BY <1>10, <1>13, <3>1 DEF HaltsAll
      <4>2. ToHalt' = {order[k] : k \in 1 .. Len(order)} \cup {halt'.held}
        BY <4>1 DEF ToHalt
      <4>3. DOMAIN order = 1 .. Len(order)
        BY Known
      <4> QED BY <4>2, <4>3 DEF ToSet
    <3> QED BY <2>3, <3>1 DEF RegistryWithin
  <2>7. halt'.at # "cleared"
    BY <1>10, <1>13
  <2>8. \A j \in ToSet(order) :
          byId'[NameOf(j)'] = j /\ byClass'[<<NameOf(j)', things'[j].ver>>] = j
    BY <1>1, <2>1, <2>4 DEF Registered
  <2> QED BY <1>2, <2>3, <2>4, <2>5, <2>6, <2>7, <2>8 DEF Registered, IsUp
<1> QED BY <1>7, <1>8, <1>9, <1>11, <1>12, <1>13 DEF ServicesInv

\* An instance that is dropped leaves the tables, with its name.
LEMMA Delisted ==
  ASSUME ServicesInv, NEW n \in NameSet, n \in Listed
  PROVE  /\ RemoveFirst(order, Instance(n)) \in Distinct(1 .. Len(things))
         /\ ToSet(RemoveFirst(order, Instance(n))) = ToSet(order) \ {Instance(n)}
         /\ \A i \in ToSet(order) \ {Instance(n)} :
              NameOf(i) # n /\ NameOf(i) \in Listed /\ Instance(NameOf(i)) = i
<1>1. order \in Distinct(1 .. Len(things)) /\ Instance(n) \in ToSet(order)
  BY InstanceFacts DEF ServicesInv, ThingType
<1>2. ASSUME NEW i \in ToSet(order) \ {Instance(n)}
      PROVE  NameOf(i) # n /\ NameOf(i) \in Listed /\ Instance(NameOf(i)) = i
  <2>1. NameOf(i) \in Listed
    BY Known
  <2> QED BY <2>1, InstanceFacts
<1>3. /\ RemoveFirst(order, Instance(n)) \in Distinct(1 .. Len(things))
      /\ ToSet(RemoveFirst(order, Instance(n))) = ToSet(order) \ {Instance(n)}
  BY <1>1, DistinctRemove
<1> QED BY <1>2, <1>3

LEMMA Drops ==
  ASSUME ServicesInv, NEW n \in NameSet, Drop(n)
  PROVE  ServicesInv'
<1> DEFINE i == Instance(n)
<1>1. /\ UNCHANGED <<scope, descs, byId, byClass, halt, overlapped, stopFailed>>
      /\ Dropping /\ Visits(n) /\ n \in Listed /\ Stopping(i)
      /\ order' = RemoveFirst(order, i)
      /\ sync' = [sync EXCEPT !.held = i, !.todo = After(n)]
  BY DEF Drop, registry, marks, bounds, Dropping
<1>2. i \in ToSet(order) /\ i \in 1 .. Len(things) /\ NameOf(i) = n
  BY <1>1, InstanceFacts
<1>3. /\ order' \in Distinct(1 .. Len(things)) /\ ToSet(order') = ToSet(order) \ {i}
      /\ \A j \in ToSet(order') : NameOf(j) # n /\ NameOf(j) \in Listed /\ Instance(NameOf(j)) = j
      /\ \A j \in ToSet(order') : j \in ToSet(order) /\ j # i /\ j \in 1 .. Len(things)
  BY <1>1, Delisted, Known
<1>4. Relives(i, "stopping")
  BY <1>1, <1>2, StoppingFacts
<1> HIDE DEF i
<1>5. /\ things' \in Seq(Thing) /\ Len(things') = Len(things) /\ Len(things) \in Nat
      /\ \A j \in 1 .. Len(things) :
           /\ NameOf(j)' = NameOf(j) /\ things'[j].ver = things[j].ver
           /\ IsUp(j)' <=> j # i /\ IsUp(j)
  BY <1>4, Known DEF Relives, IsUp
<1>6. /\ sync.held = 0 /\ Due(n) /\ After(n) \in Distinct(NameSet)
      /\ \A m \in Ahead : m = n \/ m \in ToSet(After(n)) \/ ~Due(m)
  BY <1>1, VisitFacts
<1>7. /\ sync' \in Syncs(Len(things)) /\ sync'.at = sync.at /\ sync'.want = sync.want
      /\ sync'.held = i /\ sync'.todo = After(n)
  <2>1. i \in 0 .. Len(things)
    BY <1>2
  <2> QED BY <1>1, <1>6, <2>1 DEF ServicesInv, StepType, Syncs
<1>8. ScanType' /\ ThingType' /\ StepType'
  BY <1>1, <1>3, <1>5, <1>7 DEF ServicesInv, ScanType, ThingType, StepType
<1>9. OneEach' /\ Phases'
  <2>1. \A a, b \in ToSet(order') : NameOf(a)' = NameOf(b)' => a = b
    BY <1>3, <1>5 DEF ServicesInv, OneEach
  <2>2. sync'.at # "creating" /\ sync'.at # "refreshing" /\ sync'.at # "idle"
    BY <1>1, <1>7 DEF Dropping
  <2> QED BY <1>1, <1>7, <2>1, <2>2 DEF ServicesInv, OneEach, Phases
<1>10. ASSUME ~overlapped PROVE halt.at = "idle" /\ halt.held = 0 /\ ~HaltsAll /\ ~HaltsAll'
  BY <1>1, <1>10, OneAtATime DEF Dropping, HaltsAll
<1>11. ASSUME ~overlapped PROVE Accounted'
  <2>1. \A j \in 1 .. Len(things) : IsUp(j)' => j \in ToSet(order')
    BY <1>3, <1>5, <1>11 DEF ServicesInv, Accounted
  <2>2. i \notin ToSet(order') /\ things'[i].life # "up"
    BY <1>2, <1>3, <1>4 DEF Relives
  <2>3. ~HaltsAll' /\ halt'.at = "idle" /\ halt'.held = 0
    BY <1>1, <1>10, <1>11
  <2> QED BY <1>5, <1>7, <2>1, <2>2, <2>3 DEF Accounted, IsUp
<1>12. ASSUME ~overlapped PROVE Progress'
  <2>1. Progress
    BY <1>12 DEF ServicesInv
  <2>2. \A j \in ToSet(order') : NameOf(j)' = NameOf(j) /\ (Fits(j)' <=> Fits(j))
    BY <1>3, <1>5, <1>7 DEF Fits
  <2>3. CASE sync.at = "removing"
    <3>1. \A j \in ToSet(order') : sync.want[NameOf(j)] = 0 => NameOf(j) \in ToSet(After(n))
      BY <1>3, <1>6, <2>1, <2>3 DEF Progress, Due
    <3> QED BY <1>7, <2>2, <2>3, <3>1 DEF Progress, Ahead
  <2>4. CASE sync.at = "restarting"
    <3>1. ASSUME NEW j \in ToSet(order') PROVE Fits(j) \/ NameOf(j) \in ToSet(After(n))
      <4>1. sync.want[NameOf(j)] # 0 /\ (Fits(j) \/ NameOf(j) \in Ahead)
        BY <1>3, <2>1, <2>4 DEF Progress
      <4>2. ~Fits(j) => Due(NameOf(j))
        BY <1>3, <2>4, <4>1 DEF Due, Fits
      <4> QED BY <1>3, <1>6, <4>1, <4>2
    <3>2. \A j \in ToSet(order') : sync.want[NameOf(j)] # 0
      BY <1>3, <2>1, <2>4 DEF Progress
    <3> QED BY <1>7, <2>2, <2>4, <3>1, <3>2 DEF Progress, Ahead
  <2> QED BY <1>1, <2>3, <2>4 DEF Dropping
<1>13. ASSUME ~overlapped, ~stopFailed PROVE Registered'
  <2>1. Registered
    BY <1>13 DEF ServicesInv
  <2>2. RegistryWithin(ToSet(order) \cup {0})
    BY <1>1, <1>6, <2>1 DEF Registered
  <2>3. RegistryWithin(ToSet(order) \cup {sync.held})'
    <3>1. ToSet(order) \subseteq ToSet(order') \cup {sync'.held}
      BY <1>3, <1>7
    <3> QED BY <1>1, <2>2, <3>1 DEF RegistryWithin
  <2>4. \A j \in ToSet(order') : IsUp(j)' /\ byId'[NameOf(j)'] = j
                               /\ byClass'[<<NameOf(j)', things'[j].ver>>] = j
    BY <1>1, <1>3, <1>5, <1>10, <1>13, <2>1 DEF Registered
  <2>5. ASSUME NEW m \in NameSet, byId[m] # 0 PROVE NameOf(byId[m])' = m
    <3>1. byId[m] \in 1 .. Len(things) /\ NameOf(byId[m]) = m
      BY <1>5, <2>1, <2>5, Known DEF Registered
    <3> QED BY <1>1, <1>5, <3>1
  <2>6. Dropping'
    BY <1>1, <1>7 DEF Dropping
  <2> QED BY <1>1, <1>10, <1>13, <2>3, <2>4, <2>5, <2>6 DEF Registered, IsUp
<1> QED BY <1>1, <1>8, <1>9, <1>11, <1>12, <1>13 DEF ServicesInv

LEMMA MissesOne ==
  ASSUME ServicesInv, NEW n \in NameSet, DropMissing(n)
  PROVE  ServicesInv'
<1>1. /\ SyncFails /\ order' = order /\ sync.at = "removing" /\ sync.held = 0
      /\ UNCHANGED <<scope, descs, things, byId, byClass, overlapped, stopFailed>>
  BY DEF DropMissing, Visits, registry, marks
<1>2. 0 \in 0 .. Len(things) /\ "broken" \in Lifes
  BY Known DEF Lifes
<1> QED BY <1>1, <1>2, SyncGivesUp

LEMMA Leaves ==
  ASSUME ServicesInv, Dropped
  PROVE  ServicesInv'
<1> DEFINE i == sync.held
<1>1. /\ UNCHANGED <<scope, descs, order, halt, overlapped, stopFailed>>
      /\ Dropping /\ i # 0 /\ Lives(i, "stopped") /\ Unregister(i)
      /\ sync' = [sync EXCEPT !.held = 0]
  BY DEF Dropped, manager, marks, bounds, Dropping
<1>2. i \in 1 .. Len(things) /\ Len(things) \in Nat
  BY <1>1, Known
<1>3. Relives(i, "stopped")
  BY <1>1, <1>2, LivesFacts DEF Lifes
<1>4. /\ byId' \in [NameSet -> 0 .. Len(things)] /\ byClass' \in [Classes -> 0 .. Len(things)]
      /\ \A n \in NameSet : byId'[n] = IF byId[n] = i THEN 0 ELSE byId[n]
      /\ \A c \in Classes : byClass'[c] = IF byClass[c] = i THEN 0 ELSE byClass[c]
  BY <1>1, UnregisterFacts
<1>5. /\ sync' \in Syncs(Len(things)) /\ sync'.at = sync.at /\ sync'.want = sync.want
      /\ sync'.held = 0 /\ sync'.todo = sync.todo
  <2>1. 0 \in 0 .. Len(things)
    BY Known
  <2> QED BY <1>1, <2>1 DEF ServicesInv, StepType, Syncs
<1> HIDE DEF i
<1>6. /\ things' \in Seq(Thing) /\ Len(things') = Len(things)
      /\ \A j \in 1 .. Len(things) :
           /\ NameOf(j)' = NameOf(j) /\ things'[j].ver = things[j].ver
           /\ IsUp(j)' <=> j # i /\ IsUp(j)
  BY <1>3, Known DEF Relives, IsUp
<1>7. ScanType' /\ ThingType' /\ StepType'
  BY <1>1, <1>4, <1>5, <1>6 DEF ServicesInv, ScanType, ThingType, StepType
<1>8. OneEach' /\ Phases'
  <2>1. \A a, b \in ToSet(order') : NameOf(a)' = NameOf(b)' => a = b
    BY <1>1, <1>6, Known DEF ServicesInv, OneEach
  <2> QED BY <1>1, <1>5, <2>1 DEF ServicesInv, OneEach, Phases, Dropping
<1>9. ASSUME ~overlapped
      PROVE  /\ halt.at = "idle" /\ halt.held = 0 /\ ~HaltsAll /\ ~HaltsAll'
             /\ i \notin ToSet(order)
  BY <1>1, <1>9, OneAtATime DEF Dropping, HaltsAll, ServicesInv, Accounted, i
<1>10. ASSUME ~overlapped PROVE Accounted'
  <2>1. \A j \in 1 .. Len(things) : IsUp(j)' => j \in ToSet(order')
    BY <1>1, <1>6, <1>10 DEF ServicesInv, Accounted
  <2> QED BY <1>1, <1>5, <1>6, <1>9, <1>10, <2>1 DEF Accounted
<1>11. ASSUME ~overlapped PROVE Progress'
  <2>1. Progress
    BY <1>11 DEF ServicesInv
  <2>2. \A j \in ToSet(order') : NameOf(j)' = NameOf(j) /\ (Fits(j)' <=> Fits(j))
    BY <1>1, <1>5, <1>6, Known DEF Fits
  <2> QED BY <1>1, <1>5, <2>1, <2>2 DEF Progress, Ahead, Dropping
<1>12. ASSUME ~overlapped, ~stopFailed PROVE Registered'
  <2>1. Registered
    BY <1>12 DEF ServicesInv
  <2>2. RegistryWithin(ToSet(order) \cup {i})
    BY <1>1, <2>1 DEF Registered, i
  <2>3. RegistryWithin(ToSet(order) \cup {sync.held})'
    BY <1>1, <1>4, <2>2 DEF RegistryWithin
  <2>4. \A j \in ToSet(order') : IsUp(j)' /\ byId'[NameOf(j)'] = j
                               /\ byClass'[<<NameOf(j)', things'[j].ver>>] = j
    <3> SUFFICES ASSUME NEW j \in ToSet(order)
                 PROVE  IsUp(j)' /\ byId'[NameOf(j)'] = j /\ byClass'[<<NameOf(j)', things'[j].ver>>] = j
      BY <1>1
    <3>1. j # i /\ j \in 1 .. Len(things) /\ NameOf(j) \in NameSet /\ <<NameOf(j), things[j].ver>> \in Classes
      BY <1>9, <1>12, Known
    <3>2. IsUp(j) /\ byId[NameOf(j)] = j /\ byClass[<<NameOf(j), things[j].ver>>] = j
      BY <1>9, <1>12, <2>1 DEF Registered
    <3> QED BY <1>4, <1>6, <3>1, <3>2
  <2>5. ASSUME NEW m \in NameSet, byId'[m] # 0 PROVE things'[byId'[m]].name = m
    <3>1. byId[m] \in 1 .. Len(things) /\ NameOf(byId[m]) = m /\ byId'[m] = byId[m]
      BY <1>2, <1>4, <2>1, <2>5, Known DEF Registered
    <3> QED BY <1>6, <3>1 DEF NameOf
  <2>6. Dropping'
    BY <1>1, <1>5 DEF Dropping
  <2> QED BY <1>1, <1>9, <1>12, <2>3, <2>4, <2>5, <2>6 DEF Registered, IsUp, NameOf
<1> QED BY <1>1, <1>7, <1>8, <1>10, <1>11, <1>12 DEF ServicesInv

LEMMA DropFails ==
  ASSUME ServicesInv, DropRaises
  PROVE  ServicesInv'
<1>1. /\ SyncFails /\ order' = order /\ sync.at # "idle" /\ sync.held # 0
      /\ UNCHANGED <<scope, descs, byId, byClass, overlapped>> /\ stopFailed' = TRUE
      /\ Lives(sync.held, "broken")
  BY DEF DropRaises, registry
<1>2. sync.held \in 1 .. Len(things) /\ sync.held \in 0 .. Len(things) /\ "broken" \in Lifes
  BY <1>1, Known DEF Lifes
<1>3. Relives(sync.held, "broken")
  BY <1>1, <1>2, LivesFacts
<1> QED BY <1>1, <1>2, <1>3, SyncGivesUp

LEMMA Brings ==
  ASSUME ServicesInv, NEW n \in NameSet, Bring(n)
  PROVE  ServicesInv'
<1> DEFINE made == Len(things)
           new == [name |-> n, ver |-> sync.want[n], life |-> "starting", stops |-> 0]
<1>1. /\ UNCHANGED <<scope, descs, order, byId, byClass, halt, overlapped, stopFailed>>
      /\ sync.at = "creating" /\ Visits(n) /\ things' = Append(things, new)
      /\ sync' = [sync EXCEPT !.held = Len(things'), !.todo = After(n)]
  BY DEF Bring, manager, registry, marks
<1>2. /\ sync.held = 0 /\ Due(n) /\ After(n) \in Distinct(NameSet)
      /\ \A m \in Ahead : m = n \/ m \in ToSet(After(n)) \/ ~Due(m)
  BY <1>1, VisitFacts
<1>3. sync.want[n] # 0 /\ n \notin Listed
  BY <1>1, <1>2 DEF Due
<1>4. new \in Thing
  <2>1. sync.want[n] \in Versions
    BY <1>3 DEF ServicesInv, StepType, Syncs, Scopes
  <2> QED BY <2>1 DEF Thing, Lifes
<1> HIDE DEF new
<1>5. /\ made \in Nat /\ things' \in Seq(Thing) /\ Len(things') = made + 1
      /\ \A j \in 1 .. made : things'[j] = things[j]
      /\ things'[made + 1] = new
  BY <1>1, <1>4, Known DEF ServicesInv, ThingType
<1> HIDE DEF made
<1>6. /\ \A j \in 1 .. made : NameOf(j)' = NameOf(j) /\ (IsUp(j)' <=> IsUp(j))
      /\ things'[made + 1].name = n /\ things'[made + 1].ver = sync.want[n]
      /\ things'[made + 1].life # "up"
  BY <1>5 DEF NameOf, IsUp, new
<1>7. \A j \in ToSet(order) : j \in 1 .. made /\ j # made + 1
  BY <1>5, Known DEF made
<1>8. /\ sync' \in Syncs(made + 1) /\ sync'.at = "creating" /\ sync'.want = sync.want
      /\ sync'.held = made + 1 /\ sync'.todo = After(n)
  <2>1. made + 1 \in 0 .. made + 1 /\ sync \in Syncs(made)
    BY <1>5 DEF ServicesInv, StepType, made
  <2> QED BY <1>1, <1>2, <1>5, <2>1 DEF Syncs
<1>9. ScanType' /\ ThingType' /\ StepType'
  <2>1. order \in Distinct(1 .. made + 1)
    BY <1>5, DistinctGrows DEF ServicesInv, ThingType, made
  <2>2. 0 .. made \subseteq 0 .. made + 1
    BY <1>5
  <2>3. byId \in [NameSet -> 0 .. made + 1] /\ byClass \in [Classes -> 0 .. made + 1]
    BY <2>2 DEF ServicesInv, ThingType, made
  <2>4. halt \in Halts(made + 1)
    BY <2>2 DEF ServicesInv, StepType, Halts, made
  <2> QED BY <1>1, <1>5, <1>8, <2>1, <2>3, <2>4 DEF ServicesInv, ScanType, ThingType, StepType
<1>10. Listed' = Listed
  <2>1. Listed' = {NameOf(j)' : j \in ToSet(order)}
    BY <1>1 DEF Listed
  <2> QED BY <1>6, <1>7, <2>1 DEF Listed
<1>11. OneEach' /\ Phases'
  <2>1. \A a, b \in ToSet(order) : NameOf(a)' = NameOf(b)' => a = b
    BY <1>6, <1>7 DEF ServicesInv, OneEach
  <2>2. NameOf(sync.held)' \notin Listed'
    BY <1>3, <1>6, <1>8, <1>10 DEF NameOf
  <2> QED BY <1>1, <1>8, <2>1, <2>2 DEF ServicesInv, OneEach, Phases
<1>12. ASSUME ~overlapped PROVE halt.at = "idle" /\ halt.held = 0 /\ ~HaltsAll'
  BY <1>1, <1>12, OneAtATime DEF HaltsAll
<1>13. ASSUME ~overlapped PROVE Accounted'
  <2>1. \A j \in 1 .. made + 1 : IsUp(j)' => j \in ToSet(order)
    <3> SUFFICES ASSUME NEW j \in 1 .. made + 1, IsUp(j)' PROVE j \in ToSet(order)
      OBVIOUS
    <3>1. j \in 1 .. made \/ j = made + 1
      BY <1>5
    <3>2. j # made + 1
      BY <1>6 DEF IsUp
    <3> QED BY <1>6, <1>13, <3>1, <3>2 DEF ServicesInv, Accounted, made
  <2>2. made + 1 \notin ToSet(order)
    BY <1>7
  <2> QED BY <1>1, <1>5, <1>6, <1>8, <1>12, <1>13, <2>1, <2>2 DEF Accounted, IsUp
<1>14. ASSUME ~overlapped PROVE Progress'
  <2>1. Progress
    BY <1>14 DEF ServicesInv
  <2>2. \A j \in ToSet(order) : sync.want[NameOf(j)] # 0 /\ Fits(j)
    BY <1>1, <2>1 DEF Progress
  <2>3. \A j \in ToSet(order) : sync'.want[NameOf(j)'] # 0 /\ Fits(j)'
    BY <1>5, <1>6, <1>7, <1>8, <2>2 DEF Fits
  <2>4. Fits(sync.held)' /\ sync'.want[NameOf(sync.held)'] # 0
    BY <1>3, <1>6, <1>8 DEF Fits, NameOf
  <2>5. ASSUME NEW m \in NameSet, sync.want[m] # 0, m # n PROVE m \in Listed \cup ToSet(After(n))
    <3>1. m \in Listed \cup Ahead
      BY <1>1, <1>2, <2>1, <2>5 DEF Progress
    <3>2. m \notin Listed => Due(m)
      BY <1>1, <2>5 DEF Due
    <3> QED BY <1>2, <2>5, <3>1, <3>2
  <2>6. NameOf(sync.held)' = n /\ sync'.held # 0
    BY <1>5, <1>6, <1>8 DEF NameOf
  <2> QED BY <1>1, <1>8, <1>10, <2>3, <2>4, <2>5, <2>6 DEF Progress, Ahead
<1>15. ASSUME ~overlapped, ~stopFailed PROVE Registered'
  <2>1. Registered /\ ~Dropping /\ ~Dropping'
    BY <1>1, <1>8, <1>15 DEF ServicesInv, Dropping
  <2>2. RegistryWithin(ToSet(order))'
    BY <1>1, <1>12, <1>15, <2>1 DEF Registered, RegistryWithin
  <2>3. \A j \in ToSet(order) : IsUp(j)' /\ byId'[NameOf(j)'] = j
                               /\ byClass'[<<NameOf(j)', things'[j].ver>>] = j
    BY <1>1, <1>5, <1>6, <1>7, <1>12, <1>15, <2>1 DEF Registered
  <2>4. ASSUME NEW m \in NameSet, byId[m] # 0 PROVE things'[byId[m]].name = m
    <3>1. byId[m] \in 1 .. made /\ NameOf(byId[m]) = m
      BY <1>5, <2>1, <2>4, Known DEF Registered, made
    <3> QED BY <1>5, <3>1 DEF NameOf
  <2> QED BY <1>1, <1>12, <1>15, <2>1, <2>2, <2>3, <2>4 DEF Registered, IsUp, NameOf
<1> QED BY <1>1, <1>9, <1>11, <1>13, <1>14, <1>15 DEF ServicesInv

LEMMA Enters ==
  ASSUME ServicesInv, Brought
  PROVE  ServicesInv'
<1> DEFINE i == sync.held
           n == NameOf(i)
           c == <<n, things[i].ver>>
<1>1. /\ UNCHANGED <<scope, descs, halt, overlapped, stopFailed>>
      /\ sync.at = "creating" /\ i # 0 /\ Lives(i, "up") /\ order' = Append(order, i)
      /\ byId' = [byId EXCEPT ![n] = i] /\ byClass' = [byClass EXCEPT ![c] = i]
      /\ sync' = [sync EXCEPT !.held = 0]
  BY DEF Brought, marks, bounds
<1>2. i \in 1 .. Len(things) /\ Len(things) \in Nat /\ n \in NameSet /\ c \in Classes
  BY <1>1, Known
<1>3. Relives(i, "up")
  BY <1>1, <1>2, LivesFacts DEF Lifes
<1>4. n \notin Listed /\ i \notin ToSet(order) /\ \A j \in ToSet(order) : NameOf(j) # n
  <2>1. n \notin Listed
    BY <1>1 DEF ServicesInv, OneEach
  <2> QED BY <2>1, Known
<1>5. /\ order' \in Distinct(1 .. Len(things)) /\ ToSet(order') = ToSet(order) \cup {i}
      /\ Len(order') = Len(order) + 1
  <2>1. order \in Distinct(1 .. Len(things))
    BY DEF ServicesInv, ThingType
  <2> HIDE DEF i
  <2> QED BY <1>1, <1>2, <1>4, <2>1, DistinctAppend
<1>6. /\ sync' \in Syncs(Len(things)) /\ sync'.at = "creating" /\ sync'.want = sync.want
      /\ sync'.held = 0 /\ sync'.todo = sync.todo
  <2>1. 0 \in 0 .. Len(things)
    BY Known
  <2> QED BY <1>1, <2>1 DEF ServicesInv, StepType, Syncs
<1> HIDE DEF i, n, c
<1>7. /\ things' \in Seq(Thing) /\ Len(things') = Len(things)
      /\ \A j \in 1 .. Len(things) :
           /\ NameOf(j)' = NameOf(j) /\ things'[j].ver = things[j].ver
           /\ IsUp(j)' <=> j = i \/ IsUp(j)
  BY <1>3, Known DEF Relives, IsUp
<1>8. /\ byId' \in [NameSet -> 0 .. Len(things)] /\ byClass' \in [Classes -> 0 .. Len(things)]
      /\ byId'[n] = i /\ \A m \in NameSet : m # n => byId'[m] = byId[m]
      /\ byClass'[c] = i /\ \A d \in Classes : d # c => byClass'[d] = byClass[d]
  <2>1. i \in 0 .. Len(things)
    BY <1>2
  <2> QED BY <1>1, <1>2, <2>1 DEF ServicesInv, ThingType
<1>9. \A j \in ToSet(order') : j \in 1 .. Len(things) /\ (j = i \/ j \in ToSet(order))
  BY <1>2, <1>5, Known
<1>10. ScanType' /\ ThingType' /\ StepType'
  BY <1>1, <1>5, <1>6, <1>7, <1>8 DEF ServicesInv, ScanType, ThingType, StepType
<1>11. OneEach' /\ Phases'
  <2>1. \A a, b \in ToSet(order') : NameOf(a)' = NameOf(b)' => a = b
    BY <1>4, <1>7, <1>9 DEF ServicesInv, OneEach, n
  <2> QED BY <1>1, <1>6, <2>1 DEF ServicesInv, OneEach, Phases
<1>12. ASSUME ~overlapped PROVE halt.at = "idle" /\ halt.held = 0 /\ ~HaltsAll'
  BY <1>1, <1>12, OneAtATime DEF HaltsAll
<1>13. ASSUME ~overlapped PROVE Accounted'
  <2>1. \A j \in 1 .. Len(things) : IsUp(j)' => j \in ToSet(order')
    BY <1>5, <1>7, <1>13 DEF ServicesInv, Accounted
  <2> QED BY <1>1, <1>6, <1>7, <1>12, <1>13, <2>1 DEF Accounted
<1>14. Listed' = Listed \cup {n}
  <2>1. Listed' = {NameOf(j)' : j \in ToSet(order')}
    BY DEF Listed
  <2>2. Listed' = {NameOf(j) : j \in ToSet(order')}
    BY <1>7, <1>9, <2>1
  <2> QED BY <1>5, <2>2 DEF Listed, n
<1>15. ASSUME ~overlapped PROVE Progress'
  <2>1. Progress
    BY <1>15 DEF ServicesInv
  <2>2. \A j \in ToSet(order') : sync.want[NameOf(j)] # 0 /\ Fits(j)
    BY <1>1, <1>9, <2>1 DEF Progress, i
  <2>3. \A j \in ToSet(order') : sync'.want[NameOf(j)'] # 0 /\ Fits(j)'
    BY <1>6, <1>7, <1>9, <2>2 DEF Fits
  <2>4. ASSUME NEW m \in NameSet, sync.want[m] # 0 PROVE m \in Listed' \cup Ahead'
    BY <1>1, <1>6, <1>14, <2>1, <2>4 DEF Progress, Ahead, n, i
  <2> QED BY <1>6, <2>3, <2>4 DEF Progress
<1>16. ASSUME ~overlapped, ~stopFailed PROVE Registered'
  <2>1. Registered /\ ~Dropping /\ ~Dropping'
    BY <1>1, <1>6, <1>16 DEF ServicesInv, Dropping
  <2>2. RegistryWithin(ToSet(order))
    BY <1>12, <1>16, <2>1 DEF Registered
  <2>3. RegistryWithin(ToSet(order))'
    BY <1>5, <1>8, <2>2 DEF RegistryWithin
  <2>4. ASSUME NEW j \in ToSet(order')
        PROVE  IsUp(j)' /\ byId'[NameOf(j)'] = j /\ byClass'[<<NameOf(j)', things'[j].ver>>] = j
    <3>1. CASE j = i
      <4>1. NameOf(j)' = n /\ <<NameOf(j)', things'[j].ver>> = c
        BY <1>2, <1>7, <3>1 DEF n, c
      <4> QED BY <1>2, <1>7, <1>8, <3>1, <4>1
    <3>2. CASE j \in ToSet(order)
      <4>1. IsUp(j) /\ byId[NameOf(j)] = j /\ byClass[<<NameOf(j), things[j].ver>>] = j
        BY <1>12, <1>16, <2>1, <3>2 DEF Registered
      <4>2. NameOf(j) # n /\ <<NameOf(j), things[j].ver>> # c
        BY <1>4, <3>2 DEF c
      <4>3. NameOf(j) \in NameSet /\ <<NameOf(j), things[j].ver>> \in Classes
        BY <1>9, Known
      <4> QED BY <1>7, <1>8, <1>9, <4>1, <4>2, <4>3
    <3> QED BY <1>9, <3>1, <3>2
  <2>5. ASSUME NEW m \in NameSet, byId'[m] # 0 PROVE things'[byId'[m]].name = m
    <3>1. CASE m = n
      BY <1>2, <1>7, <1>8, <3>1 DEF n, NameOf
    <3>2. CASE m # n
      <4>1. byId'[m] = byId[m] /\ byId[m] \in 1 .. Len(things) /\ NameOf(byId[m]) = m
        BY <1>2, <1>8, <2>1, <2>5, <3>2, Known DEF Registered
      <4> QED BY <1>7, <4>1 DEF NameOf
    <3> QED BY <3>1, <3>2
  <2> QED BY <1>1, <1>12, <1>16, <2>1, <2>3, <2>4, <2>5 DEF Registered, IsUp, NameOf
<1> QED BY <1>1, <1>10, <1>11, <1>13, <1>15, <1>16 DEF ServicesInv

LEMMA BringFails ==
  ASSUME ServicesInv, BringRaises
  PROVE  ServicesInv'
<1>1. /\ SyncFails /\ order' = order /\ sync.at = "creating" /\ sync.held # 0
      /\ UNCHANGED <<scope, descs, byId, byClass, overlapped, stopFailed>>
      /\ Lives(sync.held, "broken")
  BY DEF BringRaises, registry, marks
<1>2. sync.held \in 1 .. Len(things) /\ sync.held \in 0 .. Len(things) /\ "broken" \in Lifes /\ ~Dropping
  BY <1>1, Known DEF Lifes, Dropping
<1>3. Relives(sync.held, "broken")
  BY <1>1, <1>2, LivesFacts
<1> QED BY <1>1, <1>2, <1>3, SyncGivesUp

LEMMA FinishFails ==
  ASSUME ServicesInv, FinishRaises
  PROVE  ServicesInv'
<1>1. /\ SyncFails /\ order' = order /\ sync.at = "refreshing"
      /\ UNCHANGED <<scope, descs, things, byId, byClass, overlapped, stopFailed>>
  BY DEF FinishRaises, registry, marks
<1>2. 0 \in 0 .. Len(things) /\ "broken" \in Lifes /\ ~Dropping
  BY <1>1, Known DEF Lifes, Dropping
<1> QED BY <1>1, <1>2, SyncGivesUp

LEMMA Finishes ==
  ASSUME ServicesInv, Finish
  PROVE  ServicesInv'
<1>1. /\ UNCHANGED <<scope, descs, things, order, byId, byClass, halt, overlapped, stopFailed>>
      /\ sync.at = "refreshing" /\ sync' = NoSync /\ sync.held = 0
  BY DEF Finish, registry, marks, ServicesInv, Phases
<1>2. sync'.at = "idle" /\ sync'.held = 0 /\ sync' \in Syncs(Len(things))
  <2>1. <<>> \in Distinct(NameSet) /\ 0 \in 0 .. Len(things)
    BY DistinctNone, Known
  <2> QED BY <1>1, <2>1 DEF NoSync, Syncs, Scopes
<1>3. ScanType' /\ ThingType' /\ StepType'
  BY <1>1, <1>2 DEF ServicesInv, ScanType, ThingType, StepType
<1>4. OneEach' /\ Phases'
  BY <1>1, <1>2 DEF ServicesInv, OneEach, Phases, NameOf
<1>5. ~overlapped => Accounted'
  BY <1>1, <1>2 DEF ServicesInv, Accounted, HaltsAll, IsUp
<1>6. Progress'
  BY <1>2 DEF Progress
<1>7. ASSUME ~overlapped, ~stopFailed PROVE Registered'
  <2>1. Registered /\ halt.at = "idle" /\ ~HaltsAll' /\ ~Dropping /\ ~Dropping'
    BY <1>1, <1>2, <1>7, OneAtATime DEF ServicesInv, HaltsAll, Dropping
  <2>2. RegistryWithin(ToSet(order))'
    BY <1>1, <2>1 DEF Registered, RegistryWithin
  <2> QED BY <1>1, <2>1, <2>2 DEF Registered, IsUp, NameOf
<1> QED BY <1>1, <1>3, <1>4, <1>5, <1>6, <1>7 DEF ServicesInv

-----------------------------------------------------------------------------
(* The steps of a stop                                                     *)

LEMMA HaltBegins ==
  ASSUME ServicesInv, BeginHalt
  PROVE  ServicesInv'
<1>1. /\ UNCHANGED <<scope, descs, things, order, byId, byClass, sync, stopFailed>>
      /\ halt.at = "idle" /\ ~overlapped
      /\ halt' = [at |-> "stop", ix |-> Len(order), held |-> 0]
      /\ overlapped' = (overlapped \/ sync.at # "idle")
  BY DEF BeginHalt, manager, registry
<1>2. halt' \in Halts(Len(things)) /\ halt'.at = "stop" /\ halt'.ix = Len(order) /\ halt'.held = 0
  BY <1>1, Known DEF Halts
<1>3. ScanType' /\ ThingType' /\ StepType'
  BY <1>1, <1>2 DEF ServicesInv, ScanType, ThingType, StepType
<1>4. OneEach' /\ Phases'
  BY <1>1, <1>2 DEF ServicesInv, OneEach, Phases, NameOf, Listed
<1>5. Accounted'
  <2>1. \A k \in 1 .. Len(order) : ~ (k > Len(order))
    BY Known
  <2> QED BY <1>1, <1>2, <2>1, Known DEF ServicesInv, Accounted, HaltsAll, IsUp
<1>6. Progress'
  BY <1>1 DEF ServicesInv, Progress, Fits, Ahead, NameOf, Listed
<1>7. ASSUME ~overlapped', ~stopFailed PROVE Registered'
  <2>1. Registered /\ ~Dropping /\ ~Dropping' /\ halt'.at # "idle" /\ halt'.at # "cleared"
    BY <1>1, <1>2, <1>7 DEF ServicesInv, Dropping
  <2>2. RegistryWithin(ToSet(order))
    BY <1>1, <2>1 DEF Registered
  <2>3. ToSet(order) \subseteq ToHalt'
    <3>1. DOMAIN order = 1 .. Len(order)
      BY Known
    <3> QED BY <1>1, <1>2, <3>1 DEF ToHalt, ToSet
  <2>4. RegistryWithin(ToHalt)'
    BY <1>1, <2>2, <2>3 DEF RegistryWithin
  <2> QED BY <1>1, <2>1, <2>4 DEF Registered, IsUp, NameOf
<1> QED BY <1>1, <1>3, <1>4, <1>5, <1>6, <1>7 DEF ServicesInv

LEMMA HaltStops ==
  ASSUME ServicesInv, HaltNext
  PROVE  ServicesInv'
<1> DEFINE x == halt.ix
           i == order[x]
<1>1. /\ UNCHANGED <<scope, descs, order, byId, byClass, sync, overlapped, stopFailed>>
      /\ HaltsAll /\ halt.held = 0 /\ x \in DOMAIN order /\ Stopping(i)
      /\ halt' = [halt EXCEPT !.held = i, !.ix = @ - 1]
  BY DEF HaltNext, Halting, HaltsAll, manager, registry, marks
<1>2. x \in 1 .. Len(order) /\ Len(order) \in Nat /\ i \in ToSet(order) /\ i \in 1 .. Len(things)
  <2>1. x \in 1 .. Len(order) /\ Len(order) \in Nat
    BY <1>1, Known
  <2> QED BY <2>1, Known
<1>3. Relives(i, "stopping")
  BY <1>1, <1>2, StoppingFacts
<1>4. /\ halt' \in Halts(Len(things)) /\ halt'.at = halt.at /\ halt'.ix = x - 1 /\ halt'.held = i
  <2>1. x - 1 \in Nat /\ i \in 0 .. Len(things) /\ halt \in Halts(Len(things))
    BY <1>2 DEF ServicesInv, StepType
  <2> QED BY <1>1, <2>1 DEF Halts
<1>5. halt.at # "idle" /\ halt.at # "cleared"
  BY <1>1 DEF HaltsAll
<1>6. /\ things' \in Seq(Thing) /\ Len(things') = Len(things)
      /\ \A j \in 1 .. Len(things) :
           /\ NameOf(j)' = NameOf(j) /\ things'[j].ver = things[j].ver
           /\ IsUp(j)' <=> j # i /\ IsUp(j)
      /\ things'[i].life # "up"
  BY <1>2, <1>3, Known DEF Relives, IsUp
<1> HIDE DEF x, i
<1>7. ScanType' /\ ThingType' /\ StepType'
  BY <1>1, <1>4, <1>6 DEF ServicesInv, ScanType, ThingType, StepType
<1>8. Listed' = Listed
  BY <1>1, <1>3, SameListed
<1>9. OneEach' /\ Phases'
  <2>1. \A a, b \in ToSet(order) : NameOf(a)' = NameOf(b)' => a = b
    BY <1>6, Known DEF ServicesInv, OneEach
  <2>2. sync.held # 0 => NameOf(sync.held)' = NameOf(sync.held)
    BY <1>1, <1>6, Known
  <2> QED BY <1>1, <1>4, <1>5, <1>8, <2>1, <2>2 DEF ServicesInv, OneEach, Phases
<1>10. ASSUME ~overlapped PROVE sync.at = "idle" /\ sync.held = 0 /\ ~Dropping /\ ~Dropping'
  BY <1>1, <1>5, <1>10, OneAtATime DEF Dropping
<1>11. ASSUME ~overlapped PROVE Accounted'
  <2>1. Accounted
    BY <1>11 DEF ServicesInv
  <2>2. ASSUME NEW k \in 1 .. Len(order), k > x - 1 PROVE ~IsUp(order[k])'
    <3>1. order[k] \in 1 .. Len(things)
      BY Known
    <3>2. CASE k = x
      BY <1>1, <1>6, <3>2 DEF i, IsUp
    <3>3. CASE k # x
      <4>1. k > halt.ix
        BY <1>2, <2>2, <3>3 DEF x
      <4>2. things[order[k]].life # "up"
        BY <1>1, <2>1, <4>1 DEF Accounted, IsUp
      <4> QED BY <1>1, <1>6, <3>1, <4>2 DEF IsUp
    <3> QED BY <3>2, <3>3
  <2>3. x - 1 <= Len(order)
    BY <1>2
  <2>4. \A j \in 1 .. Len(things) : IsUp(j)' => j \in ToSet(order)
    BY <1>6, <2>1 DEF Accounted
  <2> QED BY <1>1, <1>4, <1>5, <1>6, <1>10, <1>11, <2>2, <2>3, <2>4 DEF Accounted, IsUp
<1>12. ~overlapped => Progress'
  BY <1>1, <1>10 DEF Progress
<1>13. ASSUME ~overlapped, ~stopFailed PROVE Registered'
  <2>1. Registered
    BY <1>13 DEF ServicesInv
  <2>2. RegistryWithin(ToHalt \cup {0})
    BY <1>1, <2>1 DEF Registered, RegistryWithin
  <2>3. ToHalt \subseteq ToHalt' \cup {0}
    <3>1. ASSUME NEW k \in 1 .. halt.ix PROVE order[k] \in ToHalt'
      <4>1. k \in 1 .. x - 1 \/ k = x
        BY <1>2, <3>1 DEF x
      <4> QED BY <1>1, <1>4, <4>1 DEF ToHalt, i
    <3> QED BY <1>1, <3>1 DEF ToHalt
  <2>4. RegistryWithin(ToHalt)'
    BY <1>1, <2>2, <2>3 DEF RegistryWithin
  <2>5. \A j \in ToSet(order) : IsUp(j)' => /\ byId'[NameOf(j)'] = j
                                         /\ byClass'[<<NameOf(j)', things'[j].ver>>] = j
    BY <1>1, <1>6, <2>1, Known DEF Registered
  <2>6. ASSUME NEW m \in NameSet, byId[m] # 0 PROVE things'[byId[m]].name = m
    <3>1. byId[m] \in 1 .. Len(things) /\ NameOf(byId[m]) = m
      BY <2>1, <2>6, Known DEF Registered
    <3> QED BY <1>6, <3>1 DEF NameOf
  <2> QED BY <1>1, <1>4, <1>5, <1>10, <1>13, <2>4, <2>5, <2>6 DEF Registered, IsUp, NameOf
<1> QED BY <1>1, <1>7, <1>9, <1>11, <1>12, <1>13 DEF ServicesInv

LEMMA HaltForgets ==
  ASSUME ServicesInv, HaltStopped
  PROVE  ServicesInv'
<1> DEFINE i == halt.held
<1>1. /\ UNCHANGED <<scope, descs, order, sync, overlapped, stopFailed>>
      /\ i # 0 /\ Lives(i, "stopped") /\ Unregister(i) /\ halt' = [halt EXCEPT !.held = 0]
  BY DEF HaltStopped, manager, marks, bounds
<1>2. i \in 1 .. Len(things) /\ Len(things) \in Nat
  BY <1>1, Known
<1>3. Relives(i, "stopped")
  BY <1>1, <1>2, LivesFacts DEF Lifes
<1>4. /\ byId' \in [NameSet -> 0 .. Len(things)] /\ byClass' \in [Classes -> 0 .. Len(things)]
      /\ \A n \in NameSet : byId'[n] = IF byId[n] = i THEN 0 ELSE byId[n]
      /\ \A c \in Classes : byClass'[c] = IF byClass[c] = i THEN 0 ELSE byClass[c]
  BY <1>1, UnregisterFacts
<1>5. halt.at \in {"stop", "rollback"} /\ HaltsAll
  BY <1>1 DEF ServicesInv, Phases, NoHalt, StepType, Halts, HaltsAll
<1>6. halt' \in Halts(Len(things)) /\ halt'.at = halt.at /\ halt'.ix = halt.ix /\ halt'.held = 0
  <2>1. 0 \in 0 .. Len(things)
    BY Known
  <2> QED BY <1>1, <2>1 DEF ServicesInv, StepType, Halts
<1> HIDE DEF i
<1>7. /\ things' \in Seq(Thing) /\ Len(things') = Len(things)
      /\ \A j \in 1 .. Len(things) :
           /\ NameOf(j)' = NameOf(j) /\ things'[j].ver = things[j].ver
           /\ IsUp(j)' <=> j # i /\ IsUp(j)
  BY <1>3, Known DEF Relives, IsUp
<1>8. ScanType' /\ ThingType' /\ StepType'
  BY <1>1, <1>4, <1>6, <1>7 DEF ServicesInv, ScanType, ThingType, StepType
<1>9. Listed' = Listed
  BY <1>1, <1>3, SameListed
<1>10. OneEach' /\ Phases'
  <2>1. \A a, b \in ToSet(order) : NameOf(a)' = NameOf(b)' => a = b
    BY <1>7, Known DEF ServicesInv, OneEach
  <2>2. sync.held # 0 => NameOf(sync.held)' = NameOf(sync.held)
    BY <1>1, <1>7, Known
  <2> QED BY <1>1, <1>5, <1>6, <1>9, <2>1, <2>2 DEF ServicesInv, OneEach, Phases
<1>11. ASSUME ~overlapped PROVE sync.at = "idle" /\ sync.held = 0 /\ ~Dropping /\ ~Dropping'
  BY <1>1, <1>5, <1>11, OneAtATime DEF Dropping
<1>12. ASSUME ~overlapped PROVE Accounted'
  <2>1. Accounted
    BY <1>12 DEF ServicesInv
  <2>2. \A k \in 1 .. Len(order) : k > halt.ix => ~IsUp(order[k])'
    <3> SUFFICES ASSUME NEW k \in 1 .. Len(order), k > halt.ix PROVE ~IsUp(order[k])'
      OBVIOUS
    <3>1. order[k] \in 1 .. Len(things) /\ things[order[k]].life # "up"
      BY <1>5, <2>1, Known DEF Accounted, IsUp
    <3> QED BY <1>1, <1>7, <3>1 DEF IsUp
  <2> QED BY <1>1, <1>5, <1>6, <1>7, <1>11, <1>12, <2>1, <2>2 DEF Accounted
<1>13. ~overlapped => Progress'
  BY <1>1, <1>11 DEF Progress
<1>14. ASSUME ~overlapped, ~stopFailed PROVE Registered'
  <2>1. Registered
    BY <1>14 DEF ServicesInv
  <2>2. RegistryWithin(ToHalt)
    BY <1>5, <2>1 DEF Registered
  <2>3. ToHalt \subseteq ToHalt' \cup {i}
    BY <1>1, <1>6 DEF ToHalt, i
  <2>4. RegistryWithin(ToHalt)'
    BY <1>4, <2>2, <2>3 DEF RegistryWithin
  <2>5. ASSUME NEW j \in ToSet(order), IsUp(j)'
        PROVE  byId'[NameOf(j)'] = j /\ byClass'[<<NameOf(j)', things'[j].ver>>] = j
    <3>1. /\ j # i /\ j \in 1 .. Len(things) /\ IsUp(j) /\ NameOf(j)' = NameOf(j)
          /\ NameOf(j) \in NameSet /\ <<NameOf(j), things[j].ver>> \in Classes
      BY <1>7, <2>5, Known
    <3>2. byId[NameOf(j)] = j /\ byClass[<<NameOf(j), things[j].ver>>] = j
      BY <2>1, <3>1 DEF Registered
    <3> QED BY <1>4, <1>7, <3>1, <3>2
  <2>6. ASSUME NEW m \in NameSet, byId'[m] # 0 PROVE things'[byId'[m]].name = m
    <3>1. byId[m] \in 1 .. Len(things) /\ NameOf(byId[m]) = m /\ byId'[m] = byId[m]
      BY <1>2, <1>4, <2>1, <2>6, Known DEF Registered
    <3> QED BY <1>7, <3>1 DEF NameOf
  <2> QED BY <1>1, <1>5, <1>6, <1>11, <1>14, <2>4, <2>5, <2>6 DEF Registered, IsUp, NameOf
<1> QED BY <1>1, <1>8, <1>10, <1>12, <1>13, <1>14 DEF ServicesInv

LEMMA HaltFails ==
  ASSUME ServicesInv, HaltRaises
  PROVE  ServicesInv'
<1> DEFINE i == halt.held
<1>1. /\ UNCHANGED <<scope, descs, order, sync, overlapped>> /\ stopFailed' = TRUE
      /\ i # 0 /\ Lives(i, "broken") /\ halt' = NoHalt
  BY DEF HaltRaises, manager
<1>2. i \in 1 .. Len(things) /\ 0 \in 0 .. Len(things)
  BY <1>1, Known
<1>3. Relives(i, "broken")
  BY <1>1, <1>2, LivesFacts DEF Lifes
<1>4. byId' \in [NameSet -> 0 .. Len(things)] /\ byClass' \in [Classes -> 0 .. Len(things)]
  BY <1>2 DEF HaltRaises, registry, ServicesInv, ThingType
<1>5. halt' \in Halts(Len(things)) /\ halt'.at = "idle" /\ halt'.held = 0 /\ ~HaltsAll'
  BY <1>1, <1>2 DEF NoHalt, Halts, HaltsAll
<1>6. /\ things' \in Seq(Thing) /\ Len(things') = Len(things)
      /\ \A j \in 1 .. Len(things) : NameOf(j)' = NameOf(j) /\ (IsUp(j)' => IsUp(j))
  BY <1>3, Known DEF Relives, IsUp
<1>7. halt.at # "idle"
  BY <1>1 DEF ServicesInv, Phases, NoHalt
<1> HIDE DEF i
<1>8. ScanType' /\ ThingType' /\ StepType'
  BY <1>1, <1>4, <1>5, <1>6 DEF ServicesInv, ScanType, ThingType, StepType
<1>9. Listed' = Listed
  BY <1>1, <1>3, SameListed
<1>10. OneEach' /\ Phases'
  <2>1. \A a, b \in ToSet(order) : NameOf(a)' = NameOf(b)' => a = b
    BY <1>6, Known DEF ServicesInv, OneEach
  <2>2. sync.held # 0 => NameOf(sync.held)' = NameOf(sync.held)
    BY <1>1, <1>6, Known
  <2> QED BY <1>1, <1>5, <1>9, <2>1, <2>2 DEF ServicesInv, OneEach, Phases
<1>11. ASSUME ~overlapped PROVE sync.at = "idle" /\ sync.held = 0
  BY <1>7, <1>11, OneAtATime
<1>12. ASSUME ~overlapped PROVE Accounted'
  BY <1>1, <1>5, <1>6, <1>11, <1>12 DEF ServicesInv, Accounted
<1>13. ~overlapped => Progress'
  BY <1>1, <1>11 DEF Progress
<1> QED BY <1>1, <1>8, <1>10, <1>12, <1>13 DEF ServicesInv

LEMMA HaltClears ==
  ASSUME ServicesInv, Cleared
  PROVE  ServicesInv'
<1>1. /\ UNCHANGED <<scope, things, byId, byClass, sync, overlapped, stopFailed>>
      /\ HaltsAll /\ halt.held = 0 /\ halt.ix \notin DOMAIN order
      /\ order' = <<>> /\ descs' = [n \in NameSet |-> 0] /\ halt' = [halt EXCEPT !.at = "cleared"]
  BY DEF Cleared, Halting, HaltsAll, registry, marks
<1>2. /\ halt' \in Halts(Len(things)) /\ halt'.at = "cleared" /\ halt'.held = 0
      /\ halt.ix \in Nat /\ halt.at # "idle"
  BY <1>1 DEF ServicesInv, StepType, Halts, HaltsAll
<1>3. descs' \in Scopes /\ order' \in Distinct(1 .. Len(things)) /\ ToSet(order') = {}
  BY <1>1, DistinctNone DEF Scopes
<1>4. ScanType' /\ ThingType' /\ StepType'
  BY <1>1, <1>2, <1>3 DEF ServicesInv, ScanType, ThingType, StepType
<1>5. OneEach' /\ Phases'
  <2>1. Listed' = {}
    BY <1>3 DEF Listed
  <2> QED BY <1>1, <1>2, <1>3, <2>1 DEF ServicesInv, OneEach, Phases
<1>6. ASSUME ~overlapped
      PROVE  /\ sync.at = "idle" /\ sync.held = 0 /\ ~Dropping' /\ ~HaltsAll'
             /\ halt.ix = 0
  <2>1. halt.ix <= Len(order)
    BY <1>1, <1>6 DEF ServicesInv, Accounted
  <2> QED BY <1>1, <1>2, <1>6, <2>1, Known, OneAtATime DEF Dropping, HaltsAll
<1>7. ASSUME ~overlapped PROVE Accounted'
  <2>1. ASSUME NEW j \in 1 .. Len(things) PROVE ~IsUp(j)
    <3>1. \A k \in 1 .. Len(order) : ~IsUp(order[k])
      BY <1>1, <1>6, <1>7 DEF ServicesInv, Accounted
    <3>2. j \in ToSet(order) => \E k \in 1 .. Len(order) : order[k] = j
      BY Known DEF ToSet
    <3> QED BY <1>7, <3>1, <3>2 DEF ServicesInv, Accounted
  <2> QED BY <1>1, <1>2, <1>6, <1>7, <2>1 DEF Accounted, IsUp
<1>8. ~overlapped => Progress'
  BY <1>1, <1>6 DEF Progress
<1>9. ASSUME ~overlapped, ~stopFailed PROVE Registered'
  <2>1. Registered
    BY <1>9 DEF ServicesInv
  <2>2. ToHalt = {0}
    BY <1>1, <1>6, <1>9 DEF ToHalt
  <2>3. RegistryWithin({})'
    BY <1>1, <2>1, <2>2 DEF Registered, RegistryWithin
  <2> QED BY <1>1, <1>2, <1>3, <1>6, <1>9, <2>1, <2>3 DEF Registered, NameOf
<1> QED BY <1>1, <1>4, <1>5, <1>7, <1>8, <1>9 DEF ServicesInv

LEMMA HaltEnds ==
  ASSUME ServicesInv, EndHalt
  PROVE  ServicesInv'
<1>1. /\ UNCHANGED <<scope, descs, things, order, sync, overlapped, stopFailed>>
      /\ halt.at = "cleared" /\ halt' = NoHalt
      /\ byId' = [n \in NameSet |-> 0] /\ byClass' = [c \in Classes |-> 0]
  BY DEF EndHalt, manager, marks
<1>2. /\ halt' \in Halts(Len(things)) /\ halt'.at = "idle" /\ halt'.held = 0 /\ ~HaltsAll'
      /\ 0 \in 0 .. Len(things)
  BY <1>1, Known DEF NoHalt, Halts, HaltsAll
<1>3. ScanType' /\ ThingType' /\ StepType'
  BY <1>1, <1>2 DEF ServicesInv, ScanType, ThingType, StepType
<1>4. OneEach' /\ Phases'
  BY <1>1, <1>2 DEF ServicesInv, OneEach, Phases, NameOf, Listed
<1>5. ASSUME ~overlapped PROVE sync.at = "idle" /\ sync.held = 0 /\ ~Dropping' /\ order = <<>>
  BY <1>1, <1>5, OneAtATime DEF Dropping, ServicesInv, Accounted
<1>6. ~overlapped => Accounted'
  BY <1>1, <1>2 DEF ServicesInv, Accounted, IsUp
<1>7. ~overlapped => Progress'
  BY <1>1, <1>5 DEF Progress
<1>8. ASSUME ~overlapped, ~stopFailed PROVE Registered'
  <2>1. ToSet(order) = {}
    BY <1>5, <1>8, DistinctNone
  <2> QED BY <1>1, <1>2, <1>5, <1>8, <2>1 DEF Registered, RegistryWithin
<1> QED BY <1>1, <1>3, <1>4, <1>6, <1>7, <1>8 DEF ServicesInv

-----------------------------------------------------------------------------
(* Instances: the theorems                                                 *)

LEMMA StepKeeps ==
  ASSUME ServicesInv, [InstancesNext]_instanceVars
  PROVE  ServicesInv'
<1>1. CASE UNCHANGED instanceVars
  <2>1. UNCHANGED <<scope, descs, order, things, byId, byClass, sync, halt, overlapped, stopFailed>>
    BY <1>1 DEF instanceVars, manager, registry, marks
  <2>2. ScanType' /\ ThingType' /\ StepType' /\ OneEach' /\ Phases'
    BY <2>1 DEF ServicesInv, ScanType, ThingType, StepType, OneEach, Phases, NameOf, Listed
  <2>3. Accounted' = Accounted /\ Progress' = Progress
    BY <2>1 DEF Accounted, Progress, HaltsAll, IsUp, NameOf, Fits, Ahead, Listed
  <2>4. Registered' = Registered
    BY <2>1 DEF Registered, HaltsAll, IsUp, NameOf, Dropping, RegistryWithin, ToHalt
  <2> QED BY <2>1, <2>2, <2>3, <2>4 DEF ServicesInv
<1>2. CASE InstancesNext
  <2>1. CASE \E n \in NameSet, v \in Versions \cup {0} : ChangeScope(n, v)
    BY <2>1, ScopeChanges
  <2>2. CASE \E kind \in {"start", "refresh"} : BeginSync(kind)
    BY <2>2, SyncBegins
  <2>3. CASE NextLoop
    BY <2>3, LoopEnds
  <2>4. CASE \E n \in NameSet : Drop(n) \/ DropMissing(n) \/ Bring(n)
    BY <2>4, Drops, MissesOne, Brings
  <2>5. CASE Dropped
    BY <2>5, Leaves
  <2>6. CASE DropRaises
    BY <2>6, DropFails
  <2>7. CASE Brought
    BY <2>7, Enters
  <2>8. CASE BringRaises
    BY <2>8, BringFails
  <2>9. CASE Finish
    BY <2>9, Finishes
  <2>10. CASE FinishRaises
    BY <2>10, FinishFails
  <2>11. CASE BeginHalt
    BY <2>11, HaltBegins
  <2>12. CASE HaltNext
    BY <2>12, HaltStops
  <2>13. CASE HaltStopped
    BY <2>13, HaltForgets
  <2>14. CASE HaltRaises
    BY <2>14, HaltFails
  <2>15. CASE Cleared
    BY <2>15, HaltClears
  <2>16. CASE EndHalt
    BY <2>16, HaltEnds
  <2> QED BY <1>2, <2>1, <2>2, <2>3, <2>4, <2>5, <2>6, <2>7, <2>8, <2>9, <2>10, <2>11, <2>12,
             <2>13, <2>14, <2>15, <2>16 DEF InstancesNext
<1> QED BY <1>1, <1>2

LEMMA ServicesInvHolds == InstancesSpec => []ServicesInv
<1>1. ServicesInv /\ [InstancesNext]_instanceVars => ServicesInv'
  BY StepKeeps
<1> QED BY Starts, <1>1, PTL DEF InstancesSpec

\* The tables keep their types: every listed instance was made, and no instance
\* or name is listed twice, whatever fails and whenever stop() comes
\* (InstanceManager, core/classes/manager.py:212).
TablesOK == ThingType /\ OneEach
THEOREM TablesAreSound == InstancesSpec => []TablesOK
<1>1. ServicesInv => TablesOK
  BY DEF ServicesInv, TablesOK
<1> QED BY ServicesInvHolds, <1>1, PTL

\* What runs is listed, until a stop overlaps a refresh: no failing start(),
\* stop() or refresh() and no rollback leaves an instance running that the
\* manager does not know (_reconcile_instances, _stop_all_instances).
THEOREM NoneRunsUnlisted == InstancesSpec => []NothingLeaks
<1>1. ServicesInv => NothingLeaks
  BY Known DEF ServicesInv, NothingLeaks, Accounted, IsUp
<1> QED BY ServicesInvHolds, <1>1, PTL

\* ServiceInstanceRegistry has what is listed under its id and its class and
\* nothing else, until a stop() raises or overlaps a refresh.
THEOREM RegistryIsRight == InstancesSpec => []RegistryServesTheListed
<1>1. ASSUME ServicesInv PROVE RegistryServesTheListed
  <2> SUFFICES ASSUME ~overlapped, ~stopFailed PROVE RegistryServesTheListed
    BY DEF RegistryServesTheListed
  <2>1. Registered
    BY <1>1 DEF ServicesInv
  <2>2. RegistryWithin(ToSet(order) \cup Held)
    <3>1. CASE Dropping
      BY <2>1, <3>1 DEF Registered, RegistryWithin, Held
    <3>2. CASE ~Dropping /\ halt.at = "idle"
      BY <2>1, <3>2 DEF Registered, RegistryWithin
    <3>3. CASE HaltsAll
      <4>1. \A k \in 1 .. halt.ix : order[k] \in ToSet(order)
        <5>1. halt.ix <= Len(order) /\ halt.ix \in Nat
          BY <1>1, <3>3 DEF ServicesInv, Accounted, StepType, Halts
        <5>2. \A k \in 1 .. halt.ix : k \in 1 .. Len(order)
          BY <1>1, <5>1, Known
        <5> QED BY <1>1, <5>2, Known
      <4>2. ToHalt \subseteq ToSet(order) \cup Held
        BY <4>1 DEF ToHalt, Held
      <4> QED BY <2>1, <3>3, <4>2 DEF Registered, RegistryWithin
    <3>4. CASE halt.at = "cleared"
      BY <2>1, <3>4 DEF Registered, RegistryWithin
    <3> QED BY <1>1, <3>1, <3>2, <3>3, <3>4 DEF HaltsAll, ServicesInv, StepType, Halts
  <2> QED BY <2>1, <2>2 DEF Registered, RegistryWithin, RegistryServesTheListed, IsUp
<1>2. ServicesInv => RegistryServesTheListed
  BY <1>1
<1> QED BY ServicesInvHolds, <1>2, PTL

\* A refresh that ends well has one running instance for each descriptor, of
\* its fingerprint, and the active one is among them (_reconcile_instances and
\* _select_active).
THEOREM RefreshLeavesTheWanted == InstancesSpec => RefreshReconciles
<1> DEFINE Reconciled ==
      Finish /\ ~overlapped /\ ~stopFailed =>
        /\ Listed' = { n \in NameSet : sync.want[n] # 0 }
        /\ Len(order') = Cardinality(Listed')
        /\ \A i \in ToSet(order') :
             /\ things'[i].life = "up"
             /\ Fingerprint(things'[i].ver) = Fingerprint(sync.want[NameOf(i)])
        /\ order' # <<>> => active' \in Listed'
<1>1. ASSUME ServicesInv, Finish, ~overlapped, ~stopFailed PROVE Reconciled
  <2>1. /\ sync.at = "refreshing" /\ UNCHANGED <<order, things>> /\ active' = Selected
        /\ Progress /\ Registered /\ halt.at = "idle"
    BY <1>1, OneAtATime DEF Finish, ServicesInv
  <2>2. Listed' = Listed
    BY <2>1 DEF Listed, NameOf
  <2>3. Listed = { n \in NameSet : sync.want[n] # 0 }
    <3>1. ASSUME NEW n \in Listed PROVE n \in NameSet /\ sync.want[n] # 0
      BY <1>1, <2>1, InstanceFacts DEF Progress
    <3>2. \A n \in NameSet : sync.want[n] # 0 => n \in Listed
      BY <2>1 DEF Progress
    <3> QED BY <3>1, <3>2
  <2>4. Len(order) = Cardinality(Listed)
    <3> DEFINE N == Len(order)
               f == [k \in 1 .. N |-> NameOf(order[k])]
    <3>1. N \in Nat /\ IsFiniteSet(1 .. N) /\ Cardinality(1 .. N) = N
      <4>1. N \in Nat
        BY <1>1, Known
      <4> HIDE DEF N
      <4> QED BY <4>1, Interval
    <3>2. ASSUME NEW j \in 1 .. N, NEW k \in 1 .. N, f[j] = f[k] PROVE j = k
      <4>1. order[j] \in ToSet(order) /\ order[k] \in ToSet(order)
        BY <1>1, Known
      <4>2. order[j] = order[k]
        BY <1>1, <3>2, <4>1 DEF ServicesInv, OneEach
      <4>3. order \in Distinct(1 .. Len(things))
        BY <1>1 DEF ServicesInv, ThingType
      <4> QED BY <4>2, <4>3, DistinctFacts
    <3>3. \A k \in 1 .. N : f[k] \in Listed
      BY <1>1, Known
    <3>4. \A n \in Listed : \E k \in 1 .. N : f[k] = n
      <4>1. \A i \in ToSet(order) : \E k \in 1 .. N : order[k] = i
        BY <1>1, Known DEF ToSet
      <4> QED BY <1>1, <4>1, Known
    <3>5. f \in Injection(1 .. N, Listed) /\ f \in Surjection(1 .. N, Listed)
      <4>1. f \in [1 .. N -> Listed]
        BY <3>3
      <4>2. DOMAIN f = 1 .. N
        OBVIOUS
      <4> HIDE DEF f
      <4> QED BY <3>2, <3>4, <4>1, <4>2 DEF Injection, Surjection, IsInjective
    <3> HIDE DEF f
    <3> QED BY <3>1, <3>5, FS_Surjection
  <2>5. \A i \in ToSet(order) : things[i].life = "up" /\ Fits(i)
    BY <2>1 DEF Progress, Registered, IsUp
  <2>6. order # <<>> => Selected \in Listed
    <3> SUFFICES ASSUME order # <<>> PROVE Selected \in Listed
      OBVIOUS
    <3>1. order \in Seq(1 .. Len(things)) /\ Len(order) \in Nat
      BY <1>1, Known DEF ServicesInv, ThingType, Distinct
    <3>2. 1 \in 1 .. Len(order)
      BY <3>1
    <3>3. NameOf(order[1]) \in Listed
      BY <1>1, <3>2, Known
    <3> QED BY <3>3 DEF Selected
  <2> QED BY <2>1, <2>2, <2>3, <2>4, <2>5, <2>6 DEF Fits
<1>2. ServicesInv /\ [InstancesNext]_instanceVars => [Reconciled]_instanceVars
  <2> HIDE DEF Reconciled
  <2>1. ~(Finish /\ ~overlapped /\ ~stopFailed) => Reconciled
    BY DEF Reconciled
  <2> QED BY <1>1, <2>1
<1> QED BY ServicesInvHolds, <1>2, PTL DEF InstancesSpec, RefreshReconciles

-----------------------------------------------------------------------------
(* CodeActExec                                                             *)

Answers == [call : Calls, kind : {"value", "error"}]
Messages == Answers \cup {Payload}

ExecPcs == Body \cup {"closing", "gather", "gatherCancelled", "closeTransport",
                      "wait", "rewait", "stderr", "ended"}

WorkerPcs == {"absent", "connecting", "hello", "boot", "code", "closing", "dead"}

Execs == [pc : ExecPcs, reason : {"none", "timeout", "lost", "error", "cancelled"},
          response : BOOLEAN, transport : {"none", "held", "closed"},
          outcome : {"none", "raisesCancelled", "raisesError", "timeout", "result", "crashed"},
          abandoned : BOOLEAN, cancels : Nat]

Workers == [pc : WorkerPcs, signal : {"none", "term", "kill"}, reading : BOOLEAN]

TypeOK ==
  /\ exec \in Execs
  /\ accepted \in {"none", "pending", "set", "cancelled"}
  /\ socket \in {"none", "open", "closed"}
  /\ worker \in Workers
  /\ inbox \in Seq(Calls \cup {"result"})
  /\ outbox \in Seq(Messages)
  /\ rpc \in [Calls -> {"none", "running", "cancelling", "answered", "expired", "dropped"}]
  /\ call \in [Calls -> {"idle", "pending", "value", "error", "timeout", "closed"}]

-----------------------------------------------------------------------------
(* The inductive invariant. *)

\* Before accept() returns nothing has been sent, no code runs and no tool.
NothingBeforeAccept ==
  /\ exec.pc \in {"listen", "spawn", "accept"} => exec.transport = "none"
  /\ exec.pc = "recv" => exec.transport = "held"
  /\ exec.pc \in {"listen", "spawn"} => worker.pc = "absent"
  /\ exec.transport = "none" => /\ outbox = <<>>
                                /\ \A c \in Calls : rpc[c] = "none"
                                /\ worker.pc \notin {"code", "closing"}

\* The code runs only once the payload is read, and only answers follow it.
PayloadIsFirst ==
  /\ worker.pc \in {"code", "closing"} => outbox \in Seq(Answers)
  /\ worker.pc \in {"absent", "connecting", "hello", "boot"} =>
       \/ outbox = <<>> /\ exec.transport = "none"
       \/ outbox # <<>> /\ Head(outbox) = Payload /\ Tail(outbox) \in Seq(Answers)

\* The steps of the cleanup, each of which the later ones rely on.
Cleaned == exec.pc = "ended" /\ ~exec.abandoned

HandlersGone ==
  /\ exec.pc \in {"gather", "gatherCancelled"} => \A c \in Calls : rpc[c] # "running"
  /\ exec.pc \in {"closeTransport", "wait", "rewait", "stderr"} \/ Cleaned => HandlersDone

TransportGone ==
  exec.pc \in {"closeTransport", "wait", "rewait", "stderr"} \/ Cleaned => exec.transport # "held"

WorkerGone == exec.pc \in {"rewait", "stderr"} \/ Cleaned => WorkerIsStopped

InterruptedGather == exec.pc = "gatherCancelled" => exec.abandoned

Cleanup == HandlersGone /\ TransportGone /\ WorkerGone /\ InterruptedGather

\* A transport that is closed has closed its socket, and no other connection opens.
ClosedForGood == exec.transport = "closed" => socket = "closed"

ExecInv == TypeOK /\ NothingBeforeAccept /\ PayloadIsFirst /\ Cleanup /\ ClosedForGood

-----------------------------------------------------------------------------
(* Types. *)

\* A signal only ever reaches a process that is there.
LEMMA SignalledType ==
  ASSUME TypeOK, NEW s \in {"term", "kill"}
  PROVE  /\ Signalled(s) \in Workers
         /\ Signalled(s).pc = worker.pc
         /\ worker.signal = "kill" => Signalled(s).signal = "kill"
         /\ s = "kill" /\ Alive => Signalled(s).signal = "kill"
  BY DEF TypeOK, Workers, Signalled

\* What execute() raises or returns is one of its outcomes.
LEMMA OutcomeType ==
  ASSUME TypeOK
  PROVE  Outcome \in {"raisesCancelled", "raisesError", "timeout", "result", "crashed"}
  BY DEF TypeOK, Execs, Outcome

\* The part of the cleanup from the process on keeps the types.
LEMMA StopProcessType ==
  ASSUME TypeOK, NEW e \in Execs, StopProcess(e)
  PROVE  exec' \in Execs /\ worker' \in Workers
  <1>1. e.reason \in {"none", "timeout", "lost", "error", "cancelled"}
    BY DEF Execs
  <1>2. CASE Alive
    BY <1>1, <1>2, SignalledType DEF StopProcess, Execs, ExecPcs
  <1>3. CASE ~Alive
    <2>1. Outcome \in {"raisesCancelled", "raisesError", "timeout", "result", "crashed"}
      BY OutcomeType
    <2>2. [e EXCEPT !.pc = "ended", !.outcome = Outcome] \in Execs
      BY <2>1 DEF Execs, ExecPcs
    <2>3. [e EXCEPT !.pc = "stderr"] \in Execs
      BY DEF Execs, ExecPcs
    <2>4. QED  BY <1>3, <2>2, <2>3 DEF StopProcess, TypeOK
  <1>4. QED  BY <1>2, <1>3

\* So does the part from the transport on.
LEMMA CloseTransportType ==
  ASSUME TypeOK, CloseTransport
  PROVE  exec' \in Execs /\ worker' \in Workers /\ socket' \in {"none", "open", "closed"}
  <1>1. CASE exec.transport = "held"
    BY <1>1 DEF CloseTransport, TypeOK, Execs, ExecPcs
  <1>2. CASE exec.transport # "held"
    BY <1>2, StopProcessType DEF CloseTransport, TypeOK
  <1>3. QED  BY <1>1, <1>2

\* Every except branch of execute() keeps the types.
LEMMA LeaveType ==
  ASSUME TypeOK, NEW reason \in {"timeout", "lost", "error", "cancelled"}, Leave(reason)
  PROVE  TypeOK'
  BY SignalledType DEF Leave, TypeOK, Execs, ExecPcs

\* An answer is delivered or swallowed.
LEMMA SendType ==
  ASSUME TypeOK, NEW m \in Answers, Send(m)
  PROVE  outbox' \in Seq(Messages)
  BY DEF Send, TypeOK, Messages

\* The first message in the worker's mailbox and the rest of it.
LEMMA Mailbox ==
  ASSUME NEW S, NEW q \in Seq(S), q # <<>>
  PROVE  Head(q) \in S /\ Tail(q) \in Seq(S)
  BY HeadTailProperties

\* Every step keeps the types.
LEMMA TypeStep == ExecInv /\ [Next]_vars => TypeOK'
  <1> SUFFICES ASSUME ExecInv, [Next]_vars PROVE TypeOK'
    OBVIOUS
  <1>t. TypeOK
    BY DEF ExecInv
  <1>1. CASE Listen
    BY <1>t, <1>1 DEF Listen, TypeOK, Execs, ExecPcs, Body
  <1>2. CASE Spawn
    BY <1>t, <1>2 DEF Spawn, TypeOK, Execs, ExecPcs, Body, Workers, WorkerPcs
  <1>3. CASE Accept
    <2>1. exec' \in Execs
      BY <1>t, <1>3 DEF Accept, TypeOK, Execs, ExecPcs, Body
    <2>2. outbox' \in Seq(Messages)
      BY <1>t, <1>3 DEF Accept, TypeOK, Messages
    <2>3. QED  BY <1>t, <1>3, <2>1, <2>2 DEF Accept, TypeOK
  <1>4. CASE ReceiveCall
    <2>1. Head(inbox) \in Calls /\ Tail(inbox) \in Seq(Calls \cup {"result"})
      BY <1>t, <1>4, Mailbox DEF ReceiveCall, TypeOK
    <2>2. QED  BY <1>t, <1>4, <2>1 DEF ReceiveCall, TypeOK
  <1>5. CASE ReceiveResult
    <2>1. Tail(inbox) \in Seq(Calls \cup {"result"})
      BY <1>t, <1>5, Mailbox DEF ReceiveResult, TypeOK
    <2>2. exec' \in Execs
      BY <1>t, <1>5 DEF ReceiveResult, TypeOK, Execs, ExecPcs, Body
    <2>3. QED  BY <1>t, <1>5, <2>1, <2>2 DEF ReceiveResult, TypeOK
  <1>6. CASE ServerClosed
    <2>1. rpc' \in [Calls -> {"none", "running", "cancelling", "answered", "expired", "dropped"}]
      BY <1>t, <1>6 DEF ServerClosed, TypeOK
    <2>2. exec' \in Execs /\ worker' \in Workers /\ socket' \in {"none", "open", "closed"}
      <3>1. CASE CloseTransport
        BY <1>t, <3>1, CloseTransportType
      <3>2. CASE ~CloseTransport
        BY <1>t, <1>6, <3>2 DEF ServerClosed, TypeOK, Execs, ExecPcs
      <3>3. QED  BY <3>1, <3>2
    <2>3. QED  BY <1>t, <1>6, <2>1, <2>2 DEF ServerClosed, TypeOK
  <1>7. CASE Gathered
    <2>1. exec' \in Execs /\ worker' \in Workers /\ socket' \in {"none", "open", "closed"}
      BY <1>t, <1>7, CloseTransportType DEF Gathered
    <2>2. QED  BY <1>t, <1>7, <2>1 DEF Gathered, TypeOK
  <1>8. CASE GatherRaises
    BY <1>t, <1>8 DEF GatherRaises, TypeOK, Execs, ExecPcs
  <1>9. CASE TransportClosed
    <2>1. exec' \in Execs /\ worker' \in Workers
      BY <1>t, <1>9, StopProcessType DEF TransportClosed, TypeOK
    <2>2. QED  BY <1>t, <1>9, <2>1 DEF TransportClosed, TypeOK
  <1>10. CASE WorkerWaited
    BY <1>t, <1>10 DEF WorkerWaited, TypeOK, Execs, ExecPcs
  <1>11. CASE StderrRead
    <2>1. exec' \in Execs
      <3>1. Outcome \in {"raisesCancelled", "raisesError", "timeout", "result", "crashed"}
        BY <1>t, OutcomeType
      <3>2. QED  BY <1>t, <1>11, <3>1 DEF StderrRead, TypeOK, Execs, ExecPcs
    <2>2. QED  BY <1>t, <1>11, <2>1 DEF StderrRead, TypeOK
  <1>12. CASE TimeOut
    BY <1>t, <1>12, LeaveType DEF TimeOut
  <1>13. CASE SpawnFails
    BY <1>t, <1>13, LeaveType DEF SpawnFails
  <1>14. CASE ConnectionLost
    BY <1>t, <1>14, LeaveType DEF ConnectionLost
  <1>15. CASE WaitTimesOut
    BY <1>t, <1>15, SignalledType DEF WaitTimesOut, TypeOK, Execs, ExecPcs
  <1>16. CASE Cancel
    <2> DEFINE n == exec.cancels + 1
    <2>n. n \in Nat
      BY <1>t DEF TypeOK, Execs
    <2>1. CASE CancelBody
      <3>1. exec' = [exec EXCEPT !.pc = "closing", !.reason = "cancelled", !.cancels = n]
        BY <2>1 DEF CancelBody
      <3> HIDE DEF n
      <3>2. exec' \in Execs
        BY <1>t, <2>n, <3>1 DEF TypeOK, Execs, ExecPcs
      <3>3. worker' \in Workers
        BY <1>t, <2>1, SignalledType DEF CancelBody
      <3>4. QED  BY <1>t, <2>1, <3>2, <3>3 DEF CancelBody, TypeOK
    <2>2. CASE CancelCleanup
      <3>1. Outcome \in {"raisesCancelled", "raisesError", "timeout", "result", "crashed"}
        BY <1>t, OutcomeType
      <3>2. \/ exec' = [exec EXCEPT !.pc = "ended", !.outcome = "raisesCancelled",
                                     !.abandoned = TRUE, !.cancels = n]
            \/ exec' = [exec EXCEPT !.pc = "gatherCancelled", !.abandoned = TRUE, !.cancels = n]
            \/ exec' = [exec EXCEPT !.pc = "ended", !.outcome = Outcome, !.cancels = n]
        BY <2>2 DEF CancelCleanup
      <3> HIDE DEF n
      <3>3. exec' \in Execs
        <4>1. [exec EXCEPT !.pc = "ended", !.outcome = "raisesCancelled",
                           !.abandoned = TRUE, !.cancels = n] \in Execs
          BY <1>t, <2>n DEF TypeOK, Execs, ExecPcs
        <4>2. [exec EXCEPT !.pc = "gatherCancelled", !.abandoned = TRUE, !.cancels = n] \in Execs
          BY <1>t, <2>n DEF TypeOK, Execs, ExecPcs
        <4>3. [exec EXCEPT !.pc = "ended", !.outcome = Outcome, !.cancels = n] \in Execs
          BY <1>t, <2>n, <3>1 DEF TypeOK, Execs, ExecPcs
        <4>4. QED  BY <3>2, <4>1, <4>2, <4>3
      <3>4. QED  BY <1>t, <2>2, <3>3 DEF CancelCleanup, TypeOK
    <2>3. QED  BY <1>16, <2>1, <2>2 DEF Cancel
  <1>17. CASE Handshake
    BY <1>t, <1>17 DEF Handshake, TypeOK, Workers, WorkerPcs
  <1>18. CASE HandshakeFails
    BY <1>t, <1>18 DEF HandshakeFails, TypeOK
  <1>19. ASSUME NEW c \in Calls, AnswerCall(c) PROVE TypeOK'
    <2>1. outbox' \in Seq(Messages)
      BY <1>t, <1>19, SendType DEF AnswerCall, Answers
    <2>2. QED  BY <1>t, <1>19, <2>1 DEF AnswerCall, TypeOK
  <1>20. ASSUME NEW c \in Calls, ExpireCall(c) PROVE TypeOK'
    <2>1. outbox' \in Seq(Messages)
      BY <1>t, <1>20, SendType DEF ExpireCall, Answers
    <2>2. QED  BY <1>t, <1>20, <2>1 DEF ExpireCall, TypeOK
  <1>21. ASSUME NEW c \in Calls, HandlerUnwinds(c) PROVE TypeOK'
    BY <1>t, <1>21 DEF HandlerUnwinds, TypeOK
  <1>22. CASE Connect
    BY <1>t, <1>22 DEF Connect, TypeOK, Workers, WorkerPcs
  <1>23. CASE Boot
    <2>1. Tail(outbox) \in Seq(Messages)
      BY <1>t, <1>23, Mailbox DEF Boot, TypeOK
    <2>2. worker' \in Workers
      BY <1>t, <1>23 DEF Boot, TypeOK, Workers, WorkerPcs
    <2>3. QED  BY <1>t, <1>23, <2>1, <2>2 DEF Boot, TypeOK
  <1>24. CASE ReadAnswer
    <2>1. Head(outbox) \in Answers
      BY <1>24, Mailbox DEF ReadAnswer, ExecInv, PayloadIsFirst
    <2>2. Tail(outbox) \in Seq(Messages)
      BY <1>t, <1>24, Mailbox DEF ReadAnswer, TypeOK
    <2>3. call' \in [Calls -> {"idle", "pending", "value", "error", "timeout", "closed"}]
      BY <1>t, <1>24, <2>1 DEF ReadAnswer, TypeOK, Answers
    <2>4. QED  BY <1>t, <1>24, <2>2, <2>3 DEF ReadAnswer, TypeOK
  <1>25. CASE ReaderEnds
    BY <1>t, <1>25 DEF ReaderEnds, PendingClosed, TypeOK, Workers, WorkerPcs
  <1>26. CASE CodeEnds
    <2>1. inbox' \in Seq(Calls \cup {"result"})
      BY <1>t, <1>26 DEF CodeEnds, TypeOK
    <2>2. QED  BY <1>t, <1>26, <2>1 DEF CodeEnds, PendingClosed, TypeOK, Workers, WorkerPcs
  <1>27. CASE Die
    BY <1>t, <1>27 DEF Die, TypeOK, Workers, WorkerPcs
  <1>28. ASSUME NEW c \in Calls, Request(c) PROVE TypeOK'
    <2>1. inbox' \in Seq(Calls \cup {"result"})
      BY <1>t, <1>28 DEF Request, TypeOK
    <2>2. QED  BY <1>t, <1>28, <2>1 DEF Request, TypeOK
  <1>29. ASSUME NEW c \in Calls, RequestTimesOut(c) PROVE TypeOK'
    BY <1>t, <1>29 DEF RequestTimesOut, TypeOK
  <1>30. CASE UNCHANGED vars
    BY <1>t, <1>30 DEF vars, TypeOK
  <1>31. QED
    BY <1>1, <1>2, <1>3, <1>4, <1>5, <1>6, <1>7, <1>8, <1>9, <1>10, <1>11, <1>12, <1>13,
       <1>14, <1>15, <1>16, <1>17, <1>18, <1>19, <1>20, <1>21, <1>22, <1>23, <1>24, <1>25,
       <1>26, <1>27, <1>28, <1>29, <1>30 DEF Next, ParentStep

-----------------------------------------------------------------------------
(* What the steps do to the parts the invariant speaks of. *)

\* The cleanup from the process on: it waits, or the process is already gone.
LEMMA StopProcessSteps ==
  ASSUME TypeOK, NEW e \in Execs, StopProcess(e)
  PROVE  /\ exec'.pc \in {"wait", "stderr", "ended"}
         /\ exec'.transport = e.transport /\ exec'.abandoned = e.abandoned
         /\ worker'.pc = worker.pc
         /\ exec'.pc # "wait" => ~Alive /\ worker' = worker
  <1>1. CASE Alive
    <2>1. worker'.pc = worker.pc
      BY <1>1, SignalledType DEF StopProcess
    <2>2. exec' = [e EXCEPT !.pc = "wait"]
      BY <1>1 DEF StopProcess
    <2>3. QED  BY <2>1, <2>2 DEF Execs
  <1>2. CASE ~Alive
    <2>1. /\ worker' = worker
          /\ exec' = [e EXCEPT !.pc = "ended", !.outcome = Outcome] \/ exec' = [e EXCEPT !.pc = "stderr"]
      BY <1>2 DEF StopProcess
    <2>2. QED  BY <1>2, <2>1 DEF Execs
  <1>3. QED  BY <1>1, <1>2

\* From the transport on it is closed first, if there is one.
LEMMA CloseTransportSteps ==
  ASSUME TypeOK, CloseTransport
  PROVE  /\ exec'.pc \in {"closeTransport", "wait", "stderr", "ended"}
         /\ exec'.transport # "held"
         /\ exec'.transport = "none" => exec.transport = "none"
         /\ exec.transport = "none" => exec'.transport = "none"
         /\ exec'.abandoned = exec.abandoned
         /\ worker'.pc = worker.pc
         /\ exec'.pc \in {"stderr", "ended"} => ~Alive /\ worker' = worker
  <1>1. CASE exec.transport = "held"
    BY <1>1 DEF CloseTransport, TypeOK, Execs
  <1>2. CASE exec.transport # "held"
    BY <1>2, StopProcessSteps DEF CloseTransport, TypeOK
  <1>3. QED  BY <1>1, <1>2

\* An except branch leaves the transport and the worker's place alone.
LEMMA LeaveSteps ==
  ASSUME TypeOK, NEW reason \in {"timeout", "lost", "error", "cancelled"}, Leave(reason)
  PROVE  /\ exec'.pc = "closing"
         /\ exec'.transport = exec.transport /\ exec'.abandoned = exec.abandoned
         /\ worker'.pc = worker.pc
         /\ outbox' = outbox /\ rpc' = rpc
  BY SignalledType DEF Leave, TypeOK, Execs

-----------------------------------------------------------------------------
(* The order of payload, code and answers. *)

\* What is in the outbox before the code runs, after an answer is put behind it.
LEMMA SendKeepsOrder ==
  ASSUME ExecInv, NEW m \in Answers, Send(m), exec.transport # "none",
         worker' = worker, exec' = exec
  PROVE  PayloadIsFirst'
  <1>t. TypeOK /\ PayloadIsFirst
    BY DEF ExecInv
  <1>1. CASE outbox' = outbox
    BY <1>t, <1>1 DEF PayloadIsFirst
  <1>2. CASE outbox' = Append(outbox, m)
    <2>1. CASE worker.pc \in {"code", "closing"}
      BY <1>t, <1>2, <2>1 DEF PayloadIsFirst
    <2>2. CASE worker.pc \in {"absent", "connecting", "hello", "boot"}
      <3>1. outbox \in Seq(Messages) /\ outbox # <<>> /\ Head(outbox) = Payload
            /\ Tail(outbox) \in Seq(Answers)
        BY <1>t, <2>2 DEF PayloadIsFirst, TypeOK
      <3>2. Tail(Append(outbox, m)) = Append(Tail(outbox), m)
            /\ Head(Append(outbox, m)) = Head(outbox) /\ Append(outbox, m) # <<>>
        BY <3>1 DEF Messages
      <3>3. QED  BY <1>2, <2>2, <3>1, <3>2 DEF PayloadIsFirst
    <2>3. QED  BY <2>1, <2>2 DEF PayloadIsFirst
  <1>3. QED  BY <1>1, <1>2 DEF Send

\* Before accept() has returned nothing reaches the worker, and its first message
\* is the payload.
LEMMA OrderStep == ExecInv /\ [Next]_vars => NothingBeforeAccept' /\ PayloadIsFirst'
  <1> SUFFICES ASSUME ExecInv, [Next]_vars PROVE NothingBeforeAccept' /\ PayloadIsFirst'
    OBVIOUS
  <1>t. TypeOK /\ NothingBeforeAccept /\ PayloadIsFirst
    BY DEF ExecInv
  <1>s. ASSUME exec'.pc \notin {"listen", "spawn", "accept", "recv"},
               exec'.transport = "none" <=> exec.transport = "none",
               worker'.pc = worker.pc, outbox' = outbox,
               exec.transport = "none" => \A c \in Calls : rpc'[c] = rpc[c]
        PROVE  NothingBeforeAccept' /\ PayloadIsFirst'
    BY <1>t, <1>s DEF NothingBeforeAccept, PayloadIsFirst
  <1>1. CASE Listen
    BY <1>t, <1>1 DEF Listen, TypeOK, Execs, NothingBeforeAccept, PayloadIsFirst
  <1>2. CASE Spawn
    BY <1>t, <1>2 DEF Spawn, TypeOK, Execs, Workers, NothingBeforeAccept, PayloadIsFirst
  <1>3. CASE Accept
    <2>1. exec.transport = "none" /\ outbox = <<>>
      BY <1>t, <1>3 DEF Accept, NothingBeforeAccept
    <2>2. outbox' = <<Payload>> /\ worker' = worker
      BY <1>3, <2>1 DEF Accept
    <2>3. exec'.pc = "recv" /\ exec'.transport = "held"
      BY <1>t, <1>3 DEF Accept, TypeOK, Execs
    <2>4. outbox' # <<>> /\ Head(outbox') = Payload /\ Tail(outbox') \in Seq(Answers)
      BY <2>2
    <2>5. worker.pc \notin {"code", "closing"}
      BY <1>t, <2>1 DEF NothingBeforeAccept
    <2>6. QED  BY <2>2, <2>3, <2>4, <2>5 DEF NothingBeforeAccept, PayloadIsFirst
  <1>4. CASE ReceiveCall
    BY <1>t, <1>4 DEF ReceiveCall, TypeOK, Execs, NothingBeforeAccept, PayloadIsFirst
  <1>5. CASE ReceiveResult
    BY <1>t, <1>5, <1>s DEF ReceiveResult, TypeOK, Execs
  <1>6. CASE ServerClosed
    <2>1. exec.transport = "none" => \A c \in Calls : rpc'[c] = rpc[c]
      BY <1>t, <1>6 DEF ServerClosed, NothingBeforeAccept
    <2>2. outbox' = outbox
      BY <1>6 DEF ServerClosed
    <2>3. CASE CloseTransport
      BY <1>t, <1>s, <2>1, <2>2, <2>3, CloseTransportSteps
    <2>4. CASE ~CloseTransport
      BY <1>t, <1>6, <1>s, <2>1, <2>4 DEF ServerClosed, TypeOK, Execs
    <2>5. QED  BY <2>3, <2>4
  <1>7. CASE Gathered
    BY <1>t, <1>7, <1>s, CloseTransportSteps DEF Gathered
  <1>8. CASE GatherRaises
    BY <1>t, <1>8, <1>s DEF GatherRaises, TypeOK, Execs
  <1>9. CASE TransportClosed
    BY <1>t, <1>9, <1>s, StopProcessSteps DEF TransportClosed, TypeOK
  <1>10. CASE WorkerWaited
    BY <1>t, <1>10, <1>s DEF WorkerWaited, TypeOK, Execs
  <1>11. CASE StderrRead
    BY <1>t, <1>11, <1>s DEF StderrRead, TypeOK, Execs
  <1>12. CASE TimeOut
    BY <1>t, <1>12, <1>s, LeaveSteps DEF TimeOut
  <1>13. CASE SpawnFails
    BY <1>t, <1>13, <1>s, LeaveSteps DEF SpawnFails
  <1>14. CASE ConnectionLost
    BY <1>t, <1>14, <1>s, LeaveSteps DEF ConnectionLost
  <1>15. CASE WaitTimesOut
    BY <1>t, <1>15, <1>s, SignalledType DEF WaitTimesOut, TypeOK, Execs
  <1>16. CASE Cancel
    <2>1. CASE CancelBody
      BY <1>t, <1>s, <2>1, SignalledType DEF CancelBody, TypeOK, Execs
    <2>2. CASE CancelCleanup
      BY <1>t, <1>s, <2>2 DEF CancelCleanup, TypeOK, Execs
    <2>3. QED  BY <1>16, <2>1, <2>2 DEF Cancel
  <1>17. CASE Handshake
    BY <1>t, <1>17 DEF Handshake, TypeOK, Workers, NothingBeforeAccept, PayloadIsFirst
  <1>18. CASE HandshakeFails
    BY <1>t, <1>18 DEF HandshakeFails, NothingBeforeAccept, PayloadIsFirst
  <1>19. ASSUME NEW c \in Calls, AnswerCall(c) \/ ExpireCall(c)
         PROVE  NothingBeforeAccept' /\ PayloadIsFirst'
    <2>1. exec.transport # "none"
      BY <1>t, <1>19 DEF AnswerCall, ExpireCall, NothingBeforeAccept
    <2>2. exec' = exec /\ worker' = worker
      BY <1>19 DEF AnswerCall, ExpireCall
    <2>3. NothingBeforeAccept'
      BY <1>t, <2>1, <2>2 DEF NothingBeforeAccept
    <2>4. \E m \in Answers : Send(m)
      BY <1>19 DEF AnswerCall, ExpireCall, Answers
    <2>5. QED  BY <2>1, <2>2, <2>3, <2>4, SendKeepsOrder
  <1>20. ASSUME NEW c \in Calls, HandlerUnwinds(c)
         PROVE  NothingBeforeAccept' /\ PayloadIsFirst'
    <2>1. exec.transport # "none"
      BY <1>t, <1>20 DEF HandlerUnwinds, NothingBeforeAccept
    <2>2. QED  BY <1>t, <1>20, <2>1 DEF HandlerUnwinds, NothingBeforeAccept, PayloadIsFirst
  <1>21. CASE Connect
    BY <1>t, <1>21 DEF Connect, TypeOK, Workers, NothingBeforeAccept, PayloadIsFirst
  <1>22. CASE Boot
    BY <1>t, <1>22 DEF Boot, TypeOK, Workers, NothingBeforeAccept, PayloadIsFirst
  <1>23. CASE ReadAnswer
    <2>1. Tail(outbox) \in Seq(Answers)
      BY <1>t, <1>23, Mailbox DEF ReadAnswer, PayloadIsFirst
    <2>2. exec.transport # "none"
      BY <1>t, <1>23 DEF ReadAnswer, NothingBeforeAccept
    <2>3. QED  BY <1>t, <1>23, <2>1, <2>2 DEF ReadAnswer, NothingBeforeAccept, PayloadIsFirst
  <1>24. CASE ReaderEnds
    BY <1>t, <1>24 DEF ReaderEnds, TypeOK, Workers, NothingBeforeAccept, PayloadIsFirst
  <1>25. CASE CodeEnds
    BY <1>t, <1>25 DEF CodeEnds, TypeOK, Workers, NothingBeforeAccept, PayloadIsFirst
  <1>26. CASE Die
    BY <1>t, <1>26 DEF Die, Alive, TypeOK, Workers, NothingBeforeAccept, PayloadIsFirst
  <1>27. ASSUME NEW c \in Calls, Request(c) \/ RequestTimesOut(c)
         PROVE  NothingBeforeAccept' /\ PayloadIsFirst'
    BY <1>t, <1>27 DEF Request, RequestTimesOut, NothingBeforeAccept, PayloadIsFirst
  <1>28. CASE UNCHANGED vars
    BY <1>t, <1>28 DEF vars, NothingBeforeAccept, PayloadIsFirst
  <1>29. QED
    BY <1>1, <1>2, <1>3, <1>4, <1>5, <1>6, <1>7, <1>8, <1>9, <1>10, <1>11, <1>12, <1>13,
       <1>14, <1>15, <1>16, <1>17, <1>18, <1>19, <1>20, <1>21, <1>22, <1>23, <1>24, <1>25,
       <1>26, <1>27, <1>28 DEF Next, ParentStep

-----------------------------------------------------------------------------
(* The order of the cleanup. *)

\* A step of the worker or of the connection leaves execute() and the handlers alone.
LEMMA WorkerMoves ==
  ASSUME Cleanup, exec' = exec, rpc' = rpc, worker'.signal = worker.signal,
         worker'.pc \in {"absent", "dead"} \/ Alive
  PROVE  Cleanup'
  BY DEF Cleanup, HandlersGone, TransportGone, WorkerGone, InterruptedGather, Cleaned,
         HandlersDone, WorkerIsStopped, Alive

\* A handler that ends leaves the others as they are.
LEMMA HandlerMoves ==
  ASSUME Cleanup, TypeOK, exec' = exec, worker' = worker, NEW c \in Calls,
         NEW v \in {"answered", "expired", "dropped"}, rpc' = [rpc EXCEPT ![c] = v]
  PROVE  Cleanup'
  <1>1. \A d \in Calls : rpc'[d] \in {rpc[d], v}
    BY DEF TypeOK
  <1>2. QED
    BY <1>1 DEF Cleanup, HandlersGone, TransportGone, WorkerGone, InterruptedGather, Cleaned,
                HandlersDone, WorkerIsStopped, Alive

\* Where the body is left, no part of the cleanup is claimed to be done yet.
LEMMA CleanupStarts ==
  ASSUME exec'.pc \in Body \cup {"closing"}
  PROVE  Cleanup'
  BY DEF Cleanup, HandlersGone, TransportGone, WorkerGone, InterruptedGather, Cleaned, Body

\* Each part of the cleanup is done when the next one begins.
LEMMA CleanupStep == ExecInv /\ [Next]_vars => Cleanup'
  <1> SUFFICES ASSUME ExecInv, [Next]_vars PROVE Cleanup'
    OBVIOUS
  <1>t. TypeOK /\ Cleanup
    BY DEF ExecInv
  <1>c. ASSUME exec'.pc \in {"closeTransport", "wait", "stderr", "ended"},
               exec'.transport # "held", HandlersDone',
               exec'.pc \in {"stderr", "ended"} => ~Alive /\ worker' = worker
        PROVE  Cleanup'
    BY <1>c DEF Cleanup, HandlersGone, TransportGone, WorkerGone, InterruptedGather, Cleaned,
                WorkerIsStopped, Alive
  <1>1. CASE Listen \/ Spawn \/ Accept \/ ReceiveCall \/ ReceiveResult
    BY <1>t, <1>1, CleanupStarts
       DEF Listen, Spawn, Accept, ReceiveCall, ReceiveResult, TypeOK, Execs, Body
  <1>2. CASE TimeOut \/ SpawnFails \/ ConnectionLost
    BY <1>t, <1>2, LeaveSteps, CleanupStarts DEF TimeOut, SpawnFails, ConnectionLost
  <1>3. CASE ServerClosed
    <2>1. \A c \in Calls : rpc'[c] # "running"
      BY <1>3 DEF ServerClosed
    <2>2. CASE \E c \in Calls : rpc[c] # "none"
      BY <1>t, <1>3, <2>1, <2>2
         DEF ServerClosed, TypeOK, Execs, Cleanup, HandlersGone, TransportGone, WorkerGone,
             InterruptedGather, Cleaned
    <2>3. CASE ~\E c \in Calls : rpc[c] # "none"
      <3>1. CloseTransport /\ HandlersDone'
        BY <1>3, <2>3 DEF ServerClosed, HandlersDone
      <3>2. QED  BY <1>t, <1>c, <3>1, CloseTransportSteps
    <2>4. QED  BY <2>2, <2>3
  <1>4. CASE Gathered
    <2>1. CloseTransport /\ HandlersDone'
      BY <1>4 DEF Gathered, HandlersDone
    <2>2. QED  BY <1>t, <1>c, <2>1, CloseTransportSteps
  <1>5. CASE GatherRaises
    <2>1. exec'.pc = "ended" /\ exec'.abandoned
      BY <1>t, <1>5 DEF GatherRaises, TypeOK, Execs, Cleanup, InterruptedGather
    <2>2. QED  BY <2>1 DEF Cleanup, HandlersGone, TransportGone, WorkerGone,
                           InterruptedGather, Cleaned
  <1>6. CASE TransportClosed
    <2>1. HandlersDone' /\ exec.transport # "held" /\ StopProcess(exec)
      BY <1>t, <1>6 DEF TransportClosed, Cleanup, HandlersGone, TransportGone, HandlersDone
    <2>2. QED  BY <1>t, <1>c, <2>1, StopProcessSteps DEF TypeOK
  <1>7. CASE WorkerWaited
    <2>1. exec'.pc = "stderr" /\ exec'.transport = exec.transport /\ exec'.abandoned = exec.abandoned
      BY <1>t, <1>7 DEF WorkerWaited, TypeOK, Execs
    <2>2. HandlersDone' /\ exec.transport # "held" /\ ~Alive /\ worker' = worker
      BY <1>t, <1>7 DEF WorkerWaited, Cleanup, HandlersGone, TransportGone, HandlersDone, Alive
    <2>3. QED  BY <1>c, <2>1, <2>2
  <1>8. CASE WaitTimesOut
    <2>1. /\ exec'.pc \in {"rewait", "stderr"} /\ exec'.transport = exec.transport
          /\ exec.pc = "rewait" => worker' = worker
          /\ exec.pc = "wait" => worker' = Signalled("kill")
      BY <1>t, <1>8 DEF WaitTimesOut, TypeOK, Execs
    <2>2. HandlersDone' /\ exec.transport # "held"
      BY <1>t, <1>8 DEF WaitTimesOut, Cleanup, HandlersGone, TransportGone, HandlersDone
    <2>3. WorkerIsStopped'
      <3>1. CASE exec.pc = "wait"
        <4>1. CASE Alive
          BY <1>t, <2>1, <3>1, <4>1, SignalledType DEF WorkerIsStopped
        <4>2. CASE ~Alive
          BY <1>t, <2>1, <3>1, <4>2 DEF Signalled, WorkerIsStopped, Alive
        <4>3. QED  BY <4>1, <4>2
      <3>2. CASE exec.pc = "rewait"
        BY <1>t, <2>1, <3>2 DEF Cleanup, WorkerGone, WorkerIsStopped, Alive
      <3>3. QED  BY <1>8, <3>1, <3>2 DEF WaitTimesOut
    <2>4. QED  BY <2>1, <2>2, <2>3 DEF Cleanup, HandlersGone, TransportGone, WorkerGone,
                                       InterruptedGather, Cleaned
  <1>9. CASE StderrRead
    <2>1. exec'.pc = "ended" /\ exec'.transport = exec.transport
      BY <1>t, <1>9 DEF StderrRead, TypeOK, Execs
    <2>2. HandlersDone' /\ exec.transport # "held" /\ WorkerIsStopped'
      BY <1>t, <1>9 DEF StderrRead, Cleanup, HandlersGone, TransportGone, WorkerGone,
                        HandlersDone, WorkerIsStopped, Alive
    <2>3. QED  BY <2>1, <2>2 DEF Cleanup, HandlersGone, TransportGone, WorkerGone,
                                 InterruptedGather, Cleaned
  <1>10. CASE Cancel
    <2>1. CASE CancelBody
      BY <1>t, <2>1, CleanupStarts DEF CancelBody, TypeOK, Execs
    <2>2. CASE CancelCleanup
      <3>1. \/ exec'.pc = "ended" /\ exec'.abandoned
            \/ exec'.pc = "gatherCancelled" /\ exec'.abandoned /\ exec.pc = "gather"
            \/ exec'.pc = "ended" /\ exec.pc = "stderr" /\ exec'.transport = exec.transport
        BY <1>t, <2>2 DEF CancelCleanup, TypeOK, Execs
      <3>2. rpc' = rpc /\ worker' = worker
        BY <2>2 DEF CancelCleanup
      <3>3. QED
        BY <1>t, <3>1, <3>2 DEF Cleanup, HandlersGone, TransportGone, WorkerGone,
           InterruptedGather, Cleaned, HandlersDone, WorkerIsStopped, Alive
    <2>3. QED  BY <1>10, <2>1, <2>2 DEF Cancel
  <1>11. CASE Handshake \/ HandshakeFails \/ Connect \/ Boot \/ ReadAnswer \/ ReaderEnds
              \/ CodeEnds \/ Die
    BY <1>t, <1>11, WorkerMoves
       DEF Handshake, HandshakeFails, Connect, Boot, ReadAnswer, ReaderEnds, CodeEnds, Die,
           TypeOK, Workers, Alive
  <1>12. ASSUME NEW c \in Calls, AnswerCall(c) \/ ExpireCall(c) \/ HandlerUnwinds(c)
         PROVE  Cleanup'
    BY <1>t, <1>12, HandlerMoves DEF AnswerCall, ExpireCall, HandlerUnwinds
  <1>13. ASSUME NEW c \in Calls, Request(c) \/ RequestTimesOut(c)
         PROVE  Cleanup'
    BY <1>t, <1>13, WorkerMoves DEF Request, RequestTimesOut, Alive
  <1>14. CASE UNCHANGED vars
    BY <1>t, <1>14 DEF vars, Cleanup, HandlersGone, TransportGone, WorkerGone,
       InterruptedGather, Cleaned, HandlersDone, WorkerIsStopped, Alive
  <1>15. QED
    BY <1>1, <1>2, <1>3, <1>4, <1>5, <1>6, <1>7, <1>8, <1>9, <1>10, <1>11, <1>12, <1>13, <1>14
       DEF Next, ParentStep

\* The socket is closed with its transport: the worker connects before there is one.
LEMMA SocketStep == ExecInv /\ [Next]_vars => ClosedForGood'
  <1> SUFFICES ASSUME ExecInv, [Next]_vars PROVE ClosedForGood'
    OBVIOUS
  <1>t. TypeOK /\ ClosedForGood
    BY DEF ExecInv
  <1>s. ASSUME exec'.transport = exec.transport, socket' \in {socket, "closed"}
        PROVE  ClosedForGood'
    BY <1>t, <1>s DEF ClosedForGood
  <1>c. ASSUME CloseTransport PROVE ClosedForGood'
    <2>1. CASE exec.transport = "held"
      BY <1>c, <2>1 DEF CloseTransport, ClosedForGood
    <2>2. CASE exec.transport # "held"
      BY <1>t, <1>c, <1>s, <2>2, StopProcessSteps DEF CloseTransport, TypeOK
    <2>3. QED  BY <2>1, <2>2
  <1>1. CASE Listen \/ Spawn \/ ReceiveCall \/ ReceiveResult \/ GatherRaises
              \/ WorkerWaited \/ StderrRead \/ WaitTimesOut
    BY <1>t, <1>1, <1>s
       DEF Listen, Spawn, ReceiveCall, ReceiveResult, GatherRaises, WorkerWaited, StderrRead,
           WaitTimesOut, TypeOK, Execs
  <1>2. CASE Accept
    BY <1>t, <1>2 DEF Accept, ClosedForGood, TypeOK, Execs
  <1>3. CASE TimeOut \/ SpawnFails \/ ConnectionLost
    <2>1. exec'.transport = exec.transport /\ socket' = socket
      BY <1>t, <1>3, LeaveSteps DEF TimeOut, SpawnFails, ConnectionLost, Leave
    <2>2. QED  BY <1>s, <2>1
  <1>4. CASE ServerClosed
    <2>1. CASE CloseTransport
      BY <1>c, <2>1
    <2>2. CASE ~CloseTransport
      BY <1>t, <1>4, <1>s, <2>2 DEF ServerClosed, TypeOK, Execs
    <2>3. QED  BY <2>1, <2>2
  <1>5. CASE Gathered
    BY <1>c, <1>5 DEF Gathered
  <1>6. CASE TransportClosed
    BY <1>t, <1>6, <1>s, StopProcessSteps DEF TransportClosed, TypeOK
  <1>7. CASE Cancel
    <2>1. exec'.transport = exec.transport /\ socket' = socket
      BY <1>t, <1>7 DEF Cancel, CancelBody, CancelCleanup, TypeOK, Execs
    <2>2. QED  BY <1>s, <2>1
  <1>8. CASE Connect
    <2>1. exec.transport = "none" /\ exec' = exec
      BY <1>8 DEF Connect, ExecInv, NothingBeforeAccept
    <2>2. QED  BY <2>1 DEF ClosedForGood
  <1>9. CASE Handshake \/ HandshakeFails \/ Boot \/ ReadAnswer \/ ReaderEnds \/ CodeEnds \/ Die
    BY <1>9, <1>s DEF Handshake, HandshakeFails, Boot, ReadAnswer, ReaderEnds, CodeEnds, Die
  <1>10. ASSUME NEW c \in Calls,
                \/ AnswerCall(c) \/ ExpireCall(c) \/ HandlerUnwinds(c)
                \/ Request(c) \/ RequestTimesOut(c)
         PROVE  ClosedForGood'
    BY <1>10, <1>s DEF AnswerCall, ExpireCall, HandlerUnwinds, Request, RequestTimesOut
  <1>11. CASE UNCHANGED vars
    BY <1>11, <1>s DEF vars
  <1>12. QED
    BY <1>1, <1>2, <1>3, <1>4, <1>5, <1>6, <1>7, <1>8, <1>9, <1>10, <1>11 DEF Next, ParentStep

-----------------------------------------------------------------------------
(* The theorems. *)

\* The invariant is inductive: execute() and its worker never leave it.
THEOREM Inductive == Spec => []ExecInv
  <1>1. Init => ExecInv
    BY CodeActAssumption
       DEF Init, ExecInv, TypeOK, Execs, ExecPcs, Body, Workers, WorkerPcs, NothingBeforeAccept,
           PayloadIsFirst, Cleanup, HandlersGone, TransportGone, WorkerGone,
           InterruptedGather, Cleaned, ClosedForGood
  <1>2. ExecInv /\ [Next]_vars => ExecInv'
    BY TypeStep, OrderStep, CleanupStep, SocketStep DEF ExecInv
  <1>3. QED  BY <1>1, <1>2, PTL DEF Spec

\* Every message, future, handler and outcome is of its kind: in particular the code
\* never takes the payload for an answer.
THEOREM ExecTypeCorrect == Spec => []TypeOK
  <1>1. ExecInv => TypeOK
    BY DEF ExecInv
  <1>2. QED  BY <1>1, Inductive, PTL

\* However the execution ends, when its cleanup was not itself cancelled the worker is
\* gone or killed, no nested tool runs, and a socket that is open is either still in its
\* handshake or was accepted by an await that had been timed out or cancelled.
THEOREM NothingIsLeft == Spec => []LeavesNothing
  <1>1. ExecInv => LeavesNothing
    BY DEF ExecInv, LeavesNothing, LostInAccept, Cleanup, HandlersGone, TransportGone, WorkerGone,
           Cleaned, ClosedForGood, TypeOK, Execs
  <1>2. QED  BY <1>1, Inductive, PTL

\* The worker's code starts on the payload, whatever else the parent has sent by then,
\* and reads nothing but answers after it.
THEOREM PayloadComesFirst == Spec => []PayloadIsFirst
  <1>1. ExecInv => PayloadIsFirst
    BY DEF ExecInv
  <1>2. QED  BY <1>1, Inductive, PTL

=============================================================================
