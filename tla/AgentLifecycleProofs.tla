------------------------ MODULE AgentLifecycleProofs ------------------------
(***************************************************************************)
(* Theorems about AgentLifecycle, for any number of tasks, calls,          *)
(* extensions and components.                                              *)
(***************************************************************************)
EXTENDS AgentLifecycle, FiniteSetTheorems, SequenceTheorems, TLAPS

-----------------------------------------------------------------------------
(* Types                                                                   *)

\* The components there can be when `made` of Part have been made.
Upto(made) == Core \cup ({Part} \X (1 .. made))
Distinct(S) == {s \in Seq(S) : IsInjective(s)}
Scopes == Distinct(Exts)
Component == [class : 0 .. MaxLoads, up : Nat, left : BOOLEAN, open : BOOLEAN, wired : BOOLEAN,
              seen : SUBSET (Exts \X Nat)]
Lists(made) == Distinct(Upto(made))
Iteration(made) == [own : BOOLEAN, list : Lists(made), at : Nat]

\* _children holds the core components and the one of Part that is registered.
Present(l) == Core \cup IF l.registered = 0 THEN {} ELSE {<<Part, l.registered>>}

Lifecycle(made) ==
  [scope : Scopes, children : Lists(made), registered : 0 .. made, made : {made},
   started : BOOLEAN, changed : BOOLEAN, last : Seq(Exts), given : Seq(Exts),
   shared : BOOLEAN, iter : [Procs -> Iteration(made)], comp : [Upto(made) -> Component]]

\* A component is of a class that has been registered.
Classed(l) == \A c \in Upto(l.made) : c[1] = Part => l.comp[c].class # 0

LifecycleOK(l) ==
  /\ l.made \in Nat /\ l \in Lifecycle(l.made)
  /\ ToSet(l.children) = Present(l)
  /\ Classed(l)

Phases == {"none", "start", "refresh"}
TaskOf(made) ==
  [pc : Places, call : Operations \cup {"none", "ensure", "stop"}, phase : Phases,
   before : Scopes, synced : BOOLEAN, active : 0 .. MaxLoads, done : Seq(Upto(made)),
   hand : Upto(made) \cup {<<>>},
   outcome : {"none", "returned", "failed"}, calls : Nat, alone : BOOLEAN]

\* What `done` holds: the component sync_registered() stops, or those started.
Recorded(r) ==
  /\ r.pc = "unregister" => r.done = <<Head(r.done)>> /\ Head(r.done)[1] = Part
  /\ r.pc = "starting" => r.done # <<>>

ModulesOK == load \in [Exts -> 0 .. MaxLoads] /\ class \in 0 .. MaxLoads

TypeInv ==
  /\ ModulesOK /\ agent \in BOOLEAN
  /\ LifecycleOK(lc)
  /\ proc \in [Procs -> TaskOf(lc.made)]
  /\ \A p \in Procs : Recorded(proc[p])

-----------------------------------------------------------------------------
(* Starting and stopping                                                   *)

\* stop() is called by the one task that has entered the agent's context.
OneStopper == \A p, q \in Procs : "stop" \in Calls[p] /\ "stop" \in Calls[q] => p = q

Starting(p) == proc[p].pc \in {"starting", "rollback"}
Stopping(p) == proc[p].pc \in {"stopping", "draining"}
StartsAgent(p) == proc[p].phase = "start"

\* One task at a time holds the start lock, it starts an agent that is not
\* started, and stop() is called on one that is.
Exclusion ==
  /\ \A p, q \in Procs : HasStartLock(p) /\ HasStartLock(q) => p = q
  /\ \A p \in Procs :
       /\ proc[p].phase # "none" => HasStartLock(p)
       /\ At(p, "ready") => proc[p].call = "ensure"
       /\ Starting(p) \/ At(p, "hook") => StartsAgent(p)
       /\ StartsAgent(p) => ~agent
       /\ Starting(p) => ~lc.started
       /\ Stopping(p) => agent /\ "stop" \in Calls[p]

AllDown(l) == \A c \in ToSet(l.children) : l.comp[c].up = 0

\* What a start has not come to is down, and what is up it has started.
ToStart(l, p) == \A i \in DOMAIN List(l, p) : i > l.iter[p].at => l.comp[List(l, p)[i]].up = 0
UpIn(l, done) == \A c \in ToSet(l.children) : l.comp[c].up > 0 => c \in ToSet(done)

\* What is up stop() has still to come to.
ToStop(l, p) ==
  /\ l.iter[p].at <= Len(List(l, p))
  /\ ~l.iter[p].own /\ l.registered # 0 => l.iter[p].at < Len(l.children)
  /\ \A c \in ToSet(l.children) : l.comp[c].up > 0 =>
       \E i \in 1 .. l.iter[p].at : List(l, p)[i] = c

OnceEach(l) == \A c \in DOMAIN l.comp : l.comp[c].up <= 1

Startup ==
  /\ OnceEach(lc)
  /\ ~lc.started /\ (\A p \in Procs : ~Starting(p)) => AllDown(lc)
  /\ \A p \in Procs :
       /\ Starting(p) => UpIn(lc, proc[p].done)
       /\ At(p, "starting") => ToStart(lc, p)
       /\ At(p, "stopping") => ToStop(lc, p)

IInv == TypeInv /\ Exclusion /\ Startup

-----------------------------------------------------------------------------
(* The order of the components                                             *)

LEMMA Interval ==
  ASSUME NEW n \in Nat
  PROVE  IsFiniteSet(1 .. n) /\ Cardinality(1 .. n) = n
BY FS_Interval

LEMMA RankIsPlace ==
  ASSUME NEW made \in Nat, NEW c \in Upto(made)
  PROVE  Rank(c) \in DOMAIN Order /\ Order[Rank(c)] = c[1] /\ Rank(c) \in Nat
<1>1. c[1] \in ToSet(Order)
  BY LifecycleAssumption DEF Upto, Core
<1>2. \E n \in DOMAIN Order : Order[n] = c[1]
  BY <1>1 DEF ToSet
<1>3. DOMAIN Order \subseteq Nat
  BY LifecycleAssumption
<1> QED BY <1>2, <1>3 DEF Rank

\* The components of S that are not after c in the order.
Before(S, c) == {d \in S : Rank(d) <= Rank(c)}

\* Components with different keys can be put in order.
LEMMA SortedExists ==
  ASSUME NEW made \in Nat, NEW S, S \subseteq Upto(made), IsFiniteSet(S),
         \A a, b \in S : a[1] = b[1] => a = b
  PROVE  \E s \in [1 .. Cardinality(S) -> S] :
           \A m, n \in DOMAIN s : m < n => Rank(s[m]) < Rank(s[n])
<1> DEFINE N == Cardinality(S)
           Pos(c) == Cardinality(Before(S, c))
           pos == [c \in S |-> Pos(c)]
<1>1. N \in Nat
  BY FS_CardinalityType
<1>2. ASSUME NEW c \in S
      PROVE  /\ IsFiniteSet(Before(S, c)) /\ Pos(c) \in 1 .. N
             /\ Rank(c) \in Nat
  <2>1. Before(S, c) \in SUBSET S
    BY DEF Before
  <2>2. IsFiniteSet(Before(S, c)) /\ Pos(c) <= N
    BY <2>1, FS_Subset
  <2>3. Rank(c) \in Nat
    BY RankIsPlace
  <2>4. c \in Before(S, c)
    BY <2>3 DEF Before
  <2>5. Pos(c) \in Nat /\ Pos(c) # 0
    BY <2>2, <2>4, FS_CardinalityType, FS_EmptySet
  <2> QED BY <1>1, <2>2, <2>3, <2>5
<1>3. ASSUME NEW c \in S, NEW d \in S, Rank(c) < Rank(d)
      PROVE  Pos(c) < Pos(d)
  <2>1. Rank(c) \in Nat /\ Rank(d) \in Nat
    BY <1>2
  <2>2. Before(S, c) \in SUBSET Before(S, d)
    <3> SUFFICES ASSUME NEW x \in S, Rank(x) <= Rank(c) PROVE Rank(x) <= Rank(d)
      BY DEF Before
    <3>1. Rank(x) \in Nat
      BY <1>2
    <3> QED BY <2>1, <3>1, <1>3
  <2>3. d \in Before(S, d) /\ d \notin Before(S, c)
    BY <2>1, <1>3 DEF Before
  <2>4. Pos(c) <= Pos(d) /\ (Pos(c) = Pos(d) => Before(S, d) = Before(S, c))
    <3>1. IsFiniteSet(Before(S, d))
      BY <1>2
    <3> QED BY <2>2, <3>1, FS_Subset
  <2>5. Pos(c) \in Nat /\ Pos(d) \in Nat
    BY <1>2, <1>1
  <2> QED BY <2>3, <2>4, <2>5
<1>4. ASSUME NEW c \in S, NEW d \in S, Rank(c) = Rank(d) PROVE c = d
  <2>1. c[1] = d[1]
    BY <1>4, RankIsPlace
  <2> QED BY <2>1
<1>5. pos \in Injection(S, 1 .. N)
  <2> SUFFICES ASSUME NEW c \in S, NEW d \in S, pos[c] = pos[d] PROVE c = d
    BY <1>2 DEF Injection, IsInjective
  <2>1. Pos(c) = Pos(d) /\ Pos(c) \in Nat /\ Pos(d) \in Nat
    BY <1>1, <1>2
  <2>2. ~ (Rank(c) < Rank(d)) /\ ~ (Rank(d) < Rank(c))
    <3> HIDE DEF Pos, pos
    <3> QED BY <2>1, <1>3
  <2>3. Rank(c) \in Nat /\ Rank(d) \in Nat
    BY <1>2
  <2> HIDE DEF Pos, pos
  <2> QED BY <1>4, <2>2, <2>3
<1>6. pos \in Surjection(S, 1 .. N)
  <2>1. IsFiniteSet(1 .. N) /\ Cardinality(1 .. N) = N
    BY <1>1, Interval
  <2> HIDE DEF pos
  <2> QED BY <1>5, <2>1, FS_Injection DEF N
<1> DEFINE s == [n \in 1 .. N |-> CHOOSE c \in S : pos[c] = n]
<1>7. ASSUME NEW n \in 1 .. N PROVE s[n] \in S /\ Pos(s[n]) = n
  <2>1. \E c \in S : pos[c] = n
    BY <1>6 DEF Surjection
  <2> QED BY <2>1
<1>8. ASSUME NEW m \in DOMAIN s, NEW n \in DOMAIN s, m < n PROVE Rank(s[m]) < Rank(s[n])
  <2>1. m \in 1 .. N /\ n \in 1 .. N
    OBVIOUS
  <2>2. s[m] \in S /\ s[n] \in S /\ Pos(s[m]) = m /\ Pos(s[n]) = n
    BY <2>1, <1>7
  <2> HIDE DEF s, Pos
  <2>3. Rank(s[m]) \in Nat /\ Rank(s[n]) \in Nat
    BY <2>2, <1>2
  <2>4. ~ (Rank(s[n]) < Rank(s[m]))
    BY <2>1, <2>2, <1>1, <1>3, <1>8
  <2>5. Rank(s[n]) # Rank(s[m])
    BY <2>1, <2>2, <1>1, <1>4, <1>8
  <2> QED BY <2>3, <2>4, <2>5
<1>9. s \in [1 .. Cardinality(S) -> S]
  BY <1>7
<1> HIDE DEF s
<1> QED BY <1>8, <1>9

\* Sorting keeps the components of a list and leaves a short one as it is.
LEMMA SortedFacts ==
  ASSUME NEW made \in Nat, NEW list \in Lists(made),
         \A a, b \in ToSet(list) : a[1] = b[1] => a = b
  PROVE  /\ Sorted(list) \in Lists(made)
         /\ ToSet(Sorted(list)) = ToSet(list)
         /\ Len(Sorted(list)) = Len(list)
         /\ Len(list) < 2 => Sorted(list) = list
<1> DEFINE S == ToSet(list)
           N == Cardinality(S)
<1>1. list \in Seq(Upto(made)) /\ IsInjective(list)
  BY DEF Lists, Distinct
<1>2. IsFiniteSet(S) /\ N = Len(list) /\ S \subseteq Upto(made)
  <2>1. list \in Injection(1 .. Len(list), S) /\ list \in Surjection(1 .. Len(list), S)
    BY <1>1 DEF Injection, Surjection, IsInjective, ToSet
  <2>2. IsFiniteSet(1 .. Len(list)) /\ Cardinality(1 .. Len(list)) = Len(list)
    <3>1. Len(list) \in Nat
      BY <1>1
    <3> QED BY <3>1, Interval
  <2>3. IsFiniteSet(S) /\ N = Len(list)
    BY <2>1, <2>2, FS_Surjection
  <2> QED BY <1>1, <2>3 DEF ToSet
<1>3. N \in Nat
  BY <1>1, <1>2
<1>4. /\ Sorted(list) \in [1 .. N -> S]
      /\ \A m, n \in DOMAIN Sorted(list) : m < n => Rank(Sorted(list)[m]) < Rank(Sorted(list)[n])
  <2>1. PICK s \in [1 .. N -> S] : \A m, n \in DOMAIN s : m < n => Rank(s[m]) < Rank(s[n])
    BY <1>2, SortedExists
  <2> DEFINE t == Sorted(list)
  <2>2. t \in [1 .. N -> S] /\ \A m, n \in DOMAIN t : m < n => Precedes(t[m], t[n])
    <3>1. \A m, n \in DOMAIN s : m < n => Precedes(s[m], s[n])
      BY <2>1 DEF Precedes
    <3> HIDE DEF N, S
    <3> QED BY <3>1 DEF Sorted, N, S
  <2>3. ASSUME NEW c \in S, NEW d \in S, Precedes(c, d) PROVE Rank(c) < Rank(d)
    <3>1. c \in Upto(made) /\ d \in Upto(made)
      BY <1>2
    <3>2. c[2] \in Nat /\ d[2] \in Nat
      BY <3>1 DEF Upto, Core
    <3>3. Order[Rank(c)] = c[1] /\ Order[Rank(d)] = d[1]
      BY <3>1, RankIsPlace
    <3>4. Rank(c) = Rank(d) => c = d
      BY <3>3
    <3> QED BY <2>3, <3>2, <3>4 DEF Precedes
  <2> HIDE DEF t, N, S
  <2> QED BY <2>2, <2>3 DEF t
<1> DEFINE t == Sorted(list)
<1> HIDE DEF t
<1>5. t \in [1 .. N -> S] /\ \A m, n \in 1 .. N : m < n => Rank(t[m]) < Rank(t[n])
  BY <1>4 DEF t
<1>6. \A m, n \in 1 .. N : t[m] = t[n] => m = n
  <2> SUFFICES ASSUME NEW m \in 1 .. N, NEW n \in 1 .. N, t[m] = t[n], m < n \/ n < m PROVE FALSE
    BY <1>3
  <2>1. Rank(t[m]) \in Nat /\ Rank(t[n]) \in Nat
    BY <1>2, <1>5, RankIsPlace
  <2> QED BY <1>5, <2>1
<1>7. t \in Injection(1 .. N, S)
  BY <1>5, <1>6 DEF Injection, IsInjective
<1>8. t \in Surjection(1 .. N, S)
  <2>1. IsFiniteSet(1 .. N) /\ Cardinality(1 .. N) = N
    BY <1>3, Interval
  <2> HIDE DEF N, S
  <2> QED BY <1>2, <1>7, <2>1, FS_Injection DEF N
<1>9. t \in Seq(Upto(made)) /\ Len(t) = N
  BY <1>2, <1>3, <1>5
<1>10. ToSet(t) = S
  <2>1. \A x \in S : \E n \in 1 .. N : t[n] = x
    BY <1>8 DEF Surjection
  <2> HIDE DEF N, S
  <2> QED BY <1>5, <2>1 DEF ToSet
<1>11. t \in Lists(made)
  BY <1>5, <1>6, <1>9 DEF Lists, Distinct, IsInjective
<1>12. Len(list) < 2 => t = list
  <2>1. CASE Len(list) = 0
    BY <1>1, <1>2, <1>5, <2>1
  <2>2. CASE Len(list) = 1
    <3>1. S = {list[1]} /\ list \in [1 .. 1 -> S]
      BY <1>1, <2>2 DEF ToSet
    <3>2. t \in [1 .. 1 -> S]
      BY <1>5, <1>2, <2>2
    <3> QED BY <3>1, <3>2
  <2>3. Len(list) \in Nat
    BY <1>1
  <2> QED BY <2>1, <2>2, <2>3
<1> QED BY <1>2, <1>9, <1>10, <1>11, <1>12 DEF t

-----------------------------------------------------------------------------
(* Lists of components                                                     *)

LEMMA DistinctFacts ==
  ASSUME NEW S, NEW list \in Distinct(S)
  PROVE  /\ Len(list) \in Nat /\ DOMAIN list = 1 .. Len(list)
         /\ \A i \in 1 .. Len(list) : list[i] \in S /\ list[i] \in ToSet(list)
         /\ \A c \in ToSet(list) : \E i \in 1 .. Len(list) : list[i] = c
         /\ \A i, j \in 1 .. Len(list) : list[i] = list[j] => i = j
         /\ \A c : Contains(list, c) <=> c \in ToSet(list)
         /\ ToSet(list) \subseteq S
BY DEF Distinct, IsInjective, ToSet, Contains

LEMMA UptoGrows ==
  ASSUME NEW m \in Nat, NEW n \in Nat, m <= n
  PROVE  Upto(m) \subseteq Upto(n) /\ Lists(m) \subseteq Lists(n)
<1>1. Upto(m) \subseteq Upto(n)
  BY DEF Upto
<1>2. Seq(Upto(m)) \subseteq Seq(Upto(n))
  BY <1>1, SeqMonotonic
<1> QED BY <1>1, <1>2 DEF Lists, Distinct

\* A component that is not in the list is added at its end.
LEMMA DistinctAppend ==
  ASSUME NEW S, NEW list \in Distinct(S), NEW c \in S, c \notin ToSet(list)
  PROVE  /\ Append(list, c) \in Distinct(S)
         /\ ToSet(Append(list, c)) = ToSet(list) \cup {c}
         /\ Len(Append(list, c)) = Len(list) + 1
         /\ \A i \in 1 .. Len(list) + 1 :
              Append(list, c)[i] = IF i = Len(list) + 1 THEN c ELSE list[i]
<1> DEFINE s == Append(list, c)
<1>1. list \in Seq(S) /\ Len(list) \in Nat
  BY DEF Distinct
<1>2. /\ s \in Seq(S) /\ Len(s) = Len(list) + 1
      /\ \A i \in 1 .. Len(list) + 1 : s[i] = IF i = Len(list) + 1 THEN c ELSE list[i]
  BY <1>1, AppendProperties
<1> HIDE DEF s
<1>3. \A i \in 1 .. Len(list) : list[i] # c
  BY DistinctFacts
<1>4. IsInjective(s)
  <2> SUFFICES ASSUME NEW i \in 1 .. Len(list) + 1, NEW j \in 1 .. Len(list) + 1, s[i] = s[j]
               PROVE  i = j
    BY <1>2 DEF IsInjective
  <2>1. \A k \in 1 .. Len(list) + 1 : k \in 1 .. Len(list) \/ k = Len(list) + 1
    BY <1>1
  <2> QED BY <1>2, <1>3, <2>1, DistinctFacts
<1>5. ToSet(s) = ToSet(list) \cup {c}
  <2>1. ToSet(s) = {s[i] : i \in 1 .. Len(list) + 1}
    BY <1>2 DEF ToSet
  <2>2. ASSUME NEW x \in ToSet(list) PROVE x \in ToSet(s)
    <3>1. PICK i \in 1 .. Len(list) : list[i] = x
      BY DistinctFacts
    <3>2. i \in 1 .. Len(list) + 1 /\ i # Len(list) + 1
      BY <1>1
    <3> QED BY <2>1, <3>1, <3>2, <1>2
  <2>3. c \in ToSet(s)
    <3>1. Len(list) + 1 \in 1 .. Len(list) + 1
      BY <1>1
    <3> QED BY <2>1, <3>1, <1>2
  <2>4. ASSUME NEW x \in ToSet(s) PROVE x \in ToSet(list) \cup {c}
    <3>1. PICK i \in 1 .. Len(list) + 1 : s[i] = x
      BY <2>1
    <3>2. CASE i = Len(list) + 1
      BY <1>2, <3>1, <3>2
    <3>3. CASE i # Len(list) + 1
      <4>1. i \in 1 .. Len(list)
        BY <1>1, <3>3
      <4> QED BY <1>2, <3>1, <4>1, DistinctFacts
    <3> QED BY <3>2, <3>3
  <2> QED BY <2>2, <2>3, <2>4
<1> QED BY <1>2, <1>4, <1>5 DEF Distinct, s

\* A component of the list leaves a gap that the later ones close.
ClosesGap(list, c, s) ==
  \E k \in 1 .. Len(list) : list[k] = c /\ \A i \in 1 .. Len(list) - 1 :
    s[i] = IF i < k THEN list[i] ELSE list[i + 1]

LEMMA DistinctRemove ==
  ASSUME NEW S, NEW list \in Distinct(S), NEW c \in ToSet(list)
  PROVE  /\ RemoveFirst(list, c) \in Distinct(S)
         /\ ToSet(RemoveFirst(list, c)) = ToSet(list) \ {c}
         /\ Len(RemoveFirst(list, c)) = Len(list) - 1
         /\ ClosesGap(list, c, RemoveFirst(list, c))
<1> DEFINE s == RemoveFirst(list, c)
           n == Len(list)
<1>1. list \in Seq(S) /\ n \in Nat
  BY DEF Distinct
<1>2. PICK k \in 1 .. n : list[k] = c
  BY DistinctFacts
<1>3. {i \in 1 .. n : list[i] = c} = {k}
  BY <1>2, DistinctFacts
<1>4. SelectInSeq(list, LAMBDA v : v = c) = k
  <2>1. \A x \in {k} : (\A y \in {k} : x <= y) => x = k
    OBVIOUS
  <2>2. (CHOOSE x \in {k} : \A y \in {k} : x <= y) = k
    BY <1>1
  <2> QED BY <1>3, <2>2 DEF SelectInSeq, Min
<1>5. s = SubSeq(list, 1, k - 1) \o SubSeq(list, k + 1, n)
  BY <1>2, <1>4 DEF RemoveFirst, RemoveAt
<1> HIDE DEF s
<1>6. /\ SubSeq(list, 1, k - 1) \in Seq(S) /\ Len(SubSeq(list, 1, k - 1)) = k - 1
      /\ \A i \in 1 .. k - 1 : SubSeq(list, 1, k - 1)[i] = list[i]
  BY <1>1, <1>2
<1>7. /\ SubSeq(list, k + 1, n) \in Seq(S) /\ Len(SubSeq(list, k + 1, n)) = n - k
      /\ \A i \in 1 .. n - k : SubSeq(list, k + 1, n)[i] = list[k + i]
  BY <1>1, <1>2
<1> DEFINE a == SubSeq(list, 1, k - 1)
           b == SubSeq(list, k + 1, n)
<1> HIDE DEF a, b
<1>8. /\ s \in Seq(S) /\ Len(s) = n - 1
      /\ \A i \in 1 .. n - 1 : s[i] = IF i < k THEN list[i] ELSE list[i + 1]
  <2>1. /\ a \in Seq(S) /\ Len(a) = k - 1 /\ b \in Seq(S) /\ Len(b) = n - k
        /\ \A i \in 1 .. k - 1 : a[i] = list[i]
        /\ \A i \in 1 .. n - k : b[i] = list[k + i]
    BY <1>6, <1>7 DEF a, b
  <2>2. s = a \o b
    BY <1>5 DEF a, b
  <2>3. /\ s \in Seq(S) /\ Len(s) = Len(a) + Len(b)
        /\ \A i \in 1 .. Len(a) + Len(b) : s[i] = IF i <= Len(a) THEN a[i] ELSE b[i - Len(a)]
    BY <2>1, <2>2, ConcatProperties
  <2>4. Len(a) + Len(b) = n - 1
    BY <2>1, <1>1, <1>2
  <2>5. ASSUME NEW i \in 1 .. n - 1 PROVE s[i] = IF i < k THEN list[i] ELSE list[i + 1]
    <3>1. s[i] = IF i <= k - 1 THEN a[i] ELSE b[i - (k - 1)]
      BY <2>1, <2>3, <2>4
    <3>2. CASE i < k
      <4>1. i \in 1 .. k - 1 /\ i <= k - 1
        BY <1>1, <1>2, <3>2
      <4> QED BY <3>1, <2>1, <4>1, <3>2
    <3>3. CASE ~ (i < k)
      <4>1. ~ (i <= k - 1) /\ i - (k - 1) \in 1 .. n - k /\ k + (i - (k - 1)) = i + 1
        BY <1>1, <1>2, <3>3
      <4> QED BY <3>1, <2>1, <4>1, <3>3
    <3> QED BY <3>2, <3>3
  <2> QED BY <2>3, <2>4, <2>5
<1>9. ASSUME NEW i \in 1 .. n - 1 PROVE s[i] \in ToSet(list) /\ s[i] # c
  <2>1. CASE i < k
    <3>1. i \in 1 .. n /\ i # k
      BY <1>1, <1>2, <2>1
    <3> QED BY <1>2, <1>8, <2>1, <3>1, DistinctFacts
  <2>2. CASE ~ (i < k)
    <3>1. i + 1 \in 1 .. n /\ i + 1 # k
      BY <1>1, <1>2, <2>2
    <3> QED BY <1>2, <1>8, <2>2, <3>1, DistinctFacts
  <2> QED BY <2>1, <2>2
<1>10. ASSUME NEW i \in 1 .. n - 1, NEW j \in 1 .. n - 1, s[i] = s[j] PROVE i = j
  <2> DEFINE Was(x) == IF x < k THEN x ELSE x + 1
  <2>1. /\ Was(i) \in 1 .. n /\ Was(j) \in 1 .. n
        /\ list[Was(i)] = s[i] /\ list[Was(j)] = s[j]
    BY <1>1, <1>2, <1>8
  <2>2. Was(i) = Was(j)
    <3> HIDE DEF Was
    <3> QED BY <2>1, <1>10, DistinctFacts
  <2> QED BY <1>2, <2>2
<1>11. ASSUME NEW x \in ToSet(list) \ {c} PROVE x \in ToSet(s)
  <2>1. PICK i \in 1 .. n : list[i] = x
    BY DistinctFacts
  <2>2. i # k
    BY <1>2, <2>1
  <2> DEFINE j == IF i < k THEN i ELSE i - 1
  <2>3. j \in 1 .. n - 1 /\ s[j] = x
    <3>1. CASE i < k
      BY <1>1, <1>2, <1>8, <2>1, <3>1
    <3>2. CASE ~ (i < k)
      <4>1. j \in 1 .. n - 1 /\ ~ (j < k) /\ j + 1 = i
        BY <1>1, <1>2, <2>2, <3>2
      <4> HIDE DEF j
      <4> QED BY <1>8, <2>1, <4>1
    <3> QED BY <3>1, <3>2
  <2> HIDE DEF j
  <2> QED BY <1>8, <2>3 DEF ToSet
<1>12. ToSet(s) = ToSet(list) \ {c}
  <2>1. \A x \in ToSet(s) : x \in ToSet(list) \ {c}
    BY <1>8, <1>9 DEF ToSet
  <2> QED BY <2>1, <1>11
<1>13. s \in Distinct(S)
  BY <1>8, <1>10 DEF Distinct, IsInjective
<1> QED BY <1>2, <1>8, <1>12, <1>13 DEF s, ClosesGap

LEMMA ListFacts ==
  ASSUME NEW made \in Nat, NEW list \in Lists(made)
  PROVE  /\ Len(list) \in Nat /\ DOMAIN list = 1 .. Len(list)
         /\ \A i \in 1 .. Len(list) : list[i] \in Upto(made) /\ list[i] \in ToSet(list)
         /\ \A c \in ToSet(list) : \E i \in 1 .. Len(list) : list[i] = c
         /\ \A i, j \in 1 .. Len(list) : list[i] = list[j] => i = j
         /\ \A c : Contains(list, c) <=> c \in ToSet(list)
         /\ ToSet(list) \subseteq Upto(made)
BY DistinctFacts DEF Lists

-----------------------------------------------------------------------------
(* What a stretch does to the lifecycle                                    *)

\* m is what l has become by something p did: types are kept, nothing was
\* started, and the loops of other tasks are where they were.
Keeps(l, m, p) ==
  /\ LifecycleOK(m) /\ l.made <= m.made /\ m.started = l.started
  /\ OnceEach(l) => OnceEach(m)
  /\ \A c \in ToSet(m.children) : m.comp[c].up > 0 => c \in ToSet(l.children) /\ l.comp[c].up > 0
  /\ \A q \in Procs \ {p} :
       (ToStart(l, q) => ToStart(m, q)) /\ (ToStop(l, q) => ToStop(m, q))

LEMMA KeepsTransitive ==
  ASSUME NEW k, NEW l, NEW m, NEW p, LifecycleOK(k), Keeps(k, l, p), Keeps(l, m, p)
  PROVE  Keeps(k, m, p)
<1>1. k.made \in Nat /\ l.made \in Nat /\ m.made \in Nat
  BY DEF Keeps, LifecycleOK
<1>2. k.made <= m.made
  BY <1>1 DEF Keeps
<1> QED BY <1>2 DEF Keeps

LEMMA PresentFacts ==
  ASSUME NEW l, l.made \in Nat, l.registered \in 0 .. l.made
  PROVE  /\ \A a, b \in Present(l) : a[1] = b[1] => a = b
         /\ Present(l) \subseteq Upto(l.made)
         /\ \A c \in Present(l) : c[1] = Part <=> l.registered # 0 /\ c = <<Part, l.registered>>
<1>1. \A c \in Core : c[1] # Part /\ c[2] = 0 /\ c = <<c[1], c[2]>>
  BY DEF Core
<1>2. l.registered # 0 => <<Part, l.registered>> \in {Part} \X (1 .. l.made)
  OBVIOUS
<1> QED BY <1>1, <1>2 DEF Present, Upto

LEMMA ComponentFacts ==
  ASSUME NEW l, LifecycleOK(l)
  PROVE  /\ DOMAIN l.comp = Upto(l.made)
         /\ \A c \in Upto(l.made) : l.comp[c] \in Component /\ l.comp[c].up \in Nat
         /\ ToSet(l.children) \subseteq Upto(l.made)
<1>1. l.comp \in [Upto(l.made) -> Component] /\ l.children \in Lists(l.made) /\ l.made \in Nat
  BY DEF LifecycleOK, Lifecycle
<1> QED BY <1>1, ListFacts DEF Component

\* The list a task iterates over.
LEMMA LoopFacts ==
  ASSUME NEW l, LifecycleOK(l), NEW q \in Procs
  PROVE  /\ l.iter[q] \in Iteration(l.made) /\ l.iter[q].at \in Nat
         /\ List(l, q) \in Lists(l.made)
BY DEF LifecycleOK, Lifecycle, Iteration, List

\* A change that leaves the components and the loops of others where they are.
LEMMA SamePlaces ==
  ASSUME NEW l, NEW m, NEW p, LifecycleOK(l), LifecycleOK(m),
         m.made = l.made, m.registered = l.registered, m.children = l.children,
         m.started = l.started, \A q \in Procs \ {p} : m.iter[q] = l.iter[q],
         \A c \in Upto(l.made) : m.comp[c].up = l.comp[c].up \/ m.comp[c].up = 0
  PROVE  Keeps(l, m, p)
<1>1. ASSUME OnceEach(l) PROVE OnceEach(m)
  BY <1>1, ComponentFacts DEF OnceEach
<1>2. ASSUME NEW c \in ToSet(m.children), m.comp[c].up > 0
      PROVE  c \in ToSet(l.children) /\ l.comp[c].up > 0
  BY <1>2, ComponentFacts
<1>3. ASSUME NEW q \in Procs \ {p}
      PROVE  /\ List(m, q) = List(l, q) /\ m.iter[q] = l.iter[q]
             /\ ToStart(l, q) => ToStart(m, q)
             /\ ToStop(l, q) => ToStop(m, q)
  <2>1. List(m, q) = List(l, q) /\ m.iter[q] = l.iter[q]
    BY DEF List
  <2>2. ASSUME ToStart(l, q) PROVE ToStart(m, q)
    <3>1. \A i \in DOMAIN List(l, q) : List(l, q)[i] \in Upto(l.made)
      BY LoopFacts, ListFacts DEF LifecycleOK
    <3> QED BY <2>1, <2>2, <3>1 DEF ToStart
  <2>3. ASSUME ToStop(l, q) PROVE ToStop(m, q)
    BY <2>1, <2>3, <1>2 DEF ToStop
  <2> QED BY <2>1, <2>2, <2>3
<1>4. l.made <= m.made
  BY DEF LifecycleOK
<1> QED BY <1>1, <1>2, <1>3, <1>4 DEF Keeps

LEMMA KeepsItself ==
  ASSUME NEW l, NEW p, LifecycleOK(l)
  PROVE  Keeps(l, l, p)
BY SamePlaces

\* The scope, and what has been handed on, are the same in l and m.
Marks(l, m) == m.scope = l.scope /\ m.last = l.last /\ m.given = l.given

\* Rebound(): a loop over the live list goes on over the list as it was changed.
LEMMA ReboundFacts ==
  ASSUME NEW l, l.made \in Nat, l \in Lifecycle(l.made),
         Classed(l), NEW list \in Lists(l.made), ToSet(list) = Present(l),
         NEW m, m = Rebound(l, list)
  PROVE  /\ LifecycleOK(m) /\ m.made = l.made /\ m.registered = l.registered
         /\ m.started = l.started /\ m.comp = l.comp /\ Marks(l, m)
         /\ ToSet(m.children) = ToSet(list) /\ Len(m.children) = Len(list)
         /\ \A q \in Procs :
              /\ m.iter[q].at = l.iter[q].at
              /\ l.iter[q].own => m.iter[q].own
              /\ List(m, q) = IF l.iter[q].own THEN l.iter[q].list ELSE list
<1>1. l.registered \in 0 .. l.made /\ l.iter \in [Procs -> Iteration(l.made)]
  BY DEF Lifecycle
<1>2. /\ Sorted(list) \in Lists(l.made) /\ ToSet(Sorted(list)) = ToSet(list)
      /\ Len(Sorted(list)) = Len(list) /\ (Len(list) < 2 => Sorted(list) = list)
  <2>1. \A a, b \in ToSet(list) : a[1] = b[1] => a = b
    BY <1>1, PresentFacts
  <2> QED BY <2>1, SortedFacts
<1> DEFINE iter == [q \in Procs |-> IF l.iter[q].own \/ Len(list) < 2 THEN l.iter[q]
                                    ELSE [own |-> TRUE, list |-> list, at |-> l.iter[q].at]]
<1>3. iter \in [Procs -> Iteration(l.made)]
  BY <1>1 DEF Iteration
<1>4. m = [l EXCEPT !.children = Sorted(list), !.iter = iter]
  BY DEF Rebound
<1> HIDE DEF iter
<1>5. /\ m \in Lifecycle(l.made) /\ m.made = l.made /\ m.registered = l.registered
      /\ m.started = l.started /\ m.comp = l.comp /\ Marks(l, m)
      /\ m.children = Sorted(list) /\ m.iter = iter
  BY <1>2, <1>3, <1>4 DEF Lifecycle, Marks
<1>6. LifecycleOK(m)
  BY <1>2, <1>5 DEF LifecycleOK, Present, Classed
<1>7. ASSUME NEW q \in Procs
      PROVE  /\ m.iter[q].at = l.iter[q].at
             /\ l.iter[q].own => m.iter[q].own
             /\ List(m, q) = IF l.iter[q].own THEN l.iter[q].list ELSE list
  <2>1. l.iter[q] \in Iteration(l.made)
    BY <1>1
  <2>2. CASE l.iter[q].own \/ Len(list) < 2
    BY <1>2, <1>5, <2>2 DEF iter, List
  <2>3. CASE ~ (l.iter[q].own \/ Len(list) < 2)
    BY <1>2, <1>5, <2>3 DEF iter, List
  <2> QED BY <2>2, <2>3
<1> QED BY <1>2, <1>5, <1>6, <1>7

\* _sort_children() by itself.
LEMMA SortKeeps ==
  ASSUME NEW l, LifecycleOK(l), NEW p
  PROVE  /\ Keeps(l, Rebound(l, l.children), p)
         /\ Rebound(l, l.children).made = l.made
         /\ ToSet(Rebound(l, l.children).children) = ToSet(l.children)
         /\ Rebound(l, l.children).comp = l.comp
         /\ Rebound(l, l.children).registered = l.registered
         /\ Marks(l, Rebound(l, l.children))
<1> DEFINE m == Rebound(l, l.children)
<1> HIDE DEF m
<1>1. l.made \in Nat /\ l \in Lifecycle(l.made) /\ l.children \in Lists(l.made)
      /\ ToSet(l.children) = Present(l) /\ Classed(l)
  BY DEF LifecycleOK, Lifecycle
<1>2. /\ LifecycleOK(m) /\ m.made = l.made /\ m.registered = l.registered
      /\ m.started = l.started /\ m.comp = l.comp /\ Marks(l, m)
      /\ ToSet(m.children) = ToSet(l.children) /\ Len(m.children) = Len(l.children)
      /\ \A q \in Procs :
           /\ m.iter[q].at = l.iter[q].at
           /\ l.iter[q].own => m.iter[q].own
           /\ List(m, q) = IF l.iter[q].own THEN l.iter[q].list ELSE l.children
  BY <1>1, ReboundFacts DEF m
<1>3. \A q \in Procs : List(m, q) = List(l, q)
  BY <1>2 DEF List
<1>4. ASSUME NEW q \in Procs
      PROVE  (ToStart(l, q) => ToStart(m, q)) /\ (ToStop(l, q) => ToStop(m, q))
  BY <1>2, <1>3 DEF ToStart, ToStop
<1>5. l.made <= m.made /\ (OnceEach(l) => OnceEach(m))
  BY <1>1, <1>2 DEF OnceEach
<1> QED BY <1>2, <1>4, <1>5 DEF Keeps, m

\* The component that is made is down, and comes to the end of the list.
LEMMA RegisteredKeeps ==
  ASSUME NEW l, LifecycleOK(l), NEW p, NEW import \in 0 .. MaxLoads, import # 0,
         l.registered = 0
  PROVE  /\ Keeps(l, Registered(l, import), p) /\ Marks(l, Registered(l, import))
         /\ Registered(l, import).registered # 0
<1> DEFINE n == l.made + 1
           c == <<Part, n>>
           k == [l EXCEPT !.made = @ + 1, !.registered = n,
                          !.comp = [d \in DOMAIN @ \cup {c} |->
                            IF d = c THEN NewComponent(import) ELSE @[d]]]
           list == Append(l.children, c)
           m == Rebound(k, list)
<1>1. m = Registered(l, import)
  BY DEF Registered
<1>2. /\ l.made \in Nat /\ l \in Lifecycle(l.made) /\ l.children \in Lists(l.made)
      /\ ToSet(l.children) = Present(l) /\ n \in Nat /\ l.made <= n /\ n # 0 /\ Classed(l)
  BY DEF LifecycleOK, Lifecycle
<1>3. Upto(n) = Upto(l.made) \cup {c} /\ c \notin Upto(l.made) /\ c \in Upto(n)
  <2>1. \A d \in Core : d[1] # Part
    BY DEF Core
  <2>2. 1 .. n = (1 .. l.made) \cup {n} /\ n \notin 1 .. l.made
    BY <1>2
  <2> QED BY <2>1, <2>2 DEF Upto
<1>4. Upto(l.made) \subseteq Upto(n) /\ Lists(l.made) \subseteq Lists(n)
  BY <1>2, UptoGrows
<1>5. NewComponent(import) \in Component
  BY DEF NewComponent, Component
<1>6. /\ k.comp \in [Upto(n) -> Component]
      /\ \A d \in Upto(l.made) : k.comp[d] = l.comp[d]
      /\ k.comp[c].up = 0 /\ k.comp[c].class = import
  <2>1. l.comp \in [Upto(l.made) -> Component]
    BY <1>2 DEF Lifecycle
  <2>2. k.comp = [d \in Upto(n) |-> IF d = c THEN NewComponent(import) ELSE l.comp[d]]
    <3>1. DOMAIN l.comp = Upto(l.made)
      BY <2>1
    <3>2. k.comp = [d \in DOMAIN l.comp \cup {c} |-> IF d = c THEN NewComponent(import) ELSE l.comp[d]]
      BY <1>2 DEF Lifecycle
    <3> QED BY <3>1, <3>2, <1>3
  <2>3. NewComponent(import).up = 0 /\ NewComponent(import).class = import
    BY DEF NewComponent
  <2> HIDE DEF k, c, n
  <2>4. ASSUME NEW d \in Upto(n)
        PROVE  k.comp[d] \in Component /\ (d \in Upto(l.made) => k.comp[d] = l.comp[d])
    BY <2>1, <2>2, <1>3, <1>5
  <2>5. k.comp \in [Upto(n) -> Component]
    BY <2>2, <2>4
  <2> QED BY <2>2, <2>3, <2>4, <2>5, <1>3, <1>4
<1>7. /\ k.made = n /\ k.registered = n /\ k.children = l.children /\ k.started = l.started
      /\ k.iter = l.iter /\ Marks(l, k)
  BY <1>2 DEF Lifecycle, Marks
<1>8. k \in Lifecycle(n)
  <2>1. l.iter \in [Procs -> Iteration(n)]
    BY <1>2, <1>4 DEF Lifecycle, Iteration
  <2>2. l.children \in Lists(n) /\ n \in 0 .. n
    BY <1>2, <1>4
  <2>3. \E comp : k = [l EXCEPT !.made = n, !.registered = n, !.comp = comp]
    BY <1>2 DEF Lifecycle
  <2> HIDE DEF n, c, k
  <2>4. PICK comp : k = [l EXCEPT !.made = n, !.registered = n, !.comp = comp]
    BY <2>3
  <2>5. comp = k.comp
    BY <2>4, <1>2 DEF Lifecycle
  <2>6. comp \in [Upto(n) -> Component]
    BY <2>5, <1>6
  <2> QED BY <1>2, <2>1, <2>2, <2>4, <2>6 DEF Lifecycle
<1>9. /\ list \in Lists(n) /\ ToSet(list) = ToSet(l.children) \cup {c}
      /\ Len(list) = Len(l.children) + 1
      /\ \A i \in 1 .. Len(l.children) + 1 : list[i] = IF i = Len(l.children) + 1 THEN c ELSE l.children[i]
  <2>1. c \notin ToSet(l.children) /\ l.children \in Lists(n)
    BY <1>2, <1>3, <1>4, ListFacts
  <2> HIDE DEF c, n
  <2> QED BY <2>1, <1>2, <1>3, DistinctAppend DEF Lists
<1>10. ToSet(list) = Present(k) /\ Classed(k)
  <2>1. ToSet(list) = Present(k)
    BY <1>2, <1>7, <1>9 DEF Present
  <2> HIDE DEF k, c, n, list
  <2>2. Classed(k)
    BY <1>2, <1>3, <1>6, <1>7 DEF Classed
  <2> QED BY <2>1, <2>2
<1> HIDE DEF k, list, m, c, n
<1>11. /\ LifecycleOK(m) /\ m.made = n /\ m.registered = n
       /\ m.started = l.started /\ m.comp = k.comp /\ Marks(k, m)
       /\ ToSet(m.children) = ToSet(list) /\ Len(m.children) = Len(list)
       /\ \A q \in Procs :
            /\ m.iter[q].at = l.iter[q].at
            /\ l.iter[q].own => m.iter[q].own
            /\ List(m, q) = IF l.iter[q].own THEN l.iter[q].list ELSE list
  BY <1>2, <1>7, <1>8, <1>9, <1>10, ReboundFacts DEF m
<1>12. ASSUME OnceEach(l) PROVE OnceEach(m)
  BY <1>12, <1>3, <1>6, <1>11, ComponentFacts DEF OnceEach
<1>13. ASSUME NEW d \in ToSet(m.children), m.comp[d].up > 0
       PROVE  d \in ToSet(l.children) /\ l.comp[d].up > 0
  <2>1. d # c
    BY <1>13, <1>6, <1>11
  <2>2. d \in ToSet(l.children)
    BY <2>1, <1>9, <1>11
  <2>3. d \in Upto(l.made)
    BY <2>2, <1>2, ListFacts
  <2> QED BY <2>2, <2>3, <1>13, <1>6, <1>11
<1>14. ASSUME NEW q \in Procs, ToStart(l, q) PROVE ToStart(m, q)
  <2>1. List(l, q) \in Lists(l.made) /\ l.iter[q].at \in Nat
    BY LoopFacts
  <2> SUFFICES ASSUME NEW i \in DOMAIN List(m, q), i > l.iter[q].at
               PROVE  m.comp[List(m, q)[i]].up = 0
    BY <1>11 DEF ToStart
  <2>2. CASE l.iter[q].own \/ i # Len(l.children) + 1
    <3>1. i \in DOMAIN List(l, q) /\ List(m, q)[i] = List(l, q)[i]
      <4>1. CASE l.iter[q].own
        BY <4>1, <1>11 DEF List
      <4>2. CASE ~l.iter[q].own
        <5>1. i \in 1 .. Len(l.children) + 1
          BY <4>2, <1>9, <1>11, <1>2, ListFacts
        <5> QED BY <4>2, <5>1, <2>2, <1>2, <1>9, <1>11, ListFacts DEF List
      <4> QED BY <4>1, <4>2
    <3>2. List(l, q)[i] \in Upto(l.made)
      BY <3>1, <2>1, <1>2, ListFacts
    <3> QED BY <3>1, <3>2, <1>6, <1>11, <1>14 DEF ToStart
  <2>3. CASE ~ (l.iter[q].own \/ i # Len(l.children) + 1)
    <3>1. List(m, q)[i] = c
      <4>1. i \in 1 .. Len(l.children) + 1
        BY <2>3, <1>2, ListFacts
      <4> QED BY <2>3, <4>1, <1>9, <1>11
    <3> QED BY <3>1, <1>6, <1>11
  <2> QED BY <2>2, <2>3
<1>15. ASSUME NEW q \in Procs, ToStop(l, q) PROVE ToStop(m, q)
  <2>1. List(l, q) \in Lists(l.made) /\ l.iter[q].at \in Nat /\ Len(l.children) \in Nat
    BY LoopFacts, <1>2, ListFacts
  <2>2. CASE l.iter[q].own
    <3>1. List(m, q) = List(l, q) /\ m.iter[q].own /\ m.iter[q].at = l.iter[q].at
      BY <2>2, <1>11 DEF List
    <3> QED BY <3>1, <1>13, <1>15 DEF ToStop
  <2>3. CASE ~l.iter[q].own
    <3>1. List(m, q) = list /\ List(l, q) = l.children /\ m.iter[q].at = l.iter[q].at
      BY <2>3, <1>11 DEF List
    <3>2. \A i \in 1 .. l.iter[q].at : list[i] = l.children[i]
      <4>1. l.iter[q].at <= Len(l.children)
        BY <1>15, <3>1 DEF ToStop
      <4> QED BY <4>1, <2>1, <1>9
    <3>3. l.iter[q].at <= Len(list) /\ l.iter[q].at < Len(m.children)
      BY <1>15, <3>1, <2>1, <1>9, <1>11 DEF ToStop
    <3> QED BY <3>1, <3>2, <3>3, <1>13, <1>15 DEF ToStop
  <2> QED BY <2>2, <2>3
<1>16. Keeps(l, m, p)
  BY <1>2, <1>11, <1>12, <1>13, <1>14, <1>15 DEF Keeps
<1>17. Marks(l, m) /\ m.registered # 0
  BY <1>2, <1>7, <1>11 DEF Marks
<1> QED BY <1>1, <1>16, <1>17

\* _remove_child() of the component of Part.
LEMMA RemovedKeeps ==
  ASSUME NEW l, LifecycleOK(l), NEW p, l.registered # 0
  PROVE  /\ Keeps(l, Removed(l, <<Part, l.registered>>), p)
         /\ Removed(l, <<Part, l.registered>>).registered = 0
         /\ Marks(l, Removed(l, <<Part, l.registered>>))
<1> DEFINE c == <<Part, l.registered>>
           k == [l EXCEPT !.registered = 0]
           list == RemoveFirst(l.children, c)
           m == Rebound(k, list)
<1>1. /\ l.made \in Nat /\ l \in Lifecycle(l.made) /\ l.children \in Lists(l.made)
      /\ ToSet(l.children) = Present(l) /\ l.registered \in 0 .. l.made /\ Classed(l)
  BY DEF LifecycleOK, Lifecycle
<1>2. m = Removed(l, c)
  BY <1>1 DEF Removed, Rebound, Lifecycle
<1>3. /\ k \in Lifecycle(l.made) /\ k.made = l.made /\ k.registered = 0 /\ k.comp = l.comp
      /\ k.started = l.started /\ k.iter = l.iter /\ k.children = l.children
      /\ Marks(l, k) /\ Classed(k)
  <2>1. 0 \in 0 .. l.made
    BY <1>1
  <2> QED BY <1>1, <2>1 DEF Lifecycle, Marks, Classed
<1>4. c \in ToSet(l.children)
  BY <1>1 DEF Present
<1>5. PICK g \in 1 .. Len(l.children) :
        /\ list \in Lists(l.made) /\ ToSet(list) = ToSet(l.children) \ {c}
        /\ Len(list) = Len(l.children) - 1 /\ l.children[g] = c
        /\ \A i \in 1 .. Len(l.children) - 1 :
             list[i] = IF i < g THEN l.children[i] ELSE l.children[i + 1]
  <2> HIDE DEF c, k, m
  <2>1. ClosesGap(l.children, c, list)
    BY <1>1, <1>4, DistinctRemove DEF Lists
  <2>2. /\ list \in Lists(l.made) /\ ToSet(list) = ToSet(l.children) \ {c}
        /\ Len(list) = Len(l.children) - 1
    BY <1>1, <1>4, DistinctRemove DEF Lists
  <2> HIDE DEF list
  <2> QED BY <2>1, <2>2 DEF ClosesGap
<1>6. ToSet(list) = Present(k)
  <2>1. c \notin Core
    BY DEF Core
  <2> HIDE DEF c, list
  <2> QED BY <1>1, <1>3, <1>5, <2>1 DEF Present, c
<1> HIDE DEF k, list, m, c
<1>7. /\ LifecycleOK(m) /\ m.made = l.made /\ m.registered = 0
      /\ m.started = l.started /\ m.comp = l.comp /\ Marks(k, m)
      /\ ToSet(m.children) = ToSet(list) /\ Len(m.children) = Len(list)
      /\ \A q \in Procs :
           /\ m.iter[q].at = l.iter[q].at
           /\ l.iter[q].own => m.iter[q].own
           /\ List(m, q) = IF l.iter[q].own THEN l.iter[q].list ELSE list
  <2>1. /\ k.made \in Nat /\ k \in Lifecycle(k.made) /\ Classed(k)
        /\ list \in Lists(k.made) /\ ToSet(list) = Present(k) /\ m = Rebound(k, list)
    BY <1>1, <1>3, <1>5, <1>6 DEF m
  <2>2. /\ LifecycleOK(m) /\ m.made = k.made /\ m.registered = k.registered
        /\ m.started = k.started /\ m.comp = k.comp /\ Marks(k, m)
        /\ ToSet(m.children) = ToSet(list) /\ Len(m.children) = Len(list)
        /\ \A q \in Procs :
             /\ m.iter[q].at = k.iter[q].at
             /\ k.iter[q].own => m.iter[q].own
             /\ List(m, q) = IF k.iter[q].own THEN k.iter[q].list ELSE list
    BY <2>1, ReboundFacts
  <2> QED BY <1>3, <2>2
<1>8. OnceEach(l) => OnceEach(m)
  BY <1>7 DEF OnceEach
<1>9. ASSUME NEW d \in ToSet(m.children), m.comp[d].up > 0
      PROVE  d \in ToSet(l.children) /\ l.comp[d].up > 0 /\ d # c
  BY <1>9, <1>5, <1>7
<1>10. Len(l.children) \in Nat /\ DOMAIN list = 1 .. Len(list)
  BY <1>1, <1>5, ListFacts
<1>11. ASSUME NEW q \in Procs, ToStart(l, q) PROVE ToStart(m, q)
  <2>1. l.iter[q].at \in Nat /\ DOMAIN l.children = 1 .. Len(l.children)
    BY LoopFacts, <1>1, ListFacts
  <2>2. CASE l.iter[q].own
    <3>1. List(m, q) = List(l, q) /\ m.iter[q].at = l.iter[q].at
      BY <2>2, <1>7 DEF List
    <3> QED BY <3>1, <1>7, <1>11 DEF ToStart
  <2>3. CASE ~l.iter[q].own
    <3> SUFFICES ASSUME NEW i \in 1 .. Len(list), i > l.iter[q].at
                 PROVE  l.comp[list[i]].up = 0
      BY <2>3, <1>7, <1>10 DEF ToStart
    <3>1. \A j \in 1 .. Len(l.children) : j > l.iter[q].at => l.comp[l.children[j]].up = 0
      BY <2>1, <2>3, <1>11 DEF ToStart, List
    <3>2. CASE i < g
      BY <3>1, <3>2, <2>1, <1>5, <1>10
    <3>3. CASE ~ (i < g)
      <4>1. i + 1 \in 1 .. Len(l.children) /\ i + 1 > l.iter[q].at
        BY <2>1, <1>5, <1>10
      <4> QED BY <3>1, <3>3, <4>1, <1>5, <1>10
    <3> QED BY <3>2, <3>3
  <2> QED BY <2>2, <2>3
<1>12. ASSUME NEW q \in Procs, ToStop(l, q) PROVE ToStop(m, q)
  <2>1. l.iter[q].at \in Nat
    BY LoopFacts
  <2>2. CASE l.iter[q].own
    <3>1. List(m, q) = List(l, q) /\ m.iter[q].own /\ m.iter[q].at = l.iter[q].at
      BY <2>2, <1>7 DEF List
    <3> QED BY <3>1, <1>9, <1>12 DEF ToStop
  <2>3. CASE ~l.iter[q].own
    <3>1. List(m, q) = list /\ List(l, q) = l.children /\ m.iter[q].at = l.iter[q].at
      BY <2>3, <1>7 DEF List
    <3>2. l.iter[q].at < Len(l.children)
      BY <2>3, <1>12 DEF ToStop
    <3>3. l.iter[q].at <= Len(list)
      BY <3>2, <2>1, <1>5, <1>10
    <3>4. ASSUME NEW d \in ToSet(m.children), m.comp[d].up > 0
          PROVE  \E i \in 1 .. l.iter[q].at : list[i] = d
      <4>1. PICK j \in 1 .. l.iter[q].at : l.children[j] = d
        BY <3>1, <3>4, <1>9, <1>12 DEF ToStop
      <4>2. j # g
        BY <3>4, <4>1, <1>5, <1>9
      <4>3. CASE j < g
        <5>1. j \in 1 .. Len(l.children) - 1
          BY <4>3, <1>10, <1>5
        <5> QED BY <4>1, <4>3, <5>1, <1>5
      <4>4. CASE ~ (j < g)
        <5>1. /\ j - 1 \in 1 .. Len(l.children) - 1 /\ j - 1 \in 1 .. l.iter[q].at
              /\ ~ (j - 1 < g) /\ (j - 1) + 1 = j
          BY <2>1, <3>2, <4>2, <4>4, <1>5, <1>10
        <5> QED BY <4>1, <5>1, <1>5
      <4> QED BY <4>3, <4>4
    <3> QED BY <3>1, <3>3, <3>4, <1>7 DEF ToStop
  <2> QED BY <2>2, <2>3
<1>13. Keeps(l, m, p)
  BY <1>1, <1>7, <1>8, <1>9, <1>11, <1>12 DEF Keeps
<1>14. Marks(l, m)
  BY <1>3, <1>7 DEF Marks
<1> QED BY <1>2, <1>7, <1>13, <1>14 DEF c

\* set_scope()
LEMMA RescopedKeeps ==
  ASSUME NEW l, LifecycleOK(l), NEW p
  PROVE  Keeps(l, Rescoped(l), p)
<1>1. CASE l.scope = l.last
  <2>1. Rescoped(l) = l
    BY <1>1 DEF Rescoped
  <2> QED BY <2>1, KeepsItself
<1>2. CASE l.scope # l.last
  <2> DEFINE comp == [c \in DOMAIN l.comp |->
               IF Contains(l.children, c) /\ IsManager(c)
               THEN [l.comp[c] EXCEPT !.wired = TRUE] ELSE l.comp[c]]
  <2>1. /\ l.made \in Nat /\ l \in Lifecycle(l.made) /\ l.comp \in [Upto(l.made) -> Component]
        /\ ToSet(l.children) = Present(l) /\ l.scope \in Seq(Exts)
    BY DEF LifecycleOK, Lifecycle, Scopes, Distinct
  <2>2. /\ comp \in [Upto(l.made) -> Component]
        /\ \A c \in Upto(l.made) :
             comp[c].up = l.comp[c].up /\ comp[c].class = l.comp[c].class
    BY <2>1 DEF Component
  <2>3. Rescoped(l) = [l EXCEPT !.last = l.scope, !.given = l.scope, !.shared = TRUE,
                                !.changed = TRUE, !.comp = comp]
    BY <1>2 DEF Rescoped
  <2> HIDE DEF comp
  <2>4. /\ Rescoped(l) \in Lifecycle(l.made) /\ Rescoped(l).made = l.made
        /\ Rescoped(l).registered = l.registered /\ Rescoped(l).children = l.children
        /\ Rescoped(l).started = l.started /\ Rescoped(l).iter = l.iter
        /\ Rescoped(l).comp = comp
    BY <2>1, <2>2, <2>3 DEF Lifecycle
  <2>5. LifecycleOK(Rescoped(l))
    BY <2>1, <2>2, <2>4 DEF LifecycleOK, Present, Classed
  <2> QED BY <2>2, <2>4, <2>5, SamePlaces
<1> QED BY <1>1, <1>2

\* m differs from l in what its components are like, not in which there are.
SameShape(l, m) ==
  /\ LifecycleOK(m) /\ m.made = l.made /\ m.registered = l.registered
  /\ m.children = l.children /\ m.started = l.started /\ m.iter = l.iter /\ Marks(l, m)

\* What a component did in a stretch: it may be up, or have found something new.
Moved(l, c, x, changed) == [l EXCEPT !.comp[c] = x, !.changed = changed]

LEMMA ComponentMoves ==
  ASSUME NEW l, LifecycleOK(l), NEW c \in Upto(l.made), NEW x \in Component,
         x.class = l.comp[c].class, NEW changed \in BOOLEAN, NEW m, m = Moved(l, c, x, changed)
  PROVE  /\ SameShape(l, m)
         /\ \A d \in Upto(l.made) : m.comp[d] = IF d = c THEN x ELSE l.comp[d]
<1> DEFINE comp == [l.comp EXCEPT ![c] = x]
<1>1. /\ l.made \in Nat /\ l \in Lifecycle(l.made) /\ l.comp \in [Upto(l.made) -> Component]
      /\ ToSet(l.children) = Present(l)
  BY DEF LifecycleOK, Lifecycle
<1>2. /\ comp \in [Upto(l.made) -> Component]
      /\ \A d \in Upto(l.made) : comp[d] = IF d = c THEN x ELSE l.comp[d]
  BY <1>1
<1>3. m = [l EXCEPT !.comp = comp, !.changed = changed]
  BY <1>1 DEF Lifecycle, Moved
<1> HIDE DEF comp
<1>4. /\ m \in Lifecycle(l.made) /\ m.made = l.made /\ m.registered = l.registered
      /\ m.children = l.children /\ m.started = l.started /\ m.iter = l.iter
      /\ m.comp = comp /\ Marks(l, m)
  BY <1>1, <1>2, <1>3 DEF Lifecycle, Marks
<1>5. LifecycleOK(m)
  BY <1>1, <1>2, <1>4 DEF LifecycleOK, Present, Classed
<1> QED BY <1>2, <1>4, <1>5 DEF SameShape

LEMMA NoticedFacts ==
  ASSUME NEW l, LifecycleOK(l), NEW c \in Upto(l.made), NEW seen \in SUBSET (Exts \X Nat)
  PROVE  /\ SameShape(l, Noticed(l, c, seen))
         /\ \A d \in Upto(l.made) : Noticed(l, c, seen).comp[d].up = l.comp[d].up
<1> DEFINE x == [l.comp[c] EXCEPT !.seen = seen]
           changed == l.changed \/ (seen # l.comp[c].seen /\ Contains(l.children, c))
           m == Moved(l, c, x, changed)
<1>1. l \in Lifecycle(l.made) /\ l.comp \in [Upto(l.made) -> Component]
  BY DEF LifecycleOK, Lifecycle
<1>2. x \in Component /\ x.up = l.comp[c].up /\ x.class = l.comp[c].class
  BY <1>1 DEF Component
<1>3. changed \in BOOLEAN
  BY <1>1 DEF Lifecycle
<1>4. m = Noticed(l, c, seen)
  BY <1>1 DEF Noticed, Lifecycle, Moved
<1> HIDE DEF x, changed
<1>5. SameShape(l, m) /\ \A d \in Upto(l.made) : m.comp[d] = IF d = c THEN x ELSE l.comp[d]
  BY <1>2, <1>3, ComponentMoves
<1> HIDE DEF m
<1> QED BY <1>2, <1>4, <1>5

LEMMA RefreshedFacts ==
  ASSUME NEW l, LifecycleOK(l), NEW c \in Upto(l.made), load \in [Exts -> 0 .. MaxLoads]
  PROVE  /\ SameShape(l, Refreshed(l, c))
         /\ \A d \in Upto(l.made) : Refreshed(l, c).comp[d].up = l.comp[d].up
<1>1. Visible(l, c) \in SUBSET (Exts \X Nat)
  <2>1. ToSet(l.given) \subseteq Exts
    BY DEF LifecycleOK, Lifecycle, ToSet
  <2>2. \A x \in Exts : load[x] \in Nat
    BY LifecycleAssumption
  <2> QED BY <2>1, <2>2 DEF Visible
<1>2. CASE IsManager(c)
  BY <1>1, <1>2, NoticedFacts DEF Refreshed
<1>3. CASE ~IsManager(c)
  BY <1>3 DEF Refreshed, SameShape, Marks
<1> QED BY <1>2, <1>3

\* start() of a component
LEMMA StartedFacts ==
  ASSUME NEW l, LifecycleOK(l), NEW c \in Upto(l.made), load \in [Exts -> 0 .. MaxLoads]
  PROVE  /\ SameShape(l, Started(l, c))
         /\ \A d \in Upto(l.made) :
              Started(l, c).comp[d].up = IF d = c THEN l.comp[c].up + 1 ELSE l.comp[d].up
<1> DEFINE x == [l.comp[c] EXCEPT !.up = @ + 1, !.open = TRUE]
           k == Moved(l, c, x, l.changed)
<1>1. l \in Lifecycle(l.made) /\ l.comp \in [Upto(l.made) -> Component] /\ l.changed \in BOOLEAN
  BY DEF LifecycleOK, Lifecycle
<1>2. x \in Component /\ x.up = l.comp[c].up + 1 /\ x.class = l.comp[c].class
  <2>1. l.comp[c] \in Component /\ l.comp[c].up \in Nat
    BY <1>1 DEF Component
  <2> DEFINE up == l.comp[c].up + 1
  <2>2. up \in Nat /\ x = [l.comp[c] EXCEPT !.up = up, !.open = TRUE]
    BY <2>1 DEF Component
  <2> HIDE DEF up, x
  <2>3. x \in Component /\ x.up = up /\ x.class = l.comp[c].class
    BY <2>1, <2>2 DEF Component
  <2> QED BY <2>3 DEF up
<1>3. Started(l, c) = Refreshed(k, c)
  BY <1>1 DEF Started, Lifecycle, Moved
<1> HIDE DEF x
<1>4. SameShape(l, k) /\ \A d \in Upto(l.made) : k.comp[d] = IF d = c THEN x ELSE l.comp[d]
  BY <1>1, <1>2, ComponentMoves
<1> HIDE DEF k
<1>5. /\ SameShape(k, Refreshed(k, c))
      /\ \A d \in Upto(l.made) : Refreshed(k, c).comp[d].up = k.comp[d].up
  <2>1. LifecycleOK(k) /\ k.made = l.made
    BY <1>4 DEF SameShape
  <2>2. c \in Upto(k.made)
    BY <2>1
  <2> QED BY <2>1, <2>2, RefreshedFacts
<1>6. SameShape(l, Refreshed(k, c))
  BY <1>4, <1>5 DEF SameShape, Marks
<1>7. \A d \in Upto(l.made) : k.comp[d].up = IF d = c THEN l.comp[c].up + 1 ELSE l.comp[d].up
  BY <1>1, <1>2, <1>4
<1> QED BY <1>3, <1>5, <1>6, <1>7

\* stop() of a component
LEMMA StoppedFacts ==
  ASSUME NEW l, LifecycleOK(l), NEW c \in Upto(l.made)
  PROVE  /\ SameShape(l, Stopped(l, c))
         /\ \A d \in Upto(l.made) :
              Stopped(l, c).comp[d].up = IF d = c THEN 0 ELSE l.comp[d].up
<1> DEFINE x == [l.comp[c] EXCEPT !.up = 0, !.left = FALSE, !.open = FALSE]
           k == Moved(l, c, x, l.changed)
<1>1. l \in Lifecycle(l.made) /\ l.comp \in [Upto(l.made) -> Component] /\ l.changed \in BOOLEAN
  BY DEF LifecycleOK, Lifecycle
<1>2. x \in Component /\ x.up = 0 /\ x.class = l.comp[c].class
  BY <1>1 DEF Component
<1>3. Stopped(l, c) = IF IsManager(c) THEN Noticed(k, c, {}) ELSE k
  BY <1>1 DEF Stopped, Lifecycle, Moved
<1> HIDE DEF x
<1>4. SameShape(l, k) /\ \A d \in Upto(l.made) : k.comp[d] = IF d = c THEN x ELSE l.comp[d]
  BY <1>1, <1>2, ComponentMoves
<1> HIDE DEF k
<1>5. /\ SameShape(k, Noticed(k, c, {}))
      /\ \A d \in Upto(l.made) : Noticed(k, c, {}).comp[d].up = k.comp[d].up
  <2>1. {} \in SUBSET (Exts \X Nat)
    OBVIOUS
  <2>2. LifecycleOK(k) /\ k.made = l.made
    BY <1>4 DEF SameShape
  <2>3. c \in Upto(k.made)
    BY <2>2
  <2> QED BY <2>1, <2>2, <2>3, NoticedFacts
<1>6. SameShape(l, Noticed(k, c, {}))
  BY <1>4, <1>5 DEF SameShape, Marks
<1>7. \A d \in Upto(l.made) : k.comp[d].up = IF d = c THEN 0 ELSE l.comp[d].up
  BY <1>1, <1>2, <1>4
<1> QED BY <1>3, <1>4, <1>5, <1>6, <1>7

\* What a broken rollback leaves up is not counted any more.
LEMMA AbandonedFacts ==
  ASSUME NEW l, LifecycleOK(l), NEW done
  PROVE  /\ SameShape(l, Abandoned(l, done))
         /\ \A c \in Upto(l.made) :
              Abandoned(l, done).comp[c].up = IF c \in ToSet(done) THEN 0 ELSE l.comp[c].up
<1> DEFINE comp == [c \in DOMAIN l.comp |->
                      IF c \in ToSet(done) THEN [l.comp[c] EXCEPT !.up = 0, !.left = TRUE]
                      ELSE l.comp[c]]
           m == Abandoned(l, done)
<1>1. /\ l.made \in Nat /\ l \in Lifecycle(l.made) /\ l.comp \in [Upto(l.made) -> Component]
      /\ ToSet(l.children) = Present(l)
  BY DEF LifecycleOK, Lifecycle
<1>2. ASSUME NEW c \in Upto(l.made)
      PROVE  /\ comp[c] \in Component /\ comp[c].class = l.comp[c].class
             /\ comp[c].up = IF c \in ToSet(done) THEN 0 ELSE l.comp[c].up
  BY <1>1 DEF Component
<1>3. comp \in [Upto(l.made) -> Component]
  BY <1>1, <1>2
<1>4. m = [l EXCEPT !.comp = comp]
  BY <1>1 DEF Abandoned, Lifecycle
<1> HIDE DEF comp, m
<1>5. /\ m \in Lifecycle(l.made) /\ m.made = l.made /\ m.registered = l.registered
      /\ m.children = l.children /\ m.started = l.started /\ m.iter = l.iter
      /\ m.comp = comp /\ Marks(l, m)
  BY <1>1, <1>3, <1>4 DEF Lifecycle, Marks
<1>6. LifecycleOK(m)
  BY <1>1, <1>2, <1>5 DEF LifecycleOK, Present, Classed
<1> QED BY <1>2, <1>5, <1>6 DEF SameShape, m

LEMMA ShapeKeeps ==
  ASSUME NEW l, NEW m, NEW p, LifecycleOK(l), SameShape(l, m),
         \A c \in Upto(l.made) : m.comp[c].up = l.comp[c].up \/ m.comp[c].up = 0
  PROVE  Keeps(l, m, p)
BY SamePlaces DEF SameShape

\* A change of the scope, of the marks, or of p's own loop.
Changed(l, scope, shared, given, changed, started, p, i) ==
  [l EXCEPT !.scope = scope, !.shared = shared, !.given = given, !.changed = changed,
            !.started = started, !.iter[p] = i]
Looped(l, p, i) == [l EXCEPT !.iter[p] = i]
Scoped(l, scope, shared, given) ==
  [l EXCEPT !.scope = scope, !.shared = shared, !.given = given]

LEMMA OwnLoopFacts ==
  ASSUME NEW l, LifecycleOK(l), NEW p \in Procs, NEW i \in Iteration(l.made),
         NEW scope \in Scopes, NEW changed \in BOOLEAN, NEW shared \in BOOLEAN,
         NEW given \in Seq(Exts), NEW started \in BOOLEAN,
         NEW m, m = Changed(l, scope, shared, given, changed, started, p, i)
  PROVE  /\ LifecycleOK(m) /\ (started = l.started => Keeps(l, m, p))
         /\ m.made = l.made /\ m.registered = l.registered /\ m.children = l.children
         /\ m.comp = l.comp /\ m.started = started /\ m.iter[p] = i
         /\ m.scope = scope /\ m.last = l.last /\ m.given = given
<1>1. /\ l.made \in Nat /\ l \in Lifecycle(l.made) /\ ToSet(l.children) = Present(l)
      /\ l.iter \in [Procs -> Iteration(l.made)]
  BY DEF LifecycleOK, Lifecycle
<1> DEFINE iter == [l.iter EXCEPT ![p] = i]
<1>2. /\ iter \in [Procs -> Iteration(l.made)] /\ iter[p] = i
      /\ \A q \in Procs \ {p} : iter[q] = l.iter[q]
  BY <1>1
<1>3. m = [l EXCEPT !.scope = scope, !.changed = changed, !.shared = shared,
                    !.given = given, !.started = started, !.iter = iter]
  BY <1>1 DEF Lifecycle, Changed
<1> HIDE DEF iter
<1>4. /\ m \in Lifecycle(l.made) /\ m.made = l.made /\ m.registered = l.registered
      /\ m.children = l.children /\ m.comp = l.comp /\ m.started = started
      /\ m.iter = iter /\ m.scope = scope /\ m.last = l.last /\ m.given = given
  BY <1>1, <1>2, <1>3 DEF Lifecycle
<1>5. LifecycleOK(m)
  BY <1>1, <1>4 DEF LifecycleOK, Present, Classed
<1>6. started = l.started => Keeps(l, m, p)
  BY <1>2, <1>4, <1>5, SamePlaces
<1> QED BY <1>2, <1>4, <1>5, <1>6

\* p's loop moves on, or is over.
LEMMA LoopMoves ==
  ASSUME NEW l, LifecycleOK(l), NEW p \in Procs, NEW i \in Iteration(l.made),
         NEW m, m = Looped(l, p, i)
  PROVE  /\ Keeps(l, m, p) /\ m.made = l.made /\ m.registered = l.registered
         /\ m.children = l.children /\ m.comp = l.comp /\ m.iter[p] = i /\ Marks(l, m)
<1>1. /\ l \in Lifecycle(l.made) /\ l.scope \in Scopes /\ l.changed \in BOOLEAN
      /\ l.shared \in BOOLEAN /\ l.given \in Seq(Exts) /\ l.started \in BOOLEAN
  BY DEF LifecycleOK, Lifecycle
<1>2. m = Changed(l, l.scope, l.shared, l.given, l.changed, l.started, p, i)
  BY <1>1 DEF Lifecycle, Looped, Changed
<1> QED BY <1>1, <1>2, OwnLoopFacts DEF Marks

\* The scope is another.
LEMMA ScopeKeeps ==
  ASSUME NEW l, LifecycleOK(l), NEW p \in Procs, NEW scope \in Scopes,
         NEW shared \in BOOLEAN, NEW given \in Seq(Exts),
         NEW m, m = Scoped(l, scope, shared, given)
  PROVE  /\ Keeps(l, m, p) /\ m.made = l.made /\ m.scope = scope /\ m.last = l.last
         /\ m.registered = l.registered /\ m.comp = l.comp
<1>1. /\ l \in Lifecycle(l.made) /\ l.changed \in BOOLEAN /\ l.started \in BOOLEAN
      /\ l.iter[p] \in Iteration(l.made)
  BY DEF LifecycleOK, Lifecycle
<1>2. m = Changed(l, scope, shared, given, l.changed, l.started, p, l.iter[p])
  BY <1>1 DEF Lifecycle, Scoped, Changed
<1> QED BY <1>1, <1>2, OwnLoopFacts

-----------------------------------------------------------------------------
(* How a stretch ends                                                      *)

\* The stretch of p that has come to l leaves a well-formed state.
Left(p, l) ==
  /\ LifecycleOK(lc') /\ l.made <= lc'.made
  /\ Turn(p, proc'[p])
  /\ proc'[p] \in TaskOf(lc'.made) /\ Recorded(proc'[p])

\* It leaves p where it starts and stops nothing.
Quiet(p, r, l) ==
  /\ Left(p, l) /\ Keeps(l, lc', p)
  /\ proc'[p].pc \notin {"ready", "starting", "rollback", "stopping", "draining"}
  /\ proc'[p].call = r.call
  /\ proc'[p].phase = IF proc'[p].pc = "idle" THEN "none" ELSE r.phase
  /\ proc'[p].pc = "hook" => r.phase = "start"

\* It leaves p in the start() of a component or, after the last, in the hooks.
Goes(p, r, l) ==
  /\ Left(p, l)
  /\ proc'[p].call = r.call /\ proc'[p].phase = r.phase
  /\ \/ proc'[p].pc = "starting" /\ lc'.started = l.started
     \/ proc'[p].pc = "hook" /\ lc'.started

StartsRight(p) ==
  /\ OnceEach(lc')
  /\ proc'[p].pc = "starting" => ToStart(lc', p) /\ UpIn(lc', proc'[p].done)

\* It is where a start begins.
Begun(p, r, l) ==
  /\ Goes(p, r, l)
  /\ r.phase = "start" /\ ~l.started
  /\ OnceEach(l) /\ AllDown(l) => StartsRight(p)

Ends(p, r, l) == Quiet(p, r, l) \/ Begun(p, r, l)

LEMMA EndsEarlier ==
  ASSUME NEW k, NEW l, NEW p, NEW r, NEW s, LifecycleOK(k), Keeps(k, l, p),
         Ends(p, r, l), s.call = r.call, s.phase = r.phase
  PROVE  Ends(p, s, k) /\ (Quiet(p, r, l) => Quiet(p, s, k))
<1>1. k.made \in Nat /\ l.made \in Nat /\ k.made <= l.made
  BY DEF Keeps, LifecycleOK
<1>2. Left(p, l) => Left(p, k)
  <2>1. ASSUME LifecycleOK(lc'), l.made <= lc'.made PROVE k.made <= lc'.made
    <3>1. lc'.made \in Nat
      BY <2>1 DEF LifecycleOK
    <3> QED BY <1>1, <2>1, <3>1
  <2> QED BY <2>1 DEF Left
<1>3. Quiet(p, r, l) => Quiet(p, s, k)
  BY <1>2, KeepsTransitive DEF Quiet
<1>4. ASSUME Begun(p, r, l) PROVE Begun(p, s, k)
  <2>1. OnceEach(k) /\ AllDown(k) => OnceEach(l) /\ AllDown(l)
    <3> SUFFICES ASSUME AllDown(k), NEW c \in ToSet(l.children) PROVE l.comp[c].up = 0
      BY DEF Keeps, AllDown
    <3>1. l.comp[c].up \in Nat
      BY ComponentFacts DEF Keeps
    <3>2. ~ (l.comp[c].up > 0)
      BY DEF Keeps, AllDown
    <3> QED BY <3>1, <3>2
  <2>2. l.started = k.started
    BY DEF Keeps
  <2> QED BY <1>2, <1>4, <2>1, <2>2 DEF Begun, Goes
<1> QED BY <1>3, <1>4 DEF Ends

LEMMA NoIterFacts ==
  ASSUME NEW made \in Nat
  PROVE  NoIter \in Iteration(made)
<1>1. <<>> \in Lists(made)
  BY DEF Lists, Distinct, IsInjective
<1> QED BY <1>1 DEF NoIter, Iteration

LEMMA MakesTask ==
  ASSUME NEW made \in Nat, NEW r \in TaskOf(made), NEW pc \in Places
  PROVE  /\ [r EXCEPT !.pc = pc] \in TaskOf(made)
         /\ [r EXCEPT !.pc = pc].pc = pc /\ [r EXCEPT !.pc = pc].call = r.call
         /\ [r EXCEPT !.pc = pc].phase = r.phase
BY DEF TaskOf

LEMMA EndedFacts ==
  ASSUME NEW l, LifecycleOK(l), NEW p \in Procs, NEW r \in TaskOf(l.made),
         NEW outcome \in {"returned", "failed"}, Ended(p, r, l, outcome)
  PROVE  Quiet(p, r, l)
<1> DEFINE s == [r EXCEPT !.pc = "idle", !.phase = "none", !.active = 0,
                          !.done = <<>>, !.hand = <<>>, !.outcome = outcome]
<1>1. l.made \in Nat
  BY DEF LifecycleOK
<1>2. lc' = Looped(l, p, NoIter) /\ Turn(p, s)
  BY DEF Ended, Looped
<1>3. Keeps(l, lc', p) /\ lc'.made = l.made
  BY <1>1, <1>2, NoIterFacts, LoopMoves
<1>4. /\ s \in TaskOf(l.made) /\ s.pc = "idle" /\ s.phase = "none" /\ s.call = r.call
  <2>1. <<>> \in Seq(Upto(l.made)) /\ 0 \in 0 .. MaxLoads
    BY LifecycleAssumption
  <2>2. "idle" \in Places /\ "none" \in Phases
    BY DEF Places, Phases
  <2> QED BY <2>1, <2>2 DEF TaskOf
<1> HIDE DEF s
<1>5. proc'[p] = s
  BY <1>2 DEF Turn
<1> QED BY <1>2, <1>3, <1>4, <1>5 DEF Quiet, Left, Keeps, Recorded

LEMMA RaiseFacts ==
  ASSUME NEW l, LifecycleOK(l), NEW p \in Procs, NEW r \in TaskOf(l.made), Raise(p, r, l)
  PROVE  Ends(p, r, l) /\ Quiet(p, r, l)
<1> DEFINE k == [l EXCEPT !.scope = r.before, !.shared = FALSE]
<1>1. CASE r.call \in Operations
  <2>1. l \in Lifecycle(l.made) /\ l.given \in Seq(Exts) /\ r.before \in Scopes
    BY DEF LifecycleOK, Lifecycle, TaskOf
  <2> DEFINE no == FALSE
  <2>2. k = Scoped(l, r.before, no, l.given) /\ no \in BOOLEAN
    BY <2>1 DEF Lifecycle, Scoped
  <2>3. Ended(p, r, k, "failed")
    BY <1>1 DEF Raise
  <2> HIDE DEF k, no
  <2>4. Keeps(l, k, p) /\ k.made = l.made
    BY <2>1, <2>2, ScopeKeeps
  <2>5. Quiet(p, r, k)
    BY <2>3, <2>4, EndedFacts DEF Keeps
  <2> QED BY <2>4, <2>5, EndsEarlier DEF Ends
<1>2. CASE r.call \notin Operations
  <2>1. Ended(p, r, l, "failed")
    BY <1>2 DEF Raise
  <2> QED BY <2>1, EndedFacts DEF Ends
<1> QED BY <1>1, <1>2

LEMMA ReturnFacts ==
  ASSUME NEW l, LifecycleOK(l), NEW p \in Procs, NEW r \in TaskOf(l.made), Return(p, r, l)
  PROVE  Ends(p, r, l)
BY EndedFacts DEF Return, Ends

\* A stretch that leaves the lifecycle as m and p at another place.
LEMMA PlacedFacts ==
  ASSUME NEW l, LifecycleOK(l), NEW m, NEW p \in Procs, NEW r \in TaskOf(l.made),
         NEW pc \in {"hook", "wait", "refreshing"},
         pc = "hook" => r.phase = "start",
         Keeps(l, m, p), m.made = l.made, lc' = m, Turn(p, [r EXCEPT !.pc = pc])
  PROVE  Ends(p, r, l)
<1> DEFINE s == [r EXCEPT !.pc = pc]
<1>1. l.made \in Nat
  BY DEF LifecycleOK
<1>2. s \in TaskOf(l.made) /\ s.pc = pc /\ s.call = r.call /\ s.phase = r.phase
  <2>1. pc \in Places
    BY DEF Places
  <2> QED BY <1>1, <2>1, MakesTask
<1> HIDE DEF s
<1>3. proc'[p] = s /\ Turn(p, s)
  BY DEF Turn, s
<1> QED BY <1>2, <1>3 DEF Ends, Quiet, Left, Keeps, Recorded

\* The next round of the loop over the components.
GoesTo(l, p, at) == [l EXCEPT !.iter[p].at = at]

LEMMA NextRound ==
  ASSUME NEW l, LifecycleOK(l), NEW p \in Procs, NEW n \in DOMAIN List(l, p), NEW at \in Nat,
         NEW m, m = GoesTo(l, p, at)
  PROVE  /\ Keeps(l, m, p) /\ m.made = l.made /\ m.registered = l.registered
         /\ m.children = l.children /\ m.comp = l.comp /\ m.started = l.started
         /\ List(m, p) = List(l, p) /\ m.iter[p].at = at /\ m.iter[p].own = l.iter[p].own
         /\ List(l, p)[n] \in Upto(l.made) /\ Marks(l, m)
<1>1. /\ l \in Lifecycle(l.made) /\ l.iter[p] \in Iteration(l.made) /\ l.made \in Nat
      /\ List(l, p) \in Lists(l.made)
  BY LoopFacts DEF LifecycleOK
<1> DEFINE i == [l.iter[p] EXCEPT !.at = at]
<1>2. /\ i \in Iteration(l.made) /\ i.at = at /\ i.own = l.iter[p].own
      /\ i.list = l.iter[p].list
  BY <1>1 DEF Iteration
<1>3. m = Looped(l, p, i)
  BY <1>1 DEF Lifecycle, Looped, GoesTo
<1> HIDE DEF i
<1>4. /\ Keeps(l, m, p) /\ m.made = l.made /\ m.registered = l.registered
      /\ m.children = l.children /\ m.comp = l.comp /\ m.iter[p] = i /\ Marks(l, m)
  BY <1>2, <1>3, LoopMoves
<1>5. List(m, p) = List(l, p)
  BY <1>2, <1>4 DEF List
<1>6. List(l, p)[n] \in Upto(l.made)
  BY <1>1, ListFacts
<1> QED BY <1>2, <1>4, <1>5, <1>6 DEF Keeps

LEMMA RefreshNextFacts ==
  ASSUME NEW l, LifecycleOK(l), NEW p \in Procs, NEW r \in TaskOf(l.made),
         load \in [Exts -> 0 .. MaxLoads], RefreshNext(p, r, l)
  PROVE  Ends(p, r, l)
<1> DEFINE n == l.iter[p].at + 1
           k == GoesTo(l, p, n)
           m == [l EXCEPT !.changed = FALSE]
<1>1. /\ l.iter[p].at \in Nat /\ l.made \in Nat /\ List(l, p) \in Lists(l.made)
      /\ l \in Lifecycle(l.made)
  BY LoopFacts DEF LifecycleOK
<1>2. CASE n <= Len(List(l, p))
  <2>1. n \in DOMAIN List(l, p) /\ n \in Nat
    BY <1>1, <1>2, ListFacts
  <2>2. lc' = Refreshed(k, List(l, p)[n]) /\ Turn(p, [r EXCEPT !.pc = "refreshing"])
    BY <1>2 DEF RefreshNext, GoesTo
  <2> HIDE DEF k, n
  <2>3. Keeps(l, k, p) /\ k.made = l.made /\ List(l, p)[n] \in Upto(l.made)
    BY <2>1, NextRound DEF k
  <2>4. /\ LifecycleOK(k) /\ List(l, p)[n] \in Upto(k.made)
    BY <2>3 DEF Keeps
  <2>5. /\ SameShape(k, lc')
        /\ \A d \in Upto(k.made) : lc'.comp[d].up = k.comp[d].up
    BY <2>2, <2>4, RefreshedFacts
  <2>6. Keeps(k, lc', p) /\ lc'.made = k.made
    BY <2>4, <2>5, ShapeKeeps DEF SameShape
  <2>7. Keeps(l, lc', p) /\ lc'.made = l.made
    BY <2>3, <2>6, KeepsTransitive
  <2> QED BY <2>2, <2>7, PlacedFacts
<1>3. CASE ~ (n <= Len(List(l, p)))
  <2>1. Return(p, r, m)
    BY <1>3 DEF RefreshNext
  <2> DEFINE no == FALSE
  <2>2. /\ no \in BOOLEAN
        /\ m = Changed(l, l.scope, l.shared, l.given, no, l.started, p, l.iter[p])
    BY <1>1 DEF Lifecycle, Changed
  <2>3. /\ l.scope \in Scopes /\ l.shared \in BOOLEAN /\ l.given \in Seq(Exts)
        /\ l.started \in BOOLEAN /\ l.iter[p] \in Iteration(l.made)
    BY <1>1 DEF Lifecycle
  <2> HIDE DEF m, no
  <2>4. Keeps(l, m, p) /\ m.made = l.made
    BY <2>2, <2>3, OwnLoopFacts
  <2>5. Ends(p, r, m)
    BY <2>1, <2>4, ReturnFacts DEF Keeps
  <2> QED BY <2>4, <2>5, EndsEarlier
<1> QED BY <1>2, <1>3

LEMMA ToSetAppend ==
  ASSUME NEW S, NEW s \in Seq(S), NEW c \in S
  PROVE  Append(s, c) \in Seq(S) /\ ToSet(s) \cup {c} \subseteq ToSet(Append(s, c))
<1>1. /\ Append(s, c) \in Seq(S) /\ Len(Append(s, c)) = Len(s) + 1 /\ Len(s) \in Nat
      /\ \A i \in 1 .. Len(s) : Append(s, c)[i] = s[i]
      /\ Append(s, c)[Len(s) + 1] = c
  BY AppendProperties
<1>2. DOMAIN s = 1 .. Len(s) /\ DOMAIN Append(s, c) = 1 .. Len(s) + 1
  BY <1>1
<1>3. \A i \in 1 .. Len(s) : i \in 1 .. Len(s) + 1
  BY <1>1
<1>4. Len(s) + 1 \in 1 .. Len(s) + 1
  BY <1>1
<1> QED BY <1>1, <1>2, <1>3, <1>4 DEF ToSet

LEMMA StartNextFacts ==
  ASSUME NEW l, LifecycleOK(l), NEW p \in Procs, NEW r \in TaskOf(l.made),
         load \in [Exts -> 0 .. MaxLoads], StartNext(p, r, l)
  PROVE  /\ Goes(p, r, l)
         /\ OnceEach(l) /\ ToStart(l, p) /\ UpIn(l, r.done) => StartsRight(p)
<1> DEFINE n == l.iter[p].at + 1
           c == List(l, p)[n]
           k == GoesTo(l, p, n)
<1>1. /\ l.iter[p].at \in Nat /\ l.made \in Nat /\ List(l, p) \in Lists(l.made)
      /\ l \in Lifecycle(l.made)
  BY LoopFacts DEF LifecycleOK
<1>2. CASE n <= Len(List(l, p))
  <2> DEFINE s == [r EXCEPT !.pc = "starting", !.done = Append(r.done, c)]
  <2>1. n \in DOMAIN List(l, p) /\ n \in Nat /\ n > l.iter[p].at
    BY <1>1, <1>2, ListFacts
  <2>2. lc' = Started(k, c) /\ Turn(p, s)
    BY <1>2 DEF StartNext, TaskOf, GoesTo
  <2> HIDE DEF k, n
  <2>3. /\ Keeps(l, k, p) /\ k.made = l.made /\ c \in Upto(l.made) /\ k.comp = l.comp
        /\ k.children = l.children /\ k.started = l.started
        /\ List(k, p) = List(l, p) /\ k.iter[p].at = n /\ LifecycleOK(k)
    BY <2>1, NextRound DEF k, Keeps
  <2> HIDE DEF c
  <2>4. /\ SameShape(k, lc')
        /\ \A d \in Upto(k.made) : lc'.comp[d].up = IF d = c THEN k.comp[c].up + 1 ELSE k.comp[d].up
    BY <2>2, <2>3, StartedFacts
  <2>5. /\ LifecycleOK(lc') /\ lc'.made = l.made /\ lc'.children = l.children
        /\ lc'.started = l.started /\ lc'.iter[p].at = n
        /\ List(lc', p) = List(l, p)
        /\ \A d \in Upto(l.made) : lc'.comp[d].up = IF d = c THEN l.comp[c].up + 1 ELSE l.comp[d].up
    BY <2>3, <2>4 DEF SameShape, List
  <2>6. /\ Append(r.done, c) \in Seq(Upto(l.made)) /\ Append(r.done, c) # <<>>
        /\ ToSet(r.done) \cup {c} \subseteq ToSet(Append(r.done, c))
    <3>1. r.done \in Seq(Upto(l.made))
      BY DEF TaskOf
    <3>2. Append(r.done, c) \in Seq(Upto(l.made)) /\ Append(r.done, c) # <<>>
      BY <2>3, <3>1, AppendProperties
    <3>3. ToSet(r.done) \cup {c} \subseteq ToSet(Append(r.done, c))
      BY <2>3, <3>1, ToSetAppend
    <3> QED BY <3>2, <3>3
  <2>7. /\ s \in TaskOf(l.made) /\ s.pc = "starting" /\ s.call = r.call /\ s.phase = r.phase
        /\ s.done = Append(r.done, c)
    BY <2>6 DEF TaskOf, Places
  <2> HIDE DEF s
  <2>8. proc'[p] = s
    BY <2>2 DEF Turn
  <2>9. Goes(p, r, l)
    BY <1>1, <2>2, <2>5, <2>6, <2>7, <2>8 DEF Goes, Left, Recorded
  <2>10. ASSUME OnceEach(l), ToStart(l, p), UpIn(l, r.done) PROVE StartsRight(p)
    <3>1. l.comp[c].up = 0
      BY <2>1, <2>10 DEF ToStart, c
    <3>2. OnceEach(lc')
      BY <2>5, <2>10, <3>1, ComponentFacts DEF OnceEach
    <3>3. ToStart(lc', p)
      <4> SUFFICES ASSUME NEW i \in DOMAIN List(l, p), i > n
                   PROVE  lc'.comp[List(l, p)[i]].up = 0
        BY <2>5 DEF ToStart
      <4>1. i \in Nat /\ i > l.iter[p].at /\ i # n
        BY <1>1, <2>1, ListFacts
      <4>2. List(l, p)[i] # c /\ List(l, p)[i] \in Upto(l.made)
        BY <1>1, <2>1, <4>1, ListFacts DEF c
      <4> QED BY <2>5, <2>10, <4>1, <4>2 DEF ToStart
    <3>4. UpIn(lc', s.done)
      <4> SUFFICES ASSUME NEW d \in ToSet(l.children), lc'.comp[d].up > 0
                   PROVE  d \in ToSet(s.done)
        BY <2>5 DEF UpIn
      <4>1. d \in Upto(l.made)
        BY ComponentFacts
      <4> QED BY <2>5, <2>6, <2>7, <2>10, <4>1 DEF UpIn
    <3> QED BY <2>8, <3>2, <3>3, <3>4 DEF StartsRight
  <2> QED BY <2>9, <2>10
<1>3. CASE ~ (n <= Len(List(l, p)))
  <2> DEFINE s == [r EXCEPT !.pc = "hook", !.done = <<>>]
             m == [l EXCEPT !.started = TRUE, !.changed = FALSE, !.iter[p] = NoIter]
  <2>1. lc' = m /\ Turn(p, s)
    BY <1>3 DEF StartNext
  <2> DEFINE no == FALSE
             yes == TRUE
  <2>2. /\ no \in BOOLEAN /\ yes \in BOOLEAN
        /\ m = Changed(l, l.scope, l.shared, l.given, no, yes, p, NoIter)
    BY <1>1 DEF Lifecycle, Changed
  <2>3. /\ l.scope \in Scopes /\ l.shared \in BOOLEAN /\ l.given \in Seq(Exts)
        /\ NoIter \in Iteration(l.made)
    BY <1>1, NoIterFacts DEF Lifecycle
  <2> HIDE DEF m, no, yes
  <2>4. LifecycleOK(m) /\ m.made = l.made /\ m.comp = l.comp /\ m.started = yes
    BY <2>2, <2>3, OwnLoopFacts
  <2>5. s \in TaskOf(l.made) /\ s.pc = "hook" /\ s.call = r.call /\ s.phase = r.phase
    <3>1. <<>> \in Seq(Upto(l.made)) /\ "hook" \in Places
      BY DEF Places
    <3> QED BY <3>1 DEF TaskOf
  <2> HIDE DEF s
  <2>6. proc'[p] = s
    BY <2>1 DEF Turn
  <2>7. Goes(p, r, l)
    BY <1>1, <2>1, <2>4, <2>5, <2>6 DEF Goes, Left, Recorded, yes
  <2> QED BY <2>1, <2>4, <2>5, <2>6, <2>7 DEF StartsRight, OnceEach
<1> QED BY <1>2, <1>3

\* What is up is on the list, before the place the loop of stop() has come to.
WillStop(l, p) ==
  /\ l.iter[p].at <= Len(List(l, p))
  /\ \A c \in ToSet(l.children) : l.comp[c].up > 0 =>
       \E i \in 1 .. l.iter[p].at : List(l, p)[i] = c

\* The stretch leaves p in the stop() of a component or, after the first of them,
\* in runner.stop().
Winds(p, r, l) ==
  /\ Left(p, l)
  /\ proc'[p].call = r.call /\ proc'[p].phase = r.phase
  /\ OnceEach(l) => OnceEach(lc')
  /\ \/ /\ proc'[p].pc = "stopping" /\ lc'.started = l.started
        /\ WillStop(l, p) => ToStop(lc', p)
        /\ AllDown(l) => AllDown(lc')
     \/ /\ proc'[p].pc = "draining" /\ ~lc'.started
        /\ WillStop(l, p) => AllDown(lc')

LEMMA StopNextFacts ==
  ASSUME NEW l, LifecycleOK(l), NEW p \in Procs, NEW r \in TaskOf(l.made), StopNext(p, r, l)
  PROVE  Winds(p, r, l)
<1> DEFINE n == l.iter[p].at
           c == List(l, p)[n]
           k == GoesTo(l, p, n - 1)
<1>1. /\ n \in Nat /\ l.made \in Nat /\ List(l, p) \in Lists(l.made) /\ l \in Lifecycle(l.made)
      /\ DOMAIN List(l, p) = 1 .. Len(List(l, p)) /\ Len(List(l, p)) \in Nat
  BY LoopFacts, ListFacts DEF LifecycleOK
<1>2. CASE n \in DOMAIN List(l, p)
  <2> DEFINE s == [r EXCEPT !.pc = "stopping", !.hand = List(l, p)[n]]
  <2>1. n - 1 \in Nat /\ n - 1 < Len(List(l, p)) /\ n <= Len(List(l, p))
    BY <1>1, <1>2
  <2>2. lc' = Stopped(k, c) /\ Turn(p, s)
    BY <1>2 DEF StopNext, GoesTo
  <2> DEFINE before == n - 1
  <2> HIDE DEF k, n, c
  <2>3. /\ Keeps(l, k, p) /\ k.made = l.made /\ c \in Upto(l.made) /\ k.comp = l.comp
        /\ k.children = l.children /\ k.started = l.started /\ k.registered = l.registered
        /\ List(k, p) = List(l, p) /\ k.iter[p].at = n - 1 /\ LifecycleOK(k)
        /\ k.iter[p].own = l.iter[p].own
    <3>1. before \in Nat /\ k = GoesTo(l, p, before)
      BY <2>1 DEF k
    <3> HIDE DEF before
    <3>2. /\ Keeps(l, k, p) /\ k.made = l.made /\ k.registered = l.registered
          /\ k.children = l.children /\ k.comp = l.comp /\ k.started = l.started
          /\ List(k, p) = List(l, p) /\ k.iter[p].at = before
          /\ k.iter[p].own = l.iter[p].own /\ List(l, p)[n] \in Upto(l.made)
      BY <1>2, <3>1, NextRound
    <3> QED BY <3>2 DEF before, c, Keeps
  <2>4. /\ SameShape(k, lc')
        /\ \A d \in Upto(k.made) : lc'.comp[d].up = IF d = c THEN 0 ELSE k.comp[d].up
    BY <2>2, <2>3, StoppedFacts
  <2>5. /\ LifecycleOK(lc') /\ lc'.made = l.made /\ lc'.children = l.children
        /\ lc'.started = l.started /\ lc'.iter[p].at = n - 1 /\ lc'.iter[p].own = l.iter[p].own
        /\ lc'.registered = l.registered /\ List(lc', p) = List(l, p)
        /\ \A d \in Upto(l.made) : lc'.comp[d].up = IF d = c THEN 0 ELSE l.comp[d].up
    BY <2>3, <2>4 DEF SameShape, List
  <2>6. s \in TaskOf(l.made) /\ s.pc = "stopping" /\ s.call = r.call /\ s.phase = r.phase
    BY <2>3 DEF TaskOf, Places, c
  <2> HIDE DEF s
  <2>7. proc'[p] = s
    BY <2>2 DEF Turn
  <2>8. Left(p, l)
    BY <1>1, <2>2, <2>5, <2>6, <2>7 DEF Left, Recorded
  <2>9. OnceEach(l) => OnceEach(lc')
    BY <2>5, ComponentFacts DEF OnceEach
  <2>10. AllDown(l) => AllDown(lc')
    BY <2>5, ComponentFacts DEF AllDown
  <2>11. ASSUME WillStop(l, p) PROVE ToStop(lc', p)
    <3>1. ~l.iter[p].own => List(l, p) = l.children
      BY DEF List
    <3>2. ASSUME NEW d \in ToSet(l.children), lc'.comp[d].up > 0
          PROVE  \E i \in 1 .. n - 1 : List(l, p)[i] = d
      <4>1. d \in Upto(l.made)
        BY ComponentFacts
      <4>2. lc'.comp[d].up = IF d = c THEN 0 ELSE l.comp[d].up
        BY <2>5, <4>1
      <4>3. d # c /\ l.comp[d].up > 0
        BY <3>2, <4>2
      <4>4. PICK i \in 1 .. n : List(l, p)[i] = d
        BY <2>11, <4>3 DEF WillStop, n
      <4>5. i # n
        BY <4>3, <4>4 DEF c
      <4>6. i \in 1 .. n - 1
        BY <1>1, <4>4, <4>5
      <4> QED BY <4>4, <4>6
    <3>3. n - 1 <= Len(List(l, p))
      BY <1>1, <2>1
    <3> QED BY <2>1, <2>5, <3>1, <3>2, <3>3 DEF ToStop
  <2> QED BY <2>5, <2>6, <2>7, <2>8, <2>9, <2>10, <2>11 DEF Winds
<1>3. CASE n \notin DOMAIN List(l, p)
  <2> DEFINE s == [r EXCEPT !.pc = "draining"]
             m == [l EXCEPT !.started = FALSE, !.iter[p] = NoIter]
  <2>1. lc' = m /\ Turn(p, s)
    BY <1>3 DEF StopNext
  <2> DEFINE no == FALSE
  <2>2. /\ no \in BOOLEAN
        /\ m = Changed(l, l.scope, l.shared, l.given, l.changed, no, p, NoIter)
    BY <1>1 DEF Lifecycle, Changed
  <2>3. /\ l.scope \in Scopes /\ l.shared \in BOOLEAN /\ l.given \in Seq(Exts)
        /\ NoIter \in Iteration(l.made) /\ l.changed \in BOOLEAN
    BY <1>1, NoIterFacts DEF Lifecycle
  <2> HIDE DEF m, no
  <2>4. /\ LifecycleOK(m) /\ m.made = l.made /\ m.comp = l.comp /\ m.started = no
        /\ m.children = l.children
    BY <2>2, <2>3, OwnLoopFacts
  <2>5. s \in TaskOf(l.made) /\ s.pc = "draining" /\ s.call = r.call /\ s.phase = r.phase
    BY DEF TaskOf, Places
  <2> HIDE DEF s
  <2>6. proc'[p] = s
    BY <2>1 DEF Turn
  <2>7. Left(p, l)
    BY <1>1, <2>1, <2>4, <2>5, <2>6 DEF Left, Recorded
  <2>8. ASSUME WillStop(l, p) PROVE AllDown(lc')
    <3>1. n = 0
      BY <1>1, <1>3, <2>8 DEF WillStop
    <3>2. 1 .. n = {}
      BY <3>1
    <3> HIDE DEF n
    <3>3. \A d \in ToSet(l.children) : l.comp[d].up \in Nat /\ ~ (l.comp[d].up > 0)
      BY <2>8, <3>2, ComponentFacts DEF WillStop, n
    <3> QED BY <2>1, <2>4, <3>3 DEF AllDown
  <2> QED BY <2>1, <2>4, <2>5, <2>6, <2>7, <2>8 DEF Winds, OnceEach, no
<1> QED BY <1>2, <1>3

LEMMA RescopeFacts ==
  ASSUME NEW l, LifecycleOK(l), NEW p \in Procs, NEW r \in TaskOf(l.made),
         load \in [Exts -> 0 .. MaxLoads], Rescope(p, r, l)
  PROVE  Ends(p, r, l)
<1> DEFINE m == Rescoped(l)
           b == Rebound(m, m.children)
           k == Looping(b, p, 0)
<1>1. Keeps(l, m, p) /\ LifecycleOK(m) /\ m.made = l.made /\ r \in TaskOf(m.made)
  <2>1. m.made = l.made
    BY DEF Rescoped, LifecycleOK, Lifecycle
  <2> HIDE DEF m
  <2> QED BY <2>1, RescopedKeeps DEF m, Keeps
<1>2. CASE r.phase = "start" /\ m.started
  <2>1. lc' = m /\ Turn(p, [r EXCEPT !.pc = "hook"])
    BY <1>2 DEF Rescope
  <2> HIDE DEF m
  <2> QED BY <1>1, <1>2, <2>1, PlacedFacts
<1>3. CASE r.phase = "start" /\ ~m.started
  <2>1. StartNext(p, r, k)
    BY <1>3 DEF Rescope
  <2> HIDE DEF m
  <2>2. /\ Keeps(m, b, p) /\ b.made = m.made /\ ToSet(b.children) = ToSet(m.children)
        /\ b.comp = m.comp
    BY <1>1, SortKeeps
  <2> HIDE DEF b
  <2> DEFINE i == [own |-> FALSE, list |-> <<>>, at |-> 0]
  <2>3. i \in Iteration(b.made)
    <3>1. <<>> \in Lists(b.made)
      BY DEF Lists, Distinct, IsInjective
    <3> QED BY <3>1 DEF Iteration
  <2>4. k = Looped(b, p, i)
    BY DEF Looping, Looped
  <2> HIDE DEF i, k
  <2>5. LifecycleOK(b)
    BY <2>2 DEF Keeps
  <2>6. /\ Keeps(b, k, p) /\ k.made = b.made /\ k.children = b.children /\ k.comp = b.comp
        /\ k.iter[p] = i
    BY <2>3, <2>4, <2>5, LoopMoves
  <2>7. Keeps(l, k, p) /\ LifecycleOK(k) /\ k.made = l.made /\ k.started = m.started
    <3>1. Keeps(m, k, p)
      BY <1>1, <2>2, <2>6, KeepsTransitive
    <3> QED BY <1>1, <2>2, <2>6, <3>1, KeepsTransitive DEF Keeps
  <2>8. /\ Goes(p, r, k)
        /\ OnceEach(k) /\ ToStart(k, p) /\ UpIn(k, r.done) => StartsRight(p)
    BY <1>1, <2>1, <2>7, StartNextFacts
  <2>9. AllDown(k) => ToStart(k, p) /\ UpIn(k, r.done)
    <3>1. List(k, p) = k.children
      BY <2>6 DEF List, i
    <3>2. \A j \in DOMAIN k.children : k.children[j] \in ToSet(k.children)
      BY DEF ToSet
    <3> QED BY <3>1, <3>2 DEF AllDown, ToStart, UpIn
  <2>10. Begun(p, r, k)
    BY <1>3, <2>7, <2>8, <2>9 DEF Begun
  <2> QED BY <2>7, <2>10, EndsEarlier DEF Ends
<1>4. CASE r.phase # "start" /\ (r.call = "ensure" \/ agent)
  <2>1. lc' = m /\ Turn(p, [r EXCEPT !.pc = "wait"])
    BY <1>4 DEF Rescope
  <2> HIDE DEF m
  <2> QED BY <1>1, <2>1, PlacedFacts
<1>5. CASE r.phase # "start" /\ ~ (r.call = "ensure" \/ agent)
  <2>1. Return(p, r, m)
    BY <1>5 DEF Rescope
  <2> HIDE DEF m
  <2>2. Ends(p, r, m)
    BY <1>1, <2>1, ReturnFacts
  <2> QED BY <1>1, <2>2, EndsEarlier
<1> QED BY <1>2, <1>3, <1>4, <1>5

LEMMA TaskGrows ==
  ASSUME NEW l, LifecycleOK(l), NEW m, NEW p, Keeps(l, m, p), NEW r \in TaskOf(l.made)
  PROVE  r \in TaskOf(m.made)
<1>1. l.made \in Nat /\ m.made \in Nat /\ l.made <= m.made
  BY DEF Keeps, LifecycleOK
<1>2. Seq(Upto(l.made)) \subseteq Seq(Upto(m.made))
  BY <1>1, UptoGrows, SeqMonotonic
<1>3. Upto(l.made) \subseteq Upto(m.made)
  BY <1>1, UptoGrows
<1> QED BY <1>2, <1>3 DEF TaskOf

LEMMA CompleteFacts ==
  ASSUME NEW l, LifecycleOK(l), NEW p \in Procs, NEW r \in TaskOf(l.made),
         load \in [Exts -> 0 .. MaxLoads], Complete(p, r, l)
  PROVE  Ends(p, r, l)
<1>1. CASE Rescope(p, r, l)
  BY <1>1, RescopeFacts
<1>2. CASE Raise(p, r, l)
  BY <1>2, RaiseFacts
<1>3. CASE l.registered = 0 /\ r.active # 0 /\ Rescope(p, r, Registered(l, r.active))
  <2> DEFINE m == Registered(l, r.active)
  <2>1. r.active \in 0 .. MaxLoads
    BY DEF TaskOf
  <2>2. Keeps(l, m, p)
    BY <1>3, <2>1, RegisteredKeeps
  <2>3. Rescope(p, r, m)
    BY <1>3
  <2> HIDE DEF m
  <2>4. LifecycleOK(m) /\ r \in TaskOf(m.made)
    BY <2>2, TaskGrows DEF Keeps
  <2>5. Ends(p, r, m)
    BY <2>3, <2>4, RescopeFacts
  <2> QED BY <2>2, <2>5, EndsEarlier
<1> QED BY <1>1, <1>2, <1>3 DEF Complete

LEMMA SyncFacts ==
  ASSUME NEW l, LifecycleOK(l), NEW p \in Procs, NEW r \in TaskOf(l.made),
         load \in [Exts -> 0 .. MaxLoads], class' \in 0 .. MaxLoads, Sync(p, r, l)
  PROVE  Ends(p, r, l)
<1> DEFINE active == IF Contains(l.scope, Part) THEN class' ELSE 0
           child == <<Part, l.registered>>
           s == [r EXCEPT !.active = active]
           m == Removed(l, child)
<1>1. active \in 0 .. MaxLoads
  BY LifecycleAssumption
<1> HIDE DEF active
<1>2. s \in TaskOf(l.made) /\ s.call = r.call /\ s.phase = r.phase
  BY <1>1 DEF TaskOf
<1>3. l.made \in Nat /\ l.registered \in 0 .. l.made
  BY DEF LifecycleOK, Lifecycle
<1>4. CASE Complete(p, s, l)
  <2>1. Ends(p, s, l)
    BY <1>2, <1>4, CompleteFacts
  <2> HIDE DEF s
  <2> QED BY <1>2, <2>1, KeepsItself, EndsEarlier
<1>5. CASE l.registered # 0 /\ Complete(p, s, m)
  <2>1. Keeps(l, m, p)
    BY <1>5, RemovedKeeps
  <2> HIDE DEF s, m
  <2>2. LifecycleOK(m) /\ s \in TaskOf(m.made)
    BY <1>2, <2>1, TaskGrows DEF Keeps
  <2>3. Ends(p, s, m)
    BY <1>5, <2>2, CompleteFacts
  <2> QED BY <1>2, <2>1, <2>3, EndsEarlier
<1>6. CASE l.registered # 0 /\ lc' = Stopped(l, child)
           /\ Turn(p, [s EXCEPT !.pc = "unregister", !.done = <<child>>])
  <2> DEFINE t == [s EXCEPT !.pc = "unregister", !.done = <<child>>]
  <2>1. child \in Upto(l.made)
    BY <1>3, <1>6 DEF Upto
  <2> HIDE DEF child
  <2>2. /\ SameShape(l, lc')
        /\ \A d \in Upto(l.made) : lc'.comp[d].up = IF d = child THEN 0 ELSE l.comp[d].up
    BY <1>6, <2>1, StoppedFacts
  <2>3. Keeps(l, lc', p) /\ lc'.made = l.made
    BY <2>2, ShapeKeeps DEF SameShape
  <2>4. <<child>> \in Seq(Upto(l.made)) /\ <<child>> = <<Head(<<child>>)>> /\ Head(<<child>>) = child
    BY <2>1
  <2> HIDE DEF s
  <2>5. /\ t \in TaskOf(l.made) /\ t.pc = "unregister" /\ t.done = <<child>>
        /\ t.call = r.call /\ t.phase = r.phase
    BY <1>2, <2>4 DEF TaskOf, Places
  <2>6. child[1] = Part
    BY DEF child
  <2>7. proc'[p] = t /\ Turn(p, t)
    BY <1>6 DEF Turn
  <2> HIDE DEF t
  <2> QED BY <2>3, <2>4, <2>5, <2>6, <2>7 DEF Ends, Quiet, Left, Keeps, Recorded
<1>7. \/ Complete(p, s, l)
      \/ l.registered # 0 /\ Complete(p, s, m)
      \/ /\ l.registered # 0 /\ lc' = Stopped(l, child)
         /\ Turn(p, [s EXCEPT !.pc = "unregister", !.done = <<child>>])
  BY DEF Sync, active
<1> QED BY <1>4, <1>5, <1>6, <1>7

-----------------------------------------------------------------------------
(* The calls                                                               *)

LEMMA CalledFacts ==
  ASSUME TypeInv, NEW p \in Procs, NEW call \in Operations \cup {"ensure", "stop"}
  PROVE  /\ Called(p, call) \in TaskOf(lc.made)
         /\ Called(p, call).call = call /\ Called(p, call).phase = proc[p].phase
         /\ Called(p, call).before = lc.scope
         /\ Called(p, call).synced => lc.scope = lc.last
<1> DEFINE alone == \A q \in Procs \ {p} : At(q, "idle")
           synced == lc.scope = lc.last
<1>1. proc[p] \in TaskOf(lc.made) /\ lc.scope \in Scopes
  BY DEF TypeInv, LifecycleOK, Lifecycle
<1>2. alone \in BOOLEAN /\ synced \in BOOLEAN
  OBVIOUS
<1>3. Called(p, call) = [proc[p] EXCEPT !.call = call, !.calls = proc[p].calls + 1,
                           !.before = lc.scope, !.synced = synced, !.outcome = "none",
                           !.alone = alone]
  BY <1>1 DEF Called, TaskOf
<1> HIDE DEF alone, synced
<1>4. proc[p].calls + 1 \in Nat
  BY <1>1 DEF TaskOf
<1>5. /\ Called(p, call) \in TaskOf(lc.made)
      /\ Called(p, call).call = call /\ Called(p, call).phase = proc[p].phase
      /\ Called(p, call).before = lc.scope /\ Called(p, call).synced = synced
  BY <1>1, <1>2, <1>3, <1>4 DEF TaskOf
<1> QED BY <1>5 DEF synced

LEMMA TypedFacts ==
  ASSUME TypeInv
  PROVE  /\ LifecycleOK(lc) /\ lc.made \in Nat /\ lc \in Lifecycle(lc.made)
         /\ load \in [Exts -> 0 .. MaxLoads] /\ class \in 0 .. MaxLoads /\ MaxLoads \in Nat
         /\ lc.scope \in Scopes /\ lc.given \in Seq(Exts) /\ lc.shared \in BOOLEAN
         /\ \A p \in Procs : proc[p] \in TaskOf(lc.made) /\ Recorded(proc[p])
BY LifecycleAssumption DEF TypeInv, ModulesOK, LifecycleOK, Lifecycle

\* A call that changes the scope and brings the components up to date.
LEMMA SyncsScope ==
  ASSUME TypeInv, NEW p \in Procs, NEW call \in Operations, NEW scope \in Scopes,
         NEW shared \in BOOLEAN, NEW given \in Seq(Exts), class' \in 0 .. MaxLoads,
         NEW l, l = Scoped(lc, scope, shared, given), Sync(p, Called(p, call), l)
  PROVE  Ends(p, Called(p, call), lc)
<1>1. Keeps(lc, l, p) /\ l.made = lc.made
  BY TypedFacts, ScopeKeeps
<1>2. Called(p, call) \in TaskOf(l.made)
  BY <1>1, CalledFacts
<1>3. Ends(p, Called(p, call), l)
  BY <1>1, <1>2, TypedFacts, SyncFacts DEF Keeps
<1> QED BY <1>1, <1>3, TypedFacts, EndsEarlier

LEMMA ImportedFacts ==
  ASSUME TypeInv, NEW x \in Exts, Importable(x), Imported(x)
  PROVE  ModulesOK'
<1>1. load[x] + 1 \in 0 .. MaxLoads /\ (x = Part => class + 1 \in 0 .. MaxLoads)
  BY TypedFacts DEF Importable
<1> QED BY <1>1, TypedFacts DEF Imported, ModulesOK

LEMMA AddFacts ==
  ASSUME TypeInv, NEW p \in Procs, NEW x \in Exts, AddExtension(p, x)
  PROVE  ModulesOK' /\ agent' = agent /\ Ends(p, Called(p, "add"), lc)
<1>1. ModulesOK' /\ agent' = agent
  BY TypedFacts, ImportedFacts DEF AddExtension, ModulesOK
<1> DEFINE s == IF Contains(lc.scope, x) THEN lc.scope ELSE Append(lc.scope, x)
           g == IF lc.shared THEN s ELSE lc.given
           l == Scoped(lc, s, lc.shared, g)
<1>2. s \in Scopes
  <2>1. CASE Contains(lc.scope, x)
    BY <2>1, TypedFacts
  <2>2. CASE ~Contains(lc.scope, x)
    <3>1. lc.scope \in Distinct(Exts) /\ x \notin ToSet(lc.scope)
      BY <2>2, TypedFacts, DistinctFacts DEF Scopes
    <3>2. Append(lc.scope, x) \in Distinct(Exts)
      BY <3>1, DistinctAppend
    <3> QED BY <2>2, <3>2 DEF Scopes
  <2> QED BY <2>1, <2>2
<1>3. Sync(p, Called(p, "add"), l)
  BY TypedFacts DEF AddExtension, Scoped, Lifecycle
<1> HIDE DEF s
<1>4. g \in Seq(Exts)
  BY <1>2, TypedFacts DEF Scopes, Distinct
<1> HIDE DEF g, l
<1>5. class' \in 0 .. MaxLoads /\ "add" \in Operations /\ lc.shared \in BOOLEAN
  BY <1>1, TypedFacts DEF ModulesOK, Operations
<1>6. Ends(p, Called(p, "add"), lc)
  BY <1>2, <1>3, <1>4, <1>5, SyncsScope DEF l
<1> QED BY <1>1, <1>6

\* x leaves the scope, if it was there.
LEMMA RemovesScope ==
  ASSUME NEW scope \in Scopes, NEW x \in Exts
  PROVE  /\ RemoveFirst(scope, x) \in Scopes
         /\ ToSet(RemoveFirst(scope, x)) \subseteq ToSet(scope) \ {x}
<1>1. scope \in Distinct(Exts)
  BY DEF Scopes
<1>2. CASE x \in ToSet(scope)
  <2>1. /\ RemoveFirst(scope, x) \in Distinct(Exts)
        /\ ToSet(RemoveFirst(scope, x)) = ToSet(scope) \ {x}
    BY <1>1, <1>2, DistinctRemove
  <2> QED BY <2>1 DEF Scopes
<1>3. CASE x \notin ToSet(scope)
  <2>1. ~ (\E i \in 1 .. Len(scope) : scope[i] = x)
    BY <1>1, <1>3, DistinctFacts
  <2>2. RemoveFirst(scope, x) = scope
    BY <2>1 DEF RemoveFirst
  <2> QED BY <1>3, <2>2
<1> QED BY <1>2, <1>3

LEMMA RemoveExtensionFacts ==
  ASSUME TypeInv, NEW p \in Procs, NEW x \in Exts, RemoveExtension(p, x)
  PROVE  ModulesOK' /\ agent' = agent /\ Ends(p, Called(p, "remove"), lc)
<1>1. ModulesOK' /\ agent' = agent /\ class' \in 0 .. MaxLoads
  BY TypedFacts DEF RemoveExtension, ModulesOK
<1> DEFINE s == RemoveFirst(lc.scope, x)
           no == FALSE
           l == Scoped(lc, s, no, lc.given)
<1>2. s \in Scopes
  BY TypedFacts, RemovesScope
<1>3. Sync(p, Called(p, "remove"), l)
  BY TypedFacts DEF RemoveExtension, Scoped, Lifecycle
<1>4. no \in BOOLEAN /\ "remove" \in Operations
  BY DEF Operations
<1> HIDE DEF s, no, l
<1>5. Ends(p, Called(p, "remove"), lc)
  BY <1>1, <1>2, <1>3, <1>4, TypedFacts, SyncsScope DEF l
<1> QED BY <1>1, <1>5

LEMMA ReloadFacts ==
  ASSUME TypeInv, NEW p \in Procs, NEW x \in Exts, ReloadExtension(p, x)
  PROVE  ModulesOK' /\ agent' = agent /\ Ends(p, Called(p, "reload"), lc)
<1>1. ModulesOK' /\ agent' = agent /\ class' \in 0 .. MaxLoads
  BY ImportedFacts DEF ReloadExtension, ModulesOK
<1> DEFINE r == RemoveFirst(lc.scope, x)
           s == Append(r, x)
           no == FALSE
           l == Scoped(lc, s, no, lc.given)
<1>2. s \in Scopes
  <2>1. r \in Distinct(Exts) /\ x \notin ToSet(r)
    BY TypedFacts, RemovesScope DEF Scopes
  <2> HIDE DEF r
  <2> QED BY <2>1, DistinctAppend DEF Scopes
<1>3. Sync(p, Called(p, "reload"), l)
  BY TypedFacts DEF ReloadExtension, Scoped, Lifecycle
<1>4. no \in BOOLEAN /\ "reload" \in Operations
  BY DEF Operations
<1> HIDE DEF s, no, l
<1>5. Ends(p, Called(p, "reload"), lc)
  BY <1>1, <1>2, <1>3, <1>4, TypedFacts, SyncsScope DEF l
<1> QED BY <1>1, <1>5

LEMMA ImportFailsFacts ==
  ASSUME TypeInv, NEW p \in Procs, NEW x \in Exts, NEW call \in {"add", "reload"},
         Importable(x), class' \in IF x = Part THEN {class, class + 1} ELSE {class},
         Raise(p, Called(p, call), lc), UNCHANGED <<load, agent>>
  PROVE  ModulesOK' /\ agent' = agent /\ Ends(p, Called(p, call), lc)
<1>1. ModulesOK' /\ agent' = agent
  BY TypedFacts DEF ModulesOK, Importable
<1>2. Called(p, call) \in TaskOf(lc.made)
  BY CalledFacts DEF Operations
<1>3. Ends(p, Called(p, call), lc)
  BY <1>2, TypedFacts, RaiseFacts
<1> QED BY <1>1, <1>3

LEMMA EnsureFacts ==
  ASSUME TypeInv, NEW p \in Procs, Ensure(p)
  PROVE  /\ ModulesOK' /\ agent' = agent /\ lc' = lc /\ Left(p, lc)
         /\ proc'[p].pc = "ready" /\ proc'[p].call = "ensure" /\ proc'[p].phase = proc[p].phase
<1> DEFINE r == Called(p, "ensure")
           s == [r EXCEPT !.pc = "ready"]
<1>1. ModulesOK' /\ agent' = agent /\ lc' = lc /\ Turn(p, s)
  BY TypedFacts DEF Ensure, ModulesOK
<1>2. r \in TaskOf(lc.made) /\ r.call = "ensure" /\ r.phase = proc[p].phase
  BY CalledFacts
<1> HIDE DEF r
<1>3. s \in TaskOf(lc.made) /\ s.pc = "ready" /\ s.call = r.call /\ s.phase = r.phase
  <2>1. "ready" \in Places
    BY DEF Places
  <2> QED BY <1>2, <2>1, TypedFacts, MakesTask
<1> HIDE DEF s
<1>4. proc'[p] = s
  BY <1>1 DEF Turn
<1>5. Left(p, lc)
  BY <1>1, <1>3, <1>4, TypedFacts DEF Left, Recorded
<1> QED BY <1>1, <1>2, <1>3, <1>4, <1>5

LEMMA StopFacts ==
  ASSUME TypeInv, NEW p \in Procs, Stop(p)
  PROVE  /\ ModulesOK' /\ agent' = agent
         /\ Left(p, lc) /\ proc'[p].phase = proc[p].phase /\ proc'[p].call = "stop"
         /\ OnceEach(lc) => OnceEach(lc')
         /\ \/ /\ proc'[p].pc = "stopping" /\ lc'.started = lc.started
               /\ ToStop(lc', p) /\ (AllDown(lc) => AllDown(lc'))
            \/ proc'[p].pc = "draining" /\ ~lc'.started /\ AllDown(lc')
<1> DEFINE r == Called(p, "stop")
           n == Len(lc.children)
           i == [own |-> FALSE, list |-> <<>>, at |-> n]
           l == Looping(lc, p, n)
<1>1. ModulesOK' /\ agent' = agent /\ StopNext(p, r, l)
  BY TypedFacts DEF Stop, ModulesOK
<1>2. /\ r \in TaskOf(lc.made) /\ r.call = "stop" /\ r.phase = proc[p].phase
  BY CalledFacts
<1> HIDE DEF r
<1>3. lc.children \in Lists(lc.made) /\ n \in Nat
  BY TypedFacts, ListFacts DEF Lifecycle
<1>4. i \in Iteration(lc.made)
  <2>1. <<>> \in Lists(lc.made)
    BY DEF Lists, Distinct, IsInjective
  <2> QED BY <1>3, <2>1 DEF Iteration
<1>5. l = Looped(lc, p, i)
  BY DEF Looping, Looped
<1> HIDE DEF i, l
<1>6. /\ Keeps(lc, l, p) /\ l.made = lc.made /\ l.children = lc.children
      /\ l.comp = lc.comp /\ l.iter[p] = i
  BY <1>4, <1>5, TypedFacts, LoopMoves
<1>7. WillStop(l, p)
  <2>1. List(l, p) = lc.children /\ l.iter[p].at = n
    BY <1>6 DEF List, i
  <2>2. \A c \in ToSet(lc.children) : \E j \in 1 .. n : lc.children[j] = c
    BY <1>3, TypedFacts, ListFacts
  <2> QED BY <1>3, <1>6, <2>1, <2>2 DEF WillStop
<1>8. Winds(p, r, l)
  BY <1>1, <1>2, <1>6, StopNextFacts DEF Keeps
<1>9. (OnceEach(lc) => OnceEach(l)) /\ (AllDown(lc) => AllDown(l)) /\ l.started = lc.started
  BY <1>6 DEF Keeps, OnceEach, AllDown
<1>10. Left(p, lc)
  BY <1>6, <1>8 DEF Winds, Left
<1> QED BY <1>1, <1>2, <1>7, <1>8, <1>9, <1>10 DEF Winds

-----------------------------------------------------------------------------
(* What happens at an await                                                *)

LEMMA TakeStartLockFacts ==
  ASSUME TypeInv, NEW p \in Procs, TakeStartLock(p),
         NEW r, r = [proc[p] EXCEPT !.phase = IF agent THEN "refresh" ELSE "start"]
  PROVE  /\ ModulesOK' /\ agent' = agent /\ Ends(p, r, lc)
         /\ r.call = proc[p].call /\ r.phase = IF agent THEN "refresh" ELSE "start"
<1>1. /\ ModulesOK' /\ agent' = agent /\ class' \in 0 .. MaxLoads /\ Sync(p, r, lc)
  BY TypedFacts DEF TakeStartLock, ModulesOK
<1>2. /\ r \in TaskOf(lc.made) /\ r.call = proc[p].call
      /\ r.phase = IF agent THEN "refresh" ELSE "start"
  <2>1. proc[p] \in TaskOf(lc.made)
    BY TypedFacts
  <2> QED BY <2>1 DEF TaskOf, Phases
<1>3. Ends(p, r, lc)
  BY <1>1, <1>2, TypedFacts, SyncFacts
<1> QED BY <1>1, <1>2, <1>3

\* A component of Part that is listed is the one that is registered.
LEMMA RegisteredIsListed ==
  ASSUME NEW l, LifecycleOK(l), NEW c \in ToSet(l.children), c[1] = Part
  PROVE  l.registered # 0 /\ c = <<Part, l.registered>>
<1>1. ToSet(l.children) = Present(l) /\ l.made \in Nat /\ l.registered \in 0 .. l.made
  BY DEF LifecycleOK, Lifecycle
<1> QED BY <1>1, PresentFacts

LEMMA UnregisterFacts ==
  ASSUME TypeInv, NEW p \in Procs, Unregister(p)
  PROVE  ModulesOK' /\ agent' = agent /\ Ends(p, proc[p], lc)
<1> DEFINE child == Head(proc[p].done)
           r == [proc[p] EXCEPT !.done = <<>>]
           m == Removed(lc, child)
<1>1. /\ ModulesOK' /\ agent' = agent
      /\ IF Contains(lc.children, child) THEN Complete(p, r, m) ELSE Raise(p, r, lc)
  BY TypedFacts DEF Unregister, ModulesOK
<1>2. r \in TaskOf(lc.made) /\ r.call = proc[p].call /\ r.phase = proc[p].phase
  <2>1. proc[p] \in TaskOf(lc.made) /\ <<>> \in Seq(Upto(lc.made))
    BY TypedFacts
  <2> QED BY <2>1 DEF TaskOf
<1>3. child[1] = Part
  BY TypedFacts DEF Unregister, At, Recorded
<1>4. Contains(lc.children, child) <=> child \in ToSet(lc.children)
  <2>1. lc.children \in Lists(lc.made) /\ lc.made \in Nat
    BY TypedFacts DEF Lifecycle
  <2> QED BY <2>1, ListFacts
<1> HIDE DEF child, r, m
<1>5. CASE child \in ToSet(lc.children)
  <2>1. lc.registered # 0 /\ child = <<Part, lc.registered>>
    BY <1>3, <1>5, TypedFacts, RegisteredIsListed
  <2>2. Keeps(lc, m, p)
    BY <2>1, TypedFacts, RemovedKeeps DEF m
  <2>3. LifecycleOK(m) /\ r \in TaskOf(m.made)
    BY <1>2, <2>2, TypedFacts, TaskGrows DEF Keeps
  <2>4. Ends(p, r, m)
    BY <1>1, <1>4, <1>5, <2>3, TypedFacts, CompleteFacts
  <2> QED BY <1>1, <1>2, <2>2, <2>4, TypedFacts, EndsEarlier
<1>6. CASE child \notin ToSet(lc.children)
  <2>1. Ends(p, r, lc)
    BY <1>1, <1>2, <1>4, <1>6, TypedFacts, RaiseFacts
  <2>2. Keeps(lc, lc, p)
    BY TypedFacts, KeepsItself
  <2> QED BY <1>1, <1>2, <2>1, <2>2, TypedFacts, EndsEarlier
<1> QED BY <1>5, <1>6

LEMMA ComponentStartsFacts ==
  ASSUME TypeInv, NEW p \in Procs, ComponentStarts(p)
  PROVE  /\ ModulesOK' /\ agent' = agent /\ Goes(p, proc[p], lc)
         /\ OnceEach(lc) /\ ToStart(lc, p) /\ UpIn(lc, proc[p].done) => StartsRight(p)
<1>1. ModulesOK' /\ agent' = agent /\ StartNext(p, proc[p], lc)
  BY TypedFacts DEF ComponentStarts, ModulesOK
<1> QED BY <1>1, TypedFacts, StartNextFacts

LEMMA FrontAndLast ==
  ASSUME NEW S, NEW s \in Seq(S), s # <<>>
  PROVE  /\ Last(s) \in S /\ Front(s) \in Seq(S)
         /\ ToSet(s) = ToSet(Front(s)) \cup {Last(s)}
<1>1. Len(s) \in Nat /\ Len(s) >= 1 /\ DOMAIN s = 1 .. Len(s) /\ s \in [1 .. Len(s) -> S]
  BY EmptySeq
<1>2. /\ Front(s) \in Seq(S) /\ Len(Front(s)) = Len(s) - 1
      /\ \A i \in 1 .. Len(s) - 1 : Front(s)[i] = s[i]
  BY <1>1 DEF Front
<1>3. Last(s) = s[Len(s)] /\ Len(s) \in 1 .. Len(s)
  BY <1>1 DEF Last
<1>4. DOMAIN Front(s) = 1 .. Len(s) - 1
  BY <1>1, <1>2
<1>5. 1 .. Len(s) = (1 .. Len(s) - 1) \cup {Len(s)}
  BY <1>1
<1> QED BY <1>1, <1>2, <1>3, <1>4, <1>5 DEF ToSet

LEMMA RollBackFacts ==
  ASSUME TypeInv, NEW p \in Procs, RollBack(p)
  PROVE  /\ ModulesOK' /\ agent' = agent /\ Left(p, lc)
         /\ proc'[p].pc = "rollback" /\ proc'[p].call = proc[p].call
         /\ proc'[p].phase = proc[p].phase /\ Starting(p)
         /\ Keeps(lc, lc', p)
         /\ UpIn(lc, proc[p].done) => UpIn(lc', proc'[p].done)
<1> DEFINE c == Last(proc[p].done)
           r == [proc[p] EXCEPT !.pc = "rollback", !.done = Front(proc[p].done),
                                !.hand = Last(proc[p].done)]
<1>1. /\ ModulesOK' /\ agent' = agent /\ Starting(p) /\ proc[p].done # <<>>
      /\ lc' = Stopped(lc, c) /\ Turn(p, r)
  <2>1. proc[p] \in TaskOf(lc.made) /\ Recorded(proc[p])
    BY TypedFacts
  <2> QED BY <2>1, TypedFacts DEF RollBack, ModulesOK, At, Starting, Recorded, TaskOf
<1>2. proc[p] \in TaskOf(lc.made) /\ proc[p].done \in Seq(Upto(lc.made))
  BY TypedFacts DEF TaskOf
<1>3. /\ c \in Upto(lc.made) /\ Front(proc[p].done) \in Seq(Upto(lc.made))
      /\ ToSet(proc[p].done) = ToSet(Front(proc[p].done)) \cup {c}
  BY <1>1, <1>2, FrontAndLast
<1>4. /\ r \in TaskOf(lc.made) /\ r.pc = "rollback" /\ r.call = proc[p].call
      /\ r.phase = proc[p].phase /\ r.done = Front(proc[p].done)
  BY <1>2, <1>3 DEF TaskOf, Places
<1> HIDE DEF r, c
<1>5. /\ SameShape(lc, lc')
      /\ \A d \in Upto(lc.made) : lc'.comp[d].up = IF d = c THEN 0 ELSE lc.comp[d].up
  BY <1>1, <1>3, TypedFacts, StoppedFacts
<1>6. Keeps(lc, lc', p) /\ lc'.made = lc.made /\ lc'.children = lc.children
  BY <1>5, TypedFacts, ShapeKeeps DEF SameShape
<1>7. proc'[p] = r
  BY <1>1 DEF Turn
<1>8. Left(p, lc)
  BY <1>1, <1>4, <1>6, <1>7, TypedFacts DEF Left, Keeps, Recorded
<1>9. ASSUME UpIn(lc, proc[p].done) PROVE UpIn(lc', r.done)
  <2> SUFFICES ASSUME NEW d \in ToSet(lc.children), lc'.comp[d].up > 0
               PROVE  d \in ToSet(r.done)
    BY <1>6 DEF UpIn
  <2>1. d \in Upto(lc.made)
    BY TypedFacts, ComponentFacts
  <2>2. d # c /\ lc.comp[d].up > 0
    BY <1>5, <2>1
  <2> QED BY <1>3, <1>4, <1>9, <2>2 DEF UpIn
<1> QED BY <1>1, <1>4, <1>6, <1>7, <1>8, <1>9

LEMMA RolledBackFacts ==
  ASSUME TypeInv, NEW p \in Procs, RolledBack(p)
  PROVE  ModulesOK' /\ agent' = agent /\ Ends(p, proc[p], lc)
<1>1. ModulesOK' /\ agent' = agent /\ Raise(p, proc[p], lc)
  BY TypedFacts DEF RolledBack, ModulesOK
<1> QED BY <1>1, TypedFacts, RaiseFacts

LEMMA RollBackBreaksFacts ==
  ASSUME TypeInv, NEW p \in Procs, RollBackBreaks(p)
  PROVE  /\ ModulesOK' /\ agent' = agent /\ Quiet(p, proc[p], lc)
         /\ proc'[p].pc = "idle"
         /\ UpIn(lc, proc[p].done) => AllDown(lc')
<1> DEFINE m == Abandoned(lc, proc[p].done)
<1>1. ModulesOK' /\ agent' = agent /\ Raise(p, proc[p], m)
  BY TypedFacts DEF RollBackBreaks, ModulesOK
<1>2. /\ SameShape(lc, m) /\ LifecycleOK(lc)
      /\ \A c \in Upto(lc.made) :
           m.comp[c].up = IF c \in ToSet(proc[p].done) THEN 0 ELSE lc.comp[c].up
  BY TypedFacts, AbandonedFacts
<1> HIDE DEF m
<1>3. Keeps(lc, m, p)
  BY <1>2, ShapeKeeps
<1>4. LifecycleOK(m) /\ m.made = lc.made /\ m.children = lc.children /\ m.scope = lc.scope
  BY <1>2 DEF SameShape, Marks
<1>5. proc[p] \in TaskOf(m.made)
  BY <1>4, TypedFacts
<1>6. Ends(p, proc[p], m) /\ Quiet(p, proc[p], m)
  BY <1>1, <1>4, <1>5, RaiseFacts
<1>7. Quiet(p, proc[p], lc)
  BY <1>2, <1>3, <1>6, EndsEarlier
<1>8. ASSUME UpIn(lc, proc[p].done) PROVE AllDown(lc')
  <2>1. ASSUME NEW c \in ToSet(m.children) PROVE ~ (m.comp[c].up > 0)
    <3>1. c \in Upto(lc.made)
      BY <1>4, ComponentFacts
    <3>2. m.comp[c].up = IF c \in ToSet(proc[p].done) THEN 0 ELSE lc.comp[c].up
      BY <1>2, <3>1
    <3>3. c \notin ToSet(proc[p].done) => ~ (lc.comp[c].up > 0)
      BY <1>4, <1>8 DEF UpIn
    <3> QED BY <3>2, <3>3
  <2>2. Keeps(m, lc', p) /\ LifecycleOK(lc')
    BY <1>6 DEF Quiet, Keeps
  <2>3. \A c \in ToSet(lc'.children) : ~ (lc'.comp[c].up > 0)
    BY <2>1, <2>2 DEF Keeps
  <2>4. \A c \in ToSet(lc'.children) : lc'.comp[c].up \in Nat
    BY <2>2, ComponentFacts
  <2> QED BY <2>3, <2>4 DEF AllDown
<1>9. proc'[p].pc = "idle"
  BY <1>1, <1>5 DEF Raise, Ended, Turn, TaskOf
<1> QED BY <1>1, <1>7, <1>8, <1>9

LEMMA HooksEndFacts ==
  ASSUME TypeInv, NEW p \in Procs, HooksEnd(p),
         NEW r, r = [proc[p] EXCEPT !.phase = "refresh"]
  PROVE  /\ ModulesOK' /\ agent' /\ agent' \in BOOLEAN /\ Ends(p, r, lc)
         /\ r.call = proc[p].call /\ r.phase = "refresh"
<1>1. /\ ModulesOK' /\ agent' = TRUE /\ class' \in 0 .. MaxLoads /\ Sync(p, r, lc)
  BY TypedFacts DEF HooksEnd, ModulesOK
<1>2. r \in TaskOf(lc.made) /\ r.call = proc[p].call /\ r.phase = "refresh"
  <2>1. proc[p] \in TaskOf(lc.made)
    BY TypedFacts
  <2> QED BY <2>1 DEF TaskOf, Phases
<1>3. Ends(p, r, lc)
  BY <1>1, <1>2, TypedFacts, SyncFacts
<1> QED BY <1>1, <1>2, <1>3

LEMMA TakeRefreshLockFacts ==
  ASSUME TypeInv, NEW p \in Procs, TakeRefreshLock(p)
  PROVE  ModulesOK' /\ agent' = agent /\ Ends(p, proc[p], lc)
<1> DEFINE b == Rebound(lc, lc.children)
           i == [own |-> FALSE, list |-> <<>>, at |-> 0]
           k == Looping(b, p, 0)
<1>1. /\ ModulesOK' /\ agent' = agent
      /\ IF lc.changed THEN RefreshNext(p, proc[p], k) ELSE Return(p, proc[p], lc)
  BY TypedFacts DEF TakeRefreshLock, ModulesOK
<1> HIDE DEF b
<1>2. Keeps(lc, b, p) /\ b.made = lc.made
  BY TypedFacts, SortKeeps DEF b
<1>3. i \in Iteration(b.made)
  <2>1. <<>> \in Lists(b.made)
    BY DEF Lists, Distinct, IsInjective
  <2> QED BY <2>1 DEF Iteration
<1>4. k = Looped(b, p, i)
  BY DEF Looping, Looped
<1> HIDE DEF i, k
<1>5. Keeps(b, k, p) /\ k.made = b.made
  BY <1>2, <1>3, <1>4, LoopMoves DEF Keeps
<1>6. Keeps(lc, k, p) /\ LifecycleOK(k) /\ k.made = lc.made
  BY <1>2, <1>5, TypedFacts, KeepsTransitive DEF Keeps
<1>7. CASE lc.changed
  <2>1. Ends(p, proc[p], k)
    BY <1>1, <1>6, <1>7, TypedFacts, RefreshNextFacts
  <2> QED BY <1>1, <1>6, <2>1, TypedFacts, EndsEarlier
<1>8. CASE ~lc.changed
  BY <1>1, <1>8, TypedFacts, ReturnFacts
<1> QED BY <1>7, <1>8

LEMMA ComponentRefreshesFacts ==
  ASSUME TypeInv, NEW p \in Procs, ComponentRefreshes(p)
  PROVE  ModulesOK' /\ agent' = agent /\ Ends(p, proc[p], lc)
<1>1. ModulesOK' /\ agent' = agent /\ RefreshNext(p, proc[p], lc)
  BY TypedFacts DEF ComponentRefreshes, ModulesOK
<1> QED BY <1>1, TypedFacts, RefreshNextFacts

LEMMA ComponentStopsFacts ==
  ASSUME TypeInv, NEW p \in Procs, ComponentStops(p)
  PROVE  /\ ModulesOK' /\ agent' = agent
         /\ \/ Raise(p, proc[p], lc) /\ Ends(p, proc[p], lc)
            \/ StopNext(p, proc[p], lc) /\ Winds(p, proc[p], lc)
<1>1. /\ ModulesOK' /\ agent' = agent
      /\ StopNext(p, proc[p], lc) \/ Raise(p, proc[p], lc)
  BY TypedFacts DEF ComponentStops, ModulesOK
<1> QED BY <1>1, TypedFacts, StopNextFacts, RaiseFacts

LEMMA DrainedFacts ==
  ASSUME TypeInv, NEW p \in Procs, Drained(p)
  PROVE  ModulesOK' /\ ~agent' /\ agent' \in BOOLEAN /\ Ends(p, proc[p], lc)
<1>1. ModulesOK' /\ agent' = FALSE /\ Return(p, proc[p], lc)
  BY TypedFacts DEF Drained, ModulesOK
<1> QED BY <1>1, TypedFacts, ReturnFacts

LEMMA FailsFacts ==
  ASSUME TypeInv, NEW p \in Procs, Fails(p)
  PROVE  ModulesOK' /\ agent' = agent /\ Ends(p, proc[p], lc)
<1>1. ModulesOK' /\ agent' = agent /\ Raise(p, proc[p], lc)
  BY TypedFacts DEF Fails, ModulesOK
<1> QED BY <1>1, TypedFacts, RaiseFacts

-----------------------------------------------------------------------------
(* The types are kept                                                      *)

LEMMA OthersStay ==
  ASSUME TypeInv, NEW p \in Procs, Left(p, lc), NEW q \in Procs \ {p}
  PROVE  /\ proc'[q] \in TaskOf(lc'.made) /\ Recorded(proc'[q])
         /\ proc'[q].pc = proc[q].pc /\ proc'[q].call = proc[q].call
         /\ proc'[q].phase = proc[q].phase /\ proc'[q].done = proc[q].done
<1>1. proc'[q] = [proc[q] EXCEPT !.alone = FALSE]
  BY DEF Left, Turn
<1>2. proc[q] \in TaskOf(lc.made) /\ Recorded(proc[q])
  BY TypedFacts
<1>3. /\ proc'[q] \in TaskOf(lc.made)
      /\ proc'[q].pc = proc[q].pc /\ proc'[q].call = proc[q].call
      /\ proc'[q].phase = proc[q].phase /\ proc'[q].done = proc[q].done
  BY <1>1, <1>2 DEF TaskOf
<1>4. Seq(Upto(lc.made)) \subseteq Seq(Upto(lc'.made))
  <2>1. lc.made \in Nat /\ lc'.made \in Nat /\ lc.made <= lc'.made
    BY TypedFacts DEF Left, LifecycleOK
  <2> QED BY <2>1, UptoGrows, SeqMonotonic
<1>5. Upto(lc.made) \subseteq Upto(lc'.made)
  BY TypedFacts, UptoGrows DEF Left, LifecycleOK
<1> QED BY <1>2, <1>3, <1>4, <1>5 DEF TaskOf, Recorded

LEMMA LeftTyped ==
  ASSUME TypeInv, NEW p \in Procs, Left(p, lc), ModulesOK', agent' \in BOOLEAN
  PROVE  TypeInv'
<1>1. \A q \in Procs : proc'[q] \in TaskOf(lc'.made) /\ Recorded(proc'[q])
  BY OthersStay DEF Left
<1>2. proc' \in [Procs -> TaskOf(lc'.made)]
  BY <1>1 DEF Left, Turn
<1> QED BY <1>1, <1>2 DEF TypeInv, Left

LEMMA EndsLeft ==
  ASSUME NEW p, NEW r, NEW l, Ends(p, r, l)
  PROVE  Left(p, l)
BY DEF Ends, Quiet, Begun, Goes

LEMMA TypeStep ==
  ASSUME TypeInv, [Next]_vars
  PROVE  TypeInv'
<1>1. CASE UNCHANGED vars
  BY <1>1 DEF vars, TypeInv, ModulesOK
<1> SUFFICES ASSUME NEW p \in Procs, Begin(p) \/ Proceed(p)
             PROVE  Left(p, lc) /\ ModulesOK' /\ agent' \in BOOLEAN
  BY <1>1, LeftTyped DEF Next
<1>2. agent \in BOOLEAN
  BY DEF TypeInv
<1>3. CASE Ensure(p)
  BY <1>2, <1>3, EnsureFacts
<1>4. CASE Stop(p)
  BY <1>2, <1>4, StopFacts
<1>5. ASSUME NEW x \in Exts, AddExtension(p, x) PROVE Left(p, lc) /\ ModulesOK' /\ agent' \in BOOLEAN
  BY <1>2, <1>5, AddFacts, EndsLeft
<1>6. ASSUME NEW x \in Exts, RemoveExtension(p, x) PROVE Left(p, lc) /\ ModulesOK' /\ agent' \in BOOLEAN
  BY <1>2, <1>6, RemoveExtensionFacts, EndsLeft
<1>7. ASSUME NEW x \in Exts, ReloadExtension(p, x) PROVE Left(p, lc) /\ ModulesOK' /\ agent' \in BOOLEAN
  BY <1>2, <1>7, ReloadFacts, EndsLeft
<1>8. ASSUME NEW x \in Exts, ImportFails(p, x) PROVE Left(p, lc) /\ ModulesOK' /\ agent' \in BOOLEAN
  BY <1>2, <1>8, ImportFailsFacts, EndsLeft DEF ImportFails
<1>9. CASE TakeStartLock(p)
  BY <1>2, <1>9, TakeStartLockFacts, EndsLeft
<1>10. CASE Unregister(p)
  BY <1>2, <1>10, UnregisterFacts, EndsLeft
<1>11. CASE ComponentStarts(p)
  BY <1>2, <1>11, ComponentStartsFacts DEF Goes
<1>12. CASE RollBack(p)
  BY <1>2, <1>12, RollBackFacts
<1>13. CASE RolledBack(p)
  BY <1>2, <1>13, RolledBackFacts, EndsLeft
<1>14. CASE HooksEnd(p)
  BY <1>14, HooksEndFacts, EndsLeft
<1>15. CASE TakeRefreshLock(p)
  BY <1>2, <1>15, TakeRefreshLockFacts, EndsLeft
<1>16. CASE ComponentRefreshes(p)
  BY <1>2, <1>16, ComponentRefreshesFacts, EndsLeft
<1>17. CASE ComponentStops(p)
  BY <1>2, <1>17, ComponentStopsFacts, EndsLeft DEF Winds
<1>18. CASE Drained(p)
  BY <1>18, DrainedFacts, EndsLeft
<1>19. CASE Fails(p)
  BY <1>2, <1>19, FailsFacts, EndsLeft
<1>22. CASE RollBackBreaks(p)
  BY <1>2, <1>22, RollBackBreaksFacts DEF Quiet
<1>20. CASE Begin(p)
  BY <1>3, <1>4, <1>5, <1>6, <1>7, <1>8, <1>20 DEF Begin
<1>21. CASE Proceed(p)
  BY <1>9, <1>10, <1>11, <1>12, <1>13, <1>14, <1>15, <1>16, <1>17, <1>18, <1>19, <1>21, <1>22
     DEF Proceed
<1> QED BY <1>20, <1>21

-----------------------------------------------------------------------------
(* One task at a time starts the agent, and what it starts is down         *)

LEMMA ExclusionStep ==
  ASSUME TypeInv, Exclusion, NEW p \in Procs, Left(p, lc),
         HasStartLock(p)' => \A q \in Procs \ {p} : ~HasStartLock(q),
         proc'[p].phase # "none" => HasStartLock(p)',
         proc'[p].pc = "ready" => proc'[p].call = "ensure",
         proc'[p].pc \in {"starting", "rollback", "hook"} => proc'[p].phase = "start",
         proc'[p].phase = "start" => ~agent',
         proc'[p].pc \in {"starting", "rollback"} => ~lc'.started,
         proc'[p].pc \in {"stopping", "draining"} => agent' /\ "stop" \in Calls[p],
         \A q \in Procs \ {p} : (StartsAgent(q) => ~agent') /\ (Stopping(q) => agent')
                                /\ (Starting(q) => ~lc'.started)
  PROVE  Exclusion'
<1>1. ASSUME NEW q \in Procs \ {p}
      PROVE  /\ HasStartLock(q)' <=> HasStartLock(q)
             /\ proc'[q].pc = proc[q].pc /\ proc'[q].call = proc[q].call
             /\ proc'[q].phase = proc[q].phase
  BY OthersStay DEF HasStartLock
<1>2. ASSUME NEW a \in Procs, NEW b \in Procs, HasStartLock(a)', HasStartLock(b)' PROVE a = b
  BY <1>1, <1>2 DEF Exclusion
<1>3. ASSUME NEW q \in Procs
      PROVE  /\ proc'[q].phase # "none" => HasStartLock(q)'
             /\ At(q, "ready")' => proc'[q].call = "ensure"
             /\ Starting(q)' \/ At(q, "hook")' => StartsAgent(q)'
             /\ StartsAgent(q)' => ~agent'
             /\ Starting(q)' => ~lc'.started
             /\ Stopping(q)' => agent' /\ "stop" \in Calls[q]
  <2>1. CASE q = p
    BY <2>1 DEF Starting, Stopping, StartsAgent, At
  <2>2. CASE q # p
    BY <1>1, <2>2 DEF Exclusion, Starting, Stopping, StartsAgent, At
  <2> QED BY <2>1, <2>2
<1> QED BY <1>2, <1>3 DEF Exclusion

LEMMA EndsExclusive ==
  ASSUME TypeInv, Exclusion, NEW p \in Procs, NEW r, Ends(p, r, lc),
         r.phase # "none" => r.call = "ensure",
         r.call = "ensure" => \A q \in Procs \ {p} : ~HasStartLock(q),
         r.phase = "start" => ~agent',
         \A q \in Procs \ {p} : (StartsAgent(q) => ~agent') /\ (Stopping(q) => agent')
  PROVE  Exclusion'
<1>1. /\ HasStartLock(p)' => \A q \in Procs \ {p} : ~HasStartLock(q)
      /\ proc'[p].phase # "none" => HasStartLock(p)'
      /\ proc'[p].pc \in {"starting", "rollback", "hook"} => proc'[p].phase = "start"
      /\ proc'[p].phase = "start" => ~agent'
      /\ proc'[p].pc \in {"starting", "rollback"} => ~lc'.started
      /\ proc'[p].pc \notin {"ready", "stopping", "draining"}
  <2>1. CASE Quiet(p, r, lc)
    BY <2>1 DEF Quiet, HasStartLock
  <2>2. CASE Begun(p, r, lc)
    BY <2>2 DEF Begun, Goes, HasStartLock
  <2> QED BY <2>1, <2>2 DEF Ends
<1>2. ASSUME NEW q \in Procs \ {p}, Starting(q)
      PROVE  ~lc'.started
  <2>1. HasStartLock(q) /\ ~lc.started
    BY <1>2 DEF Exclusion, StartsAgent
  <2>2. CASE Quiet(p, r, lc)
    BY <2>1, <2>2 DEF Quiet, Keeps
  <2>3. CASE Begun(p, r, lc)
    BY <2>1, <2>3 DEF Begun, Goes
  <2> QED BY <2>2, <2>3 DEF Ends
<1>3. Left(p, lc)
  BY EndsLeft
<1> QED BY <1>1, <1>2, <1>3, ExclusionStep

LEMMA EndsRight ==
  ASSUME TypeInv, Exclusion, Startup, NEW p \in Procs, NEW r, Ends(p, r, lc),
         Starting(p) => AllDown(lc) \/ (Quiet(p, r, lc) /\ ~Begun(p, r, lc) /\ AllDown(lc')),
         r.phase = "start" => ~agent /\ \A q \in Procs \ {p} : ~HasStartLock(q)
  PROVE  Startup'
<1>1. ASSUME NEW q \in Procs \ {p}
      PROVE  proc'[q].pc = proc[q].pc /\ proc'[q].done = proc[q].done
  BY OthersStay, EndsLeft
<1>2. CASE Quiet(p, r, lc)
  <2>1. /\ Keeps(lc, lc', p)
        /\ proc'[p].pc \notin {"starting", "rollback", "stopping"}
    BY <1>2 DEF Quiet
  <2>2. OnceEach(lc')
    BY <2>1 DEF Startup, Keeps
  <2>3. ASSUME ~lc'.started, \A q \in Procs : ~Starting(q)' PROVE AllDown(lc')
    <3>1. ~lc.started /\ \A q \in Procs \ {p} : ~Starting(q)
      BY <1>1, <2>1, <2>3 DEF Starting, Keeps
    <3>2. CASE AllDown(lc')
      BY <3>2
    <3> SUFFICES ASSUME ~AllDown(lc') PROVE AllDown(lc')
      BY <3>2
    <3>5. AllDown(lc)
      BY <3>1 DEF Startup
    <3>3. \A c \in ToSet(lc'.children) : lc'.comp[c].up \in Nat
      BY <2>1, ComponentFacts DEF Keeps
    <3>4. \A c \in ToSet(lc'.children) : ~ (lc'.comp[c].up > 0)
      BY <2>1, <3>5 DEF Keeps, AllDown
    <3> QED BY <3>3, <3>4 DEF AllDown
  <2>4. ASSUME NEW q \in Procs
        PROVE  /\ Starting(q)' => UpIn(lc', proc'[q].done)
               /\ At(q, "starting")' => ToStart(lc', q)
               /\ At(q, "stopping")' => ToStop(lc', q)
    <3>1. CASE q = p
      BY <2>1, <3>1 DEF Starting, At
    <3>2. CASE q # p
      <4>1. UpIn(lc, proc[q].done) => UpIn(lc', proc'[q].done)
        BY <1>1, <2>1, <3>2 DEF UpIn, Keeps
      <4> QED BY <1>1, <2>1, <3>2, <4>1 DEF Starting, At, Startup, Keeps
    <3> QED BY <3>1, <3>2
  <2> QED BY <2>2, <2>3, <2>4 DEF Startup
<1>3. CASE Begun(p, r, lc)
  <2>1. \A q \in Procs \ {p} : ~Starting(q) /\ ~Stopping(q)
    BY <1>3 DEF Begun, Exclusion, StartsAgent
  <2>2. OnceEach(lc) /\ AllDown(lc)
    BY <1>3, <2>1 DEF Begun, Startup
  <2>3. /\ OnceEach(lc')
        /\ \/ /\ proc'[p].pc = "starting" /\ ToStart(lc', p) /\ UpIn(lc', proc'[p].done)
           \/ proc'[p].pc = "hook" /\ lc'.started
    BY <1>3, <2>2 DEF Begun, Goes, StartsRight
  <2>4. \A q \in Procs \ {p} : proc'[q].pc \notin {"starting", "rollback", "stopping"}
    BY <1>1, <2>1 DEF Starting, Stopping
  <2> QED BY <2>3, <2>4 DEF Startup, Starting, At
<1> QED BY <1>2, <1>3 DEF Ends

\* A stretch of a task that has the start lock already, or neither has it nor
\* gets it.
LEMMA EndsSafe ==
  ASSUME IInv, NEW p \in Procs, NEW r, Ends(p, r, lc), agent' = agent,
         r.phase # "none" => r.phase = proc[p].phase /\ r.call = "ensure",
         r.call = "ensure" => HasStartLock(p),
         Starting(p) => AllDown(lc) \/ (Quiet(p, r, lc) /\ ~Begun(p, r, lc) /\ AllDown(lc'))
  PROVE  Exclusion' /\ Startup'
<1>1. r.call = "ensure" => \A q \in Procs \ {p} : ~HasStartLock(q)
  BY DEF IInv, Exclusion
<1>2. r.phase = "start" => ~agent
  BY DEF IInv, Exclusion, StartsAgent
<1>3. \A q \in Procs \ {p} : (StartsAgent(q) => ~agent') /\ (Stopping(q) => agent')
  BY DEF IInv, Exclusion
<1>4. Exclusion'
  BY <1>1, <1>2, <1>3, EndsExclusive DEF IInv
<1>5. Startup'
  BY <1>1, <1>2, EndsRight DEF IInv
<1> QED BY <1>4, <1>5

LEMMA OutsideFacts ==
  ASSUME IInv, NEW p \in Procs, At(p, "idle")
  PROVE  proc[p].phase = "none" /\ ~Starting(p)
BY DEF IInv, Exclusion, HasStartLock, At, Starting

LEMMA OperationSafe ==
  ASSUME IInv, NEW p \in Procs, NEW call \in Operations, At(p, "idle"),
         Ends(p, Called(p, call), lc), agent' = agent
  PROVE  Exclusion' /\ Startup'
<1>1. Called(p, call).call = call /\ Called(p, call).phase = "none"
  BY OutsideFacts, CalledFacts DEF IInv
<1>2. call # "ensure"
  BY DEF Operations
<1> QED BY <1>1, <1>2, OutsideFacts, EndsSafe

LEMMA EnsureSafe ==
  ASSUME IInv, NEW p \in Procs, Ensure(p)
  PROVE  Exclusion' /\ Startup'
<1>1. /\ agent' = agent /\ lc' = lc /\ Left(p, lc)
      /\ proc'[p].pc = "ready" /\ proc'[p].call = "ensure" /\ proc'[p].phase = "none"
  BY EnsureFacts, OutsideFacts DEF IInv, Ensure, Begins
<1>2. ASSUME NEW q \in Procs \ {p}
      PROVE  proc'[q].pc = proc[q].pc /\ proc'[q].done = proc[q].done
  BY <1>1, OthersStay DEF IInv
<1>3. Exclusion'
  BY <1>1, ExclusionStep DEF IInv, Exclusion, HasStartLock
<1>4. Startup'
  <2>1. \A q \in Procs : Starting(q)' <=> Starting(q)
    BY <1>1, <1>2, OutsideFacts DEF Starting, Ensure, Begins
  <2>2. ASSUME NEW q \in Procs
        PROVE  /\ Starting(q)' => UpIn(lc', proc'[q].done)
               /\ At(q, "starting")' => ToStart(lc', q)
               /\ At(q, "stopping")' => ToStop(lc', q)
    <3>1. CASE q = p
      BY <1>1, <3>1 DEF Starting, At
    <3>2. CASE q # p
      BY <1>1, <1>2, <3>2 DEF IInv, Startup, Starting, At
    <3> QED BY <3>1, <3>2
  <2> QED BY <1>1, <2>1, <2>2 DEF IInv, Startup
<1> QED BY <1>3, <1>4

\* The agent is started, so nobody is starting it; p alone stops it.
LEMMA WindsSafe ==
  ASSUME IInv, OneStopper, NEW p \in Procs, Left(p, lc), agent, agent' = agent,
         "stop" \in Calls[p],
         \/ At(p, "idle") /\ proc'[p].call = "stop"
         \/ Stopping(p) /\ proc'[p].call = proc[p].call,
         proc'[p].phase = proc[p].phase,
         OnceEach(lc) => OnceEach(lc'),
         \/ /\ proc'[p].pc = "stopping" /\ lc'.started = lc.started
            /\ ToStop(lc', p) /\ (AllDown(lc) => AllDown(lc'))
         \/ proc'[p].pc = "draining" /\ ~lc'.started /\ AllDown(lc')
  PROVE  Exclusion' /\ Startup'
<1>1. \A q \in Procs : ~Starting(q) /\ ~StartsAgent(q) /\ (Stopping(q) => q = p)
  BY DEF IInv, Exclusion, OneStopper
<1>2. ASSUME NEW q \in Procs \ {p} PROVE proc'[q].pc = proc[q].pc
  BY OthersStay DEF IInv
<1>3. Exclusion'
  <2>1. /\ proc[p].phase # "none" => HasStartLock(p)
        /\ HasStartLock(p) => \A q \in Procs \ {p} : ~HasStartLock(q)
    BY DEF IInv, Exclusion
  <2>2. /\ proc'[p].phase # "none" => HasStartLock(p)'
        /\ HasStartLock(p)' => HasStartLock(p)
    <3>1. CASE At(p, "idle") /\ proc'[p].call = "stop"
      BY <3>1, OutsideFacts DEF HasStartLock
    <3>2. CASE Stopping(p) /\ proc'[p].call = proc[p].call
      BY <2>1, <3>2 DEF HasStartLock, Stopping
    <3> QED BY <3>1, <3>2
  <2>3. proc'[p].phase # "start"
    BY <1>1 DEF StartsAgent
  <2>4. proc'[p].pc \in {"stopping", "draining"}
    OBVIOUS
  <2>5. \A q \in Procs \ {p} : ~StartsAgent(q) /\ ~Stopping(q) /\ ~Starting(q)
    BY <1>1
  <2> QED BY <2>1, <2>2, <2>3, <2>4, <2>5, ExclusionStep DEF IInv
<1>4. Startup'
  <2>1. \A q \in Procs : ~Starting(q)'
    BY <1>1, <1>2 DEF Starting
  <2>2. \A q \in Procs : At(q, "stopping")' => q = p
    BY <1>1, <1>2 DEF At, Stopping
  <2>3. ~lc.started => AllDown(lc)
    BY <1>1 DEF IInv, Startup
  <2>4. ~lc'.started => AllDown(lc')
    BY <2>3
  <2>5. \A q \in Procs : ~At(q, "starting")'
    BY <2>1 DEF Starting, At
  <2>6. OnceEach(lc')
    BY DEF IInv, Startup
  <2> QED BY <2>1, <2>2, <2>4, <2>5, <2>6 DEF Startup, At
<1> QED BY <1>3, <1>4

LEMMA StopSafe ==
  ASSUME IInv, OneStopper, NEW p \in Procs, Stop(p)
  PROVE  Exclusion' /\ Startup'
<1>1. agent /\ At(p, "idle") /\ "stop" \in Calls[p]
  BY DEF Stop, Begins
<1>2. /\ agent' = agent /\ Left(p, lc) /\ proc'[p].phase = proc[p].phase
      /\ proc'[p].call = "stop" /\ (OnceEach(lc) => OnceEach(lc'))
      /\ \/ /\ proc'[p].pc = "stopping" /\ lc'.started = lc.started
            /\ ToStop(lc', p) /\ (AllDown(lc) => AllDown(lc'))
         \/ proc'[p].pc = "draining" /\ ~lc'.started /\ AllDown(lc')
  BY StopFacts DEF IInv
<1> QED BY <1>1, <1>2, WindsSafe

\* A task that is starting components is the one that has the start lock, and
\* the agent is not started.
LEMMA StarterFacts ==
  ASSUME IInv, NEW p \in Procs, Starting(p)
  PROVE  /\ HasStartLock(p) /\ StartsAgent(p) /\ ~agent /\ ~lc.started
         /\ UpIn(lc, proc[p].done)
         /\ \A q \in Procs \ {p} : /\ ~HasStartLock(q) /\ ~StartsAgent(q)
                                   /\ ~Starting(q) /\ ~Stopping(q)
<1>1. StartsAgent(p) /\ HasStartLock(p) /\ ~agent /\ ~lc.started /\ UpIn(lc, proc[p].done)
  BY DEF IInv, Exclusion, Startup, StartsAgent
<1>2. ASSUME NEW q \in Procs \ {p}
      PROVE  ~HasStartLock(q) /\ ~StartsAgent(q) /\ ~Starting(q) /\ ~Stopping(q)
  BY <1>1 DEF IInv, Exclusion, StartsAgent
<1> QED BY <1>1, <1>2

LEMMA StarterSafe ==
  ASSUME IInv, NEW p \in Procs, Starting(p), Left(p, lc), agent' = agent,
         proc'[p].call = proc[p].call, proc'[p].phase = proc[p].phase, OnceEach(lc'),
         \/ /\ proc'[p].pc \in {"starting", "rollback"} /\ lc'.started = lc.started
            /\ UpIn(lc', proc'[p].done)
            /\ proc'[p].pc = "starting" => ToStart(lc', p)
         \/ proc'[p].pc = "hook" /\ lc'.started
  PROVE  Exclusion' /\ Startup'
<1>1. /\ HasStartLock(p) /\ proc'[p].phase = "start" /\ ~agent'
      /\ proc'[p].pc \in {"starting", "rollback"} => ~lc'.started
      /\ \A q \in Procs \ {p} : /\ ~HasStartLock(q) /\ ~StartsAgent(q)
                                /\ ~Starting(q) /\ ~Stopping(q)
  BY StarterFacts DEF StartsAgent
<1>2. proc'[p].pc \in {"starting", "rollback", "hook"}
  OBVIOUS
<1>3. HasStartLock(p)'
  BY <1>1, <1>2 DEF HasStartLock
<1>4. Exclusion'
  BY <1>1, <1>2, <1>3, ExclusionStep DEF IInv
<1>5. \A q \in Procs \ {p} : proc'[q].pc \notin {"starting", "rollback", "stopping"}
  BY <1>1, OthersStay DEF IInv, Starting, Stopping
<1>6. Startup'
  <2>1. \A q \in Procs : /\ Starting(q)' => UpIn(lc', proc'[q].done)
                         /\ At(q, "starting")' => ToStart(lc', q)
                         /\ At(q, "stopping")' => ToStop(lc', q)
    BY <1>2, <1>5 DEF Starting, At
  <2>2. ~lc'.started => Starting(p)'
    BY <1>2 DEF Starting
  <2> QED BY <2>1, <2>2 DEF Startup
<1> QED BY <1>4, <1>6

LEMMA ComponentStartsSafe ==
  ASSUME IInv, NEW p \in Procs, ComponentStarts(p)
  PROVE  Exclusion' /\ Startup'
<1>1. At(p, "starting") /\ Starting(p)
  BY DEF ComponentStarts, At, Starting
<1>2. OnceEach(lc) /\ ToStart(lc, p) /\ UpIn(lc, proc[p].done)
  BY <1>1 DEF IInv, Startup
<1>3. agent' = agent /\ Goes(p, proc[p], lc) /\ StartsRight(p)
  BY <1>2, ComponentStartsFacts DEF IInv
<1> QED BY <1>1, <1>3, StarterSafe DEF Goes, StartsRight

LEMMA RollBackSafe ==
  ASSUME IInv, NEW p \in Procs, RollBack(p)
  PROVE  Exclusion' /\ Startup'
<1>1. /\ agent' = agent /\ Left(p, lc) /\ proc'[p].pc = "rollback"
      /\ proc'[p].call = proc[p].call /\ proc'[p].phase = proc[p].phase
      /\ Starting(p) /\ Keeps(lc, lc', p)
      /\ UpIn(lc, proc[p].done) => UpIn(lc', proc'[p].done)
  BY RollBackFacts DEF IInv
<1>2. OnceEach(lc') /\ lc'.started = lc.started
  BY <1>1 DEF IInv, Startup, Keeps
<1>3. UpIn(lc', proc'[p].done)
  BY <1>1, StarterFacts
<1> QED BY <1>1, <1>2, <1>3, StarterSafe

\* A call that goes on with the record it has, outside the start of components.
LEMMA GoesOnSafe ==
  ASSUME IInv, NEW p \in Procs, Ends(p, proc[p], lc), agent' = agent,
         proc[p].pc \notin {"idle", "ready"},
         Starting(p) => \/ AllDown(lc)
                        \/ Quiet(p, proc[p], lc) /\ ~Begun(p, proc[p], lc) /\ AllDown(lc')
  PROVE  Exclusion' /\ Startup'
<1>1. proc[p].call = "ensure" => HasStartLock(p)
  BY DEF HasStartLock
<1>2. proc[p].phase # "none" => proc[p].call = "ensure"
  BY DEF IInv, Exclusion, HasStartLock
<1> QED BY <1>1, <1>2, EndsSafe

LEMMA ComponentStopsSafe ==
  ASSUME IInv, OneStopper, NEW p \in Procs, ComponentStops(p)
  PROVE  Exclusion' /\ Startup'
<1>7. CASE agent' = agent /\ Ends(p, proc[p], lc)
  BY <1>7, GoesOnSafe DEF ComponentStops, At, Starting
<1> SUFFICES ASSUME agent' = agent, Winds(p, proc[p], lc)
             PROVE  Exclusion' /\ Startup'
  BY <1>7, ComponentStopsFacts DEF IInv
<1>1. agent' = agent /\ Winds(p, proc[p], lc)
  OBVIOUS
<1>2. At(p, "stopping") /\ Stopping(p)
  BY DEF ComponentStops, At, Stopping
<1>3. agent /\ "stop" \in Calls[p]
  BY <1>2 DEF IInv, Exclusion
<1>4. WillStop(lc, p)
  BY <1>2 DEF IInv, Startup, ToStop, WillStop
<1>5. \/ /\ proc'[p].pc = "stopping" /\ lc'.started = lc.started
         /\ ToStop(lc', p) /\ (AllDown(lc) => AllDown(lc'))
      \/ proc'[p].pc = "draining" /\ ~lc'.started /\ AllDown(lc')
  BY <1>1, <1>4 DEF Winds
<1>6. /\ Left(p, lc) /\ proc'[p].phase = proc[p].phase
      /\ proc'[p].call = proc[p].call /\ (OnceEach(lc) => OnceEach(lc'))
  BY <1>1 DEF Winds
<1> QED BY <1>1, <1>2, <1>3, <1>5, <1>6, WindsSafe

LEMMA RollBackBreaksSafe ==
  ASSUME IInv, NEW p \in Procs, RollBackBreaks(p)
  PROVE  Exclusion' /\ Startup'
<1>1. At(p, "rollback") /\ Starting(p)
  BY DEF RollBackBreaks, At, Starting
<1>2. agent' = agent /\ Quiet(p, proc[p], lc) /\ AllDown(lc') /\ proc'[p].pc = "idle"
  BY <1>1, RollBackBreaksFacts, StarterFacts DEF IInv
<1>3. Ends(p, proc[p], lc) /\ ~Begun(p, proc[p], lc)
  BY <1>2 DEF Ends, Quiet, Begun, Goes
<1> QED BY <1>1, <1>2, <1>3, GoesOnSafe DEF At

LEMMA RolledBackSafe ==
  ASSUME IInv, NEW p \in Procs, RolledBack(p)
  PROVE  Exclusion' /\ Startup'
<1>1. agent' = agent /\ Ends(p, proc[p], lc)
  BY RolledBackFacts DEF IInv
<1>2. At(p, "rollback") /\ proc[p].done = <<>>
  BY DEF RolledBack
<1>3. AllDown(lc)
  <2>1. UpIn(lc, <<>>)
    BY <1>2, StarterFacts DEF At, Starting
  <2>2. ToSet(<<>>) = {}
    BY DEF ToSet
  <2>3. \A c \in ToSet(lc.children) : lc.comp[c].up \in Nat
    BY TypedFacts, ComponentFacts DEF IInv
  <2> QED BY <2>1, <2>2, <2>3 DEF UpIn, AllDown
<1> QED BY <1>1, <1>2, <1>3, GoesOnSafe DEF At

LEMMA TakeStartLockSafe ==
  ASSUME IInv, NEW p \in Procs, TakeStartLock(p)
  PROVE  Exclusion' /\ Startup'
<1> DEFINE r == [proc[p] EXCEPT !.phase = IF agent THEN "refresh" ELSE "start"]
<1>1. /\ agent' = agent /\ Ends(p, r, lc) /\ r.call = proc[p].call
      /\ r.phase = IF agent THEN "refresh" ELSE "start"
  BY TakeStartLockFacts DEF IInv
<1> HIDE DEF r
<1>2. At(p, "ready") /\ \A q \in Procs : ~HasStartLock(q)
  BY DEF TakeStartLock
<1>3. r.call = "ensure"
  BY <1>1, <1>2 DEF IInv, Exclusion
<1>4. \A q \in Procs \ {p} : (StartsAgent(q) => ~agent') /\ (Stopping(q) => agent')
  BY <1>1 DEF IInv, Exclusion
<1>5. ~Starting(p)
  BY <1>2 DEF At, Starting
<1>6. Exclusion'
  BY <1>1, <1>2, <1>3, <1>4, EndsExclusive DEF IInv
<1>7. Startup'
  BY <1>1, <1>2, <1>5, EndsRight DEF IInv
<1> QED BY <1>6, <1>7

LEMMA HooksEndSafe ==
  ASSUME IInv, NEW p \in Procs, HooksEnd(p)
  PROVE  Exclusion' /\ Startup'
<1> DEFINE r == [proc[p] EXCEPT !.phase = "refresh"]
<1>1. agent' /\ Ends(p, r, lc) /\ r.call = proc[p].call /\ r.phase = "refresh"
  BY HooksEndFacts DEF IInv
<1> HIDE DEF r
<1>2. At(p, "hook") /\ HasStartLock(p)
  BY DEF HooksEnd, IInv, Exclusion, StartsAgent
<1>3. r.call = "ensure" /\ \A q \in Procs \ {p} : ~HasStartLock(q) /\ ~StartsAgent(q)
  BY <1>1, <1>2 DEF HasStartLock, IInv, Exclusion, StartsAgent
<1>4. ~Starting(p)
  BY <1>2 DEF At, Starting
<1>5. Exclusion'
  BY <1>1, <1>3, EndsExclusive DEF IInv
<1>6. Startup'
  BY <1>1, <1>4, EndsRight DEF IInv
<1> QED BY <1>5, <1>6

LEMMA DrainedSafe ==
  ASSUME IInv, OneStopper, NEW p \in Procs, Drained(p)
  PROVE  Exclusion' /\ Startup'
<1>1. ~agent' /\ Ends(p, proc[p], lc)
  BY DrainedFacts DEF IInv
<1>2. At(p, "draining") /\ Stopping(p) /\ ~Starting(p)
  BY DEF Drained, At, Stopping, Starting
<1>3. agent /\ "stop" \in Calls[p] /\ \A q \in Procs \ {p} : ~Stopping(q)
  BY <1>2 DEF IInv, Exclusion, OneStopper
<1>4. proc[p].call = "ensure" => HasStartLock(p)
  BY <1>2 DEF HasStartLock, At
<1>5. proc[p].phase # "none" => proc[p].call = "ensure"
  BY DEF IInv, Exclusion, HasStartLock
<1>6. HasStartLock(p) => \A q \in Procs \ {p} : ~HasStartLock(q)
  BY DEF IInv, Exclusion
<1>7. ~StartsAgent(p)
  BY <1>3 DEF IInv, Exclusion
<1>8. Exclusion'
  BY <1>1, <1>3, <1>4, <1>5, <1>6, EndsExclusive DEF IInv
<1>9. Startup'
  BY <1>1, <1>2, <1>7, EndsRight DEF IInv, StartsAgent
<1> QED BY <1>8, <1>9

LEMMA SafeStep ==
  ASSUME IInv, OneStopper, [Next]_vars
  PROVE  IInv'
<1>1. CASE UNCHANGED vars
  BY <1>1 DEF vars, IInv, TypeInv, ModulesOK, Exclusion, Startup, HasStartLock, Starting,
              Stopping, StartsAgent, At
<1>2. TypeInv'
  BY TypeStep DEF IInv
<1> SUFFICES ASSUME NEW p \in Procs, Begin(p) \/ Proceed(p)
             PROVE  Exclusion' /\ Startup'
  BY <1>1, <1>2 DEF Next, IInv
<1>3. TypeInv
  BY DEF IInv
<1>4. CASE Ensure(p)
  BY <1>4, EnsureSafe
<1>5. CASE Stop(p)
  BY <1>5, StopSafe
<1>6. ASSUME NEW x \in Exts, AddExtension(p, x) PROVE Exclusion' /\ Startup'
  <2>1. At(p, "idle") /\ "add" \in Operations
    BY <1>6 DEF AddExtension, Begins, Operations
  <2> QED BY <1>3, <1>6, <2>1, AddFacts, OperationSafe
<1>7. ASSUME NEW x \in Exts, RemoveExtension(p, x) PROVE Exclusion' /\ Startup'
  <2>1. At(p, "idle") /\ "remove" \in Operations
    BY <1>7 DEF RemoveExtension, Begins, Operations
  <2> QED BY <1>3, <1>7, <2>1, RemoveExtensionFacts, OperationSafe
<1>8. ASSUME NEW x \in Exts, ReloadExtension(p, x) PROVE Exclusion' /\ Startup'
  <2>1. At(p, "idle") /\ "reload" \in Operations
    BY <1>8 DEF ReloadExtension, Begins, Operations
  <2> QED BY <1>3, <1>8, <2>1, ReloadFacts, OperationSafe
<1>9. ASSUME NEW x \in Exts, ImportFails(p, x) PROVE Exclusion' /\ Startup'
  <2>1. PICK call \in {"add", "reload"} :
          /\ Begins(p, call) /\ Importable(x)
          /\ class' \in IF x = Part THEN {class, class + 1} ELSE {class}
          /\ Raise(p, Called(p, call), lc)
          /\ UNCHANGED <<load, agent>>
    BY <1>9 DEF ImportFails
  <2>2. agent' = agent /\ Ends(p, Called(p, call), lc)
    BY <1>3, <2>1, ImportFailsFacts
  <2>3. At(p, "idle") /\ call \in Operations
    BY <2>1 DEF Begins, Operations
  <2> QED BY <2>2, <2>3, OperationSafe
<1>10. CASE TakeStartLock(p)
  BY <1>10, TakeStartLockSafe
<1>11. CASE Unregister(p)
  <2>1. proc[p].pc \notin {"idle", "ready"} /\ ~Starting(p)
    BY <1>11 DEF Unregister, At, Starting
  <2> QED BY <1>3, <1>11, <2>1, UnregisterFacts, GoesOnSafe
<1>12. CASE ComponentStarts(p)
  BY <1>12, ComponentStartsSafe
<1>13. CASE RollBack(p)
  BY <1>13, RollBackSafe
<1>14. CASE RolledBack(p)
  BY <1>14, RolledBackSafe
<1>15. CASE HooksEnd(p)
  BY <1>15, HooksEndSafe
<1>16. CASE TakeRefreshLock(p)
  <2>1. proc[p].pc \notin {"idle", "ready"} /\ ~Starting(p)
    BY <1>16 DEF TakeRefreshLock, At, Starting
  <2> QED BY <1>3, <1>16, <2>1, TakeRefreshLockFacts, GoesOnSafe
<1>17. CASE ComponentRefreshes(p)
  <2>1. proc[p].pc \notin {"idle", "ready"} /\ ~Starting(p)
    BY <1>17 DEF ComponentRefreshes, At, Starting
  <2> QED BY <1>3, <1>17, <2>1, ComponentRefreshesFacts, GoesOnSafe
<1>18. CASE ComponentStops(p)
  BY <1>18, ComponentStopsSafe
<1>19. CASE Drained(p)
  BY <1>19, DrainedSafe
<1>23. CASE RollBackBreaks(p)
  BY <1>23, RollBackBreaksSafe
<1>20. CASE Fails(p)
  <2>1. proc[p].pc \notin {"idle", "ready"} /\ ~Starting(p)
    BY <1>20 DEF Fails, Starting
  <2> QED BY <1>3, <1>20, <2>1, FailsFacts, GoesOnSafe
<1>21. CASE Begin(p)
  BY <1>4, <1>5, <1>6, <1>7, <1>8, <1>9, <1>21 DEF Begin
<1>22. CASE Proceed(p)
  BY <1>10, <1>11, <1>12, <1>13, <1>14, <1>15, <1>16, <1>17, <1>18, <1>19, <1>20, <1>22,
     <1>23 DEF Proceed
<1> QED BY <1>21, <1>22

-----------------------------------------------------------------------------
(* The beginning                                                           *)

LEMMA CoreListed ==
  /\ SetToSeq(Core) \in Lists(0) /\ ToSet(SetToSeq(Core)) = Core
  /\ \A a, b \in Core : a[1] = b[1] => a = b
<1> DEFINE K == ToSet(Order) \ {Part}
           pair == [k \in K |-> <<k, 0>>]
           n == Cardinality(Core)
           s == SetToSeq(Core)
<1>1. IsFiniteSet(ToSet(Order))
  <2>1. Order \in [1 .. Len(Order) -> ToSet(Order)] /\ Len(Order) \in Nat
    BY LifecycleAssumption
  <2>2. Order \in Surjection(1 .. Len(Order), ToSet(Order))
    BY <2>1 DEF Surjection, ToSet
  <2> QED BY <2>1, <2>2, FS_Interval, FS_Surjection
<1>2. IsFiniteSet(K)
  BY <1>1, FS_Subset
<1>3. pair \in Surjection(K, Core)
  BY DEF Surjection, Core
<1>4. IsFiniteSet(Core)
  BY <1>2, <1>3, FS_Surjection
<1>5. n \in Nat /\ IsFiniteSet(1 .. n) /\ Cardinality(1 .. n) = n
  BY <1>4, FS_CardinalityType, FS_Interval
<1>6. PICK f : f \in Bijection(1 .. n, Core)
  <2>1. ExistsBijection(1 .. n, Core)
    BY <1>4, FS_NatBijection, FS_CountingElements
  <2> QED BY <2>1 DEF ExistsBijection
<1>7. f \in [1 .. n -> Core] /\ IsInjective(f)
  BY <1>6 DEF Bijection, Injection, IsInjective
<1>8. s \in [1 .. n -> Core] /\ IsInjective(s)
  BY <1>7 DEF SetToSeq
<1> HIDE DEF s, n
<1>9. s \in Injection(1 .. n, Core)
  BY <1>8 DEF Injection, IsInjective
<1>10. s \in Surjection(1 .. n, Core)
  BY <1>4, <1>5, <1>9, FS_Injection DEF n
<1>11. ToSet(s) = Core
  BY <1>8, <1>10 DEF ToSet, Surjection
<1>12. s \in Lists(0)
  BY <1>5, <1>8 DEF Lists, Distinct, Upto
<1>13. \A a, b \in Core : a[1] = b[1] => a = b
  BY DEF Core
<1> QED BY <1>11, <1>12, <1>13 DEF s

LEMMA InitFacts ==
  ASSUME Init
  PROVE  IInv
<1>1. /\ Sorted(SetToSeq(Core)) \in Lists(0) /\ ToSet(Sorted(SetToSeq(Core))) = Core
  BY CoreListed, SortedFacts
<1>2. Upto(0) = Core
  BY DEF Upto
<1>3. [NewComponent(0) EXCEPT !.wired = TRUE] \in Component /\ NewComponent(0).up = 0
  <2>1. NewComponent(0) \in Component
    BY LifecycleAssumption DEF NewComponent, Component
  <2> QED BY <2>1 DEF NewComponent, Component
<1> DEFINE comp == [c \in Core |-> [NewComponent(0) EXCEPT !.wired = TRUE]]
<1>4. comp \in [Upto(0) -> Component] /\ \A c \in Core : comp[c].up = 0
  BY <1>2, <1>3 DEF NewComponent
<1> HIDE DEF comp
<1>5. <<>> \in Scopes /\ <<>> \in Seq(Exts)
  BY DEF Scopes, Distinct, IsInjective
<1>6. /\ lc \in Lifecycle(0) /\ lc.made = 0 /\ lc.registered = 0 /\ ~lc.started
      /\ ToSet(lc.children) = Core /\ lc.comp = comp
  <2> DEFINE no == FALSE
             iter == [p \in Procs |-> NoIter]
             children == Sorted(SetToSeq(Core))
  <2>1. lc = [scope |-> <<>>, children |-> children, registered |-> 0, made |-> 0,
              started |-> no, changed |-> no, last |-> <<>>, given |-> <<>>,
              shared |-> no, iter |-> iter, comp |-> comp]
    BY DEF Init, comp
  <2>2. iter \in [Procs -> Iteration(0)] /\ no \in BOOLEAN /\ ~no
    BY NoIterFacts
  <2>3. children \in Lists(0) /\ ToSet(children) = Core
    BY <1>1
  <2> HIDE DEF no, iter, children
  <2>4. 0 \in 0 .. 0
    OBVIOUS
  <2>5. lc \in Lifecycle(0)
    BY <2>1, <2>2, <2>3, <2>4, <1>4, <1>5 DEF Lifecycle
  <2> QED BY <2>1, <2>2, <2>3, <2>5
<1>7. LifecycleOK(lc)
  BY <1>2, <1>6 DEF LifecycleOK, Present, Classed, Core
<1>8. NewProc \in TaskOf(0)
  BY <1>5, LifecycleAssumption DEF NewProc, TaskOf, Places, Phases
<1>9. \A p \in Procs : proc[p] = NewProc
  BY DEF Init
<1>10. TypeInv
  <2>1. ModulesOK /\ agent \in BOOLEAN
    <3>1. agent \in BOOLEAN
      BY DEF Init
    <3>2. load \in [Exts -> 0 .. MaxLoads] /\ class \in 0 .. MaxLoads
      BY LifecycleAssumption DEF Init
    <3> QED BY <3>1, <3>2 DEF ModulesOK
  <2>2. proc \in [Procs -> TaskOf(lc.made)]
    BY <1>6, <1>8 DEF Init
  <2>3. \A p \in Procs : Recorded(proc[p])
    BY <1>9 DEF Recorded, NewProc
  <2> QED BY <1>7, <2>1, <2>2, <2>3 DEF TypeInv
<1>11. \A p \in Procs : proc[p].pc = "idle" /\ proc[p].phase = "none"
  BY <1>9 DEF NewProc
<1>12. Exclusion
  BY <1>11 DEF Exclusion, HasStartLock, Starting, Stopping, StartsAgent, At
<1>13. Startup
  BY <1>2, <1>4, <1>6, <1>11 DEF Startup, OnceEach, AllDown, Starting, At
<1> QED BY <1>10, <1>12, <1>13 DEF IInv

-----------------------------------------------------------------------------
(* An operation nobody disturbs reaches the components                     *)

\* What a Manager has found is what is in the scope.
Sees(l, c) ==
  IsManager(c) /\ l.comp[c].open => l.comp[c].seen = {<<x, load[x]>> : x \in ToSet(l.scope)}

\* The component of Part is there if Part is in the scope.
Fitting(l) == l.registered # 0 <=> Part \in ToSet(l.scope)

\* The Managers have the scope.
Given(l) ==
  /\ l.given = l.scope
  /\ \A c \in ToSet(l.children) : IsManager(c) => l.comp[c].wired

\* What an operation has found when it began stays with the task.
Same(r, s) ==
  s.before = r.before /\ s.synced = r.synced /\ s.alone = r.alone /\ s.call = r.call

\* The stretch of p that has come to l keeps the scope, or puts the one back that
\* the operation has found.
Stays(p, r, l) == Same(r, proc'[p]) /\ lc'.scope \in {l.scope, r.before}

LEMMA EndedStays ==
  ASSUME NEW l, LifecycleOK(l), NEW p \in Procs, NEW r \in TaskOf(l.made),
         NEW outcome \in {"returned", "failed"}, Ended(p, r, l, outcome)
  PROVE  /\ Same(r, proc'[p]) /\ proc'[p].pc = "idle" /\ proc'[p].outcome = outcome
         /\ Marks(l, lc') /\ lc'.registered = l.registered /\ lc'.children = l.children
         /\ lc'.comp = l.comp
<1>1. l.made \in Nat
  BY DEF LifecycleOK
<1>2. lc' = Looped(l, p, NoIter)
  BY DEF Ended, Looped
<1>3. /\ Marks(l, lc') /\ lc'.registered = l.registered /\ lc'.children = l.children
      /\ lc'.comp = l.comp
  BY <1>1, <1>2, NoIterFacts, LoopMoves
<1>4. Same(r, proc'[p]) /\ proc'[p].pc = "idle" /\ proc'[p].outcome = outcome
  BY DEF Ended, Turn, TaskOf, Same
<1> QED BY <1>3, <1>4

LEMMA RaiseStays ==
  ASSUME NEW l, LifecycleOK(l), NEW p \in Procs, NEW r \in TaskOf(l.made), Raise(p, r, l)
  PROVE  /\ Stays(p, r, l) /\ proc'[p].pc = "idle" /\ proc'[p].outcome = "failed"
         /\ r.call \in Operations => lc'.scope = r.before
<1> DEFINE k == [l EXCEPT !.scope = r.before, !.shared = FALSE]
<1>1. CASE r.call \in Operations
  <2>1. l \in Lifecycle(l.made) /\ l.given \in Seq(Exts) /\ r.before \in Scopes
    BY DEF LifecycleOK, Lifecycle, TaskOf
  <2> DEFINE no == FALSE
  <2>2. k = Scoped(l, r.before, no, l.given) /\ no \in BOOLEAN
    BY <2>1 DEF Lifecycle, Scoped
  <2>3. Ended(p, r, k, "failed")
    BY <1>1 DEF Raise
  <2> HIDE DEF k, no
  <2>4. Keeps(l, k, p) /\ k.made = l.made /\ k.scope = r.before
    BY <2>1, <2>2, ScopeKeeps
  <2> QED BY <2>3, <2>4, EndedStays DEF Keeps, Stays, Marks
<1>2. CASE r.call \notin Operations
  <2>1. Ended(p, r, l, "failed")
    BY <1>2 DEF Raise
  <2> QED BY <1>2, <2>1, EndedStays DEF Stays, Marks
<1> QED BY <1>1, <1>2

LEMMA PlacedStays ==
  ASSUME NEW made, NEW p \in Procs, NEW r \in TaskOf(made), NEW pc,
         Turn(p, [r EXCEPT !.pc = pc])
  PROVE  Same(r, proc'[p]) /\ proc'[p].pc = pc
BY DEF Turn, TaskOf, Same

\* set_scope() of a scope that is not the one handed on last.
LEMMA RescopedFacts ==
  ASSUME NEW l, LifecycleOK(l)
  PROVE  /\ LifecycleOK(Rescoped(l)) /\ Rescoped(l).made = l.made
         /\ Rescoped(l).scope = l.scope /\ Rescoped(l).registered = l.registered
         /\ l.scope # l.last => Given(Rescoped(l)) /\ Rescoped(l).changed
<1>1. CASE l.scope = l.last
  BY <1>1 DEF Rescoped
<1>2. CASE l.scope # l.last
  <2> DEFINE comp == [c \in DOMAIN l.comp |->
               IF Contains(l.children, c) /\ IsManager(c)
               THEN [l.comp[c] EXCEPT !.wired = TRUE] ELSE l.comp[c]]
  <2>1. /\ l.made \in Nat /\ l \in Lifecycle(l.made) /\ l.comp \in [Upto(l.made) -> Component]
        /\ l.children \in Lists(l.made)
    BY DEF LifecycleOK, Lifecycle
  <2>2. \A c \in ToSet(l.children) : IsManager(c) => comp[c].wired
    <3> SUFFICES ASSUME NEW c \in ToSet(l.children), IsManager(c) PROVE comp[c].wired
      OBVIOUS
    <3>1. c \in Upto(l.made) /\ Contains(l.children, c)
      BY <2>1, ListFacts
    <3>2. comp[c] = [l.comp[c] EXCEPT !.wired = TRUE] /\ l.comp[c] \in Component
      BY <2>1, <3>1
    <3> HIDE DEF comp
    <3> QED BY <3>2 DEF Component
  <2>3. Rescoped(l) = [l EXCEPT !.last = l.scope, !.given = l.scope, !.shared = TRUE,
                                !.changed = TRUE, !.comp = comp]
    BY <1>2 DEF Rescoped
  <2> HIDE DEF comp
  <2>4. /\ Rescoped(l).made = l.made /\ Rescoped(l).registered = l.registered
        /\ Rescoped(l).children = l.children /\ Rescoped(l).changed
        /\ Rescoped(l).comp = comp /\ Rescoped(l).scope = l.scope
        /\ Rescoped(l).given = l.scope
    BY <2>1, <2>3 DEF Lifecycle
  <2>5. LifecycleOK(Rescoped(l))
    BY RescopedKeeps DEF Keeps
  <2> QED BY <2>2, <2>4, <2>5 DEF Given
<1> QED BY <1>1, <1>2

\* A stretch that goes on from l where it has come from k.
LEMMA StaysEarlier ==
  ASSUME NEW k, NEW l, NEW p, NEW r, NEW s, Stays(p, r, l), l.scope = k.scope,
         Same(s, r)
  PROVE  Stays(p, s, k)
BY DEF Stays, Same

LEMMA StartNextStays ==
  ASSUME NEW l, LifecycleOK(l), NEW p \in Procs, NEW r \in TaskOf(l.made),
         load \in [Exts -> 0 .. MaxLoads], StartNext(p, r, l)
  PROVE  Stays(p, r, l)
<1> DEFINE n == l.iter[p].at + 1
           c == List(l, p)[n]
           k == GoesTo(l, p, n)
<1>1. /\ l.iter[p].at \in Nat /\ l.made \in Nat /\ List(l, p) \in Lists(l.made)
      /\ l \in Lifecycle(l.made)
  BY LoopFacts DEF LifecycleOK
<1>2. CASE n <= Len(List(l, p))
  <2>1. n \in DOMAIN List(l, p) /\ n \in Nat
    BY <1>1, <1>2, ListFacts
  <2>2. lc' = Started(k, c) /\ Turn(p, [r EXCEPT !.pc = "starting", !.done = Append(@, c)])
    BY <1>2 DEF StartNext, GoesTo
  <2>3. Same(r, proc'[p])
    BY <2>2 DEF Turn, TaskOf, Same
  <2> HIDE DEF k, n
  <2>4. Keeps(l, k, p) /\ k.made = l.made /\ c \in Upto(l.made) /\ Marks(l, k)
    BY <2>1, NextRound DEF k
  <2> HIDE DEF c
  <2>5. LifecycleOK(k) /\ c \in Upto(k.made)
    BY <2>4 DEF Keeps
  <2>6. SameShape(k, lc')
    BY <2>2, <2>5, StartedFacts
  <2> QED BY <2>3, <2>4, <2>6 DEF Stays, SameShape, Marks
<1>3. CASE ~ (n <= Len(List(l, p)))
  <2>1. /\ lc' = [l EXCEPT !.started = TRUE, !.changed = FALSE, !.iter[p] = NoIter]
        /\ Turn(p, [r EXCEPT !.pc = "hook", !.done = <<>>])
    BY <1>3 DEF StartNext
  <2>2. Same(r, proc'[p])
    BY <2>1 DEF Turn, TaskOf, Same
  <2>3. lc'.scope = l.scope
    BY <1>1, <2>1 DEF Lifecycle
  <2> QED BY <2>2, <2>3 DEF Stays
<1> QED BY <1>2, <1>3

LEMMA StopNextStays ==
  ASSUME NEW l, LifecycleOK(l), NEW p \in Procs, NEW r \in TaskOf(l.made), StopNext(p, r, l)
  PROVE  Stays(p, r, l)
<1> DEFINE n == l.iter[p].at
           c == List(l, p)[n]
           at == n - 1
           k == GoesTo(l, p, at)
<1>1. /\ n \in Nat /\ l.made \in Nat /\ List(l, p) \in Lists(l.made)
      /\ l \in Lifecycle(l.made)
  BY LoopFacts DEF LifecycleOK
<1>2. CASE n \in DOMAIN List(l, p)
  <2>1. at \in Nat
    BY <1>1, <1>2, ListFacts
  <2>2. lc' = Stopped(k, c) /\ Turn(p, [r EXCEPT !.pc = "stopping", !.hand = c])
    BY <1>2 DEF StopNext, GoesTo
  <2>3. Same(r, proc'[p])
    BY <2>2 DEF Turn, TaskOf, Same
  <2> HIDE DEF k, at, n
  <2>4. Keeps(l, k, p) /\ k.made = l.made /\ c \in Upto(l.made) /\ Marks(l, k)
    BY <1>2, <2>1, NextRound DEF k
  <2> HIDE DEF c
  <2>5. LifecycleOK(k) /\ c \in Upto(k.made)
    BY <2>4 DEF Keeps
  <2>6. SameShape(k, lc')
    BY <2>2, <2>5, StoppedFacts
  <2> QED BY <2>3, <2>4, <2>6 DEF Stays, SameShape, Marks
<1>3. CASE n \notin DOMAIN List(l, p)
  <2>1. /\ lc' = [l EXCEPT !.started = FALSE, !.iter[p] = NoIter]
        /\ Turn(p, [r EXCEPT !.pc = "draining"])
    BY <1>3 DEF StopNext
  <2>2. Same(r, proc'[p])
    BY <2>1 DEF Turn, TaskOf, Same
  <2>3. lc'.scope = l.scope
    BY <1>1, <2>1 DEF Lifecycle
  <2> QED BY <2>2, <2>3 DEF Stays
<1> QED BY <1>2, <1>3

LEMMA ReturnStays ==
  ASSUME NEW l, LifecycleOK(l), NEW p \in Procs, NEW r \in TaskOf(l.made), Return(p, r, l)
  PROVE  Stays(p, r, l)
BY EndedStays DEF Return, Stays, Marks

\* The loop over the list as it is now.
LEMMA LoopBegins ==
  ASSUME NEW l, LifecycleOK(l), NEW p \in Procs,
         NEW k, k = Looping(Rebound(l, l.children), p, 0)
  PROVE  /\ LifecycleOK(k) /\ k.made = l.made /\ k.registered = l.registered /\ Marks(l, k)
         /\ ToSet(k.children) = ToSet(l.children) /\ k.comp = l.comp
         /\ ~k.iter[p].own /\ k.iter[p].at = 0
<1> DEFINE b == Rebound(l, l.children)
           i == [own |-> FALSE, list |-> <<>>, at |-> 0]
<1>1. k = Looped(b, p, i)
  BY DEF Looping, Looped
<1> HIDE DEF b
<1>2. /\ LifecycleOK(b) /\ b.made = l.made /\ ToSet(b.children) = ToSet(l.children)
      /\ b.comp = l.comp /\ b.registered = l.registered /\ Marks(l, b)
  BY SortKeeps DEF b, Keeps
<1>3. i \in Iteration(b.made) /\ ~i.own /\ i.at = 0
  <2>1. <<>> \in Lists(b.made)
    BY DEF Lists, Distinct, IsInjective
  <2> QED BY <2>1 DEF Iteration
<1> HIDE DEF i
<1>4. /\ Keeps(b, k, p) /\ k.made = b.made /\ k.registered = b.registered
      /\ k.children = b.children /\ k.comp = b.comp /\ k.iter[p] = i /\ Marks(b, k)
  BY <1>1, <1>2, <1>3, LoopMoves
<1> QED BY <1>2, <1>3, <1>4 DEF Keeps, Marks

LEMMA RescopeStays ==
  ASSUME NEW l, LifecycleOK(l), NEW p \in Procs, NEW r \in TaskOf(l.made),
         load \in [Exts -> 0 .. MaxLoads], Rescope(p, r, l)
  PROVE  Stays(p, r, l)
<1> DEFINE m == Rescoped(l)
           k == Looping(Rebound(m, m.children), p, 0)
<1>1. LifecycleOK(m) /\ m.made = l.made /\ m.scope = l.scope /\ r \in TaskOf(m.made)
  BY RescopedFacts
<1>2. \/ StartNext(p, r, k)
      \/ Return(p, r, m)
      \/ lc' = m /\ \E pc \in {"hook", "wait"} : Turn(p, [r EXCEPT !.pc = pc])
  BY DEF Rescope
<1> HIDE DEF m
<1>3. CASE StartNext(p, r, k)
  <2>1. LifecycleOK(k) /\ k.made = m.made /\ k.scope = m.scope
    BY <1>1, LoopBegins DEF Marks
  <2> HIDE DEF k
  <2> QED BY <1>1, <1>3, <2>1, StartNextStays DEF Stays
<1>4. CASE Return(p, r, m)
  BY <1>1, <1>4, ReturnStays DEF Stays
<1>5. CASE lc' = m /\ \E pc \in {"hook", "wait"} : Turn(p, [r EXCEPT !.pc = pc])
  BY <1>1, <1>5, PlacedStays DEF Stays
<1> QED BY <1>2, <1>3, <1>4, <1>5

LEMMA CompleteStays ==
  ASSUME NEW l, LifecycleOK(l), NEW p \in Procs, NEW r \in TaskOf(l.made),
         load \in [Exts -> 0 .. MaxLoads], Complete(p, r, l)
  PROVE  Stays(p, r, l)
<1>1. CASE Rescope(p, r, l)
  BY <1>1, RescopeStays
<1>2. CASE Raise(p, r, l)
  BY <1>2, RaiseStays
<1>3. CASE l.registered = 0 /\ r.active # 0 /\ Rescope(p, r, Registered(l, r.active))
  <2> DEFINE m == Registered(l, r.active)
  <2>1. r.active \in 0 .. MaxLoads
    BY DEF TaskOf
  <2>2. Keeps(l, m, p) /\ Marks(l, m)
    BY <1>3, <2>1, RegisteredKeeps
  <2>3. Rescope(p, r, m)
    BY <1>3
  <2> HIDE DEF m
  <2>4. LifecycleOK(m) /\ r \in TaskOf(m.made)
    BY <2>2, TaskGrows DEF Keeps
  <2>5. Stays(p, r, m)
    BY <2>3, <2>4, RescopeStays
  <2> QED BY <2>2, <2>5 DEF Stays, Marks
<1> QED BY <1>1, <1>2, <1>3 DEF Complete

LEMMA SyncStays ==
  ASSUME NEW l, LifecycleOK(l), NEW p \in Procs, NEW r \in TaskOf(l.made),
         load \in [Exts -> 0 .. MaxLoads], class' \in 0 .. MaxLoads, Sync(p, r, l)
  PROVE  Stays(p, r, l)
<1> DEFINE active == IF Contains(l.scope, Part) THEN class' ELSE 0
           child == <<Part, l.registered>>
           s == [r EXCEPT !.active = active]
           m == Removed(l, child)
<1>1. active \in 0 .. MaxLoads
  BY LifecycleAssumption
<1>2. \/ Complete(p, s, l)
      \/ l.registered # 0 /\ Complete(p, s, m)
      \/ /\ l.registered # 0 /\ lc' = Stopped(l, child)
         /\ Turn(p, [s EXCEPT !.pc = "unregister", !.done = <<child>>])
  BY DEF Sync
<1> HIDE DEF active
<1>3. s \in TaskOf(l.made) /\ Same(r, s)
  BY <1>1 DEF TaskOf, Same
<1>4. l.made \in Nat /\ l.registered \in 0 .. l.made
  BY DEF LifecycleOK, Lifecycle
<1> HIDE DEF s
<1>5. CASE Complete(p, s, l)
  BY <1>3, <1>5, CompleteStays DEF Stays, Same
<1>6. CASE l.registered # 0 /\ Complete(p, s, m)
  <2>1. Keeps(l, m, p) /\ Marks(l, m)
    BY <1>6, RemovedKeeps
  <2> HIDE DEF m
  <2>2. LifecycleOK(m) /\ s \in TaskOf(m.made)
    BY <1>3, <2>1, TaskGrows DEF Keeps
  <2>3. Stays(p, s, m)
    BY <1>6, <2>2, CompleteStays
  <2> QED BY <1>3, <2>1, <2>3 DEF Stays, Same, Marks
<1>7. CASE /\ l.registered # 0 /\ lc' = Stopped(l, child)
           /\ Turn(p, [s EXCEPT !.pc = "unregister", !.done = <<child>>])
  <2>1. child \in Upto(l.made)
    BY <1>4, <1>7 DEF Upto
  <2> HIDE DEF child
  <2>2. SameShape(l, lc')
    BY <1>7, <2>1, StoppedFacts
  <2>3. Same(s, proc'[p])
    BY <1>3, <1>7 DEF Turn, TaskOf, Same
  <2> QED BY <1>3, <2>2, <2>3 DEF Stays, Same, SameShape, Marks
<1> QED BY <1>2, <1>5, <1>6, <1>7

\* What the loop of refresh() has come to is right.
Reached(l, p) == \A i \in 1 .. Len(l.children) : i <= l.iter[p].at => Sees(l, l.children[i])

LEMMA RefreshedSees ==
  ASSUME NEW l, LifecycleOK(l), NEW c \in ToSet(l.children), Given(l),
         load \in [Exts -> 0 .. MaxLoads], NEW m, m = Refreshed(l, c)
  PROVE  /\ SameShape(l, m) /\ Given(m) /\ Sees(m, c)
         /\ \A d \in ToSet(l.children) : Sees(l, d) => Sees(m, d)
<1>1. c \in Upto(l.made) /\ ToSet(l.children) \subseteq Upto(l.made)
  BY ComponentFacts
<1>2. SameShape(l, m)
  BY <1>1, RefreshedFacts
<1>3. CASE IsManager(c)
  <2> DEFINE seen == Visible(l, c)
             x == [l.comp[c] EXCEPT !.seen = seen]
             changed == l.changed \/ (seen # l.comp[c].seen /\ Contains(l.children, c))
  <2>1. l \in Lifecycle(l.made) /\ l.comp \in [Upto(l.made) -> Component]
    BY DEF LifecycleOK, Lifecycle
  <2>2. seen \in SUBSET (Exts \X Nat)
    <3>1. ToSet(l.given) \subseteq Exts
      BY <2>1 DEF Lifecycle, ToSet
    <3>2. \A y \in Exts : load[y] \in Nat
      BY LifecycleAssumption
    <3> QED BY <3>1, <3>2 DEF Visible
  <2>3. changed \in BOOLEAN
    BY <2>1 DEF Lifecycle
  <2>4. m = Moved(l, c, x, changed)
    BY <1>3, <2>1 DEF Refreshed, Noticed, Lifecycle, Moved
  <2>5. l.comp[c].open /\ l.comp[c].wired =>
          seen = {<<y, load[y]>> : y \in ToSet(l.scope)}
    BY DEF Visible, Given
  <2> HIDE DEF seen, changed
  <2>6. /\ x \in Component /\ x.class = l.comp[c].class /\ x.seen = seen
        /\ x.open = l.comp[c].open /\ x.wired = l.comp[c].wired
    BY <1>1, <2>1, <2>2 DEF Component
  <2> HIDE DEF x
  <2>7. \A d \in Upto(l.made) : m.comp[d] = IF d = c THEN x ELSE l.comp[d]
    BY <1>1, <2>3, <2>4, <2>6, ComponentMoves
  <2>8. m.children = l.children /\ m.scope = l.scope /\ m.given = l.given
    BY <1>2 DEF SameShape, Marks
  <2>9. Given(m)
    BY <1>1, <2>6, <2>7, <2>8 DEF Given
  <2>10. l.comp[c].wired
    BY <1>3 DEF Given
  <2>11. Sees(m, c)
    BY <1>1, <2>5, <2>6, <2>7, <2>8, <2>10 DEF Sees
  <2>12. ASSUME NEW d \in ToSet(l.children), Sees(l, d) PROVE Sees(m, d)
    BY <1>1, <2>7, <2>8, <2>11, <2>12 DEF Sees
  <2> QED BY <1>2, <2>9, <2>11, <2>12
<1>4. CASE ~IsManager(c)
  <2>1. m = l
    BY <1>4 DEF Refreshed
  <2> QED BY <1>2, <1>4, <2>1 DEF Sees
<1> QED BY <1>3, <1>4

LEMMA RefreshNextReaches ==
  ASSUME NEW l, LifecycleOK(l), NEW p \in Procs, NEW r \in TaskOf(l.made),
         load \in [Exts -> 0 .. MaxLoads], RefreshNext(p, r, l)
  PROVE  /\ Same(r, proc'[p]) /\ lc'.scope = l.scope /\ lc'.registered = l.registered
         /\ (Given(l) /\ ~l.iter[p].own /\ Reached(l, p)) =>
              \/ /\ proc'[p].pc = "refreshing" /\ Given(lc')
                 /\ ~lc'.iter[p].own /\ Reached(lc', p)
              \/ /\ proc'[p].pc = "idle" /\ proc'[p].outcome = "returned"
                 /\ \A c \in ToSet(lc'.children) : Sees(lc', c)
<1> DEFINE n == l.iter[p].at + 1
           c == List(l, p)[n]
           k == GoesTo(l, p, n)
           m == [l EXCEPT !.changed = FALSE]
<1>1. /\ l.iter[p].at \in Nat /\ l.made \in Nat /\ List(l, p) \in Lists(l.made)
      /\ l \in Lifecycle(l.made) /\ l.children \in Lists(l.made)
  BY LoopFacts DEF LifecycleOK, Lifecycle
<1>2. CASE n <= Len(List(l, p))
  <2>1. n \in DOMAIN List(l, p) /\ n \in Nat
    BY <1>1, <1>2, ListFacts
  <2>2. lc' = Refreshed(k, c) /\ Turn(p, [r EXCEPT !.pc = "refreshing"])
    BY <1>2 DEF RefreshNext, GoesTo
  <2>3. Same(r, proc'[p]) /\ proc'[p].pc = "refreshing"
    BY <2>2, PlacedStays
  <2>4. n <= l.iter[p].at + 1 /\ \A i \in Nat : i <= n => i = n \/ i <= l.iter[p].at
    BY <1>1
  <2> HIDE DEF k, n
  <2>5. /\ Keeps(l, k, p) /\ k.made = l.made /\ k.registered = l.registered
        /\ k.children = l.children /\ k.comp = l.comp /\ Marks(l, k)
        /\ k.iter[p].at = n /\ k.iter[p].own = l.iter[p].own /\ c \in Upto(l.made)
    BY <2>1, NextRound DEF k
  <2>6. LifecycleOK(k) /\ c \in Upto(k.made)
    BY <2>5 DEF Keeps
  <2>7. SameShape(k, lc')
    BY <2>2, <2>6, RefreshedFacts
  <2>8. lc'.scope = l.scope /\ lc'.registered = l.registered
    BY <2>5, <2>7 DEF SameShape, Marks
  <2>9. ASSUME Given(l), ~l.iter[p].own, Reached(l, p)
        PROVE  Given(lc') /\ ~lc'.iter[p].own /\ Reached(lc', p)
    <3>1. n \in 1 .. Len(l.children) /\ c = l.children[n] /\ c \in ToSet(k.children)
      BY <1>1, <2>1, <2>5, <2>9, ListFacts DEF List
    <3> HIDE DEF c
    <3>2. Given(k) /\ \A d : Sees(l, d) => Sees(k, d)
      BY <2>5, <2>9 DEF Given, Sees, Marks
    <3>3. /\ Given(lc') /\ Sees(lc', c)
          /\ \A d \in ToSet(k.children) : Sees(k, d) => Sees(lc', d)
      BY <2>2, <2>6, <3>1, <3>2, RefreshedSees
    <3>4. lc'.children = l.children /\ lc'.iter[p].at = n /\ ~lc'.iter[p].own
      BY <2>5, <2>7, <2>9 DEF SameShape
    <3>5. ASSUME NEW i \in 1 .. Len(l.children), i <= n
          PROVE  Sees(lc', l.children[i])
      <4>1. CASE i = n
        BY <3>1, <3>3, <4>1
      <4>2. CASE i # n
        <5>1. i <= l.iter[p].at
          BY <2>4, <3>5, <4>2
        <5>2. l.children[i] \in ToSet(k.children)
          BY <1>1, <2>5, ListFacts
        <5> QED BY <2>9, <3>2, <3>3, <5>1, <5>2 DEF Reached
      <4> QED BY <4>1, <4>2
    <3> QED BY <3>3, <3>4, <3>5 DEF Reached
  <2> QED BY <2>3, <2>8, <2>9
<1>3. CASE ~ (n <= Len(List(l, p)))
  <2>1. Return(p, r, m)
    BY <1>3 DEF RefreshNext
  <2> DEFINE no == FALSE
  <2>2. /\ no \in BOOLEAN
        /\ m = Changed(l, l.scope, l.shared, l.given, no, l.started, p, l.iter[p])
    BY <1>1 DEF Lifecycle, Changed
  <2>3. /\ l.scope \in Scopes /\ l.shared \in BOOLEAN /\ l.given \in Seq(Exts)
        /\ l.started \in BOOLEAN /\ l.iter[p] \in Iteration(l.made)
    BY <1>1 DEF Lifecycle
  <2> HIDE DEF m, no
  <2>4. /\ LifecycleOK(m) /\ m.made = l.made /\ m.scope = l.scope /\ m.comp = l.comp
        /\ m.registered = l.registered /\ m.children = l.children
    BY <2>2, <2>3, OwnLoopFacts
  <2>5. /\ Same(r, proc'[p]) /\ proc'[p].pc = "idle" /\ proc'[p].outcome = "returned"
        /\ lc'.scope = l.scope /\ lc'.registered = l.registered
        /\ lc'.children = l.children /\ lc'.comp = l.comp
    BY <2>1, <2>4, EndedStays DEF Return, Marks
  <2>6. ASSUME ~l.iter[p].own, Reached(l, p), NEW d \in ToSet(l.children)
        PROVE  Sees(lc', d)
    <3>1. PICK i \in 1 .. Len(l.children) : l.children[i] = d
      BY <1>1, ListFacts
    <3>2. i <= l.iter[p].at
      BY <1>1, <1>3, <2>6, ListFacts DEF List
    <3> QED BY <2>5, <2>6, <3>1, <3>2 DEF Reached, Sees
  <2> QED BY <2>5, <2>6
<1> QED BY <1>2, <1>3

\* Where a stretch that hands on the scope leaves an operation: it has failed, it
\* has a refresh to do, or it has ended on an agent that is not started.
Delivered(p, r) ==
  \/ /\ proc'[p].pc = "idle" /\ proc'[p].outcome = "failed" /\ lc'.scope = r.before
  \/ proc'[p].pc = "wait" /\ lc'.changed /\ Fitting(lc') /\ Given(lc')
  \/ /\ proc'[p].pc = "idle" /\ proc'[p].outcome = "returned" /\ ~agent /\ Fitting(lc')

LEMMA RescopeDelivers ==
  ASSUME NEW l, LifecycleOK(l), NEW p \in Procs, NEW r \in TaskOf(l.made),
         r.phase = "none", l.scope # l.last, Fitting(l), Rescope(p, r, l)
  PROVE  Delivered(p, r)
<1> DEFINE m == Rescoped(l)
<1>1. /\ LifecycleOK(m) /\ m.made = l.made /\ Given(m) /\ m.changed /\ Fitting(m)
  BY RescopedFacts DEF Fitting
<1>2. \/ lc' = m /\ Turn(p, [r EXCEPT !.pc = "wait"])
      \/ ~agent /\ Return(p, r, m)
  BY DEF Rescope
<1> HIDE DEF m
<1>3. CASE lc' = m /\ Turn(p, [r EXCEPT !.pc = "wait"])
  BY <1>1, <1>3, PlacedStays DEF Delivered
<1>4. CASE ~agent /\ Return(p, r, m)
  <2>1. /\ proc'[p].pc = "idle" /\ proc'[p].outcome = "returned" /\ Marks(m, lc')
        /\ lc'.registered = m.registered
    BY <1>1, <1>4, EndedStays DEF Return
  <2> QED BY <1>1, <1>4, <2>1 DEF Delivered, Fitting, Marks
<1> QED BY <1>2, <1>3, <1>4

LEMMA CompleteDelivers ==
  ASSUME NEW l, LifecycleOK(l), NEW p \in Procs, NEW r \in TaskOf(l.made),
         r.phase = "none", r.call \in Operations, l.scope # l.last,
         r.active # 0 <=> Part \in ToSet(l.scope),
         l.registered # 0 => Part \in ToSet(l.scope), Complete(p, r, l)
  PROVE  Delivered(p, r)
<1>1. CASE Raise(p, r, l)
  BY <1>1, RaiseStays DEF Delivered
<1>2. CASE l.registered = 0 /\ r.active # 0 /\ Rescope(p, r, Registered(l, r.active))
  <2> DEFINE m == Registered(l, r.active)
  <2>1. r.active \in 0 .. MaxLoads
    BY DEF TaskOf
  <2>2. Keeps(l, m, p) /\ Marks(l, m) /\ m.registered # 0
    BY <1>2, <2>1, RegisteredKeeps
  <2>3. Rescope(p, r, m)
    BY <1>2
  <2> HIDE DEF m
  <2>4. LifecycleOK(m) /\ r \in TaskOf(m.made)
    BY <2>2, TaskGrows DEF Keeps
  <2>5. m.scope # m.last /\ Fitting(m)
    BY <1>2, <2>2 DEF Marks, Fitting
  <2> QED BY <2>3, <2>4, <2>5, RescopeDelivers
<1>3. CASE ~ (r.active # 0 /\ l.registered = 0) /\ Rescope(p, r, l)
  <2>1. Fitting(l)
    BY <1>3 DEF Fitting
  <2> QED BY <1>3, <2>1, RescopeDelivers
<1>4. l.registered = 0 => \A c \in ToSet(l.children) : c[1] # Part
  BY RegisteredIsListed
<1> QED BY <1>1, <1>2, <1>3, <1>4 DEF Complete

\* What p has found when it waits for the stop() of the component.
Unregisters(p, last, active) ==
  /\ proc'[p].pc = "unregister" /\ lc'.last = last /\ proc'[p].active = active
  /\ lc'.registered # 0 /\ proc'[p].done = <<<<Part, lc'.registered>>>>

LEMMA SyncDelivers ==
  ASSUME NEW l, LifecycleOK(l), NEW p \in Procs, NEW r \in TaskOf(l.made),
         r.phase = "none", r.call \in Operations, l.scope # l.last,
         class' \in 0 .. MaxLoads, Part \in ToSet(l.scope) => class' # 0, Sync(p, r, l),
         NEW active, active = IF Contains(l.scope, Part) THEN class' ELSE 0
  PROVE  Delivered(p, r) \/ Unregisters(p, l.last, active)
<1> DEFINE child == <<Part, l.registered>>
           s == [r EXCEPT !.active = active]
           m == Removed(l, child)
<1>1. /\ l.made \in Nat /\ l.registered \in 0 .. l.made /\ l.scope \in Distinct(Exts)
      /\ Classed(l)
  BY DEF LifecycleOK, Lifecycle, Scopes
<1>2. active \in 0 .. MaxLoads /\ (active # 0 <=> Part \in ToSet(l.scope))
  BY <1>1, LifecycleAssumption, DistinctFacts
<1>3. \/ (l.registered = 0 \/ l.comp[child].class = active) /\ Complete(p, s, l)
      \/ l.registered # 0 /\ Complete(p, s, m)
      \/ /\ l.registered # 0 /\ lc' = Stopped(l, child)
         /\ Turn(p, [s EXCEPT !.pc = "unregister", !.done = <<child>>])
  BY DEF Sync
<1>4. /\ s \in TaskOf(l.made) /\ Same(r, s) /\ s.phase = "none" /\ s.active = active
      /\ s.call = r.call /\ s.before = r.before
  BY <1>2 DEF TaskOf, Same
<1> HIDE DEF s
<1>5. CASE (l.registered = 0 \/ l.comp[child].class = active) /\ Complete(p, s, l)
  <2>1. l.registered # 0 => Part \in ToSet(l.scope)
    <3> SUFFICES ASSUME l.registered # 0 PROVE active # 0
      BY <1>2
    <3>1. child \in Upto(l.made) /\ child[1] = Part
      BY <1>1 DEF Upto
    <3> QED BY <1>1, <1>5, <3>1 DEF Classed
  <2>2. Delivered(p, s)
    BY <1>2, <1>4, <1>5, <2>1, CompleteDelivers
  <2> QED BY <1>4, <2>2 DEF Delivered
<1>6. CASE l.registered # 0 /\ Complete(p, s, m)
  <2>1. Keeps(l, m, p) /\ Marks(l, m) /\ m.registered = 0
    BY <1>6, RemovedKeeps
  <2> HIDE DEF m
  <2>2. LifecycleOK(m) /\ s \in TaskOf(m.made)
    BY <1>4, <2>1, TaskGrows DEF Keeps
  <2>3. m.scope = l.scope /\ m.last = l.last
    BY <2>1 DEF Marks
  <2>4. Delivered(p, s)
    BY <1>2, <1>4, <1>6, <2>1, <2>2, <2>3, CompleteDelivers
  <2> QED BY <1>4, <2>4 DEF Delivered
<1>7. CASE /\ l.registered # 0 /\ lc' = Stopped(l, child)
           /\ Turn(p, [s EXCEPT !.pc = "unregister", !.done = <<child>>])
  <2>1. child \in Upto(l.made)
    BY <1>1, <1>7 DEF Upto
  <2>2. SameShape(l, lc')
    BY <1>7, <2>1, StoppedFacts
  <2>3. lc'.registered = l.registered /\ lc'.last = l.last
    BY <2>2 DEF SameShape, Marks
  <2>4. proc'[p].pc = "unregister" /\ proc'[p].active = active /\ proc'[p].done = <<child>>
    BY <1>4, <1>7 DEF Turn, TaskOf
  <2> QED BY <1>7, <2>3, <2>4 DEF Unregisters
<1> QED BY <1>3, <1>5, <1>6, <1>7

Alters(r) == r.call \in {"add", "remove"}

\* Where Part is in a scope, or loaded, its component class has been registered.
Imports ==
  /\ load[Part] > 0 => class # 0
  /\ Part \in ToSet(lc.scope) => class # 0
  /\ \A p \in Procs : Part \in ToSet(proc[p].before) => class # 0

\* An operation starts nothing, and is nowhere else than here.
Settled(p) ==
  /\ At(p, "idle") => proc[p].phase = "none"
  /\ Alters(proc[p]) => /\ proc[p].phase = "none"
                        /\ proc[p].pc \in {"idle", "unregister", "wait", "refreshing"}

\* The operations UndisturbedOperationRefreshes is about, ...
Watched(p) ==
  proc[p].alone /\ proc[p].synced /\ Alters(proc[p]) /\ proc[p].before # lc.scope

\* ... and what holds of them at each await.
Accounted(p) ==
  Watched(p) =>
    /\ At(p, "unregister") =>
         /\ lc.last = proc[p].before
         /\ proc[p].active = IF Contains(lc.scope, Part) THEN class ELSE 0
         /\ lc.registered # 0 /\ proc[p].done = <<<<Part, lc.registered>>>>
    /\ At(p, "wait") => lc.changed
    /\ At(p, "wait") \/ At(p, "refreshing") => Fitting(lc) /\ Given(lc)
    /\ At(p, "refreshing") => ~lc.iter[p].own /\ Reached(lc, p)
    /\ At(p, "idle") /\ proc[p].outcome = "returned" =>
         Fitting(lc) /\ (agent => \A c \in ToSet(lc.children) : Sees(lc, c))

HInv == TypeInv /\ Imports /\ \A p \in Procs : Settled(p) /\ Accounted(p)

LEMMA EndsSettled ==
  ASSUME NEW p \in Procs, NEW r, Ends(p, r, lc), Alters(r) => r.phase = "none"
  PROVE  Settled(p)'
<1>1. proc'[p].pc \in Places
  BY DEF Ends, Quiet, Begun, Goes, Left, TaskOf
<1>2. CASE Quiet(p, r, lc)
  <2>1. Alters(proc'[p]) => r.phase = "none"
    BY <1>2 DEF Quiet, Alters
  <2> QED BY <1>1, <1>2, <2>1 DEF Quiet, Settled, At, Alters, Places
<1>3. CASE Begun(p, r, lc)
  BY <1>3 DEF Begun, Goes, Settled, At, Alters
<1> QED BY <1>2, <1>3 DEF Ends

LEMMA ImportsStay ==
  ASSUME TypeInv, Imports, NEW p \in Procs, NEW r, NEW l, Left(p, lc), Stays(p, r, l),
         class # 0 => class' # 0, load'[Part] > 0 => class' # 0,
         Part \in ToSet(l.scope) => class' # 0, Part \in ToSet(r.before) => class' # 0
  PROVE  Imports'
<1>1. Part \in ToSet(lc'.scope) => class' # 0
  BY DEF Stays
<1>2. ASSUME NEW q \in Procs, Part \in ToSet(proc'[q].before) PROVE class' # 0
  <2>1. CASE q = p
    BY <1>2, <2>1 DEF Stays, Same
  <2>2. CASE q # p
    <3>1. proc[q] \in TaskOf(lc.made)
      BY TypedFacts
    <3>2. proc'[q] = [proc[q] EXCEPT !.alone = FALSE]
      BY <2>2 DEF Left, Turn
    <3>3. proc'[q].before = proc[q].before
      BY <3>1, <3>2 DEF TaskOf
    <3> QED BY <1>2, <3>3 DEF Imports
  <2> QED BY <2>1, <2>2
<1> QED BY <1>1, <1>2 DEF Imports

\* A stretch that imports nothing.
LEMMA ImportsKept ==
  ASSUME TypeInv, Imports, NEW p \in Procs, NEW r, NEW l, Left(p, lc), Stays(p, r, l),
         class' = class, load' = load, l.scope = lc.scope,
         r.before = lc.scope \/ r.before = proc[p].before
  PROVE  Imports'
<1>1. /\ Part \in ToSet(l.scope) => class' # 0
      /\ Part \in ToSet(r.before) => class' # 0
      /\ class # 0 => class' # 0
      /\ load'[Part] > 0 => class' # 0
  BY DEF Imports
<1> QED BY <1>1, ImportsStay

\* A call that brings the components up to the scope it has made.
SyncsTo(p, call, scope, l) ==
  /\ scope \in Scopes /\ LifecycleOK(l) /\ l.made = lc.made
  /\ l.scope = scope /\ l.last = lc.last
  /\ Sync(p, Called(p, call), l)

LEMMA ScopedSyncs ==
  ASSUME TypeInv, NEW p \in Procs, NEW call, NEW scope \in Scopes,
         NEW shared \in BOOLEAN, NEW given \in Seq(Exts),
         NEW l, l = Scoped(lc, scope, shared, given), Sync(p, Called(p, call), l)
  PROVE  SyncsTo(p, call, scope, l)
BY TypedFacts, ScopeKeeps DEF SyncsTo, Keeps

LEMMA AddSyncs ==
  ASSUME TypeInv, Imports, NEW p \in Procs, NEW x \in Exts, AddExtension(p, x)
  PROVE  \E scope, l : /\ SyncsTo(p, "add", scope, l)
                       /\ Part \in ToSet(scope) => class' # 0
<1> DEFINE s == IF Contains(lc.scope, x) THEN lc.scope ELSE Append(lc.scope, x)
           g == IF lc.shared THEN s ELSE lc.given
           l == Scoped(lc, s, lc.shared, g)
<1>1. lc.scope \in Distinct(Exts) /\ class \in Nat
  BY TypedFacts DEF Scopes
<1>2. s \in Scopes /\ ToSet(s) \subseteq ToSet(lc.scope) \cup {x}
  <2>1. CASE Contains(lc.scope, x)
    BY <2>1, TypedFacts
  <2>2. CASE ~Contains(lc.scope, x)
    <3>1. x \notin ToSet(lc.scope)
      BY <1>1, <2>2, DistinctFacts
    <3>2. /\ Append(lc.scope, x) \in Distinct(Exts)
          /\ ToSet(Append(lc.scope, x)) = ToSet(lc.scope) \cup {x}
      BY <1>1, <3>1, DistinctAppend
    <3> QED BY <2>2, <3>2 DEF Scopes
  <2> QED BY <2>1, <2>2
<1>3. Sync(p, Called(p, "add"), l)
  BY TypedFacts DEF AddExtension, Scoped, Lifecycle
<1>4. Part \in ToSet(s) => class' # 0
  <2>1. \/ load[x] = 0 /\ class' = IF x = Part THEN class + 1 ELSE class
        \/ load[x] > 0 /\ class' = class
    BY DEF AddExtension, Imported
  <2> HIDE DEF s
  <2> QED BY <1>1, <1>2, <2>1 DEF Imports
<1> HIDE DEF s
<1>5. g \in Seq(Exts) /\ lc.shared \in BOOLEAN
  BY <1>2, TypedFacts DEF Scopes, Distinct
<1> HIDE DEF g, l
<1>6. SyncsTo(p, "add", s, l)
  BY <1>2, <1>3, <1>5, ScopedSyncs DEF l
<1> QED BY <1>4, <1>6

LEMMA RemoveSyncs ==
  ASSUME TypeInv, Imports, NEW p \in Procs, NEW x \in Exts, RemoveExtension(p, x)
  PROVE  \E scope, l : /\ SyncsTo(p, "remove", scope, l)
                       /\ Part \in ToSet(scope) => class' # 0
<1> DEFINE s == RemoveFirst(lc.scope, x)
           no == FALSE
           l == Scoped(lc, s, no, lc.given)
<1>1. s \in Scopes /\ ToSet(s) \subseteq ToSet(lc.scope)
  BY TypedFacts, RemovesScope
<1>2. Sync(p, Called(p, "remove"), l)
  BY TypedFacts DEF RemoveExtension, Scoped, Lifecycle
<1>3. no \in BOOLEAN /\ class' = class
  BY DEF RemoveExtension
<1> HIDE DEF s, no, l
<1>4. SyncsTo(p, "remove", s, l)
  BY <1>1, <1>2, <1>3, TypedFacts, ScopedSyncs DEF l
<1> QED BY <1>1, <1>3, <1>4 DEF Imports

LEMMA ReloadSyncs ==
  ASSUME TypeInv, Imports, NEW p \in Procs, NEW x \in Exts, ReloadExtension(p, x)
  PROVE  \E scope, l : /\ SyncsTo(p, "reload", scope, l)
                       /\ Part \in ToSet(scope) => class' # 0
<1> DEFINE r == RemoveFirst(lc.scope, x)
           s == Append(r, x)
           no == FALSE
           l == Scoped(lc, s, no, lc.given)
<1>1. r \in Distinct(Exts) /\ x \notin ToSet(r) /\ ToSet(r) \subseteq ToSet(lc.scope)
  BY TypedFacts, RemovesScope DEF Scopes
<1>2. Sync(p, Called(p, "reload"), l)
  BY TypedFacts DEF ReloadExtension, Scoped, Lifecycle
<1> HIDE DEF r
<1>3. s \in Scopes /\ ToSet(s) = ToSet(r) \cup {x}
  BY <1>1, DistinctAppend DEF Scopes
<1>4. class' = IF x = Part THEN class + 1 ELSE class
  BY DEF ReloadExtension, Imported
<1>5. no \in BOOLEAN
  OBVIOUS
<1> HIDE DEF s, no, l
<1>6. SyncsTo(p, "reload", s, l)
  BY <1>2, <1>3, <1>5, TypedFacts, ScopedSyncs DEF l
<1>7. Part \in ToSet(s) => class' # 0
  BY <1>1, <1>3, <1>4, TypedFacts DEF Imports
<1> QED BY <1>6, <1>7

\* An operation that syncs: its scope is kept or put back, and if it is the one to
\* watch it is where it should be.
LEMMA SyncsStays ==
  ASSUME TypeInv, NEW p \in Procs, NEW call \in Operations, NEW scope, NEW l,
         SyncsTo(p, call, scope, l), class' \in 0 .. MaxLoads
  PROVE  Stays(p, Called(p, call), l) /\ l.scope = scope
<1>1. Called(p, call) \in TaskOf(l.made)
  BY CalledFacts DEF SyncsTo
<1> QED BY <1>1, TypedFacts, SyncStays DEF SyncsTo

LEMMA SyncsAccounted ==
  ASSUME TypeInv, NEW p \in Procs, NEW call \in {"add", "remove"}, NEW scope, NEW l,
         SyncsTo(p, call, scope, l), class' \in 0 .. MaxLoads, agent' = agent,
         Part \in ToSet(scope) => class' # 0, proc[p].phase = "none"
  PROVE  Accounted(p)'
<1> DEFINE r == Called(p, call)
<1>1. /\ r \in TaskOf(l.made) /\ r.phase = "none" /\ r.call \in Operations
      /\ r.before = lc.scope /\ (r.synced => lc.scope = lc.last)
  BY CalledFacts DEF SyncsTo, Operations
<1>2. /\ LifecycleOK(l) /\ l.scope = scope /\ l.last = lc.last /\ Sync(p, r, l)
  BY DEF SyncsTo
<1> HIDE DEF r
<1>3. Stays(p, r, l)
  BY <1>1, <1>2, TypedFacts, SyncStays
<1> SUFFICES ASSUME Watched(p)' PROVE Accounted(p)'
  BY DEF Accounted
<1>4. /\ proc'[p].before = lc.scope /\ lc'.scope # lc.scope /\ lc.scope = lc.last
      /\ lc'.scope = l.scope /\ l.scope # l.last
  BY <1>1, <1>2, <1>3 DEF Watched, Stays, Same
<1> DEFINE active == IF Contains(l.scope, Part) THEN class' ELSE 0
<1>5. Delivered(p, r) \/ Unregisters(p, l.last, active)
  BY <1>1, <1>2, <1>4, SyncDelivers
<1>6. CASE Delivered(p, r)
  BY <1>1, <1>4, <1>6 DEF Delivered, Accounted, Watched, At, Fitting, Given
<1>7. CASE Unregisters(p, l.last, active)
  BY <1>2, <1>4, <1>7 DEF Unregisters, Accounted, Watched, At
<1> QED BY <1>5, <1>6, <1>7

\* An operation that fails has put the scope back: there is nothing to watch.
LEMMA FailedAccounted ==
  ASSUME TypeInv, NEW p \in Procs, NEW r, NEW l, Stays(p, r, l),
         r.call \in Operations => lc'.scope = r.before
  PROVE  Accounted(p)'
BY DEF Accounted, Watched, Alters, Stays, Same, Operations

LEMMA UnregisterAccounted ==
  ASSUME HInv, NEW p \in Procs, Unregister(p)
  PROVE  Stays(p, proc[p], lc) /\ Accounted(p)'
<1> DEFINE child == Head(proc[p].done)
           r == [proc[p] EXCEPT !.done = <<>>]
           m == Removed(lc, child)
<1>1. /\ class' = class /\ agent' = agent /\ load' = load /\ At(p, "unregister")
      /\ IF Contains(lc.children, child) THEN Complete(p, r, m) ELSE Raise(p, r, lc)
  BY DEF Unregister
<1>2. TypeInv /\ Imports /\ Settled(p) /\ Accounted(p)
  BY DEF HInv
<1>3. /\ r \in TaskOf(lc.made) /\ Same(proc[p], r) /\ r.active = proc[p].active
      /\ r.phase = proc[p].phase
  <2>1. proc[p] \in TaskOf(lc.made) /\ <<>> \in Seq(Upto(lc.made))
    BY <1>2, TypedFacts
  <2> QED BY <2>1 DEF TaskOf, Same
<1>4. child[1] = Part
  BY <1>1, <1>2, TypedFacts DEF At, Recorded
<1>5. Contains(lc.children, child) <=> child \in ToSet(lc.children)
  <2>1. lc.children \in Lists(lc.made) /\ lc.made \in Nat
    BY <1>2, TypedFacts DEF Lifecycle
  <2> QED BY <2>1, ListFacts
<1>6. lc.registered # 0 => <<Part, lc.registered>> \in ToSet(lc.children)
  BY <1>2, TypedFacts DEF LifecycleOK, Present
<1>7. lc.scope \in Distinct(Exts)
  BY <1>2, TypedFacts DEF Scopes
<1> HIDE DEF r, m, child
<1>8. CASE child \in ToSet(lc.children)
  <2>1. lc.registered # 0 /\ child = <<Part, lc.registered>>
    BY <1>2, <1>4, <1>8, TypedFacts, RegisteredIsListed
  <2>2. Keeps(lc, m, p) /\ Marks(lc, m) /\ m.registered = 0
    BY <1>2, <2>1, TypedFacts, RemovedKeeps DEF m
  <2>3. LifecycleOK(m) /\ r \in TaskOf(m.made)
    BY <1>2, <1>3, <2>2, TypedFacts, TaskGrows DEF Keeps
  <2>4. Complete(p, r, m)
    BY <1>1, <1>5, <1>8
  <2>5. Stays(p, r, m)
    BY <1>2, <2>3, <2>4, TypedFacts, CompleteStays
  <2>6. Stays(p, proc[p], lc)
    BY <1>3, <2>2, <2>5 DEF Stays, Same, Marks
  <2>7. ASSUME Watched(p)' PROVE Accounted(p)'
    <3>1. lc'.scope = lc.scope /\ Watched(p)
      BY <2>6, <2>7 DEF Watched, Stays, Same, Alters
    <3>2. /\ lc.last = proc[p].before /\ lc.scope # lc.last
          /\ proc[p].active = IF Contains(lc.scope, Part) THEN class ELSE 0
      BY <1>1, <1>2, <3>1 DEF Accounted, Watched
    <3>3. r.active # 0 <=> Part \in ToSet(lc.scope)
      BY <1>2, <1>3, <1>7, <3>2, DistinctFacts DEF Imports
    <3>4. r.phase = "none" /\ r.call \in Operations /\ r.before = proc[p].before
      BY <1>2, <1>3, <3>1 DEF Watched, Settled, Alters, Operations, Same
    <3>5. m.scope = lc.scope /\ m.last = lc.last
      BY <2>2 DEF Marks
    <3>6. Delivered(p, r)
      BY <2>2, <2>3, <2>4, <3>2, <3>3, <3>4, <3>5, CompleteDelivers
    <3> QED BY <1>1, <3>1, <3>4, <3>6 DEF Delivered, Accounted, Watched, At, Fitting, Given
  <2>8. Accounted(p)'
    BY <2>7 DEF Accounted
  <2> QED BY <2>6, <2>8
<1>9. CASE child \notin ToSet(lc.children)
  <2>1. Raise(p, r, lc)
    BY <1>1, <1>5, <1>9
  <2>2. Stays(p, r, lc) /\ (r.call \in Operations => lc'.scope = r.before)
    BY <1>2, <1>3, <2>1, TypedFacts, RaiseStays
  <2>3. Stays(p, proc[p], lc)
    BY <1>3, <2>2 DEF Stays, Same
  <2> QED BY <1>2, <2>2, <2>3, FailedAccounted
<1> QED BY <1>8, <1>9

\* A round of refresh() from l, which p has come to.
LEMMA RefreshAccounted ==
  ASSUME HInv, NEW p \in Procs, NEW l, LifecycleOK(l), l.made = lc.made,
         l.scope = lc.scope, l.registered = lc.registered,
         RefreshNext(p, proc[p], l), UNCHANGED <<load, class, agent>>,
         Watched(p) => Fitting(lc) /\ Given(l) /\ ~l.iter[p].own /\ Reached(l, p)
  PROVE  Stays(p, proc[p], lc) /\ Accounted(p)'
<1>1. proc[p] \in TaskOf(l.made) /\ load \in [Exts -> 0 .. MaxLoads]
  BY TypedFacts DEF HInv
<1>2. Same(proc[p], proc'[p]) /\ lc'.scope = l.scope /\ lc'.registered = l.registered
  BY <1>1, RefreshNextReaches
<1>3. Stays(p, proc[p], lc)
  BY <1>2 DEF Stays
<1>4. ASSUME Watched(p)' PROVE Accounted(p)'
  <2>1. Watched(p)
    BY <1>2, <1>4 DEF Watched, Same, Alters
  <2>2. \/ /\ proc'[p].pc = "refreshing" /\ Given(lc')
           /\ ~lc'.iter[p].own /\ Reached(lc', p)
        \/ /\ proc'[p].pc = "idle" /\ proc'[p].outcome = "returned"
           /\ \A c \in ToSet(lc'.children) : Sees(lc', c)
    BY <1>1, <2>1, RefreshNextReaches
  <2>3. Fitting(lc')
    BY <1>2, <2>1 DEF Fitting
  <2> QED BY <2>2, <2>3 DEF Accounted, At, Fitting, Given, Reached, Sees
<1>5. Accounted(p)'
  BY <1>4 DEF Accounted
<1> QED BY <1>3, <1>5

LEMMA TakeRefreshLockAccounted ==
  ASSUME HInv, NEW p \in Procs, TakeRefreshLock(p)
  PROVE  Stays(p, proc[p], lc) /\ Accounted(p)'
<1> DEFINE k == Looping(Rebound(lc, lc.children), p, 0)
<1>1. /\ UNCHANGED <<load, class, agent>> /\ At(p, "wait")
      /\ IF lc.changed THEN RefreshNext(p, proc[p], k) ELSE Return(p, proc[p], lc)
  BY DEF TakeRefreshLock
<1>2. LifecycleOK(lc) /\ proc[p] \in TaskOf(lc.made) /\ Accounted(p)
  BY TypedFacts DEF HInv
<1>3. /\ LifecycleOK(k) /\ k.made = lc.made /\ k.registered = lc.registered /\ Marks(lc, k)
      /\ ToSet(k.children) = ToSet(lc.children) /\ k.comp = lc.comp
      /\ ~k.iter[p].own /\ k.iter[p].at = 0
  BY <1>2, LoopBegins
<1> HIDE DEF k
<1>4. CASE lc.changed
  <2>1. Reached(k, p)
    BY <1>3 DEF Reached
  <2>2. Watched(p) => Fitting(lc) /\ Given(k)
    BY <1>1, <1>2, <1>3 DEF Accounted, Given, Marks
  <2> QED BY <1>1, <1>3, <1>4, <2>1, <2>2, RefreshAccounted DEF Marks
<1>5. CASE ~lc.changed
  <2>1. Stays(p, proc[p], lc) /\ lc'.scope = lc.scope
    BY <1>1, <1>2, <1>5, EndedStays DEF Return, Stays, Marks
  <2>2. ~Watched(p)
    BY <1>1, <1>2, <1>5 DEF Accounted
  <2>3. Accounted(p)'
    BY <2>1, <2>2 DEF Accounted, Watched, Stays, Same, Alters
  <2> QED BY <2>1, <2>3
<1> QED BY <1>4, <1>5

LEMMA ComponentRefreshesAccounted ==
  ASSUME HInv, NEW p \in Procs, ComponentRefreshes(p)
  PROVE  Stays(p, proc[p], lc) /\ Accounted(p)'
<1>1. /\ UNCHANGED <<load, class, agent>> /\ At(p, "refreshing")
      /\ RefreshNext(p, proc[p], lc)
  BY DEF ComponentRefreshes
<1>2. LifecycleOK(lc) /\ Accounted(p)
  BY TypedFacts DEF HInv
<1> QED BY <1>1, <1>2, RefreshAccounted DEF Accounted

\* The step of p leaves everything about p as HInv says, with the other tasks' part.
Kept(p) == TypeInv' /\ Imports' /\ Settled(p)' /\ Accounted(p)'

LEMMA KeptFor ==
  ASSUME HInv, NEW p \in Procs, Left(p, lc), Kept(p)
  PROVE  HInv'
<1> SUFFICES ASSUME NEW q \in Procs \ {p} PROVE Settled(q)' /\ Accounted(q)'
  BY DEF HInv, Kept
<1>1. Settled(q) /\ proc[q] \in TaskOf(lc.made)
  BY TypedFacts DEF HInv
<1>2. /\ proc'[q].pc = proc[q].pc /\ proc'[q].call = proc[q].call
      /\ proc'[q].phase = proc[q].phase
  BY OthersStay DEF HInv
<1>3. ~proc'[q].alone
  BY <1>1 DEF Left, Turn, TaskOf
<1>4. Settled(q)'
  BY <1>1, <1>2 DEF Settled, At, Alters
<1> QED BY <1>3, <1>4 DEF Accounted, Watched

\* A task that is not in such an operation.
LEMMA OtherCalls ==
  ASSUME NEW p \in Procs, proc'[p].call \notin {"add", "remove"}, proc'[p].pc # "idle"
  PROVE  Settled(p)' /\ Accounted(p)'
BY DEF Settled, Accounted, Watched, Alters, At

\* A stretch that ends as those of sync_registered() and refresh() do.
LEMMA EndsKept ==
  ASSUME HInv, NEW p \in Procs, NEW r, Ends(p, r, lc), TypeInv', Imports',
         Alters(r) => r.phase = "none",
         Accounted(p)' \/ (Stays(p, r, lc) /\ ~Alters(r))
  PROVE  Kept(p)
<1>1. Settled(p)'
  BY EndsSettled
<1>2. Stays(p, r, lc) /\ ~Alters(r) => Accounted(p)'
  BY DEF Stays, Same, Accounted, Watched, Alters
<1> QED BY <1>1, <1>2 DEF Kept

LEMMA EnsureKept ==
  ASSUME HInv, TypeInv', NEW p \in Procs, Ensure(p)
  PROVE  Left(p, lc) /\ Kept(p)
<1>1. TypeInv /\ Imports
  BY DEF HInv
<1>2. /\ Called(p, "ensure") \in TaskOf(lc.made) /\ Called(p, "ensure").before = lc.scope
  BY <1>1, CalledFacts
<1>3. /\ lc' = lc /\ Left(p, lc) /\ proc'[p].pc = "ready" /\ proc'[p].call = "ensure"
      /\ class' = class /\ load' = load
  BY <1>1, EnsureFacts DEF Ensure
<1>4. Stays(p, Called(p, "ensure"), lc)
  BY <1>2, <1>3, PlacedStays DEF Ensure, Stays
<1>5. Imports'
  BY <1>1, <1>2, <1>3, <1>4, ImportsKept
<1> QED BY <1>3, <1>5, OtherCalls DEF Kept

LEMMA StopKept ==
  ASSUME HInv, TypeInv', NEW p \in Procs, Stop(p)
  PROVE  Left(p, lc) /\ Kept(p)
<1> DEFINE r == Called(p, "stop")
           n == Len(lc.children)
           i == [own |-> FALSE, list |-> <<>>, at |-> n]
           l == Looping(lc, p, n)
<1>1. TypeInv /\ Imports /\ LifecycleOK(lc)
  BY TypedFacts DEF HInv
<1>2. r \in TaskOf(lc.made) /\ r.before = lc.scope
  BY <1>1, CalledFacts
<1>3. /\ Left(p, lc) /\ proc'[p].call = "stop" /\ proc'[p].pc # "idle"
      /\ class' = class /\ load' = load /\ StopNext(p, r, l)
  BY <1>1, StopFacts DEF Stop
<1>4. lc.children \in Lists(lc.made) /\ n \in Nat
  BY <1>1, TypedFacts, ListFacts DEF Lifecycle
<1>5. i \in Iteration(lc.made)
  <2>1. <<>> \in Lists(lc.made)
    BY DEF Lists, Distinct, IsInjective
  <2> QED BY <1>4, <2>1 DEF Iteration
<1>6. l = Looped(lc, p, i)
  BY DEF Looping, Looped
<1> HIDE DEF i, l, r
<1>7. LifecycleOK(l) /\ l.made = lc.made /\ l.scope = lc.scope
  BY <1>1, <1>5, <1>6, LoopMoves DEF Keeps, Marks
<1>8. Stays(p, r, l)
  BY <1>2, <1>3, <1>7, StopNextStays
<1>9. Imports'
  BY <1>1, <1>2, <1>3, <1>7, <1>8, ImportsKept
<1> QED BY <1>3, <1>9, OtherCalls DEF Kept

\* An operation that imports x, or nothing.
LEMMA OperationKept ==
  ASSUME HInv, TypeInv', NEW p \in Procs, NEW call \in Operations, At(p, "idle"),
         Ends(p, Called(p, call), lc), agent' = agent,
         class # 0 => class' # 0, load'[Part] > 0 => class' # 0,
         \E scope, l : SyncsTo(p, call, scope, l) /\ (Part \in ToSet(scope) => class' # 0)
  PROVE  Left(p, lc) /\ Kept(p)
<1>1. TypeInv /\ Imports /\ Settled(p) /\ class' \in 0 .. MaxLoads
  BY DEF HInv, TypeInv, ModulesOK
<1>2. PICK scope, l : SyncsTo(p, call, scope, l) /\ (Part \in ToSet(scope) => class' # 0)
  OBVIOUS
<1> DEFINE r == Called(p, call)
<1>3. /\ r.call = call /\ r.phase = "none" /\ r.before = lc.scope
  BY <1>1, CalledFacts DEF Settled
<1>4. Stays(p, r, l) /\ l.scope = scope
  BY <1>1, <1>2, SyncsStays
<1>5. Left(p, lc)
  BY EndsLeft
<1> HIDE DEF r
<1>6. Imports'
  <2>1. Part \in ToSet(l.scope) => class' # 0
    BY <1>2, <1>4
  <2>2. Part \in ToSet(r.before) => class' # 0
    BY <1>1, <1>3 DEF Imports
  <2> QED BY <1>1, <1>4, <1>5, <2>1, <2>2, ImportsStay
<1>7. Accounted(p)'
  <2>1. CASE call \in {"add", "remove"}
    BY <1>1, <1>2, <1>3, <2>1, SyncsAccounted DEF Settled
  <2>2. CASE call \notin {"add", "remove"}
    BY <1>3, <1>4, <2>2 DEF Stays, Same, Accounted, Watched, Alters
  <2> QED BY <2>1, <2>2
<1>8. Settled(p)'
  BY <1>3, EndsSettled DEF r
<1> QED BY <1>5, <1>6, <1>7, <1>8 DEF Kept

LEMMA ChangesKept ==
  ASSUME HInv, TypeInv', NEW p \in Procs, NEW x \in Exts,
         AddExtension(p, x) \/ RemoveExtension(p, x) \/ ReloadExtension(p, x)
  PROVE  Left(p, lc) /\ Kept(p)
<1>1. TypeInv /\ Imports /\ class \in Nat /\ load \in [Exts -> 0 .. MaxLoads]
  BY TypedFacts DEF HInv
<1>2. Part \in Exts /\ MaxLoads \in Nat
  BY LifecycleAssumption
<1>3. \/ Imported(x)
      \/ load' = load /\ class' = class
  BY DEF AddExtension, RemoveExtension, ReloadExtension
<1>4. (class # 0 => class' # 0) /\ (load'[Part] > 0 => class' # 0)
  BY <1>1, <1>2, <1>3 DEF Imported, Imports
<1>5. At(p, "idle")
  BY DEF AddExtension, RemoveExtension, ReloadExtension, Begins
<1>6. CASE AddExtension(p, x)
  BY <1>1, <1>4, <1>5, <1>6, AddFacts, AddSyncs, OperationKept DEF Operations
<1>7. CASE RemoveExtension(p, x)
  BY <1>1, <1>4, <1>5, <1>7, RemoveExtensionFacts, RemoveSyncs, OperationKept DEF Operations
<1>8. CASE ReloadExtension(p, x)
  BY <1>1, <1>4, <1>5, <1>8, ReloadFacts, ReloadSyncs, OperationKept DEF Operations
<1> QED BY <1>6, <1>7, <1>8

LEMMA ImportFailsKept ==
  ASSUME HInv, TypeInv', NEW p \in Procs, NEW x \in Exts, ImportFails(p, x)
  PROVE  Left(p, lc) /\ Kept(p)
<1>1. TypeInv /\ Imports /\ Settled(p) /\ LifecycleOK(lc) /\ class \in Nat
  BY TypedFacts DEF HInv
<1>2. PICK call \in {"add", "reload"} :
        /\ At(p, "idle") /\ Importable(x) /\ UNCHANGED <<load, agent>>
        /\ class' \in IF x = Part THEN {class, class + 1} ELSE {class}
        /\ Raise(p, Called(p, call), lc)
  BY DEF ImportFails, Begins
<1> DEFINE r == Called(p, call)
<1>3. /\ r \in TaskOf(lc.made) /\ r.phase = "none" /\ r.before = lc.scope
      /\ r.call = call /\ call \in Operations
  BY <1>1, <1>2, CalledFacts DEF Settled, Operations
<1>4. Ends(p, r, lc) /\ Raise(p, r, lc)
  BY <1>1, <1>2, ImportFailsFacts
<1>5. load' = load /\ (class # 0 => class' # 0)
  BY <1>1, <1>2
<1> HIDE DEF r
<1>6. Stays(p, r, lc) /\ (r.call \in Operations => lc'.scope = r.before) /\ Left(p, lc)
  BY <1>1, <1>3, <1>4, RaiseStays, EndsLeft
<1>7. Imports'
  <2>1. /\ Part \in ToSet(lc.scope) => class' # 0
        /\ Part \in ToSet(r.before) => class' # 0
        /\ load'[Part] > 0 => class' # 0
    BY <1>1, <1>3, <1>5 DEF Imports
  <2> QED BY <1>1, <1>5, <1>6, <2>1, ImportsStay
<1>8. Accounted(p)'
  BY <1>1, <1>6, FailedAccounted
<1> QED BY <1>3, <1>4, <1>6, <1>7, <1>8, EndsKept

\* A stretch at an await, which has found the scope that p's call has.
LEMMA AwaitKept ==
  ASSUME HInv, TypeInv', NEW p \in Procs, Ends(p, proc[p], lc), Stays(p, proc[p], lc),
         Accounted(p)' \/ ~Alters(proc[p]), UNCHANGED <<load, class>>
  PROVE  Left(p, lc) /\ Kept(p)
<1>1. TypeInv /\ Imports /\ Settled(p)
  BY DEF HInv
<1>2. Left(p, lc)
  BY EndsLeft
<1>3. Imports'
  BY <1>1, <1>2, ImportsKept
<1> QED BY <1>1, <1>2, <1>3, EndsKept DEF Settled

LEMMA RaiseKept ==
  ASSUME HInv, TypeInv', NEW p \in Procs, Ends(p, proc[p], lc), Raise(p, proc[p], lc),
         UNCHANGED <<load, class>>
  PROVE  Left(p, lc) /\ Kept(p)
<1>1. TypeInv /\ LifecycleOK(lc) /\ proc[p] \in TaskOf(lc.made)
  BY TypedFacts DEF HInv
<1>2. /\ Stays(p, proc[p], lc)
      /\ proc[p].call \in Operations => lc'.scope = proc[p].before
  BY <1>1, RaiseStays
<1>3. Accounted(p)'
  BY <1>1, <1>2, FailedAccounted
<1> QED BY <1>2, <1>3, AwaitKept

\* The stretches of sync_registered() in a start.
LEMMA StarterKept ==
  ASSUME HInv, TypeInv', NEW p \in Procs, proc[p].pc \in {"ready", "hook"},
         NEW phase \in Phases, NEW r, r = [proc[p] EXCEPT !.phase = phase],
         Sync(p, r, lc), Ends(p, r, lc), UNCHANGED <<load, class>>
  PROVE  Left(p, lc) /\ Kept(p)
<1>1. /\ TypeInv /\ Imports /\ Settled(p) /\ LifecycleOK(lc) /\ proc[p] \in TaskOf(lc.made)
      /\ load \in [Exts -> 0 .. MaxLoads] /\ class' \in 0 .. MaxLoads
  BY TypedFacts DEF HInv
<1>2. /\ r \in TaskOf(lc.made) /\ r.call = proc[p].call /\ r.before = proc[p].before
  BY <1>1 DEF TaskOf
<1>3. ~Alters(r)
  BY <1>1, <1>2 DEF Settled, Alters
<1>4. Left(p, lc)
  BY EndsLeft
<1>5. Stays(p, r, lc)
  BY <1>1, <1>2, SyncStays
<1>6. Imports'
  BY <1>1, <1>2, <1>4, <1>5, ImportsKept
<1> QED BY <1>3, <1>4, <1>5, <1>6, EndsKept

\* The stretches of start() and stop(), which are not those of such an operation.
LEMMA LoopKept ==
  ASSUME HInv, TypeInv', NEW p \in Procs, Left(p, lc), Stays(p, proc[p], lc),
         proc[p].pc \in {"starting", "rollback", "stopping"}, proc'[p].pc # "idle",
         UNCHANGED <<load, class>>
  PROVE  Kept(p)
<1>1. TypeInv /\ Imports /\ Settled(p)
  BY DEF HInv
<1>2. proc'[p].call \notin {"add", "remove"}
  BY <1>1 DEF Settled, Alters, Stays, Same
<1>3. Imports'
  BY <1>1, ImportsKept
<1> QED BY <1>2, <1>3, OtherCalls DEF Kept

LEMMA RollBackBreaksStays ==
  ASSUME TypeInv, NEW p \in Procs, RollBackBreaks(p)
  PROVE  /\ Stays(p, proc[p], lc)
         /\ proc[p].call \in Operations => lc'.scope = proc[p].before
<1> DEFINE m == Abandoned(lc, proc[p].done)
<1>1. Raise(p, proc[p], m)
  BY DEF RollBackBreaks
<1>2. LifecycleOK(m) /\ m.made = lc.made /\ m.scope = lc.scope
  BY TypedFacts, AbandonedFacts DEF SameShape, Marks
<1> HIDE DEF m
<1>3. proc[p] \in TaskOf(m.made)
  BY <1>2, TypedFacts
<1>4. /\ Stays(p, proc[p], m)
      /\ proc[p].call \in Operations => lc'.scope = proc[p].before
  BY <1>1, <1>2, <1>3, RaiseStays
<1> QED BY <1>2, <1>4 DEF Stays

LEMMA RollBackKept ==
  ASSUME HInv, TypeInv', NEW p \in Procs, RollBack(p)
  PROVE  Left(p, lc) /\ Kept(p)
<1>1. TypeInv /\ LifecycleOK(lc) /\ proc[p] \in TaskOf(lc.made) /\ Recorded(proc[p])
  BY TypedFacts DEF HInv
<1> DEFINE c == Last(proc[p].done)
<1>2. Left(p, lc) /\ proc'[p].pc = "rollback"
  BY <1>1, RollBackFacts
<1>3. /\ UNCHANGED <<load, class>> /\ proc[p].pc \in {"starting", "rollback"}
      /\ proc[p].done # <<>> /\ lc' = Stopped(lc, c)
      /\ Turn(p, [proc[p] EXCEPT !.pc = "rollback", !.done = Front(@),
                                 !.hand = Last(proc[p].done)])
  BY <1>1 DEF RollBack, At, Recorded
<1>4. c \in Upto(lc.made)
  <2>1. proc[p].done \in Seq(Upto(lc.made))
    BY <1>1 DEF TaskOf
  <2> QED BY <1>3, <2>1, FrontAndLast
<1> HIDE DEF c
<1>5. lc'.scope = lc.scope
  BY <1>1, <1>3, <1>4, StoppedFacts DEF SameShape, Marks
<1>6. Same(proc[p], proc'[p])
  BY <1>1, <1>3 DEF Turn, TaskOf, Same
<1>7. Stays(p, proc[p], lc)
  BY <1>5, <1>6 DEF Stays
<1> QED BY <1>2, <1>3, <1>7, LoopKept

LEMMA HistoryStep ==
  ASSUME HInv, [Next]_vars
  PROVE  HInv'
<1>1. TypeInv /\ TypeInv'
  BY TypeStep DEF HInv
<1>2. CASE UNCHANGED vars
  BY <1>1, <1>2 DEF vars, HInv, Imports, Settled, Accounted, Watched, At, Fitting, Given,
                    Reached, Sees
<1> SUFFICES ASSUME NEW p \in Procs, Begin(p) \/ Proceed(p)
             PROVE  Left(p, lc) /\ Kept(p)
  BY <1>2, KeptFor DEF Next
<1>3. LifecycleOK(lc) /\ proc[p] \in TaskOf(lc.made) /\ load \in [Exts -> 0 .. MaxLoads]
  BY <1>1, TypedFacts
<1>4. CASE Ensure(p)
  BY <1>1, <1>4, EnsureKept
<1>5. CASE Stop(p)
  BY <1>1, <1>5, StopKept
<1>6. ASSUME NEW x \in Exts, AddExtension(p, x) \/ RemoveExtension(p, x) \/ ReloadExtension(p, x)
      PROVE  Left(p, lc) /\ Kept(p)
  BY <1>1, <1>6, ChangesKept
<1>7. ASSUME NEW x \in Exts, ImportFails(p, x) PROVE Left(p, lc) /\ Kept(p)
  BY <1>1, <1>7, ImportFailsKept
<1>8. CASE TakeStartLock(p)
  <2> DEFINE phase == IF agent THEN "refresh" ELSE "start"
             r == [proc[p] EXCEPT !.phase = phase]
  <2>1. phase \in Phases
    BY DEF Phases
  <2>2. /\ Sync(p, r, lc) /\ UNCHANGED <<load, class>> /\ proc[p].pc \in {"ready", "hook"}
    BY <1>8 DEF TakeStartLock, At
  <2>3. Ends(p, r, lc)
    BY <1>1, <1>8, TakeStartLockFacts
  <2> HIDE DEF phase
  <2> QED BY <1>1, <2>1, <2>2, <2>3, StarterKept
<1>9. CASE Unregister(p)
  <2>1. UNCHANGED <<load, class>> /\ Ends(p, proc[p], lc)
    BY <1>1, <1>9, UnregisterFacts DEF Unregister
  <2> QED BY <1>1, <1>9, <2>1, UnregisterAccounted, AwaitKept
<1>10. CASE ComponentStarts(p)
  <2>1. /\ UNCHANGED <<load, class>> /\ proc[p].pc \in {"starting", "rollback", "stopping"}
        /\ StartNext(p, proc[p], lc)
    BY <1>10 DEF ComponentStarts, At
  <2>2. Left(p, lc) /\ proc'[p].pc # "idle"
    BY <1>1, <1>10, ComponentStartsFacts DEF Goes
  <2>3. Stays(p, proc[p], lc)
    BY <1>3, <2>1, StartNextStays
  <2> QED BY <1>1, <2>1, <2>2, <2>3, LoopKept
<1>11. CASE RollBack(p)
  BY <1>1, <1>11, RollBackKept
<1>12. CASE RolledBack(p)
  BY <1>1, <1>12, RolledBackFacts, RaiseKept DEF RolledBack
<1>13. CASE HooksEnd(p)
  <2> DEFINE phase == "refresh"
             r == [proc[p] EXCEPT !.phase = phase]
  <2>1. phase \in Phases
    BY DEF Phases
  <2>2. /\ Sync(p, r, lc) /\ UNCHANGED <<load, class>> /\ proc[p].pc \in {"ready", "hook"}
    BY <1>13 DEF HooksEnd, At
  <2>3. Ends(p, r, lc)
    BY <1>1, <1>13, HooksEndFacts
  <2> HIDE DEF phase
  <2> QED BY <1>1, <2>1, <2>2, <2>3, StarterKept
<1>14. CASE TakeRefreshLock(p)
  <2>1. UNCHANGED <<load, class>> /\ Ends(p, proc[p], lc)
    BY <1>1, <1>14, TakeRefreshLockFacts DEF TakeRefreshLock
  <2> QED BY <1>1, <1>14, <2>1, TakeRefreshLockAccounted, AwaitKept
<1>15. CASE ComponentRefreshes(p)
  <2>1. UNCHANGED <<load, class>> /\ Ends(p, proc[p], lc)
    BY <1>1, <1>15, ComponentRefreshesFacts DEF ComponentRefreshes
  <2> QED BY <1>1, <1>15, <2>1, ComponentRefreshesAccounted, AwaitKept
<1>16. CASE ComponentStops(p)
  <2>1. UNCHANGED <<load, class>> /\ proc[p].pc \in {"starting", "rollback", "stopping"}
    BY <1>16 DEF ComponentStops, At
  <2>2. CASE Raise(p, proc[p], lc) /\ Ends(p, proc[p], lc)
    BY <1>1, <2>1, <2>2, RaiseKept
  <2>3. CASE StopNext(p, proc[p], lc) /\ Winds(p, proc[p], lc)
    <3>1. Left(p, lc) /\ proc'[p].pc # "idle"
      BY <2>3 DEF Winds
    <3>2. Stays(p, proc[p], lc)
      BY <1>3, <2>3, StopNextStays
    <3> QED BY <1>1, <2>1, <3>1, <3>2, LoopKept
  <2> QED BY <1>1, <1>16, <2>2, <2>3, ComponentStopsFacts
<1>30. CASE RollBackBreaks(p)
  <2>1. UNCHANGED <<load, class>>
    BY <1>30 DEF RollBackBreaks
  <2>2. /\ Quiet(p, proc[p], lc) /\ Stays(p, proc[p], lc)
        /\ proc[p].call \in Operations => lc'.scope = proc[p].before
    BY <1>1, <1>30, RollBackBreaksFacts, RollBackBreaksStays
  <2>3. Ends(p, proc[p], lc)
    BY <2>2 DEF Ends
  <2>4. Accounted(p)'
    BY <1>1, <2>2, FailedAccounted
  <2> QED BY <1>1, <2>1, <2>2, <2>3, <2>4, AwaitKept
<1>17. CASE Drained(p)
  <2>1. /\ UNCHANGED <<load, class>> /\ Ends(p, proc[p], lc) /\ Return(p, proc[p], lc)
        /\ proc[p].pc = "draining"
    BY <1>1, <1>17, DrainedFacts DEF Drained, At
  <2>2. Stays(p, proc[p], lc)
    BY <1>3, <2>1, ReturnStays
  <2>3. ~Alters(proc[p])
    BY <2>1 DEF HInv, Settled
  <2> QED BY <1>1, <2>1, <2>2, <2>3, AwaitKept
<1>18. CASE Fails(p)
  BY <1>1, <1>18, FailsFacts, RaiseKept DEF Fails
<1>19. CASE Begin(p)
  BY <1>4, <1>5, <1>6, <1>7, <1>19 DEF Begin
<1>20. CASE Proceed(p)
  BY <1>8, <1>9, <1>10, <1>11, <1>12, <1>13, <1>14, <1>15, <1>16, <1>17, <1>18, <1>20, <1>30
     DEF Proceed
<1> QED BY <1>19, <1>20

-----------------------------------------------------------------------------
(* The theorems                                                            *)

\* However the calls interleave and whatever fails, the state is what the code's
\* annotations say: the scope, the lists and the loops hold what there is.
THEOREM TypeCorrect == Spec => []TypeOK
<1>1. Init => TypeInv
  BY InitFacts DEF IInv
<1>2. TypeInv /\ [Next]_vars => TypeInv'
  BY TypeStep
<1>3. TypeInv => TypeOK
  <2> SUFFICES ASSUME TypeInv PROVE TypeOK
    OBVIOUS
  <2>1. /\ lc.made \in Nat /\ lc \in Lifecycle(lc.made) /\ lc.scope \in Distinct(Exts)
        /\ lc.last \in Seq(Exts) /\ lc.given \in Seq(Exts) /\ lc.registered \in 0 .. lc.made
        /\ lc.comp \in [Upto(lc.made) -> Component] /\ lc.children \in Lists(lc.made)
    BY TypedFacts DEF Scopes, Lifecycle
  <2>2. ToSet(lc.scope) \subseteq Exts /\ IsInjective(lc.scope)
    BY <2>1, DistinctFacts DEF Distinct
  <2>3. ToSet(lc.last) \cup ToSet(lc.given) \subseteq Exts
    BY <2>1 DEF ToSet
  <2>4. DOMAIN lc.comp = Core \cup ({Part} \X (1 .. lc.made))
    BY <2>1 DEF Upto
  <2>5. ToSet(lc.children) \subseteq DOMAIN lc.comp
    BY <2>1, ListFacts
  <2>6. \A c \in DOMAIN lc.comp : lc.comp[c].up \in Nat /\ lc.comp[c].class \in 0 .. MaxLoads
    BY <2>1 DEF Component
  <2>7. \A p \in Procs : proc[p].pc \in Places
    BY TypedFacts DEF TaskOf
  <2> QED BY <2>1, <2>2, <2>3, <2>4, <2>5, <2>6, <2>7 DEF TypeOK
<1> QED BY <1>1, <1>2, <1>3, PTL DEF Spec

\* sync_registered(), set_scope() and the loops of start(), refresh() and stop()
\* change _children in place while others loop over it; it holds one component
\* per key all the same, and _registered_children names the one of the extension.
THEOREM OneComponent == Spec => []OneComponentPerKey
<1>1. Init => TypeInv
  BY InitFacts DEF IInv
<1>2. TypeInv /\ [Next]_vars => TypeInv'
  BY TypeStep
<1>3. TypeInv => OneComponentPerKey
  <2> SUFFICES ASSUME TypeInv PROVE OneComponentPerKey
    OBVIOUS
  <2>1. ToSet(lc.children) = Present(lc) /\ lc.made \in Nat /\ lc.registered \in 0 .. lc.made
    BY DEF TypeInv, LifecycleOK, Lifecycle
  <2> QED BY <2>1, PresentFacts DEF OneComponentPerKey, Present
<1> QED BY <1>1, <1>2, <1>3, PTL DEF Spec

LEMMA SafeAlways ==
  ASSUME OneStopper
  PROVE  Spec => []IInv
<1>1. Init => IInv
  BY InitFacts
<1>2. IInv /\ [Next]_vars => IInv'
  BY SafeStep
<1> QED BY <1>1, <1>2, PTL DEF Spec

\* If one task calls stop(), no component is started again before it is stopped,
\* also when a start fails half-way and is tried again while operations change
\* the list of components.
THEOREM StartsOnce == OneStopper => (Spec => []StartedOnce)
<1> SUFFICES ASSUME OneStopper PROVE Spec => []StartedOnce
  OBVIOUS
<1>1. IInv => StartedOnce
  BY DEF IInv, Startup, OnceEach, StartedOnce
<1> QED BY <1>1, SafeAlways, PTL

\* If one task calls stop(), a lifecycle that is not started has, when every call
\* has ended, no listed component that is up.
THEOREM StartIsTransactional == OneStopper => (Spec => []NothingListedIsUp)
<1> SUFFICES ASSUME OneStopper PROVE Spec => []NothingListedIsUp
  OBVIOUS
<1>1. IInv => NothingListedIsUp
  BY DEF IInv, Startup, AllDown, Starting, At, NothingListedIsUp
<1> QED BY <1>1, SafeAlways, PTL

\* If nobody else moves, an add or a remove that changes the scope, from the scope
\* that was handed on last, leaves the components and what the Managers have found
\* as the new scope says, whatever failed, and whoever interleaved, before it.
THEOREM UndisturbedRefreshes == Spec => []UndisturbedOperationRefreshes
<1>1. Init => HInv
  <2> SUFFICES ASSUME Init PROVE HInv
    OBVIOUS
  <2>1. TypeInv
    BY InitFacts DEF IInv
  <2>2. \A p \in Procs : proc[p] = NewProc
    BY DEF Init
  <2>3. ToSet(<<>>) = {}
    BY DEF ToSet
  <2>4. Imports
    <3>1. ~ (load[Part] > 0) /\ lc.scope = <<>>
      BY LifecycleAssumption DEF Init
    <3> QED BY <2>2, <2>3, <3>1 DEF Imports, NewProc
  <2>5. \A p \in Procs : Settled(p) /\ Accounted(p)
    BY <2>2 DEF Settled, Accounted, Watched, Alters, At, NewProc
  <2> QED BY <2>1, <2>4, <2>5 DEF HInv
<1>2. HInv /\ [Next]_vars => HInv'
  BY HistoryStep
<1>3. HInv => UndisturbedOperationRefreshes
  <2> SUFFICES ASSUME HInv, NEW p \in Procs, proc[p].synced, proc[p].before # lc.scope,
                      At(p, "idle"), proc[p].call \in {"add", "remove"},
                      proc[p].outcome = "returned", proc[p].alone, agent
               PROVE  /\ lc.registered # 0 <=> Contains(lc.scope, Part)
                      /\ \A c \in ToSet(lc.children) : (IsManager(c) /\ lc.comp[c].open) =>
                           lc.comp[c].seen = {<<x, load[x]>> : x \in ToSet(lc.scope)}
    BY DEF UndisturbedOperationRefreshes, Refreshes
  <2>1. Fitting(lc) /\ \A c \in ToSet(lc.children) : Sees(lc, c)
    BY DEF HInv, Accounted, Watched, Alters
  <2>2. lc.scope \in Distinct(Exts)
    BY TypedFacts DEF HInv, Scopes
  <2>3. Contains(lc.scope, Part) <=> Part \in ToSet(lc.scope)
    BY <2>2, DistinctFacts
  <2> QED BY <2>1, <2>3 DEF Fitting, Sees
<1> QED BY <1>1, <1>2, <1>3, PTL DEF Spec
=============================================================================
