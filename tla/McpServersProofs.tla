-------------------------- MODULE McpServersProofs --------------------------
(***************************************************************************)
(* Theorems about the names ToolNames gives and about McpServers.           *)
(***************************************************************************)
EXTENDS McpServers, Integers, FiniteSets, FiniteSetTheorems, WellFoundedInduction, TLAPS

-----------------------------------------------------------------------------
(* Induction over the natural numbers and the existence of recursive        *)
(* functions, stated of sets and functions: a definition                    *)
(*    f[n \in 0..N] == IF n = 0 THEN a ELSE G(n, f[n - 1])                   *)
(* is a CHOOSE, and says something of f only once some f satisfies it.      *)

\* A set of numbers that is not empty has a least one.
LEMMA LeastNumber ==
  ASSUME NEW T, T \subseteq Nat, T # {}
  PROVE  \E m \in T : \A k \in T : m <= k
<1>1. PICK n \in T : TRUE
  OBVIOUS
<1>2. n \in Nat
  OBVIOUS
<1> DEFINE Up(k) == 0..k
           U == {Up(k) : k \in {j \in T : j <= n}}
           S == FiniteSubsetsOf(0..n)
           R == StrictSubsetOrdering(0..n)
<1>3. IsWellFoundedOn(R, S)
  BY FS_StrictSubsetOrderingWellFounded
<1>4. U \subseteq S
  <2> SUFFICES ASSUME NEW k \in T, k <= n PROVE Up(k) \in S
    OBVIOUS
  <2>1. k \in Nat
    OBVIOUS
  <2>2. Up(k) \subseteq 0..n
    BY <2>1, <1>2
  <2>3. IsFiniteSet(Up(k))
    BY <2>1, FS_Interval
  <2> QED BY <2>2, <2>3 DEF FiniteSubsetsOf
<1>5. U # {}
  BY <1>2
<1>6. PICK x \in U : \A y \in U : ~ (<<y, x>> \in R)
  <2> HIDE DEF R, S, U
  <2> QED BY <1>3, <1>4, <1>5, WFMin
<1>7. PICK m \in T : m <= n /\ x = Up(m)
  BY <1>6
<1>8. ASSUME NEW k \in T, k < m PROVE FALSE
  <2>1. k \in Nat /\ m \in Nat /\ k <= n
    BY <1>7, <1>8, <1>2
  <2>2. Up(k) \in U
    BY <2>1
  <2>3. Up(k) \subseteq 0..n /\ Up(m) \subseteq 0..n
    BY <2>1, <1>7, <1>2
  <2>4. Up(k) \subseteq Up(m) /\ m \in Up(m) /\ m \notin Up(k)
    BY <2>1, <1>8
  <2>5. <<Up(k), Up(m)>> \in R
    <3>1. Up(k) \in SUBSET (0..n) /\ Up(m) \in SUBSET (0..n) /\ Up(k) # Up(m)
      BY <2>3, <2>4
    <3> HIDE DEF Up
    <3> QED BY <2>4, <3>1 DEF StrictSubsetOrdering
  <2> QED BY <1>6, <1>7, <2>2, <2>5
<1> QED BY <1>8, <1>2

\* Induction up to N: a set that has 0 and with each number the next.
LEMMA Climb ==
  ASSUME NEW N \in Nat, NEW T, 0 \in T,
         \A n \in 1..N : n - 1 \in T => n \in T
  PROVE  0..N \subseteq T
<1> SUFFICES ASSUME ~ (0..N \subseteq T) PROVE FALSE
  OBVIOUS
<1> DEFINE Out == (0..N) \ T
<1>1. PICK m \in Out : \A k \in Out : m <= k
  <2>1. Out \subseteq Nat /\ Out # {}
    OBVIOUS
  <2> HIDE DEF Out
  <2> QED BY <2>1, LeastNumber
<1>2. m # 0 /\ m \in 1..N
  BY <1>1
<1>3. m - 1 \in 0..N /\ ~ (m <= m - 1)
  BY <1>2
<1>4. m - 1 \in T
  BY <1>1, <1>3
<1> QED BY <1>1, <1>2, <1>4

\* Induction over the values below: a set that has each number up to N whose
\* lesser numbers it has.
LEMMA StrongInduction ==
  ASSUME NEW N \in Nat, NEW T,
         \A n \in 0..N : (\A k \in 0..(n - 1) : k \in T) => n \in T
  PROVE  0..N \subseteq T
<1> SUFFICES ASSUME ~ (0..N \subseteq T) PROVE FALSE
  OBVIOUS
<1> DEFINE Out == (0..N) \ T
<1>1. PICK m \in Out : \A k \in Out : m <= k
  <2>1. Out \subseteq Nat /\ Out # {}
    OBVIOUS
  <2> HIDE DEF Out
  <2> QED BY <2>1, LeastNumber
<1>2. ASSUME NEW k \in 0..(m - 1) PROVE k \in T
  BY <1>1
<1> QED BY <1>1, <1>2

\* What a recursive definition on 0..N says: the value at 0, and how the value at n
\* comes from the one at prev[n], with values in S.
IsRecursion(N, S, prev, step) ==
  /\ prev \in [1..N -> Nat] /\ \A n \in 1..N : prev[n] < n
  /\ step \in [1..N -> [S -> S]]

Solves(f, N, a, prev, step) ==
  f[0] = a /\ \A n \in 1..N : f[n] = step[n][f[prev[n]]]

\* A function on 0..N whose value at n comes from an earlier one exists.
LEMMA RecursiveFunction ==
  ASSUME NEW N \in Nat, NEW S, NEW a \in S, NEW prev, NEW step, IsRecursion(N, S, prev, step)
  PROVE  \E f \in [0..N -> S] : Solves(f, N, a, prev, step)
<1> USE DEF IsRecursion
<1> DEFINE Upto(f, n) == f[0] = a /\ \A k \in 1..n : f[k] = step[k][f[prev[k]]]
           T == {n \in 0..N : \E f \in [0..n -> S] : Upto(f, n)}
<1>1. 0 \in T
  <2> DEFINE f == [k \in 0..0 |-> a]
  <2>1. f \in [0..0 -> S] /\ f[0] = a
    OBVIOUS
  <2>2. \A k \in 1..0 : f[k] = step[k][f[prev[k]]]
    OBVIOUS
  <2> HIDE DEF f
  <2> QED BY <2>1, <2>2
<1>2. ASSUME NEW n \in 1..N, n - 1 \in T PROVE n \in T
  <2>1. PICK f \in [0..(n - 1) -> S] : Upto(f, n - 1)
    BY <1>2
  <2> DEFINE g == [k \in 0..n |-> IF k = n THEN step[n][f[prev[n]]] ELSE f[k]]
  <2>2. prev[n] \in 0..(n - 1)
    OBVIOUS
  <2>3. step[n][f[prev[n]]] \in S
    BY <2>2
  <2>4. g \in [0..n -> S]
    <3> SUFFICES ASSUME NEW k \in 0..n PROVE g[k] \in S
      OBVIOUS
    <3>1. CASE k = n
      BY <3>1, <2>3
    <3>2. CASE k # n
      <4>1. k \in 0..(n - 1)
        BY <3>2
      <4> QED BY <4>1, <3>2
    <3> QED BY <3>1, <3>2
  <2>5. ASSUME NEW k \in 1..n PROVE g[k] = step[k][g[prev[k]]]
    <3>1. prev[k] \in 0..(k - 1) /\ prev[k] \in 0..(n - 1) /\ prev[k] # n
      <4>1. k \in 1..N
        OBVIOUS
      <4> QED BY <4>1
    <3>2. g[prev[k]] = f[prev[k]]
      BY <3>1
    <3>3. CASE k = n
      BY <3>2, <3>3
    <3>4. CASE k # n
      <4>1. k \in 1..(n - 1)
        BY <3>4
      <4> QED BY <4>1, <3>4, <3>2, <2>1
    <3> QED BY <3>3, <3>4
  <2>6. g[0] = a
    BY <2>1
  <2> HIDE DEF g
  <2>7. Upto(g, n)
    BY <2>5, <2>6
  <2> HIDE DEF Upto
  <2> QED BY <2>4, <2>7
<1>3. N \in T
  <2> HIDE DEF T
  <2>1. \A n \in 1..N : n - 1 \in T => n \in T
    BY <1>2
  <2>2. 0..N \subseteq T
    BY <1>1, <2>1, Climb
  <2> QED BY <2>2
<1> QED BY <1>3 DEF Solves

-----------------------------------------------------------------------------
(* Names                                                                   *)

\* A name of one of the originals: their safe forms with up to two suffixes.
NamesOf(originals) == {SafeId(o) : o \in originals} \X Seq(originals)

ToolDescs(S, R) ==
  [server : S, remote : R, alias : NamesOf(S), name : NamesOf(R)]

\* What a name says of its original.
NameFor(name, original) ==
  \/ name = <<SafeId(original), <<>>>>
  \/ name = <<SafeId(original), <<original>>>>
  \/ name = <<SafeId(original), <<original, original>>>>

\* A server has one alias and shares it with no other; two tools with one alias
\* and one name are of one server and have one remote name.
WellNamed(list) ==
  /\ \A k \in DOMAIN list :
       /\ \/ list[k].alias = <<SafeId(list[k].server), <<>>>>
          \/ list[k].alias = <<SafeId(list[k].server), <<list[k].server>>>>
       /\ NameFor(list[k].name, list[k].remote)
  /\ \A j, k \in DOMAIN list :
       /\ list[j].alias = list[k].alias <=> list[j].server = list[k].server
       /\ list[j].alias = list[k].alias /\ list[j].name = list[k].name
            => list[j].remote = list[k].remote

\* The descriptors are those of the tools, in their order.
Describes(list, offered, n) ==
  /\ Len(list) = n
  /\ \A k \in 1..n : list[k].server = offered[k][1] /\ list[k].remote = offered[k][2]

\* _alias gives a server its old alias, or one that no other server has.
LEMMA AliasFacts ==
  ASSUME NEW S, NEW R, NEW list \in Seq(ToolDescs(S, R)), WellNamed(list), NEW s \in S
  PROVE  /\ Alias(s, list) \in NamesOf(S)
         /\ \/ Alias(s, list) = <<SafeId(s), <<>>>>
            \/ Alias(s, list) = <<SafeId(s), <<s>>>>
         /\ \A k \in DOMAIN list : list[k].alias = Alias(s, list) <=> list[k].server = s
<1>1. ASSUME NEW k \in DOMAIN list PROVE list[k] \in ToolDescs(S, R)
  OBVIOUS
<1>2. CASE \E k \in DOMAIN list : list[k].server = s
  <2> DEFINE k == CHOOSE k \in DOMAIN list : list[k].server = s
  <2>1. k \in DOMAIN list /\ list[k].server = s
    BY <1>2
  <2>2. Alias(s, list) = list[k].alias
    BY <1>2 DEF Alias
  <2>3. list[k].alias \in NamesOf(S)
    BY <1>1, <2>1 DEF ToolDescs
  <2> HIDE DEF k
  <2> QED BY <2>1, <2>2, <2>3 DEF WellNamed
<1>3. CASE ~ \E k \in DOMAIN list : list[k].server = s
  <2> DEFINE taken == { list[k].alias : k \in DOMAIN list }
  <2>1. Alias(s, list) = Suffixed(SafeId(s), s, taken)
    BY <1>3 DEF Alias
  <2>2. <<SafeId(s), <<s>>>> \notin taken
    <3> SUFFICES ASSUME NEW k \in DOMAIN list, list[k].alias = <<SafeId(s), <<s>>>> PROVE FALSE
      OBVIOUS
    <3>1. list[k].server # s
      BY <1>3
    <3> QED BY <3>1 DEF WellNamed
  <2>3. \/ Alias(s, list) = <<SafeId(s), <<>>>>
        \/ Alias(s, list) = <<SafeId(s), <<s>>>>
    BY <2>1, <2>2 DEF Suffixed
  <2>4. Alias(s, list) \notin taken
    BY <2>1, <2>2 DEF Suffixed
  <2>5. \A k \in DOMAIN list : list[k].alias # Alias(s, list) /\ list[k].server # s
    BY <2>4, <1>3
  <2>6. <<>> \in Seq(S) /\ <<s>> \in Seq(S)
    OBVIOUS
  <2>7. <<SafeId(s), <<>>>> \in NamesOf(S) /\ <<SafeId(s), <<s>>>> \in NamesOf(S)
    BY <2>6 DEF NamesOf
  <2> QED BY <2>3, <2>5, <2>7
<1> QED BY <1>2, <1>3

\* _name gives a name that the tools under the alias have at most if their remote
\* name is the same.
LEMMA NameFacts ==
  ASSUME NEW S, NEW R, NEW list \in Seq(ToolDescs(S, R)), WellNamed(list), NEW r \in R,
         NEW alias
  PROVE  /\ Name(alias, r, list) \in NamesOf(R)
         /\ NameFor(Name(alias, r, list), r)
         /\ \A k \in DOMAIN list :
              list[k].alias = alias /\ list[k].name = Name(alias, r, list)
                => list[k].remote = r
<1> DEFINE taken == { list[k].name : k \in { j \in DOMAIN list : list[j].alias = alias } }
           name == Name(alias, r, list)
<1>1. name = Suffixed(SafeId(r), r, taken)
  BY DEF Name
<1>2. NameFor(name, r)
  BY <1>1 DEF Suffixed, NameFor
<1>3. name \in NamesOf(R)
  <2>1. <<>> \in Seq(R) /\ <<r>> \in Seq(R) /\ <<r, r>> \in Seq(R)
    OBVIOUS
  <2>2. \A x \in Seq(R) : <<SafeId(r), x>> \in NamesOf(R)
    BY DEF NamesOf
  <2> QED BY <1>2, <2>1, <2>2 DEF NameFor
<1>4. ASSUME NEW k \in DOMAIN list, list[k].alias = alias, list[k].name = name
      PROVE  list[k].remote = r
  <2>1. list[k].name \in taken
    BY <1>4
  <2>2. name = <<SafeId(r), <<r, r>>>>
    BY <1>1, <1>4, <2>1 DEF Suffixed
  <2>3. NameFor(list[k].name, list[k].remote)
    BY DEF WellNamed
  <2> QED BY <1>4, <2>2, <2>3 DEF NameFor
<1> QED BY <1>2, <1>3, <1>4

\* One more tool keeps the names apart.
LEMMA WithToolFacts ==
  ASSUME NEW S, NEW R, NEW list \in Seq(ToolDescs(S, R)), WellNamed(list),
         NEW tool \in S \X R
  PROVE  /\ WithTool(list, tool) \in Seq(ToolDescs(S, R))
         /\ Len(WithTool(list, tool)) = Len(list) + 1
         /\ \A k \in DOMAIN list : WithTool(list, tool)[k] = list[k]
         /\ WithTool(list, tool)[Len(list) + 1].server = tool[1]
         /\ WithTool(list, tool)[Len(list) + 1].remote = tool[2]
         /\ WellNamed(WithTool(list, tool))
<1> DEFINE s == tool[1]
           r == tool[2]
           alias == Alias(s, list)
           name == Name(alias, r, list)
           new == [server |-> s, remote |-> r, alias |-> alias, name |-> name]
           more == WithTool(list, tool)
           end == Len(list) + 1
<1>1. s \in S /\ r \in R
  OBVIOUS
<1>2. /\ alias \in NamesOf(S)
      /\ alias = <<SafeId(s), <<>>>> \/ alias = <<SafeId(s), <<s>>>>
      /\ \A k \in DOMAIN list : list[k].alias = alias <=> list[k].server = s
  <2> HIDE DEF s
  <2> QED BY <1>1, AliasFacts
<1>3. /\ name \in NamesOf(R) /\ NameFor(name, r)
      /\ \A k \in DOMAIN list :
           list[k].alias = alias /\ list[k].name = name => list[k].remote = r
  <2> HIDE DEF alias, r
  <2> QED BY <1>1, NameFacts
<1>4. more = Append(list, new)
  BY DEF WithTool
<1> HIDE DEF alias, name, more, s, r
<1>5. new \in ToolDescs(S, R)
  BY <1>1, <1>2, <1>3 DEF ToolDescs
<1>6. /\ new.server = s /\ new.remote = r /\ new.alias = alias /\ new.name = name
  OBVIOUS
<1> HIDE DEF new
<1>7. /\ more \in Seq(ToolDescs(S, R)) /\ Len(more) = end /\ DOMAIN more = 1..end
      /\ \A k \in DOMAIN list : more[k] = list[k]
      /\ more[end] = new
  BY <1>4, <1>5
<1>8. \A k \in DOMAIN more : k \in DOMAIN list \/ k = end
  BY <1>7
<1>9. WellNamed(more)
  <2>1. ASSUME NEW k \in DOMAIN more
        PROVE  /\ \/ more[k].alias = <<SafeId(more[k].server), <<>>>>
                  \/ more[k].alias = <<SafeId(more[k].server), <<more[k].server>>>>
               /\ NameFor(more[k].name, more[k].remote)
    <3>1. CASE k \in DOMAIN list
      BY <3>1, <1>7 DEF WellNamed
    <3>2. CASE k = end
      BY <3>2, <1>2, <1>3, <1>6, <1>7
    <3> QED BY <1>8, <3>1, <3>2
  <2>2. ASSUME NEW j \in DOMAIN more, NEW k \in DOMAIN more
        PROVE  /\ more[j].alias = more[k].alias <=> more[j].server = more[k].server
               /\ more[j].alias = more[k].alias /\ more[j].name = more[k].name
                    => more[j].remote = more[k].remote
    <3>1. CASE j \in DOMAIN list /\ k \in DOMAIN list
      BY <3>1, <1>7 DEF WellNamed
    <3>2. CASE j \in DOMAIN list /\ k = end
      BY <3>2, <1>2, <1>3, <1>6, <1>7
    <3>3. CASE j = end /\ k \in DOMAIN list
      BY <3>3, <1>2, <1>3, <1>6, <1>7
    <3>4. CASE j = end /\ k = end
      BY <3>4
    <3> QED BY <1>8, <3>1, <3>2, <3>3, <3>4
  <2> QED BY <2>1, <2>2 DEF WellNamed
<1> QED BY <1>6, <1>7, <1>9 DEF more, s, r

\* The descriptors of a listing: one for each tool, in order, with names that keep
\* the tools apart.
LEMMA DescribedFacts ==
  ASSUME NEW S, NEW R, NEW offered \in Seq(S \X R)
  PROVE  /\ Described(offered) \in Seq(ToolDescs(S, R))
         /\ Describes(Described(offered), offered, Len(offered))
         /\ WellNamed(Described(offered))
<1> DEFINE N == Len(offered)
           Lists == Seq(ToolDescs(S, R))
           \* A list that is not well named is never reached: the step leaves it.
           Good == {list \in Lists : WellNamed(list)}
           prev == [n \in 1..N |-> n - 1]
           step == [n \in 1..N |-> [list \in Good |-> WithTool(list, offered[n])]]
           Value(d, n) == IF n = 0 THEN <<>> ELSE WithTool(d[n - 1], offered[n])
           described == CHOOSE d : d = [n \in 0..N |-> Value(d, n)]
<1>1. N \in Nat /\ \A n \in 1..N : offered[n] \in S \X R
  OBVIOUS
<1>2. <<>> \in Good
  BY DEF WellNamed
<1>3. step \in [1..N -> [Good -> Good]]
  <2> SUFFICES ASSUME NEW n \in 1..N, NEW list \in Good
               PROVE  WithTool(list, offered[n]) \in Good
    OBVIOUS
  <2>1. list \in Seq(ToolDescs(S, R)) /\ WellNamed(list) /\ offered[n] \in S \X R
    BY <1>1
  <2> QED BY <2>1, WithToolFacts
<1>4. IsRecursion(N, Good, prev, step)
  <2>1. prev \in [1..N -> Nat] /\ \A n \in 1..N : prev[n] < n
    BY <1>1
  <2> HIDE DEF step, prev, Good, N
  <2> QED BY <1>3, <2>1 DEF IsRecursion
<1>5. PICK d \in [0..N -> Good] : d[0] = <<>> /\ \A n \in 1..N : d[n] = step[n][d[prev[n]]]
  <2> HIDE DEF step, prev, Good, N
  <2>1. \E d \in [0..N -> Good] : Solves(d, N, <<>>, prev, step)
    BY <1>1, <1>2, <1>4, RecursiveFunction
  <2> QED BY <2>1 DEF Solves
<1>6. ASSUME NEW n \in 1..N PROVE n - 1 \in 0..N /\ d[n] = WithTool(d[n - 1], offered[n])
  <2>1. n - 1 \in 0..N /\ prev[n] = n - 1
    BY <1>1
  <2>2. d[n - 1] \in Good
    BY <2>1
  <2>3. step[n][d[n - 1]] = WithTool(d[n - 1], offered[n])
    BY <2>2
  <2> HIDE DEF step, prev
  <2> QED BY <1>5, <2>1, <2>3
<1>7. d = [n \in 0..N |-> Value(d, n)]
  <2> SUFFICES ASSUME NEW n \in 0..N PROVE d[n] = Value(d, n)
    BY <1>5
  <2> QED BY <1>5, <1>6
<1>8. described = [n \in 0..N |-> Value(described, n)]
  <2> HIDE DEF Value
  <2> QED BY <1>7
<1> HIDE DEF described
<1>9. described[0] = <<>> /\ \A n \in 1..N : described[n] = WithTool(described[n - 1], offered[n])
  <2>1. described[0] = Value(described, 0)
    BY <1>1, <1>8
  <2>2. ASSUME NEW n \in 1..N PROVE described[n] = WithTool(described[n - 1], offered[n])
    BY <1>8
  <2> QED BY <2>1, <2>2
<1> DEFINE T == {n \in 0..N : described[n] \in Good /\ Describes(described[n], offered, n)}
<1>10. 0 \in T
  <2>1. Describes(<<>>, offered, 0)
    BY DEF Describes
  <2> HIDE DEF Good
  <2> QED BY <1>1, <1>2, <1>9, <2>1
<1>11. ASSUME NEW n \in 1..N, n - 1 \in T PROVE n \in T
  <2> DEFINE list == described[n - 1]
             more == described[n]
  <2>1. list \in Seq(ToolDescs(S, R)) /\ WellNamed(list) /\ Describes(list, offered, n - 1)
    BY <1>11
  <2>2. more = WithTool(list, offered[n]) /\ offered[n] \in S \X R
    BY <1>1, <1>9
  <2> DEFINE tool == offered[n]
  <2> HIDE DEF list, more, tool, N
  <2>3. /\ more \in Lists /\ WellNamed(more) /\ Len(more) = Len(list) + 1
        /\ \A k \in DOMAIN list : more[k] = list[k]
        /\ more[Len(list) + 1].server = offered[n][1]
        /\ more[Len(list) + 1].remote = offered[n][2]
    <3>1. tool \in S \X R /\ more = WithTool(list, tool)
      BY <2>2 DEF tool
    <3>2. /\ WithTool(list, tool) \in Seq(ToolDescs(S, R)) /\ WellNamed(WithTool(list, tool))
          /\ Len(WithTool(list, tool)) = Len(list) + 1
          /\ \A k \in DOMAIN list : WithTool(list, tool)[k] = list[k]
          /\ WithTool(list, tool)[Len(list) + 1].server = tool[1]
          /\ WithTool(list, tool)[Len(list) + 1].remote = tool[2]
      <4> HIDE DEF Lists, Good, prev, step, Value, T
      <4>1. WithTool(list, tool) \in Seq(ToolDescs(S, R))
        BY <2>1, <3>1, WithToolFacts
      <4>2. WellNamed(WithTool(list, tool))
        BY <2>1, <3>1, WithToolFacts
      <4>3. Len(WithTool(list, tool)) = Len(list) + 1
        BY <2>1, <3>1, WithToolFacts
      <4>4. \A k \in DOMAIN list : WithTool(list, tool)[k] = list[k]
        BY <2>1, <3>1, WithToolFacts
      <4>5. WithTool(list, tool)[Len(list) + 1].server = tool[1]
        BY <2>1, <3>1, WithToolFacts
      <4>6. WithTool(list, tool)[Len(list) + 1].remote = tool[2]
        BY <2>1, <3>1, WithToolFacts
      <4> QED BY <4>1, <4>2, <4>3, <4>4, <4>5, <4>6
    <3> QED BY <3>1, <3>2 DEF tool
  <2>4. Describes(more, offered, n)
    <3>1. Len(list) = n - 1 /\ DOMAIN list = 1..(n - 1)
      BY <2>1 DEF Describes
    <3>2. ASSUME NEW k \in 1..n
          PROVE  more[k].server = offered[k][1] /\ more[k].remote = offered[k][2]
      <4>1. CASE k \in 1..(n - 1)
        BY <4>1, <2>1, <2>3, <3>1 DEF Describes
      <4>2. CASE k = n
        BY <4>2, <2>3, <3>1
      <4> QED BY <4>1, <4>2
    <3> QED BY <2>3, <3>1, <3>2 DEF Describes
  <2>5. more \in Good /\ n \in 0..N
    BY <2>3
  <2> HIDE DEF Good
  <2> QED BY <2>4, <2>5 DEF more
<1>12. N \in T
  <2> HIDE DEF T
  <2>1. 0..N \subseteq T
    BY <1>1, <1>10, <1>11, Climb
  <2> QED BY <1>1, <2>1
<1>13. Described(offered) = described[N]
  BY DEF Described, described
<1> QED BY <1>12, <1>13

\* What two sequences are joined to.
LEMMA ConcatFacts ==
  ASSUME NEW W, NEW a \in Seq(W), NEW n \in Seq(W)
  PROVE  /\ Len(a \o n) = Len(a) + Len(n)
         /\ \A k \in 1..Len(a) : (a \o n)[k] = a[k]
         /\ \A k \in 1..Len(n) : (a \o n)[Len(a) + k] = n[k]
OBVIOUS

\* Two sequences joined at one place are told apart again.
LEMMA ConcatSplits ==
  ASSUME NEW W, NEW a \in Seq(W), NEW n \in Seq(W), NEW b \in Seq(W), NEW m \in Seq(W)
  PROVE  Len(a) = Len(b) /\ a \o n = b \o m => a = b /\ n = m
<1> DEFINE whole == a \o n
           other == b \o m
<1>1. /\ Len(whole) = Len(a) + Len(n)
      /\ \A k \in 1..Len(a) : whole[k] = a[k]
      /\ \A k \in 1..Len(n) : whole[Len(a) + k] = n[k]
  BY ConcatFacts
<1>2. /\ Len(other) = Len(b) + Len(m)
      /\ \A k \in 1..Len(b) : other[k] = b[k]
      /\ \A k \in 1..Len(m) : other[Len(b) + k] = m[k]
  BY ConcatFacts
<1>3. Len(a) \in Nat /\ Len(n) \in Nat /\ Len(m) \in Nat
  OBVIOUS
<1> HIDE DEF whole, other
<1> SUFFICES ASSUME Len(a) = Len(b), whole = other PROVE a = b /\ n = m
  BY DEF whole, other
<1>6. Len(n) = Len(m)
  BY <1>1, <1>2, <1>3
<1>7. \A k \in 1..Len(a) : a[k] = b[k]
  BY <1>1, <1>2
<1>8. \A k \in 1..Len(n) : n[k] = m[k]
  BY <1>1, <1>2, <1>6
<1> QED BY <1>6, <1>7, <1>8

\* As many marks as suffixes, all at one place.
IsMarks(marks, place, s, T) ==
  /\ marks \in Seq(Nat \X T) /\ Len(marks) = Len(s)
  /\ \A k \in 1..Len(s) : marks[k][1] = place /\ marks[k][2] = s[k]

LEMMA MarksFacts ==
  ASSUME NEW T, NEW words, Len(words) \in Nat, NEW s \in Seq(T)
  PROVE  IsMarks(Marks(words, s), Len(words), s, T)
BY DEF Marks, IsMarks

\* Marks that are all at one place.
AllAt(marks, place) == \A k \in 1..Len(marks) : marks[k][1] = place

\* The marks of the alias are those before the marks of the name.
LEMMA MarksStart ==
  ASSUME NEW U, NEW a \in Seq(U), NEW n \in Seq(U), NEW b \in Seq(U), NEW m \in Seq(U),
         NEW l, NEW w, l # w, AllAt(n, w), AllAt(b, l)
  PROVE  a \o n = b \o m => Len(b) <= Len(a)
<1> DEFINE whole == a \o n
           other == b \o m
           k == Len(a) + 1
<1>1. Len(whole) = Len(a) + Len(n) /\ \A x \in 1..Len(n) : whole[Len(a) + x] = n[x]
  BY ConcatFacts
<1>2. Len(other) = Len(b) + Len(m) /\ \A x \in 1..Len(b) : other[x] = b[x]
  BY ConcatFacts
<1>3. Len(a) \in Nat /\ Len(n) \in Nat /\ Len(b) \in Nat /\ Len(m) \in Nat
  OBVIOUS
<1> HIDE DEF whole, other
<1> SUFFICES ASSUME whole = other, Len(a) < Len(b) PROVE FALSE
  BY <1>3 DEF whole, other
<1>4. k \in 1..Len(b) /\ 1 \in 1..Len(n)
  BY <1>1, <1>2, <1>3
<1>5. n[1] = b[k]
  BY <1>1, <1>2, <1>4
<1> QED BY <1>4, <1>5 DEF AllAt

\* The marks of suffixes s and t at two places are those of x and y.
SameMarks(p, q, s, t, x, y) == Marks(p, s) \o Marks(q, t) = Marks(p, x) \o Marks(q, y)

\* Two runs of marks at two places tell the suffixes they are of.
LEMMA MarksTell ==
  ASSUME NEW T, NEW p, NEW q, NEW s, NEW t, NEW x, NEW y, {s, t, x, y} \subseteq Seq(T),
         Len(p) \in Nat, Len(q) \in Nat, Len(p) # Len(q)
  PROVE  SameMarks(p, q, s, t, x, y) => s = x /\ t = y
<1> DEFINE U == Nat \X T
           l == Len(p)
           w == Len(q)
           a == Marks(p, s)
           n == Marks(q, t)
           b == Marks(p, x)
           m == Marks(q, y)
<1>1. /\ IsMarks(a, l, s, T) /\ IsMarks(n, w, t, T)
      /\ IsMarks(b, l, x, T) /\ IsMarks(m, w, y, T)
  BY MarksFacts
<1>2. l # w
  OBVIOUS
<1> HIDE DEF l, w, a, n, b, m
<1>3. a \in Seq(U) /\ n \in Seq(U) /\ b \in Seq(U) /\ m \in Seq(U)
  BY <1>1 DEF IsMarks
<1>4. Len(a) = Len(s) /\ Len(n) = Len(t) /\ Len(b) = Len(x) /\ Len(m) = Len(y)
  BY <1>1 DEF IsMarks
<1>5. AllAt(a, l) /\ AllAt(n, w) /\ AllAt(b, l) /\ AllAt(m, w)
  BY <1>4, <1>1 DEF IsMarks, AllAt
<1> HIDE DEF U
<1>6. a \o n = b \o m => Len(b) <= Len(a)
  BY ONLY <1>3, <1>5, <1>2, MarksStart
<1>7. b \o m = a \o n => Len(a) <= Len(b)
  BY ONLY <1>3, <1>5, <1>2, MarksStart
<1>8. Len(a) = Len(b) /\ a \o n = b \o m => a = b /\ n = m
  BY <1>3, ConcatSplits
<1> DEFINE whole == a \o n
           other == b \o m
<1> HIDE DEF whole, other
<1> SUFFICES ASSUME whole = other PROVE s = x /\ t = y
  BY DEF whole, other, a, n, b, m, SameMarks
<1>9. Len(a) = Len(b)
  <2>1. Len(a) \in Nat /\ Len(b) \in Nat
    BY <1>3
  <2>2. Len(b) <= Len(a) /\ Len(a) <= Len(b)
    BY <1>6, <1>7 DEF whole, other
  <2> QED BY <2>1, <2>2
<1>10. a = b /\ n = m
  BY <1>8, <1>9 DEF whole, other
<1>11. s = x
  <2>1. Len(s) = Len(x)
    BY <1>10, <1>4
  <2>2. ASSUME NEW k \in 1..Len(s) PROVE s[k] = x[k]
    BY <1>10, <1>1, <2>1 DEF IsMarks
  <2> QED BY <2>1, <2>2
<1>12. t = y
  <2>1. Len(t) = Len(y)
    BY <1>10, <1>4
  <2>2. ASSUME NEW k \in 1..Len(t) PROVE t[k] = y[k]
    BY <1>10, <1>1, <2>1 DEF IsMarks
  <2> QED BY <2>1, <2>2
<1> QED BY <1>11, <1>12

\* A descriptor whose alias and name are words with suffixes.
Named(d, W, T) ==
  d.alias \in (Seq(W) \ {<<>>}) \X Seq(T) /\ d.name \in (Seq(W) \ {<<>>}) \X Seq(T)

\* Where the alias ends in a public name tells what it is made of.
LEMMA PublicNameFacts ==
  ASSUME NEW W, NEW T, NEW d, NEW e, Named(d, W, T), Named(e, W, T),
         PublicName(d) = PublicName(e), Len(d.alias[1]) = Len(e.alias[1])
  PROVE  d.alias = e.alias /\ d.name = e.name
<1>1. PICK a \in Seq(W), s \in Seq(T) : d.alias = <<a, s>>
  BY DEF Named
<1>2. PICK n \in Seq(W), t \in Seq(T) : n # <<>> /\ d.name = <<n, t>>
  BY DEF Named
<1>3. PICK b \in Seq(W), x \in Seq(T) : e.alias = <<b, x>>
  BY DEF Named
<1>4. PICK m \in Seq(W), y \in Seq(T) : e.name = <<m, y>>
  BY DEF Named
<1>5. Len(a) = Len(b)
  BY <1>1, <1>3
<1> DEFINE words == a \o n
           others == b \o m
           marks == Marks(a, s) \o Marks(words, t)
           more == Marks(b, x) \o Marks(others, y)
<1>6. PublicName(d) = <<words, marks>> /\ PublicName(e) = <<others, more>>
  <2>1. /\ d.alias[1] = a /\ d.alias[2] = s /\ d.name[1] = n /\ d.name[2] = t
        /\ e.alias[1] = b /\ e.alias[2] = x /\ e.name[1] = m /\ e.name[2] = y
    BY <1>1, <1>2, <1>3, <1>4
  <2> QED BY ONLY <2>1 DEF PublicName
<1> HIDE DEF words, others, marks, more
<1>7. words = others /\ marks = more
  BY ONLY <1>6, PublicName(d) = PublicName(e)
<1>8. a = b /\ n = m
  BY <1>7, <1>5, ConcatSplits DEF words, others
<1>9. words \in Seq(W) /\ Len(a) # Len(words)
  <2>1. Len(words) = Len(a) + Len(n)
    BY ConcatFacts DEF words
  <2>2. Len(a) \in Nat /\ Len(n) \in Nat \ {0}
    BY <1>2
  <2>3. words \in Seq(W)
    BY DEF words
  <2> QED BY <2>1, <2>2, <2>3
<1>10. s = x /\ t = y
  <2>1. Len(a) \in Nat /\ Len(words) \in Nat /\ Len(a) # Len(words)
    BY <1>9
  <2>2. {s, t, x, y} \subseteq Seq(T)
    OBVIOUS
  <2>3. SameMarks(a, words, s, t, x, y) => s = x /\ t = y
    BY ONLY <2>1, <2>2, MarksTell
  <2>4. SameMarks(a, words, s, t, x, y)
    BY <1>7, <1>8 DEF marks, more, SameMarks
  <2> QED BY <2>3, <2>4
<1> QED BY <1>8, <1>10, <1>1, <1>2, <1>3, <1>4

\* The suffixes keep the tools of a listing apart, whatever safe forms coincide:
\* MCPToolSource.scan gives no two of them one alias and one name, unless they
\* have one id, which Manager.scan refuses.  The public name joins the two, and
\* two tools have the same one only if their aliases have different numbers of
\* words: a + b_c and a_b + c, but never two tools of one server, nor of servers
\* whose ids have one safe form.
THEOREM NamesTellToolsApart ==
  ASSUME NEW S, NEW R, NEW W, \A o \in S \cup R : SafeId(o) \in Seq(W) \ {<<>>},
         NEW offered \in Seq(S \X R),
         ~ HasDuplicateIds(Described(offered)),
         NEW j \in DOMAIN Described(offered), NEW k \in DOMAIN Described(offered),
         PublicName(Described(offered)[j]) = PublicName(Described(offered)[k]),
         Len(Described(offered)[j].alias[1]) = Len(Described(offered)[k].alias[1])
  PROVE  j = k
<1> DEFINE list == Described(offered)
<1>1. list \in Seq(ToolDescs(S, R)) /\ WellNamed(list)
  BY DescribedFacts
<1> HIDE DEF list
<1>2. list[j].alias = list[k].alias /\ list[j].name = list[k].name
  <2>1. list[j] \in ToolDescs(S, R) /\ list[k] \in ToolDescs(S, R)
    BY <1>1 DEF list
  <2>2. ASSUME NEW x \in NamesOf(S \cup R) PROVE x \in (Seq(W) \ {<<>>}) \X Seq(S \cup R)
    BY DEF NamesOf
  <2>3. NamesOf(S) \subseteq NamesOf(S \cup R) /\ NamesOf(R) \subseteq NamesOf(S \cup R)
    BY DEF NamesOf
  <2>4. /\ list[j].alias \in NamesOf(S \cup R) /\ list[j].name \in NamesOf(S \cup R)
        /\ list[k].alias \in NamesOf(S \cup R) /\ list[k].name \in NamesOf(S \cup R)
    BY <2>1, <2>3 DEF ToolDescs
  <2>5. Named(list[j], W, S \cup R) /\ Named(list[k], W, S \cup R)
    BY <2>2, <2>4 DEF Named
  <2>6. /\ PublicName(list[j]) = PublicName(list[k])
        /\ Len(list[j].alias[1]) = Len(list[k].alias[1])
    BY DEF list
  <2> QED BY <2>5, <2>6, PublicNameFacts
<1>3. list[j].server = list[k].server /\ list[j].remote = list[k].remote
  BY <1>1, <1>2 DEF WellNamed, list
<1>4. ~ (j < k) /\ ~ (k < j)
  BY <1>3 DEF HasDuplicateIds, list
<1>5. j \in Nat /\ k \in Nat
  BY <1>1 DEF list
<1> QED BY <1>4, <1>5

-----------------------------------------------------------------------------
(* Types                                                                   *)

Lifes == {"connecting", "live", "closing", "closed"}
Sessions == [server : ServerSet, spec : 0..MaxSpec, life : Lifes, tools : Listings \cup {<<>>}]
Places == {"new", "idle", "waiting", "dropping", "creating", "listing", "done", "failed", "gone"}
Busy == {"dropping", "creating", "listing"}

\* The sessions, those listed, the one in hand and those asked in vain.
TablesOK ==
  /\ conns \in Seq(Sessions) /\ order \in Seq(DOMAIN conns)
  /\ held \in {0} \cup DOMAIN conns /\ pending \subseteq DOMAIN conns

LockOK ==
  /\ lock \in Callers \cup {None} /\ queue \in Seq(Callers)
  /\ pc \in [Callers -> Places]

\* The file, the servers and the bounds.
OutsideOK ==
  /\ file \in [ServerSet -> 0..MaxSpec] /\ offers \in [ServerSet -> Listings]
  /\ alive \in [ServerSet -> BOOLEAN]
  /\ edits \in 0..MaxEdits /\ faults \in 0..MaxFaults

ServiceOK ==
  /\ descs \in [ServerSet -> 0..MaxSpec] /\ available \in BOOLEAN
  /\ confFp \in [ServerSet -> 0..MaxSpec] \cup {<<>>} /\ started \in BOOLEAN
  /\ changed \in BOOLEAN /\ troubled \in BOOLEAN
  /\ last = [shown |-> last.shown, public |-> last.public, ran |-> last.ran]

TypeOK == OutsideOK /\ ServiceOK /\ TablesOK /\ LockOK

-----------------------------------------------------------------------------
(* The inductive invariant                                                 *)

\* _refresh_lock has one holder, who is at work, and callers in line once each.
LockIsFair ==
  /\ \A p \in Callers : pc[p] \in Busy => lock = p
  /\ lock # None => pc[lock] \in Busy \cup {"waiting"}
  /\ pc["stop"] \in {"idle", "waiting", "gone"}
  /\ pc["hook"] \in {"idle", "waiting"} \cup Busy
  /\ \A p \in Callers : pc[p] = "waiting" => lock = p \/ \E k \in DOMAIN queue : queue[k] = p
  /\ \A k \in DOMAIN queue : pc[queue[k]] = "waiting" /\ queue[k] # lock
  /\ \A j, k \in DOMAIN queue : queue[j] = queue[k] => j = k
  /\ lock = None => queue = <<>>

\* What the holder of the lock has in hand at each place.
HandIsRight ==
  /\ lock = None => held = 0 /\ todo = {}
  /\ \A p \in Callers \ {"stop"} : lock = p /\ pc[p] = "waiting" => held = 0 /\ todo = {}
  /\ \A p \in Callers : pc[p] = "creating" => held # 0 /\ conns[held].life = "connecting"
  /\ \A p \in Callers : pc[p] = "listing" => held = 0 /\ todo \subseteq DOMAIN conns
  /\ lock = "stop" =>
       /\ todo \subseteq ToSet(order)
       /\ \A i \in todo : i # held => conns[i].life = "closed"

\* Every open session is listed or in hand.
SessionsAreKnown ==
  \A i \in DOMAIN conns :
    conns[i].life \in {"connecting", "live", "closing"} => i \in ToSet(order) \cup {held}

\* After the stop nothing is open and nothing can be opened.
StopIsFinal ==
  pc["stop"] = "gone" =>
    /\ ~ available /\ order = <<>> /\ held = 0 /\ \A s \in ServerSet : descs[s] = 0
    /\ \A p \in Callers : pc[p] # "creating"
    /\ \A i \in DOMAIN conns : conns[i].life = "closed"

\* A server has one runtime in the tables at most, also while the next is started.
OneRuntimePerServer ==
  /\ \A j, k \in DOMAIN order : conns[order[j]].server = conns[order[k]].server => j = k
  /\ \A p \in Callers : pc[p] = "creating" =>
       \A k \in DOMAIN order : conns[order[k]].server # conns[held].server

\* Whenever nobody refreshes, the tools are those listed.
ToolsAreFresh ==
  lock = None /\ ~ troubled /\ pc["start"] = "done" => tools = Rescanned

\* A tool of a server has the safe forms of its ids in its public name.
NamedByServer(d) ==
  d.server \in ServerSet /\ d.alias[1] = SafeId(d.server) /\ d.name[1] = SafeId(d.remote)

\* The tools of the workspace are always there, before those of the servers.
ToolsAreNamed ==
  /\ \E n \in Nat : DOMAIN tools = 1..n
  /\ \A k \in DOMAIN Workspace : k \in DOMAIN tools /\ tools[k] = Workspace[k]
  /\ \A k \in DOMAIN tools : k \notin DOMAIN Workspace => NamedByServer(tools[k])

\* What the model was shown: a tool of the workspace, or one of a server under a
\* name that no tool of the workspace has.
ShownAsNamed ==
  last.shown # <<>> =>
    \/ \E w \in DOMAIN Workspace :
         /\ last.public = PublicName(Workspace[w])
         /\ last.shown = <<Workspace[w].server, Workspace[w].remote>>
    \/ /\ \A w \in DOMAIN Workspace : last.public # PublicName(Workspace[w])
       /\ last.public[1] = SafeId(last.shown[1]) \o SafeId(last.shown[2])
       /\ last.shown[1] \in ServerSet

IInv ==
  /\ TypeOK /\ LockIsFair /\ HandIsRight /\ SessionsAreKnown /\ StopIsFinal
  /\ OneRuntimePerServer /\ ToolsAreFresh /\ ToolsAreNamed /\ ShownAsNamed
  /\ CallsReachTheTool

-----------------------------------------------------------------------------
(* Sequences and tables                                                    *)

\* list.remove() takes one occurrence out and keeps the others in their order.
LEMMA WithoutFacts ==
  ASSUME NEW S, NEW s \in Seq(S), NEW k \in DOMAIN s
  PROVE  /\ Without(s, s[k]) \in Seq(S)
         /\ \E n \in DOMAIN s :
              /\ s[n] = s[k]
              /\ Len(Without(s, s[k])) = Len(s) - 1
              /\ \A j \in 1..(Len(s) - 1) :
                   Without(s, s[k])[j] = IF j < n THEN s[j] ELSE s[j + 1]
<1> DEFINE n == CHOOSE j \in DOMAIN s : s[j] = s[k]
<1>1. n \in DOMAIN s /\ s[n] = s[k]
  OBVIOUS
<1>2. Without(s, s[k]) = SubSeq(s, 1, n - 1) \o SubSeq(s, n + 1, Len(s))
  BY DEF Without, RemoveAt
<1> HIDE DEF n
<1>3. /\ SubSeq(s, 1, n - 1) \in Seq(S) /\ Len(SubSeq(s, 1, n - 1)) = n - 1
      /\ \A j \in 1..(n - 1) : SubSeq(s, 1, n - 1)[j] = s[j]
  BY <1>1
<1>4. /\ SubSeq(s, n + 1, Len(s)) \in Seq(S)
      /\ Len(SubSeq(s, n + 1, Len(s))) = Len(s) - n
      /\ \A j \in 1..(Len(s) - n) : SubSeq(s, n + 1, Len(s))[j] = s[j + n]
  BY <1>1
<1> DEFINE w == Without(s, s[k])
<1>5. w \in Seq(S) /\ Len(w) = Len(s) - 1
  <2> DEFINE x == SubSeq(s, 1, n - 1)
             y == SubSeq(s, n + 1, Len(s))
  <2>1. w = x \o y /\ x \in Seq(S) /\ y \in Seq(S)
    BY <1>2, <1>3, <1>4
  <2>2. Len(x) = n - 1 /\ Len(y) = Len(s) - n
    BY <1>3, <1>4
  <2> HIDE DEF x, y, w
  <2>3. w \in Seq(S) /\ Len(w) = Len(x) + Len(y)
    BY <2>1
  <2> QED BY <1>1, <2>2, <2>3
<1>6. ASSUME NEW j \in 1..(Len(s) - 1) PROVE w[j] = IF j < n THEN s[j] ELSE s[j + 1]
  <2>1. CASE j < n
    BY <2>1, <1>1, <1>2, <1>3, <1>4
  <2>2. CASE ~ (j < n)
    <3>1. j - (n - 1) \in 1..(Len(s) - n) /\ j - (n - 1) + n = j + 1
      BY <2>2, <1>1
    <3>2. w[j] = SubSeq(s, n + 1, Len(s))[j - (n - 1)]
      BY <2>2, <1>1, <1>2, <1>3, <1>4
    <3> QED BY <2>2, <3>1, <3>2, <1>4
  <2> QED BY <2>1, <2>2
<1> QED BY <1>1, <1>5, <1>6

\* The servers of a set come in the order of the file.
LEMMA FirstOfFacts ==
  ASSUME NEW set, set \subseteq ServerSet, set # {}
  PROVE  FirstOf(set) \in set
<1> DEFINE At == {k \in DOMAIN Servers : Servers[k] \in set}
<1>1. At \subseteq Nat /\ At # {}
  BY McpAssumption DEF ServerSet, ToSet
<1>2. PICK m \in At : \A k \in At : m <= k
  <2> HIDE DEF At
  <2> QED BY <1>1, LeastNumber
<1>3. Servers[m] \in set /\ \A j, k \in DOMAIN Servers :
        Servers[k] = Servers[m] /\ Servers[j] \in set => k <= j
  BY <1>2, McpAssumption
<1> QED BY <1>3 DEF FirstOf

\* What the runtimes offer are pairs of a server and a remote name.
LEMMA OfferedFacts ==
  ASSUME NEW specs, NEW listed, NEW sessions,
         \A i \in ToSet(listed) : sessions[i].tools \in Seq(Remotes)
  PROVE  Offered(specs, listed, sessions) \in Seq(ServerSet \X Remotes)
<1> DEFINE N == Len(Servers)
           Pairs == Seq(ServerSet \X Remotes)
           Of(s) == ToolsOf(s, specs, listed, sessions)
           prev == [n \in 1..N |-> n - 1]
           step == [n \in 1..N |-> [x \in Pairs |-> x \o Of(Servers[n])]]
           Value(d, n) == IF n = 0 THEN <<>> ELSE d[n - 1] \o Of(Servers[n])
           offered == CHOOSE d : d = [n \in 0..N |-> Value(d, n)]
<1>1. N \in Nat /\ <<>> \in Pairs
  BY McpAssumption
<1>2. ASSUME NEW n \in 1..N PROVE Of(Servers[n]) \in Pairs
  <2> DEFINE s == Servers[n]
             runtimes == { i \in ToSet(listed) : specs[s] # 0 /\ sessions[i].server = s }
             i == CHOOSE i \in runtimes : TRUE
  <2>1. s \in ServerSet
    BY McpAssumption
  <2>2. CASE runtimes = {}
    BY <2>2, <1>1 DEF ToolsOf
  <2>3. CASE runtimes # {}
    <3>1. i \in ToSet(listed)
      BY <2>3
    <3>2. Of(s) = [k \in DOMAIN sessions[i].tools |-> <<s, sessions[i].tools[k]>>]
      BY <2>3 DEF ToolsOf
    <3>3. sessions[i].tools \in Seq(Remotes)
      BY <3>1
    <3> HIDE DEF i, s
    <3>4. DOMAIN sessions[i].tools = 1..Len(sessions[i].tools) /\ Len(sessions[i].tools) \in Nat
      BY <3>3
    <3>5. \A k \in 1..Len(sessions[i].tools) : <<s, sessions[i].tools[k]>> \in ServerSet \X Remotes
      BY <2>1, <3>3
    <3> QED BY <3>2, <3>4, <3>5 DEF s
  <2> QED BY <2>2, <2>3
<1>3. IsRecursion(N, Pairs, prev, step)
  <2>1. prev \in [1..N -> Nat] /\ \A n \in 1..N : prev[n] < n
    BY <1>1
  <2>2. ASSUME NEW n \in 1..N, NEW x \in Pairs PROVE x \o Of(Servers[n]) \in Pairs
    <3> HIDE DEF Of
    <3> QED BY <1>2
  <2> HIDE DEF prev, Pairs, N, Of
  <2>3. step \in [1..N -> [Pairs -> Pairs]]
    BY <2>2
  <2> HIDE DEF step
  <2> QED BY <2>1, <2>3 DEF IsRecursion
<1>4. PICK d \in [0..N -> Pairs] : d[0] = <<>> /\ \A n \in 1..N : d[n] = step[n][d[prev[n]]]
  <2> HIDE DEF step, prev, Pairs, N
  <2>1. \E d \in [0..N -> Pairs] : Solves(d, N, <<>>, prev, step)
    BY <1>1, <1>3, RecursiveFunction
  <2> QED BY <2>1 DEF Solves
<1> HIDE DEF Of, Pairs
<1>5. ASSUME NEW n \in 1..N PROVE n - 1 \in 0..N /\ d[n] = d[n - 1] \o Of(Servers[n])
  <2>1. n - 1 \in 0..N /\ prev[n] = n - 1
    BY <1>1
  <2>2. d[n - 1] \in Pairs
    BY <2>1
  <2>3. step[n][d[n - 1]] = d[n - 1] \o Of(Servers[n])
    BY <2>2
  <2> HIDE DEF step, prev
  <2> QED BY <1>4, <2>1, <2>3
<1>6. d = [n \in 0..N |-> Value(d, n)]
  <2> SUFFICES ASSUME NEW n \in 0..N PROVE d[n] = Value(d, n)
    BY <1>4
  <2>1. CASE n = 0
    BY <1>4, <2>1
  <2>2. CASE n # 0
    <3>1. n \in 1..N
      BY <2>2, <1>1
    <3> QED BY <1>5, <2>2, <3>1
  <2> QED BY <2>1, <2>2
<1>7. offered = [n \in 0..N |-> Value(offered, n)]
  <2> HIDE DEF Value
  <2> QED BY <1>6
<1> HIDE DEF offered
<1> DEFINE T == {n \in 0..N : offered[n] \in Pairs}
<1>8. 0 \in T
  BY <1>1, <1>7
<1>9. ASSUME NEW n \in 1..N, n - 1 \in T PROVE n \in T
  <2>1. offered[n] = offered[n - 1] \o Of(Servers[n])
    <3>1. n \in 0..N /\ n # 0
      BY <1>1
    <3>2. offered[n] = Value(offered, n)
      <4> HIDE DEF Value
      <4> QED BY <1>7, <3>1
    <3> QED BY <3>1, <3>2
  <2>2. offered[n - 1] \in Pairs /\ Of(Servers[n]) \in Pairs
    BY <1>9, <1>2
  <2>3. offered[n] \in Pairs
    BY <2>1, <2>2 DEF Pairs
  <2> QED BY <2>3
<1>10. N \in T
  <2> HIDE DEF T
  <2>1. 0..N \subseteq T
    BY <1>1, <1>8, <1>9, Climb
  <2> QED BY <1>1, <2>1
<1>11. Offered(specs, listed, sessions) = offered[N]
  BY DEF Offered, offered, Of
<1> QED BY <1>10, <1>11 DEF Pairs

\* The tools a scan finds are those of the workspace, then those of the servers
\* under names made of their own ids.
LEMMA RescannedFacts ==
  ASSUME TypeOK
  PROVE  /\ \E n \in Nat : DOMAIN Rescanned = 1..n
         /\ \A k \in DOMAIN Workspace : k \in DOMAIN Rescanned /\ Rescanned[k] = Workspace[k]
         /\ \A k \in DOMAIN Rescanned : k \notin DOMAIN Workspace => NamedByServer(Rescanned[k])
<1>1. Workspace \in Seq(ToSet(Workspace))
  BY McpAssumption
<1>2. CASE ~ available
  BY <1>1, <1>2 DEF Rescanned
<1>3. CASE available
  <2> DEFINE offered == Offered(descs, order, conns)
             found == Described(offered)
  <2>1. ASSUME NEW i \in ToSet(order) PROVE conns[i].tools \in Seq(Remotes)
    <3>1. i \in DOMAIN conns
      BY DEF TypeOK, TablesOK, ToSet
    <3>2. conns[i] \in Sessions
      BY <3>1 DEF TypeOK, TablesOK
    <3>3. <<>> \in Seq(Remotes)
      OBVIOUS
    <3> QED BY <3>2, <3>3, McpAssumption DEF Sessions
  <2>2. offered \in Seq(ServerSet \X Remotes)
    BY <2>1, OfferedFacts
  <2> HIDE DEF offered
  <2>3. found \in Seq(ToolDescs(ServerSet, Remotes)) /\ WellNamed(found)
    BY <2>2, DescribedFacts
  <2>4. Rescanned = Workspace \o found
    BY <1>3 DEF Rescanned, offered
  <2> HIDE DEF found
  <2>5. /\ DOMAIN Rescanned = 1..(Len(Workspace) + Len(found))
        /\ \A k \in 1..Len(Workspace) : Rescanned[k] = Workspace[k]
        /\ \A k \in 1..(Len(Workspace) + Len(found)) : k > Len(Workspace) =>
             k - Len(Workspace) \in 1..Len(found) /\ Rescanned[k] = found[k - Len(Workspace)]
    BY <1>1, <2>3, <2>4
  <2>6. ASSUME NEW k \in DOMAIN found PROVE NamedByServer(found[k])
    <3>1. found[k] \in ToolDescs(ServerSet, Remotes)
      BY <2>3
    <3>2. found[k].server \in ServerSet
      BY <3>1 DEF ToolDescs
    <3> QED BY <2>3, <3>2 DEF WellNamed, NameFor, NamedByServer
  <2>7. Len(Workspace) \in Nat /\ Len(found) \in Nat /\ DOMAIN Workspace = 1..Len(Workspace)
    BY <1>1, <2>3
  <2>8. ASSUME NEW k \in DOMAIN Rescanned, k \notin DOMAIN Workspace
        PROVE  NamedByServer(Rescanned[k])
    <3>1. k > Len(Workspace) /\ k \in 1..(Len(Workspace) + Len(found))
      BY <2>5, <2>7, <2>8
    <3>2. k - Len(Workspace) \in DOMAIN found /\ Rescanned[k] = found[k - Len(Workspace)]
      BY <3>1, <2>3, <2>5
    <3> QED BY <3>2, <2>6
  <2> QED BY <2>5, <2>7, <2>8
<1> QED BY <1>2, <1>3
-----------------------------------------------------------------------------
(* The lock                                                                *)

\* A caller that returns or raises hands the lock to the first in line.
LEMMA EndsFacts ==
  ASSUME TypeOK, LockIsFair, NEW p \in Callers, lock = p, NEW well \in BOOLEAN, Ends(p, well)
  PROVE  /\ LockIsFair'
         /\ LockOK'
         /\ held' = 0 /\ todo' = {} /\ troubled' = ~ well
         /\ lock' # None => pc'[lock'] = "waiting"
         /\ \A q \in Callers : pc'[q] \notin Busy
         /\ pc'["stop"] = "gone" => p = "stop" \/ pc["stop"] = "gone"
         /\ pc'["start"] = "done" => p = "start" \/ pc["start"] = "done"
<1> DEFINE end == IF p = "start" THEN (IF well THEN "done" ELSE "failed") ELSE
                  IF p = "stop" /\ well THEN "gone" ELSE "idle"
<1>1. /\ pc' = [pc EXCEPT ![p] = end] /\ Release /\ held' = 0 /\ todo' = {}
      /\ troubled' = ~ well
  BY DEF Ends
<1>2. /\ end \in Places /\ end \notin Busy \cup {"waiting"}
      /\ p = "stop" => end \in {"gone", "idle"}
      /\ p = "hook" => end = "idle"
      /\ end = "gone" => p = "stop"
      /\ end = "done" => p = "start"
  BY DEF Places, Busy
<1> HIDE DEF end
<1>3. /\ pc \in [Callers -> Places] /\ queue \in Seq(Callers) /\ lock \in Callers
      /\ "stop" \in Callers /\ "start" \in Callers /\ "hook" \in Callers
  BY DEF TypeOK, LockOK, Callers
<1>4. /\ pc' \in [Callers -> Places] /\ pc'[p] = end
      /\ \A q \in Callers : q # p => pc'[q] = pc[q]
  BY <1>1, <1>2, <1>3
<1>5. \A q \in Callers : pc'[q] \notin Busy
  BY <1>2, <1>3, <1>4 DEF LockIsFair
<1>6. CASE queue = <<>>
  <2>1. lock' = None /\ queue' = <<>>
    BY <1>1, <1>6 DEF Release
  <2>2. \A q \in Callers : pc'[q] # "waiting"
    BY <1>2, <1>3, <1>4, <1>6 DEF LockIsFair
  <2>3. /\ pc'["stop"] \in {"idle", "waiting", "gone"}
        /\ pc'["hook"] \in {"idle", "waiting"} \cup Busy
    BY <1>2, <1>3, <1>4 DEF LockIsFair
  <2>4. LockIsFair'
    BY <2>1, <2>2, <2>3, <1>5 DEF LockIsFair
  <2> QED BY <2>1, <2>4, <1>1, <1>2, <1>3, <1>4, <1>5 DEF LockOK
<1>7. CASE queue # <<>>
  <2>1. lock' = Head(queue) /\ queue' = Tail(queue)
    BY <1>1, <1>7 DEF Release
  <2>2. /\ Len(queue) \in Nat /\ Len(queue) > 0 /\ DOMAIN queue = 1..Len(queue)
        /\ Head(queue) = queue[1] /\ 1 \in DOMAIN queue /\ queue[1] \in Callers
        /\ Tail(queue) \in Seq(Callers) /\ DOMAIN Tail(queue) = 1..(Len(queue) - 1)
        /\ \A k \in 1..(Len(queue) - 1) :
             k + 1 \in DOMAIN queue /\ k + 1 # 1 /\ Tail(queue)[k] = queue[k + 1]
    BY <1>3, <1>7
  <2>3. queue[1] # p /\ pc'[queue[1]] = "waiting"
    BY <1>4, <2>2 DEF LockIsFair
  <2>4. ASSUME NEW k \in DOMAIN queue'
        PROVE  pc'[queue'[k]] = "waiting" /\ queue'[k] # lock'
    <3>1. k + 1 \in DOMAIN queue /\ k + 1 # 1 /\ queue'[k] = queue[k + 1]
      BY <2>1, <2>2
    <3>2. queue[k + 1] \in Callers /\ queue[k + 1] # p /\ pc[queue[k + 1]] = "waiting"
      BY <1>3, <3>1 DEF LockIsFair
    <3>3. queue[k + 1] # queue[1]
      BY <3>1, <2>2 DEF LockIsFair
    <3> QED BY <1>4, <2>1, <2>2, <3>1, <3>2, <3>3
  <2>5. ASSUME NEW j \in DOMAIN queue', NEW k \in DOMAIN queue', queue'[j] = queue'[k]
        PROVE  j = k
    <3>1. /\ j \in Nat /\ k \in Nat /\ j + 1 \in DOMAIN queue /\ k + 1 \in DOMAIN queue
          /\ queue[j + 1] = queue[k + 1]
      BY <2>1, <2>2, <2>5
    <3>2. j + 1 = k + 1
      BY <3>1 DEF LockIsFair
    <3> QED BY <3>1, <3>2
  <2>6. /\ pc'["stop"] \in {"idle", "waiting", "gone"}
        /\ pc'["hook"] \in {"idle", "waiting"} \cup Busy
    BY <1>2, <1>3, <1>4 DEF LockIsFair
  <2>7. lock' # None
    BY <2>1, <2>2 DEF Callers, None
  <2>9. ASSUME NEW q \in Callers, pc'[q] = "waiting"
        PROVE  lock' = q \/ \E k \in DOMAIN queue' : queue'[k] = q
    <3>1. q # p /\ pc[q] = "waiting"
      BY <1>2, <1>4, <2>9
    <3>2. PICK k \in DOMAIN queue : queue[k] = q
      BY <3>1 DEF LockIsFair
    <3>3. CASE k = 1
      BY <3>2, <3>3, <2>1, <2>2
    <3>4. CASE k # 1
      <4>1. k - 1 \in 1..(Len(queue) - 1) /\ (k - 1) + 1 = k
        BY <3>4, <2>2
      <4>2. k - 1 \in DOMAIN queue' /\ queue'[k - 1] = q
        BY <4>1, <3>2, <2>1, <2>2
      <4> QED BY <4>2
    <3> QED BY <3>3, <3>4
  <2>8. LockIsFair'
    BY <2>1, <2>2, <2>3, <2>4, <2>5, <2>6, <2>7, <2>9, <1>5 DEF LockIsFair
  <2> QED BY <2>1, <2>2, <2>3, <2>8, <1>1, <1>2, <1>3, <1>4, <1>5 DEF LockOK
<1> QED BY <1>6, <1>7

\* A caller takes the free lock or is the last in line.
LEMMA CallFacts ==
  ASSUME TypeOK, LockIsFair, NEW p \in Callers, Call(p)
  PROVE  /\ LockIsFair' /\ LockOK' /\ lock' # None
         /\ pc' = [pc EXCEPT ![p] = "waiting"] /\ pc[p] \in {"idle", "new"}
         /\ lock' = lock \/ (lock = None /\ lock' = p)
<1>1. /\ pc[p] \in {"idle", "new"} /\ Acquire(p) /\ pc' = [pc EXCEPT ![p] = "waiting"]
  BY DEF Call
<1>2. /\ pc \in [Callers -> Places] /\ queue \in Seq(Callers) /\ lock \in Callers \cup {None}
      /\ "stop" \in Callers /\ "hook" \in Callers
  BY DEF TypeOK, LockOK, Callers
<1>3. /\ pc'[p] = "waiting" /\ \A q \in Callers : q # p => pc'[q] = pc[q]
  BY <1>1, <1>2
<1>4. \A k \in DOMAIN queue : queue[k] \in Callers /\ queue[k] # p
  BY <1>1, <1>2 DEF LockIsFair
<1>5. lock # p
  BY <1>1 DEF LockIsFair, Busy, Callers, None
<1>6. \A q \in Callers : pc'[q] \in Busy => pc[q] \in Busy
  BY <1>3 DEF Busy
<1>9. /\ pc'["stop"] \in {"idle", "waiting", "gone"}
      /\ pc'["hook"] \in {"idle", "waiting"} \cup Busy
  BY <1>2, <1>3 DEF LockIsFair
<1>7. CASE lock = None
  <2>1. lock' = p /\ queue' = queue /\ queue = <<>>
    BY <1>1, <1>7 DEF Acquire, LockIsFair
  <2>2. p # None
    BY DEF Callers, None
  <2>4. DOMAIN queue' = {}
    BY <2>1
  <2>5. \A q \in Callers : pc'[q] = "waiting" => lock' = q
    BY <2>1, <2>4, <1>3, <1>7, <2>2 DEF LockIsFair, Callers, None
  <2>6. \A q \in Callers : pc'[q] \notin Busy
    BY <1>6, <1>7, <2>2 DEF LockIsFair, Callers, None
  <2>3. LockIsFair'
    BY <2>1, <2>2, <2>4, <2>5, <2>6, <1>3, <1>9 DEF LockIsFair
  <2> QED BY <1>1, <2>1, <2>2, <2>3, <1>2, <1>7 DEF LockOK, Places
<1>8. CASE lock # None
  <2>1. lock' = lock /\ queue' = Append(queue, p)
    BY <1>1, <1>8 DEF Acquire
  <2>2. /\ queue' \in Seq(Callers) /\ DOMAIN queue' = 1..(Len(queue) + 1)
        /\ DOMAIN queue = 1..Len(queue) /\ Len(queue) \in Nat
        /\ \A k \in DOMAIN queue : queue'[k] = queue[k]
        /\ queue'[Len(queue) + 1] = p
    BY <2>1, <1>2
  <2>3. \A k \in DOMAIN queue' : k \in DOMAIN queue \/ k = Len(queue) + 1
    BY <2>2
  <2>4. ASSUME NEW k \in DOMAIN queue'
        PROVE  pc'[queue'[k]] = "waiting" /\ queue'[k] # lock'
    BY <1>3, <1>4, <1>5, <2>1, <2>2, <2>3 DEF LockIsFair
  <2>5. ASSUME NEW j \in DOMAIN queue', NEW k \in DOMAIN queue', queue'[j] = queue'[k]
        PROVE  j = k
    BY <1>4, <2>2, <2>3, <2>5 DEF LockIsFair
  <2>6. pc'[lock'] \in Busy \cup {"waiting"}
    BY <1>2, <1>3, <1>5, <1>8, <2>1 DEF LockIsFair
  <2>7. \A q \in Callers : pc'[q] \in Busy => lock' = q
    BY <1>6, <2>1 DEF LockIsFair
  <2>9. ASSUME NEW q \in Callers, pc'[q] = "waiting"
        PROVE  lock' = q \/ \E k \in DOMAIN queue' : queue'[k] = q
    <3>1. CASE q = p
      <4>1. Len(queue) + 1 \in DOMAIN queue'
        BY <2>2
      <4> QED BY <3>1, <4>1, <2>2
    <3>2. CASE q # p
      <4>1. lock = q \/ \E k \in DOMAIN queue : queue[k] = q
        BY <1>3, <2>9, <3>2 DEF LockIsFair
      <4>2. \A k \in DOMAIN queue : k \in DOMAIN queue'
        BY <2>2
      <4> QED BY <4>1, <4>2, <2>1, <2>2
    <3> QED BY <3>1, <3>2
  <2>8. LockIsFair'
    BY <2>1, <2>4, <2>5, <2>6, <2>7, <2>9, <1>8, <1>9 DEF LockIsFair
  <2> QED BY <1>1, <1>2, <1>8, <2>1, <2>2, <2>8 DEF LockOK, Places
<1> QED BY <1>7, <1>8

\* The run of a hook that is cancelled while it waits leaves the line.
LEMMA LeaveLineFacts ==
  ASSUME TypeOK, LockIsFair, CancelHook, lock # "hook"
  PROVE  /\ LockIsFair' /\ LockOK' /\ lock' = lock
         /\ pc' = [pc EXCEPT !["hook"] = "idle"]
         /\ UNCHANGED <<conns, held, todo>> /\ troubled'
<1>1. /\ queue' = Without(queue, "hook") /\ pc["hook"] # "idle"
      /\ pc' = [pc EXCEPT !["hook"] = "idle"] /\ lock' = lock
      /\ UNCHANGED <<conns, held, todo>> /\ troubled' = TRUE
  BY DEF CancelHook
<1>2. /\ pc \in [Callers -> Places] /\ queue \in Seq(Callers) /\ lock \in Callers \cup {None}
      /\ "hook" \in Callers /\ "stop" \in Callers
  BY DEF TypeOK, LockOK, Callers
<1>3. PICK k \in DOMAIN queue : queue[k] = "hook"
  BY <1>1, <1>2 DEF LockIsFair
<1>4. PICK n \in DOMAIN queue :
        /\ queue[n] = queue[k]
        /\ Len(Without(queue, queue[k])) = Len(queue) - 1
        /\ \A j \in 1..(Len(queue) - 1) :
             Without(queue, queue[k])[j] = IF j < n THEN queue[j] ELSE queue[j + 1]
  BY <1>2, WithoutFacts
<1>5. Without(queue, queue[k]) \in Seq(Callers)
  BY <1>2, WithoutFacts
<1> DEFINE From(j) == IF j < n THEN j ELSE j + 1
<1>6. /\ queue' \in Seq(Callers) /\ DOMAIN queue' = 1..(Len(queue) - 1)
      /\ DOMAIN queue = 1..Len(queue) /\ Len(queue) \in Nat
  BY <1>1, <1>2, <1>3, <1>4, <1>5
<1>7. ASSUME NEW j \in DOMAIN queue'
      PROVE  From(j) \in DOMAIN queue /\ From(j) # n /\ queue'[j] = queue[From(j)]
  BY <1>1, <1>3, <1>4, <1>6
<1>8. ASSUME NEW j \in DOMAIN queue', NEW i \in DOMAIN queue', From(j) = From(i) PROVE i = j
  BY <1>6, <1>8
<1>9. queue[n] = "hook"
  BY <1>3, <1>4
<1>10. ASSUME NEW m \in DOMAIN queue, m # n
       PROVE  \E j \in DOMAIN queue' : From(j) = m
  <2>1. CASE m < n
    <3>1. m \in DOMAIN queue' /\ From(m) = m
      BY <2>1, <1>6
    <3> QED BY <3>1
  <2>2. CASE m > n
    <3>1. m - 1 \in DOMAIN queue' /\ From(m - 1) = m
      BY <2>2, <1>6
    <3> QED BY <3>1
  <2> QED BY <2>1, <2>2, <1>6, <1>10
<1> HIDE DEF From
<1>11. /\ pc'["hook"] = "idle" /\ \A q \in Callers : q # "hook" => pc'[q] = pc[q]
       /\ "idle" \notin Busy
  BY <1>1, <1>2 DEF Busy
<1>12. ASSUME NEW q \in Callers, pc'[q] = "waiting"
       PROVE  lock' = q \/ \E j \in DOMAIN queue' : queue'[j] = q
  <2>1. q # "hook" /\ pc[q] = "waiting"
    BY <1>11, <1>12
  <2>2. CASE lock = q
    BY <1>1, <2>2
  <2>3. CASE lock # q
    <3>1. PICK m \in DOMAIN queue : queue[m] = q
      BY <2>1, <2>3 DEF LockIsFair
    <3>2. m # n
      BY <3>1, <1>9, <2>1
    <3> QED BY <3>1, <3>2, <1>7, <1>10
  <2> QED BY <2>2, <2>3
<1>13. ASSUME NEW j \in DOMAIN queue'
       PROVE  pc'[queue'[j]] = "waiting" /\ queue'[j] # lock'
  <2>1. queue[From(j)] # "hook"
    BY <1>7, <1>9 DEF LockIsFair
  <2>2. queue[From(j)] \in Callers
    BY <1>2, <1>7
  <2> QED BY <2>1, <2>2, <1>1, <1>7, <1>11 DEF LockIsFair
<1>14. ASSUME NEW j \in DOMAIN queue', NEW i \in DOMAIN queue', queue'[j] = queue'[i]
       PROVE  j = i
  <2>1. From(j) = From(i)
    BY <1>7, <1>14 DEF LockIsFair
  <2> QED BY <1>8, <2>1
<1>15. \A q \in Callers : pc'[q] \in Busy => lock' = q
  BY <1>1, <1>11 DEF LockIsFair
<1>16. lock' # None => pc'[lock'] \in Busy \cup {"waiting"}
  BY <1>1, <1>2, <1>11 DEF LockIsFair
<1>17. /\ pc'["stop"] \in {"idle", "waiting", "gone"}
       /\ pc'["hook"] \in {"idle", "waiting"} \cup Busy
  BY <1>2, <1>11 DEF LockIsFair
<1>18. lock' = None => queue' = <<>>
  BY <1>1, <1>3 DEF LockIsFair
<1>19. LockIsFair'
  BY <1>12, <1>13, <1>14, <1>15, <1>16, <1>17, <1>18 DEF LockIsFair
<1> QED BY <1>1, <1>2, <1>6, <1>19 DEF LockOK, Places
-----------------------------------------------------------------------------
(* The tables                                                              *)

\* What is in the tables is a session.
LEMMA OrderFacts ==
  ASSUME TypeOK
  PROVE  /\ ToSet(order) \subseteq DOMAIN conns /\ 0 \notin ToSet(order)
         /\ \A j \in DOMAIN order : order[j] \in ToSet(order)
         /\ Len(order) \in Nat /\ DOMAIN order = 1..Len(order)
         /\ Len(conns) \in Nat /\ DOMAIN conns = 1..Len(conns)
         /\ \A i \in DOMAIN conns : conns[i] \in Sessions
         /\ <<>> \in Listings \cup {<<>>}
BY DEF TypeOK, TablesOK, ToSet

\* What changes in one session leaves the others and the server of the session alone.
Touches(i) ==
  /\ conns' \in Seq(Sessions) /\ DOMAIN conns' = DOMAIN conns
  /\ \A j \in DOMAIN conns : conns'[j].server = conns[j].server /\ conns'[j].spec = conns[j].spec
  /\ \A j \in DOMAIN conns : j # i => conns'[j] = conns[j]

\* One session is replaced by another record of its server and specification.
LEMMA ReplaceFacts ==
  ASSUME TypeOK, NEW i \in DOMAIN conns, NEW r \in Sessions,
         r.server = conns[i].server, r.spec = conns[i].spec,
         conns' = [conns EXCEPT ![i] = r]
  PROVE  Touches(i) /\ conns'[i] = r
<1>1. conns \in Seq(Sessions) /\ DOMAIN conns = 1..Len(conns) /\ Len(conns) \in Nat
  BY OrderFacts DEF TypeOK, TablesOK
<1>2. DOMAIN conns' = DOMAIN conns /\ conns'[i] = r
  BY <1>1
<1>3. \A j \in DOMAIN conns : j # i => conns'[j] = conns[j]
  BY <1>1
<1>4. conns' \in Seq(Sessions)
  BY <1>1
<1>5. \A j \in DOMAIN conns : conns'[j].server = conns[j].server /\ conns'[j].spec = conns[j].spec
  BY <1>2, <1>3
<1> QED BY <1>2, <1>3, <1>4, <1>5 DEF Touches

\* _stop_instance and a failed start end the life of one session.
LEMMA LivesFacts ==
  ASSUME TypeOK, NEW i \in DOMAIN conns, NEW life \in Lifes, Lives(i, life)
  PROVE  Touches(i) /\ conns'[i].life = life
<1> DEFINE r == [conns[i] EXCEPT !.life = life]
<1>1. conns[i] \in Sessions /\ conns' = [conns EXCEPT ![i] = r]
  BY OrderFacts DEF Lives
<1>2. r \in Sessions /\ r.server = conns[i].server /\ r.spec = conns[i].spec /\ r.life = life
  BY <1>1 DEF Sessions
<1> HIDE DEF r
<1> QED BY <1>1, <1>2, ReplaceFacts

\* MCPServerRuntime.stop begins with one session and its tools.
LEMMA ClosingFacts ==
  ASSUME TypeOK, NEW i \in DOMAIN conns, Closing(i)
  PROVE  Touches(i) /\ conns'[i].life = "closing"
<1> DEFINE r == [conns[i] EXCEPT !.life = "closing", !.tools = <<>>]
<1>1. conns[i] \in Sessions /\ conns \in Seq(Sessions)
  BY OrderFacts DEF TypeOK, TablesOK
<1>2. r \in Sessions /\ r.server = conns[i].server /\ r.spec = conns[i].spec /\ r.life = "closing"
  BY <1>1 DEF Sessions, Lifes
<1>3. conns' = [conns EXCEPT ![i] = r]
  BY <1>1 DEF Closing
<1> HIDE DEF r
<1> QED BY <1>2, <1>3, ReplaceFacts

\* refresh_tools replaces the tools of one session.
LEMMA ListsFacts ==
  ASSUME TypeOK, NEW i \in DOMAIN conns, NEW l \in Listings,
         conns' = [conns EXCEPT ![i].tools = l]
  PROVE  Touches(i) /\ conns'[i].life = conns[i].life
<1> DEFINE r == [conns[i] EXCEPT !.tools = l]
<1>1. conns[i] \in Sessions /\ conns' = [conns EXCEPT ![i] = r]
  BY OrderFacts
<1>2. r \in Sessions /\ r.server = conns[i].server /\ r.spec = conns[i].spec /\ r.life = conns[i].life
  BY <1>1 DEF Sessions
<1> HIDE DEF r
<1> QED BY <1>1, <1>2, ReplaceFacts

\* A caller that holds the lock goes on to the next thing it does.
LEMMA MovesFacts ==
  ASSUME TypeOK, LockIsFair, NEW p \in Callers, p # "stop", lock = p, NEW place \in Busy,
         pc' = [pc EXCEPT ![p] = place], UNCHANGED locking
  PROVE  /\ LockIsFair' /\ LockOK' /\ pc'[p] = place
         /\ \A q \in Callers : q # p => pc'[q] = pc[q]
         /\ \A q \in Callers \ {p} : pc'[q] \notin Busy
<1>1. /\ pc \in [Callers -> Places] /\ queue \in Seq(Callers) /\ lock \in Callers /\ place \in Places
      /\ "stop" \in Callers /\ "hook" \in Callers /\ place # "waiting" /\ p # None
  BY DEF TypeOK, LockOK, Callers, Places, Busy, None
<1>2. /\ pc' \in [Callers -> Places] /\ pc'[p] = place
      /\ \A q \in Callers : q # p => pc'[q] = pc[q]
  BY <1>1
<1>3. queue' = queue /\ lock' = lock
  BY DEF locking
<1>4. \A q \in Callers \ {p} : pc'[q] \notin Busy
  BY <1>2 DEF LockIsFair
<1>5. \A k \in DOMAIN queue : queue[k] \in Callers /\ queue[k] # p
  BY <1>1 DEF LockIsFair
<1>6. LockIsFair'
  <2>1. \A q \in Callers : pc'[q] \in Busy => lock' = q
    BY <1>3, <1>4
  <2>2. pc'[lock'] \in Busy
    BY <1>2, <1>3
  <2>3. /\ pc'["stop"] \in {"idle", "waiting", "gone"}
        /\ pc'["hook"] \in {"idle", "waiting"} \cup Busy
    BY <1>1, <1>2 DEF LockIsFair
  <2>4. \A q \in Callers : pc'[q] = "waiting" =>
          lock' = q \/ \E k \in DOMAIN queue' : queue'[k] = q
    BY <1>1, <1>2, <1>3 DEF LockIsFair
  <2>5. \A k \in DOMAIN queue' : pc'[queue'[k]] = "waiting" /\ queue'[k] # lock'
    BY <1>2, <1>3, <1>5 DEF LockIsFair
  <2>6. \A j, k \in DOMAIN queue' : queue'[j] = queue'[k] => j = k
    BY <1>3 DEF LockIsFair
  <2> QED BY <2>1, <2>2, <2>3, <2>4, <2>5, <2>6, <1>1, <1>3 DEF LockIsFair
<1> QED BY <1>1, <1>2, <1>3, <1>4, <1>6 DEF LockOK

\* Steps that leave the lock and the callers alone.
LEMMA StaysFacts ==
  ASSUME TypeOK, LockIsFair, UNCHANGED <<lock, queue, pc>>
  PROVE  LockIsFair' /\ LockOK'
BY DEF TypeOK, LockOK, LockIsFair

-----------------------------------------------------------------------------
(* The control of a refresh: every step keeps it                           *)

Core ==
  /\ LockIsFair /\ LockOK /\ TablesOK
  /\ HandIsRight /\ SessionsAreKnown /\ StopIsFinal /\ OneRuntimePerServer

Open == {"connecting", "live", "closing"}

\* A caller at work is the only one, and not the stop.
LEMMA HolderFacts ==
  ASSUME TypeOK, LockIsFair, NEW p \in Callers, pc[p] \in Busy
  PROVE  /\ lock = p /\ p # "stop" /\ lock # None /\ lock # "stop"
         /\ \A q \in Callers : q # p => pc[q] \notin Busy
BY DEF LockIsFair, Busy, Callers, None

\* The outside and the calls of tools leave the control alone.
LEMMA OutsideStep ==
  ASSUME TypeOK, Core, UNCHANGED <<conns, order, held, todo, pending, lock, queue, pc>>,
         UNCHANGED <<descs, available>>
  PROVE  Core'
<1>1. LockIsFair' /\ LockOK' /\ TablesOK'
  BY StaysFacts DEF Core, TypeOK, TablesOK
<1>2. HandIsRight' /\ SessionsAreKnown'
  BY DEF Core, HandIsRight, SessionsAreKnown
<1>3. StopIsFinal' /\ OneRuntimePerServer'
  BY DEF Core, StopIsFinal, OneRuntimePerServer
<1> QED BY <1>1, <1>2, <1>3 DEF Core

\* A caller that comes for the lock changes nothing but the line.
LEMMA CallStep ==
  ASSUME TypeOK, Core, NEW p \in Callers, Call(p)
  PROVE  Core'
<1>1. /\ UNCHANGED <<conns, order, held, todo, pending, descs, available>>
      /\ pc["stop"] # "gone"
  BY DEF Call, manager
<1>2. /\ LockIsFair' /\ LockOK' /\ lock' # None
      /\ pc' = [pc EXCEPT ![p] = "waiting"] /\ pc[p] \in {"idle", "new"}
      /\ lock' = lock \/ (lock = None /\ lock' = p)
  BY CallFacts DEF Core
<1>3. /\ pc \in [Callers -> Places] /\ pc'[p] = "waiting"
      /\ \A q \in Callers : q # p => pc'[q] = pc[q]
  BY <1>2 DEF TypeOK, LockOK
<1>4. \A q \in Callers : pc'[q] \in Busy \cup {"gone"} => q # p /\ pc[q] = pc'[q]
  BY <1>3 DEF Busy
<1>5. TablesOK' /\ SessionsAreKnown'
  BY <1>1 DEF Core, TablesOK, SessionsAreKnown
<1>6. HandIsRight'
  <2>1. \A q \in Callers \ {"stop"} : lock' = q /\ pc'[q] = "waiting" => held' = 0 /\ todo' = {}
    <3> SUFFICES ASSUME NEW q \in Callers \ {"stop"}, lock' = q, pc'[q] = "waiting"
                 PROVE  held' = 0 /\ todo' = {}
      OBVIOUS
    <3>1. CASE lock = None
      BY <3>1, <1>1 DEF Core, HandIsRight
    <3>2. CASE lock # None
      <4>1. lock = q
        BY <3>2, <1>2
      <4>2. q # p
        BY <4>1, <1>2 DEF Core, LockIsFair, Busy, Callers, None
      <4> QED BY <4>1, <4>2, <1>1, <1>3 DEF Core, HandIsRight
    <3> QED BY <3>1, <3>2
  <2>2. \A q \in Callers : pc'[q] = "creating" => held' # 0 /\ conns'[held'].life = "connecting"
    BY <1>1, <1>4 DEF Core, HandIsRight, Busy
  <2>3. \A q \in Callers : pc'[q] = "listing" => held' = 0 /\ todo' \subseteq DOMAIN conns'
    BY <1>1, <1>4 DEF Core, HandIsRight, Busy
  <2>4. lock' = "stop" => /\ todo' \subseteq ToSet(order')
                          /\ \A i \in todo' : i # held' => conns'[i].life = "closed"
    BY <1>1, <1>2 DEF Core, HandIsRight
  <2> QED BY <1>2, <2>1, <2>2, <2>3, <2>4 DEF HandIsRight
<1>7. StopIsFinal'
  BY <1>1, <1>4 DEF StopIsFinal, Callers
<1>8. OneRuntimePerServer'
  BY <1>1, <1>4 DEF Core, OneRuntimePerServer, Busy
<1> QED BY <1>2, <1>5, <1>6, <1>7, <1>8 DEF Core

\* A caller that returns or raises leaves no session open but the listed ones.
LEMMA EndsStep ==
  ASSUME TypeOK, Core, NEW p \in Callers, lock = p, NEW well \in BOOLEAN, Ends(p, well),
         p # "stop" \/ ~ well, UNCHANGED <<order, descs, available>>,
         conns' \in Seq(Sessions), DOMAIN conns' = DOMAIN conns, pending' \subseteq DOMAIN conns,
         \A i \in DOMAIN conns : conns'[i].server = conns[i].server,
         \A i \in DOMAIN conns : conns'[i].life \in Open => i \in ToSet(order),
         \A i \in DOMAIN conns : conns[i].life = "closed" => conns'[i].life = "closed"
  PROVE  Core'
<1>1. /\ LockIsFair' /\ LockOK' /\ held' = 0 /\ todo' = {}
      /\ \A q \in Callers : pc'[q] \notin Busy
      /\ lock' # None => pc'[lock'] = "waiting"
  BY EndsFacts DEF Core
<1>2. pc'["stop"] = "gone" => pc["stop"] = "gone"
  <2>1. /\ pc \in [Callers -> Places] /\ "stop" \in Callers
        /\ pc' = [pc EXCEPT ![p] = IF p = "start" THEN (IF well THEN "done" ELSE "failed") ELSE
                                   IF p = "stop" /\ well THEN "gone" ELSE "idle"]
    BY DEF Ends, TypeOK, LockOK, Callers
  <2>2. CASE p = "stop"
    BY <2>1, <2>2
  <2>3. CASE p # "stop"
    BY <2>1, <2>3
  <2> QED BY <2>2, <2>3
<1>3. TablesOK'
  BY <1>1 DEF Core, TablesOK
<1>4. HandIsRight'
  BY <1>1 DEF HandIsRight, Busy
<1>5. SessionsAreKnown'
  BY DEF SessionsAreKnown, Open
<1>6. StopIsFinal'
  BY <1>1, <1>2 DEF Core, StopIsFinal, Busy
<1>7. OneRuntimePerServer'
  <2>1. \A j \in DOMAIN order : order[j] \in DOMAIN conns
    BY OrderFacts
  <2>2. \A j, k \in DOMAIN order' : conns'[order'[j]].server = conns'[order'[k]].server => j = k
    BY <2>1 DEF Core, OneRuntimePerServer
  <2> QED BY <1>1, <2>2 DEF OneRuntimePerServer, Busy
<1> QED BY <1>1, <1>3, <1>4, <1>5, <1>6, <1>7 DEF Core

\* The answer of a server, awaited or late, changes the tools of one session.
LEMMA AnswerStep ==
  ASSUME TypeOK, Core, NEW i \in DOMAIN conns, Touches(i), conns'[i].life = conns[i].life,
         UNCHANGED <<order, held, lock, queue, pc, descs, available>>,
         pending' \subseteq pending, todo' \subseteq todo
  PROVE  Core'
<1>1. /\ conns' \in Seq(Sessions) /\ DOMAIN conns' = DOMAIN conns
      /\ \A j \in DOMAIN conns : conns'[j].server = conns[j].server /\ conns'[j].life = conns[j].life
  BY DEF Touches
<1>2. LockIsFair' /\ LockOK'
  BY StaysFacts DEF Core
<1>3. TablesOK'
  BY <1>1 DEF Core, TablesOK
<1>4. ToSet(order) \subseteq DOMAIN conns /\ \A j \in DOMAIN order : order[j] \in DOMAIN conns
  BY OrderFacts
<1>5. held # 0 => held \in DOMAIN conns
  BY DEF TypeOK, TablesOK
<1>6. HandIsRight'
  <2>1. lock' = None => held' = 0 /\ todo' = {}
    BY DEF Core, HandIsRight
  <2>2. \A p \in Callers \ {"stop"} : lock' = p /\ pc'[p] = "waiting" => held' = 0 /\ todo' = {}
    BY DEF Core, HandIsRight
  <2>3. \A p \in Callers : pc'[p] = "creating" => held' # 0 /\ conns'[held'].life = "connecting"
    BY <1>1, <1>5 DEF Core, HandIsRight
  <2>4. \A p \in Callers : pc'[p] = "listing" => held' = 0 /\ todo' \subseteq DOMAIN conns'
    BY <1>1 DEF Core, HandIsRight
  <2>5. lock' = "stop" => /\ todo' \subseteq ToSet(order')
                          /\ \A j \in todo' : j # held' => conns'[j].life = "closed"
    BY <1>1, <1>4 DEF Core, HandIsRight
  <2> QED BY <2>1, <2>2, <2>3, <2>4, <2>5 DEF HandIsRight
<1>7. SessionsAreKnown'
  BY <1>1 DEF Core, SessionsAreKnown
<1>8. StopIsFinal'
  BY <1>1 DEF Core, StopIsFinal
<1>9. OneRuntimePerServer'
  <2>1. \A j, k \in DOMAIN order' : conns'[order'[j]].server = conns'[order'[k]].server => j = k
    BY <1>1, <1>4 DEF Core, OneRuntimePerServer
  <2>2. \A p \in Callers : pc'[p] = "creating" => held' \in DOMAIN conns
    BY <1>5 DEF Core, HandIsRight
  <2>3. \A p \in Callers : pc'[p] = "creating" =>
          \A k \in DOMAIN order' : conns'[order'[k]].server # conns'[held'].server
    BY <1>1, <1>4, <2>2 DEF Core, OneRuntimePerServer
  <2> QED BY <2>1, <2>3 DEF OneRuntimePerServer
<1> QED BY <1>2, <1>3, <1>6, <1>7, <1>8, <1>9 DEF Core

\* What every step of the holder of the lock may use.
LEMMA WorkFacts ==
  ASSUME TypeOK, Core, NEW p \in Callers, pc[p] \in Busy
  PROVE  /\ p # "stop" /\ lock = p /\ lock # None /\ lock # "stop"
         /\ \A q \in Callers : q # p => pc[q] \notin Busy
         /\ "creating" \in Busy /\ "dropping" \in Busy /\ "listing" \in Busy /\ "waiting" \notin Busy
         /\ "gone" \notin Busy /\ "stop" \in Callers
         /\ held \in {0} \cup DOMAIN conns
         /\ \A j \in DOMAIN order : order[j] \in DOMAIN conns
         /\ \A i \in DOMAIN conns : conns[i].life \in Open => i \in ToSet(order) \cup {held}
BY HolderFacts, OrderFacts DEF Core, Busy, Callers, TypeOK, TablesOK, SessionsAreKnown, Open

\* The holder goes on to another place with the sessions as they are.
LEMMA MoveStep ==
  ASSUME TypeOK, Core, NEW p \in Callers, p # "stop", lock = p, held = 0, NEW place \in Busy,
         place # "creating", pc' = [pc EXCEPT ![p] = place], UNCHANGED locking,
         UNCHANGED <<conns, order, held, pending, available>>,
         place = "listing" => todo' \subseteq DOMAIN conns,
         pc["stop"] = "gone" => \A s \in ServerSet : descs'[s] = 0
  PROVE  Core'
<1>1. /\ LockIsFair' /\ LockOK' /\ pc'[p] = place /\ lock' = lock
      /\ \A q \in Callers : q # p => pc'[q] = pc[q]
      /\ \A q \in Callers \ {p} : pc'[q] \notin Busy
  BY MovesFacts DEF Core, locking
<1>2. /\ p # None /\ "stop" \in Callers /\ "waiting" \notin Busy /\ "gone" \notin Busy
      /\ "creating" \in Busy /\ "listing" \in Busy
  BY DEF Callers, None, Busy
<1>3. TablesOK' /\ SessionsAreKnown'
  BY DEF Core, TablesOK, SessionsAreKnown
<1>4. HandIsRight'
  BY <1>1, <1>2 DEF HandIsRight
<1>5. StopIsFinal'
  BY <1>1, <1>2 DEF Core, StopIsFinal
<1>6. OneRuntimePerServer'
  BY <1>1, <1>2 DEF Core, OneRuntimePerServer
<1> QED BY <1>1, <1>3, <1>4, <1>5, <1>6 DEF Core

\* _load_specs gives the refresh new descriptors.
LEMMA ScanStep ==
  ASSUME TypeOK, Core, NEW p \in Callers, Scan(p)
  PROVE  Core'
<1>1. /\ lock = p /\ p # "stop" /\ pc[p] = "waiting" /\ descs' = Loaded
      /\ pc' = [pc EXCEPT ![p] = "dropping"] /\ UNCHANGED locking
      /\ UNCHANGED <<conns, order, held, pending, available>>
  BY DEF Scan
<1>2. held = 0
  BY <1>1 DEF Core, HandIsRight
<1>3. pc["stop"] = "gone" => \A s \in ServerSet : descs'[s] = 0
  BY <1>1 DEF Core, StopIsFinal, Loaded
<1>4. "dropping" \in Busy
  BY DEF Busy
<1> QED BY <1>1, <1>2, <1>3, <1>4, MoveStep

\* _refresh_instances begins with every listed runtime.
LEMMA RelistStep ==
  ASSUME TypeOK, Core, NEW p \in Callers, Relist(p)
  PROVE  Core'
<1>1. /\ pc[p] = "dropping" /\ held = 0 /\ todo' = ToSet(order)
      /\ pc' = [pc EXCEPT ![p] = "listing"] /\ UNCHANGED locking
      /\ UNCHANGED <<conns, order, held, pending, descs, available>>
  BY DEF Relist, manager
<1>2. lock = p /\ p # "stop" /\ "listing" \in Busy
  BY <1>1, WorkFacts DEF Busy
<1>3. pc["stop"] = "gone" => \A s \in ServerSet : descs'[s] = 0
  BY <1>1 DEF Core, StopIsFinal
<1> QED BY <1>1, <1>2, <1>3, MoveStep, OrderFacts

\* A runtime to be replaced is in the tables.
LEMMA LeavingFacts ==
  ASSUME TypeOK, Leaving # {}
  PROVE  /\ Runtime(FirstOf(Leaving)) \in ToSet(order) /\ order # <<>>
         /\ \E k \in DOMAIN order : Runtime(FirstOf(Leaving)) = order[k]
<1>1. Listed \subseteq ServerSet
  BY OrderFacts DEF Listed, Sessions
<1>2. FirstOf(Leaving) \in Listed
  BY <1>1, FirstOfFacts DEF Leaving
<1>3. \E i \in ToSet(order) : conns[i].server = FirstOf(Leaving)
  BY <1>2 DEF Listed
<1>4. Runtime(FirstOf(Leaving)) \in ToSet(order)
  BY <1>3 DEF Runtime
<1> QED BY <1>4 DEF ToSet

\* A runtime that is to be replaced leaves the tables before its session is closed.
LEMMA DropStep ==
  ASSUME TypeOK, Core, NEW p \in Callers, Drop(p)
  PROVE  Core'
<1> DEFINE i == Runtime(FirstOf(Leaving))
<1>1. /\ pc[p] = "dropping" /\ held = 0 /\ Leaving # {}
      /\ order' = Without(order, i) /\ Closing(i) /\ held' = i
      /\ UNCHANGED <<descs, available, todo, pending>> /\ UNCHANGED <<lock, queue, pc>>
  BY DEF Drop, locking
<1>2. i \in ToSet(order) /\ order # <<>> /\ \E k \in DOMAIN order : i = order[k]
  BY <1>1, LeavingFacts
<1> HIDE DEF i
<1>3. i \in DOMAIN conns /\ Touches(i) /\ conns'[i].life = "closing" /\ i # 0
  BY <1>1, <1>2, ClosingFacts, OrderFacts
<1>4. PICK k \in DOMAIN order : i = order[k]
  BY <1>2
<1>5. order \in Seq(DOMAIN conns)
  BY DEF TypeOK, TablesOK
<1>6. Without(order, order[k]) \in Seq(DOMAIN conns)
  BY <1>5, WithoutFacts
<1>7. PICK n \in DOMAIN order :
        /\ order[n] = order[k]
        /\ Len(Without(order, order[k])) = Len(order) - 1
        /\ \A j \in 1..(Len(order) - 1) :
             Without(order, order[k])[j] = IF j < n THEN order[j] ELSE order[j + 1]
  BY <1>5, WithoutFacts
<1> DEFINE From(j) == IF j < n THEN j ELSE j + 1
<1>8. /\ order' \in Seq(DOMAIN conns) /\ DOMAIN order' = 1..(Len(order) - 1)
      /\ DOMAIN order = 1..Len(order) /\ Len(order) \in Nat
  BY <1>1, <1>4, <1>5, <1>6, <1>7
<1>9. ASSUME NEW j \in DOMAIN order'
      PROVE  From(j) \in DOMAIN order /\ order'[j] = order[From(j)]
  <2>1. j \in 1..(Len(order) - 1) /\ order' = Without(order, order[k])
    BY <1>1, <1>4, <1>8, <1>9
  <2>2. order'[j] = IF j < n THEN order[j] ELSE order[j + 1]
    BY <2>1, <1>7
  <2> QED BY <2>1, <2>2, <1>8
<1>10. ASSUME NEW j \in DOMAIN order', NEW m \in DOMAIN order', From(j) = From(m) PROVE j = m
  BY <1>8, <1>10
<1>11. ASSUME NEW m \in DOMAIN order, m # n PROVE \E j \in DOMAIN order' : From(j) = m
  <2>1. CASE m < n
    <3>1. m \in DOMAIN order' /\ From(m) = m
      BY <2>1, <1>8
    <3> QED BY <3>1
  <2>2. CASE m > n
    <3>1. m - 1 \in DOMAIN order' /\ From(m - 1) = m
      BY <2>2, <1>8
    <3> QED BY <3>1
  <2> QED BY <2>1, <2>2, <1>8, <1>11
<1> HIDE DEF From
<1>12. ASSUME NEW m \in ToSet(order), m # i PROVE m \in ToSet(order')
  <2>1. PICK a \in DOMAIN order : order[a] = m
    BY <1>12 DEF ToSet
  <2>2. PICK j \in DOMAIN order' : From(j) = a
    BY <2>1, <1>4, <1>7, <1>11, <1>12
  <2>3. order'[j] = m
    BY <2>1, <2>2, <1>9
  <2> QED BY <2>3 DEF ToSet
<1>13. /\ \A j \in DOMAIN conns : conns'[j].server = conns[j].server
       /\ \A j \in DOMAIN conns : j # i => conns'[j] = conns[j]
       /\ conns' \in Seq(Sessions) /\ DOMAIN conns' = DOMAIN conns
  BY <1>3 DEF Touches
<1>14. LockIsFair' /\ LockOK'
  BY <1>1, StaysFacts DEF Core
<1>15. TablesOK'
  BY <1>1, <1>3, <1>8, <1>13 DEF Core, TablesOK
<1>16. lock = p /\ p # "stop" /\ lock # None /\ \A q \in Callers : q # p => pc[q] \notin Busy
  BY <1>1, WorkFacts DEF Busy
<1>17. HandIsRight'
  BY <1>1, <1>16 DEF HandIsRight, Busy
<1>18. SessionsAreKnown'
  BY <1>1, <1>12, <1>13 DEF Core, SessionsAreKnown
<1>19. StopIsFinal'
  BY <1>1, <1>2 DEF Core, StopIsFinal
<1>20. OneRuntimePerServer'
  <2>1. ASSUME NEW j \in DOMAIN order', NEW m \in DOMAIN order',
               conns'[order'[j]].server = conns'[order'[m]].server
        PROVE  j = m
    <3>1. /\ From(j) \in DOMAIN order /\ From(m) \in DOMAIN order
          /\ order'[j] = order[From(j)] /\ order'[m] = order[From(m)]
      BY <1>9
    <3>2. conns[order[From(j)]].server = conns[order[From(m)]].server
      BY <2>1, <3>1, <1>5, <1>13
    <3>3. From(j) = From(m)
      BY <3>1, <3>2 DEF Core, OneRuntimePerServer
    <3> QED BY <3>3, <1>10
  <2>2. \A q \in Callers : pc'[q] # "creating"
    BY <1>1, <1>16 DEF Busy
  <2> QED BY <2>1, <2>2 DEF OneRuntimePerServer
<1> QED BY <1>14, <1>15, <1>17, <1>18, <1>19, <1>20 DEF Core

\* The session in hand is closed, by a refresh or by the stop.
LEMMA ClosedStep ==
  ASSUME TypeOK, Core, lock # None, held # 0, Lives(held, "closed"), held' = 0,
         \A p \in Callers : pc[p] \notin {"creating", "listing"},
         UNCHANGED <<order, todo, pending, lock, queue, pc, descs, available>>
  PROVE  Core'
<1>1. held \in DOMAIN conns /\ "closed" \in Lifes
  BY DEF TypeOK, TablesOK, Lifes
<1>2. Touches(held) /\ conns'[held].life = "closed"
  BY <1>1, LivesFacts
<1>3. /\ \A j \in DOMAIN conns : conns'[j].server = conns[j].server
      /\ \A j \in DOMAIN conns : j # held => conns'[j] = conns[j]
      /\ conns' \in Seq(Sessions) /\ DOMAIN conns' = DOMAIN conns
  BY <1>2 DEF Touches
<1>4. LockIsFair' /\ LockOK'
  BY StaysFacts DEF Core
<1>5. TablesOK'
  BY <1>3 DEF Core, TablesOK
<1>6. ToSet(order) \subseteq DOMAIN conns /\ \A j \in DOMAIN order : order[j] \in DOMAIN conns
  BY OrderFacts
<1>7. HandIsRight'
  <2>1. \A p \in Callers \ {"stop"} : lock' = p /\ pc'[p] = "waiting" => held' = 0 /\ todo' = {}
    BY DEF Core, HandIsRight
  <2>2. lock' = "stop" => /\ todo' \subseteq ToSet(order')
                          /\ \A j \in todo' : j # held' => conns'[j].life = "closed"
    BY <1>2, <1>3, <1>6 DEF Core, HandIsRight
  <2> QED BY <2>1, <2>2 DEF HandIsRight
<1>8. SessionsAreKnown'
  BY <1>2, <1>3 DEF Core, SessionsAreKnown
<1>9. StopIsFinal'
  BY <1>2, <1>3 DEF Core, StopIsFinal
<1>10. OneRuntimePerServer'
  BY <1>3, <1>6 DEF Core, OneRuntimePerServer
<1> QED BY <1>4, <1>5, <1>7, <1>8, <1>9, <1>10 DEF Core

\* The session of a runtime that was taken out is closed.
LEMMA DroppedStep ==
  ASSUME TypeOK, Core, NEW p \in Callers, Dropped(p)
  PROVE  Core'
<1>1. /\ pc[p] = "dropping" /\ held # 0 /\ Lives(held, "closed") /\ held' = 0
      /\ UNCHANGED <<order, todo, pending, lock, queue, pc, descs, available>>
  BY DEF Dropped, manager, locking
<1>2. lock # None /\ \A q \in Callers : pc[q] \notin {"creating", "listing"}
  BY <1>1, WorkFacts DEF Busy
<1> QED BY <1>1, <1>2, ClosedStep

\* The stop has closed one session.
LEMMA StopClosedStep ==
  ASSUME TypeOK, Core, StopClosed
  PROVE  Core'
<1>1. /\ lock = "stop" /\ pc["stop"] = "waiting" /\ held # 0 /\ Lives(held, "closed") /\ held' = 0
      /\ UNCHANGED <<order, todo, pending, lock, queue, pc, descs, available>>
  BY DEF StopClosed, manager, locking
<1>2. lock # None /\ \A q \in Callers : pc[q] \notin {"creating", "listing"}
  BY <1>1 DEF Core, LockIsFair, Busy, None
<1> QED BY <1>1, <1>2, ClosedStep

\* A server that does not start is skipped and its session closed.
LEMMA ConnectFailsStep ==
  ASSUME TypeOK, Core, NEW p \in Callers, ConnectFails(p)
  PROVE  Core'
<1>1. /\ pc[p] = "creating" /\ Lives(held, "closed") /\ held' = 0
      /\ pc' = [pc EXCEPT ![p] = "dropping"] /\ UNCHANGED locking
      /\ UNCHANGED <<order, todo, pending, descs, available>>
  BY DEF ConnectFails, manager
<1>2. /\ p # "stop" /\ lock = p /\ lock # None /\ lock # "stop" /\ "dropping" \in Busy
      /\ "creating" \in Busy /\ "listing" \in Busy /\ "waiting" \notin Busy /\ "gone" \notin Busy
      /\ "stop" \in Callers /\ \A j \in DOMAIN order : order[j] \in DOMAIN conns
  BY <1>1, WorkFacts DEF Busy
<1>3. held \in DOMAIN conns /\ "closed" \in Lifes
  BY <1>1 DEF TypeOK, TablesOK, Lifes, Core, HandIsRight
<1>4. Touches(held) /\ conns'[held].life = "closed"
  BY <1>1, <1>3, LivesFacts
<1>5. /\ \A j \in DOMAIN conns : conns'[j].server = conns[j].server
      /\ \A j \in DOMAIN conns : j # held => conns'[j] = conns[j]
      /\ conns' \in Seq(Sessions) /\ DOMAIN conns' = DOMAIN conns
  BY <1>4 DEF Touches
<1>6. /\ LockIsFair' /\ LockOK' /\ pc'[p] = "dropping" /\ lock' = lock
      /\ \A q \in Callers : q # p => pc'[q] = pc[q]
      /\ \A q \in Callers \ {p} : pc'[q] \notin Busy
  BY <1>1, <1>2, MovesFacts DEF Core, locking
<1>7. TablesOK'
  BY <1>1, <1>5 DEF Core, TablesOK
<1>8. HandIsRight'
  BY <1>1, <1>2, <1>6 DEF HandIsRight
<1>9. SessionsAreKnown'
  BY <1>1, <1>4, <1>5 DEF Core, SessionsAreKnown
<1>10. StopIsFinal'
  BY <1>1, <1>2, <1>6 DEF Core, StopIsFinal
<1>11. OneRuntimePerServer'
  <2>1. \A q \in Callers : pc'[q] # "creating"
    BY <1>2, <1>6
  <2> QED BY <1>1, <1>2, <1>5, <2>1 DEF Core, OneRuntimePerServer
<1> QED BY <1>6, <1>7, <1>8, <1>9, <1>10, <1>11 DEF Core

\* A missing server gets a session, which is in hand and in no table yet.
LEMMA ConnectStep ==
  ASSUME TypeOK, Core, NEW p \in Callers, Connect(p)
  PROVE  Core'
<1> DEFINE s == FirstOf(Missing \ todo)
           r == [server |-> s, spec |-> descs[s], life |-> "connecting", tools |-> <<>>]
<1>1. /\ pc[p] = "dropping" /\ held = 0 /\ Missing \ todo # {}
      /\ conns' = Append(conns, r) /\ held' = Len(conns')
      /\ pc' = [pc EXCEPT ![p] = "creating"] /\ UNCHANGED locking
      /\ UNCHANGED <<order, pending, descs, available>>
  BY DEF Connect, manager
<1>2. /\ p # "stop" /\ lock = p /\ lock # None /\ lock # "stop"
      /\ "creating" \in Busy /\ "listing" \in Busy /\ "waiting" \notin Busy /\ "gone" \notin Busy
      /\ "stop" \in Callers /\ \A j \in DOMAIN order : order[j] \in DOMAIN conns
  BY <1>1, WorkFacts DEF Busy
<1>3. s \in Missing
  <2>1. Missing \ todo \subseteq ServerSet
    BY DEF Missing
  <2>2. s \in Missing \ todo
    BY <1>1, <2>1, FirstOfFacts
  <2> QED BY <2>2
<1> HIDE DEF s
<1>4. s \in ServerSet /\ descs[s] # 0 /\ descs[s] \in 0..MaxSpec /\ s \notin Listed
  BY <1>3 DEF Missing, TypeOK, ServiceOK
<1>5. r \in Sessions /\ r.server = s /\ r.life = "connecting"
  BY <1>4 DEF Sessions, Lifes
<1> HIDE DEF r
<1>6. /\ conns \in Seq(Sessions) /\ Len(conns) \in Nat /\ DOMAIN conns = 1..Len(conns)
      /\ order \in Seq(DOMAIN conns) /\ pending \subseteq DOMAIN conns
  BY OrderFacts DEF TypeOK, TablesOK
<1>7. /\ conns' \in Seq(Sessions) /\ held' = Len(conns) + 1 /\ DOMAIN conns' = 1..(Len(conns) + 1)
      /\ \A j \in DOMAIN conns : conns'[j] = conns[j]
      /\ conns'[Len(conns) + 1] = r
  BY <1>1, <1>5, <1>6
<1>8. /\ held' \in DOMAIN conns' /\ held' # 0 /\ conns'[held'] = r /\ DOMAIN conns \subseteq DOMAIN conns'
      /\ \A j \in DOMAIN conns' : j \in DOMAIN conns \/ j = held'
  BY <1>6, <1>7
<1>9. /\ LockIsFair' /\ LockOK' /\ pc'[p] = "creating" /\ lock' = lock
      /\ \A q \in Callers : q # p => pc'[q] = pc[q]
      /\ \A q \in Callers \ {p} : pc'[q] \notin Busy
  BY <1>1, <1>2, MovesFacts DEF Core, locking
<1>10. TablesOK'
  <2>1. order \in Seq(DOMAIN conns')
    BY <1>6, <1>8
  <2> QED BY <1>1, <1>6, <1>7, <1>8, <2>1 DEF TablesOK
<1>11. HandIsRight'
  <2>1. \A q \in Callers : pc'[q] = "creating" => held' # 0 /\ conns'[held'].life = "connecting"
    BY <1>5, <1>8
  <2>2. \A q \in Callers : pc'[q] # "listing"
    BY <1>2, <1>9
  <2>3. \A q \in Callers \ {"stop"} : ~ (lock' = q /\ pc'[q] = "waiting")
    BY <1>2, <1>9
  <2> QED BY <1>2, <1>9, <2>1, <2>2, <2>3 DEF HandIsRight
<1>12. SessionsAreKnown'
  BY <1>1, <1>7, <1>8 DEF Core, SessionsAreKnown
<1>13. StopIsFinal'
  <2>1. pc["stop"] # "gone"
    BY <1>4 DEF Core, StopIsFinal
  <2> QED BY <1>2, <1>9, <2>1 DEF StopIsFinal
<1>14. OneRuntimePerServer'
  <2>1. \A k \in DOMAIN order : conns[order[k]].server # s
    BY <1>4 DEF Listed, ToSet
  <2>2. \A k \in DOMAIN order' : conns'[order'[k]].server # conns'[held'].server
    BY <1>1, <1>2, <1>5, <1>7, <1>8, <2>1
  <2>3. \A j, k \in DOMAIN order' : conns'[order'[j]].server = conns'[order'[k]].server => j = k
    BY <1>1, <1>2, <1>7 DEF Core, OneRuntimePerServer
  <2> QED BY <2>2, <2>3 DEF OneRuntimePerServer
<1> QED BY <1>9, <1>10, <1>11, <1>12, <1>13, <1>14 DEF Core

\* A session that has listed its tools is entered in the tables.
LEMMA ConnectedStep ==
  ASSUME TypeOK, Core, NEW p \in Callers, Connected(p)
  PROVE  Core'
<1> DEFINE r == [conns[held] EXCEPT !.life = "live", !.tools = offers[conns[held].server]]
<1>1. /\ pc[p] = "creating" /\ order' = Append(order, held) /\ held' = 0
      /\ conns' = [conns EXCEPT ![held].life = "live", ![held].tools = offers[conns[held].server]]
      /\ pc' = [pc EXCEPT ![p] = "dropping"] /\ UNCHANGED locking
      /\ UNCHANGED <<todo, pending, descs, available>>
  BY DEF Connected
<1>2. /\ p # "stop" /\ lock = p /\ lock # None /\ lock # "stop" /\ "dropping" \in Busy
      /\ "creating" \in Busy /\ "listing" \in Busy /\ "waiting" \notin Busy /\ "gone" \notin Busy
      /\ "stop" \in Callers /\ \A j \in DOMAIN order : order[j] \in DOMAIN conns
  BY <1>1, WorkFacts DEF Busy
<1>3. held \in DOMAIN conns
  BY <1>1 DEF TypeOK, TablesOK, Core, HandIsRight
<1>4. conns[held] \in Sessions /\ conns \in Seq(Sessions)
  BY <1>3, OrderFacts DEF TypeOK, TablesOK
<1>5. r \in Sessions /\ r.server = conns[held].server /\ r.spec = conns[held].spec
  BY <1>4 DEF Sessions, Lifes, TypeOK, OutsideOK
<1>6. conns' = [conns EXCEPT ![held] = r]
  BY <1>1, <1>3, <1>4
<1> HIDE DEF r
<1>7. Touches(held)
  BY <1>3, <1>5, <1>6, ReplaceFacts
<1>8. /\ \A j \in DOMAIN conns : conns'[j].server = conns[j].server
      /\ \A j \in DOMAIN conns : j # held => conns'[j] = conns[j]
      /\ conns' \in Seq(Sessions) /\ DOMAIN conns' = DOMAIN conns
  BY <1>7 DEF Touches
<1>9. /\ order \in Seq(DOMAIN conns) /\ Len(order) \in Nat /\ DOMAIN order = 1..Len(order)
  BY OrderFacts DEF TypeOK, TablesOK
<1>10. /\ order' \in Seq(DOMAIN conns) /\ DOMAIN order' = 1..(Len(order) + 1)
       /\ \A j \in DOMAIN order : order'[j] = order[j]
       /\ order'[Len(order) + 1] = held
  BY <1>1, <1>3, <1>9
<1>11. /\ Len(order) + 1 \in DOMAIN order' /\ DOMAIN order \subseteq DOMAIN order'
       /\ \A j \in DOMAIN order' : j \in DOMAIN order \/ j = Len(order) + 1
  BY <1>9, <1>10
<1>12. ToSet(order) \subseteq ToSet(order') /\ held \in ToSet(order')
  BY <1>10, <1>11 DEF ToSet
<1>13. /\ LockIsFair' /\ LockOK' /\ pc'[p] = "dropping" /\ lock' = lock
       /\ \A q \in Callers : q # p => pc'[q] = pc[q]
       /\ \A q \in Callers \ {p} : pc'[q] \notin Busy
  BY <1>1, <1>2, MovesFacts DEF Core, locking
<1>14. TablesOK'
  BY <1>1, <1>8, <1>10 DEF Core, TablesOK
<1>15. HandIsRight'
  BY <1>1, <1>2, <1>13 DEF HandIsRight
<1>16. SessionsAreKnown'
  BY <1>1, <1>8, <1>12 DEF Core, SessionsAreKnown
<1>17. StopIsFinal'
  BY <1>1, <1>2, <1>13 DEF Core, StopIsFinal
<1>18. OneRuntimePerServer'
  <2>1. \A q \in Callers : pc'[q] # "creating"
    BY <1>2, <1>13
  <2>2. \A k \in DOMAIN order : conns[order[k]].server # conns[held].server
    BY <1>1 DEF Core, OneRuntimePerServer
  <2>3. \A j, k \in DOMAIN order : conns[order[j]].server = conns[order[k]].server => j = k
    BY DEF Core, OneRuntimePerServer
  <2>4. ASSUME NEW j \in DOMAIN order', NEW k \in DOMAIN order',
               conns'[order'[j]].server = conns'[order'[k]].server
        PROVE  j = k
    <3>1. CASE j \in DOMAIN order /\ k \in DOMAIN order
      BY <3>1, <2>3, <2>4, <1>2, <1>8, <1>10
    <3>2. CASE j \in DOMAIN order /\ k = Len(order) + 1
      BY <3>2, <2>2, <2>4, <1>2, <1>3, <1>8, <1>10
    <3>3. CASE j = Len(order) + 1 /\ k \in DOMAIN order
      BY <3>3, <2>2, <2>4, <1>2, <1>3, <1>8, <1>10
    <3> QED BY <3>1, <3>2, <3>3, <1>11
  <2> QED BY <2>1, <2>4 DEF OneRuntimePerServer
<1> QED BY <1>13, <1>14, <1>15, <1>16, <1>17, <1>18 DEF Core

\* The stop takes the listed sessions from the last: there is one as long as
\* some are left.
LEMMA StopNextFacts ==
  ASSUME TypeOK, todo \subseteq ToSet(order), todo # ToSet(order)
  PROVE  Len(order) - Cardinality(todo) \in DOMAIN order
<1>1. Len(order) \in Nat /\ DOMAIN order = 1..Len(order)
  BY OrderFacts
<1>2. IsFiniteSet(1..Len(order)) /\ Cardinality(1..Len(order)) = Len(order)
  <2>1. Cardinality(1..Len(order)) = IF 1 > Len(order) THEN 0 ELSE Len(order) - 1 + 1
    BY <1>1, FS_Interval
  <2> QED BY <1>1, <2>1, FS_Interval
<1> DEFINE f == [j \in 1..Len(order) |-> order[j]]
<1>3. f \in Surjection(1..Len(order), ToSet(order))
  BY <1>1 DEF Surjection, ToSet
<1>4. IsFiniteSet(ToSet(order)) /\ Cardinality(ToSet(order)) <= Len(order)
  BY <1>2, <1>3, FS_Surjection
<1>5. /\ IsFiniteSet(todo) /\ Cardinality(todo) \in Nat /\ Cardinality(ToSet(order)) \in Nat
      /\ Cardinality(todo) < Cardinality(ToSet(order))
  BY <1>4, FS_Subset, FS_CardinalityType
<1> QED BY <1>1, <1>4, <1>5

\* The stop closes the next session from the end of the tables.
LEMMA StopNextStep ==
  ASSUME TypeOK, Core, StopNext
  PROVE  Core'
<1> DEFINE i == order[Len(order) - Cardinality(todo)]
<1>1. /\ lock = "stop" /\ pc["stop"] = "waiting" /\ held = 0 /\ todo # ToSet(order)
      /\ Closing(i) /\ held' = i /\ todo' = todo \cup {i}
      /\ UNCHANGED <<order, pending, lock, queue, pc, descs, available>>
  BY DEF StopNext, manager, locking
<1>2. i \in ToSet(order) /\ i \in DOMAIN conns
  BY <1>1, StopNextFacts, OrderFacts DEF Core, HandIsRight
<1> HIDE DEF i
<1>3. Touches(i) /\ conns'[i].life = "closing"
  BY <1>1, <1>2, ClosingFacts
<1>4. /\ \A j \in DOMAIN conns : conns'[j].server = conns[j].server
      /\ \A j \in DOMAIN conns : j # i => conns'[j] = conns[j]
      /\ conns' \in Seq(Sessions) /\ DOMAIN conns' = DOMAIN conns
  BY <1>3 DEF Touches
<1>5. ToSet(order) \subseteq DOMAIN conns /\ \A j \in DOMAIN order : order[j] \in DOMAIN conns
  BY OrderFacts
<1>6. LockIsFair' /\ LockOK' /\ \A p \in Callers : pc[p] \notin Busy
  BY <1>1, StaysFacts DEF Core, LockIsFair, Busy
<1>7. TablesOK'
  BY <1>1, <1>2, <1>4 DEF Core, TablesOK
<1>8. HandIsRight'
  BY <1>1, <1>2, <1>4, <1>5, <1>6 DEF Core, HandIsRight, Busy, None
<1>9. SessionsAreKnown'
  BY <1>1, <1>4 DEF Core, SessionsAreKnown
<1>10. StopIsFinal'
  BY <1>1 DEF StopIsFinal
<1>11. OneRuntimePerServer'
  BY <1>1, <1>4, <1>5, <1>6 DEF Core, OneRuntimePerServer, Busy
<1> QED BY <1>6, <1>7, <1>8, <1>9, <1>10, <1>11 DEF Core

\* When the stop has gone through the tables, every session is closed.
LEMMA StopEndsStep ==
  ASSUME TypeOK, Core, StopEnds
  PROVE  Core'
<1>1. /\ lock = "stop" /\ pc["stop"] = "waiting" /\ held = 0 /\ todo = ToSet(order)
      /\ order' = <<>> /\ available' = FALSE /\ descs' = [s \in ServerSet |-> 0]
      /\ Ends("stop", TRUE) /\ UNCHANGED <<conns, pending>>
  BY DEF StopEnds
<1>2. "stop" \in Callers /\ 0 \notin ToSet(order)
  BY OrderFacts DEF Callers
<1>3. /\ LockIsFair' /\ LockOK' /\ held' = 0 /\ todo' = {}
      /\ \A q \in Callers : pc'[q] \notin Busy
      /\ lock' # None => pc'[lock'] = "waiting"
  BY <1>1, <1>2, EndsFacts DEF Core
<1>4. \A i \in DOMAIN conns : conns[i].life = "closed"
  <2>1. \A i \in ToSet(order) : conns[i].life = "closed"
    BY <1>1, <1>2 DEF Core, HandIsRight
  <2>2. ASSUME NEW i \in DOMAIN conns, conns[i].life # "closed" PROVE FALSE
    <3>1. conns[i].life \in {"connecting", "live", "closing"}
      BY <2>2, OrderFacts DEF Sessions, Lifes
    <3>2. i \in ToSet(order)
      BY <3>1, <1>1, OrderFacts DEF Core, SessionsAreKnown
    <3> QED BY <2>1, <2>2, <3>2
  <2> QED BY <2>2
<1>5. TablesOK'
  BY <1>1, <1>3 DEF Core, TablesOK
<1>6. HandIsRight' /\ SessionsAreKnown'
  BY <1>1, <1>3, <1>4 DEF HandIsRight, SessionsAreKnown, Busy
<1>7. StopIsFinal'
  BY <1>1, <1>3, <1>4 DEF StopIsFinal, Busy
<1>8. OneRuntimePerServer'
  BY <1>1, <1>3 DEF OneRuntimePerServer, Busy
<1> QED BY <1>3, <1>5, <1>6, <1>7, <1>8 DEF Core

\* A caller that ends with the sessions as they are, and none in hand.
LEMMA EndsAsItIs ==
  ASSUME TypeOK, Core, NEW p \in Callers, p # "stop", lock = p, held = 0, NEW well \in BOOLEAN,
         Ends(p, well), UNCHANGED <<conns, order, descs, available>>,
         pending' \subseteq DOMAIN conns
  PROVE  Core'
<1>1. \A i \in DOMAIN conns : conns'[i].life \in Open => i \in ToSet(order)
  BY OrderFacts DEF Core, SessionsAreKnown, Open
<1>2. conns' \in Seq(Sessions)
  BY DEF TypeOK, TablesOK
<1>3. /\ DOMAIN conns' = DOMAIN conns
      /\ \A i \in DOMAIN conns : conns'[i].server = conns[i].server
      /\ \A i \in DOMAIN conns : conns[i].life = "closed" => conns'[i].life = "closed"
  OBVIOUS
<1> QED BY <1>1, <1>2, <1>3, EndsStep

\* A refresh ends with a file that cannot be read.
LEMMA ScanRaisesStep ==
  ASSUME TypeOK, Core, NEW p \in Callers, ScanRaises(p)
  PROVE  Core'
<1>1. /\ lock = p /\ p # "stop" /\ pc[p] = "waiting" /\ Ends(p, FALSE)
      /\ UNCHANGED <<conns, order, descs, available, pending>>
  BY DEF ScanRaises, manager
<1>2. held = 0
  BY <1>1 DEF Core, HandIsRight
<1>3. pending' \subseteq DOMAIN conns
  BY <1>1 DEF TypeOK, TablesOK
<1> QED BY <1>1, <1>2, <1>3, EndsAsItIs

\* A refresh ends with a server that does not list its tools.
LEMMA RelistRaisesStep ==
  ASSUME TypeOK, Core, NEW p \in Callers, NEW i \in DOMAIN conns, RelistRaises(p, i)
  PROVE  Core'
<1>1. /\ pc[p] = "listing" /\ i \in todo /\ Ends(p, FALSE)
      /\ pending' = pending \cup (todo \ {i}) /\ UNCHANGED <<conns, order, descs, available>>
  BY DEF RelistRaises, manager
<1>2. lock = p /\ p # "stop" /\ held = 0 /\ todo \subseteq DOMAIN conns
  BY <1>1, WorkFacts DEF Core, HandIsRight, Busy
<1>3. pending' \subseteq DOMAIN conns
  BY <1>1, <1>2 DEF TypeOK, TablesOK
<1> QED BY <1>1, <1>2, <1>3, EndsAsItIs

\* A refresh has gone through.
LEMMA FinishStep ==
  ASSUME TypeOK, Core, NEW p \in Callers, Finish(p)
  PROVE  Core'
<1>1. /\ pc[p] = "listing" /\ \E well \in BOOLEAN : Ends(p, well)
      /\ UNCHANGED <<conns, order, descs, available, pending>>
  BY DEF Finish, manager
<1>2. lock = p /\ p # "stop" /\ held = 0
  BY <1>1, WorkFacts DEF Core, HandIsRight, Busy
<1>3. pending' \subseteq DOMAIN conns
  BY <1>1 DEF TypeOK, TablesOK
<1> QED BY <1>1, <1>2, <1>3, EndsAsItIs

\* The end or the cancellation of a step closes the session in hand.
LEMMA EndsClosed ==
  ASSUME TypeOK, Core, NEW p \in Callers, lock = p, held # 0, Ends(p, FALSE),
         conns' = [conns EXCEPT ![held].life = "closed"],
         UNCHANGED <<order, descs, available, pending>>
  PROVE  Core'
<1>1. held \in DOMAIN conns /\ "closed" \in Lifes /\ pending' \subseteq DOMAIN conns
  BY DEF TypeOK, TablesOK, Lifes
<1>2. Touches(held) /\ conns'[held].life = "closed"
  BY <1>1, LivesFacts DEF Lives
<1>3. /\ \A j \in DOMAIN conns : conns'[j].server = conns[j].server
      /\ \A j \in DOMAIN conns : j # held => conns'[j] = conns[j]
      /\ conns' \in Seq(Sessions) /\ DOMAIN conns' = DOMAIN conns
  BY <1>2 DEF Touches
<1>4. \A i \in DOMAIN conns : conns'[i].life \in Open => i \in ToSet(order)
  BY <1>2, <1>3 DEF Core, SessionsAreKnown, Open
<1>5. \A i \in DOMAIN conns : conns[i].life = "closed" => conns'[i].life = "closed"
  BY <1>2, <1>3
<1>6. FALSE \in BOOLEAN
  OBVIOUS
<1> QED BY <1>1, <1>3, <1>4, <1>5, <1>6, EndsStep

\* A session raises when it is closed.
LEMMA CloseRaisesStep ==
  ASSUME TypeOK, Core, NEW p \in Callers, CloseRaises(p)
  PROVE  Core'
<1>1. /\ held # 0 /\ lock = p /\ Ends(p, FALSE) /\ conns' = [conns EXCEPT ![held].life = "closed"]
      /\ UNCHANGED <<order, descs, available, pending>>
  BY DEF CloseRaises, Lives, manager
<1> QED BY <1>1, EndsClosed

\* The hook is cancelled at work or in line.
LEMMA CancelHookStep ==
  ASSUME TypeOK, Core, CancelHook
  PROVE  Core'
<1>1. "hook" \in Callers /\ UNCHANGED <<order, descs, available, pending>>
  BY DEF Callers, CancelHook, manager
<1>2. CASE lock = "hook" /\ held # 0
  BY <1>1, <1>2, EndsClosed DEF CancelHook
<1>3. CASE lock = "hook" /\ held = 0
  <2>1. Ends("hook", FALSE) /\ conns' = conns /\ pending' \subseteq DOMAIN conns
    BY <1>1, <1>3 DEF CancelHook, TypeOK, TablesOK
  <2> QED BY <1>1, <1>3, <2>1, EndsAsItIs
<1>4. CASE lock # "hook"
  <2>1. /\ LockIsFair' /\ LockOK' /\ lock' = lock /\ pc' = [pc EXCEPT !["hook"] = "idle"]
        /\ UNCHANGED <<conns, held, todo>>
    BY <1>4, LeaveLineFacts DEF Core
  <2>2. /\ pc'["hook"] = "idle" /\ \A q \in Callers : q # "hook" => pc'[q] = pc[q]
        /\ "stop" \in Callers
    BY <1>1, <2>1 DEF TypeOK, LockOK, Callers
  <2>3. TablesOK' /\ SessionsAreKnown'
    BY <1>1, <2>1 DEF Core, TablesOK, SessionsAreKnown
  <2>4. HandIsRight'
    BY <1>1, <2>1, <2>2 DEF Core, HandIsRight
  <2>5. StopIsFinal'
    BY <1>1, <2>1, <2>2 DEF Core, StopIsFinal
  <2>6. OneRuntimePerServer'
    BY <1>1, <2>1, <2>2 DEF Core, OneRuntimePerServer
  <2> QED BY <2>1, <2>3, <2>4, <2>5, <2>6 DEF Core
<1> QED BY <1>2, <1>3, <1>4

\* A server lists its tools for the refresh that asked.
LEMMA RelistedStep ==
  ASSUME TypeOK, Core, NEW p \in Callers, NEW i \in DOMAIN conns, Relisted(p, i)
  PROVE  Core'
<1>1. /\ conns' = [conns EXCEPT ![i].tools = offers[conns[i].server]]
      /\ UNCHANGED <<order, held, lock, queue, pc, descs, available, pending>>
      /\ todo' \subseteq todo
  BY DEF Relisted, manager, locking
<1>2. offers[conns[i].server] \in Listings
  BY OrderFacts DEF TypeOK, OutsideOK, Sessions
<1>3. Touches(i) /\ conns'[i].life = conns[i].life
  BY <1>1, <1>2, ListsFacts
<1> QED BY <1>1, <1>3, AnswerStep

\* A server lists its tools for a refresh that has ended.
LEMMA StragglerStep ==
  ASSUME TypeOK, Core, NEW i \in pending, Straggler(i)
  PROVE  Core'
<1>1. /\ UNCHANGED <<order, held, lock, queue, pc, descs, available, todo>>
      /\ pending' \subseteq pending
  BY DEF Straggler, manager, locking
<1>2. i \in DOMAIN conns
  BY DEF TypeOK, TablesOK
<1>3. CASE conns' = conns
  <2>1. Touches(i) /\ conns'[i].life = conns[i].life
    BY <1>3 DEF TypeOK, TablesOK, Touches
  <2> QED BY <1>1, <1>2, <2>1, AnswerStep
<1>4. CASE conns' # conns
  <2>1. conns' = [conns EXCEPT ![i].tools = offers[conns[i].server]]
    BY <1>4 DEF Straggler
  <2>2. offers[conns[i].server] \in Listings
    BY <1>2, OrderFacts DEF TypeOK, OutsideOK, Sessions
  <2>3. Touches(i) /\ conns'[i].life = conns[i].life
    BY <1>2, <2>1, <2>2, ListsFacts
  <2> QED BY <1>1, <1>2, <2>3, AnswerStep
<1> QED BY <1>3, <1>4

\* Every step keeps the control of the refreshes.
LEMMA CoreStep ==
  ASSUME TypeOK, Core, [Next]_vars
  PROVE  Core'
<1>1. ASSUME NEW s \in ServerSet, Crash(s) \/ (\E v \in 0..MaxSpec : Edit(s, v))
                                  \/ (\E l \in Listings : Notify(s, l))
      PROVE  Core'
  <2>1. /\ UNCHANGED <<conns, order, held, todo, pending, lock, queue, pc>>
        /\ UNCHANGED <<descs, available>>
    BY <1>1 DEF Crash, Edit, Notify, manager, locking
  <2> QED BY <2>1, OutsideStep
<1>2. ASSUME RunTool \/ \E d \in ToSet(tools) : ShowTool(d)
      PROVE  Core'
  <2>1. /\ UNCHANGED <<conns, order, held, todo, pending, lock, queue, pc>>
        /\ UNCHANGED <<descs, available>>
    BY <1>2 DEF RunTool, ShowTool, manager, locking
  <2> QED BY <2>1, OutsideStep
<1>3. CASE UNCHANGED vars
  <2>1. /\ UNCHANGED <<conns, order, held, todo, pending, lock, queue, pc>>
        /\ UNCHANGED <<descs, available>>
    BY <1>3 DEF vars, manager, locking
  <2> QED BY <2>1, OutsideStep
<1>4. ASSUME NEW p \in Callers,
             \/ Call(p) \/ Scan(p) \/ ScanRaises(p) \/ Drop(p) \/ Dropped(p) \/ Connect(p)
             \/ Connected(p) \/ ConnectFails(p) \/ Relist(p) \/ Finish(p) \/ CloseRaises(p)
             \/ \E i \in DOMAIN conns : Relisted(p, i) \/ RelistRaises(p, i)
      PROVE  Core'
  BY <1>4, CallStep, ScanStep, ScanRaisesStep, DropStep, DroppedStep, ConnectStep, ConnectedStep,
     ConnectFailsStep, RelistStep, FinishStep, CloseRaisesStep, RelistedStep, RelistRaisesStep
<1>5. ASSUME NEW i \in pending, Straggler(i) PROVE Core'
  BY <1>5, StragglerStep
<1>6. CASE StopNext \/ StopClosed \/ StopEnds \/ CancelHook
  BY <1>6, StopNextStep, StopClosedStep, StopEndsStep, CancelHookStep
<1> QED BY <1>1, <1>2, <1>3, <1>4, <1>5, <1>6 DEF Next

\* The file, the servers and the bounds keep their types.
LEMMA OutsideTypes ==
  ASSUME TypeOK, [Next]_vars
  PROVE  OutsideOK'
<1> USE McpAssumption DEF OutsideOK
<1>1. ASSUME UNCHANGED servers, UNCHANGED bounds PROVE OutsideOK'
  BY <1>1 DEF TypeOK, servers, bounds
<1>2. ASSUME UNCHANGED servers, UNCHANGED edits, Fault \/ UNCHANGED faults PROVE OutsideOK'
  BY <1>2 DEF TypeOK, servers, Fault
<1>3. ASSUME NEW s \in ServerSet, Crash(s) PROVE OutsideOK'
  BY <1>3 DEF TypeOK, Crash, Fault
<1>4. ASSUME NEW s \in ServerSet, NEW v \in 0..MaxSpec, Edit(s, v) PROVE OutsideOK'
  BY <1>4 DEF TypeOK, Edit
<1>5. ASSUME NEW s \in ServerSet, NEW l \in Listings, Notify(s, l) PROVE OutsideOK'
  BY <1>5 DEF TypeOK, Notify, Fault
<1>6. ASSUME NEW p \in Callers,
             \/ Call(p) \/ Scan(p) \/ Drop(p) \/ Dropped(p) \/ Connect(p) \/ Connected(p)
             \/ Relist(p) \/ Finish(p) \/ \E i \in DOMAIN conns : Relisted(p, i)
      PROVE  OutsideOK'
  BY <1>1, <1>6 DEF Call, Scan, Drop, Dropped, Connect, Connected, Relist, Finish, Relisted
<1>7. ASSUME NEW p \in Callers,
             \/ ScanRaises(p) \/ ConnectFails(p) \/ CloseRaises(p)
             \/ \E i \in DOMAIN conns : RelistRaises(p, i)
      PROVE  OutsideOK'
  BY <1>2, <1>7 DEF ScanRaises, ConnectFails, CloseRaises, RelistRaises
<1>8. CASE CancelHook
  BY <1>2, <1>8 DEF CancelHook
<1>9. CASE StopNext \/ StopClosed \/ StopEnds \/ RunTool \/ \E d \in ToSet(tools) : ShowTool(d)
  BY <1>1, <1>9 DEF StopNext, StopClosed, StopEnds, RunTool, ShowTool
<1>10. ASSUME NEW i \in pending, Straggler(i) PROVE OutsideOK'
  BY <1>1, <1>10 DEF Straggler
<1>11. CASE UNCHANGED vars
  BY <1>1, <1>11 DEF vars
<1> HIDE McpAssumption DEF OutsideOK
<1> QED BY <1>3, <1>4, <1>5, <1>6, <1>7, <1>8, <1>9, <1>10, <1>11 DEF Next

\* The tables of the service and the last call keep their types.
LEMMA ServiceTypes ==
  ASSUME TypeOK, [Next]_vars
  PROVE  ServiceOK'
<1> USE DEF ServiceOK
<1>1. ASSUME UNCHANGED manager, UNCHANGED service, UNCHANGED last,
             changed' \in BOOLEAN, troubled' \in BOOLEAN
      PROVE  ServiceOK'
  BY <1>1 DEF TypeOK, manager, service
<1>2. ASSUME UNCHANGED <<descs, available, last, changed, troubled>>, UNCHANGED service
      PROVE  ServiceOK'
  BY <1>2 DEF TypeOK, service
<1>3. ASSUME NEW p, NEW well \in BOOLEAN, Ends(p, well) PROVE troubled' \in BOOLEAN
  BY <1>3 DEF Ends
<1>4. changed \in BOOLEAN /\ troubled \in BOOLEAN
  BY DEF TypeOK
<1>5. ASSUME NEW s \in ServerSet, Crash(s) \/ (\E v \in 0..MaxSpec : Edit(s, v))
                                  \/ (\E l \in Listings : Notify(s, l))
      PROVE  ServiceOK'
  <2>1. UNCHANGED manager /\ UNCHANGED service /\ UNCHANGED <<last, troubled>>
    BY <1>5 DEF Crash, Edit, Notify
  <2>2. changed' \in BOOLEAN
    BY <1>4, <1>5 DEF Crash, Edit, Notify
  <2> QED BY <1>1, <1>4, <2>1, <2>2
<1>6. ASSUME NEW p \in Callers, Scan(p) PROVE ServiceOK'
  <2>1. Loaded \in [ServerSet -> 0..MaxSpec]
    BY McpAssumption DEF TypeOK, OutsideOK, Loaded
  <2> QED BY <1>6, <2>1 DEF Scan, TypeOK, service
<1>7. ASSUME NEW p \in Callers, Call(p) \/ Dropped(p) \/ Connect(p) \/ ConnectFails(p) \/ Relist(p)
      PROVE  ServiceOK'
  BY <1>1, <1>4, <1>7 DEF Call, Dropped, Connect, ConnectFails, Relist
<1>8. ASSUME NEW p \in Callers, Drop(p) \/ Connected(p) PROVE ServiceOK'
  BY <1>2, <1>8 DEF Drop, Connected
<1>9. ASSUME NEW p \in Callers, ScanRaises(p) \/ CloseRaises(p) PROVE ServiceOK'
  BY <1>1, <1>3, <1>4, <1>9 DEF ScanRaises, CloseRaises
<1>10. ASSUME NEW p \in Callers, NEW i \in DOMAIN conns, Relisted(p, i) \/ RelistRaises(p, i)
       PROVE  ServiceOK'
  BY <1>1, <1>3, <1>4, <1>10 DEF Relisted, RelistRaises
<1>11. ASSUME NEW p \in Callers, Finish(p) PROVE ServiceOK'
  <2>1. /\ confFp' = file /\ started' = (started \/ p = "start") /\ UNCHANGED manager /\ UNCHANGED last
        /\ \E well \in BOOLEAN : Ends(p, well)
    BY <1>11 DEF Finish
  <2>2. changed' \in BOOLEAN
    BY <1>4, <1>11 DEF Finish
  <2>3. troubled' \in BOOLEAN /\ started' \in BOOLEAN
    BY <1>3, <2>1 DEF TypeOK
  <2>4. confFp' \in [ServerSet -> 0..MaxSpec] \cup {<<>>}
    BY <2>1 DEF TypeOK, OutsideOK
  <2> QED BY <2>1, <2>2, <2>3, <2>4 DEF TypeOK, manager
<1>12. CASE StopNext \/ StopClosed
  BY <1>1, <1>4, <1>12 DEF StopNext, StopClosed
<1>13. CASE StopEnds
  <2>1. [s \in ServerSet |-> 0] \in [ServerSet -> 0..MaxSpec]
    BY McpAssumption
  <2> QED BY <1>3, <1>4, <1>13, <2>1 DEF StopEnds, TypeOK
<1>14. CASE CancelHook
  <2>1. troubled' \in BOOLEAN
    BY <1>3, <1>14 DEF CancelHook
  <2> QED BY <1>1, <1>4, <1>14, <2>1 DEF CancelHook
<1>15. ASSUME NEW i \in pending, Straggler(i) PROVE ServiceOK'
  <2>1. troubled' \in BOOLEAN
    BY <1>15 DEF Straggler
  <2> QED BY <1>1, <1>4, <1>15, <2>1 DEF Straggler
<1>16. ASSUME RunTool \/ \E d \in ToSet(tools) : ShowTool(d) PROVE ServiceOK'
  <2>1. UNCHANGED manager /\ UNCHANGED service /\ UNCHANGED <<changed, troubled>>
    BY <1>16 DEF RunTool, ShowTool
  <2>2. last' = [shown |-> last'.shown, public |-> last'.public, ran |-> last'.ran]
    <3>1. last = [shown |-> last.shown, public |-> last.public, ran |-> last.ran]
      BY DEF TypeOK
    <3>2. CASE RunTool
      <4>1. PICK r : last' = [last EXCEPT !.ran = r]
        BY <3>2 DEF RunTool
      <4>2. last' = [shown |-> last.shown, public |-> last.public, ran |-> r]
        BY <3>1, <4>1
      <4> QED BY <4>2
    <3>3. CASE \E d \in ToSet(tools) : ShowTool(d)
      <4>1. PICK x, y : last' = [NoCall EXCEPT !.shown = x, !.public = y]
        BY <3>3 DEF ShowTool
      <4>2. last' = [shown |-> x, public |-> y, ran |-> <<>>]
        BY <4>1 DEF NoCall
      <4> QED BY <4>2
    <3> QED BY <1>16, <3>2, <3>3
  <2> QED BY <2>1, <2>2 DEF TypeOK, manager, service
<1>17. CASE UNCHANGED vars
  BY <1>1, <1>4, <1>17 DEF vars
<1> HIDE DEF ServiceOK
<1> QED BY <1>5, <1>6, <1>7, <1>8, <1>9, <1>10, <1>11, <1>12, <1>13, <1>14, <1>15, <1>16, <1>17 DEF Next

\* Every step keeps the types.
LEMMA TypeStep ==
  ASSUME TypeOK, Core, [Next]_vars
  PROVE  TypeOK'
BY OutsideTypes, ServiceTypes, CoreStep DEF TypeOK, Core

-----------------------------------------------------------------------------
(* The tools                                                               *)

\* The ToolManager has the tools of a scan, or those left when the service has gone.
LEMMA ToolsStep ==
  ASSUME [Next]_vars
  PROVE  \/ tools' = tools
         \/ tools' = Rescanned /\ last' = last
         \/ tools' = Workspace /\ last' = last
<1>1. ASSUME NEW s \in ServerSet, Crash(s) \/ (\E v \in 0..MaxSpec : Edit(s, v))
                                  \/ (\E l \in Listings : Notify(s, l))
      PROVE  tools' = tools
  BY <1>1 DEF Crash, Edit, Notify
<1>2. ASSUME NEW p \in Callers,
             \/ Scan(p) \/ ScanRaises(p) \/ Drop(p) \/ Dropped(p) \/ Connect(p)
             \/ Connected(p) \/ ConnectFails(p) \/ Relist(p) \/ CloseRaises(p)
             \/ \E i \in DOMAIN conns : Relisted(p, i) \/ RelistRaises(p, i)
      PROVE  tools' = tools
  BY <1>2 DEF Scan, ScanRaises, Drop, Dropped, Connect, Connected, ConnectFails, Relist,
     CloseRaises, Relisted, RelistRaises
<1>3. ASSUME NEW p \in Callers, Call(p) \/ Finish(p)
      PROVE  last' = last /\ (tools' = tools \/ tools' = Rescanned)
  BY <1>3 DEF Call, Finish
<1>4. ASSUME NEW i \in pending, Straggler(i) PROVE tools' = tools
  BY <1>4 DEF Straggler
<1>5. ASSUME StopNext \/ StopClosed \/ CancelHook \/ RunTool \/ \E d \in ToSet(tools) : ShowTool(d)
      PROVE  tools' = tools
  BY <1>5 DEF StopNext, StopClosed, CancelHook, RunTool, ShowTool
<1>6. CASE StopEnds
  BY <1>6 DEF StopEnds
<1>7. CASE UNCHANGED vars
  BY <1>7 DEF vars
<1> QED BY <1>1, <1>2, <1>3, <1>4, <1>5, <1>6, <1>7 DEF Next

\* Whatever is scanned, the tools of servers are named by their servers.
LEMMA NamedStep ==
  ASSUME TypeOK, ToolsAreNamed, [Next]_vars
  PROVE  ToolsAreNamed'
<1>1. CASE tools' = tools
  BY <1>1 DEF ToolsAreNamed
<1>2. CASE tools' = Rescanned
  BY <1>2, RescannedFacts DEF ToolsAreNamed
<1>3. CASE tools' = Workspace
  BY <1>3, McpAssumption DEF ToolsAreNamed
<1> QED BY <1>1, <1>2, <1>3, ToolsStep

\* The one tool that has a public name.
LEMMA OneCandidate ==
  ASSUME ToolsAreNamed, NEW public, Cardinality(Candidates(tools, public)) = 1
  PROVE  \E k \in DOMAIN tools : Candidates(tools, public) = {k} /\ PublicName(tools[k]) = public
<1> DEFINE C == Candidates(tools, public)
<1>1. PICK n \in Nat : DOMAIN tools = 1..n
  BY DEF ToolsAreNamed
<1>2. C \in SUBSET (1..n)
  BY <1>1 DEF Candidates
<1>3. IsFiniteSet(C)
  BY <1>1, <1>2, FS_Interval, FS_Subset
<1>4. PICK k : C = {k}
  <2> HIDE DEF C
  <2>1. Cardinality(C) = 1
    BY DEF C
  <2> QED BY <2>1, <1>3, FS_Singleton
<1>5. k \in C
  BY <1>4
<1> QED BY <1>4, <1>5 DEF Candidates

\* The model is shown a name that one tool has.
LEMMA ShowToolStep ==
  ASSUME ToolsAreNamed, NEW d \in ToSet(tools), ShowTool(d)
  PROVE  ShownAsNamed' /\ CallsReachTheTool'
<1>1. /\ Cardinality(Candidates(tools, PublicName(d))) = 1
      /\ last'.shown = <<d.server, d.remote>> /\ last'.public = PublicName(d) /\ last'.ran = <<>>
  BY DEF ShowTool, NoCall
<1>2. PICK j \in DOMAIN tools : d = tools[j]
  BY DEF ToSet
<1>3. PICK k \in DOMAIN tools : Candidates(tools, PublicName(d)) = {k}
  BY <1>1, OneCandidate
<1>4. j \in Candidates(tools, PublicName(d))
  BY <1>2 DEF Candidates
<1>5. \A m \in DOMAIN tools : PublicName(tools[m]) = PublicName(d) => m = j
  BY <1>3, <1>4 DEF Candidates
<1>6. ShownAsNamed'
  <2>1. CASE j \in DOMAIN Workspace
    <3>1. d = Workspace[j]
      BY <2>1, <1>2 DEF ToolsAreNamed
    <3> QED BY <2>1, <3>1, <1>1 DEF ShownAsNamed
  <2>2. CASE j \notin DOMAIN Workspace
    <3>1. NamedByServer(d)
      BY <2>2, <1>2 DEF ToolsAreNamed
    <3>2. \A w \in DOMAIN Workspace : PublicName(Workspace[w]) # PublicName(d)
      BY <2>2, <1>5 DEF ToolsAreNamed
    <3>3. /\ last'.public[1] = SafeId(last'.shown[1]) \o SafeId(last'.shown[2])
          /\ last'.shown[1] \in ServerSet
      BY <1>1, <3>1 DEF NamedByServer, PublicName
    <3> QED BY <3>2, <3>3, <1>1 DEF ShownAsNamed
  <2> QED BY <2>1, <2>2
<1>7. CallsReachTheTool'
  BY <1>1 DEF CallsReachTheTool
<1> QED BY <1>6, <1>7

\* A call finds a tool that reads as the name shown does.
LEMMA RunToolStep ==
  ASSUME TypeOK, ToolsAreNamed, ShownAsNamed, RunTool
  PROVE  ShownAsNamed' /\ CallsReachTheTool'
<1> DEFINE found == Candidates(tools, last.public)
           f == tools[CHOOSE k \in found : TRUE]
           well == Cardinality(found) = 1 /\ (f \in ToSet(Workspace) \/ f.server \in Listed)
           ran == IF well THEN <<f.server, f.remote>> ELSE <<None>>
<1>1. /\ last.shown # <<>> /\ last' = [last EXCEPT !.ran = ran]
  BY DEF RunTool
<1>2. last' = [shown |-> last.shown, public |-> last.public, ran |-> ran]
  <2> HIDE DEF ran
  <2>1. last = [shown |-> last.shown, public |-> last.public, ran |-> last.ran]
    BY DEF TypeOK, ServiceOK
  <2> QED BY <1>1, <2>1
<1>3. last'.shown = last.shown /\ last'.public = last.public /\ last'.ran = ran
  <2> HIDE DEF ran
  <2> QED BY <1>2
<1>4. ShownAsNamed'
  BY <1>3 DEF ShownAsNamed
<1>5. ASSUME ~ well PROVE CallsReachTheTool'
  <2>1. last'.ran = <<None>>
    BY <1>3, <1>5
  <2> QED BY <2>1 DEF CallsReachTheTool
<1>6. ASSUME well PROVE CallsReachTheTool'
  <2>1. PICK k \in DOMAIN tools : found = {k} /\ PublicName(tools[k]) = last.public
    BY <1>6, OneCandidate
  <2>2. f = tools[k] /\ \A m \in DOMAIN tools : PublicName(tools[m]) = last.public => m = k
    BY <2>1 DEF Candidates
  <2>3. ran = <<tools[k].server, tools[k].remote>>
    BY <1>6, <2>2
  <2> HIDE DEF ran, well, f, found
  <2>4. CASE \E w \in DOMAIN Workspace :
               /\ last.public = PublicName(Workspace[w])
               /\ last.shown = <<Workspace[w].server, Workspace[w].remote>>
    <3>1. PICK w \in DOMAIN Workspace :
               /\ last.public = PublicName(Workspace[w])
               /\ last.shown = <<Workspace[w].server, Workspace[w].remote>>
      BY <2>4
    <3>2. w = k /\ tools[k] = Workspace[w]
      BY <3>1, <2>2 DEF ToolsAreNamed
    <3>3. last'.ran = last'.shown
      BY <3>1, <3>2, <2>3, <1>3
    <3> QED BY <3>3 DEF CallsReachTheTool
  <2>5. CASE /\ \A w \in DOMAIN Workspace : last.public # PublicName(Workspace[w])
             /\ last.public[1] = SafeId(last.shown[1]) \o SafeId(last.shown[2])
             /\ last.shown[1] \in ServerSet
    <3>1. NamedByServer(tools[k])
      BY <2>1, <2>5 DEF ToolsAreNamed
    <3>2. /\ SafeId(tools[k].server) \o SafeId(tools[k].remote) = last.public[1]
          /\ tools[k].server \in ServerSet
      BY <2>1, <3>1 DEF NamedByServer, PublicName
    <3>3. last'.ran[1] = tools[k].server /\ last'.ran[2] = tools[k].remote
      BY <2>3, <1>3
    <3>4. \A w \in ToSet(Workspace) : <<w.server, w.remote>> \notin {last'.ran, last'.shown}
      <4> SUFFICES ASSUME NEW w \in ToSet(Workspace)
                   PROVE  <<w.server, w.remote>> # last'.ran /\ <<w.server, w.remote>> # last'.shown
        OBVIOUS
      <4>1. w.server \notin ServerSet
        BY McpAssumption
      <4> QED BY <4>1, <3>2, <3>3, <2>5, <1>3
    <3> QED BY <3>2, <3>3, <3>4, <2>5, <1>3 DEF CallsReachTheTool
  <2> QED BY <2>4, <2>5, <1>1 DEF ShownAsNamed
<1> QED BY <1>4, <1>5, <1>6

\* Only showing and calling change what was shown and called.
LEMMA CallsStep ==
  ASSUME TypeOK, ToolsAreNamed, ShownAsNamed, CallsReachTheTool, [Next]_vars
  PROVE  ShownAsNamed' /\ CallsReachTheTool'
<1>1. CASE last' = last
  BY <1>1 DEF ShownAsNamed, CallsReachTheTool
<1>2. CASE RunTool \/ \E d \in ToSet(tools) : ShowTool(d)
  BY <1>2, RunToolStep, ShowToolStep
<1>3. last' = last \/ RunTool \/ \E d \in ToSet(tools) : ShowTool(d)
  BY DEF Next, vars, Crash, Edit, Notify, Call, Scan, ScanRaises, Drop, Dropped, Connect, Connected,
     ConnectFails, Relist, Finish, CloseRaises, Relisted, RelistRaises, Straggler, StopNext,
     StopClosed, StopEnds, CancelHook
<1> QED BY <1>1, <1>2, <1>3

-----------------------------------------------------------------------------
(* Freshness                                                               *)

Unseen == lock # None \/ troubled \/ pc["start"] # "done"

\* While a caller holds the lock nothing is promised about the tools, and the
\* caller that leaves it has scanned them or has not ended well.
LEMMA FreshStep ==
  ASSUME TypeOK, Core, ToolsAreFresh, [Next]_vars
  PROVE  ToolsAreFresh'
<1>1. ASSUME UNCHANGED <<manager, conns, tools>>, Unseen => Unseen' PROVE ToolsAreFresh'
  <2>1. Rescanned' = Rescanned
    BY <1>1 DEF Rescanned, manager
  <2> QED BY <1>1, <2>1 DEF ToolsAreFresh, Unseen
<1>2. ASSUME Unseen' PROVE ToolsAreFresh'
  BY <1>2 DEF ToolsAreFresh, Unseen
<1>3. ASSUME NEW p \in Callers, pc[p] \in Busy, lock' = lock PROVE Unseen'
  BY <1>3, WorkFacts DEF Unseen
<1>4. ASSUME NEW p, Ends(p, FALSE) PROVE Unseen'
  BY <1>4 DEF Ends, Unseen
<1>5. ASSUME NEW s \in ServerSet, Crash(s) \/ (\E v \in 0..MaxSpec : Edit(s, v))
                                  \/ (\E l \in Listings : Notify(s, l))
      PROVE  ToolsAreFresh'
  <2>1. UNCHANGED <<manager, conns, tools, lock, troubled, pc>>
    BY <1>5 DEF Crash, Edit, Notify, locking
  <2> QED BY <1>1, <2>1 DEF Unseen
<1>6. ASSUME RunTool \/ \E d \in ToSet(tools) : ShowTool(d) PROVE ToolsAreFresh'
  <2>1. UNCHANGED <<manager, conns, tools, lock, troubled, pc>>
    BY <1>6 DEF RunTool, ShowTool, locking
  <2> QED BY <1>1, <2>1 DEF Unseen
<1>7. ASSUME NEW p \in Callers, Call(p) PROVE ToolsAreFresh'
  BY <1>2, <1>7, CallFacts DEF Core, Unseen
<1>8. ASSUME NEW p \in Callers, Scan(p) PROVE ToolsAreFresh'
  <2>1. lock' = p /\ p # None
    BY <1>8 DEF Scan, locking, Callers, None
  <2> QED BY <1>2, <2>1 DEF Unseen
<1>9. ASSUME NEW p \in Callers,
             \/ Drop(p) \/ Dropped(p) \/ Connect(p) \/ Connected(p) \/ ConnectFails(p)
             \/ Relist(p) \/ \E i \in DOMAIN conns : Relisted(p, i)
      PROVE  ToolsAreFresh'
  <2>1. pc[p] \in Busy /\ lock' = lock
    BY <1>9 DEF Drop, Dropped, Connect, Connected, ConnectFails, Relist, Relisted, locking, Busy
  <2> QED BY <1>2, <1>3, <2>1
<1>10. ASSUME NEW p \in Callers,
              ScanRaises(p) \/ CloseRaises(p) \/ \E i \in DOMAIN conns : RelistRaises(p, i)
       PROVE  ToolsAreFresh'
  <2>1. Ends(p, FALSE)
    BY <1>10 DEF ScanRaises, CloseRaises, RelistRaises
  <2> QED BY <1>2, <1>4, <2>1
<1>11. ASSUME NEW p \in Callers, Finish(p) PROVE ToolsAreFresh'
  <2>1. CASE HasDuplicateIds(Rescanned)
    BY <1>2, <1>4, <1>11, <2>1 DEF Finish
  <2>2. CASE ~ HasDuplicateIds(Rescanned)
    <3>1. tools' = Rescanned /\ UNCHANGED <<manager, conns>>
      BY <1>11, <2>2 DEF Finish
    <3>2. Rescanned' = Rescanned
      BY <3>1 DEF Rescanned, manager
    <3> QED BY <3>1, <3>2 DEF ToolsAreFresh
  <2> QED BY <2>1, <2>2
<1>12. CASE StopNext \/ StopClosed
  <2>1. lock' = lock /\ lock # None
    BY <1>12 DEF StopNext, StopClosed, locking, None
  <2> QED BY <1>2, <2>1 DEF Unseen
<1>13. CASE StopEnds
  <2>1. tools' = Workspace /\ ~ available'
    BY <1>13 DEF StopEnds
  <2>2. Rescanned' = Workspace
    BY <2>1 DEF Rescanned
  <2> QED BY <2>1, <2>2 DEF ToolsAreFresh
<1>14. CASE CancelHook
  <2>1. troubled'
    BY <1>14 DEF CancelHook, Ends
  <2> QED BY <1>2, <2>1 DEF Unseen
<1>15. ASSUME NEW i \in pending, Straggler(i) PROVE ToolsAreFresh'
  <2>1. UNCHANGED <<manager, tools, lock, pc>> /\ troubled' = (troubled \/ conns' # conns)
    BY <1>15 DEF Straggler, locking
  <2>2. CASE conns' = conns
    BY <1>1, <2>1, <2>2 DEF Unseen
  <2>3. CASE conns' # conns
    BY <1>2, <2>1, <2>3 DEF Unseen
  <2> QED BY <2>2, <2>3
<1>16. CASE UNCHANGED vars
  <2>1. UNCHANGED <<manager, conns, tools, lock, troubled, pc>>
    BY <1>16 DEF vars, locking
  <2> QED BY <1>1, <2>1 DEF Unseen
<1> QED BY <1>5, <1>6, <1>7, <1>8, <1>9, <1>10, <1>11, <1>12, <1>13, <1>14, <1>15, <1>16 DEF Next

-----------------------------------------------------------------------------
(* The theorems                                                            *)

\* The inductive invariant holds at the start and every step keeps it.
THEOREM Inductive == Spec => []IInv
<1>1. Init => IInv
  <2> SUFFICES ASSUME Init PROVE IInv
    OBVIOUS
  <2> USE DEF Init
  <2>1. OutsideOK
    <3>1. 0..1 \subseteq 0..MaxSpec /\ 0 \in 0..MaxEdits /\ 0 \in 0..MaxFaults
      BY McpAssumption
    <3> QED BY <3>1 DEF OutsideOK
  <2>2. ServiceOK
    <3>1. descs \in [ServerSet -> 0..MaxSpec]
      BY McpAssumption
    <3>2. last = [shown |-> last.shown, public |-> last.public, ran |-> last.ran]
      BY DEF NoCall
    <3> QED BY <3>1, <3>2 DEF ServiceOK
  <2>3. TablesOK /\ LockOK
    BY DEF TablesOK, LockOK, Places
  <2>4. LockIsFair
    BY DEF LockIsFair, Busy, Callers
  <2>5. HandIsRight /\ SessionsAreKnown /\ StopIsFinal /\ OneRuntimePerServer
    BY DEF HandIsRight, SessionsAreKnown, StopIsFinal, OneRuntimePerServer, Callers, None
  <2>6. ToolsAreFresh
    BY DEF ToolsAreFresh, Callers
  <2>7. ToolsAreNamed
    BY McpAssumption DEF ToolsAreNamed
  <2>8. ShownAsNamed /\ CallsReachTheTool
    BY DEF ShownAsNamed, CallsReachTheTool, NoCall
  <2> QED BY <2>1, <2>2, <2>3, <2>4, <2>5, <2>6, <2>7, <2>8 DEF IInv, TypeOK
<1>2. IInv /\ [Next]_vars => IInv'
  <2> SUFFICES ASSUME IInv, [Next]_vars PROVE IInv'
    OBVIOUS
  <2>1. TypeOK /\ Core /\ ToolsAreFresh /\ ToolsAreNamed /\ ShownAsNamed /\ CallsReachTheTool
    BY DEF IInv, Core, TypeOK
  <2>2. TypeOK' /\ Core'
    BY <2>1, TypeStep, CoreStep
  <2>3. ToolsAreFresh' /\ ToolsAreNamed'
    BY <2>1, FreshStep, NamedStep
  <2>4. ShownAsNamed' /\ CallsReachTheTool'
    BY <2>1, CallsStep
  <2> QED BY <2>2, <2>3, <2>4 DEF IInv, Core
<1> QED BY <1>1, <1>2, PTL DEF Spec

\* Every variable of the service keeps its type, and no caller is at work
\* without the lock.
THEOREM TypeCorrect == Spec => [](TypeOK /\ LockIsFair)
BY Inductive, PTL DEF IInv

\* Whatever fails, dies or is cancelled, an open session is in the tables or in
\* the hands of the caller that opens or closes it, and a stop leaves none.
THEOREM NoSessionForgotten == Spec => []NoSessionIsForgotten
<1>1. IInv => NoSessionIsForgotten
  BY DEF IInv, SessionsAreKnown, StopIsFinal, NoSessionIsForgotten
<1> QED BY <1>1, Inductive, PTL

\* A server has at most one runtime in the tables.
THEOREM OneRuntime == Spec => []OneRuntimePerServer
BY Inductive, PTL DEF IInv

\* Between refreshes the ToolManager has the tools the running servers have
\* listed, after one that ended well.
THEOREM ToolsServed == Spec => []ToolsAreThoseServed
<1>1. IInv => ToolsAreThoseServed
  BY DEF IInv, ToolsAreFresh, ToolsAreThoseServed, Quiet
<1> QED BY <1>1, Inductive, PTL

\* A call runs the tool it was shown, or one whose server and remote name read the
\* same in safe words, or none, and a tool of the workspace only if it was shown:
\* for every number of servers and every list of tools.
THEOREM CallsReach == Spec => []CallsReachTheTool
BY Inductive, PTL DEF IInv

=============================================================================
