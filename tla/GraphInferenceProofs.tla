------------------------- MODULE GraphInferenceProofs -------------------------
(****************************************************************************)
(* Proofs, for any graph, catalogue and listing: the winners are the first  *)
(* themes of the ranking the code states, with the rounding of the floats   *)
(* in it, which never decides against the weights; no blocked theme is      *)
(* among them; and the LLM is told the amenities of the listing.            *)
(****************************************************************************)
EXTENDS GraphInference, SequenceLemmas

TypeOK ==
  /\ draft \in Drafts
  /\ propagated \in 0 .. Len(Active(draft))
  /\ scores \in [Targets -> Int \X Int]
  /\ contributions \in [Targets -> Seq(Edges)]

BlockedSoFar ==
  blocked = UNION {BlockedBy(Active(draft)[i]) : i \in 1 .. propagated}

(* The score is what the contributions add up to, whatever its error, and   *)
(* no weights of the scale add up to the threshold.                         *)
ScoresAddUp ==
  \A t \in Targets : /\ scores[t][1] = ExactScore(t)
                     /\ scores[t][1] \in {0, 3} \/ scores[t][1] >= 6

ActiveSoFar == {Active(draft)[i] : i \in 1 .. propagated}

(* Every edge of the sources propagated so far was added up, and no other.  *)
ContributedSoFar ==
  \A t \in Targets :
    Range(contributions[t]) = {e \in Edges : e.target = t /\ e.origin \in ActiveSoFar}

(* Nothing moves any more under a decision, and the summary tells it.       *)
DecidedAtTheEnd ==
  decision # None => propagated = Len(Active(draft)) /\ decision = Decision

SummaryTellsIt ==
  summary # None =>
    /\ decision # None
    /\ summary.themes = Winners
    /\ summary.mentions = Range(Unknown(draft)) \cup
                          LET main == Main(Winners)
                          IN  IF main = <<>> THEN {}
                              ELSE Range(main \o Secondary(draft, main))

Inv == /\ TypeOK /\ BlockedSoFar /\ ScoresAddUp /\ ContributedSoFar
       /\ DecidedAtTheEnd /\ SummaryTellsIt

(* The first members of key's domain, in the order of the keys.             *)
AreFirst(list, key, n) ==
  /\ list \in [1 .. Min({n, Cardinality(DOMAIN key)}) -> DOMAIN key]
  /\ \A i, j \in DOMAIN list : i < j => Before(key, list[i], list[j])
  /\ \A i \in DOMAIN list, x \in DOMAIN key \ Range(list) : Before(key, list[i], x)

-----------------------------------------------------------------------------
(* Facts about lists *)

(* The filter keeps the members of the set, and nothing else.               *)
LEMMA OnlyRange ==
  ASSUME NEW S, NEW s \in Seq(S), NEW set
  PROVE  /\ Only(s, set) \in Seq(S)
         /\ Range(Only(s, set)) = Range(s) \cap set
  <1> DEFINE parts == [i \in DOMAIN s |-> When(s[i] \in set, s[i])]
  <1>1. Len(s) \in Nat /\ DOMAIN s = 1 .. Len(s) /\ \A i \in 1 .. Len(s) : s[i] \in S
    BY LenProperties
  <1>2. \A x \in S : When(x \in set, x) \in Seq(S)
    BY DEF When
  <1>3. parts \in Seq(Seq(S)) /\ Len(parts) = Len(s)
    <2>1. parts \in [1 .. Len(s) -> Seq(S)]
      BY <1>1, <1>2
    <2> HIDE DEF parts
    <2>2. QED
      BY <1>1, <2>1, LenProperties
  <1>4. \A x \in S : Range(When(x \in set, x)) = {x} \cap set
    <2>1. Range(<<>>) = {} /\ \A x \in S : Range(<<x>>) = {x}
      BY DEF Range
    <2>2. QED
      BY <2>1 DEF When
  <1>5. UNION {Range(parts[i]) : i \in 1 .. Len(parts)} = Range(s) \cap set
    <2>1. \A i \in 1 .. Len(s) : Range(parts[i]) = {s[i]} \cap set
      BY <1>1, <1>4
    <2>2. Range(s) = {s[i] : i \in 1 .. Len(s)}
      BY <1>1 DEF Range
    <2> HIDE DEF parts
    <2>3. QED
      BY <1>3, <2>1, <2>2
  <1>6. Only(s, set) = FlattenSeq(parts)
    BY DEF Only
  <1> HIDE DEF parts
  <1>7. QED
    BY <1>3, <1>5, <1>6, FlattenType, FlattenRange

LEMMA RangeAppend ==
  ASSUME NEW S, NEW s \in Seq(S), NEW x \in S
  PROVE  Range(Append(s, x)) = Range(s) \cup {x}
  <1>1. Append(s, x) = s \o <<x>> /\ <<x>> \in Seq(S)
    BY AppendIsConcat
  <1>2. Range(<<x>>) = {x}
    BY DEF Range
  <1>3. Range(s \o <<x>>) = Range(s) \cup Range(<<x>>)
    BY <1>1, RangeConcatenation
  <1>4. QED
    BY <1>1, <1>2, <1>3

(* g[i] is the weight of the first i edges.                                 *)
Sums(g, edges) ==
  /\ g[0] = 0
  /\ \A i \in 1 .. Len(edges) : g[i] = g[i - 1] + edges[i].weight

LEMMA TotalSums ==
  ASSUME NEW edges \in Seq(Edges)
  PROVE  \E g \in [0 .. Len(edges) -> Int] : Sums(g, edges) /\ Total(edges) = g[Len(edges)]
  <1> DEFINE n == Len(edges)
             step == [p \in (1 .. n) \X Int |-> p[2] + edges[p[1]].weight]
             Solves(f) == f = [i \in 0 .. n |-> IF i = 0 THEN 0 ELSE f[i - 1] + edges[i].weight]
             h == CHOOSE f : Solves(f)
  <1>1. n \in Nat /\ \A i \in 1 .. n : edges[i].weight \in Int
    BY LenProperties, DomainAssumption DEF WellFormedDomain, Weights
  <1>2. Total(edges) = h[n]
    BY DEF Total
  <1> HIDE DEF n
  <1>3. step \in [(1 .. n) \X Int -> Int]
    BY <1>1
  <1>4. \A i \in 1 .. n, x \in Int : step[<<i, x>>] = x + edges[i].weight
    OBVIOUS
  <1> HIDE DEF step
  <1>5. PICK g \in [0 .. n -> Int] : CountsUp(g, n, 0, step)
    <2>1. 0 \in Int
      OBVIOUS
    <2>2. QED
      BY <1>1, <1>3, <2>1, RecursionExists
  <1>6. g[0] = 0 /\ \A i \in 1 .. n : g[i] = g[i - 1] + edges[i].weight
    <2>1. \A i \in 1 .. n : i - 1 \in 0 .. n
      BY <1>1
    <2>2. QED
      BY <1>4, <1>5, <2>1 DEF CountsUp
  <1>7. Solves(g)
    <2>1. \A i \in 0 .. n : i # 0 => i \in 1 .. n
      BY <1>1
    <2>2. QED
      BY <1>6, <2>1
  <1>8. Solves(h)
    BY <1>7
  <1>9. h[0] = 0 /\ \A i \in 1 .. n : h[i] = h[i - 1] + edges[i].weight
    <2>1. 0 \in 0 .. n /\ \A i \in 1 .. n : i \in 0 .. n /\ i # 0
      BY <1>1
    <2> HIDE DEF h
    <2>2. QED
      BY <1>8, <2>1
  <1>10. DOMAIN h = 0 .. n
    BY <1>8
  <1> HIDE DEF h, Solves
  <1>11. CountsUp(h, n, 0, step) /\ \A i \in 0 .. n : h[i] \in Int
    <2>1. \A i \in 1 .. n : h[i - 1] \in Int => h[i] = step[<<i, h[i - 1]>>]
      BY <1>4, <1>9
    <2>2. 0 \in Int
      OBVIOUS
    <2>3. QED
      BY <1>1, <1>3, <1>9, <2>1, <2>2, RecursionStays
  <1>12. h = [i \in 0 .. n |-> h[i]]
    BY <1>8 DEF Solves
  <1>13. h \in [0 .. n -> Int]
    BY <1>10, <1>11, <1>12
  <1>14. QED
    BY <1>2, <1>9, <1>13 DEF Sums, n

LEMMA TotalEmpty == Total(<<>>) = 0
  <1>1. <<>> \in Seq(Edges) /\ Len(<<>>) = 0
    OBVIOUS
  <1>2. QED
    BY <1>1, TotalSums DEF Sums

LEMMA TotalAppend ==
  ASSUME NEW edges \in Seq(Edges), NEW edge \in Edges
  PROVE  Total(Append(edges, edge)) = Total(edges) + edge.weight
  <1> DEFINE n == Len(edges)
             longer == Append(edges, edge)
  <1>1. /\ longer \in Seq(Edges) /\ Len(longer) = n + 1 /\ longer[n + 1] = edge
        /\ n \in Nat /\ \A i \in 1 .. n : longer[i] = edges[i]
    BY AppendProperties, LenProperties
  <1> HIDE DEF longer, n
  <1>2. PICK g \in [0 .. n -> Int] : Sums(g, edges) /\ Total(edges) = g[n]
    BY TotalSums DEF n
  <1>3. PICK h \in [0 .. n + 1 -> Int] : Sums(h, longer) /\ Total(longer) = h[n + 1]
    BY <1>1, TotalSums
  <1> DEFINE T == {m \in Nat : m <= n => h[m] = g[m]}
  <1>4. 0 \in T
    BY <1>2, <1>3 DEF Sums
  <1>5. ASSUME NEW m \in Nat, m \in T
        PROVE  m + 1 \in T
    <2> SUFFICES ASSUME m + 1 <= n PROVE h[m + 1] = g[m + 1]
      OBVIOUS
    <2>1. m + 1 \in 1 .. n /\ m + 1 \in 1 .. n + 1 /\ (m + 1) - 1 = m /\ h[m] = g[m]
      BY <1>1, <1>5
    <2>2. /\ h[m + 1] = h[m] + longer[m + 1].weight
          /\ g[m + 1] = g[m] + edges[m + 1].weight
      BY <1>1, <1>2, <1>3, <2>1 DEF Sums, n
    <2>3. QED
      BY <1>1, <2>1, <2>2
  <1> HIDE DEF T
  <1>6. h[n] = g[n]
    <2>1. n \in T
      BY <1>1, <1>4, <1>5, Induction
    <2>2. QED
      BY <1>1, <2>1 DEF T
  <1>7. h[n + 1] = h[n] + edge.weight
    <2>1. n + 1 \in 1 .. n + 1 /\ (n + 1) - 1 = n
      BY <1>1
    <2>2. QED
      BY <1>1, <1>3, <2>1 DEF Sums
  <1>8. QED
    BY <1>2, <1>3, <1>6, <1>7 DEF longer

-----------------------------------------------------------------------------
(* The ranking *)

IsStrictOrder(key) ==
  /\ \A x \in DOMAIN key : ~Before(key, x, x)
  /\ \A x, y \in DOMAIN key : x = y \/ Before(key, x, y) \/ Before(key, y, x)
  /\ \A x, y, z \in DOMAIN key : Before(key, x, y) /\ Before(key, y, z) => Before(key, x, z)

(* Keys of n numbers no two of which are equal are strictly ordered.        *)
LEMMA KeysAreOrdered ==
  ASSUME NEW n \in Nat, NEW key,
         \A x \in DOMAIN key : DOMAIN key[x] = 1 .. n /\ \A i \in 1 .. n : key[x][i] \in Int,
         \A x, y \in DOMAIN key : x # y => \E i \in 1 .. n : key[x][i] # key[y][i]
  PROVE  IsStrictOrder(key)
  <1>1. \A x \in DOMAIN key : ~Before(key, x, x)
    BY DEF Before
  <1>2. ASSUME NEW x \in DOMAIN key, NEW y \in DOMAIN key, x # y
        PROVE  Before(key, x, y) \/ Before(key, y, x)
    <2> DEFINE T == {i \in 1 .. n : key[x][i] # key[y][i]}
    <2>1. T \in SUBSET Nat /\ T # {}
      BY <1>2
    <2> HIDE DEF T
    <2>2. PICK i \in T : \A j \in T : i <= j
      BY <2>1, LeastMember
    <2>3. i \in 1 .. n /\ key[x][i] # key[y][i] /\ \A j \in 1 .. i - 1 : key[x][j] = key[y][j]
      BY <2>2 DEF T
    <2>4. key[x][i] > key[y][i] \/ key[y][i] > key[x][i]
      BY <2>3
    <2>5. QED
      BY <2>3, <2>4 DEF Before
  <1>3. ASSUME NEW x \in DOMAIN key, NEW y \in DOMAIN key, NEW z \in DOMAIN key,
               Before(key, x, y), Before(key, y, z)
        PROVE  Before(key, x, z)
    <2>1. PICK i \in 1 .. n : key[x][i] > key[y][i]
                                /\ \A k \in 1 .. i - 1 : key[x][k] = key[y][k]
      BY <1>3 DEF Before
    <2>2. PICK j \in 1 .. n : key[y][j] > key[z][j]
                                /\ \A k \in 1 .. j - 1 : key[y][k] = key[z][k]
      BY <1>3 DEF Before
    <2> DEFINE a == key[x] b == key[y] c == key[z]
    <2> HIDE DEF a, b, c
    <2>3. \A k \in 1 .. n : a[k] \in Int /\ b[k] \in Int /\ c[k] \in Int
      BY DEF a, b, c
    <2>4. a[i] > b[i] /\ \A k \in 1 .. i - 1 : a[k] = b[k]
      BY <2>1 DEF a, b
    <2>5. b[j] > c[j] /\ \A k \in 1 .. j - 1 : b[k] = c[k]
      BY <2>2 DEF b, c
    <2>6. \E m \in 1 .. n : a[m] > c[m] /\ \A k \in 1 .. m - 1 : a[k] = c[k]
      <3>1. CASE i = j
        <4>1. a[i] > c[i]
          BY <2>3, <2>4, <2>5, <3>1
        <4>2. \A k \in 1 .. i - 1 : a[k] = c[k]
          BY <2>4, <2>5, <3>1
        <4>3. QED
          BY <4>1, <4>2
      <3>2. CASE i < j
        <4>1. i \in 1 .. j - 1 /\ \A k \in 1 .. i - 1 : k \in 1 .. j - 1
          BY <3>2
        <4>2. QED
          BY <2>4, <2>5, <4>1
      <3>3. CASE j < i
        <4>1. j \in 1 .. i - 1 /\ \A k \in 1 .. j - 1 : k \in 1 .. i - 1
          BY <3>3
        <4>2. QED
          BY <2>4, <2>5, <4>1
      <3>4. QED
        BY <3>1, <3>2, <3>3
    <2>7. QED
      BY <2>6 DEF Before, a, b, c
  <1>4. QED
    BY <1>1, <1>2, <1>3 DEF IsStrictOrder

(* As many members are ahead of x as its place says: every place is taken.  *)
LEMMA EveryPlaceIsTaken ==
  ASSUME NEW key, IsFiniteSet(DOMAIN key), IsStrictOrder(key)
  PROVE  /\ \A x \in DOMAIN key : Cardinality(Ahead(key, x)) \in 0 .. Cardinality(DOMAIN key) - 1
         /\ \A x, y \in DOMAIN key :
              Before(key, x, y) => Cardinality(Ahead(key, x)) < Cardinality(Ahead(key, y))
         /\ \A i \in 0 .. Cardinality(DOMAIN key) - 1 :
              \E x \in DOMAIN key : Cardinality(Ahead(key, x)) = i
  <1> DEFINE S == DOMAIN key
             n == Cardinality(S)
             place(x) == Cardinality(Ahead(key, x))
  <1>1. n \in Nat
    BY FS_CardinalityType
  <1>2. ASSUME NEW x \in S
        PROVE  IsFiniteSet(Ahead(key, x)) /\ place(x) \in 0 .. n - 1
    <2>1. Ahead(key, x) \in SUBSET (S \ {x})
      BY DEF Ahead, IsStrictOrder
    <2>2. IsFiniteSet(S \ {x}) /\ Cardinality(S \ {x}) = n - 1
      BY FS_RemoveElement
    <2>3. IsFiniteSet(Ahead(key, x)) /\ place(x) <= n - 1
      BY <2>1, <2>2, FS_Subset
    <2>4. place(x) \in Nat
      BY <2>3, FS_CardinalityType
    <2>5. QED
      BY <1>1, <2>3, <2>4
  <1>3. ASSUME NEW x \in S, NEW y \in S, Before(key, x, y)
        PROVE  place(x) < place(y)
    <2>1. Ahead(key, x) \in SUBSET Ahead(key, y)
      BY <1>3 DEF Ahead, IsStrictOrder
    <2>2. x \in Ahead(key, y) /\ x \notin Ahead(key, x)
      BY <1>3 DEF Ahead, IsStrictOrder
    <2>3. place(x) <= place(y) /\ place(x) # place(y)
      BY <1>2, <2>1, <2>2, FS_Subset
    <2>4. QED
      BY <1>2, <2>3
  <1>4. \A i \in 0 .. n - 1 : \E x \in S : place(x) = i
    <2> DEFINE f == [x \in S |-> place(x)]
               T == 0 .. n - 1
    <2>1. f \in [S -> T]
      BY <1>2
    <2>2. \A x, y \in S : f[x] = f[y] => x = y
      BY <1>2, <1>3 DEF IsStrictOrder
    <2>3. f \in Injection(S, T)
      BY <2>1, <2>2 DEF Injection, IsInjective
    <2>4. IsFiniteSet(T) /\ Cardinality(T) = n
      BY <1>1, FS_Interval
    <2> HIDE DEF T, f
    <2>5. f \in Surjection(S, T)
      BY <2>3, <2>4, FS_Injection
    <2>6. QED
      BY <2>5 DEF Surjection, f, T
  <1>5. QED
    BY <1>2, <1>3, <1>4

(* sorted(...)[:n] is what its callers take it for.                         *)
LEMMA BestAreFirst ==
  ASSUME NEW key, IsFiniteSet(DOMAIN key), IsStrictOrder(key), NEW n \in Nat
  PROVE  AreFirst(Best(key, n), key, n)
  <1> DEFINE S == DOMAIN key
             c == Cardinality(S)
             m == Min({n, c})
             list == Best(key, n)
             place(x) == Cardinality(Ahead(key, x))
  <1>1. c \in Nat
    BY FS_CardinalityType
  <1>2. m \in Nat /\ m <= c
    BY <1>1 DEF Min
  <1>3. ASSUME NEW i \in 1 .. m
        PROVE  list[i] \in S /\ place(list[i]) = i - 1
    <2>1. \E x \in S : place(x) = i - 1
      BY <1>1, <1>2, EveryPlaceIsTaken
    <2>2. list[i] = CHOOSE x \in S : place(x) = i - 1
      BY DEF Best
    <2>3. QED
      BY <2>1, <2>2
  <1>4. list \in [1 .. m -> S]
    BY <1>3 DEF Best
  <1>5. \A x \in S : place(x) \in 0 .. c - 1
    BY EveryPlaceIsTaken
  <1>6. \A x, y \in S : place(x) < place(y) => Before(key, x, y)
    BY <1>5, EveryPlaceIsTaken DEF IsStrictOrder
  <1>7. \A x, y \in S : place(x) = place(y) => x = y
    BY <1>5, EveryPlaceIsTaken DEF IsStrictOrder
  <1>8. ASSUME NEW i \in 1 .. m, NEW x \in S \ Range(list)
        PROVE  Before(key, list[i], x)
    <2>1. ~(place(x) < m)
      <3> SUFFICES ASSUME place(x) < m PROVE FALSE
        OBVIOUS
      <3>1. place(x) + 1 \in 1 .. m
        BY <1>2, <1>5
      <3>2. x = list[place(x) + 1]
        BY <1>3, <1>5, <1>7, <3>1
      <3>3. QED
        BY <1>4, <3>1, <3>2 DEF Range
    <2>2. QED
      BY <1>2, <1>3, <1>5, <1>6, <2>1
  <1>9. ASSUME NEW i \in 1 .. m, NEW j \in 1 .. m, i < j
        PROVE  Before(key, list[i], list[j])
    BY <1>2, <1>3, <1>6, <1>9
  <1>10. QED
    BY <1>4, <1>8, <1>9 DEF AreFirst

(* A theme or audience has one place in its catalogue, and no other has it. *)
LEMMA PlacesDiffer ==
  ASSUME NEW list \in {Themes, Audiences}
  PROVE  /\ \A x \in Range(list) : Place(x, list) \in DOMAIN list /\ list[Place(x, list)] = x
         /\ DOMAIN list = 1 .. Len(list) /\ Len(list) \in Nat
         /\ IsFiniteSet(Range(list))
  <1>1. DOMAIN list = 1 .. Len(list) /\ Len(list) \in Nat
    BY CatalogueAssumption, LenProperties
  <1>2. ASSUME NEW x \in Range(list)
        PROVE  Place(x, list) \in DOMAIN list /\ list[Place(x, list)] = x
    <2>1. PICK i \in DOMAIN list : list[i] = x
      BY DEF Range
    <2>2. {j \in DOMAIN list : list[j] = x} = {i}
      BY <2>1, CatalogueAssumption DEF IsInjective
    <2>3. Min({i}) = i
      BY <1>1 DEF Min
    <2>4. QED
      BY <2>1, <2>2, <2>3 DEF Place
  <1>3. IsFiniteSet(Range(list))
    <2>1. IsFiniteSet(1 .. Len(list))
      BY <1>1, FS_Interval
    <2>2. list \in Surjection(1 .. Len(list), Range(list))
      BY <1>1, CatalogueAssumption, LenProperties DEF Surjection, Range
    <2>3. QED
      BY <2>1, <2>2, FS_Surjection
  <1>4. QED
    BY <1>1, <1>2, <1>3

(* Weights have a maximum.                                                  *)
LEMMA MaxOfWeights ==
  ASSUME NEW weights \in SUBSET {0, 3, 6, 8, 9}, weights # {}
  PROVE  Max(weights) \in weights
  <1>1. \E x \in weights : \A y \in weights : x >= y
    <2>1. CASE 9 \in weights
      BY <2>1
    <2>2. CASE 9 \notin weights /\ 8 \in weights
      BY <2>2
    <2>3. CASE 9 \notin weights /\ 8 \notin weights /\ 6 \in weights
      BY <2>3
    <2>4. CASE 9 \notin weights /\ 8 \notin weights /\ 6 \notin weights /\ 3 \in weights
      BY <2>4
    <2>5. CASE weights = {0}
      BY <2>5
    <2>6. QED
      BY <2>1, <2>2, <2>3, <2>4, <2>5
  <1>2. QED
    BY <1>1 DEF Max

LEMMA MaxContributionType ==
  ASSUME TypeOK, NEW t \in Targets
  PROVE  MaxContribution(t) \in Int
  <1> DEFINE weights == {0} \cup {edge.weight : edge \in Range(contributions[t])}
  <1>1. Range(contributions[t]) \subseteq Edges
    <2>1. contributions[t] \in Seq(Edges)
      BY DEF TypeOK
    <2>2. QED
      BY <2>1, LenProperties DEF Range
  <1>2. weights \subseteq {0, 3, 6, 8, 9} /\ 0 \in weights
    BY <1>1, DomainAssumption DEF WellFormedDomain, Weights
  <1> HIDE DEF weights
  <1>3. Max(weights) \in weights
    BY <1>2, MaxOfWeights
  <1>4. QED
    BY <1>2, <1>3 DEF MaxContribution, weights

LEMMA RankOrders ==
  ASSUME TypeOK, NEW catalogue \in {Themes, Audiences}, NEW set \in SUBSET Range(catalogue)
  PROVE  LET key == Rank(set, catalogue)
         IN  /\ DOMAIN key = set /\ IsFiniteSet(set) /\ IsStrictOrder(key)
             /\ \A x \in set : key[x][1] = scores[x][1] /\ 1 \in DOMAIN key[x]
  <1> DEFINE key == Rank(set, catalogue)
  <1>1. Range(catalogue) \subseteq Targets
    BY DEF Targets
  <1>2. DOMAIN key = set
    BY DEF Rank
  <1>3. ASSUME NEW x \in set
        PROVE  /\ DOMAIN key[x] = 1 .. 4 /\ \A i \in 1 .. 4 : key[x][i] \in Int
               /\ key[x][4] = -Place(x, catalogue) /\ key[x][1] = scores[x][1]
    <2>1. scores[x] \in Int \X Int
      BY <1>1 DEF TypeOK
    <2>2. MaxContribution(x) \in Int
      BY <1>1, MaxContributionType
    <2>3. Place(x, catalogue) \in Int
      BY PlacesDiffer
    <2>4. key[x] = <<scores[x][1], scores[x][2], MaxContribution(x), -Place(x, catalogue)>>
      BY DEF Rank
    <2>5. QED
      BY <2>1, <2>2, <2>3, <2>4
  <1>4. \A x, y \in set : x # y => key[x][4] # key[y][4]
    <2> SUFFICES ASSUME NEW x \in set, NEW y \in set, x # y
                 PROVE  key[x][4] # key[y][4]
      OBVIOUS
    <2>1. Place(x, catalogue) # Place(y, catalogue)
      BY PlacesDiffer
    <2>2. Place(x, catalogue) \in Int /\ Place(y, catalogue) \in Int
      BY PlacesDiffer
    <2>3. QED
      BY <1>3, <2>1, <2>2
  <1>5. IsFiniteSet(set)
    BY PlacesDiffer, FS_Subset
  <1> HIDE DEF key
  <1>6. IsStrictOrder(key)
    <2>1. 4 \in Nat /\ 4 \in 1 .. 4
      OBVIOUS
    <2>2. QED
      BY <1>2, <1>3, <1>4, <2>1, KeysAreOrdered
  <1>7. QED
    BY <1>2, <1>3, <1>5, <1>6 DEF key

(* What infer() picks once the sources are propagated.                      *)
LEMMA WinnersAreFirst ==
  ASSUME TypeOK
  PROVE  AreFirst(Winners, Rank(Eligible, Themes), K)
  <1>1. K \in Nat /\ Eligible \in SUBSET Range(Themes)
    BY DEF K, Eligible
  <1>2. QED
    BY <1>1, RankOrders, BestAreFirst DEF Winners

-----------------------------------------------------------------------------
(* The steps *)

LEMMA BucketsType == \A d : Buckets(d) \in Seq(BucketNames)
  <1> SUFFICES ASSUME NEW d PROVE Buckets(d) \in Seq(BucketNames)
    OBVIOUS
  <1> DEFINE T == Seq(BucketNames)
  <1>1. /\ When(d.age <= 1, "a_estrenar") \in T
        /\ When(d.age > 1 /\ d.age <= 10, "construccion_reciente") \in T
        /\ When(d.age > 30, "con_historia") \in T
        /\ When(d.area >= 180, "area_amplia") \in T
        /\ When(d.area <= 50, "area_compacta") \in T
        /\ When(d.bedrooms >= 4, "rec_4_mas") \in T
        /\ When(d.bedrooms \in 2 .. 3, "rec_2_3") \in T
        /\ When(d.bedrooms = 1, "rec_1") \in T
        /\ When(d.condominium, "en_condominio") \in T
        /\ When(d.parking = 0, "sin_estacionamiento") \in T
    <2>1. <<>> \in T /\ \A b \in BucketNames : <<b>> \in T
      OBVIOUS
    <2> HIDE DEF T
    <2>2. QED
      BY <2>1 DEF When, BucketNames
  <1>2. \A s, t \in T : s \o t \in T
    BY ConcatProperties
  <1> HIDE DEF T
  <1>3. Buckets(d) \in T
    BY <1>1, <1>2 DEF Buckets
  <1>4. QED
    BY <1>3 DEF T

LEMMA AmenitiesType ==
  ASSUME NEW d \in Drafts
  PROVE  d.amenities \in Seq(Names)
  <1>1. PICK n \in 0 .. MaxAmenities : d.amenities \in [1 .. n -> Names]
    <2>1. PICK home \in Homes, rent \in BOOLEAN, type \in TypeNames, list \in Lists :
            d = Draft(home, rent, type, list)
      BY DEF Drafts
    <2>2. "amenities" \in DOMAIN home
      BY DraftAssumption
    <2>3. d.amenities = list
      BY <2>1, <2>2 DEF Draft
    <2>4. QED
      BY <2>3 DEF Lists
  <1>2. n \in Nat
    BY DraftAssumption
  <1>3. QED
    BY <1>1, <1>2

(* The keys of the amenities that have an alias.                            *)
LEMMA KeysType ==
  ASSUME NEW d \in Drafts
  PROVE  /\ Keys(d) \in Seq(Range(Alias))
         /\ Range(Keys(d)) = {Alias[a] : a \in Range(d.amenities) \cap DOMAIN Alias}
  <1>1. Known(d) \in Seq(Names) /\ Range(Known(d)) = Range(d.amenities) \cap DOMAIN Alias
    BY AmenitiesType, OnlyRange DEF Known
  <1>2. DOMAIN Known(d) = 1 .. Len(Known(d)) /\ Len(Known(d)) \in Nat
    BY <1>1, LenProperties
  <1>3. \A i \in 1 .. Len(Known(d)) : Known(d)[i] \in Range(d.amenities) \cap DOMAIN Alias
    BY <1>1, <1>2 DEF Range
  <1>4. Keys(d) \in [1 .. Len(Known(d)) -> Range(Alias)]
    BY <1>2, <1>3 DEF Keys, Range
  <1>5. Range(Keys(d)) = {Alias[Known(d)[i]] : i \in 1 .. Len(Known(d))}
    BY <1>2 DEF Keys, Range
  <1>6. Range(Known(d)) = {Known(d)[i] : i \in 1 .. Len(Known(d))}
    BY <1>2 DEF Range
  <1>7. QED
    BY <1>1, <1>2, <1>4, <1>5, <1>6

(* The sources of a listing are a list: its amenities, and what else it is. *)
LEMMA ActiveType ==
  ASSUME NEW d \in Drafts
  PROVE  /\ Len(Active(d)) \in Nat /\ DOMAIN Active(d) = 1 .. Len(Active(d))
         /\ Range(Active(d)) \subseteq Sources \cup {None} \cup Range(Keys(d))
         /\ Range(Keys(d)) \subseteq Range(Active(d))
  <1> DEFINE T == Seq(Sources)
             U == Sources \cup {None} \cup Range(Keys(d))
             amenities == [i \in DOMAIN d.amenities |->
                            IF d.amenities[i] \in DOMAIN Alias THEN Alias[d.amenities[i]] ELSE None]
  <1>1. /\ <<Operation(d)>> \in T /\ When(d.type \in Types, d.type) \in T
        /\ Buckets(d) \in T
    <2>1. Operation(d) \in Sources
      BY DEF Operation, Sources
    <2>2. d.type \in Types => d.type \in Sources
      BY DEF Sources
    <2>3. Buckets(d) \in T
      <3>1. BucketNames \subseteq Sources
        BY DEF Sources
      <3>2. QED
        BY <3>1, BucketsType, SeqMonotonic
    <2>4. QED
      BY <2>1, <2>2, <2>3 DEF When
  <1>2. DOMAIN d.amenities = 1 .. Len(d.amenities) /\ Len(d.amenities) \in Nat
    BY AmenitiesType, LenProperties
  <1>3. \A i \in 1 .. Len(d.amenities) :
          d.amenities[i] \in DOMAIN Alias => Alias[d.amenities[i]] \in Range(Keys(d))
    BY <1>2, KeysType DEF Range
  <1>4. amenities \in [1 .. Len(d.amenities) -> Range(Keys(d)) \cup {None}]
    BY <1>2, <1>3
  <1>5. Range(Keys(d)) \subseteq Range(amenities)
    <2> SUFFICES ASSUME NEW i \in 1 .. Len(d.amenities), d.amenities[i] \in DOMAIN Alias
                 PROVE  Alias[d.amenities[i]] \in Range(amenities)
      <3>1. Range(d.amenities) = {d.amenities[i] : i \in 1 .. Len(d.amenities)}
        BY <1>2 DEF Range
      <3>2. Range(Keys(d)) = {Alias[a] : a \in Range(d.amenities) \cap DOMAIN Alias}
        BY KeysType
      <3> HIDE DEF amenities
      <3>3. QED
        BY <3>1, <3>2
    <2>1. amenities[i] = Alias[d.amenities[i]] /\ i \in DOMAIN amenities
      BY <1>2
    <2> HIDE DEF amenities
    <2>2. QED
      BY <2>1 DEF Range
  <1>6. amenities \in Seq(Range(Keys(d)) \cup {None})
    BY <1>2, <1>4
  <1> HIDE DEF amenities
  <1> DEFINE front == <<Operation(d)>> \o When(d.type \in Types, d.type) \o Buckets(d)
  <1>7. front \in T /\ Active(d) = front \o amenities
    <2>1. \A s, t \in T : s \o t \in T
      BY ConcatProperties
    <2> HIDE DEF T
    <2>2. QED
      BY <1>1, <2>1 DEF Active, amenities
  <1>8. front \in Seq(U) /\ amenities \in Seq(U)
    <2>1. Sources \subseteq U /\ Range(Keys(d)) \cup {None} \subseteq U
      OBVIOUS
    <2> HIDE DEF front, U
    <2>2. QED
      BY <1>6, <1>7, <2>1, SeqMonotonic
  <1> HIDE DEF front
  <1>9. Active(d) \in Seq(U) /\ Range(Active(d)) = Range(front) \cup Range(amenities)
    BY <1>7, <1>8, ConcatProperties, RangeConcatenation
  <1>10. Range(Active(d)) \subseteq U
    BY <1>9, RangeOfSeq
  <1>11. QED
    BY <1>5, <1>9, <1>10, LenProperties

LEMMA PlusType ==
  ASSUME NEW x \in Int \X Int, NEW y \in Int \X Int
  PROVE  Plus(x, y) \in Int \X Int /\ Plus(x, y)[1] = x[1] + y[1]
  <1> DEFINE z == <<x[1] + y[1], x[2] + y[2]>>
  <1>1. z[1] \in Int /\ z[2] \in Int /\ z \in Int \X Int
    OBVIOUS
  <1> HIDE DEF z
  <1>2. Spacing(z) \in 1 .. 16
    BY DEF Spacing
  <1>3. 10 * Spacing(z) \in Int /\ 10 * Spacing(z) > 0
    BY <1>2
  <1>4. (z[1] * Residue + z[2]) % (10 * Spacing(z)) \in Int
    BY <1>1, <1>3 DEF Residue
  <1>5. Round(z)[1] = z[1] /\ Round(z)[2] \in Int /\ Round(z) = <<Round(z)[1], Round(z)[2]>>
    BY <1>1, <1>3, <1>4 DEF Round
  <1>6. Round(z) \in Int \X Int
    BY <1>1, <1>5
  <1>7. QED
    BY <1>5, <1>6 DEF Plus, z

LEMMA DoubleType ==
  \A weight \in Weights : Double(weight) \in Int \X Int /\ Double(weight)[1] = weight
  BY DEF Double, Weights

LEMMA InitInv == Init => Inv
  <1> SUFFICES ASSUME Init PROVE Inv
    OBVIOUS
  <1>1. TypeOK
    <2>1. draft \in Drafts /\ propagated = 0
      BY DEF Init
    <2>2. Len(Active(draft)) \in Nat
      BY <2>1, ActiveType
    <2>3. scores \in [Targets -> Int \X Int]
      BY DEF Init, Zero
    <2>4. contributions \in [Targets -> Seq(Edges)]
      BY DEF Init
    <2>5. QED
      BY <2>1, <2>2, <2>3, <2>4 DEF TypeOK
  <1>2. BlockedSoFar
    BY DEF Init, BlockedSoFar
  <1>3. ScoresAddUp
    BY TotalEmpty DEF Init, Zero, ScoresAddUp, ExactScore
  <1>4. ContributedSoFar
    BY DEF Init, ContributedSoFar, ActiveSoFar, Range
  <1>5. DecidedAtTheEnd /\ SummaryTellsIt
    BY DEF Init, DecidedAtTheEnd, SummaryTellsIt
  <1>6. QED
    BY <1>1, <1>2, <1>3, <1>4, <1>5 DEF Inv

LEMMA EdgesFromIs ==
  \A origin : EdgesFrom(origin) = {edge \in Edges : edge.origin = origin}
  BY DEF EdgesFrom, ByOrigin

(* The edge of a source to a target it reaches is the only one.             *)
LEMMA EdgeTo ==
  ASSUME NEW origin, NEW t \in {edge.target : edge \in EdgesFrom(origin)}
  PROVE  LET edge == CHOOSE e \in EdgesFrom(origin) : e.target = t
         IN  /\ edge \in Edges /\ edge.weight \in Weights /\ t \in Targets
             /\ {e \in Edges : e.target = t /\ e.origin = origin} = {edge}
  <1> DEFINE edge == CHOOSE e \in EdgesFrom(origin) : e.target = t
  <1>1. edge \in Edges /\ edge.target = t /\ edge.origin = origin
    BY EdgesFromIs
  <1> HIDE DEF edge
  <1>2. edge.weight \in Weights /\ edge.target \in Range(Themes) \cup Range(Audiences)
    BY <1>1, DomainAssumption DEF WellFormedDomain
  <1>3. \A e \in Edges : e.target = t /\ e.origin = origin => e = edge
    BY <1>1, DomainAssumption DEF WellFormedDomain
  <1>4. QED
    BY <1>1, <1>2, <1>3 DEF edge, Targets

(* An active source adds a weight to the themes and audiences it reaches,   *)
(* and its blocks to the blocked themes.                                    *)
LEMMA PropagateInv == Inv /\ Propagate => Inv'
  <1> SUFFICES ASSUME Inv, Propagate PROVE Inv'
    OBVIOUS
  <1> DEFINE origin  == Active(draft)[propagated + 1]
             edges   == EdgesFrom(origin)
             reached == {edge.target : edge \in edges}
             to(t)   == CHOOSE edge \in edges : edge.target = t
  <1>1. /\ TypeOK /\ BlockedSoFar /\ DecidedAtTheEnd /\ SummaryTellsIt
        /\ ScoresAddUp /\ ContributedSoFar
        /\ draft' = draft /\ decision' = decision /\ summary' = summary
        /\ propagated < Len(Active(draft)) /\ propagated' = propagated + 1
    BY DEF Inv, Propagate
  <1>2. /\ scores' = [t \in Targets |->
                        IF t \in reached THEN Plus(scores[t], Double(to(t).weight))
                                         ELSE scores[t]]
        /\ contributions' = [t \in Targets |->
                               IF t \in reached THEN Append(contributions[t], to(t))
                                                ELSE contributions[t]]
        /\ blocked' = blocked \cup BlockedBy(origin)
    BY DEF Propagate
  <1>3. propagated \in Nat /\ Len(Active(draft)) \in Nat
    BY <1>1, ActiveType DEF TypeOK
  <1>4. \A t \in reached :
          /\ t \in Targets /\ to(t) \in Edges /\ to(t).weight \in Weights
          /\ {e \in Edges : e.target = t /\ e.origin = origin} = {to(t)}
    BY EdgeTo
  <1>5. \A t \in Targets \ reached : {e \in Edges : e.target = t /\ e.origin = origin} = {}
    BY EdgesFromIs
  <1> HIDE DEF reached, to
  <1>6. \A t \in Targets : /\ scores[t] \in Int \X Int /\ scores[t][1] \in Int
                           /\ contributions[t] \in Seq(Edges)
    BY <1>1 DEF TypeOK
  <1>7. \A t \in reached :
          /\ scores'[t] = Plus(scores[t], Double(to(t).weight))
          /\ scores'[t] \in Int \X Int
          /\ scores'[t][1] = scores[t][1] + to(t).weight
          /\ contributions'[t] = Append(contributions[t], to(t))
          /\ contributions'[t] \in Seq(Edges)
    BY <1>2, <1>4, <1>6, PlusType, DoubleType, AppendProperties
  <1>8. \A t \in Targets \ reached :
          scores'[t] = scores[t] /\ contributions'[t] = contributions[t]
    BY <1>2
  <1>9. TypeOK'
    <2>1. scores' \in [Targets -> Int \X Int]
      BY <1>2, <1>6, <1>7, <1>8
    <2>2. contributions' \in [Targets -> Seq(Edges)]
      BY <1>2, <1>6, <1>7, <1>8
    <2>3. draft' \in Drafts /\ propagated' \in 0 .. Len(Active(draft'))
      BY <1>1, <1>3 DEF TypeOK
    <2>4. QED
      BY <2>1, <2>2, <2>3 DEF TypeOK
  <1>10. 1 .. propagated + 1 = (1 .. propagated) \cup {propagated + 1}
    BY <1>3
  <1>11. BlockedSoFar'
    <2>1. blocked' = UNION {BlockedBy(Active(draft)[i]) : i \in 1 .. propagated + 1}
      BY <1>1, <1>2, <1>10 DEF BlockedSoFar
    <2>2. QED
      BY <1>1, <2>1 DEF BlockedSoFar, BlockedBy
  <1>12. ScoresAddUp'
    <2> SUFFICES ASSUME NEW t \in Targets
                 PROVE  /\ scores'[t][1] = Total(contributions'[t])
                        /\ scores'[t][1] \in {0, 3} \/ scores'[t][1] >= 6
      BY DEF ScoresAddUp, ExactScore
    <2>1. /\ scores[t][1] = Total(contributions[t])
          /\ scores[t][1] \in {0, 3} \/ scores[t][1] >= 6
      BY <1>1 DEF ScoresAddUp, ExactScore
    <2>2. CASE t \in reached
      <3>1. Total(contributions'[t]) = Total(contributions[t]) + to(t).weight
        BY <1>4, <1>6, <1>7, <2>2, TotalAppend
      <3>2. scores'[t][1] = scores[t][1] + to(t).weight /\ to(t).weight \in {3, 6, 8, 9}
        BY <1>4, <1>7, <2>2 DEF Weights
      <3>3. QED
        BY <1>6, <2>1, <3>1, <3>2
    <2>3. CASE t \notin reached
      BY <1>8, <2>1, <2>3
    <2>4. QED
      BY <2>2, <2>3
  <1>13. ContributedSoFar'
    <2> SUFFICES ASSUME NEW t \in Targets
                 PROVE  Range(contributions'[t])
                          = {e \in Edges : e.target = t /\ e.origin \in ActiveSoFar'}
      BY DEF ContributedSoFar
    <2>1. ActiveSoFar' = ActiveSoFar \cup {origin}
      BY <1>1, <1>10 DEF ActiveSoFar
    <2>2. {e \in Edges : e.target = t /\ e.origin \in ActiveSoFar'}
            = Range(contributions[t]) \cup {e \in Edges : e.target = t /\ e.origin = origin}
      BY <1>1, <2>1 DEF ContributedSoFar
    <2>3. CASE t \in reached
      <3>1. Range(contributions'[t]) = Range(contributions[t]) \cup {to(t)}
        <4>1. /\ contributions[t] \in Seq(Edges) /\ to(t) \in Edges
              /\ contributions'[t] = Append(contributions[t], to(t))
          BY <1>4, <1>6, <1>7, <2>3
        <4>2. QED
          BY <4>1, RangeAppend
      <3>2. {e \in Edges : e.target = t /\ e.origin = origin} = {to(t)}
        BY <1>4, <2>3
      <3>3. QED
        BY <2>2, <3>1, <3>2
    <2>4. CASE t \notin reached
      BY <1>5, <1>8, <2>2, <2>4
    <2>5. QED
      BY <2>3, <2>4
  <1>14. decision = None /\ summary = None
    BY <1>1, <1>3 DEF DecidedAtTheEnd, SummaryTellsIt
  <1>15. DecidedAtTheEnd' /\ SummaryTellsIt'
    BY <1>1, <1>14 DEF DecidedAtTheEnd, SummaryTellsIt
  <1>16. QED
    BY <1>9, <1>11, <1>12, <1>13, <1>15 DEF Inv

(* What infer() returns depends on nothing else.                            *)
LEMMA DecisionStays ==
  ASSUME UNCHANGED <<draft, scores, contributions, blocked>>
  PROVE  Decision' = Decision /\ Winners' = Winners /\ Main(Winners)' = Main(Winners)
  <1>1. Winners' = Winners
    BY DEF Winners, Rank, Eligible, MaxContribution
  <1>2. Main(Winners)' = Main(Winners)
    BY <1>1 DEF Main
  <1>3. Audience' = Audience
    BY DEF Audience, Rank, MaxContribution
  <1>4. Decision' = Decision
    BY <1>1, <1>2, <1>3 DEF Decision
  <1>5. QED
    BY <1>1, <1>2, <1>4

LEMMA QuietInv ==
  ASSUME Inv, UNCHANGED <<draft, propagated, scores, contributions, blocked>>
  PROVE  /\ TypeOK' /\ BlockedSoFar' /\ ScoresAddUp' /\ ContributedSoFar'
         /\ UNCHANGED decision => DecidedAtTheEnd'
         /\ UNCHANGED <<decision, summary>> => SummaryTellsIt'
  <1>1. TypeOK' /\ BlockedSoFar'
    BY DEF Inv, TypeOK, BlockedSoFar, BlockedBy
  <1>2. ScoresAddUp' /\ ContributedSoFar'
    BY DEF Inv, ScoresAddUp, ExactScore, ContributedSoFar, ActiveSoFar
  <1>3. UNCHANGED decision => DecidedAtTheEnd'
    BY DecisionStays DEF Inv, DecidedAtTheEnd
  <1>4. UNCHANGED <<decision, summary>> => SummaryTellsIt'
    BY DecisionStays DEF Inv, SummaryTellsIt
  <1>5. QED
    BY <1>1, <1>2, <1>3, <1>4

LEMMA SelectInv == Inv /\ Select => Inv'
  <1> SUFFICES ASSUME Inv, Select PROVE Inv'
    OBVIOUS
  <1>1. /\ UNCHANGED <<draft, propagated, scores, contributions, blocked, summary>>
        /\ propagated = Len(Active(draft)) /\ decision = None /\ decision' = Decision
    BY DEF Select
  <1>2. DecidedAtTheEnd'
    BY <1>1, DecisionStays DEF DecidedAtTheEnd
  <1>3. SummaryTellsIt'
    BY <1>1 DEF Inv, SummaryTellsIt
  <1>4. QED
    BY <1>1, <1>2, <1>3, QuietInv DEF Inv

LEMMA SummaryInv == Inv /\ BuildSummary => Inv'
  <1> SUFFICES ASSUME Inv, BuildSummary PROVE Inv'
    OBVIOUS
  <1>1. /\ UNCHANGED <<draft, propagated, scores, contributions, blocked, decision>>
        /\ decision # None
        /\ summary'.themes = decision.themes
        /\ summary'.mentions = Range(decision.unknown) \cup
                               IF decision.main = <<>> THEN {}
                               ELSE Range(decision.main \o decision.secondary)
    BY DEF BuildSummary
  <1>2. /\ decision.themes = Winners /\ decision.main = Main(Winners)
        /\ decision.secondary = Secondary(draft, Main(Winners))
        /\ decision.unknown = Unknown(draft)
    BY <1>1 DEF Inv, DecidedAtTheEnd, Decision
  <1>3. SummaryTellsIt'
    BY <1>1, <1>2, DecisionStays DEF SummaryTellsIt
  <1>4. QED
    BY <1>1, <1>3, QuietInv DEF Inv

(* Every step of a generation keeps the invariant.                          *)
THEOREM GraphInvariant == Spec => []Inv
  <1>1. Inv /\ [Next]_vars => Inv'
    <2> SUFFICES ASSUME Inv, [Next]_vars PROVE Inv'
      OBVIOUS
    <2>1. CASE Propagate
      BY <2>1, PropagateInv
    <2>2. CASE Select
      BY <2>2, SelectInv
    <2>3. CASE BuildSummary
      BY <2>3, SummaryInv
    <2>4. CASE UNCHANGED vars
      BY <2>4, QuietInv DEF vars, Inv
    <2>5. QED
      BY <2>1, <2>2, <2>3, <2>4 DEF Next
  <1>2. QED
    BY <1>1, InitInv, PTL DEF Spec

-----------------------------------------------------------------------------
(* The properties *)

(* However many amenities push it, a theme that any source of the listing   *)
(* blocks is not among the winners infer() returns.                         *)
THEOREM BlockedThemesLose == Spec => []BlockedNeverWins
  <1>1. Inv => BlockedNeverWins
    <2> SUFFICES ASSUME Inv, decision # None, NEW block \in Blocks,
                        block.origin \in Range(Active(draft))
                 PROVE  block.target \notin Range(decision.themes)
      BY DEF BlockedNeverWins
    <2>1. /\ TypeOK /\ propagated = Len(Active(draft)) /\ decision = Decision
          /\ blocked = UNION {BlockedBy(Active(draft)[i]) : i \in 1 .. Len(Active(draft))}
      BY DEF Inv, BlockedSoFar, DecidedAtTheEnd
    <2>2. decision.themes = Winners
      BY <2>1 DEF Decision
    <2>3. DOMAIN Active(draft) = 1 .. Len(Active(draft))
      BY <2>1, ActiveType DEF TypeOK
    <2>4. PICK i \in 1 .. Len(Active(draft)) : Active(draft)[i] = block.origin
      BY <2>3 DEF Range
    <2>5. block.target \in blocked
      BY <2>1, <2>4 DEF BlockedBy
    <2>6. Range(Winners) \subseteq Eligible
      BY <2>1, WinnersAreFirst DEF AreFirst, Rank, Range
    <2>7. QED
      BY <2>2, <2>5, <2>6 DEF Eligible
  <1>2. QED
    BY <1>1, GraphInvariant, PTL

(* The winners are the first K of the themes that may win, by score,        *)
(* heaviest contribution and place in the catalogue: each before the next   *)
(* and before every theme left out.                                         *)
THEOREM WinnersFollowTheRanking ==
  Spec => [](decision # None => AreFirst(decision.themes, Rank(Eligible, Themes), K))
  <1>1. Inv => (decision # None => AreFirst(decision.themes, Rank(Eligible, Themes), K))
    BY WinnersAreFirst DEF Inv, DecidedAtTheEnd, Decision
  <1>2. QED
    BY <1>1, GraphInvariant, PTL

(* No sum of weights is the threshold, so its rounding does not matter.     *)
LEMMA EligibleIsExact ==
  ASSUME TypeOK, ScoresAddUp
  PROVE  Eligible = {t \in Range(Themes) \ blocked : ExactScore(t) >= Threshold}
  <1>1. ASSUME NEW t \in Targets
        PROVE  AtLeast(scores[t], Threshold) <=> ExactScore(t) >= Threshold
    <2>1. scores[t][1] \in Int /\ scores[t][1] = ExactScore(t)
      BY DEF TypeOK, ScoresAddUp
    <2>2. scores[t][1] \in {0, 3} \/ scores[t][1] >= 6
      BY DEF ScoresAddUp
    <2>3. QED
      BY <2>1, <2>2 DEF AtLeast, Threshold
  <1>2. Range(Themes) \subseteq Targets
    BY DEF Targets
  <1>3. QED
    BY <1>1, <1>2 DEF Eligible

(* Who is before y in the ranking has no smaller score.                     *)
LEMMA BeforeIsBetter ==
  ASSUME TypeOK, ScoresAddUp, NEW catalogue \in {Themes, Audiences},
         NEW set \in SUBSET Range(catalogue), NEW x \in set, NEW y \in set,
         Before(Rank(set, catalogue), x, y)
  PROVE  ExactScore(y) <= ExactScore(x)
  <1> DEFINE key == Rank(set, catalogue)
  <1>1. key[x][1] = scores[x][1] /\ key[y][1] = scores[y][1]
    BY RankOrders
  <1>2. PICK i \in DOMAIN key[x] :
          key[x][i] > key[y][i] /\ \A j \in 1 .. i - 1 : key[x][j] = key[y][j]
    BY DEF Before
  <1>3. DOMAIN key[x] = 1 .. 4
    BY DEF Rank
  <1>4. x \in Targets /\ y \in Targets
    BY DEF Targets
  <1>5. scores[x][1] \in Int /\ scores[y][1] \in Int
    BY <1>4 DEF TypeOK
  <1> HIDE DEF key
  <1>6. scores[x][1] >= scores[y][1]
    <2>1. CASE i = 1
      BY <1>1, <1>2, <1>5, <2>1
    <2>2. CASE i # 1
      <3>1. 1 \in 1 .. i - 1
        BY <1>2, <1>3, <2>2
      <3>2. QED
        BY <1>1, <1>2, <1>5, <3>1
    <2>3. QED
      BY <2>1, <2>2
  <1>7. QED
    BY <1>4, <1>6 DEF ScoresAddUp

(* The rounding of the floats never decides: the winners are the themes     *)
(* with the greatest exact scores, all that reach the threshold up to k,    *)
(* and the audience has the greatest exact score there is.                  *)
THEOREM FloatsNeverDecide == Spec => []DecisionIsBest
  <1>1. Inv => DecisionIsBest
    <2> SUFFICES ASSUME Inv, decision # None PROVE DecisionIsBest
      BY DEF DecisionIsBest
    <2> DEFINE themes == decision.themes
               reach == {t \in Range(Themes) \ blocked : ExactScore(t) >= Threshold}
               key == Rank(Eligible, Themes)
               best == Rank(Range(Audiences), Audiences)
               first == Best(best, 1)[1]
    <2>1. /\ TypeOK /\ ScoresAddUp /\ decision.themes = Winners
          /\ decision.audience = Audience
      BY DEF Inv, DecidedAtTheEnd, Decision
    <2>2. Eligible = reach /\ Eligible \in SUBSET Range(Themes)
      BY <2>1, EligibleIsExact DEF Eligible
    <2>3. AreFirst(themes, key, K) /\ DOMAIN key = Eligible /\ IsFiniteSet(Eligible)
          /\ IsStrictOrder(key)
      BY <2>1, <2>2, WinnersAreFirst, RankOrders
    <2>4. \A x, y \in Eligible : Before(key, x, y) => ExactScore(y) <= ExactScore(x)
      BY <2>1, <2>2, BeforeIsBetter
    <2> DEFINE m == Min({K, Cardinality(Eligible)})
    <2>5. m \in Nat
      <3>1. Cardinality(Eligible) \in Nat /\ K \in Nat
        BY <2>3, FS_CardinalityType DEF K
      <3>2. QED
        BY <3>1 DEF Min
    <2> HIDE DEF themes, key, m
    <2>6. /\ themes \in [1 .. m -> Eligible] /\ DOMAIN themes = 1 .. m
          /\ Range(themes) \subseteq Eligible /\ Len(themes) = m
      <3>1. themes \in [1 .. m -> Eligible]
        BY <2>3 DEF AreFirst, m
      <3>2. themes \in Seq(Eligible)
        BY <2>5, <3>1
      <3>3. QED
        BY <2>5, <3>1, <3>2, LenProperties DEF Range
    <2>7. IsInjective(themes)
      <3> SUFFICES ASSUME NEW i \in 1 .. m, NEW j \in 1 .. m, themes[i] = themes[j], i # j
                   PROVE  FALSE
        BY <2>6 DEF IsInjective
      <3>1. Before(key, themes[i], themes[j]) \/ Before(key, themes[j], themes[i])
        <4>1. i < j \/ j < i
          BY <2>5
        <4>2. i \in DOMAIN themes /\ j \in DOMAIN themes
          BY <2>6
        <4>3. QED
          BY <2>3, <4>1, <4>2 DEF AreFirst
      <3>2. QED
        BY <2>3, <2>6, <3>1 DEF IsStrictOrder
    <2>8. ASSUME NEW i \in DOMAIN themes
          PROVE  IsBest(themes[i], reach \ {themes[j] : j \in 1 .. i - 1})
      <3> SUFFICES ASSUME NEW y \in Eligible \ {themes[j] : j \in 1 .. i - 1}
                   PROVE  ExactScore(y) <= ExactScore(themes[i])
        BY <2>2 DEF IsBest
      <3>1. themes[i] \in Eligible
        BY <2>6
      <3>2. CASE y \in Range(themes)
        <4>1. PICK j \in 1 .. m : y = themes[j]
          BY <2>6, <3>2 DEF Range
        <4>2. ~(j < i)
          BY <2>5, <2>6, <4>1
        <4>3. CASE j = i
          <5>1. ExactScore(y) \in Int
            <6>1. y \in Targets
              BY <2>2 DEF Targets
            <6>2. QED
              BY <2>1, <6>1 DEF TypeOK, ScoresAddUp
          <5>2. QED
            BY <4>1, <4>3, <5>1
        <4>4. CASE i < j
          <5>1. Before(key, themes[i], y)
            BY <2>3, <2>6, <4>1, <4>4 DEF AreFirst
          <5>2. QED
            BY <2>4, <3>1, <5>1
        <4>5. QED
          BY <2>5, <2>6, <4>2, <4>3, <4>4
      <3>3. CASE y \notin Range(themes)
        <4>1. Before(key, themes[i], y)
          BY <2>3, <3>3 DEF AreFirst
        <4>2. QED
          BY <2>4, <3>1, <4>1
      <3>4. QED
        BY <3>2, <3>3
    <2>9. IF decision.audience = None
          THEN \A a \in Range(Audiences) : ExactScore(a) = 0
          ELSE IsBest(decision.audience, Range(Audiences))
      <3>1. /\ DOMAIN best = Range(Audiences) /\ IsFiniteSet(DOMAIN best)
            /\ IsStrictOrder(best)
        BY <2>1, RankOrders
      <3>2. \A x, y \in Range(Audiences) : Before(best, x, y) => ExactScore(y) <= ExactScore(x)
        BY <2>1, BeforeIsBetter
      <3>3. AreFirst(Best(best, 1), best, 1)
        BY <3>1, BestAreFirst
      <3>4. \A a \in Range(Audiences) :
              /\ ExactScore(a) = scores[a][1] /\ ExactScore(a) \in Int
              /\ ExactScore(a) >= 0 /\ a # None
        <4>1. \A a \in Range(Audiences) : a \in Targets /\ a # None
          BY CatalogueAssumption DEF Targets
        <4>2. \A a \in Targets : scores[a][1] \in Int
          BY <2>1 DEF TypeOK
        <4>3. \A a \in Targets : /\ ExactScore(a) = scores[a][1]
                                 /\ scores[a][1] \in {0, 3} \/ scores[a][1] >= 6
          BY <2>1 DEF ScoresAddUp
        <4>4. QED
          BY <4>1, <4>2, <4>3
      <3>5. Min({1, Cardinality(DOMAIN best)}) = 1
        <4>1. Range(Audiences) # {}
          <5>1. Audiences # <<>> /\ Audiences \in Seq(Range(Audiences))
            BY CatalogueAssumption
          <5>2. 1 \in DOMAIN Audiences
            BY <5>1, EmptySeq, LenProperties
          <5>3. QED
            BY <5>2 DEF Range
        <4>2. Cardinality(DOMAIN best) \in Nat \ {0}
          BY <3>1, <4>1, FS_CardinalityType, FS_EmptySet
        <4>3. QED
          BY <4>2 DEF Min
      <3> HIDE DEF best
      <3>6. first \in Range(Audiences) /\ IsBest(first, Range(Audiences))
        <4>1. Best(best, 1) \in [1 .. 1 -> Range(Audiences)]
          BY <3>1, <3>3, <3>5 DEF AreFirst
        <4>2. first \in Range(Audiences) /\ DOMAIN Best(best, 1) = 1 .. 1
          BY <4>1
        <4>3. ASSUME NEW y \in Range(Audiences)
              PROVE  ExactScore(y) <= ExactScore(first)
          <5>1. CASE y = first
            BY <3>4, <5>1
          <5>2. CASE y # first
            <6>1. y \notin Range(Best(best, 1))
              BY <4>2, <5>2 DEF Range
            <6>2. Before(best, first, y)
              BY <3>1, <3>3, <4>2, <6>1 DEF AreFirst
            <6>3. QED
              BY <3>2, <4>2, <6>2
          <5>3. QED
            BY <5>1, <5>2
        <4>4. QED
          BY <4>2, <4>3 DEF IsBest
      <3>7. Audience = IF scores[first][1] > 0 THEN first ELSE None
        BY DEF Audience, best
      <3> HIDE DEF first
      <3>8. CASE scores[first][1] > 0
        BY <2>1, <3>4, <3>6, <3>7, <3>8
      <3>9. CASE ~(scores[first][1] > 0)
        <4>1. \A a \in Range(Audiences) : ExactScore(a) = 0
          BY <3>4, <3>6, <3>9 DEF IsBest
        <4>2. QED
          BY <2>1, <3>7, <3>9, <4>1
      <3>10. QED
        BY <3>8, <3>9
    <2>10. QED
      BY <2>2, <2>6, <2>7, <2>8, <2>9 DEF DecisionIsBest, themes, m
  <1>2. QED
    BY <1>1, GraphInvariant, PTL

(* The edges of evoca to the winners, as far as they were propagated.       *)
Evoking(winners) ==
  {e \in Evocations : \E i \in 1 .. Len(winners) : e \in Range(contributions[winners[i]])}

(* The place where c was entered first.                                     *)
LEMMA PlaceIsFirst ==
  ASSUME NEW S, NEW entered \in Seq(S), NEW c \in Range(entered)
  PROVE  Place(c, entered) \in 1 .. Len(entered) /\ entered[Place(c, entered)] = c
  <1> DEFINE T == {i \in DOMAIN entered : entered[i] = c}
  <1>1. DOMAIN entered = 1 .. Len(entered) /\ Len(entered) \in Nat
    BY LenProperties
  <1>2. T \in SUBSET Nat /\ T # {}
    BY <1>1 DEF Range
  <1> HIDE DEF T
  <1>3. \E i \in T : \A j \in T : i <= j
    BY <1>2, LeastMember
  <1>4. Min(T) \in T
    BY <1>3 DEF Min
  <1>5. QED
    BY <1>1, <1>4 DEF Place, T

(* The main amenities evoke a winner, and there are some if any does.       *)
LEMMA MainEvokes ==
  ASSUME TypeOK, NEW winners \in Seq(Targets)
  PROVE  /\ Main(winners) \in Seq({e.origin : e \in Evoking(winners)})
         /\ Main(winners) = <<>> <=> Evoking(winners) = {}
  <1> DEFINE parts == [i \in DOMAIN winners |-> Only(contributions[winners[i]], Evocations)]
             evoking == FlattenSeq(parts)
             entered == [i \in DOMAIN evoking |-> evoking[i].origin]
             weights(c) == {e.weight : e \in {f \in Range(evoking) : f.origin = c}}
             key == [c \in Range(entered) |-> <<Max(weights(c)), -Place(c, entered)>>]
  <1>1. /\ DOMAIN winners = 1 .. Len(winners) /\ Len(winners) \in Nat
        /\ \A i \in 1 .. Len(winners) : contributions[winners[i]] \in Seq(Edges)
    BY LenProperties DEF TypeOK
  <1>2. \A i \in 1 .. Len(winners) :
          /\ parts[i] \in Seq(Edges)
          /\ Range(parts[i]) = Range(contributions[winners[i]]) \cap Evocations
    BY <1>1, OnlyRange
  <1>3. parts \in [1 .. Len(winners) -> Seq(Edges)]
    BY <1>1, <1>2
  <1>4. Main(winners) = Best(key, 2)
    BY DEF Main
  <1> HIDE DEF parts
  <1>5. parts \in Seq(Seq(Edges)) /\ Len(parts) = Len(winners)
    BY <1>1, <1>3, LenProperties
  <1>6. evoking \in Seq(Edges) /\ Range(evoking) = Evoking(winners)
    <2>1. evoking \in Seq(Edges)
      BY <1>5, FlattenType
    <2>2. Range(evoking) = UNION {Range(parts[i]) : i \in 1 .. Len(parts)}
      BY <1>5, FlattenRange
    <2>3. UNION {Range(parts[i]) : i \in 1 .. Len(winners)} = Evoking(winners)
      BY <1>2 DEF Evoking
    <2>4. QED
      BY <1>5, <2>1, <2>2, <2>3
  <1> HIDE DEF evoking
  <1>7. /\ entered \in Seq({e.origin : e \in Range(evoking)})
        /\ Range(entered) = {e.origin : e \in Range(evoking)}
        /\ DOMAIN entered = 1 .. Len(evoking) /\ Len(evoking) \in Nat
    <2>1. DOMAIN evoking = 1 .. Len(evoking) /\ Len(evoking) \in Nat
      BY <1>6, LenProperties
    <2>2. Range(evoking) = {evoking[i] : i \in 1 .. Len(evoking)}
      BY <2>1 DEF Range
    <2>3. entered \in [1 .. Len(evoking) -> {e.origin : e \in Range(evoking)}]
      BY <2>1, <2>2
    <2>4. Range(entered) = {evoking[i].origin : i \in 1 .. Len(evoking)}
      BY <2>1 DEF Range
    <2>5. {evoking[i].origin : i \in 1 .. Len(evoking)} = {e.origin : e \in Range(evoking)}
      BY <2>2
    <2> HIDE DEF entered
    <2>6. entered \in Seq({e.origin : e \in Range(evoking)})
      BY <2>1, <2>3
    <2>7. QED
      BY <2>1, <2>3, <2>4, <2>5, <2>6
  <1>8. \A c \in Range(entered) : Max(weights(c)) \in Int
    <2> SUFFICES ASSUME NEW c \in Range(entered) PROVE Max(weights(c)) \in Int
      OBVIOUS
    <2>1. Range(evoking) \subseteq Edges
      BY <1>6 DEF Evoking, Evocations
    <2>2. weights(c) \subseteq {0, 3, 6, 8, 9}
      BY <2>1, DomainAssumption DEF WellFormedDomain, Weights
    <2>3. weights(c) # {}
      BY <1>7
    <2> HIDE DEF weights
    <2>4. Max(weights(c)) \in weights(c)
      BY <2>2, <2>3, MaxOfWeights
    <2>5. QED
      BY <2>2, <2>4
  <1> HIDE DEF entered
  <1>9. \A c \in Range(entered) : Place(c, entered) \in Int /\ entered[Place(c, entered)] = c
    BY <1>7, PlaceIsFirst
  <1>10. IsFiniteSet(Range(entered))
    <2>1. IsFiniteSet(1 .. Len(evoking))
      <3>1. 1 \in Int /\ Len(evoking) \in Int
        BY <1>7
      <3>2. QED
        BY <3>1, FS_Interval
    <2>2. entered \in Surjection(1 .. Len(evoking), Range(entered))
      BY <1>7 DEF Surjection, Range
    <2>3. QED
      BY <2>1, <2>2, FS_Surjection
  <1>11. /\ DOMAIN key = Range(entered)
         /\ \A c \in Range(entered) : key[c] = <<Max(weights(c)), -Place(c, entered)>>
    OBVIOUS
  <1> HIDE DEF key, weights
  <1>12. IsStrictOrder(key)
    <2>1. \A c \in DOMAIN key : DOMAIN key[c] = 1 .. 2 /\ \A i \in 1 .. 2 : key[c][i] \in Int
      BY <1>8, <1>9, <1>11
    <2>2. \A c \in DOMAIN key : key[c][2] = -Place(c, entered)
      BY <1>11
    <2>3. \A c, d \in DOMAIN key : c # d => key[c][2] # key[d][2]
      BY <1>9, <1>11, <2>2
    <2>4. 2 \in Nat /\ 2 \in 1 .. 2
      OBVIOUS
    <2>5. QED
      BY <2>1, <2>3, <2>4, KeysAreOrdered
  <1>13. AreFirst(Main(winners), key, 2)
    <2>1. 2 \in Nat
      OBVIOUS
    <2>2. QED
      BY <1>4, <1>10, <1>11, <1>12, <2>1, BestAreFirst
  <1> DEFINE n == Cardinality(Range(entered))
             m == Min({2, n})
  <1>14. n \in Nat /\ (n = 0 <=> Range(entered) = {})
    BY <1>10, FS_CardinalityType, FS_EmptySet
  <1>15. m \in Nat /\ (m = 0 <=> n = 0)
    BY <1>14 DEF Min
  <1>16. Main(winners) \in [1 .. m -> Range(entered)]
    BY <1>11, <1>13 DEF AreFirst
  <1> HIDE DEF n, m
  <1>17. Main(winners) \in Seq(Range(entered)) /\ Len(Main(winners)) = m
    BY <1>15, <1>16, LenProperties
  <1>18. Main(winners) = <<>> <=> m = 0
    BY <1>17, EmptySeq
  <1>19. Evoking(winners) = {} <=> Range(entered) = {}
    BY <1>6, <1>7
  <1>20. QED
    BY <1>6, <1>7, <1>14, <1>15, <1>17, <1>18, <1>19

(* At the end the edges that evoke a winner are those of the amenities the  *)
(* listing names.                                                           *)
LEMMA KnownEvoke ==
  ASSUME Inv, decision # None
  PROVE  /\ Winners \in Seq(Range(Themes))
         /\ Evoking(Winners) = {e \in Edges : /\ e.origin \in Range(Keys(draft))
                                              /\ e.target \in Range(Winners)}
  <1>1. /\ TypeOK /\ ContributedSoFar /\ propagated = Len(Active(draft))
        /\ draft \in Drafts
    BY DEF Inv, DecidedAtTheEnd, TypeOK
  <1>2. ActiveSoFar = Range(Active(draft))
    <2>1. DOMAIN Active(draft) = 1 .. Len(Active(draft))
      BY <1>1, ActiveType
    <2>2. QED
      BY <1>1, <2>1 DEF ActiveSoFar, Range
  <1>3. Winners \in Seq(Range(Themes))
    <2> DEFINE m == Min({K, Cardinality(Eligible)})
    <2>1. Eligible \in SUBSET Range(Themes)
      BY DEF Eligible
    <2>2. IsFiniteSet(Eligible) /\ DOMAIN Rank(Eligible, Themes) = Eligible
      BY <1>1, <2>1, RankOrders
    <2>3. m \in Nat
      <3>1. Cardinality(Eligible) \in Nat /\ K \in Nat
        BY <2>2, FS_CardinalityType DEF K
      <3>2. QED
        BY <3>1 DEF Min
    <2>4. Winners \in [1 .. m -> Eligible]
      BY <1>1, <2>2, WinnersAreFirst DEF AreFirst
    <2> HIDE DEF m
    <2>5. Winners \in [1 .. m -> Range(Themes)]
      BY <2>1, <2>4
    <2>6. QED
      BY <2>3, <2>5
  <1>4. DOMAIN Winners = 1 .. Len(Winners) /\ \A i \in 1 .. Len(Winners) : Winners[i] \in Targets
    BY <1>3, LenProperties DEF Targets
  <1>5. Range(Winners) = {Winners[i] : i \in 1 .. Len(Winners)}
    BY <1>4 DEF Range
  <1>6. \A e \in Edges :
          e.relation = "evoca" /\ e.origin \in Range(Active(draft)) <=>
          e.origin \in Range(Keys(draft))
    <2> DEFINE keys == Range(Keys(draft))
               active == Range(Active(draft))
    <2>1. active \subseteq Sources \cup {None} \cup keys /\ keys \subseteq active
      BY <1>1, ActiveType
    <2>2. keys \cap Sources = {}
      <3>1. Keys(draft) \in Seq(Range(Alias))
        BY <1>1, KeysType
      <3>2. keys \subseteq Range(Alias)
        BY <3>1, RangeOfSeq
      <3>3. QED
        BY <3>2, PrefixAssumption
    <2>3. \A e \in Edges : e.origin # None /\ (e.relation # "evoca" <=> e.origin \in Sources)
      BY DomainAssumption DEF WellFormedDomain
    <2> HIDE DEF keys, active
    <2>4. \A e \in Edges : e.relation = "evoca" /\ e.origin \in active <=> e.origin \in keys
      BY <2>1, <2>2, <2>3
    <2>5. QED
      BY <2>4 DEF keys, active
  <1>7. \A i \in 1 .. Len(Winners) : Range(contributions[Winners[i]]) =
          {e \in Edges : e.target = Winners[i] /\ e.origin \in Range(Active(draft))}
    BY <1>1, <1>2, <1>4 DEF ContributedSoFar
  <1>8. Evoking(Winners) = {e \in Edges : /\ e.origin \in Range(Keys(draft))
                                          /\ e.target \in Range(Winners)}
    BY <1>5, <1>6, <1>7 DEF Evoking, Evocations
  <1>9. QED
    BY <1>3, <1>8

(* The LLM is told the amenities of the listing and no others, though it    *)
(* hears of two lists, cut from the edges that evoke the winners: those     *)
(* without an alias always, the others all or none.                         *)
THEOREM EveryAmenityIsTold == Spec => []AmenitiesTold
  <1>1. Inv => AmenitiesTold
    <2> SUFFICES ASSUME Inv, summary # None PROVE AmenitiesTold
      BY DEF AmenitiesTold
    <2> DEFINE main == Main(Winners)
               secondary == Secondary(draft, main)
               known == Range(Keys(draft))
    <2>1. /\ TypeOK /\ decision # None /\ draft \in Drafts
          /\ summary.themes = Winners
          /\ summary.mentions = Range(Unknown(draft)) \cup
                                IF main = <<>> THEN {} ELSE Range(main \o secondary)
      BY DEF Inv, SummaryTellsIt, TypeOK
    <2>2. /\ Winners \in Seq(Targets)
          /\ Evoking(Winners) = {e \in Edges : e.origin \in known /\ e.target \in Range(Winners)}
      <3>1. Range(Themes) \subseteq Targets
        BY DEF Targets
      <3>2. QED
        BY <2>1, <3>1, KnownEvoke, SeqMonotonic
    <2>3. /\ main \in Seq({e.origin : e \in Evoking(Winners)})
          /\ main = <<>> <=> Evoking(Winners) = {}
      BY <2>1, <2>2, MainEvokes
    <2> HIDE DEF main
    <2>4. Range(main) \subseteq known
      <3>1. Range(main) \subseteq {e.origin : e \in Evoking(Winners)}
        BY <2>3, RangeOfSeq
      <3>2. QED
        BY <2>2, <3>1
    <2>5. /\ Keys(draft) \in Seq(Range(Alias)) /\ known \subseteq Range(Alias)
          /\ secondary \in Seq(Range(Alias)) /\ Range(secondary) = known \ Range(main)
      <3>1. Keys(draft) \in Seq(Range(Alias))
        BY <2>1, KeysType
      <3>2. known \subseteq Range(Alias)
        BY <3>1, RangeOfSeq
      <3>3. /\ secondary \in Seq(Range(Alias))
            /\ Range(secondary) = known \cap (Range(Alias) \ Range(main))
        BY <3>1, OnlyRange DEF Secondary
      <3>4. QED
        BY <3>1, <3>2, <3>3
    <2> HIDE DEF secondary
    <2>6. Range(main \o secondary) = known
      <3>1. main \in Seq(Range(Alias))
        <4>1. {e.origin : e \in Evoking(Winners)} \subseteq Range(Alias)
          BY <2>2, <2>5
        <4>2. QED
          BY <2>3, <4>1, SeqMonotonic
      <3>2. Range(main \o secondary) = Range(main) \cup Range(secondary)
        BY <2>5, <3>1, RangeConcatenation
      <3>3. QED
        BY <2>4, <2>5, <3>2
    <2>7. main = <<>> <=> ~\E e \in Edges : e.origin \in known /\ e.target \in Range(summary.themes)
      BY <2>1, <2>2, <2>3
    <2>8. QED
      BY <2>1, <2>6, <2>7 DEF AmenitiesTold
  <1>2. QED
    BY <1>1, GraphInvariant, PTL

-----------------------------------------------------------------------------
(* The rounding *)

(* The double <<t, e>> in units of 2^-54 / 10, and the lexicographic order. *)
Value(x) == x[1] * 18014398509481984 + x[2]

Greater(x, y) == x[1] > y[1] \/ (x[1] = y[1] /\ x[2] > y[2])

(* A contribution is 3 at least, and adds an error of 88 at most.           *)
ErrorsStaySmall ==
  \A t \in Targets : -30 * scores[t][1] <= scores[t][2] /\ scores[t][2] <= 30 * scores[t][1]

LEMMA Remainder ==
  \A a \in Int, n \in {10, 20, 40, 80, 160} : a % n \in Int /\ 0 <= a % n /\ a % n < n
  <1>1. \A a \in Int : a % 10 \in 0 .. 9
    OBVIOUS
  <1>2. \A a \in Int : a % 20 \in 0 .. 19
    OBVIOUS
  <1>3. \A a \in Int : a % 40 \in 0 .. 39
    OBVIOUS
  <1>4. \A a \in Int : a % 80 \in 0 .. 79
    OBVIOUS
  <1>5. \A a \in Int : a % 160 \in 0 .. 159
    OBVIOUS
  <1>6. QED
    BY <1>1, <1>2, <1>3, <1>4, <1>5

(* Rounding moves a sum by half the distance of the doubles at most.        *)
LEMMA PlusError ==
  ASSUME NEW x \in Int \X Int, NEW y \in Int \X Int
  PROVE  /\ x[2] + y[2] - 80 <= Plus(x, y)[2]
         /\ Plus(x, y)[2] <= x[2] + y[2] + 80
  <1> DEFINE z    == <<x[1] + y[1], x[2] + y[2]>>
             grid == 10 * Spacing(z)
             over == (z[1] * Residue + z[2]) % grid
             below == z[2] - over
             rest == 2 * (z[2] - below)
  <1>1. z[1] \in Int /\ z[2] \in Int /\ z[2] = x[2] + y[2]
    OBVIOUS
  <1>2. Plus(x, y) = Round(z)
    BY DEF Plus
  <1> HIDE DEF z
  <1>3. grid \in {10, 20, 40, 80, 160}
    BY DEF Spacing
  <1>4. z[1] * Residue + z[2] \in Int
    BY <1>1 DEF Residue
  <1>5. over \in Int /\ 0 <= over /\ over < grid
    <2> HIDE DEF grid
    <2>1. QED
      BY <1>3, <1>4, Remainder
  <1>6. \/ Round(z)[2] = below /\ rest <= grid
        \/ Round(z)[2] = below + grid /\ rest >= grid
    <2> DEFINE even == (z[1] * Residue + below) % (2 * grid) = 0
    <2>1. Round(z)[2] = IF rest < grid \/ (rest = grid /\ even) THEN below ELSE below + grid
      BY DEF Round
    <2>2. rest \in Int /\ grid \in Int
      BY <1>1, <1>3, <1>5
    <2> HIDE DEF even, rest, below, grid, over
    <2>3. QED
      BY <2>1, <2>2
  <1> HIDE DEF over, grid
  <1>7. QED
    BY <1>1, <1>2, <1>3, <1>5, <1>6

LEMMA DoubleError ==
  \A weight \in Weights : Double(weight)[2] \in Int /\ -8 <= Double(weight)[2]
                          /\ Double(weight)[2] <= 8
  BY DEF Double, Weights

LEMMA TenthsDecide ==
  ASSUME NEW m \in Int, NEW e \in Int, NEW n \in Int, NEW f \in Int,
         -2400 <= e, e <= 2400, -2400 <= f, f <= 2400
  PROVE  (m > n \/ (m = n /\ e > f)) <=>
           m * 18014398509481984 + e > n * 18014398509481984 + f
  BY SMT

LEMMA PropagateErrors == Inv /\ ErrorsStaySmall /\ Propagate => ErrorsStaySmall'
  <1> SUFFICES ASSUME Inv, ErrorsStaySmall, Propagate, NEW t \in Targets
               PROVE  /\ -30 * scores'[t][1] <= scores'[t][2]
                      /\ scores'[t][2] <= 30 * scores'[t][1]
    BY DEF ErrorsStaySmall
  <1> DEFINE origin  == Active(draft)[propagated + 1]
             edges   == EdgesFrom(origin)
             reached == {edge.target : edge \in edges}
             to(u)   == CHOOSE edge \in edges : edge.target = u
  <1>1. scores'[t] = IF t \in reached THEN Plus(scores[t], Double(to(t).weight))
                                      ELSE scores[t]
    BY DEF Propagate
  <1>2. t \in reached => to(t).weight \in Weights
    BY EdgeTo
  <1> HIDE DEF reached, to
  <1>3. /\ scores[t] \in Int \X Int /\ scores[t][1] \in Int /\ scores[t][2] \in Int
        /\ -30 * scores[t][1] <= scores[t][2] /\ scores[t][2] <= 30 * scores[t][1]
    BY DEF Inv, TypeOK, ErrorsStaySmall
  <1>4. CASE t \in reached
    <2> DEFINE d == Double(to(t).weight)
    <2>1. /\ d \in Int \X Int /\ d[1] \in {3, 6, 8, 9}
          /\ d[2] \in Int /\ -8 <= d[2] /\ d[2] <= 8
      BY <1>2, <1>4, DoubleType, DoubleError DEF Weights
    <2> HIDE DEF d
    <2>2. /\ scores'[t][1] = scores[t][1] + d[1]
          /\ scores'[t] \in Int \X Int /\ scores'[t][2] \in Int
          /\ scores[t][2] + d[2] - 80 <= scores'[t][2]
          /\ scores'[t][2] <= scores[t][2] + d[2] + 80
      <3>1. scores'[t] = Plus(scores[t], d)
        BY <1>1, <1>4 DEF d
      <3>2. /\ Plus(scores[t], d) \in Int \X Int
            /\ Plus(scores[t], d)[1] = scores[t][1] + d[1]
        BY <1>3, <2>1, PlusType
      <3>3. /\ scores[t][2] + d[2] - 80 <= Plus(scores[t], d)[2]
            /\ Plus(scores[t], d)[2] <= scores[t][2] + d[2] + 80
        BY <1>3, <2>1, PlusError
      <3>4. QED
        BY <3>1, <3>2, <3>3
    <2>3. QED
      BY <1>3, <2>1, <2>2
  <1>5. CASE t \notin reached
    BY <1>1, <1>3, <1>5
  <1>6. QED
    BY <1>4, <1>5

(* Where Spacing is the distance of the doubles, the order of the scores    *)
(* the ranking and the tests use is the order of the doubles they stand     *)
(* for: the error of a sum never reaches a tenth.                           *)
THEOREM ScoresCompareAsDoubles ==
  Spec => [](\A a, b \in Targets :
               scores[a][1] < 80 /\ scores[b][1] < 80 =>
                 /\ Greater(scores[a], scores[b]) <=> Value(scores[a]) > Value(scores[b])
                 /\ AtLeast(scores[a], Threshold) <=>
                      Value(scores[a]) >= Value(<<Threshold, 0>>)
                 /\ scores[a][1] > 0 <=> Value(scores[a]) > 0)
  <1> DEFINE AsDoubles ==
        \A a, b \in Targets :
          scores[a][1] < 80 /\ scores[b][1] < 80 =>
            /\ Greater(scores[a], scores[b]) <=> Value(scores[a]) > Value(scores[b])
            /\ AtLeast(scores[a], Threshold) <=> Value(scores[a]) >= Value(<<Threshold, 0>>)
            /\ scores[a][1] > 0 <=> Value(scores[a]) > 0
  <1>1. Init => ErrorsStaySmall
    BY DEF Init, ErrorsStaySmall, Zero
  <1>2. Inv /\ ErrorsStaySmall /\ [Next]_vars => ErrorsStaySmall'
    <2> SUFFICES ASSUME Inv, ErrorsStaySmall, [Next]_vars PROVE ErrorsStaySmall'
      OBVIOUS
    <2>1. CASE Propagate
      BY <2>1, PropagateErrors
    <2>2. CASE UNCHANGED scores
      BY <2>2 DEF ErrorsStaySmall
    <2>3. QED
      BY <2>1, <2>2 DEF Next, Select, BuildSummary, vars
  <1>3. Inv /\ ErrorsStaySmall => AsDoubles
    <2> SUFFICES ASSUME Inv, ErrorsStaySmall, NEW a \in Targets, NEW b \in Targets,
                        scores[a][1] < 80, scores[b][1] < 80
                 PROVE  /\ Greater(scores[a], scores[b]) <=> Value(scores[a]) > Value(scores[b])
                        /\ AtLeast(scores[a], Threshold) <=>
                             Value(scores[a]) >= Value(<<Threshold, 0>>)
                        /\ scores[a][1] > 0 <=> Value(scores[a]) > 0
      OBVIOUS
    <2>1. \A t \in {a, b} :
            /\ scores[t][1] \in Int /\ scores[t][2] \in Int
            /\ scores[t][1] \in {0, 3} \/ scores[t][1] >= 6
            /\ -30 * scores[t][1] <= scores[t][2] /\ scores[t][2] <= 30 * scores[t][1]
      BY DEF Inv, TypeOK, ScoresAddUp, ErrorsStaySmall
    <2>2. Greater(scores[a], scores[b]) <=> Value(scores[a]) > Value(scores[b])
      <3>1. /\ scores[a][1] \in Int /\ scores[a][2] \in Int /\ scores[b][1] \in Int
            /\ scores[b][2] \in Int /\ -2400 <= scores[a][2] /\ scores[a][2] <= 2400
            /\ -2400 <= scores[b][2] /\ scores[b][2] <= 2400
        BY <2>1
      <3>2. QED
        BY <3>1, TenthsDecide, SMT DEF Greater, Value
    <2>3. AtLeast(scores[a], 5) <=> Value(scores[a]) >= 5 * 18014398509481984
      BY <2>1, SMT DEF AtLeast, Value
    <2>4. Value(<<5, 0>>) = 5 * 18014398509481984
      BY SMT DEF Value
    <2>5. scores[a][1] > 0 <=> Value(scores[a]) > 0
      BY <2>1, SMT DEF Value
    <2>6. QED
      BY <2>2, <2>3, <2>4, <2>5, SMT DEF Threshold
  <1>4. Spec => []Inv
    BY GraphInvariant
  <1> HIDE DEF AsDoubles
  <1>5. Spec => []AsDoubles
    BY <1>1, <1>2, <1>3, <1>4, PTL DEF Spec
  <1>6. QED
    BY <1>5 DEF AsDoubles
=============================================================================
