---------------------------- MODULE GraphInference ----------------------------
(****************************************************************************)
(* What llm_local_service decides of a listing before the LLM writes it:    *)
(* graph_inference.py scores the themes and audiences the draft activates,  *)
(* and summary_builder.py tells the LLM the decision, the only thing it     *)
(* sees.  One behaviour is one generation; the service keeps nothing.       *)
(*                                                                          *)
(* Weights are given in tenths.  Scores are sums of floats, in the order in *)
(* which the draft lists its amenities, and are modelled with their         *)
(* rounding: the double <<t, e>> is (t * 2^54 + e) / (10 * 2^54), so t is   *)
(* the exact score in tenths and e the error the additions left.            *)
(****************************************************************************)
EXTENDS Integers, FiniteSets, SequencesExt

CONSTANTS
  Edges,          (* weighted edges: [origin, target, weight, relation] *)
  Blocks,         (* the edges of bloqueos.csv: [origin, target] *)
  Themes,         (* domain.themes: the keys, in the order of the catalogue *)
  Audiences,      (* domain.audiences, likewise *)
  Types,          (* domain.property_types *)
  Alias,          (* domain.alias_to_amenity: names to amenities *)
  Homes,          (* drafts without operation, type and amenities *)
  TypeNames,      (* the property types drafts name *)
  Names,          (* the amenities drafts list *)
  MaxAmenities,   (* bound: how many of them *)
  None

K         == 2    (* infer's k *)
Threshold == 5    (* infer's threshold, in tenths *)

Relations == {"evoca", "prior", "sugiere"}
Weights   == {3, 6, 8, 9}

BucketNames ==
  {"a_estrenar", "construccion_reciente", "con_historia", "area_amplia", "area_compacta",
   "rec_4_mas", "rec_2_3", "rec_1", "en_condominio", "sin_estacionamiento"}

(* What is not an amenity: the code writes "src:" before these, and "am:"   *)
(* before the amenities, so none is taken for the other.                    *)
Sources == Types \cup BucketNames \cup {"RENTA", "VENTA"}

(* What load_domain() refuses to start without, and the scale of the CSVs   *)
(* it loads: it checks evoca against it, and priors against MAX_PRIOR.      *)
WellFormedDomain ==
  /\ \A edge \in Edges :
       /\ edge.relation \in Relations /\ edge.weight \in Weights
       /\ edge.relation = "evoca" => edge.weight # 8
       /\ edge.relation = "prior" => edge.weight <= 8
       /\ edge.relation # "evoca" <=> edge.origin \in Sources
       /\ edge.target \in IF edge.relation = "sugiere" THEN Range(Audiences)
                                                       ELSE Range(Themes)
  /\ \A block \in Blocks : block.target \in Range(Themes)
  /\ \A edge \in Edges \cup Blocks : edge.origin # None
  /\ \A e1, e2 \in Edges : e1.origin = e2.origin /\ e1.target = e2.target => e1 = e2
ASSUME DomainAssumption == WellFormedDomain
ASSUME DraftAssumption ==
  /\ Homes \subseteq [age : Nat, area : Nat, bedrooms : Nat, condominium : BOOLEAN,
                     parking : Nat, rent : BOOLEAN, type : TypeNames, amenities : {<<>>}]
  /\ MaxAmenities \in Nat
ASSUME PrefixAssumption == Range(Alias) \cap Sources = {}
ASSUME CatalogueAssumption ==
  /\ \A list \in {Themes, Audiences} :
       list \in Seq(Range(list)) /\ IsInjective(list) /\ None \notin Range(list)
  /\ Audiences # <<>>

VARIABLES
  draft,          (* the listing *)
  propagated,     (* how many of its active sources are propagated *)
  scores,         (* scores[t]: the sum of what contributes to t *)
  contributions,  (* contributions[t]: the edges to t, as they were added up *)
  blocked,        (* the themes some source blocks *)
  decision,       (* infer()'s Decision, or None *)
  summary         (* build_summary()'s message, or None *)

vars == <<draft, propagated, scores, contributions, blocked, decision, summary>>

Targets == Range(Themes) \cup Range(Audiences)

-----------------------------------------------------------------------------
(* Floats *)

Zero == <<0, 0>>

(* The doubles nearest to 0.3, 0.6, 0.8 and 0.9.                            *)
Double(weight) ==
  <<weight, CASE weight = 3 -> -2 [] weight = 6 -> -4 [] weight = 8 -> 8
              [] weight = 9 -> 4 [] OTHER -> 0>>

AtLeast(x, t) == x[1] > t \/ (x[1] = t /\ x[2] >= 0)

(* The distance of the doubles around x, from 0.25 to 8, in units of 2^-54. *)
Spacing(x) == CASE AtLeast(x, 40) -> 16 [] AtLeast(x, 20) -> 8
                [] AtLeast(x, 10) -> 4 [] AtLeast(x, 5) -> 2 [] OTHER -> 1

Residue == 64  (* 2^54 % 320: enough, since 320 = 20 * the largest spacing *)

(* Round half to even: the error e' nearest to x's that makes a double.     *)
Round(x) ==
  LET grid  == 10 * Spacing(x)
      below == x[2] - ((x[1] * Residue + x[2]) % grid)
      even  == (x[1] * Residue + below) % (2 * grid) = 0
      rest  == 2 * (x[2] - below)
  IN  <<x[1], IF rest < grid \/ (rest = grid /\ even) THEN below ELSE below + grid>>

Plus(x, y) == Round(<<x[1] + y[1], x[2] + y[2]>>)

-----------------------------------------------------------------------------
(* graph_inference.py *)

When(condition, item) == IF condition THEN <<item>> ELSE <<>>

(* buckets_for(): each end of each interval as the code draws it.           *)
Buckets(d) ==
  When(d.age <= 1, "a_estrenar") \o
  When(d.age > 1 /\ d.age <= 10, "construccion_reciente") \o
  When(d.age > 30, "con_historia") \o
  When(d.area >= 180, "area_amplia") \o
  When(d.area <= 50, "area_compacta") \o
  When(d.bedrooms >= 4, "rec_4_mas") \o
  When(d.bedrooms \in 2 .. 3, "rec_2_3") \o
  When(d.bedrooms = 1, "rec_1") \o
  When(d.condominium, "en_condominio") \o
  When(d.parking = 0, "sin_estacionamiento")

(* The buckets BUCKET_FACTS has a text for.                                 *)
FactBuckets == {"a_estrenar", "construccion_reciente", "con_historia", "area_amplia",
                "area_compacta", "en_condominio", "sin_estacionamiento"}

Operation(d) == IF d.rent THEN "RENTA" ELSE "VENTA"

(* [x for x in s if x in set]                                               *)
Only(s, set) == FlattenSeq([i \in DOMAIN s |-> When(s[i] \in set, s[i])])

Known(d)   == Only(d.amenities, DOMAIN Alias)
Unknown(d) == Only(d.amenities, Names \ DOMAIN Alias)

(* The amenities of the draft by their keys, an amenity listed twice twice. *)
Keys(d) == [i \in DOMAIN Known(d) |-> Alias[Known(d)[i]]]

(* _activate(): the source nodes, in the order of the propagation.  None     *)
(* stands for an amenity without an alias: nothing leaves it.               *)
Active(d) ==
  <<Operation(d)>> \o When(d.type \in Types, d.type) \o Buckets(d) \o
  [i \in DOMAIN d.amenities |->
     IF d.amenities[i] \in DOMAIN Alias THEN Alias[d.amenities[i]] ELSE None]

(* edges_from(), by the index that Domain keeps.                            *)
ByOrigin == [origin \in {edge.origin : edge \in Edges} |->
               {edge \in Edges : edge.origin = origin}]

EdgesFrom(origin) == IF origin \in DOMAIN ByOrigin THEN ByOrigin[origin] ELSE {}

(* A faulty variant: the blocks of the buckets are not looked up.           *)
BlockedByType(origin) ==
  {block.target : block \in {b \in Blocks : b.origin = origin /\
                                            origin \notin Range(Buckets(draft))}}

BlockedBy(origin) == {block.target : block \in {b \in Blocks : b.origin = origin}}

MaxContribution(target) == Max({0} \cup {edge.weight : edge \in Range(contributions[target])})

(* a comes before b: the greater key, from its first member on.             *)
Before(key, a, b) ==
  \E i \in DOMAIN key[a] :
    key[a][i] > key[b][i] /\ \A j \in 1 .. i - 1 : key[a][j] = key[b][j]

Ahead(key, x) == {y \in DOMAIN key : Before(key, y, x)}

(* The first n members of key's domain: sorted(...)[:n].                    *)
Best(key, n) ==
  [i \in 1 .. Min({n, Cardinality(DOMAIN key)}) |->
     CHOOSE x \in DOMAIN key : Cardinality(Ahead(key, x)) = i - 1]

(* index()                                                                  *)
Place(x, list) == Min({i \in DOMAIN list : list[i] = x})

(* A faulty variant: the greatest contribution counts before the score.     *)
RankByContribution(set, catalogue) ==
  [x \in set |-> <<MaxContribution(x), scores[x][1], scores[x][2], -Place(x, catalogue)>>]

(* Score, then greatest contribution, then the order of the catalogue.      *)
Rank(set, catalogue) ==
  [x \in set |-> <<scores[x][1], scores[x][2], MaxContribution(x), -Place(x, catalogue)>>]

Eligible == {t \in Range(Themes) \ blocked : AtLeast(scores[t], Threshold)}

Winners == Best(Rank(Eligible, Themes), K)

Audience ==
  LET first == Best(Rank(Range(Audiences), Audiences), 1)[1]
  IN  IF scores[first][1] > 0 THEN first ELSE None

Evocations == {edge \in Edges : edge.relation = "evoca"}

(* main_amenities: the two with the heaviest edge to a winner; of equals,   *)
(* the one that was entered first, winner by winner, edge by edge.          *)
Main(winners) ==
  LET evoking == FlattenSeq([i \in DOMAIN winners |->
                   Only(contributions[winners[i]], Evocations)])
      entered == [i \in DOMAIN evoking |-> evoking[i].origin]
      weights(c) == {e.weight : e \in {f \in Range(evoking) : f.origin = c}}
  IN  Best([c \in Range(entered) |-> <<Max(weights(c)), -Place(c, entered)>>], 2)

(* A faulty variant: what evokes no winner is not mentioned.                *)
SecondaryEvokes(d, main) ==
  LET evoking == {e.origin : e \in {f \in Edges : f.target \in Range(Winners)}}
  IN  Only(Keys(d), evoking \ Range(main))

Secondary(d, main) == Only(Keys(d), Range(Alias) \ Range(main))

(* What infer() returns.                                                    *)
Decision ==
  LET main == Main(Winners)
  IN  [themes    |-> Winners,
       audience  |-> Audience,
       main      |-> main,
       secondary |-> Secondary(draft, main),
       unknown   |-> Unknown(draft),
       facts     |-> Only(Buckets(draft), FactBuckets)]

-----------------------------------------------------------------------------
Lists == UNION {[1 .. n -> Names] : n \in 0 .. MaxAmenities}

Draft(home, rent, type, list) ==
  [home EXCEPT !.rent = rent, !.type = type, !.amenities = list]

Drafts ==
  {Draft(home, rent, type, list) :
     home \in Homes, rent \in BOOLEAN, type \in TypeNames, list \in Lists}

Init ==
  /\ draft \in Drafts
  /\ propagated = 0
  /\ scores = [t \in Targets |-> Zero]
  /\ contributions = [t \in Targets |-> <<>>]
  /\ blocked = {}
  /\ decision = None
  /\ summary = None

(* infer(), its loop: one active source, along all its edges.  The weight   *)
(* of -10 of a block is left out of scores: the test for a block alone      *)
(* disqualifies a theme.                                                    *)
Propagate ==
  /\ propagated < Len(Active(draft))
  /\ propagated' = propagated + 1
  /\ LET origin  == Active(draft)[propagated + 1]
         edges   == EdgesFrom(origin)
         reached == {edge.target : edge \in edges}
         to(t)   == CHOOSE edge \in edges : edge.target = t
     IN  /\ scores' = [t \in Targets |->
                         IF t \in reached THEN Plus(scores[t], Double(to(t).weight))
                                          ELSE scores[t]]
         /\ contributions' = [t \in Targets |->
                                IF t \in reached THEN Append(contributions[t], to(t))
                                                 ELSE contributions[t]]
         /\ blocked' = blocked \cup BlockedBy(origin)
  /\ UNCHANGED <<draft, decision, summary>>

(* infer(), from its ranking on.                                            *)
Select ==
  /\ propagated = Len(Active(draft))
  /\ decision = None
  /\ decision' = Decision
  /\ UNCHANGED <<draft, propagated, scores, contributions, blocked, summary>>

(* build_summary(): what it says, not how.  The secondary amenities stand   *)
(* in the line of the main ones and go with it.                             *)
BuildSummary ==
  /\ decision # None
  /\ summary = None
  /\ summary' = [type |-> IF draft.type \in Types THEN draft.type ELSE None,
                 operation |-> Operation(draft),
                 audience  |-> decision.audience,
                 themes    |-> decision.themes,
                 mentions  |-> Range(decision.unknown) \cup
                               IF decision.main = <<>> THEN {}
                               ELSE Range(decision.main \o decision.secondary),
                 facts     |-> decision.facts]
  /\ UNCHANGED <<draft, propagated, scores, contributions, blocked, decision>>

Next == Propagate \/ Select \/ BuildSummary

Spec == Init /\ [][Next]_vars

-----------------------------------------------------------------------------
(* Properties *)

(* No draft for sale is ever told to be flexible, no old one modern: a      *)
(* blocked theme does not win, however many amenities push it.              *)
BlockedNeverWins ==
  decision # None =>
    \A block \in Blocks :
      block.origin \in Range(Active(draft)) => block.target \notin Range(decision.themes)

Total(edges) ==
  LET sum[i \in 0 .. Len(edges)] == IF i = 0 THEN 0 ELSE sum[i - 1] + edges[i].weight
  IN  sum[Len(edges)]

(* The score without rounding, in tenths.                                   *)
ExactScore(t) == Total(contributions[t])

IsBest(x, set) == \A y \in set : ExactScore(y) <= ExactScore(x)

(* The floats never decide against the weights: the winners are the themes  *)
(* that are not blocked and reach the threshold, the best first, and all of *)
(* them up to k; the audience has the best score there is, if there is any. *)
DecisionIsBest ==
  decision # None =>
    LET themes == decision.themes
        reach  == {t \in Range(Themes) \ blocked : ExactScore(t) >= Threshold}
    IN  /\ Range(themes) \subseteq reach
        /\ IsInjective(themes)
        /\ Len(themes) = Min({K, Cardinality(reach)})
        /\ \A i \in DOMAIN themes :
             IsBest(themes[i], reach \ {themes[j] : j \in 1 .. i - 1})
        /\ IF decision.audience = None
           THEN \A a \in Range(Audiences) : ExactScore(a) = 0
           ELSE IsBest(decision.audience, Range(Audiences))

(* The LLM, which must invent nothing and sees nothing else, is told the    *)
(* amenities of the draft and no others: those without an alias always, the *)
(* others all or, if none of them evokes a winner, not at all.              *)
AmenitiesTold ==
  summary # None =>
    LET known   == Range(Keys(draft))
        evoking == \E e \in Edges : e.origin \in known /\ e.target \in Range(summary.themes)
    IN  summary.mentions = Range(Unknown(draft)) \cup IF evoking THEN known ELSE {}
=============================================================================
