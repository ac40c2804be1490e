--------------------------- MODULE HealthCheckProofs ---------------------------
(***************************************************************************)
(* Proofs about HealthCheck, for any number of nodes and slots and any     *)
(* catalog: the sums that the scores are made of, what bounds the scores,  *)
(* and the invariants of the connections, the slots, the results, the      *)
(* reports and their comparison.                                           *)
(***************************************************************************)
EXTENDS HealthCheck, FiniteSetTheorems, SequenceTheorems, TLAPS

-------------------------------------------------------------------------------
(* Sums. *)

AnyOf(s) == CHOOSE x \in s : TRUE
SumsOf(F, S, g) == g = [s \in SUBSET S |-> IF s = {} THEN 0 ELSE F[AnyOf(s)] + g[s \ {AnyOf(s)}]]

\* SumFunctionOnSet() is defined by choosing the function that sums over each subset: the
\* library's theorems on such a choice take the step as a parameter, so it is done here for sums.
LEMMA SumDef ==
    ASSUME NEW F, NEW S
    PROVE  SumFunctionOnSet(F, S) = (CHOOSE g : SumsOf(F, S, g))[S]
BY Zenon DEF SumFunctionOnSet, FoldFunctionOnSet, MapThenFoldSet, SumsOf, AnyOf

\* A set that has every subset of S whose own subsets it has, has S.
LEMMA SubsetInduction ==
    ASSUME NEW S, IsFiniteSet(S), NEW Good,
           \A T \in SUBSET S : (\A U \in SUBSET T : U # T => U \in Good) => T \in Good
    PROVE  S \in Good
<1> DEFINE bad == {T \in SUBSET S : T \notin Good}
<1>1. IsWellFoundedOn(StrictSubsetOrdering(S), SUBSET S)
  BY FS_StrictSubsetOrderingWellFounded, FS_FiniteSubsetsOfFinite
<1>2. ASSUME bad # {}
      PROVE  \E T \in bad : \A U \in bad : <<U, T>> \notin StrictSubsetOrdering(S)
  <2>1. bad \subseteq SUBSET S
    OBVIOUS
  <2> HIDE DEF bad
  <2> QED
    BY <1>1, <1>2, <2>1, WFMin
<1>3. bad = {}
  <2> SUFFICES ASSUME bad # {}
               PROVE  FALSE
    OBVIOUS
  <2>1. PICK T \in bad : \A U \in bad : <<U, T>> \notin StrictSubsetOrdering(S)
    BY <1>2
  <2>2. ASSUME NEW U \in SUBSET T, U # T
        PROVE  U \in Good
    BY <2>1, <2>2 DEF StrictSubsetOrdering
  <2> QED
    BY <2>1, <2>2
<1> QED
  BY <1>3

\* The sums over the subsets of a subset are the same ones.
LEMMA SumsAgree ==
    ASSUME NEW F, NEW S, IsFiniteSet(S), NEW g, SumsOf(F, S, g),
           NEW T \in SUBSET S, NEW h, SumsOf(F, T, h)
    PROVE  g[T] = h[T]
<1> DEFINE Good == {U \in SUBSET T : g[U] = h[U]}
<1>1. IsFiniteSet(T)
  BY FS_Subset
<1>2. ASSUME NEW U \in SUBSET T, \A V \in SUBSET U : V # U => V \in Good
      PROVE  U \in Good
  <2>1. g[U] = IF U = {} THEN 0 ELSE F[AnyOf(U)] + g[U \ {AnyOf(U)}]
    BY DEF SumsOf
  <2>2. h[U] = IF U = {} THEN 0 ELSE F[AnyOf(U)] + h[U \ {AnyOf(U)}]
    BY DEF SumsOf
  <2>3. U # {} => AnyOf(U) \in U
    BY DEF AnyOf
  <2>4. U # {} => U \ {AnyOf(U)} \in Good
    BY <1>2, <2>3
  <2> QED
    BY <2>1, <2>2, <2>4
<1> HIDE DEF Good
<1>3. T \in Good
  BY <1>1, <1>2, SubsetInduction
<1> QED
  BY <1>3 DEF Good

LEMMA SumsExist ==
    ASSUME NEW F, NEW S, IsFiniteSet(S)
    PROVE  \E g : SumsOf(F, S, g)
<1> DEFINE Good == {T \in SUBSET S : \E g : SumsOf(F, T, g)}
           G(s) == CHOOSE g : SumsOf(F, s, g)
<1>1. ASSUME NEW T \in SUBSET S, \A U \in SUBSET T : U # T => U \in Good
      PROVE  T \in Good
  <2>1. \A U \in SUBSET T : U # T => SumsOf(F, U, G(U))
    BY <1>1
  <2> HIDE DEF G
  <2> DEFINE h == [s \in SUBSET T |->
                      IF s = {} THEN 0 ELSE F[AnyOf(s)] + G(s \ {AnyOf(s)})[s \ {AnyOf(s)}]]
  <2>2. ASSUME NEW s \in SUBSET T, s # {}
        PROVE  G(s \ {AnyOf(s)})[s \ {AnyOf(s)}] = h[s \ {AnyOf(s)}]
    <3> DEFINE u == s \ {AnyOf(s)}
    <3>1. AnyOf(s) \in s
      BY <2>2 DEF AnyOf
    <3>2. u \in SUBSET T /\ u # T /\ IsFiniteSet(u)
      BY <3>1, FS_Subset
    <3> HIDE DEF u
    <3>3. SumsOf(F, u, G(u))
      BY <2>1, <3>2
    <3>4. G(u)[u] = IF u = {} THEN 0 ELSE F[AnyOf(u)] + G(u)[u \ {AnyOf(u)}]
      BY <3>3 DEF SumsOf
    <3>5. u # {} => G(u)[u \ {AnyOf(u)}] = G(u \ {AnyOf(u)})[u \ {AnyOf(u)}]
      <4> SUFFICES ASSUME u # {}
                   PROVE  G(u)[u \ {AnyOf(u)}] = G(u \ {AnyOf(u)})[u \ {AnyOf(u)}]
        OBVIOUS
      <4> DEFINE v == u \ {AnyOf(u)}
      <4>1. v \in SUBSET u /\ v \in SUBSET T /\ v # T
        BY <3>2
      <4> HIDE DEF v
      <4>2. SumsOf(F, v, G(v))
        BY <2>1, <4>1
      <4>3. G(u)[v] = G(v)[v]
        BY <3>2, <3>3, <4>1, <4>2, SumsAgree
      <4> QED
        BY <4>3 DEF v
    <3>6. h[u] = IF u = {} THEN 0 ELSE F[AnyOf(u)] + G(u \ {AnyOf(u)})[u \ {AnyOf(u)}]
      BY <3>2
    <3> HIDE DEF h
    <3>7. G(u)[u] = h[u]
      BY <3>4, <3>5, <3>6
    <3> QED
      BY <3>7 DEF u
  <2>3. \A s \in SUBSET T : h[s] = IF s = {} THEN 0 ELSE F[AnyOf(s)] + h[s \ {AnyOf(s)}]
    <3> SUFFICES ASSUME NEW s \in SUBSET T
                 PROVE h[s] = IF s = {} THEN 0 ELSE F[AnyOf(s)] + h[s \ {AnyOf(s)}]
      OBVIOUS
    <3>1. h[s] = IF s = {} THEN 0 ELSE F[AnyOf(s)] + G(s \ {AnyOf(s)})[s \ {AnyOf(s)}]
      OBVIOUS
    <3> HIDE DEF h
    <3> QED
      BY <2>2, <3>1
  <2>4. h = [s \in SUBSET T |-> h[s]]
    OBVIOUS
  <2> HIDE DEF h
  <2>5. SumsOf(F, T, h)
    BY <2>3, <2>4 DEF SumsOf
  <2> QED
    BY <2>5
<1> HIDE DEF Good
<1>2. S \in Good
  BY <1>1, SubsetInduction
<1> QED
  BY <1>2 DEF Good

\* The sum is that of any element and of the others.
LEMMA SumStep ==
    ASSUME NEW F, NEW S, IsFiniteSet(S)
    PROVE  SumFunctionOnSet(F, S) =
              IF S = {} THEN 0 ELSE F[AnyOf(S)] + SumFunctionOnSet(F, S \ {AnyOf(S)})
<1> DEFINE G(s) == CHOOSE g : SumsOf(F, s, g)
           T == S \ {AnyOf(S)}
<1>1. SumsOf(F, S, G(S))
  BY SumsExist
<1>2. IsFiniteSet(T) /\ T \in SUBSET S
  BY FS_Subset
<1>3. SumsOf(F, T, G(T))
  <2> HIDE DEF T
  <2> QED
  BY <1>2, SumsExist
<1>4. SumFunctionOnSet(F, S) = G(S)[S] /\ SumFunctionOnSet(F, T) = G(T)[T]
  BY SumDef
<1> HIDE DEF G, T
<1>5. G(S)[T] = G(T)[T]
  BY <1>1, <1>2, <1>3, SumsAgree
<1>6. G(S)[S] = IF S = {} THEN 0 ELSE F[AnyOf(S)] + G(S)[T]
  BY <1>1 DEF SumsOf, T
<1> QED
  BY <1>4, <1>5, <1>6 DEF T

\* A sum of naturals is one, and at least each of them.
LEMMA SumIsNat ==
    ASSUME NEW S, IsFiniteSet(S), NEW F, \A x \in S : F[x] \in Nat
    PROVE  SumFunctionOnSet(F, S) \in Nat /\ \A x \in S : F[x] <= SumFunctionOnSet(F, S)
<1> DEFINE Good == {T \in SUBSET S : /\ SumFunctionOnSet(F, T) \in Nat
                                    /\ \A x \in T : F[x] <= SumFunctionOnSet(F, T)}
<1>1. ASSUME NEW T \in SUBSET S, \A U \in SUBSET T : U # T => U \in Good
      PROVE  T \in Good
  <2>1. CASE T = {}
    <3>1. SumFunctionOnSet(F, T) = 0
      BY <2>1, SumStep, FS_EmptySet
    <3> QED
      BY <2>1, <3>1
  <2>2. CASE T # {}
    <3> DEFINE x == AnyOf(T)
               U == T \ {x}
    <3>1. x \in T
      BY <2>2 DEF AnyOf
    <3>2. IsFiniteSet(T)
      BY FS_Subset
    <3>3. SumFunctionOnSet(F, T) = F[x] + SumFunctionOnSet(F, U)
      BY <2>2, <3>2, SumStep
    <3>4. U \in Good
      BY <1>1, <3>1
    <3> HIDE DEF x
    <3>5. /\ SumFunctionOnSet(F, U) \in Nat /\ F[x] \in Nat
          /\ \A y \in U : F[y] \in Nat /\ F[y] <= SumFunctionOnSet(F, U)
      BY <3>1, <3>4
    <3>6. T = U \cup {x}
      BY <3>1
    <3> HIDE DEF U, Good
    <3>7. SumFunctionOnSet(F, T) \in Nat
      BY <3>3, <3>5
    <3>8. \A y \in T : F[y] <= SumFunctionOnSet(F, T)
      BY <3>3, <3>5, <3>6
    <3> QED
      BY <3>7, <3>8 DEF Good
  <2> QED
    BY <2>1, <2>2
<1> HIDE DEF Good
<1>2. S \in Good
  BY <1>1, SubsetInduction
<1> QED
  BY <1>2 DEF Good

\* A bound of each is a bound of the sums.
LEMMA SumBound ==
    ASSUME NEW S, IsFiniteSet(S), NEW k \in Nat,
           NEW F, \A x \in S : F[x] \in Nat,
           NEW W, \A x \in S : W[x] \in Nat /\ F[x] <= k * W[x]
    PROVE  SumFunctionOnSet(F, S) <= k * SumFunctionOnSet(W, S)
<1> DEFINE Good == {T \in SUBSET S : SumFunctionOnSet(F, T) <= k * SumFunctionOnSet(W, T)}
<1>1. ASSUME NEW T \in SUBSET S, \A U \in SUBSET T : U # T => U \in Good
      PROVE  T \in Good
  <2>1. CASE T = {}
    <3>1. SumFunctionOnSet(F, T) = 0 /\ SumFunctionOnSet(W, T) = 0
      BY <2>1, SumStep, FS_EmptySet
    <3> QED
      BY <3>1
  <2>2. CASE T # {}
    <3> DEFINE x == AnyOf(T)
               U == T \ {x}
    <3>1. x \in T
      BY <2>2 DEF AnyOf
    <3>2. IsFiniteSet(T) /\ IsFiniteSet(U)
      BY FS_Subset
    <3>3. /\ SumFunctionOnSet(F, T) = F[x] + SumFunctionOnSet(F, U)
          /\ SumFunctionOnSet(W, T) = W[x] + SumFunctionOnSet(W, U)
      BY <2>2, <3>2, SumStep
    <3>4. U \in Good
      BY <1>1, <3>1
    <3> HIDE DEF x
    <3>5. SumFunctionOnSet(F, U) <= k * SumFunctionOnSet(W, U)
      BY <3>4
    <3>6. F[x] \in Nat /\ W[x] \in Nat /\ F[x] <= k * W[x]
      BY <3>1
    <3>7. \A y \in U : F[y] \in Nat /\ W[y] \in Nat
      OBVIOUS
    <3> HIDE DEF U
    <3>8. SumFunctionOnSet(F, U) \in Nat /\ SumFunctionOnSet(W, U) \in Nat
      BY <3>2, <3>7, SumIsNat
    <3>9. ASSUME NEW a \in Nat, NEW b \in Nat, NEW c \in Nat, NEW d \in Nat, a <= k * b, c <= k * d
          PROVE  a + c <= k * (b + d)
      BY <3>9
    <3> HIDE DEF Good
    <3>10. SumFunctionOnSet(F, T) <= k * SumFunctionOnSet(W, T)
      BY <3>3, <3>5, <3>6, <3>8, <3>9
    <3> QED
      BY <3>10 DEF Good
  <2> QED
    BY <2>1, <2>2
<1> HIDE DEF Good
<1>2. S \in Good
  BY <1>1, SubsetInduction
<1> QED
  BY <1>2 DEF Good

LEMMA SumOfOnes ==
    ASSUME NEW S, IsFiniteSet(S), NEW F, \A x \in S : F[x] = 1
    PROVE  SumFunctionOnSet(F, S) = Cardinality(S)
<1> DEFINE Good == {T \in SUBSET S : SumFunctionOnSet(F, T) = Cardinality(T)}
<1>1. ASSUME NEW T \in SUBSET S, \A U \in SUBSET T : U # T => U \in Good
      PROVE  T \in Good
  <2>1. CASE T = {}
    <3>1. SumFunctionOnSet(F, T) = 0 /\ Cardinality(T) = 0
      BY <2>1, SumStep, FS_EmptySet
    <3> QED
      BY <3>1
  <2>2. CASE T # {}
    <3> DEFINE x == AnyOf(T)
               U == T \ {x}
    <3>1. x \in T
      BY <2>2 DEF AnyOf
    <3>2. IsFiniteSet(T) /\ F[x] = 1
      BY <3>1, FS_Subset
    <3>3. SumFunctionOnSet(F, T) = 1 + SumFunctionOnSet(F, U)
      BY <2>2, <3>2, SumStep
    <3>4. U \in Good
      BY <1>1, <3>1
    <3> HIDE DEF x
    <3>5. Cardinality(U) = Cardinality(T) - 1 /\ Cardinality(T) \in Nat
      BY <3>1, <3>2, FS_RemoveElement, FS_CardinalityType
    <3>6. SumFunctionOnSet(F, U) = Cardinality(U)
      BY <3>4
    <3> HIDE DEF U
    <3> QED
      BY <3>3, <3>5, <3>6
  <2> QED
    BY <2>1, <2>2
<1> HIDE DEF Good
<1>2. S \in Good
  BY <1>1, SubsetInduction
<1> QED
  BY <1>2 DEF Good

\* A quotient rounds to no more than a bound of it.
LEMMA RoundedBound ==
    ASSUME NEW a \in Nat, NEW b \in Nat \ {0}, NEW k \in Nat, a <= k * b
    PROVE  Rounded(a, b) \in 0..k
<1> DEFINE q == (2 * a + b) \div (2 * b)
<1>1. q \in Int /\ 2 * b * q <= 2 * a + b /\ 2 * a + b < 2 * b * (q + 1)
  OBVIOUS
<1> HIDE DEF q
<1>2. 2 * a + b < 2 * b * (k + 1)
  OBVIOUS
<1>3. q < k + 1
  BY <1>1, <1>2
<1>4. 0 < q + 1
  BY <1>1
<1> QED
  BY <1>1, <1>3, <1>4 DEF Rounded, q

-------------------------------------------------------------------------------

USE NodesAssumption

LEMMA NodesAreNumbered == Cardinality(Nodes) \in Nat /\ Nodes \subseteq Nat \ {0}
BY FS_CardinalityType

LEMMA CatalogIsSeq == Len(Catalog) \in Nat /\ Checks = 1..Len(Catalog)
BY CatalogAssumption DEF Checks

-------------------------------------------------------------------------------
(* Scores. *)

Finding == [check : Checks, status : {"Pass", "Attention", "Fail", "Info"}]
FindingSeqs == Seq(Finding)

LEMMA SumFunctionIsOnSet == \A f : SumFunction(f) = SumFunctionOnSet(f, DOMAIN f)
BY DEF SumFunction

\* Every scored finding has a weight, and a value between those of Fail and Pass.
LEMMA ScoredFinding ==
    ASSUME NEW findings \in FindingSeqs, NEW i \in Scored(findings)
    PROVE  /\ findings[i].status \in {"Pass", "Attention", "Fail"}
           /\ PriorityWeight[Catalog[findings[i].check].priority] \in 1..3
           /\ ScoreValue[findings[i].status] \in 0..100
<1>1. i \in DOMAIN findings /\ findings[i].status # "Info"
  BY DEF Scored
<1>2. findings[i] \in Finding
  BY <1>1, ElementOfSeq, LenProperties DEF FindingSeqs
<1>3. Catalog[findings[i].check] \in [kind : Kinds, category : STRING, priority : {"High", "Medium", "Low"}]
  BY <1>2, CatalogAssumption, CatalogIsSeq, ElementOfSeq DEF Finding
<1>4. Catalog[findings[i].check].priority \in {"High", "Medium", "Low"}
  BY <1>3
<1>5. PriorityWeight[Catalog[findings[i].check].priority] \in 1..3
  BY <1>4 DEF PriorityWeight
<1>6. findings[i].status \in {"Pass", "Attention", "Fail"}
  BY <1>1, <1>2 DEF Finding
<1>7. ScoreValue["Pass"] = 100 /\ ScoreValue["Attention"] = 60 /\ ScoreValue["Fail"] = 0
  BY DEF ScoreValue
<1>8. 100 \in 0..100 /\ 60 \in 0..100 /\ 0 \in 0..100
  OBVIOUS
<1>9. ScoreValue[findings[i].status] \in 0..100
  BY <1>6, <1>7, <1>8, Zenon
<1> QED
  BY <1>5, <1>6, <1>9

LEMMA ScoredIsFinite == \A findings \in FindingSeqs : IsFiniteSet(Scored(findings))
<1> TAKE findings \in FindingSeqs
<1>1. IsFiniteSet(DOMAIN findings)
  BY LenProperties, FS_Interval DEF FindingSeqs
<1> QED
  BY <1>1, FS_Subset DEF Scored

\* A category is no healthier than the best of its findings.
LEMMA CategoryHealthBound ==
    ASSUME NEW findings \in FindingSeqs, NEW k \in Nat,
           \A i \in Scored(findings) : ScoreValue[findings[i].status] <= k,
           NEW j \in Scored(findings)
    PROVE  CategoryHealth(findings, Catalog[findings[j].check].category) \in 0..k
<1> DEFINE category == Catalog[findings[j].check].category
           of == {i \in Scored(findings) : Catalog[findings[i].check].category = category}
           weight == [i \in of |-> PriorityWeight[Catalog[findings[i].check].priority]]
           value == [i \in of |-> weight[i] * ScoreValue[findings[i].status]]
<1>1. j \in of /\ of \subseteq Scored(findings) /\ IsFiniteSet(of)
  BY ScoredIsFinite, FS_Subset
<1>2. \A i \in of : weight[i] \in 1..3 /\ value[i] = weight[i] * ScoreValue[findings[i].status]
  BY ScoredFinding
<1>3. ASSUME NEW i \in of
      PROVE  ScoreValue[findings[i].status] \in Nat /\ ScoreValue[findings[i].status] <= k
  <2>1. ScoreValue[findings[i].status] \in 0..100
    BY ScoredFinding
  <2>2. \A v \in 0..100 : v \in Nat /\ v <= 100
    OBVIOUS
  <2> QED
    BY <2>1, <2>2, Zenon
<1>4. DOMAIN weight = of /\ DOMAIN value = of
  OBVIOUS
<1>5. CategoryHealth(findings, category) =
          Rounded(SumFunctionOnSet(value, of), SumFunctionOnSet(weight, of))
  BY <1>4, SumFunctionIsOnSet DEF CategoryHealth
<1> HIDE DEF weight, value, of
<1>6. \A i \in of : weight[i] \in Nat \ {0} /\ value[i] \in Nat /\ value[i] <= k * weight[i]
  <2>1. ASSUME NEW w \in 1..3, NEW v \in Nat, v <= k
        PROVE  w \in Nat \ {0} /\ w * v \in Nat /\ w * v <= k * w
    BY <2>1
  <2>2. ASSUME NEW i \in of
        PROVE  weight[i] \in Nat \ {0} /\ value[i] \in Nat /\ value[i] <= k * weight[i]
    <3>1. weight[i] \in 1..3 /\ value[i] = weight[i] * ScoreValue[findings[i].status]
      BY <1>2
    <3> QED
      BY <1>3, <2>1, <3>1
  <2> QED
    BY <2>2
<1>7. /\ SumFunctionOnSet(value, of) \in Nat
      /\ SumFunctionOnSet(weight, of) \in Nat /\ weight[j] <= SumFunctionOnSet(weight, of)
  BY <1>1, <1>6, SumIsNat
<1>8. SumFunctionOnSet(weight, of) # 0
  BY <1>1, <1>6, <1>7
<1>9. SumFunctionOnSet(value, of) <= k * SumFunctionOnSet(weight, of)
  BY <1>1, <1>6, SumBound
<1> HIDE DEF category
<1>10. CategoryHealth(findings, category) \in 0..k
  BY <1>5, <1>7, <1>8, <1>9, RoundedBound
<1> QED
  BY <1>10 DEF category

\* Nor is a node.
LEMMA ScoreBound ==
    ASSUME NEW findings \in FindingSeqs, NEW k \in Nat,
           \A i \in Scored(findings) : ScoreValue[findings[i].status] <= k
    PROVE  ScoreFindings(findings) \in -1..k
<1> DEFINE categories == {Catalog[findings[i].check].category : i \in Scored(findings)}
           health == [category \in categories |-> CategoryHealth(findings, category)]
           one == [category \in categories |-> 1]
<1>1. IsFiniteSet(categories)
  <2> DEFINE f == [i \in Scored(findings) |-> Catalog[findings[i].check].category]
  <2>1. f \in Surjection(Scored(findings), categories)
    BY DEF Surjection
  <2> HIDE DEF f, categories
  <2> QED
    BY <2>1, ScoredIsFinite, FS_Surjection
<1>2. \A category \in categories : health[category] \in 0..k /\ one[category] = 1
  BY CategoryHealthBound
<1>3. CASE categories = {}
  BY <1>3 DEF ScoreFindings
<1>4. CASE categories # {}
  <2>1. ScoreFindings(findings) = Rounded(SumFunctionOnSet(health, categories), Cardinality(categories))
    BY <1>4, SumFunctionIsOnSet, Zenon DEF ScoreFindings
  <2> HIDE DEF health, one, categories
  <2>2. Cardinality(categories) \in Nat \ {0}
    BY <1>1, <1>4, FS_CardinalityType, FS_EmptySet
  <2>3. SumFunctionOnSet(health, categories) \in Nat
    BY <1>1, <1>2, SumIsNat
  <2>4. \A c \in categories : health[c] \in Nat /\ one[c] \in Nat /\ health[c] <= k * one[c]
    BY <1>2
  <2>5. SumFunctionOnSet(health, categories) <= k * SumFunctionOnSet(one, categories)
    BY <1>1, <2>4, SumBound
  <2>6. SumFunctionOnSet(one, categories) = Cardinality(categories)
    BY <1>1, <1>2, SumOfOnes
  <2>7. Rounded(SumFunctionOnSet(health, categories), Cardinality(categories)) \in 0..k
    BY <2>2, <2>3, <2>5, <2>6, RoundedBound
  <2> QED
    BY <2>1, <2>7
<1> QED
  BY <1>3, <1>4

\* Without a check that passed, a node has no full health.
LEMMA NoPassNoHealth ==
    ASSUME NEW findings \in FindingSeqs, \A i \in DOMAIN findings : findings[i].status # "Pass"
    PROVE  ScoreFindings(findings) \in -1..60
<1>1. ASSUME NEW i \in Scored(findings)
      PROVE  ScoreValue[findings[i].status] <= 60
  <2>1. findings[i].status \in {"Attention", "Fail"}
    BY ScoredFinding DEF Scored
  <2> QED
    BY <2>1 DEF ScoreValue
<1> QED
  BY <1>1, ScoreBound

LEMMA ScoreType == \A findings \in FindingSeqs : ScoreFindings(findings) \in -1..100
<1> TAKE findings \in FindingSeqs
<1>1. ASSUME NEW i \in Scored(findings)
      PROVE  ScoreValue[findings[i].status] <= 100
  <2>1. ScoreValue[findings[i].status] \in 0..100
    BY ScoredFinding
  <2>2. \A v \in 0..100 : v \in Nat /\ v <= 100
    OBVIOUS
  <2> QED
    BY <2>1, <2>2, Zenon
<1> QED
  BY <1>1, ScoreBound

\* What is made of the results of a node is a report, with one finding for each result.
LEMMA ReportType ==
    ASSUME NEW n, NEW checks \in Seq(Result(n))
    PROVE  /\ ReportOf(checks) \in Report(n)
           /\ ReportOf(checks).findings \in FindingSeqs
           /\ DOMAIN ReportOf(checks).findings = DOMAIN checks
           /\ \A i \in DOMAIN checks : ReportOf(checks).findings[i] = ToFinding(checks[i])
<1> DEFINE findings == [i \in DOMAIN checks |-> ToFinding(checks[i])]
<1>1. /\ Len(checks) \in Nat /\ DOMAIN checks = 1..Len(checks)
      /\ \A i \in DOMAIN checks : checks[i] \in Result(n)
  BY LenProperties, ElementOfSeq
<1>2. ASSUME NEW i \in DOMAIN checks
      PROVE  findings[i] \in Finding
  <2>1. checks[i].check \in Checks
    BY <1>1, <1>2 DEF Result
  <2>2. StatusMap(checks[i].status) \in {"Pass", "Attention", "Fail", "Info"}
    BY DEF StatusMap
  <2> QED
    BY <1>2, <2>1, <2>2 DEF ToFinding, Finding
<1>3. findings \in FindingSeqs /\ Len(findings) = Len(checks)
  BY <1>1, <1>2, IsASeq, LenProperties DEF FindingSeqs
<1>4. DOMAIN findings = DOMAIN checks /\ \A i \in DOMAIN checks : findings[i] = ToFinding(checks[i])
  OBVIOUS
<1> HIDE DEF findings
<1>5. Cardinality({i \in DOMAIN checks : checks[i].status = "error"}) \in Nat
  <2>1. IsFiniteSet(DOMAIN checks)
    BY <1>1, FS_Interval
  <2> QED
    BY <2>1, FS_Subset, FS_CardinalityType
<1>6. CoverageOf(findings, checks) \in [total : Nat, errored : Nat]
  BY <1>1, <1>3, <1>5 DEF CoverageOf
<1>7. ScoreFindings(findings) \in -1..100
  BY <1>3, ScoreType
<1>8. ReportOf(checks) = [checks |-> checks, findings |-> findings, health |-> ScoreFindings(findings),
                          coverage |-> CoverageOf(findings, checks)]
  BY DEF ReportOf, findings
<1> QED
  BY <1>3, <1>4, <1>6, <1>7, <1>8 DEF Report, FindingSeqs, Finding

-------------------------------------------------------------------------------
(* Connections. *)

Connections == {"none", "own", "shared"}

\* The connection of a script's worker is as good as the one in $server.
ConnInv ==
    /\ conn \in [Nodes -> Connections] /\ worker \in [Nodes -> Connections]
    /\ lostTouch \in [Nodes -> BOOLEAN]
    /\ NoSharedConnection

LEMMA ResetKeeps ==
    ASSUME ConnInv, NEW n \in Nodes, NEW old \in {conn[n], "shared"}, ResetHcServer(n, old),
           NewHcWorkerRunspace(n) \/ (old = conn[n] /\ worker[n] = "none" /\ UNCHANGED worker)
    PROVE  ConnInv'
<1> USE DEF ConnInv, Connections, NoSharedConnection
<1>1. /\ conn' \in [Nodes -> Connections] /\ lostTouch' \in [Nodes -> BOOLEAN]
      /\ conn'[n] \in Connections
      /\ conn'[n] = "shared" => lostTouch'[n]
      /\ \A m \in Nodes \ {n} : conn'[m] = conn[m] /\ lostTouch'[m] = lostTouch[m]
  BY DEF ResetHcServer
<1>2. /\ worker' \in [Nodes -> Connections] /\ worker'[n] \in {conn'[n], "none"}
      /\ \A m \in Nodes \ {n} : worker'[m] = worker[m]
  BY <1>1 DEF NewHcWorkerRunspace
<1> QED
  BY <1>1, <1>2

LEMMA ConnStep == ConnInv /\ [Next]_vars => ConnInv'
<1> SUFFICES ASSUME ConnInv, [Next]_vars
             PROVE  ConnInv'
  OBVIOUS
<1>1. CASE UNCHANGED <<conn, worker, lostTouch>>
  BY <1>1 DEF ConnInv, NoSharedConnection
<1>2. ASSUME NEW n \in Nodes, Connect(n)
      PROVE  ConnInv'
  <2>1. /\ conn' = [conn EXCEPT ![n] = "own"] /\ UNCHANGED lostTouch
        /\ UNCHANGED worker \/ \E held \in {conn'[n], "none"} : worker' = [worker EXCEPT ![n] = held]
    BY <1>2 DEF Connect, NewHcWorkerRunspace
  <2> QED
    BY <2>1 DEF ConnInv, Connections, NoSharedConnection
<1>3. ASSUME NEW n \in Nodes, LoseConnection(n)
      PROVE  ConnInv'
  <2>1. ResetHcConnection(n)
    BY <1>3 DEF LoseConnection
  <2> QED
    BY <2>1, ResetKeeps DEF ResetHcConnection
<1>4. ASSUME NEW n \in Nodes, TimeOut(n)
      PROVE  ConnInv'
  BY <1>4, ResetKeeps DEF TimeOut
<1>5. ASSUME NEW n \in Nodes, Release(n)
      PROVE  ConnInv'
  BY <1>5 DEF Release, ConnInv, Connections, NoSharedConnection
<1>6. ASSUME NEW n, Exit(n)
      PROVE  ConnInv'
  BY <1>6 DEF Exit, ConnInv, Connections, NoSharedConnection
<1>7. ASSUME NEW s \in 1..Slots, Pull(s) \/ Finish(s) \/ Die(s)
      PROVE  UNCHANGED <<conn, worker, lostTouch>> \/ \E n : Exit(n)
  BY <1>7, Zenon DEF Pull, Finish, Die
<1>8. ASSUME NEW n \in Nodes, Skip(n) \/ Return(n) \/ Throw(n)
      PROVE  UNCHANGED <<conn, worker, lostTouch>>
  BY <1>8, Zenon DEF Skip, Return, Throw
<1>9. ApplyReplicaJobDrift \/ UNCHANGED vars => UNCHANGED <<conn, worker, lostTouch>>
  BY Zenon DEF ApplyReplicaJobDrift, scriptVars, vars
<1> QED
  BY <1>1, <1>2, <1>3, <1>4, <1>5, <1>6, <1>7, <1>8, <1>9 DEF Next, Step

\* Invoke-HcCheck never starts a check on a connection that one it has abandoned may still be
\* using, neither inline nor in a new worker, unless it could not reconnect.
THEOREM ConnectionsAreNotShared == Spec => []NoSharedConnection
<1>1. Init => ConnInv
  BY DEF Init, ConnInv, Connections, NoSharedConnection
<1>2. ConnInv => NoSharedConnection
  BY DEF ConnInv
<1> QED
  BY <1>1, <1>2, ConnStep, PTL DEF Spec

-------------------------------------------------------------------------------
(* Slots. *)

\* The nodes in the slots were taken, and each was taken once.
SlotInv ==
    /\ next \in 1..Cardinality(Nodes) + 1
    /\ slot \in [1..Slots -> Nodes \cup {0}]
    /\ \A s \in 1..Slots : slot[s] < next
    /\ \A s, t \in 1..Slots : slot[s] = slot[t] /\ slot[s] # 0 => s = t

LEMMA SlotStep == SlotInv /\ [Next]_vars => SlotInv'
<1> SUFFICES ASSUME SlotInv, [Next]_vars
             PROVE  SlotInv'
  OBVIOUS
<1> USE NodesAreNumbered DEF SlotInv
<1>1. ASSUME NEW s \in 1..Slots, Pull(s)
      PROVE  SlotInv'
  <2>1. /\ next \in Nodes /\ next' = next + 1
        /\ slot' = [slot EXCEPT ![s] = next]
    BY <1>1 DEF Pull
  <2>2. \A t \in 1..Slots : slot[t] \in Nat /\ slot[t] # next
    OBVIOUS
  <2> QED
    BY <2>1, <2>2
<1>2. ASSUME NEW s \in 1..Slots, Finish(s) \/ Die(s)
      PROVE  SlotInv'
  <2>1. slot' = [slot EXCEPT ![s] = 0] /\ UNCHANGED next
    BY <1>2, Zenon DEF Finish, Die, Settle
  <2> QED
    BY <2>1
<1>3. ASSUME NEW n \in Nodes, Step(n)
      PROVE  UNCHANGED <<next, slot>>
  BY <1>3, Zenon DEF Step, Connect, Skip, Return, Throw, LoseConnection, TimeOut, Release, sweepVars
<1>4. ApplyReplicaJobDrift \/ UNCHANGED vars => UNCHANGED <<next, slot>>
  BY Zenon DEF ApplyReplicaJobDrift, vars, sweepVars
<1>5. CASE UNCHANGED <<next, slot>>
  BY <1>5
<1> QED
  BY <1>1, <1>2, <1>3, <1>4, <1>5 DEF Next

-------------------------------------------------------------------------------
(* Results. *)

\* The first `count` checks of the catalog, each once, in their order.
InOrder(n, checks, count) ==
    /\ checks \in Seq(Result(n)) /\ Len(checks) = count
    /\ \A k \in 1..count : checks[k].check = k

\* What the inventory of Agent jobs may come to before it is compared.
Raw(k, result) ==
    Catalog[k].kind = "inventory" =>
        /\ result.status \in {"ok", "empty", "skipped", "error"}
        /\ result.status = "ok" <=> result.inventory # NoInventory

ResultsInv ==
    /\ at \in [Nodes -> 1..Len(Catalog) + 1]
    /\ results = [n \in Nodes |-> results[n]]
    /\ \A n \in Nodes : InOrder(n, results[n], at[n] - 1)
    /\ \A n \in Nodes : \A k \in 1..at[n] - 1 : Raw(k, results[n][k])

LEMMA OutcomesAreStatuses == \A k \in Checks : Outcomes(Catalog[k]) \subseteq Statuses
<1> TAKE k \in Checks
<1>1. Catalog[k] \in [kind : Kinds, category : STRING, priority : {"High", "Medium", "Low"}]
  BY CatalogAssumption, CatalogIsSeq, ElementOfSeq
<1>2. Catalog[k].kind \in Kinds /\ Grades \subseteq Statuses
  BY <1>1, CatalogAssumption
<1> QED
  BY <1>2 DEF Outcomes, Kinds, Statuses

LEMMA RecordKeeps ==
    ASSUME ResultsInv, NEW n \in Nodes, at[n] \in Checks,
           NEW status \in Statuses, NEW inventory \in Inventories[n] \cup {NoInventory},
           Catalog[at[n]].kind = "inventory" =>
               /\ status \in {"ok", "empty", "skipped", "error"}
               /\ status = "ok" <=> inventory # NoInventory,
           Record(n, status, inventory)
    PROVE  ResultsInv'
<1> USE DEF ResultsInv, InOrder
<1> DEFINE result == [check |-> at[n], status |-> status, inventory |-> inventory]
<1>1. result \in Result(n) /\ result.check = at[n] /\ Raw(at[n], result)
  BY DEF Result, Raw
<1>2. /\ results' = [results EXCEPT ![n] = Append(@, result)]
      /\ at' = [at EXCEPT ![n] = @ + 1]
  BY DEF Record
<1> HIDE DEF result
<1>3. at' \in [Nodes -> 1..Len(Catalog) + 1] /\ at'[n] = at[n] + 1 /\ at[n] \in Nat \ {0}
  BY <1>2, CatalogIsSeq
<1>4. results' = [m \in Nodes |-> results'[m]] /\ results'[n] = Append(results[n], result)
  BY <1>2
<1>5. /\ Append(results[n], result) \in Seq(Result(n))
      /\ Len(Append(results[n], result)) = at[n]
      /\ \A k \in 1..at[n] - 1 : Append(results[n], result)[k] = results[n][k]
      /\ Append(results[n], result)[at[n]] = result
  BY <1>1, <1>3
<1>6. InOrder(n, results'[n], at'[n] - 1)
  BY <1>1, <1>3, <1>4, <1>5
<1>7. \A m \in Nodes \ {n} : results'[m] = results[m] /\ at'[m] = at[m]
  BY <1>2
<1>8. \A m \in Nodes : InOrder(m, results'[m], at'[m] - 1)
  BY <1>6, <1>7
<1>9. \A k \in 1..at'[n] - 1 : Raw(k, results'[n][k])
  <2> TAKE k \in 1..at'[n] - 1
  <2>1. CASE k = at[n]
    BY <1>1, <1>4, <1>5, <2>1
  <2>2. CASE k # at[n]
    BY <1>3, <1>4, <1>5, <2>2
  <2> QED
    BY <2>1, <2>2
<1>10. \A m \in Nodes : \A k \in 1..at'[m] - 1 : Raw(k, results'[m][k])
  BY <1>7, <1>9
<1> QED
  BY <1>3, <1>4, <1>8, <1>10 DEF Result, Raw

LEMMA ResultsStep == ResultsInv /\ [Next]_vars => ResultsInv'
<1> SUFFICES ASSUME ResultsInv, [Next]_vars
             PROVE  ResultsInv'
  OBVIOUS
<1>1. CASE UNCHANGED <<at, results>>
  BY <1>1 DEF ResultsInv, InOrder, Result, Raw
<1>2. ASSUME NEW n \in Nodes, NEW status \in {"skipped", "error"}, at[n] \in Checks,
             Record(n, status, NoInventory)
      PROVE  ResultsInv'
  BY <1>2, RecordKeeps DEF Statuses
<1>3. ASSUME NEW n \in Nodes, Skip(n)
      PROVE  ResultsInv'
  BY <1>2, <1>3 DEF Skip, AtCheck, Statuses
<1>4. ASSUME NEW n \in Nodes, Return(n)
      PROVE  ResultsInv'
  <2>1. at[n] \in Checks
    BY <1>4 DEF Return, AtCheck
  <2>2. PICK status \in Outcomes(Catalog[at[n]]) :
          IF Catalog[at[n]].kind = "inventory" /\ status = "ok"
          THEN \E inventory \in Inventories[n] : Record(n, status, inventory)
          ELSE Record(n, status, NoInventory)
    BY <1>4, Zenon DEF Return
  <2>3. status \in Statuses
    BY <2>1, <2>2, OutcomesAreStatuses
  <2>4. Catalog[at[n]].kind = "inventory" => status \in {"ok", "empty"}
    BY <2>2 DEF Outcomes
  <2>5. NoInventory \notin Inventories[n]
    BY PartnersAssumption
  <2>6. CASE Catalog[at[n]].kind = "inventory" /\ status = "ok"
    BY <2>1, <2>2, <2>3, <2>5, <2>6, RecordKeeps
  <2>7. CASE ~(Catalog[at[n]].kind = "inventory" /\ status = "ok")
    <3>1. Record(n, status, NoInventory)
      BY <2>2, <2>7
    <3> QED
      BY <2>1, <2>3, <2>4, <2>7, <3>1, RecordKeeps
  <2> QED
    BY <2>6, <2>7
<1>5. ASSUME NEW n \in Nodes, Throw(n)
      PROVE  ResultsInv'
  <2>1. PICK status \in {"skipped", "error"} : Record(n, status, NoInventory)
    BY <1>5, Zenon DEF Throw
  <2> QED
    BY <1>2, <1>5, <2>1 DEF Throw, AtCheck, Statuses
<1>6. ASSUME NEW n \in Nodes, LoseConnection(n) \/ TimeOut(n)
      PROVE  ResultsInv'
  <2>1. UNCHANGED <<at, results>> \/ Record(n, "error", NoInventory)
    BY <1>6, Zenon DEF LoseConnection, TimeOut
  <2> QED
    BY <1>1, <1>2, <1>6, <2>1 DEF LoseConnection, TimeOut, AtCheck, Statuses
<1>7. ASSUME NEW n, Exit(n)
      PROVE  ResultsInv'
  <2>1. at' = [at EXCEPT ![n] = 1] /\ results' = [results EXCEPT ![n] = <<>>]
    BY <1>7 DEF Exit
  <2>2. /\ at' \in [Nodes -> 1..Len(Catalog) + 1]
        /\ results' = [m \in Nodes |-> results'[m]]
    <3>1. at \in [Nodes -> 1..Len(Catalog) + 1] /\ 1 \in 1..Len(Catalog) + 1
      BY CatalogIsSeq DEF ResultsInv
    <3>2. results = [m \in Nodes |-> results[m]]
      BY DEF ResultsInv
    <3>3. at' \in [Nodes -> 1..Len(Catalog) + 1]
      BY <2>1, <3>1
    <3>4. results' = [m \in Nodes |-> results'[m]]
      BY <2>1, <3>2
    <3> QED
      BY <3>3, <3>4
  <2>3. ASSUME NEW m \in Nodes PROVE InOrder(m, results'[m], at'[m] - 1)
    <3>1. CASE m = n
      BY <2>1, <3>1 DEF ResultsInv, InOrder
    <3>2. CASE m # n
      BY <2>1, <3>2 DEF ResultsInv
    <3> QED
      BY <3>1, <3>2
  <2>4. ASSUME NEW m \in Nodes, NEW k \in 1..at'[m] - 1 PROVE Raw(k, results'[m][k])
    BY <2>1 DEF ResultsInv
  <2> QED
    BY <2>2, <2>3, <2>4 DEF ResultsInv, InOrder, Result, Raw
<1>8. ASSUME NEW s \in 1..Slots, Pull(s) \/ Finish(s) \/ Die(s)
      PROVE  UNCHANGED <<at, results>> \/ \E n : Exit(n)
  BY <1>8, Zenon DEF Pull, Finish, Die
<1>9. ASSUME NEW n \in Nodes, Connect(n) \/ Release(n)
      PROVE  UNCHANGED <<at, results>>
  BY <1>9, Zenon DEF Connect, Release
<1>10. ApplyReplicaJobDrift \/ UNCHANGED vars => UNCHANGED <<at, results>>
  BY Zenon DEF ApplyReplicaJobDrift, scriptVars, vars
<1> QED
  BY <1>1, <1>3, <1>4, <1>5, <1>6, <1>7, <1>8, <1>9, <1>10 DEF Next, Step

-------------------------------------------------------------------------------
(* Reports. *)

ReportsInv ==
    /\ out = [n \in Nodes |-> out[n]] /\ reports = [n \in Nodes |-> reports[n]]
    /\ \A n \in Nodes : out[n] = "report" => InOrder(n, reports[n].checks, Len(Catalog))

\* Grading an inventory again leaves every check where it was.
LEMMA RegradedInOrder ==
    ASSUME NEW n \in Nodes, InOrder(n, reports[n].checks, Len(Catalog))
    PROVE  InOrder(n, Regraded(n).checks, Len(Catalog))
<1> DEFINE old == reports[n].checks
           new == [i \in DOMAIN old |-> IF i \in DriftAt(old)
                                        THEN [old[i] EXCEPT !.status = DriftStatus(n)] ELSE old[i]]
<1>1. /\ Len(Catalog) \in Nat /\ DOMAIN old = 1..Len(Catalog)
      /\ \A i \in DOMAIN old : old[i] \in Result(n) /\ old[i].check = i
  BY CatalogIsSeq, ElementOfSeq, LenProperties DEF InOrder
<1>2. DriftStatus(n) \in Statuses
  BY DEF DriftStatus, Statuses
<1>3. \A i \in DOMAIN old : new[i] \in Result(n) /\ new[i].check = i
  <2> TAKE i \in DOMAIN old
  <2>1. /\ [old[i] EXCEPT !.status = DriftStatus(n)] \in Result(n)
        /\ [old[i] EXCEPT !.status = DriftStatus(n)].check = i
    BY <1>1, <1>2 DEF Result
  <2> QED
    BY <1>1, <2>1
<1>4. new \in Seq(Result(n)) /\ Len(new) = Len(Catalog)
  BY <1>1, <1>3, IsASeq, LenProperties
<1>5. Regraded(n).checks = new
  BY DEF Regraded, ReportOf
<1> QED
  BY <1>1, <1>3, <1>4, <1>5 DEF InOrder

LEMMA ReportsStep ==
    ASSUME SlotInv, ResultsInv, ReportsInv, [Next]_vars
    PROVE  ReportsInv'
<1>1. CASE UNCHANGED <<out, reports>>
  BY <1>1 DEF ReportsInv, InOrder, Result
<1>2. ASSUME NEW s \in 1..Slots, Finish(s) \/ Die(s)
      PROVE  ReportsInv'
  <2>1. slot[s] \in Nodes
    BY <1>2 DEF Finish, Die, SlotInv
  <2>2. /\ out' = [out EXCEPT ![slot[s]] = out'[slot[s]]]
        /\ reports' = [reports EXCEPT ![slot[s]] = reports'[slot[s]]]
        /\ out'[slot[s]] = "report" => /\ reports'[slot[s]] = ReportOf(results[slot[s]])
                                       /\ at[slot[s]] = Len(Catalog) + 1
    BY <1>2, <2>1 DEF Finish, Die, Settle, ReportsInv
  <2>3. at[slot[s]] = Len(Catalog) + 1 => InOrder(slot[s], ReportOf(results[slot[s]]).checks, Len(Catalog))
    BY <2>1, CatalogIsSeq DEF ResultsInv, ReportOf
  <2>4. out' = [n \in Nodes |-> out'[n]] /\ reports' = [n \in Nodes |-> reports'[n]]
    BY <2>2 DEF ReportsInv
  <2>5. ASSUME NEW n \in Nodes, out'[n] = "report"
        PROVE  InOrder(n, reports'[n].checks, Len(Catalog))
    <3>1. CASE n = slot[s]
      BY <2>2, <2>3, <2>5, <3>1
    <3>2. CASE n # slot[s]
      BY <2>1, <2>2, <2>5, <3>2 DEF ReportsInv
    <3> QED
      BY <3>1, <3>2
  <2> QED
    BY <2>4, <2>5 DEF ReportsInv, InOrder, Result
<1>3. CASE ApplyReplicaJobDrift
  <2>1. /\ UNCHANGED out
        /\ reports' = [n \in Nodes |-> IF Comparable(n) THEN Regraded(n) ELSE reports[n]]
    BY <1>3 DEF ApplyReplicaJobDrift
  <2>2. ASSUME NEW n \in Nodes, out[n] = "report"
        PROVE  InOrder(n, reports'[n].checks, Len(Catalog))
    BY <2>1, <2>2, RegradedInOrder DEF ReportsInv
  <2> QED
    BY <2>1, <2>2 DEF ReportsInv, InOrder, Result
<1>4. ASSUME NEW s \in 1..Slots, Pull(s)
      PROVE  UNCHANGED <<out, reports>>
  BY <1>4, Zenon DEF Pull
<1>5. ASSUME NEW n \in Nodes, Step(n)
      PROVE  UNCHANGED <<out, reports>>
  BY <1>5, Zenon DEF Step, Connect, Skip, Return, Throw, LoseConnection, TimeOut, Release, sweepVars
<1>6. UNCHANGED vars => UNCHANGED <<out, reports>>
  BY DEF vars, sweepVars
<1> QED
  BY <1>1, <1>2, <1>3, <1>4, <1>5, <1>6 DEF Next

LEMMA IInvHolds == Spec => [](SlotInv /\ ResultsInv /\ ReportsInv)
<1>1. Init => SlotInv
  BY NodesAreNumbered DEF Init, SlotInv
<1>2. Init => ResultsInv
  <2> SUFFICES ASSUME Init PROVE ResultsInv
    OBVIOUS
  <2>1. at \in [Nodes -> 1..Len(Catalog) + 1] /\ results = [n \in Nodes |-> results[n]]
    BY CatalogIsSeq DEF Init
  <2>2. ASSUME NEW n \in Nodes PROVE InOrder(n, results[n], at[n] - 1)
    <3>1. results[n] = <<>> /\ at[n] = 1
      BY DEF Init
    <3> QED
      BY <3>1, EmptySeq DEF InOrder
  <2>3. \A n \in Nodes : 1..at[n] - 1 = {}
    BY DEF Init
  <2> QED
    BY <2>1, <2>2, <2>3 DEF ResultsInv
<1>3. Init => ReportsInv
  BY DEF Init, ReportsInv
<1>4. SlotInv /\ ResultsInv /\ ReportsInv /\ [Next]_vars => (SlotInv /\ ResultsInv /\ ReportsInv)'
  BY SlotStep, ResultsStep, ReportsStep
<1> QED
  BY <1>1, <1>2, <1>3, <1>4, PTL DEF Spec

\* Whatever is lost, retried, timed out or graded again: no two slots run the same node, and a
\* report has exactly one result for each check, in the order of the catalog.
THEOREM ReportsAreWhole == Spec => []ReportIsWhole
<1>1. SlotInv /\ ReportsInv => ReportIsWhole
  BY CatalogIsSeq DEF SlotInv, ReportsInv, InOrder, ReportIsWhole
<1> QED
  BY <1>1, IInvHolds, PTL

-------------------------------------------------------------------------------
(* The comparison of a pair. *)

\* A report is what is made of its checks; once the jobs are compared, nothing is under way.
GradedInv ==
    /\ \A n \in Nodes : out[n] = "report" => reports[n] = ReportOf(reports[n].checks)
    /\ ~drifted => \A n \in Nodes : out[n] = "report" =>
           reports[n] # NoReport /\ \A k \in Checks : Raw(k, reports[n].checks[k])
    /\ drifted => next > Cardinality(Nodes) /\ \A s \in 1..Slots : slot[s] = 0
    /\ PairGradedAlike

\* The inventory that is compared is the one of the check that collects it.
LEMMA InventoryIsTheChecks ==
    ASSUME NEW n \in Nodes, NEW k \in Checks, Catalog[k].kind = "inventory",
           reports[n] # NoReport, InOrder(n, reports[n].checks, Len(Catalog)), Raw(k, reports[n].checks[k])
    PROVE  /\ DriftAt(reports[n].checks) = {k}
           /\ InventoryOf(n) = reports[n].checks[k].inventory
<1>1. /\ DOMAIN reports[n].checks = Checks
      /\ \A i \in Checks : reports[n].checks[i].check = i
  BY CatalogIsSeq, LenProperties DEF InOrder
<1>2. DriftAt(reports[n].checks) = {k}
  BY <1>1, CatalogAssumption DEF DriftAt
<1>3. reports[n].checks[k].status = "ok" <=> reports[n].checks[k].inventory # NoInventory
  BY DEF Raw
<1>4. (CHOOSE i \in {k} : TRUE) = k
  OBVIOUS
<1> QED
  BY <1>2, <1>3, <1>4 DEF InventoryOf

LEMMA DriftsBothWays ==
    ASSUME NEW mine, NEW theirs, DOMAIN mine = DOMAIN theirs
    PROVE  Drifts(mine, theirs) <=> Drifts(theirs, mine)
BY DEF Drifts

\* Either partner is compared if the other is, and with the same outcome.
LEMMA PairStep ==
    ASSUME SlotInv, ReportsInv, GradedInv, ApplyReplicaJobDrift,
           NEW m \in Nodes, NEW n \in Nodes, NEW k \in Checks, Catalog[k].kind = "inventory",
           Partners[n] = {m}, Partners[m] = {n}, out[n] = "report", out[m] = "report"
    PROVE  /\ reports'[m].findings[k].status = reports'[n].findings[k].status
           /\ LET whole(x) == LET inventory == reports'[x].checks[k].inventory
                              IN  inventory # NoInventory /\ inventory.complete
              IN  whole(m) /\ whole(n) => reports'[m].findings[k].status # "Info"
<1> DEFINE I(x) == reports[x].checks[k].inventory
<1>1. ~drifted /\ reports' = [x \in Nodes |-> IF Comparable(x) THEN Regraded(x) ELSE reports[x]]
  BY DEF ApplyReplicaJobDrift
<1>2. ASSUME NEW x \in {m, n}
      PROVE  /\ DriftAt(reports[x].checks) = {k} /\ InventoryOf(x) = I(x)
             /\ DOMAIN reports[x].checks = Checks /\ reports[x].checks[k] \in Result(x)
             /\ reports[x] = ReportOf(reports[x].checks)
             /\ Raw(k, reports[x].checks[k])
  <2>1. /\ reports[x] # NoReport /\ InOrder(x, reports[x].checks, Len(Catalog))
        /\ Raw(k, reports[x].checks[k]) /\ reports[x] = ReportOf(reports[x].checks)
    BY <1>1 DEF GradedInv, ReportsInv
  <2>2. DOMAIN reports[x].checks = Checks /\ reports[x].checks[k] \in Result(x)
    BY <2>1, CatalogIsSeq, LenProperties, ElementOfSeq DEF InOrder
  <2> QED
    BY <2>1, <2>2, InventoryIsTheChecks
<1>3. Peers(n) = {x \in {m} : I(x) # NoInventory} /\ Peers(m) = {x \in {n} : I(x) # NoInventory}
  BY <1>2 DEF Peers, InventoryFor
<1>4. /\ Comparable(n) <=> /\ I(m) # NoInventory /\ I(n) # NoInventory
                            /\ I(m).complete /\ I(n).complete
      /\ Comparable(m) <=> Comparable(n)
  BY <1>2, <1>3 DEF Comparable, InventoryFor
<1>5. CASE ~Comparable(n)
  <2>1. reports'[m] = reports[m] /\ reports'[n] = reports[n]
    BY <1>1, <1>4, <1>5
  <2>2. ASSUME NEW x \in {m, n} PROVE reports[x].findings[k].status = "Info"
    <3>1. reports[x].findings[k] = ToFinding(reports[x].checks[k])
      BY <1>2 DEF ReportOf
    <3>2. reports[x].checks[k].status \in {"ok", "empty", "skipped", "error"}
      BY <1>2 DEF Raw
    <3> QED
      BY <3>1, <3>2 DEF ToFinding, StatusMap
  <2> QED
    BY <1>4, <1>5, <2>1, <2>2
<1>6. CASE Comparable(n)
  <2>1. reports'[m] = Regraded(m) /\ reports'[n] = Regraded(n)
    BY <1>1, <1>4, <1>6
  <2>2. /\ DriftStatus(n) = IF Drifts(I(n).jobs, I(m).jobs) THEN "attention" ELSE "pass"
        /\ DriftStatus(m) = IF Drifts(I(m).jobs, I(n).jobs) THEN "attention" ELSE "pass"
    <3>1. Peers(n) = {m} /\ Peers(m) = {n}
      BY <1>3, <1>4, <1>6
    <3> QED
      BY <1>2, <3>1 DEF DriftStatus, InventoryFor
  <2>3. DOMAIN I(n).jobs = DOMAIN I(m).jobs
    <3>1. I(n) \in Inventories[n] /\ I(m) \in Inventories[m]
      BY <1>2, <1>4, <1>6 DEF Result
    <3> QED
      BY <3>1, PartnersAssumption
  <2>4. DriftStatus(n) = DriftStatus(m) /\ DriftStatus(n) \in {"attention", "pass"}
    BY <2>2, <2>3, DriftsBothWays
  <2>5. ASSUME NEW x \in {m, n}
        PROVE  Regraded(x).findings[k].status = StatusMap(DriftStatus(x))
    <3>1. [reports[x].checks[k] EXCEPT !.status = DriftStatus(x)].status = DriftStatus(x)
      BY <1>2 DEF Result
    <3> QED
      BY <1>2, <3>1 DEF Regraded, ReportOf, ToFinding
  <2> QED
    BY <2>1, <2>4, <2>5 DEF StatusMap
<1> QED
  BY <1>5, <1>6

LEMMA GradedStep ==
    ASSUME SlotInv, ResultsInv, ReportsInv, GradedInv, [Next]_vars
    PROVE  GradedInv'
<1>1. CASE UNCHANGED <<out, reports, drifted, next, slot>>
  BY <1>1 DEF GradedInv, PairGradedAlike, Raw
<1>2. ASSUME NEW s \in 1..Slots, Pull(s)
      PROVE  GradedInv'
  <2>1. UNCHANGED <<out, reports, drifted>> /\ ~drifted
    BY <1>2, NodesAreNumbered DEF Pull, GradedInv, SlotInv
  <2> QED
    BY <2>1 DEF GradedInv, PairGradedAlike, Raw
<1>3. ASSUME NEW s \in 1..Slots, Finish(s) \/ Die(s)
      PROVE  GradedInv'
  <2>1. slot[s] \in Nodes /\ slot[s] # 0
    BY <1>3 DEF Finish, Die, SlotInv
  <2>2. UNCHANGED drifted /\ ~drifted
    BY <1>3, <2>1 DEF Finish, Die, GradedInv
  <2>3. /\ out' = [out EXCEPT ![slot[s]] = out'[slot[s]]]
        /\ reports' = [reports EXCEPT ![slot[s]] = reports'[slot[s]]]
        /\ out'[slot[s]] = "report" => /\ reports'[slot[s]] = ReportOf(results[slot[s]])
                                       /\ reports'[slot[s]] # NoReport
                                       /\ at[slot[s]] = Len(Catalog) + 1
    BY <1>3, <2>1 DEF Finish, Die, Settle, ReportsInv
  <2>4. ReportOf(results[slot[s]]).checks = results[slot[s]]
    BY DEF ReportOf
  <2>5. ASSUME NEW n \in Nodes, out'[n] = "report"
        PROVE  /\ reports'[n] = ReportOf(reports'[n].checks) /\ reports'[n] # NoReport
               /\ \A k \in Checks : Raw(k, reports'[n].checks[k])
    <3>1. CASE n = slot[s]
      <4>1. \A k \in Checks : Raw(k, results[n][k])
        BY <2>1, <2>3, <2>5, <3>1, CatalogIsSeq DEF ResultsInv
      <4> QED
        BY <2>3, <2>4, <2>5, <3>1, <4>1
    <3>2. CASE n # slot[s]
      <4>1. out'[n] = out[n] /\ reports'[n] = reports[n]
        BY <2>1, <2>3, <3>2 DEF ReportsInv
      <4> QED
        BY <2>2, <2>5, <4>1 DEF GradedInv
    <3> QED
      BY <3>1, <3>2
  <2> QED
    BY <2>2, <2>5 DEF GradedInv, PairGradedAlike, Raw
<1>4. CASE ApplyReplicaJobDrift
  <2>1. /\ drifted' /\ ~drifted /\ UNCHANGED <<out, next, slot>>
        /\ next > Cardinality(Nodes) /\ \A s \in 1..Slots : slot[s] = 0
        /\ reports' = [n \in Nodes |-> IF Comparable(n) THEN Regraded(n) ELSE reports[n]]
    BY <1>4 DEF ApplyReplicaJobDrift
  <2>2. ASSUME NEW n \in Nodes, out[n] = "report"
        PROVE  reports'[n] = ReportOf(reports'[n].checks)
    <3>1. Regraded(n) = ReportOf(Regraded(n).checks)
      BY DEF Regraded, ReportOf
    <3> QED
      BY <2>1, <2>2, <3>1 DEF GradedInv
  <2>3. ASSUME NEW n \in Nodes, out[n] = "report"
        PROVE  reports'[n].health = ScoreFindings(reports'[n].findings)
    <3>1. PICK checks : reports'[n] = ReportOf(checks)
      BY <2>2, <2>3
    <3> QED
      BY <3>1 DEF ReportOf
  <2>4. PairGradedAlike'
    BY <1>4, <2>1, <2>3, PairStep DEF PairGradedAlike
  <2> QED
    BY <2>1, <2>2, <2>4 DEF GradedInv
<1>5. ASSUME NEW n \in Nodes, Step(n)
      PROVE  UNCHANGED <<out, reports, drifted, next, slot>>
  BY <1>5, Zenon DEF Step, Connect, Skip, Return, Throw, LoseConnection, TimeOut, Release, sweepVars
<1>6. UNCHANGED vars => UNCHANGED <<out, reports, drifted, next, slot>>
  BY DEF vars, sweepVars
<1> QED
  BY <1>1, <1>2, <1>3, <1>4, <1>5, <1>6 DEF Next

LEMMA GradedHolds == Spec => [](SlotInv /\ ResultsInv /\ ReportsInv /\ GradedInv)
<1>1. Init => GradedInv
  BY DEF Init, GradedInv, PairGradedAlike
<1>2. SlotInv /\ ResultsInv /\ ReportsInv /\ GradedInv /\ [Next]_vars => GradedInv'
  BY GradedStep
<1> QED
  BY <1>1, <1>2, IInvHolds, PTL DEF Spec

\* applyReplicaJobDrift() gives both nodes of a pair the same finding, whatever either collected,
\* and never leaves a pair ungraded whose inventories are whole; and the health of a report is
\* made again from the findings that are graded again.
THEOREM PairsAreGradedAlike == Spec => []PairGradedAlike
<1>1. GradedInv => PairGradedAlike
  BY DEF GradedInv
<1> QED
  BY <1>1, GradedHolds, PTL

-------------------------------------------------------------------------------
(* Health. *)

LEMMA FullHealthIsEarned == ReportsInv /\ GradedInv => NoUnearnedAllClear
<1> SUFFICES ASSUME ReportsInv, GradedInv, NEW n \in Nodes, out[n] = "report", reports[n].health = 100
             PROVE  /\ \E k \in Checks : reports[n].checks[k].status = "pass"
                    /\ 10 * Cardinality({k \in Checks : reports[n].checks[k].status = "error"})
                              >= Len(Catalog) => IsDegraded(reports[n].coverage)
  BY DEF NoUnearnedAllClear
<1> DEFINE checks == reports[n].checks
           findings == reports[n].findings
<1>1. reports[n] = ReportOf(checks)
  BY DEF GradedInv
<1>2. checks \in Seq(Result(n)) /\ Len(checks) = Len(Catalog) /\ DOMAIN checks = Checks
  BY CatalogIsSeq, LenProperties DEF ReportsInv, InOrder
<1>3. /\ findings \in FindingSeqs /\ DOMAIN findings = DOMAIN checks
      /\ \A i \in DOMAIN checks : findings[i] = ToFinding(checks[i])
  BY <1>1, <1>2, ReportType
<1>4. ScoreFindings(findings) = 100 /\ reports[n].coverage = CoverageOf(findings, checks)
  BY <1>1 DEF ReportOf
<1> HIDE DEF findings
<1>5. PICK k \in Checks : findings[k].status = "Pass"
  <2>1. ScoreFindings(findings) \notin -1..60
    BY <1>4
  <2> QED
    BY <1>2, <1>3, <2>1, NoPassNoHealth
<1>6. checks[k].status = "pass"
  <2>1. findings[k] = ToFinding(checks[k])
    BY <1>2, <1>3
  <2> HIDE DEF checks
  <2>2. StatusMap(checks[k].status) = "Pass"
    BY <1>5, <2>1 DEF ToFinding
  <2> QED
    BY <2>2 DEF StatusMap
<1>7. Len(findings) = Len(Catalog) /\ Len(Catalog) > 0
  <2>1. Len(findings) \in Nat /\ DOMAIN findings = 1..Len(findings)
    BY <1>3, LenProperties DEF FindingSeqs
  <2> QED
    BY <1>2, <1>3, <1>5, <2>1, CatalogIsSeq
<1>8. reports[n].coverage = [total |-> Len(Catalog),
                             errored |-> Cardinality({i \in Checks : checks[i].status = "error"})]
  BY <1>2, <1>4, <1>7 DEF CoverageOf
<1> QED
  BY <1>6, <1>7, <1>8 DEF IsDegraded

\* No node that could not be looked at comes out in full health: some check of it ran and passed,
\* whatever was skipped, lost or graded again; and when a tenth of the checks did not run, the
\* report says so.
THEOREM FullHealthIsSeen == Spec => []NoUnearnedAllClear
BY GradedHolds, FullHealthIsEarned, PTL

-------------------------------------------------------------------------------
(* Types. *)

\* What the other invariants do not say of the types; a node without a report shows none.
TypesInv ==
    /\ drifted \in BOOLEAN
    /\ out \in [Nodes -> {"none", "report", "error"}]
    /\ pc \in [Nodes -> {"waiting", "connecting", "checking", "over"}]
    /\ try \in [Nodes -> 1..2]
    /\ \A n \in Nodes : out[n] # "report" => reports[n] = NoReport

LEMMA TypesStep == SlotInv /\ ReportsInv /\ TypesInv /\ [Next]_vars => TypesInv'
<1> SUFFICES ASSUME SlotInv, ReportsInv, TypesInv, [Next]_vars
             PROVE  TypesInv'
  OBVIOUS
<1>1. CASE UNCHANGED <<drifted, out, reports, pc, try>>
  BY <1>1 DEF TypesInv
<1>2. ASSUME NEW s \in 1..Slots, Pull(s)
      PROVE  TypesInv'
  BY <1>2 DEF Pull, TypesInv
<1>3. ASSUME NEW s \in 1..Slots, NEW result, slot[s] \in Nodes,
             Settle(s, result), Exit(slot[s]), UNCHANGED drifted
      PROVE  TypesInv'
  <2>1. /\ out' \in [Nodes -> {"none", "report", "error"}]
        /\ pc' \in [Nodes -> {"waiting", "connecting", "checking", "over"}]
        /\ try' \in [Nodes -> 1..2]
    BY <1>3 DEF Settle, Exit, TypesInv
  <2>2. ASSUME NEW n \in Nodes, out'[n] # "report"
        PROVE  reports'[n] = NoReport
    <3>1. CASE n = slot[s]
      BY <1>3, <2>2, <3>1 DEF Settle, TypesInv, ReportsInv
    <3>2. CASE n # slot[s]
      BY <1>3, <2>2, <3>2 DEF Settle, TypesInv, ReportsInv
    <3> QED
      BY <3>1, <3>2
  <2> QED
    BY <1>3, <2>1, <2>2 DEF TypesInv
<1>4. ASSUME NEW s \in 1..Slots, Finish(s) \/ Die(s)
      PROVE  TypesInv'
  <2>1. slot[s] \in Nodes
    BY <1>4 DEF Finish, Die, SlotInv
  <2>2. /\ Settle(s, ReportOf(results[slot[s]])) \/ Settle(s, NoReport)
        /\ Exit(slot[s]) /\ UNCHANGED drifted
    BY <1>4, Zenon DEF Finish, Die
  <2> QED
    BY <1>3, <2>1, <2>2
<1>5. CASE ApplyReplicaJobDrift
  <2>1. /\ drifted' = TRUE /\ UNCHANGED <<out, pc, try>>
        /\ reports' = [n \in Nodes |-> IF Comparable(n) THEN Regraded(n) ELSE reports[n]]
    BY <1>5 DEF ApplyReplicaJobDrift, scriptVars
  <2>2. \A n \in Nodes : reports[n] = NoReport => ~Comparable(n)
    BY Zenon DEF Comparable, InventoryOf
  <2> QED
    BY <2>1, <2>2 DEF TypesInv
<1>6. ASSUME NEW n \in Nodes, Step(n)
      PROVE  UNCHANGED <<drifted, out, reports>>
  BY <1>6, Zenon DEF Step, Connect, Skip, Return, Throw, LoseConnection, TimeOut, Release, sweepVars
<1>7. ASSUME NEW n \in Nodes, Connect(n)
      PROVE  TypesInv'
  BY <1>6, <1>7 DEF Connect, Step, TypesInv
<1>8. ASSUME NEW n \in Nodes, NEW k \in 1..2, try' = [try EXCEPT ![n] = k],
             UNCHANGED <<drifted, out, reports, pc>>
      PROVE  TypesInv'
  BY <1>8 DEF TypesInv
<1>9. ASSUME NEW n \in Nodes,
             Skip(n) \/ Return(n) \/ Throw(n) \/ LoseConnection(n) \/ TimeOut(n)
      PROVE  (\E k \in 1..2 : try' = [try EXCEPT ![n] = k]) /\ UNCHANGED pc
  <2>1. 1 \in 1..2 /\ 2 \in 1..2
    OBVIOUS
  <2> QED
    BY <1>9, <2>1, Zenon DEF Skip, Return, Throw, LoseConnection, TimeOut, Record
<1>10. ASSUME NEW n \in Nodes, Release(n)
       PROVE  UNCHANGED <<pc, try>>
  BY <1>10, Zenon DEF Release
<1>11. UNCHANGED vars => UNCHANGED <<drifted, out, reports, pc, try>>
  BY DEF vars, sweepVars, scriptVars
<1>12. ASSUME NEW n \in Nodes, Step(n)
       PROVE  TypesInv'
  BY <1>1, <1>6, <1>7, <1>8, <1>9, <1>10, <1>12, Zenon DEF Step
<1> QED
  BY <1>1, <1>2, <1>4, <1>5, <1>11, <1>12 DEF Next

LEMMA TypesInit == Init => TypesInv
<1> SUFFICES ASSUME Init
             PROVE  TypesInv
  OBVIOUS
<1>1. try \in [Nodes -> 1..2]
  BY DEF Init
<1>2. /\ drifted \in BOOLEAN
      /\ out \in [Nodes -> {"none", "report", "error"}]
      /\ pc \in [Nodes -> {"waiting", "connecting", "checking", "over"}]
  BY DEF Init
<1>3. \A n \in Nodes : reports[n] = NoReport
  BY DEF Init
<1> QED
  BY <1>1, <1>2, <1>3 DEF TypesInv

LEMMA TypesFollow ==
    SlotInv /\ ConnInv /\ ResultsInv /\ ReportsInv /\ GradedInv /\ TypesInv => TypeOK
<1> SUFFICES ASSUME SlotInv, ConnInv, ResultsInv, ReportsInv, GradedInv, TypesInv
             PROVE  TypeOK
  OBVIOUS
<1>1. next \in 1..Cardinality(Nodes) + Slots
  BY NodesAreNumbered DEF SlotInv
<1>2. ASSUME NEW n \in Nodes
      PROVE  reports[n] \in IF out[n] = "report" THEN Report(n) ELSE {NoReport}
  <2>1. CASE out[n] = "report"
    <3>1. reports[n] = ReportOf(reports[n].checks) /\ reports[n].checks \in Seq(Result(n))
      BY <2>1 DEF GradedInv, ReportsInv, InOrder
    <3> QED
      BY <2>1, <3>1, ReportType, Zenon
  <2>2. CASE out[n] # "report"
    BY <2>2 DEF TypesInv
  <2> QED
    BY <2>1, <2>2
<1>3. \A n \in Nodes : results[n] \in Seq(Result(n))
  BY DEF ResultsInv, InOrder
<1> QED
  BY <1>1, <1>2, <1>3 DEF TypeOK, SlotInv, ConnInv, Connections, ResultsInv, TypesInv

\* Whatever the catalog, the inventories and the order of the steps: every variable of the sweep
\* and of the scripts keeps its type, the health of a report is null or a percentage, and a node
\* without a report shows none of it.
THEOREM SweepTyped == Spec => []TypeOK
<1>1. Init => ConnInv
  BY DEF Init, ConnInv, Connections, NoSharedConnection
<1> QED
  BY <1>1, TypesInit, ConnStep, TypesStep, GradedHolds, TypesFollow, PTL DEF Spec

-------------------------------------------------------------------------------
(* Progress: the safety part of SweepEnds. *)

\* The nodes below `next` are those taken, and a node taken either has its outcome or is in a
\* slot, with a script that is not over.
ProgressInv ==
    /\ \A n \in Nodes : out[n] = "none" <=> n >= next \/ \E s \in 1..Slots : slot[s] = n
    /\ \A s \in 1..Slots : slot[s] # 0 => pc[slot[s]] # "over"

LEMMA ProgressStep == SlotInv /\ TypesInv /\ ProgressInv /\ [Next]_vars => ProgressInv'
<1> SUFFICES ASSUME SlotInv, TypesInv, ProgressInv, [Next]_vars
             PROVE  ProgressInv'
  OBVIOUS
<1>1. CASE UNCHANGED <<out, next, slot, pc>>
  BY <1>1 DEF ProgressInv
<1>2. ASSUME NEW s \in 1..Slots, Pull(s)
      PROVE  ProgressInv'
  <2>1. /\ slot[s] = 0 /\ next \in Nodes /\ next' = next + 1 /\ UNCHANGED out
        /\ slot' = [slot EXCEPT ![s] = next] /\ pc' = [pc EXCEPT ![next] = "connecting"]
    BY <1>2, NodesAreNumbered DEF Pull, SlotInv
  <2>2. ASSUME NEW n \in Nodes
        PROVE  out[n] = "none" <=> n >= next' \/ \E t \in 1..Slots : slot'[t] = n
    <3>1. n \in Nat \ {0} /\ next \in Nat /\ (n >= next <=> n >= next + 1 \/ n = next)
      BY NodesAreNumbered DEF SlotInv
    <3>2. (\E t \in 1..Slots : slot'[t] = n) <=> n = next \/ \E t \in 1..Slots : slot[t] = n
      BY <2>1, <3>1 DEF SlotInv
    <3> QED
      BY <2>1, <3>1, <3>2 DEF ProgressInv
  <2>3. ASSUME NEW t \in 1..Slots, slot'[t] # 0
        PROVE  pc'[slot'[t]] # "over"
    BY <2>1, <2>3 DEF ProgressInv, SlotInv, TypesInv
  <2> QED
    BY <2>1, <2>2, <2>3 DEF ProgressInv
<1>3. ASSUME NEW s \in 1..Slots, NEW result, slot[s] \in Nodes,
             Settle(s, result), Exit(slot[s]), UNCHANGED next
      PROVE  ProgressInv'
  <2>1. /\ slot' = [slot EXCEPT ![s] = 0]
        /\ out'[slot[s]] # "none" /\ \A n \in Nodes : n # slot[s] => out'[n] = out[n]
        /\ \A n \in Nodes : n # slot[s] => pc'[n] = pc[n]
    BY <1>3 DEF Settle, Exit, TypesInv
  <2>2. /\ \A t \in 1..Slots : t # s => slot'[t] = slot[t] /\ slot[t] # slot[s]
        /\ slot'[s] = 0 /\ slot[s] < next
    BY <1>3, <2>1, NodesAreNumbered DEF SlotInv
  <2>3. ASSUME NEW n \in Nodes
        PROVE  out'[n] = "none" <=> n >= next \/ \E t \in 1..Slots : slot'[t] = n
    <3>1. n \in Nat \ {0} /\ next \in Nat
      BY NodesAreNumbered DEF SlotInv
    <3>2. CASE n = slot[s]
      BY <2>1, <2>2, <3>1, <3>2
    <3>3. CASE n # slot[s]
      <4>1. (\E t \in 1..Slots : slot'[t] = n) <=> (\E t \in 1..Slots : slot[t] = n)
        BY <2>2, <3>1, <3>3
      <4> QED
        BY <2>1, <3>3, <4>1 DEF ProgressInv
    <3> QED
      BY <3>2, <3>3
  <2>4. ASSUME NEW t \in 1..Slots, slot'[t] # 0
        PROVE  pc'[slot'[t]] # "over"
    <3>1. t # s /\ slot'[t] = slot[t] /\ slot[t] \in Nodes /\ slot[t] # slot[s]
      BY <2>2, <2>4 DEF SlotInv
    <3> QED
      BY <2>1, <2>4, <3>1 DEF ProgressInv
  <2> QED
    BY <1>3, <2>3, <2>4 DEF ProgressInv
<1>4. ASSUME NEW s \in 1..Slots, Finish(s) \/ Die(s)
      PROVE  ProgressInv'
  <2>1. slot[s] \in Nodes
    BY <1>4 DEF Finish, Die, SlotInv
  <2>2. /\ Settle(s, ReportOf(results[slot[s]])) \/ Settle(s, NoReport)
        /\ Exit(slot[s]) /\ UNCHANGED next
    BY <1>4, Zenon DEF Finish, Die
  <2> QED
    BY <1>3, <2>1, <2>2
<1>5. ASSUME NEW n \in Nodes, Connect(n)
      PROVE  ProgressInv'
  <2>1. pc' = [pc EXCEPT ![n] = "checking"] /\ UNCHANGED <<out, next, slot>>
    BY <1>5 DEF Connect, sweepVars
  <2> QED
    BY <2>1 DEF ProgressInv, SlotInv, TypesInv
<1>6. ASSUME NEW n \in Nodes,
             Skip(n) \/ Return(n) \/ Throw(n) \/ LoseConnection(n) \/ TimeOut(n) \/ Release(n)
      PROVE  UNCHANGED <<out, next, slot, pc>>
  BY <1>6, Zenon DEF Skip, Return, Throw, LoseConnection, TimeOut, Release, sweepVars
<1>7. ApplyReplicaJobDrift \/ UNCHANGED vars => UNCHANGED <<out, next, slot, pc>>
  BY Zenon DEF ApplyReplicaJobDrift, vars, sweepVars, scriptVars
<1> QED
  BY <1>1, <1>2, <1>4, <1>5, <1>6, <1>7 DEF Next, Step

LEMMA ProgressHolds == Spec => [](SlotInv /\ TypesInv /\ ProgressInv)
<1>1. Init => ProgressInv
  <2> SUFFICES ASSUME Init
               PROVE  ProgressInv
    OBVIOUS
  <2>1. /\ next = 1 /\ \A s \in 1..Slots : slot[s] = 0
        /\ \A n \in Nodes : out[n] = "none"
    BY DEF Init
  <2> QED
    BY <2>1, NodesAreNumbered DEF ProgressInv
<1> QED
  BY <1>1, TypesInit, TypesStep, ProgressStep, IInvHolds, PTL DEF Spec

\* The guards of the steps the code makes by itself: a loop that takes its next node, the timer
\* that kills a script, the comparison.
CanGoOn ==
    \/ \E s \in 1..Slots : slot[s] = 0 /\ next <= Cardinality(Nodes)
    \/ \E s \in 1..Slots : slot[s] # 0 /\ pc[slot[s]] # "over"
    \/ next > Cardinality(Nodes) /\ (\A s \in 1..Slots : slot[s] = 0) /\ ~drifted

SweepGoesOn == CanGoOn \/ (drifted /\ \A n \in Nodes : out[n] # "none")

\* However its scripts end, the sweep never hangs: until every node has its report or its error
\* and the jobs are compared, a free slot has a node to take, or a script can still be killed.
THEOREM SweepNeverHangs == Spec => []SweepGoesOn
<1>1. SlotInv /\ TypesInv /\ ProgressInv => SweepGoesOn
  <2> SUFFICES ASSUME SlotInv, TypesInv, ProgressInv, ~CanGoOn
               PROVE  drifted /\ \A n \in Nodes : out[n] # "none"
    BY DEF SweepGoesOn
  <2>1. \A s \in 1..Slots : slot[s] = 0
    BY DEF CanGoOn, ProgressInv
  <2>2. 1 \in 1..Slots /\ next \in Nat /\ Cardinality(Nodes) \in Nat
    BY NodesAreNumbered DEF SlotInv
  <2>3. next > Cardinality(Nodes)
    BY <2>1, <2>2 DEF CanGoOn
  <2>4. drifted
    BY <2>1, <2>3 DEF CanGoOn, TypesInv
  <2>5. ASSUME NEW n \in Nodes
        PROVE  out[n] # "none"
    BY <2>1, <2>2, <2>3, NodesAreNumbered DEF ProgressInv
  <2> QED
    BY <2>4, <2>5
<1> QED
  BY <1>1, ProgressHolds, PTL

\* A node with its report or its error keeps which; the comparison changes only what a report says.
OutcomeIsFinal == [][\A n \in Nodes : out[n] # "none" => out'[n] = out[n]]_vars

\* runOne() settles each index once: no late end of a script turns a report into an error or the
\* reverse, because a slot leaves a node as soon as it has an outcome.
THEOREM OutcomesAreFinal == Spec => OutcomeIsFinal
<1>1. SlotInv /\ TypesInv /\ ProgressInv /\ [Next]_vars
      => [\A n \in Nodes : out[n] # "none" => out'[n] = out[n]]_vars
  <2> SUFFICES ASSUME SlotInv, TypesInv, ProgressInv, Next, NEW n \in Nodes, out[n] # "none"
               PROVE  out'[n] = out[n]
    OBVIOUS
  <2>1. ASSUME NEW s \in 1..Slots, Finish(s) \/ Die(s)
        PROVE  out'[n] = out[n]
    <3>1. n # slot[s]
      BY DEF ProgressInv
    <3> QED
      BY <2>1, <3>1 DEF Finish, Die, Settle, TypesInv
  <2>2. ASSUME NEW s \in 1..Slots, Pull(s)
        PROVE  out' = out
    BY <2>2, Zenon DEF Pull
  <2>3. ASSUME NEW m \in Nodes, Step(m)
        PROVE  out' = out
    BY <2>3, Zenon DEF Step, Connect, Skip, Return, Throw, LoseConnection, TimeOut, Release, sweepVars
  <2>4. ApplyReplicaJobDrift => out' = out
    BY Zenon DEF ApplyReplicaJobDrift
  <2> QED
    BY <2>1, <2>2, <2>3, <2>4 DEF Next
<1> QED
  BY <1>1, ProgressHolds, PTL DEF Spec, OutcomeIsFinal

===============================================================================
