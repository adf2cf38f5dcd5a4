----------------------- MODULE SimilarProducts_proofs -----------------------
(***************************************************************************)
(* Proofs about the image mutations of module SimilarProducts: what the    *)
(* ordered filter Keep returns, and the invariants of findSimilarProducts' *)
(* response for every catalog, every remote answer and every max_results.  *)
(***************************************************************************)
EXTENDS SimilarProducts, FiniteSetTheorems, TLAPS

-----------------------------------------------------------------------------
(***************************************************************************)
(* The ordered filter Keep.                                                *)
(***************************************************************************)

\* The kept position of rank k.
Pos(s, X, k) == CHOOSE i \in KeptAt(s, X) : RankIn(s, X, i) = k

\* The kept positions are finitely many positions of s.
LEMMA KeptFinite ==
  ASSUME NEW S, NEW s \in Seq(S), NEW X
  PROVE  /\ KeptAt(s, X) \subseteq 1..Len(s)
         /\ IsFiniteSet(KeptAt(s, X))
         /\ Cardinality(KeptAt(s, X)) \in Nat
<1>1. KeptAt(s, X) \subseteq 1..Len(s)
  BY DEF KeptAt
<1>2. IsFiniteSet(KeptAt(s, X))
  BY <1>1, FS_Interval, FS_Subset
<1>3. QED
  BY <1>1, <1>2, FS_CardinalityType

\* A kept position's rank lies between 1 and the number of kept positions.
LEMMA RankBounds ==
  ASSUME NEW S, NEW s \in Seq(S), NEW X, NEW i \in KeptAt(s, X)
  PROVE  RankIn(s, X, i) \in 1..Cardinality(KeptAt(s, X))
<1> DEFINE K == KeptAt(s, X)
           L == {j \in K : j <= i}
<1>1. IsFiniteSet(K) /\ Cardinality(K) \in Nat /\ K \subseteq 1..Len(s)
  BY KeptFinite
<1>2. L \subseteq K /\ i \in L
  BY <1>1
<1>3. IsFiniteSet(L) /\ Cardinality(L) <= Cardinality(K)
  BY <1>1, <1>2, FS_Subset
<1>4. Cardinality(L) \in Nat /\ Cardinality(L) # 0
  BY <1>2, <1>3, FS_CardinalityType, FS_EmptySet
<1>5. QED
  BY <1>1, <1>3, <1>4 DEF RankIn

\* Ranks grow strictly along the kept positions.
LEMMA RankStrict ==
  ASSUME NEW S, NEW s \in Seq(S), NEW X, NEW i \in KeptAt(s, X), NEW j \in KeptAt(s, X),
         i < j
  PROVE  RankIn(s, X, i) < RankIn(s, X, j)
<1> DEFINE K == KeptAt(s, X)
           Li == {x \in K : x <= i}
           Lj == {x \in K : x <= j}
<1>1. IsFiniteSet(K) /\ K \subseteq 1..Len(s)
  BY KeptFinite
<1>2. Li \subseteq Lj /\ j \in Lj /\ j \notin Li
  BY <1>1
<1>3. IsFiniteSet(Lj) /\ Lj \subseteq K
  BY <1>1, FS_Subset
<1>4. Cardinality(Li) <= Cardinality(Lj) /\ (Cardinality(Li) = Cardinality(Lj) => Li = Lj)
  BY <1>2, <1>3, FS_Subset
<1>5. Cardinality(Li) \in Nat /\ Cardinality(Lj) \in Nat
  BY <1>2, <1>3, FS_Subset, FS_CardinalityType
<1>6. QED
  BY <1>2, <1>4, <1>5 DEF RankIn

\* Distinct kept positions have distinct ranks.
LEMMA RankInjective ==
  ASSUME NEW S, NEW s \in Seq(S), NEW X, NEW i \in KeptAt(s, X), NEW j \in KeptAt(s, X),
         RankIn(s, X, i) = RankIn(s, X, j)
  PROVE  i = j
<1>1. KeptAt(s, X) \subseteq 1..Len(s)
  BY KeptFinite
<1>2. i < j => RankIn(s, X, i) < RankIn(s, X, j)
  BY RankStrict
<1>3. j < i => RankIn(s, X, j) < RankIn(s, X, i)
  BY RankStrict
<1>4. RankIn(s, X, i) \in Nat /\ RankIn(s, X, j) \in Nat
  BY RankBounds, KeptFinite
<1>5. QED
  BY <1>1, <1>2, <1>3, <1>4

\* Every rank from 1 to the number of kept positions is taken: the kept
\* position of rank k exists, so Keep is well defined.
LEMMA PosProps ==
  ASSUME NEW S, NEW s \in Seq(S), NEW X, NEW k \in 1..Cardinality(KeptAt(s, X))
  PROVE  Pos(s, X, k) \in KeptAt(s, X) /\ RankIn(s, X, Pos(s, X, k)) = k
<1> DEFINE K == KeptAt(s, X)
           n == Cardinality(K)
           f == [i \in K |-> RankIn(s, X, i)]
<1>1. IsFiniteSet(K) /\ n \in Nat
  BY KeptFinite
<1>2. IsFiniteSet(1..n) /\ Cardinality(1..n) = n
  BY <1>1, FS_Interval
<1>3. f \in Injection(K, 1..n)
  <2>1. f \in [K -> 1..n]
    BY RankBounds
  <2>2. IsInjective(f)
    BY RankInjective DEF IsInjective
  <2>3. QED
    BY <2>1, <2>2 DEF Injection
<1>4. f \in Surjection(K, 1..n)
  BY <1>1, <1>2, <1>3, FS_Injection
<1>5. \E i \in K : RankIn(s, X, i) = k
  BY <1>4 DEF Surjection
<1>6. QED
  BY <1>5 DEF Pos

\* Keep(s, X) lists the elements of s in X, and each of them once per
\* position it holds in s.
LEMMA KeepProps ==
  ASSUME NEW S, NEW s \in Seq(S), NEW X
  PROVE  /\ Keep(s, X) \in Seq(S \cap X)
         /\ Len(Keep(s, X)) = Cardinality(KeptAt(s, X))
         /\ Range(Keep(s, X)) = Range(s) \cap X
<1> DEFINE K == KeptAt(s, X)
           n == Cardinality(K)
<1>1. n \in Nat /\ K \subseteq 1..Len(s)
  BY KeptFinite
<1>2. Keep(s, X) = [k \in 1..n |-> s[Pos(s, X, k)]]
  BY DEF Keep, Pos
<1>3. \A k \in 1..n : Pos(s, X, k) \in K
  BY PosProps
<1>4. \A k \in 1..n : s[Pos(s, X, k)] \in S \cap X
  BY <1>1, <1>3 DEF KeptAt
<1>5. Keep(s, X) \in Seq(S \cap X) /\ Len(Keep(s, X)) = n
  BY <1>1, <1>2, <1>4
<1>6. Range(Keep(s, X)) \subseteq Range(s) \cap X
  BY <1>1, <1>2, <1>3 DEF Range, KeptAt
<1>7. ASSUME NEW i \in 1..Len(s), s[i] \in X PROVE s[i] \in Range(Keep(s, X))
  <2>1. i \in K
    BY <1>7 DEF KeptAt
  <2>2. RankIn(s, X, i) \in 1..n
    BY <2>1, RankBounds
  <2>3. Pos(s, X, RankIn(s, X, i)) \in K
        /\ RankIn(s, X, Pos(s, X, RankIn(s, X, i))) = RankIn(s, X, i)
    BY <2>2, PosProps
  <2>4. Pos(s, X, RankIn(s, X, i)) = i
    BY <2>1, <2>3, RankInjective
  <2>5. QED
    BY <1>2, <2>2, <2>4 DEF Range
<1>8. QED
  BY <1>5, <1>6, <1>7 DEF Range

\* Filtering a list without repeats gives a list without repeats: the
\* catalog lists each product once, so product_database does too.
LEMMA KeepInjective ==
  ASSUME NEW S, NEW s \in Seq(S), NEW X, IsInjective(s)
  PROVE  IsInjective(Keep(s, X))
<1> DEFINE K == KeptAt(s, X)
           n == Cardinality(K)
<1>1. n \in Nat /\ K \subseteq 1..Len(s)
  BY KeptFinite
<1>2. Keep(s, X) = [k \in 1..n |-> s[Pos(s, X, k)]]
  BY DEF Keep, Pos
<1>3. SUFFICES ASSUME NEW k1 \in 1..n, NEW k2 \in 1..n,
                      s[Pos(s, X, k1)] = s[Pos(s, X, k2)]
               PROVE  k1 = k2
  BY <1>2 DEF IsInjective
<1>4. Pos(s, X, k1) \in K /\ RankIn(s, X, Pos(s, X, k1)) = k1
  BY PosProps
<1>5. Pos(s, X, k2) \in K /\ RankIn(s, X, Pos(s, X, k2)) = k2
  BY PosProps
<1>6. Pos(s, X, k1) = Pos(s, X, k2)
  BY <1>1, <1>3, <1>4, <1>5 DEF IsInjective
<1>7. QED
  BY <1>4, <1>5, <1>6

\* A list without repeats has as many elements as its range.
LEMMA InjectiveCard ==
  ASSUME NEW S, NEW t \in Seq(S), IsInjective(t)
  PROVE  IsFiniteSet(Range(t)) /\ Cardinality(Range(t)) = Len(t)
<1>1. t \in Bijection(1..Len(t), Range(t))
  BY DEF Bijection, Injection, Surjection, IsInjective, Range
<1>2. ExistsBijection(1..Len(t), Range(t))
  BY <1>1 DEF ExistsBijection
<1>3. IsFiniteSet(Range(t))
  BY <1>2, FS_Interval, FS_Bijection
<1>4. QED
  BY <1>2, <1>3, FS_CountingElements

\* Python's s[:m] keeps a prefix of s: no new elements, no repeats, and at
\* most m of them for m >= 0.
LEMMA SliceProps ==
  ASSUME NEW S, NEW s \in Seq(S), NEW m \in Int \cup {Null}
  PROVE  /\ SliceTo(s, m) \in Seq(S)
         /\ Range(SliceTo(s, m)) \subseteq Range(s)
         /\ IsInjective(s) => IsInjective(SliceTo(s, m))
         /\ m \in Nat => Len(SliceTo(s, m)) <= m
<1>1. CASE m = Null
  BY <1>1, ConstantsAssumption DEF SliceTo
<1>2. CASE m # Null
  <2> DEFINE n == IF m >= 0 THEN IF m < Len(s) THEN m ELSE Len(s)
                  ELSE IF Len(s) + m > 0 THEN Len(s) + m ELSE 0
  <2>1. m \in Int /\ n \in 0..Len(s) /\ (m \in Nat => n <= m)
    BY <1>2
  <2>2. SliceTo(s, m) = [i \in 1..n |-> s[i]]
    BY <1>2, <2>1 DEF SliceTo
  <2>3. QED
    BY <2>1, <2>2 DEF Range, IsInjective
<1>3. QED
  BY <1>1, <1>2

\* Product.objects.filter(id__in=ids) for ids of catalog products without
\* repeats returns one product per id: the same set, as many.
LEMMA ProductsInProps ==
  ASSUME NEW ids \in Seq(Product), IsInjective(ids)
  PROVE  /\ ProductsIn(ids) \in Seq(Product)
         /\ Range(ProductsIn(ids)) = Range(ids)
         /\ Len(ProductsIn(ids)) = Len(ids)
<1>1. ProductsIn(ids) \in Seq(Product) /\ Range(ProductsIn(ids)) = Range(ids)
  <2>1. Range(ids) \subseteq Product
    BY DEF Range
  <2>2. /\ Keep(CatalogOrder, Range(ids)) \in Seq(Product \cap Range(ids))
        /\ Range(Keep(CatalogOrder, Range(ids))) = Range(CatalogOrder) \cap Range(ids)
    BY ConstantsAssumption, KeepProps
  <2>3. Seq(Product \cap Range(ids)) \subseteq Seq(Product)
    OBVIOUS
  <2>4. QED
    BY <2>1, <2>2, <2>3, ConstantsAssumption DEF ProductsIn
<1>2. IsInjective(ProductsIn(ids))
  BY ConstantsAssumption, KeepInjective DEF ProductsIn
<1>3. Cardinality(Range(ProductsIn(ids))) = Len(ProductsIn(ids))
  BY <1>1, <1>2, InjectiveCard
<1>4. Cardinality(Range(ids)) = Len(ids)
  BY InjectiveCard
<1>5. QED
  BY <1>1, <1>3, <1>4

-----------------------------------------------------------------------------
(***************************************************************************)
(* The response of findSimilarProducts.                                    *)
(***************************************************************************)

\* The ids findSimilarProducts keeps, for category cat, max_results m and
\* remote answer answer.
KeptIds(cat, m, answer) == SliceTo(FindSimilar(Candidates(cat), answer), m)

\* The products of category cat (any product when no category is given).
OfCategory(cat) == {p \in Product : cat = NoCategory \/ CategoryOf[p] = cat}

\* Whatever the remote model answers, the ids findSimilarProducts keeps are
\* catalog products of the category asked about, each at most once, and at
\* most max_results of them when max_results is not negative.
LEMMA KeptIdsProps ==
  ASSUME NEW cat, NEW m \in MaxResultsArg \cup {Null}, NEW answer
  PROVE  /\ KeptIds(cat, m, answer) \in Seq(OfCategory(cat))
         /\ IsInjective(KeptIds(cat, m, answer))
         /\ m \in Nat => Len(KeptIds(cat, m, answer)) <= m
<1> DEFINE db == Candidates(cat)
           found == FindSimilar(db, answer)
<1>1. db \in Seq(OfCategory(cat)) /\ IsInjective(db)
  <2>1. db \in Seq(Product \cap OfCategory(cat))
    BY ConstantsAssumption, KeepProps DEF Candidates, OfCategory
  <2>2. Seq(Product \cap OfCategory(cat)) \subseteq Seq(OfCategory(cat))
    OBVIOUS
  <2>3. IsInjective(db)
    BY ConstantsAssumption, KeepInjective DEF Candidates
  <2>4. QED
    BY <2>1, <2>2, <2>3
<1>2. found \in Seq(OfCategory(cat)) /\ IsInjective(found)
  <2>1. CASE answer = Failed
    BY <2>1 DEF FindSimilar, IsInjective
  <2>2. CASE answer # Failed
    <3>1. Keep(db, Range(answer)) \in Seq(OfCategory(cat) \cap Range(answer))
      BY <1>1, KeepProps
    <3>2. Seq(OfCategory(cat) \cap Range(answer)) \subseteq Seq(OfCategory(cat))
      OBVIOUS
    <3>3. IsInjective(Keep(db, Range(answer)))
      BY <1>1, KeepInjective
    <3>4. QED
      BY <2>2, <3>1, <3>2, <3>3 DEF FindSimilar
  <2>3. QED
    BY <2>1, <2>2
<1>3. m \in Int \cup {Null}
  BY ConstantsAssumption
<1>4. QED
  BY <1>2, <1>3, SliceProps DEF KeptIds

-----------------------------------------------------------------------------
(***************************************************************************)
(* The invariants.                                                         *)
(***************************************************************************)

\* The response invariants hold together with the type invariant in every
\* reachable state, and this conjunction is inductive: every call of
\* findSimilarProducts recomputes the whole response from the catalog.
IInv ==
  /\ TypeOK
  /\ SimilarAmongCandidates
  /\ StoredMatchesReturned
  /\ WithinMaxResults

\* The initial state satisfies IInv.
LEMMA InitIInv == Init => IInv
<1> SUFFICES ASSUME Init PROVE IInv
  OBVIOUS
<1>1. response.stored = <<>> /\ response.products = <<>>
  BY DEF Init
<1>2. Range(<<>>) = {}
  BY DEF Range
<1>3. TypeOK
  BY ConstantsAssumption DEF Init, TypeOK
<1>4. QED
  BY <1>1, <1>2, <1>3 DEF IInv, SimilarAmongCandidates, StoredMatchesReturned,
                          WithinMaxResults

\* identifyHardwareImage writes a HardwareIdentification row and leaves the
\* search rows and the last response alone.
LEMMA IdentifyIInv == IInv /\ IdentifyHardwareImage => IInv'
<1> SUFFICES ASSUME IInv, IdentifyHardwareImage PROVE IInv'
  OBVIOUS
<1>1. identifications' \in Seq(IdText)
  BY DEF IInv, TypeOK, IdentifyHardwareImage, IdentifyOutcome, IdText
<1>2. QED
  BY <1>1 DEF IInv, TypeOK, IdentifyHardwareImage, SimilarAmongCandidates,
              StoredMatchesReturned, WithinMaxResults

\* findSimilarProducts re-establishes every response invariant, whatever the
\* previous response was.
LEMMA FindIInv == IInv /\ FindSimilarProducts => IInv'
<1> SUFFICES ASSUME IInv, FindSimilarProducts PROVE IInv'
  OBVIOUS
<1>1. PICK typed \in BOOLEAN, cat \in Category \cup {NoCategory},
           m \in MaxResultsArg \cup {Null} :
        \E component \in IdentifyOutcome(typed), answer \in SimilarOutcome(typed) :
          LET ids == SliceTo(FindSimilar(Candidates(cat), answer), m)
          IN  /\ searches' = Append(searches, [component |-> component, ids |-> ids])
              /\ response' = [category |-> cat, max |-> m, answer |-> answer,
                              stored |-> ids, products |-> ProductsIn(ids)]
  BY DEF FindSimilarProducts
<1>2. PICK component \in IdentifyOutcome(typed), answer \in SimilarOutcome(typed) :
        /\ searches' = Append(searches, [component |-> component,
                                         ids |-> KeptIds(cat, m, answer)])
        /\ response' = [category |-> cat, max |-> m, answer |-> answer,
                        stored |-> KeptIds(cat, m, answer),
                        products |-> ProductsIn(KeptIds(cat, m, answer))]
  BY <1>1 DEF KeptIds
<1> DEFINE ids == KeptIds(cat, m, answer)
<1>3. /\ ids \in Seq(OfCategory(cat))
      /\ IsInjective(ids)
      /\ m \in Nat => Len(ids) <= m
  BY KeptIdsProps
<1>4. ids \in Seq(Product)
  <2>1. OfCategory(cat) \subseteq Product
    BY DEF OfCategory
  <2>2. QED
    BY <1>3, <2>1
<1>5. /\ ProductsIn(ids) \in Seq(Product)
      /\ Range(ProductsIn(ids)) = Range(ids)
      /\ Len(ProductsIn(ids)) = Len(ids)
  BY <1>3, <1>4, ProductsInProps
<1>6. component \in IdText /\ answer \in RemoteAnswer \cup {Failed}
  BY DEF IdentifyOutcome, SimilarOutcome, IdText
<1>7. TypeOK'
  <2>1. identifications' \in Seq(IdText)
    BY DEF IInv, TypeOK, FindSimilarProducts
  <2>2. searches' \in Seq([component : IdText, ids : Seq(Product)])
    BY <1>2, <1>4, <1>6 DEF IInv, TypeOK
  <2>3. response' \in [category : Category \cup {NoCategory},
                       max : MaxResultsArg \cup {Null},
                       answer : RemoteAnswer \cup {Failed},
                       stored : Seq(Product), products : Seq(Product)]
    BY <1>2, <1>4, <1>5, <1>6
  <2>4. QED
    BY <2>1, <2>2, <2>3 DEF TypeOK
<1>8. SimilarAmongCandidates'
  <2>1. \A p \in Range(ids) : cat \in {NoCategory, CategoryOf[p]}
    BY <1>3 DEF Range, OfCategory
  <2>2. QED
    BY <1>2, <1>5, <2>1 DEF SimilarAmongCandidates
<1>9. StoredMatchesReturned' /\ WithinMaxResults'
  BY <1>2, <1>3, <1>5 DEF StoredMatchesReturned, WithinMaxResults
<1>10. QED
  BY <1>7, <1>8, <1>9 DEF IInv

\* Every step of the two mutations, and every stutter, preserves IInv.
LEMMA NextIInv == IInv /\ [Next]_vars => IInv'
<1> SUFFICES ASSUME IInv, [Next]_vars PROVE IInv'
  OBVIOUS
<1>1. CASE IdentifyHardwareImage
  BY <1>1, IdentifyIInv
<1>2. CASE FindSimilarProducts
  BY <1>2, FindIInv
<1>3. CASE UNCHANGED vars
  BY <1>3 DEF vars, IInv, TypeOK, SimilarAmongCandidates, StoredMatchesReturned,
              WithinMaxResults
<1>4. QED
  BY <1>1, <1>2, <1>3 DEF Next

\* The conjunction of the response invariants holds in every reachable state.
THEOREM ResponseInvariants == Spec => []IInv
<1>1. Init => IInv
  BY InitIInv
<1>2. IInv /\ [Next]_vars => IInv'
  BY NextIInv
<1>3. QED
  BY <1>1, <1>2, PTL DEF Spec

\* Both mutations write rows of the types the models declare, and the
\* response of findSimilarProducts lists catalog products only.
THEOREM TypeCorrect == Spec => []TypeOK
BY ResponseInvariants, PTL DEF IInv

\* findSimilarProducts returns and stores only products of the category_id
\* it was called with, whatever ids the remote model answers with.
THEOREM CategoryRespected == Spec => []SimilarAmongCandidates
BY ResponseInvariants, PTL DEF IInv

\* The ids the ProductSimilaritySearch row stores resolve, through
\* Product.objects.filter(id__in=ids), to exactly the products returned,
\* one per id.
THEOREM StoredIsReturned == Spec => []StoredMatchesReturned
BY ResponseInvariants, PTL DEF IInv

\* A max_results of 0 or more bounds the number of products returned.
THEOREM MaxResultsBound == Spec => []WithinMaxResults
BY ResponseInvariants, PTL DEF IInv
=============================================================================
