--------------------------- MODULE SimilarProducts ---------------------------
(***************************************************************************)
(* The two image mutations of saleor/graphql/hardware/schema.py:           *)
(* identifyHardwareImage (IdentifyHardwareImage.perform_mutation) and      *)
(* findSimilarProducts (FindSimilarProducts.perform_mutation), with the    *)
(* GeminiClient calls they make (identify_hardware_from_image,             *)
(* find_similar_products, _process_uploaded_file) and the                  *)
(* HardwareIdentification and ProductSimilaritySearch rows they write.     *)
(*                                                                         *)
(* Each mutation writes one row and reads the catalog, which no action    *)
(* here changes, so each is one atomic step.  The remote model is an      *)
(* oracle: its answer to find_similar_products is the list of ids that    *)
(* response.text.split(",") yields after strip(), drawn from the catalog  *)
(* ids and from ids that name no product.                                 *)
(***************************************************************************)
EXTENDS Integers, Sequences, FiniteSets, Functions

CONSTANTS
  Product,        \* ids of the catalog's Product rows
  Category,       \* ids of categories
  NoCategory,     \* category_id absent (None or "") / product without category
  CategoryOf,     \* CategoryOf[p]: the category of product p
  CatalogOrder,   \* the Product rows in the catalog's default ordering
  Junk,           \* ids the remote model may answer with that name no product
  MaxIds,         \* most ids in one remote answer
  MaxResultsArg,  \* integers a client sends as max_results
  Null,           \* max_results: null sent explicitly
  Label,          \* component names identify_hardware_from_image may return
  Refusal,        \* "I cannot identify this as a PC hardware component"
  ImageError,     \* "Error processing image: ..."
  Failed,         \* find_similar_products raised: it returns []
  MaxRows         \* bound on the rows written

ASSUME ConstantsAssumption ==
  /\ CategoryOf \in [Product -> Category \cup {NoCategory}]
  /\ CatalogOrder \in Seq(Product)
  /\ Range(CatalogOrder) = Product
  /\ IsInjective(CatalogOrder)     \* each Product row once
  /\ Junk \cap Product = {}
  /\ MaxIds \in Nat \ {0}
  /\ MaxResultsArg \subseteq Int
  /\ Null \notin Int
  /\ {Refusal, ImageError} \cap Label = {}
  /\ MaxRows \in Nat

VARIABLES
  identifications,  \* HardwareIdentification.result of every row, in order
  searches,         \* ProductSimilaritySearch rows, in order
  response          \* what the last findSimilarProducts call saw and returned

vars == <<identifications, searches, response>>

IdText == Label \cup {Refusal, ImageError}

\* Lists of ids response.text.strip().split(",") can yield (never empty).
RemoteAnswer == UNION {[1..n -> Product \cup Junk] : n \in 1..MaxIds}

\* The positions of s whose element is in X.
KeptAt(s, X) == {i \in 1..Len(s) : s[i] \in X}

\* The number of kept positions up to position i.
RankIn(s, X, i) == Cardinality({j \in KeptAt(s, X) : j <= i})

\* [x for x in s if x in X]: the elements of s that are in X, in the order
\* of s; the k-th one sits at the kept position of rank k.
Keep(s, X) ==
  [k \in 1..Cardinality(KeptAt(s, X)) |->
     s[CHOOSE i \in KeptAt(s, X) : RankIn(s, X, i) = k]]

\* Mutant: the except branch returns find_similar_products' [] sentinel.
IdentifyOutcomeSentinel(typed) == IF typed THEN IdText ELSE {Failed}

\* identify_hardware_from_image: without a MIME type for the file name
\* _process_uploaded_file raises and the error text is returned; otherwise
\* the remote model names the component, refuses, or the call fails.
IdentifyOutcome(typed) == IF typed THEN IdText ELSE {ImageError}

\* find_similar_products: the remote answer, or Failed when the file has no
\* MIME type or the remote call raises.
SimilarOutcome(typed) == IF typed THEN RemoteAnswer \cup {Failed} ELSE {Failed}

\* Mutant: the category filter is dropped.
CandidatesUnfiltered(cat) == CatalogOrder

\* product_database: Product.objects.all(), filtered on category_id when
\* one is given, in the catalog's order.
Candidates(cat) ==
  Keep(CatalogOrder, {p \in Product : cat = NoCategory \/ CategoryOf[p] = cat})

\* Mutant: the products listed in the remote model's order, one per id it
\* answered with (the ordering the specification describes).
FindSimilarInAnswerOrder(db, answer) ==
  IF answer = Failed THEN <<>> ELSE SelectSeq(answer, LAMBDA t : t \in Range(db))

\* find_similar_products: the products of product_database whose id is in
\* the remote answer, in product_database order; [] when the call failed.
FindSimilar(db, answer) ==
  IF answer = Failed THEN <<>> ELSE Keep(db, Range(answer))

\* Mutant: one element too many kept.
SliceToOffByOne(s, m) ==
  IF m = Null THEN s
  ELSE IF m >= 0 THEN SubSeq(s, 1, IF m + 1 < Len(s) THEN m + 1 ELSE Len(s))
  ELSE SubSeq(s, 1, IF Len(s) + m > 0 THEN Len(s) + m ELSE 0)

\* Python's s[:m] for m an int or None.
SliceTo(s, m) ==
  IF m = Null THEN s
  ELSE IF m >= 0 THEN SubSeq(s, 1, IF m < Len(s) THEN m ELSE Len(s))
  ELSE SubSeq(s, 1, IF Len(s) + m > 0 THEN Len(s) + m ELSE 0)

\* Product.objects.filter(id__in=ids): the products in the catalog's order.
ProductsIn(ids) == Keep(CatalogOrder, Range(ids))

Init ==
  /\ identifications = <<>>
  /\ searches = <<>>
  /\ response = [category |-> NoCategory, max |-> Null, answer |-> Failed,
                 stored |-> <<>>, products |-> <<>>]

\* identifyHardwareImage: save the upload, identify it, create the row.
IdentifyHardwareImage ==
  /\ Len(identifications) < MaxRows
  /\ \E typed \in BOOLEAN :
       \E result \in IdentifyOutcome(typed) :
         identifications' = Append(identifications, result)
  /\ UNCHANGED <<searches, response>>

\* findSimilarProducts: save the upload, build product_database, identify
\* the component, find the similar products, keep the first max_results,
\* create the search row and return Product.objects.filter(id__in=ids).
FindSimilarProducts ==
  /\ Len(searches) < MaxRows
  /\ \E typed \in BOOLEAN, cat \in Category \cup {NoCategory},
        m \in MaxResultsArg \cup {Null} :
     \E component \in IdentifyOutcome(typed), answer \in SimilarOutcome(typed) :
       LET ids == SliceTo(FindSimilar(Candidates(cat), answer), m)
       IN  /\ searches' = Append(searches, [component |-> component, ids |-> ids])
           /\ response' = [category |-> cat, max |-> m, answer |-> answer,
                           stored |-> ids, products |-> ProductsIn(ids)]
  /\ UNCHANGED identifications

Next == IdentifyHardwareImage \/ FindSimilarProducts

Spec == Init /\ [][Next]_vars

-----------------------------------------------------------------------------
(***************************************************************************)
(* Properties.                                                             *)
(***************************************************************************)

\* Every variable holds a value of its type.
TypeOK ==
  /\ identifications \in Seq(IdText)
  /\ searches \in Seq([component : IdText, ids : Seq(Product)])
  /\ response \in [category : Category \cup {NoCategory},
                   max : MaxResultsArg \cup {Null},
                   answer : RemoteAnswer \cup {Failed},
                   stored : Seq(Product), products : Seq(Product)]

\* findSimilarProducts returns, and stores, only products of the category
\* it was asked about, whatever ids the remote model answers with.
SimilarAmongCandidates ==
  \A p \in Range(response.stored) \cup Range(response.products) :
    response.category \in {NoCategory, CategoryOf[p]}

\* The ProductSimilaritySearch row stores exactly the products the mutation
\* returns: resolving similar_product_ids later gives the same products.
StoredMatchesReturned ==
  /\ Range(response.products) = Range(response.stored)
  /\ Len(response.products) = Len(response.stored)

\* A non-negative max_results bounds the number of products returned.
WithinMaxResults ==
  response.max \in Nat => Len(response.products) <= response.max

\* Testable property 4: never more products than max_results, which
\* defaults to 3.
NeverMoreThanMax ==
  Len(response.products) <= IF response.max = Null THEN 3
                            ELSE IF response.max < 0 THEN 0 ELSE response.max

\* The ranking the specification describes: the remote model's ids that are
\* candidates, in the model's order, each once.
RelevanceRanking(db, answer) ==
  LET firsts == {i \in 1..Len(answer) :
                   /\ answer[i] \in Range(db)
                   /\ \A j \in 1..(i - 1) : answer[j] # answer[i]}
      order == CHOOSE f \in [1..Cardinality(firsts) -> firsts] :
                 \A i, j \in DOMAIN f : i < j => f[i] < f[j]
  IN  [k \in DOMAIN order |-> answer[order[k]]]

\* Testable property 6: the products returned are the best-ranked matches in
\* the order the remote model ranked them.
RelevanceOrderKept ==
  response.answer # Failed =>
    response.products =
      SliceTo(RelevanceRanking(Candidates(response.category), response.answer),
              response.max)
=============================================================================
