------------------------- MODULE MC_SimilarProducts -------------------------
(***************************************************************************)
(* Small catalog for TLC: four products, three in category c1 and one      *)
(* without a category, listed in the catalog order p1..p4; one id that     *)
(* names no product; remote answers of up to four ids.                     *)
(***************************************************************************)
EXTENDS SimilarProducts, TLC

CONSTANTS p1, p2, p3, p4, c1, c2, j1, l1

MCProduct == {p1, p2, p3, p4}
MCCategory == {c1, c2}
MCCategoryOf == (p1 :> c1) @@ (p2 :> c1) @@ (p3 :> c1) @@ (p4 :> NoCategory)
MCCatalogOrder == <<p1, p2, p3, p4>>
MCJunk == {j1}
MCLabel == {l1}
\* max_results a client may send: negative, zero, below and at the default.
MCMaxResults == {-1, 0, 1, 3}
MCMaxResultsBad == {-1, 3}

\* Keep, the non-recursive filter the proofs reason about, is the ordered
\* filter SelectSeq on every sequence of up to four elements (repeats
\* included) and every set to keep.
ASSUME KeepIsSelectSeq ==
  \A n \in 0..4 : \A s \in [1..n -> {p1, p2, j1}] : \A X \in SUBSET {p1, p2, p3} :
    Keep(s, X) = SelectSeq(s, LAMBDA x : x \in X)
=============================================================================
