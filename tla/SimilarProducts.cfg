\* max_results from -1 to 3 or null; one row of each kind.
CONSTANTS
  p1 = p1  p2 = p2  p3 = p3  p4 = p4  c1 = c1  c2 = c2  j1 = j1  l1 = l1
  Product <- MCProduct
  Category <- MCCategory
  CategoryOf <- MCCategoryOf
  CatalogOrder <- MCCatalogOrder
  Junk <- MCJunk
  Label <- MCLabel
  NoCategory = NoCategory  Null = Null  Refusal = Refusal
  ImageError = ImageError  Failed = Failed
  MaxIds = 3
  MaxResultsArg <- MCMaxResults
  MaxRows = 1
SPECIFICATION Spec
INVARIANTS TypeOK SimilarAmongCandidates StoredMatchesReturned WithinMaxResults
CHECK_DEADLOCK FALSE
