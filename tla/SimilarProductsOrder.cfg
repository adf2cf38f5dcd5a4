\* Testable property 6: relevance order of the remote answer.
CONSTANTS
  p1 = p1  p2 = p2  p3 = p3  p4 = p4  c1 = c1  c2 = c2  j1 = j1  l1 = l1
  Product <- MCProduct
  Category <- MCCategory
  CategoryOf <- MCCategoryOf
  CatalogOrder <- MCCatalogOrder
  Junk <- MCJunk
  Label <- MCLabel
  NoCategory = NoCategory  Null = Null  Refusal = Refusal
  ImageError = ImageError  Failed = Failed
  MaxIds = 3
  MaxResultsArg = {1, 3}
  MaxRows = 1
SPECIFICATION Spec
INVARIANT RelevanceOrderKept
CHECK_DEADLOCK FALSE
