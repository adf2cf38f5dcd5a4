\* Testable property 4: max_results null or negative.
CONSTANTS
  p1 = p1  p2 = p2  p3 = p3  p4 = p4  c1 = c1  c2 = c2  j1 = j1  l1 = l1
  Product <- MCProduct
  Category <- MCCategory
  CategoryOf <- MCCategoryOf
  CatalogOrder <- MCCatalogOrder
  Junk <- MCJunk
  Label <- MCLabel
  NoCategory = NoCategory  Null = Null  Refusal = Refusal
  ImageError = ImageError  Failed = Failed
  MaxIds = 4
  MaxResultsArg <- MCMaxResultsBad
  MaxRows = 1
SPECIFICATION Spec
INVARIANT NeverMoreThanMax
CHECK_DEADLOCK FALSE
