SPECIFICATION Spec
CONSTANTS
  NProducts = 2
  MayEnd = TRUE
  MayFail = {"thumb", "pic"}
  MaxRows = 3
  MaxCount = 2
  MaxDepth = 3
INVARIANT TopShowsCart
INVARIANT CatalogueComplete
