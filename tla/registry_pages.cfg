CONSTANTS
  Tabs = {"data-products"}
  Home = "data-products"
  Elsewhere = "elsewhere"
  Products <- MCTriple
  Names <- MCTriple
  TeamOf <- MCNoTeams
  Unassigned = 2
  Found <- MCFound
  Catalogs <- MCGap
  Stored <- MCNoStars
  PageSize = 1
  MaxOthers = 1
  MaxMoves = 2
  None = 0
SPECIFICATION Spec
INVARIANTS IInv ListedOnce DeletedLeaves
CHECK_DEADLOCK FALSE
