CONSTANTS
  Tabs = {"data-products", "ai"}
  Home = "data-products"
  Elsewhere = "elsewhere"
  Products <- MCPair
  Names <- MCPair
  TeamOf <- MCTeamOf
  Unassigned = 2
  Found <- MCSecond
  Catalogs <- MCCatalogs
  Stored <- MCStored
  PageSize = 1
  MaxOthers = 0
  MaxMoves = 3
  None = 0
SPECIFICATION FairSpec
INVARIANTS AddressNamesTab
PROPERTIES SelectionSettles
CHECK_DEADLOCK FALSE
