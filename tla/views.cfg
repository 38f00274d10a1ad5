CONSTANTS
  Tabs = {"data-products", "tables", "ai"}
  Home = "data-products"
  Elsewhere = "elsewhere"
  Target <- MCTarget
  NoTab = "none"
  LastStep = 4
  Persistent = TRUE
  Queries <- MCQueries
  Blank = 0
  PageSize = 3
  Count <- MCCount
  MaxInFlight = 3
  MaxPrompts = 4
  MaxClears = 2
  Default = "default"
  Configured = "configured"
SPECIFICATION ViewsSpec
INVARIANTS
  StepOnItsTab SeenOnce
  ListAnswersQuery HighlightListed
  EachAnswered Alternating
PROPERTIES TypingEnds
CHECK_DEADLOCK FALSE
