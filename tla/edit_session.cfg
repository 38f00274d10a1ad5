CONSTANTS
  Products = {a, b}
  Texts = {0, 1}
  First = 0
  MaxSaves = 2
  MaxTrouble = 2
  None = None
SPECIFICATION Spec
INVARIANTS IInv DraftsOfTheDisplay OwnSavesShown
CHECK_DEADLOCK FALSE
