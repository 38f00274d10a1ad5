SPECIFICATION FairSpec
CONSTANTS
  MaxToken = 3
  NoSso = NoSso
INVARIANTS
  IInv
  ModesExclusive
  RestingAppHasUser
PROPERTIES
  LoadingEnds
