CONSTANTS
  Retries = 3
SPECIFICATION FairSpec
INVARIANTS TypeOK ResetReproduces
PROPERTIES  AlwaysRecovers
