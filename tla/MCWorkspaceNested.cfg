CONSTANTS
  Retries = 3
SPECIFICATION FairSpec
INVARIANT WipedBack
