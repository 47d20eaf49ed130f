CONSTANTS
  Retries = 3
SPECIFICATION FairSpec
PROPERTY PreparedAtBase
