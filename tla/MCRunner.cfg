CONSTANTS
  N = 3
  MaxInFlight = {1, 2}
SPECIFICATION FairSpec
INVARIANTS TypeOK NoSlotLost ArrivalOrder  HonestTrace SummaryCoversTrace
PROPERTIES RefinesLedger Drains
CHECK_DEADLOCK FALSE
