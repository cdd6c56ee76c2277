\* Two workers, batches of up to three outputs.
CONSTANTS
  Workers = 2
  MaxItems = 3
  MaxEpoch = 2
SPECIFICATION FairSpec
PROPERTIES BatchReturns
CHECK_DEADLOCK FALSE
