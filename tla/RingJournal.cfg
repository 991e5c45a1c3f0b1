CONSTANTS
  Card = {c1, c2}
  Called = {c1}
  None = None
  Unknown = Unknown
  MaxEpoch = 3
  MaxOccurrence = 1
  MaxRevision = 2
  MaxWire = 2
SPECIFICATION RFairSpec
INVARIANTS
  RTypeOK
  EndNeverLost
  RevisionsIdentify
  OutboxFollowsCursor
PROPERTIES
  
  CallsEnd
CHECK_DEADLOCK FALSE
