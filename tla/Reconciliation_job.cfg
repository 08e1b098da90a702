SPECIFICATION FairSpec
CONSTANTS
  NoEvent = NoEvent
  NoCharge = NoCharge
  NoPayout = NoPayout
  MaxIssued = 3
  MaxFaults = 1
  MaxExpired = 1
  MinGap = 1
INVARIANTS
  TypeOK
  NeverAhead
  Consistent
PROPERTIES
  CompleteStays
  HonestReport
  EventuallyReconciled
