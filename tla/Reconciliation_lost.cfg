SPECIFICATION FairSpec
CONSTANTS
  NoEvent = NoEvent
  NoCharge = NoCharge
  NoPayout = NoPayout
  MaxIssued = 3
  MaxFaults = 0
  MaxExpired = 0
  MinGap = 1
PROPERTIES
  EventuallyConfirmed
