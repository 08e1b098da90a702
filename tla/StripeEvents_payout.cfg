SPECIFICATION FairSpec
CONSTANTS
  p1 = p1
  p2 = p2
  Payment = {p1, p2}
  Handler = {h1, h2}
  Event <- PaidOut
  TargetAccount <- MCTargetAccount
  Foreign = Foreign
  NoEvent = NoEvent
  NoDoc = NoDoc
  NoCharge = NoCharge
  NoPayout = NoPayout
  MaxFaults = 1
  NotifyCap = 1
INVARIANTS
  AckedIsRecorded
PROPERTIES
  EventuallyAcked
