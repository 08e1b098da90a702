SPECIFICATION Spec
CONSTANTS
  p1 = p1
  p2 = p2
  Payment = {p1}
  Handler = {h1, h2}
  Event <- MixedPayout
  TargetAccount <- MCTargetAccount
  Foreign = Foreign
  NoEvent = NoEvent
  NoDoc = NoDoc
  NoCharge = NoCharge
  NoPayout = NoPayout
  MaxFaults = 1
  NotifyCap = 2
INVARIANTS
  AckedIsRecorded
