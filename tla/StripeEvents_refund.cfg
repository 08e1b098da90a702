SPECIFICATION Spec
CONSTANTS
  p1 = p1
  p2 = p2
  Payment = {p1}
  Handler = {h1, h2}
  Event <- Refunded
  TargetAccount <- MCTargetAccount
  Foreign = Foreign
  NoEvent = NoEvent
  NoDoc = NoDoc
  NoCharge = NoCharge
  NoPayout = NoPayout
  MaxFaults = 2
  NotifyCap = 2
SYMMETRY Symmetry
INVARIANTS
  SubmissionIffPaid
  OrderIndependent
  DeletedAfterConfirmation
  AckedIsReceipted
PROPERTIES
  NoLostUpdate
  ImplementsLedger
