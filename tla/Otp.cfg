SPECIFICATION OtpSpec
CONSTANTS
  Recipient = {r1, r2}
  Allowed = {r1}
  NoRecipient = NoRecipient
  Handler = {h1, h2}
  WaitTime = 0
  HashLife = 0
  TransactionLife = 1
  NumOtpRetries = 1
  MaxOtpRequests = 2
  SmsLimit = 0
  MaxOtps = 4
  MaxTime = 2
  MaxFaults = 1
  Contact = {c1, c2}
  Email = Email
  NoContact = NoContact
  MaxOtpAttempts = 2
  OtpHandler = {h1, h2}
  MaxAdminOtps = 3
  MaxOtpFaults = 1
SYMMETRY Symmetry
CHECK_DEADLOCK FALSE
INVARIANTS
  OtpTypeOK
  SignatureIsOfRecipient
  LimitsHold
  QuotaHolds
  AttemptsHold
  AcceptedWasSent
