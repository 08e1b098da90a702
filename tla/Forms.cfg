SPECIFICATION FormsSpec
CONSTANTS
  MaxRequests = 3
  Fields = 2
  Logics = 2
  Key = {k1}
  NoKey = NoKey
  Handler = {h1, h2}
  SubmissionLimit = 1
  MaxUploads = 2
  MaxReceived = 3
  MaxFaults = 1
  Recipient = {r1, r2}
  BounceHandler = {h1, h2}
  MaxNotifications = 3
  MaxLost = 1
  Form = {f1}
  u1 = u1
  u2 = u2
  NoUser = NoUser
  w1 = w1
  w2 = w2
  w3 = w3
  User = {u1, u2}
  Workspace = {w1, w2, w3}
  AdminOf <- MCAdminOf
  TaskHandler = {h1, h2}
  MaxTasks = 2
  MaxAborts = 1
SYMMETRY Symmetry
CHECK_DEADLOCK FALSE
INVARIANTS
  FormsTypeOK
  FieldsStay
  LimitHolds
  OnlyCleanFiles
  DeactivationJustified
  NoticesBounded
  OneWorkspace
PROPERTIES
  SavesOnlyTarget
  FormsStayFiled
  OwnFormsArchived
