SPECIFICATION Spec
CONSTANTS
  r1 = r1
  r2 = r2
  w1 = w1
  w2 = w2
  h1 = h1
  h2 = h2
  Rows = {r1}
  NoRow = NoRow
  Workers = {w1, w2}
  Hosts = {h1, h2}
  RequireTLS = {}
  TLSReports = {}
  TLSOptional = {}
  NullSender = {}
  stsEnforce = FALSE
  UseDANE = FALSE
  CanRelay = FALSE
  Deferrals = {}
  Refusals = {"policy"}
  HitTTL = 2
  MissTTL = 1
  Overlap = TRUE
  DbErrors = TRUE
  MaxAttempts = 3
  MaxTime = 3
  MXLists <- Rotating
  PolicyAnswers <- NoPolicies
SYMMETRY Symmetry
PROPERTIES UpgradeWasOffered PinIsFinal
CHECK_DEADLOCK FALSE
