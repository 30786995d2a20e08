SPECIFICATION Spec
CONSTANTS
  r1 = r1
  r2 = r2
  w1 = w1
  w2 = w2
  h1 = h1
  h2 = h2
  Rows = {r1, r2}
  NoRow = NoRow
  Workers = {w1}
  Hosts = {h1, h2}
  RequireTLS = {r2}
  TLSReports = {}
  TLSOptional = {r2}
  NullSender = {}
  stsEnforce = TRUE
  UseDANE = TRUE
  CanRelay = TRUE
  Deferrals = {}
  Refusals = {"policy"}
  HitTTL = 2
  MissTTL = 1
  Overlap = FALSE
  DbErrors = FALSE
  MaxAttempts = 2
  MaxTime = 0
  MXLists <- Rotating
  PolicyAnswers <- SomePolicies
INVARIANTS RequireTLSKept PolicyKept PinOutlastsAnswers
CHECK_DEADLOCK FALSE
