SPECIFICATION Spec
CONSTANTS
  r1 = r1
  r2 = r2
  w1 = w1
  w2 = w2
  d1 = d1
  alice = alice
  NoRow = NoRow
  Rows = {r1}
  Workers = {w1, w2}
  Domains = {d1}
  Hosted = {d1}
  Stoppable = {d1}
  Recipients = {alice}
  Categories = {"bad_mailbox", "connection"}
  Lifetimes = {3}
  LifeCap = 3
  MaxRetries = 2
  Reclaim = 1
  BeatGap = 1
  SuppressionTTL = 2
  MaxTime = 4
  LastEnqueue = 1
  Stalls = TRUE
  Crashes = TRUE
  DbErrors = TRUE
  Backlog = TRUE
  Admins = TRUE
  SendsAs <- OneDomain
  Recipient <- OneRecipient
  Schedules <- SmallSchedules
SYMMETRY Symmetry
INVARIANTS DeferredBeforeExpiry
PROPERTIES HoldKeepsLifetime
