SPECIFICATION FairSpec
CONSTANTS
  r1 = r1
  r2 = r2
  w1 = w1
  w2 = w2
  d1 = d1
  alice = alice
  NoRow = NoRow
  Rows = {r1}
  Workers = {w1}
  Domains = {d1}
  Hosted = {d1}
  Stoppable = {}
  Recipients = {alice}
  Categories = {"connection"}
  Lifetimes = {3}
  LifeCap = 3
  MaxRetries = 2
  Reclaim = 1
  BeatGap = 1
  SuppressionTTL = 2
  MaxTime = 4
  LastEnqueue = 1
  Stalls = FALSE
  Crashes = TRUE
  DbErrors = FALSE
  Backlog = FALSE
  Admins = FALSE
  SendsAs <- OneDomain
  Recipient <- OneRecipient
  Schedules <- SmallSchedules
PROPERTIES NotStranded
