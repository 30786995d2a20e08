SPECIFICATION Spec
CONSTANTS
  r1 = r1
  r2 = r2
  w1 = w1
  w2 = w2
  d1 = d1
  alice = alice
  NoRow = NoRow
  Rows = {r1}
  Workers = {w1, w2}
  Domains = {d1}
  Hosted = {d1}
  Stoppable = {d1}
  Recipients = {alice}
  Categories = {"bad_mailbox", "connection"}
  Lifetimes = {3, 5}
  LifeCap = 5
  MaxRetries = 3
  Reclaim = 2
  BeatGap = 2
  SuppressionTTL = 2
  MaxTime = 6
  LastEnqueue = 6
  Stalls = FALSE
  Crashes = TRUE
  DbErrors = TRUE
  Backlog = TRUE
  Admins = TRUE
  SendsAs <- OneDomain
  Recipient <- OneRecipient
  Schedules <- SmallSchedules
SYMMETRY Symmetry
INVARIANTS ExclusiveDelivery DeferredWithinBudget 
