SPECIFICATION OutgoingSpec
CONSTANTS
  boss = boss
  aide = aide
  alpha = alpha
  beta = beta
  inbox = inbox
  remote = remote
  REMOTE = REMOTE
  Mails = {m1}
  Routes = {"now", "scheduled", "forward", "draft"}
  Loops = {l1, l2}
  Requests = {q1}
  NoMail = NoMail
  MaxTries = 2
  MaxSends = 2
  Faults = {"crash", "panic", "stall", "lost result"}
  MaxStops = 1
  Accounts = {boss, aide}
  NoAccount = NoAccount
  OwnerAccount <- MCOwner
  MailDomains = {alpha, beta}
  DomainOf <- MCDomainOf
  Server = Server
  AccountDefault <- MCAccountDefault
  Ceilings <- MCCeilings
  PerMinute = 1
  LimitValues <- MCLimitValues
  Sizes = {1, 2}
  NoJob = NoJob
  Workers = {w1, w2}
  Boxes = {inbox, remote, REMOTE}
  Jobs <- MCJobs
  Kind <- MCKind
  Box <- MCBox
  Owner <- MCLinked
  SameBox <- MCSameBox
  BounceMax = 1
  BounceWindow = 1
  CountErrors = TRUE
  MaxTime = 1
INVARIANTS SentOnce ToldTruly SentIsCharged CeilingsHold CapPlusRacers RetriedToTheEnd
PROPERTIES DueIsSettled LimitsHold
CHECK_DEADLOCK FALSE
