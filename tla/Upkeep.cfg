SPECIFICATION UpkeepSpec
CONSTANTS
  team = team
  desk = desk
  small = small
  large = large
  firstKey = k1
  Boxes = {team, desk}
  NoBox = NoBox
  BoxOwner <- MCBoxOwner
  Quota <- MCQuota
  Letters = {small, large}
  BodySize <- MCBodySize
  PartSize <- MCPartSize
  Removers = {q1, q2}
  Deliveries = {d1, d2}
  MaxAsked = 6
  MaxMixed = 2
  MaxMisread = 1
  Objects = {o1, o2}
  Uploads = {u1, u2}
  NoObject = NoObject
  MaxUploads = 3
  MaxStuck = 1
  DkimKeys = {k1, k2, k3}
  NoKey = NoKey
  Tickers = {t1, t2}
  TTL = 1
  Interval = 2
INVARIANTS StorageIsOrdered RowHasObject MailVerifies
PROPERTIES DriftIsCorrected UnusedIsRemoved KeepsRotating
CHECK_DEADLOCK FALSE
