SPECIFICATION AccessSpec
CONSTANTS
  ann = ann
  bob = bob
  bot = bot
  cat = cat
  annBox = annBox
  bobBox = bobBox
  botBox = botBox
  catBox = catBox
  example = example
  t1 = t1
  t2 = t2
  t3 = t3
  c1 = c1
  c2 = c2
  x1 = x1
  x2 = x2
  Tokens = {t1, t2, t3}
  NoToken = NoToken
  Calls = {c1, c2}
  MaxEnds = 1
  MaxFailed = 1
  Caps <- MCCaps
  Wildcard = Wildcard
  Domains = {example}
  Boxes = {annBox, bobBox, botBox, catBox}
  All = All
  DomainOf <- MCDomainOf
  SessionFree = {}
  BoxCaps = {"mail:read"}
  EitherCaps = {}
  MailboxSession = "mailbox:session"
  AdminSession = "admin:session"
  Holders = {ann, bob, bot, cat}
  NoHolder = NoHolder
  OwnerOf <- MCOwnerOf
  OwnBox <- MCOwnBox
  OwnCaps <- MCOwnCaps
  CapsOf <- MCCapsOf
  OwnerRole = "owner"
  GrantKeys <- MCGrantKeys
  NoGrant = NoGrant
  FirstGrants <- MCFirstGrants
  Changes = {x1, x2}
  NoChange = NoChange
  ServerCaps <- MCCaps
  MaxOwnerDepth = 3
  MaxChanges = 3
  MaxUnlocked = 1
  Writers = {w1, w2}
  Replicas = {r1, r2}
  Nobody = Nobody
  Quiet = 1
  Hour = 2
  Day = 5
  HttpsAttempts = 2
  MaxClock = 5
  MaxEntries = 2
  MaxLost = 2
SYMMETRY Symmetry
INVARIANTS ExchangedOnce EndedIsEnded GrantsHold LogIsProvable AnchoredInTime
PROPERTIES GrantedWithinHeld
CHECK_DEADLOCK FALSE
