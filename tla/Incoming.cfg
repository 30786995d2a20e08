SPECIFICATION IncomingSpec
CONSTANTS
  near1 = near1
  near2 = near2
  far = far
  lan = lan
  wan = wan
  id = id
  Rcpts = {r1, b1}
  Bounces = {b1}
  MaxRecipients = 2
  MaxArrivals = 2
  MaxMoves = 1
  MaxLost = 1
  Peers = {p1, p2}
  MaxRequests = 3
  MaxBroken = 1
  Mails = {a1, a2}
  Ids = {id}
  IdOf <- MCIdOf
  Imports = {j1, j2}
  Sessions = {s1}
  NoSession = NoSession
  NoMail = NoMail
  MaxImports = 3
  MaxRefusals = 1
  Conns = {near1, near2, far}
  Ips = {lan, wan}
  IpOf <- MCIpOf
  MaxPerIP = 1
  MaxGlobal = 2
  Logins = {g1, g2}
  Users = {u1}
  AuthMaxFails = 2
  AuthBanWindow = 1
  AuthBanDuration = 2
  LoginTimeout = 1
  MaxClock = 5
  MaxGuesses = 6
INVARIANTS
  NeverRelays
  CommittedOnce
  AcceptedIsKept
  PeerKeptOnce
  ImportedOnce
  EveryImportCounted
  SlotsHold
  GuessesBounded
CHECK_DEADLOCK FALSE
