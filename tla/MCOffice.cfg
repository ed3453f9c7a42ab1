SPECIFICATION OfficeSpec
CONSTANTS
  Services = {"sessions", "sign-in", "game-config", "invites", "promotions", "router", "push",
              "accounts"}
  Families = {f1, f2}
  Tokens = {t1, t2}
  t1 = t1
  t2 = t2
  Requests = {r1, r2}
  ConcurrentSessions = {TRUE, FALSE}
  SessionBounds <- MCSessionBounds
  NoToken = NoToken
  Callers = {c1, c2}
  LoginMax = 4
  MAX_LOGIN_ATTEMPTS = 2
  AttemptsBound = 4
  MaxSignInDeaths = 1
  Admins = {a1, a2}
  MaxVersions = 3
  MaxConfigDeaths = 1
  Invites = {i1}
  Candidates = {u1, u2}
  Clerks = {k1, k2}
  MaxInviteDeaths = 1
  Nobody = Nobody
  rookie = rookie
  veteran = veteran
  d1 = d1
  d2 = d2
  d3 = d3
  Users = {rookie, veteran}
  Deposit = {d1, d2, d3}
  Player <- MCPlayer
  Paid <- MCPaid
  Opening <- MCOpening
  MaxInt = 20
  Subscribers = {"promotions"}
  Publications = 2
  MaxFaults = 1
  None = None
  Handlers = {h1, h2}
  Eligible = {rookie}
  BonusPercent = 50
  Gateways = {1, 2, 3}
  Payments = {p1, p2}
  RouterBounds <- MCRouterBounds
  Notices = {n1}
  MaxEndpoints = 2
  Attempts = 3
  MaxPushDeaths = 2
  AccountIds = {b1, b2}
  Operators = {o1, o2}
  MaxAccountDeaths = 1
  NoAccount = NoAccount
INVARIANTS OfficeTypeOK SignInIsBounded VersionsAreSound ManagersAreSound OneBonusPerPlayer RoundRobinIsFair AlarmsAreCurrent NoticesAreAccountedFor IdentitiesAreSafe
PROPERTIES DeadFamiliesStayDead RevocationsFinish
CHECK_DEADLOCK FALSE
