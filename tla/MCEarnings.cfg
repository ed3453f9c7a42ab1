SPECIFICATION Spec
CONSTANTS
  player = player
  agent = agent
  boss = boss
  d1 = d1
  k1 = k1
  k2 = k2
  w1 = w1
  x1 = x1
  None = None
  Users = {player, agent, boss}
  Deposit = {d1}
  Player <- MCPlayer
  Paid <- MCPaid
  Opening <- MCOpening
  MaxInt = 20
  Subscribers = {"commissions"}
  Publications = 2
  MaxFaults = 1
  Desks = {k1, k2}
  ReferredBy <- MCReferredBy
  Affiliates = {agent}
  ManagerOf <- MCManagerOf
  Ceiling <- MCCeiling
  LevelPercent <- MCLevelPercent
  Override <- MCOverride
  Payment = {w1}
  Payee <- MCPayee
  Asked <- MCAsked
  PixKeys = {x1}
  PixKeyOf <- MCPixKeyOf
SYMMETRY DeskSymmetry
INVARIANTS TypeOK LockedIsOwed RowsFollowMoney PayoutsTellTheMoney EarningsArrive
CHECK_DEADLOCK FALSE
