SPECIFICATION Spec
CONSTANTS
  c1 = c1
  c2 = c2
  c3 = c3
  c4 = c4
  Calls = {c1, c2, c3, c4}
  Goal = 1
  MaxPlatforms = 2
  Bet = 1
  PayoutAt <- MCPayout
  Funds = 1
  MaxCrashes = 0
SYMMETRY CallSymmetry
INVARIANTS MoneyMatchesOutcome
