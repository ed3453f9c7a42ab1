SPECIFICATION FairSpec
CONSTANTS
  u1 = u1
  u2 = u2
  k1 = k1
  k2 = k2
  k3 = k3
  k4 = k4
  c1 = c1
  c2 = c2
  c3 = c3
  Users = {u1, u2}
  Calls = {c1, c2, c3}
  Request <- MCRequest
  MaxInt = 2
  Opening <- MCOpening
  Rank <- MCRank
  NoCall = NoCall
INVARIANTS NeverOverdrawn AnswersAreTrue LedgerReconciles Inv
PROPERTIES EveryCallAnswered KeepsTheBook
