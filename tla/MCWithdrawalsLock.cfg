SPECIFICATION Spec
CONSTANTS
  r1 = r1
  r2 = r2
  g1 = g1
  g2 = g2
  w1 = w1
  w2 = w2
  NoPayload = NoPayload
  Nobody = Nobody
  Payloads <- Webhook
  Amount <- MCAmount
  Histories <- LateHistories
  Withdraw = {r1, r2}
  Gateways = {g1, g2}
  Workers = {w1}
  Identified <- NoneIdentified
  MaxFaults = 1
  Funds = 2
  LockTTL = 1
  LostAnswers = FALSE
INVARIANTS StatusTellsTheMoney AckedMeansSettled LockedIsReserved GivenBackOnlyIfUnheld OneRequestAtATime
SYMMETRY Symmetry
CHECK_DEADLOCK FALSE
