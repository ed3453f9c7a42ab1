SPECIFICATION FairSpec
CONSTANTS
  r1 = r1
  r2 = r2
  g1 = g1
  g2 = g2
  w1 = w1
  w2 = w2
  NoPayload = NoPayload
  Nobody = Nobody
  Payloads <- Payload
  Amount <- MCAmount
  Histories <- SteadyHistories
  Withdraw = {r1}
  Gateways = {g1}
  Workers = {w1, w2}
  Identified <- NoneIdentified
  MaxFaults = 1
  Funds = 1
  LockTTL = 1
  LostAnswers = TRUE
INVARIANTS TypeOK
PROPERTIES VerdictIsSettled NoStrandedFunds
CHECK_DEADLOCK FALSE
