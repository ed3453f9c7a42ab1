SPECIFICATION Spec
CONSTANTS
  r1 = r1
  r2 = r2
  g1 = g1
  g2 = g2
  w1 = w1
  w2 = w2
  NoPayload = NoPayload
  Nobody = Nobody
  Payloads <- Payload
  Amount <- MCAmount
  Histories <- ApprovingHistories
  Withdraw = {r1}
  Gateways = {g1, g2}
  Workers = {w1}
  Identified <- NoneIdentified
  MaxFaults = 0
  Funds = 1
  LockTTL = 2
  LostAnswers = TRUE
INVARIANTS GivenBackOnlyIfUnheld
CHECK_DEADLOCK FALSE
