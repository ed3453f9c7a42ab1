SPECIFICATION FairSpec
CONSTANTS
  p1 = p1
  p2 = p2
  u1 = u1
  w1 = w1
  w2 = w2
  NoPayload = NoPayload
  Workers = {w1, w2}
  Payloads <- Payload
  Identified <- MCIdentified
  User <- MCUser
  Amount <- MCAmount
  Histories <- LateHistories
  Deposit = {p1}
  MaxFaults = 1
  MaxInt = 2
INVARIANTS TypeOK PaidMeansCredited
PROPERTIES PaidIsCredited
