SPECIFICATION Spec
CONSTANTS
  c1 = c1
  c2 = c2
  ClientIds <- MCClientIds
  NoId = NoId
  r1 = r1
  r2 = r2
  RequestIds <- MCRequestIds
  Absent = Absent
  Routings <- MCRoutings
  Others <- MCOthers
CHECK_DEADLOCK FALSE
INVARIANTS
  SentValid
  AnswersReachRequester
