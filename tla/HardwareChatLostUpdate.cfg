\* Two messages on one session may be in flight at once (no locking).
CONSTANTS
  s1 = s1  s2 = s2  s3 = s3  q1 = q1  q2 = q2  a1 = a1  r1 = r1  r2 = r2
  Sid <- MCSid
  Query <- MCQuery
  Answer <- MCAnswer
  Req <- MCReq
  ErrorReply = ErrorReply
  NoSid = NoSid
  MaxRequests = 4
  SequentialClients = FALSE
  DbFailures = FALSE
SPECIFICATION Spec
PROPERTY HistoryOnlyAppends
CHECK_DEADLOCK FALSE
