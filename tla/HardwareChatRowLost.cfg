\* HardwareQuery.objects.create may raise after chat_session.save() committed.
CONSTANTS
  s1 = s1  s2 = s2  s3 = s3  q1 = q1  q2 = q2  a1 = a1  r1 = r1  r2 = r2
  Sid <- MCSid
  Query <- MCQuery
  Answer <- MCAnswer
  Req <- MCReq
  ErrorReply = ErrorReply
  NoSid = NoSid
  MaxRequests = 4
  SequentialClients = TRUE
  DbFailures = TRUE
SPECIFICATION Spec
INVARIANT TurnsHaveRows
CHECK_DEADLOCK FALSE
