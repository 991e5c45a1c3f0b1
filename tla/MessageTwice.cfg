\* The modem is behind the helper process: one message of one part.
CONSTANTS
  Message = {o1}
  SmsRequest = {q1}
  SmsAgent = {a1}
  Nothing = Nothing
  Parts = 1
  PrivatePort = TRUE
SPECIFICATION SSpec
INVARIANT
  SentOnce
