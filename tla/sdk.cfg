\* The TypeScript client: two calls, every answer, JWTs that expire; the
\* Python client: every answer, exchanges three deep.
SPECIFICATION ClientsSpec
CONSTANTS
  Requests = {r1, r2}
  MaxRetries = 2
  Answers = {"ok", "limit", "refused", "broken"}
  AuthAnswers = {"ok", "refused", "broken"}
  MaxExpiries = 1
  MaxDepth = 3
  PyAnswers = {"limit", "broken", "refused", "fault", "garbled"}
INVARIANTS
  ClientsTypeOK
  AttemptsBounded
  PyAttemptsBounded
PROPERTIES
  FirstSentWithToken
  CallsEnd
