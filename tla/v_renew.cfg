\* The Python client, one call after the other, with a JWT that expires: does
\* it renew the JWT before it reports a 401?
SPECIFICATION ClientsSpec
CONSTANTS
  Requests = {r1}
  MaxRetries = 2
  Answers = {"ok"}
  AuthAnswers = {"ok"}
  MaxExpiries = 1
  MaxDepth = 1
  PyAnswers = {}
INVARIANTS
  PyRenewsItself
