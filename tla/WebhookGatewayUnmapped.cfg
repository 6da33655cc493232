SPECIFICATION Spec
CONSTANTS
  Requests = {r1}
  Retries = 2
  Polls = 1
  HmacEnabled = TRUE
INVARIANT ConnectivityFailuresAreMapped
