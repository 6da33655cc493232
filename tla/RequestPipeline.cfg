SPECIFICATION Spec
CONSTANTS
  Requests = {r1, r2, r3}
  CallerIds = {x}
  Addresses = {a1}
  Limit = 1
  Window = 2
  MaxClock = 3
  None = None
SYMMETRY Symmetry
INVARIANTS
  AnswersCorrelated
  QuotaExact
  RetryAfterSuffices
