SPECIFICATION Spec
CONSTANTS
  Scale = 2
  MinSecretLength = 32
  None = None
  Environments <- MCEnvironments
  MaxExponent = 2
  MaxRow = 4
CHECK_DEADLOCK FALSE
INVARIANTS
  AttemptsArePaced
  OneHmacNotice
