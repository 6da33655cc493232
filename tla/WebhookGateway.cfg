SPECIFICATION ServerSpec
CONSTANTS
  Requests = {r1, r2}
  Retries = 2
  Polls = 2
  HmacEnabled = TRUE
INVARIANTS
  TypeOK
  InflightExact
  CleanDrainIsFinal
  Accounting
PROPERTIES
  KeepsPromise
  DrainIsBounded
  InflightTerminates
