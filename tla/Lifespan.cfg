SPECIFICATION FairLifespanSpec
CONSTANTS
  Clients = {c1, c2, c3}
  Tasks = {t1}
  Caller = caller
  None = None
  MaxExponent = 1
  CounterBound = 1
  Attempts = 2
INVARIANTS
  LifespanTypeOK
  LoopOutlivesFailures
  LeaksAreBounded
PROPERTIES
  StartupTerminates
  LoopRestoresClient
