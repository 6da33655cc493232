SPECIFICATION FairSpec
CONSTANTS
  Clients = {c1, c2}
  Tasks = {t1, t2}
  Caller = caller
  None = None
  MaxExponent = 1
  CounterBound = 2
INVARIANTS
  TypeOK
  OneLoop
  StoppedMeansNoLoop
  BackoffTracksFailures
PROPERTIES
  OnlyTheWantedDial
  ImplementsContract
  CallsReturn
