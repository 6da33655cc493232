SPECIFICATION Spec
CONSTANTS
  Requests = {r1, r2, r3, r4, r5}
  KnownSubjects = {k1}
  DeadSubjects = {d1, d2}
  Capacity = 2
  AlertAt = 2
  SubjectCaps = {0, 2}
  PageMax = 2
SYMMETRY Symmetry
INVARIANTS
  TypeOK
  DepthGaugeExact
  Conservation
  ViewIsDurable
  WalkNeverRepeats
  LruIsMostRecent
