SPECIFICATION FairSpec
CONSTANTS
  Instances = {h1, h2}
  Order <- MCOrder
  DeadLetter = "homeric-deadletter"
  Ages = {0, 1}
  Absent = Absent
INVARIANTS
  TypeOK
  NoHoles
  RecordedExist
  RetentionHolds
PROPERTIES
  RetentionSettles
  RetriesConverge
  RetentionRestored
