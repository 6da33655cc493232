SPECIFICATION Spec
CONSTANTS
  Characters <- MCCharacters
  AgentEvents <- MCAgentEvents
  TaskEvents <- MCTaskEvents
  Payloads <- MCPayloads
  SlugMax = 2
  MaxMessages = 2
  Null = Null
CHECK_DEADLOCK FALSE
INVARIANTS
  RetainedOnce
  SubjectsIdentify
