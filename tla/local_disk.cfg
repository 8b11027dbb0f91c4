SPECIFICATION Spec
CONSTANTS
  c1 = c1
  c2 = c2
  c3 = c3
  b1 = b1
  b2 = b2
  p1 = p1
  p2 = p2
  NoCall = NoCall
  Nobody = Nobody
  Identity <- MCIdentity
  Body <- MCBody
  IdOf <- MCIdOf
  BodyOf <- MCBodyOf
  FrameBytes <- MCFrameBytes
  Requested <- MCRequested
  Process <- MCProcess
  ProgressBytes = 1
  TornBytes = 1
  MaxFrameBytes = 2
  MaxTries = 2
  MaxWalBytes = 7
  MaxFrames = 9
  MaxInflightCompletions = 2
  MaxPending = 2
  MaxFile = 4
  MaxOpens = 3
  SameBody = TRUE
  Serial = TRUE
  Overlap = FALSE
  Call <- MCCall
  Policies <- MCPolicies
  Subjects = {"cell", "precommit", "continuity", "lock"}
  Faults = {"append", "sync", "drop", "crash", "lose"}
INVARIANTS  FailureIsFinal  ZeroDrop RetiredStaysRetired   
CHECK_DEADLOCK FALSE
