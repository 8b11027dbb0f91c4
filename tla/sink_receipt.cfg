SPECIFICATION Spec
CONSTANTS
  b1 = b1
  b2 = b2
  Lone = Lone
  Busy = Busy
  A = A
  B = B
  pa1 = pa1
  pa2 = pa2
  pb = pb
  Process <- MCProcess
  Owner <- MCOwner
  OwnerOf <- MCOwnerOf
  Message = {e1}
  MAX_CANDIDATE_ATTEMPTS = 2
  InitialTerm = 1
  MaxFaults = 2
  Subjects = {"sink"}
  Identity <- MCIdentity
  Body <- MCBody
  FrameBytes <- MCFrameBytes
  ProgressBytes = 2
  TornBytes = 1
  MaxBytes = 13
  MaxOpens = 3
  MaxRecords = 5
  Faults = {}
  Verse <- MCVerse
  Outstanding <- MCOutstanding
  MaxSubmissions = 2
  MaxChunkRecords = 2
  TargetBlobBytes = 2
  MaxBufferBytes = 3
  PerAssignmentMaxBytes = 2
  UsizeRange = 8
INVARIANTS SinkReceiptSound
CHECK_DEADLOCK FALSE
