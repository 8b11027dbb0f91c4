SPECIFICATION FairSpec
CONSTANTS
    one = one
    two = two
    empty = empty
    fat = fat
    huge = huge
    Call = {c1, c2, c3}
    Producer = {p1}
    MaxEpoch = 0
    MaxSequence = 1
    Payload = {two, empty, fat, huge}
    MaxChunkBytes = 5
    MaxChunkRecords = 3
    MaxBufferedBytes = 5
    MaxChunkAge = 1
    MaxUncommittedAge = 2
    RecoveryScan = 9
    MaxGeneration = 1
    RecordCount <- MCRecordCount
    EncodedBytes <- MCEncodedBytes
    LargestRecord <- MCLargestRecord
    ChunkOverhead = 1
    MaxRecordBytes = 1
PROPERTIES EveryCallIsAnswered
CHECK_DEADLOCK FALSE
