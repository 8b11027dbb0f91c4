SPECIFICATION Spec
CONSTANTS
    one = one
    two = two
    empty = empty
    fat = fat
    huge = huge
    Call = {c1, c2, c3}
    Producer = {p1, p2}
    MaxEpoch = 0
    MaxSequence = 1
    Payload = {one, two}
    MaxChunkBytes = 5
    MaxChunkRecords = 2
    MaxBufferedBytes = 4
    MaxChunkAge = 1
    MaxUncommittedAge = 2
    RecoveryScan = 9
    MaxGeneration = 2
    RecordCount <- MCRecordCount
    EncodedBytes <- MCEncodedBytes
    LargestRecord <- MCLargestRecord
    ChunkOverhead = 1
    MaxRecordBytes = 1
SYMMETRY CallSymmetry
PROPERTIES UnavailableMeansGone
CHECK_DEADLOCK FALSE
