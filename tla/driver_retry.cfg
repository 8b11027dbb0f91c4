SPECIFICATION Spec
CONSTANTS
    one = one
    two = two
    empty = empty
    fat = fat
    huge = huge
    Call = {c1, c2, c3}
    Producer = {p1}
    MaxEpoch = 1
    MaxSequence = 1
    Payload = {one, two}
    MaxChunkBytes = 5
    MaxChunkRecords = 3
    MaxBufferedBytes = 5
    MaxChunkAge = 1
    MaxUncommittedAge = 2
    RecoveryScan = 9
    MaxGeneration = 2
    RecordCount <- MCRecordCount
    EncodedBytes <- MCEncodedBytes
    LargestRecord <- MCLargestRecord
    ChunkOverhead = 1
    MaxRecordBytes = 1
SYMMETRY CallSymmetry
INVARIANTS TypeOK ReceiptSound NoSilentLoss ProducerOrder
PROPERTIES  UnavailableMeansGone PoisonFailsClosed ImplementsCommittedLog
CHECK_DEADLOCK FALSE
