--------------------------- MODULE MCChunkDriver ---------------------------
(* ChunkDriver on small instances. *)
EXTENDS ChunkDriver, TLC

\* Record lists of one and of two records, one without records, one with a
\* record over the limit, and one too large for a chunk.
CONSTANTS one, two, empty, fat, huge

MCRecordCount == [x \in Payload |->
    (one :> 1 @@ two :> 2 @@ empty :> 0 @@ fat :> 1 @@ huge :> 9)[x]]
MCEncodedBytes == [x \in Payload |->
    (one :> 2 @@ two :> 3 @@ empty :> 1 @@ fat :> 3 @@ huge :> 9)[x]]
MCLargestRecord == [x \in Payload |->
    (one :> 1 @@ two :> 1 @@ empty :> 0 @@ fat :> 2 @@ huge :> 1)[x]]

CallSymmetry == Permutations(Call)
=============================================================================
