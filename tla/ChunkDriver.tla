---------------------------- MODULE ChunkDriver ----------------------------
(***************************************************************************)
(* The chunk driver of crates/scripture/src/driver in its depth-one mode:  *)
(* one actor owns the open chunk, the sealed chunk waiting to be appended, *)
(* the parked submissions, the dedup window and the ChunkLogWriter         *)
(* (chunklog.rs), and answers the submit calls of many callers.            *)
(*                                                                         *)
(* The actor is one task, so it is one program counter.  It stands still   *)
(* while an append is awaited; the clock, the callers, Holylog and a crash *)
(* of the process do not.  Holylog is external: log is the sequence of     *)
(* chunks it maps, and an append that does not return Ok may have landed.  *)
(*                                                                         *)
(* A record list is a Payload, known by how many records it has, how many  *)
(* bytes it takes when encoded as a chunk of its own and how many its      *)
(* largest record takes.  Two record lists have the same canonical digest  *)
(* iff they are the same Payload.  A time is only ever compared with the   *)
(* two age limits, so a chunk keeps its age, which stops at the larger.    *)
(***************************************************************************)
EXTENDS Integers, Sequences, FiniteSetsExt

CONSTANTS
    Call,               \* one element for each call of ChunkDriverHandle::submit
    Producer, Payload,
    MaxEpoch, MaxSequence,      \* bounds: the highest epoch and sequence submitted
    RecordCount,        \* [Payload -> Nat]: records.len()
    EncodedBytes,       \* [Payload -> Nat]: submission_encoded_bytes
    LargestRecord,      \* [Payload -> Nat]: the largest contribution of one record
    ChunkOverhead,      \* bytes every chunk has once, in EncodedBytes of each payload
    MaxChunkBytes, MaxRecordBytes, MaxChunkRecords, MaxBufferedBytes,
    MaxChunkAge, MaxUncommittedAge,
    RecoveryScan,       \* RecoveryBound::max_chunks
    MaxGeneration       \* bound: how many owners the model starts

ASSUME DataAssumption ==
    /\ MaxEpoch \in Nat
    /\ MaxSequence \in Nat
    /\ RecordCount \in [Payload -> Nat]
    /\ EncodedBytes \in [Payload -> Nat]
    /\ LargestRecord \in [Payload -> Nat]
    /\ ChunkOverhead \in Nat

\* ChunkPolicy::validate: what a policy must satisfy for a driver to exist.
ASSUME PolicyAssumption ==
    /\ MaxChunkBytes \in Nat \ {0}
    /\ MaxRecordBytes \in Nat \ {0}
    /\ MaxChunkRecords \in Nat \ {0}
    /\ MaxBufferedBytes \in Nat \ {0}
    /\ MaxChunkAge \in Nat \ {0}
    /\ MaxUncommittedAge \in Nat \ {0}
    /\ RecoveryScan \in Nat \ {0}
    /\ MaxGeneration \in Nat
    /\ MaxRecordBytes + ChunkOverhead <= MaxChunkBytes

VARIABLES
    log,                \* the chunks Holylog maps, in slot order
    writer,             \* ChunkLogWriter: next_offset, poisoned
    generation,         \* the generation this owner writes
    open,               \* OpenChunk; no placed submission stands for None
    pending,            \* PendingAppend::DepthOne; no placed submission: None
    inflight,           \* the chunk whose append is awaited
    blocked,            \* parked submissions, oldest first
    dedup,              \* the committed receipts this owner knows
    admittedSeq,        \* highest admitted sequence of (producer, epoch), or -1
    knownProducers,     \* highest admitted epoch of a producer, or -1
    nextChunk, poisoned,
    pc,                 \* where the actor is
    resume,             \* what it goes on with when drain_blocked returns
    barrier,            \* history: the calls a flush in progress must commit
    call                \* what every caller submitted and was told

owner == <<writer, generation, open, pending, inflight, blocked, dedup,
           admittedSeq, knownProducers, nextChunk, poisoned, pc, resume, barrier>>
vars == <<log, owner, call>>
-----------------------------------------------------------------------------
\* Data

Epoch == 0..MaxEpoch
Sequence == 0..MaxSequence

Submission == [producer : Producer, epoch : Epoch, sequence : Sequence,
               payload : Payload]

SameKey(s, t) == s.producer = t.producer /\ s.epoch = t.epoch
SameIdentity(s, t) == SameKey(s, t) /\ s.sequence = t.sequence

\* A PlacedSubmission.  at is the first_record that seal_open computes for it:
\* the number of records placed in the chunk before it.
Placed == [sub : Submission, first : Nat, at : Nat, waiters : SUBSET Call]

OpenChunk == [placed : SUBSET Placed, base : Nat, next : Nat, records : Nat,
              bytes : Nat, age : Nat]
EmptyChunk == [placed |-> {}, base |-> 0, next |-> 0, records |-> 0,
               bytes |-> 0, age |-> 0]

SealedWork == [id : Nat, placed : SUBSET Placed, base : Nat, records : Nat,
               bytes : Nat, age : Nat]
NoWork == [id |-> 0, placed |-> {}, base |-> 0, records |-> 0,
           bytes |-> 0, age |-> 0]

\* A chunk in the log: its header, its base offset and its SubmissionRefs.
Chunk == [id : Nat, generation : Nat, base : Nat, records : Nat,
          entries : SUBSET [sub : Submission, at : Nat]]

\* DedupReceipt, and what a caller reads from a Receipt: the submission stands
\* for its identity, its record count and its digest.
Receipt == [sub : Submission, first : Nat, chunk : Nat, slot : Nat,
            generation : Nat]

Waiting == {"parked", "admitted"}
Rejection == {"Poisoned", "EmptySubmission", "RecordTooLarge",
              "SubmissionTooLarge", "FencedProducer", "Indeterminate",
              "IdentityConflict", "OutOfSequence"}
Failure == {"Uncertain", "NotWritten", "Unavailable"}
Acknowledged == {"committed", "deduplicated"}
Status == {"idle", "cancelled"} \cup Waiting \cup Rejection \cup Failure
            \cup Acknowledged

\* Every call but an idle one has a submission; only an acknowledged one has a
\* receipt.  Both are kept as sets of at most one element.
CallState == [status : Status, sub : SUBSET Submission, receipt : SUBSET Receipt]
IdleCall == [status |-> "idle", sub |-> {}, receipt |-> {}]

AgeCap == IF MaxChunkAge < MaxUncommittedAge THEN MaxUncommittedAge ELSE MaxChunkAge
Older(age) == IF age < AgeCap THEN age + 1 ELSE age

Waiters(work) == UNION {p.waiters : p \in work.placed}
-----------------------------------------------------------------------------
\* Admission: the decisions of admission.rs

bytes_at_risk == MaxBufferedBytes + MaxChunkBytes

\* The oldest of the open and the sealed chunk is past the admission deadline.
admission_age_blocked ==
    \/ open.placed # {} /\ open.age >= MaxUncommittedAge
    \/ pending.placed # {} /\ pending.age >= MaxUncommittedAge

should_block_admission(encoded) ==
    \/ admission_age_blocked
    \/ open.bytes + pending.bytes + encoded > bytes_at_risk
    \/ open.bytes + encoded > MaxBufferedBytes
    \/ pending.placed # {} /\ open.bytes + encoded > MaxChunkBytes

\* The sequence is at or below the highest the dedup window has for its key.
Committed(s) == \E r \in dedup : SameKey(r.sub, s) /\ s.sequence <= r.sub.sequence

Buffered(s) == {p \in open.placed \cup pending.placed : SameIdentity(p.sub, s)}

resolves_without_new_reservation(s) == Committed(s) \/ Buffered(s) # {}

\* Mutant: the next expected value instead of the highest seen.
HighestPlusOne(S) == IF S = {} THEN -1 ELSE 1 + CHOOSE n \in S : \A m \in S : m <= n

Highest(S) == IF S = {} THEN -1 ELSE CHOOSE n \in S : \A m \in S : m <= n

\* A producer that is not known, or a higher epoch, starts at zero.  The next
\* sequence follows what was admitted, else what the dedup window has.
Expected(s) ==
    LET key == <<s.producer, s.epoch>> IN
    IF s.epoch > knownProducers[s.producer] THEN 0
    ELSE IF admittedSeq[key] # -1 THEN admittedSeq[key] + 1
    ELSE Highest({r.sub.sequence : r \in {x \in dedup : SameKey(x.sub, s)}}) + 1

RecordTooLarge(s) == LargestRecord[s.payload] > MaxRecordBytes

SubmissionTooLarge(s) ==
    RecordCount[s.payload] > MaxChunkRecords \/ EncodedBytes[s.payload] > MaxChunkBytes

\* Mutant: a lower epoch is not fenced.
NeverFenced(s) == FALSE

FencedProducer(s) == s.epoch < knownProducers[s.producer]

\* Mutant: a poisoned owner still answers retries from its dedup window.
VerdictIgnoresPoison(s) ==
    IF \E r \in dedup : r.sub = s THEN "Replay" ELSE IF poisoned THEN "Poisoned"
    ELSE IF RecordCount[s.payload] = 0 THEN "EmptySubmission"
    ELSE IF s.sequence # Expected(s) THEN "OutOfSequence" ELSE "Place"

\* The early returns of ChunkDriverActor::admit, in the order of the code.
Verdict(s) ==
    IF poisoned THEN "Poisoned"
    ELSE IF RecordCount[s.payload] = 0 THEN "EmptySubmission"
    ELSE IF RecordTooLarge(s) THEN "RecordTooLarge"
    ELSE IF SubmissionTooLarge(s) THEN "SubmissionTooLarge"
    ELSE IF FencedProducer(s) THEN "FencedProducer"
    ELSE IF Committed(s) THEN
        IF ~ \E r \in dedup : SameIdentity(r.sub, s) THEN "Indeterminate"
        ELSE IF \E r \in dedup : r.sub = s THEN "Replay" ELSE "IdentityConflict"
    ELSE IF Buffered(s) # {} THEN
        IF \E p \in Buffered(s) : p.sub = s THEN "Join" ELSE "IdentityConflict"
    ELSE IF s.sequence # Expected(s) THEN "OutOfSequence"
    ELSE IF should_block_admission(EncodedBytes[s.payload]) THEN "Park"
    ELSE "Place"
-----------------------------------------------------------------------------
\* What happens to callers.  A caller that dropped its future hears nothing.

Told(c, status, receipts) ==
    IF call[c].status \in Waiting
    THEN [call[c] EXCEPT !.status = status, !.receipt = receipts]
    ELSE call[c]

\* The calls of waiters hear status; call c, the one being handled, becomes new.
Answer(c, new, waiters, status) ==
    [x \in Call |-> IF x = c THEN new
                    ELSE IF x \in waiters THEN Told(x, status, {})
                    ELSE call[x]]

\* The reply to a call that arrives, or to one that was parked and may have been
\* dropped by its caller in the meantime.
Reply(c, s, status, receipts) ==
    IF call[c].status = "cancelled" THEN call[c]
    ELSE [status |-> status, sub |-> {s}, receipt |-> receipts]
-----------------------------------------------------------------------------
\* Sealing and placing

\* The bytes seal_open gives to a chunk are those of its placed submissions.
Seal(o) == [id |-> nextChunk, placed |-> o.placed, base |-> o.base,
            records |-> o.records, bytes |-> o.bytes, age |-> 0]

\* seal_open: assigns pending_append whatever it held.  The submissions that
\* were in it are dropped with their waiters, which read a closed channel.  Its
\* Codec arm needs an empty, duplicated or oversized entry, which admit refuses
\* and BufferedOnce rules out.
seal_open(o) ==
    /\ pending' = Seal(o)
    /\ open' = EmptyChunk
    /\ nextChunk' = nextChunk + 1

\* Mutant: every submission of a chunk starts at the writer's next offset.
PlacedAtWriterOffset(c, s) ==
    LET n == RecordCount[s.payload] IN
    [placed |-> open.placed \cup
                {[sub |-> s, first |-> writer.next, at |-> open.records, waiters |-> {c}]},
     base |-> writer.next, next |-> writer.next + n, records |-> open.records + n,
     bytes |-> open.bytes + EncodedBytes[s.payload], age |-> open.age]

\* Mutant: the bytes of a submission are not reserved.
PlacedUnreserved(c, s) ==
    LET first == IF open.placed = {} THEN writer.next ELSE open.next
        n == RecordCount[s.payload]
    IN  [placed |-> open.placed \cup
                    {[sub |-> s, first |-> first, at |-> open.records, waiters |-> {c}]},
         base |-> IF open.placed = {} THEN first ELSE open.base,
         next |-> first + n, records |-> open.records + n, bytes |-> open.bytes,
         age |-> open.age]

\* The open chunk with submission s of call c placed in it.
WithPlaced(c, s) ==
    LET first == IF open.placed = {} THEN writer.next ELSE open.next
        n == RecordCount[s.payload]
    IN  [placed |-> open.placed \cup
                    {[sub |-> s, first |-> first, at |-> open.records, waiters |-> {c}]},
         base |-> IF open.placed = {} THEN first ELSE open.base,
         next |-> first + n,
         records |-> open.records + n,
         bytes |-> open.bytes + EncodedBytes[s.payload],
         age |-> open.age]

Full(o) == o.records >= MaxChunkRecords \/ o.bytes >= MaxChunkBytes

admit_ready(c, s) ==
    LET o == WithPlaced(c, s) IN
    /\ admittedSeq' = [admittedSeq EXCEPT ![<<s.producer, s.epoch>>] = s.sequence]
    /\ knownProducers' = [knownProducers EXCEPT ![s.producer] =
                            IF @ < s.epoch THEN s.epoch ELSE @]
    /\ \/ /\ Full(o)
          /\ seal_open(o)
          /\ call' = Answer(c, Reply(c, s, "admitted", {}), Waiters(pending), "Unavailable")
       \/ /\ ~Full(o)
          /\ open' = o
          /\ call' = Answer(c, Reply(c, s, "admitted", {}), {}, "")
          /\ UNCHANGED <<pending, nextChunk>>

\* The retry of a submission that is still buffered waits with the original.
JoinWaiter(c, s) ==
    LET joined(placed) == {IF SameIdentity(p.sub, s)
                           THEN [p EXCEPT !.waiters = @ \cup {c}] ELSE p : p \in placed}
    IN  /\ open' = [open EXCEPT !.placed = joined(@)]
        /\ pending' = [pending EXCEPT !.placed = joined(@)]
        /\ call' = Answer(c, Reply(c, s, "admitted", {}), {}, "")

\* admit: the whole handler of one submission, new or taken from blocked.
\* queue is blocked without it.
admit(c, s, queue) ==
    /\ \/ /\ Verdict(s) \in Rejection
          /\ call' = Answer(c, Reply(c, s, Verdict(s), {}), {}, "")
          /\ blocked' = queue
          /\ UNCHANGED <<open, pending, admittedSeq, knownProducers, nextChunk>>
       \/ /\ Verdict(s) = "Replay"
          /\ call' = Answer(c, Reply(c, s, "deduplicated", {r \in dedup : r.sub = s}), {}, "")
          /\ blocked' = queue
          /\ UNCHANGED <<open, pending, admittedSeq, knownProducers, nextChunk>>
       \/ /\ Verdict(s) = "Join"
          /\ JoinWaiter(c, s)
          /\ blocked' = queue
          /\ UNCHANGED <<admittedSeq, knownProducers, nextChunk>>
       \/ /\ Verdict(s) = "Park"
          /\ call' = Answer(c, Reply(c, s, "parked", {}), {}, "")
          /\ blocked' = Append(queue, [call |-> c, sub |-> s])
          /\ UNCHANGED <<open, pending, admittedSeq, knownProducers, nextChunk>>
       \/ /\ Verdict(s) = "Place"
          /\ admit_ready(c, s)
          /\ blocked' = queue
    /\ UNCHANGED <<log, writer, generation, inflight, dedup, poisoned, resume, barrier>>
-----------------------------------------------------------------------------
\* The actor: the run loop of run_loop.rs

age_due == open.placed # {} /\ open.age >= MaxChunkAge

\* The loop found nothing to append and no age due, and awaits a command or the
\* timer.  A poisoned actor only awaits commands, to reject them.
Await ==
    /\ pc = "run"
    /\ poisoned \/ (pending.placed = {} /\ ~age_due)
    /\ pc' = "wait"
    /\ UNCHANGED <<log, writer, generation, open, pending, inflight, blocked, dedup,
                   admittedSeq, knownProducers, nextChunk, poisoned, resume, barrier, call>>

\* Command::Submit.  A command that is ready wins over a timer that is ready.
HandleSubmit(c, s) ==
    /\ pc = "wait"
    /\ call[c].status = "idle"
    /\ admit(c, s, blocked)
    /\ pc' = "run"

\* The age bound seals the open chunk, at the top of the loop or on the timer.
SealOnAge ==
    /\ pc \in {"run", "wait"}
    /\ ~poisoned /\ pending.placed = {} /\ age_due
    /\ seal_open(open)
    /\ pc' = "run"
    /\ UNCHANGED <<log, writer, generation, inflight, blocked, dedup, admittedSeq,
                   knownProducers, poisoned, resume, barrier, call>>

\* Mutant: flush replies as soon as it has sealed the chunk.
FlushRepliesEarly ==
    /\ pc = "wait"
    /\ ~poisoned /\ open.placed # {}
    /\ seal_open(open)
    /\ barrier' = {c \in Call : call[c].status = "admitted"}
    /\ resume' = "flush"
    /\ pc' = "drain"
    /\ UNCHANGED <<log, writer, generation, inflight, blocked, dedup, admittedSeq,
                   knownProducers, poisoned, call>>

\* Command::Flush with an open chunk; with none, it answers at once.  The run
\* loop is re-entered at append_depth_one, the next thing flush calls.
HandleFlush ==
    /\ pc = "wait"
    /\ ~poisoned /\ open.placed # {}
    /\ seal_open(open)
    /\ barrier' = {c \in Call : call[c].status = "admitted"}
    /\ resume' = "flush"
    /\ pc' = "run"
    /\ UNCHANGED <<log, writer, generation, inflight, blocked, dedup, admittedSeq,
                   knownProducers, poisoned, call>>

\* All handles are dropped: the open chunk is sealed and appended before the
\* actor returns.  A call that is still parked borrows its handle.
HandlesDropped ==
    /\ pc = "wait"
    /\ \A c \in Call : call[c].status # "parked"
    /\ \/ /\ ~poisoned /\ open.placed # {}
          /\ seal_open(open)
          /\ barrier' = {c \in Call : call[c].status = "admitted"}
          /\ resume' = "exit"
          /\ pc' = "run"
          /\ UNCHANGED blocked
       \/ /\ poisoned \/ open.placed = {}
          /\ blocked' = << >>
          /\ pc' = "stopped"
          /\ UNCHANGED <<open, pending, nextChunk, resume, barrier>>
    /\ UNCHANGED <<log, writer, generation, inflight, dedup, admittedSeq,
                   knownProducers, poisoned, call>>

\* Mutant: the base offset of the chunk is not compared with the writer's.
IssueUnchecked ==
    /\ pc = "run" /\ ~poisoned /\ pending.placed # {}
    /\ inflight' = pending
    /\ pending' = NoWork
    /\ writer' = [writer EXCEPT !.poisoned = TRUE]
    /\ pc' = "append"
    /\ UNCHANGED <<log, generation, open, blocked, dedup, admittedSeq, knownProducers,
                   nextChunk, poisoned, resume, barrier, call>>

\* append_depth_one takes the sealed chunk; ChunkLogWriter::append accepts it,
\* poisons itself and awaits Holylog.
IssueAppend ==
    /\ pc = "run" /\ ~poisoned /\ pending.placed # {}
    /\ ~writer.poisoned /\ pending.base = writer.next
    /\ inflight' = pending
    /\ pending' = NoWork
    /\ writer' = [writer EXCEPT !.poisoned = TRUE]
    /\ pc' = "append"
    /\ UNCHANGED <<log, generation, open, blocked, dedup, admittedSeq, knownProducers,
                   nextChunk, poisoned, resume, barrier, call>>

\* The chunk as Holylog stores it, and the receipts it stands for once mapped.
AsChunk(work) ==
    [id |-> work.id, generation |-> generation, base |-> work.base,
     records |-> work.records, entries |-> {[sub |-> p.sub, at |-> p.at] : p \in work.placed}]

ReceiptOf(p, work, slot) ==
    [sub |-> p.sub, first |-> p.first, chunk |-> work.id, slot |-> slot,
     generation |-> generation]

\* The dedup window with new receipts, which replace those of the same identity.
Remember(receipts) ==
    receipts \cup {r \in dedup : \A n \in receipts : ~SameIdentity(n.sub, r.sub)}


\* The append is acknowledged: the writer moves on, and the receipts enter the
\* dedup window and go to the waiters (release_receipts_for_placed).
AppendAcknowledged ==
    LET slot == Len(log) + 1
        receipts == {ReceiptOf(p, inflight, slot) : p \in inflight.placed}
    IN  /\ pc = "append"
        /\ log' = Append(log, AsChunk(inflight))
        /\ writer' = [next |-> inflight.base + inflight.records, poisoned |-> FALSE]
        /\ dedup' = Remember(receipts)
        /\ call' = [c \in Call |->
                      IF c \in Waiters(inflight)
                      THEN Told(c, "committed", {r \in receipts : r.sub \in call[c].sub})
                      ELSE call[c]]
        /\ inflight' = NoWork
        /\ pc' = "drain"
        /\ UNCHANGED <<generation, open, pending, blocked, admittedSeq, knownProducers,
                       nextChunk, poisoned, resume, barrier>>

\* Mutant: the waiters of the failed chunk hear NotWritten, and those of the
\* parked submissions, which are only dropped, read a closed channel.
PoisonDrainSwapped(work) ==
    /\ poisoned' = TRUE
    /\ call' = [c \in Call |->
                  IF c \in Waiters(work) THEN Told(c, "NotWritten", {})
                  ELSE IF c \in Waiters(open) THEN Told(c, "Uncertain", {})
                  ELSE Told(c, "Unavailable", {})]
    /\ open' = EmptyChunk
    /\ pending' = NoWork
    /\ inflight' = NoWork
    /\ blocked' = << >>
    /\ barrier' = {}
    /\ resume' = "run"
    /\ pc' = IF resume = "exit" THEN "stopped" ELSE "run"
    /\ UNCHANGED <<generation, dedup, admittedSeq, knownProducers, nextChunk>>

\* The error arm of finish_depth_one_append for the chunk it was given: the
\* owner is poisoned and every waiter it has is answered.
PoisonDrain(work) ==
    /\ poisoned' = TRUE
    /\ call' = [c \in Call |->
                  IF c \in Waiters(work) THEN Told(c, "Uncertain", {})
                  ELSE IF c \in Waiters(open) THEN Told(c, "NotWritten", {})
                  ELSE IF \E i \in DOMAIN blocked : blocked[i].call = c
                       THEN Told(c, "Poisoned", {})
                  ELSE call[c]]
    /\ open' = EmptyChunk
    /\ pending' = NoWork
    /\ inflight' = NoWork
    /\ blocked' = << >>
    /\ barrier' = {}
    /\ resume' = "run"
    /\ pc' = IF resume = "exit" THEN "stopped" ELSE "run"
    /\ UNCHANGED <<generation, dedup, admittedSeq, knownProducers, nextChunk>>

\* Holylog answers with an error, or not in time; the chunk may be in the log.
AppendUncertain ==
    /\ pc = "append"
    /\ log' \in {log, Append(log, AsChunk(inflight))}
    /\ PoisonDrain(inflight)
    /\ UNCHANGED writer

\* ChunkLogWriter::append refuses the chunk before Holylog sees it.
AppendRefused ==
    /\ pc = "run" /\ ~poisoned /\ pending.placed # {}
    /\ writer.poisoned \/ pending.base # writer.next
    /\ PoisonDrain(pending)
    /\ UNCHANGED <<log, writer>>

\* Mutant: only what needs no new bytes is drained.
DrainsOnlyRetries(s) == resolves_without_new_reservation(s)

\* drain_blocked stops at the first submission that needs bytes it cannot have.
CanDrain(s) ==
    \/ resolves_without_new_reservation(s)
    \/ ~should_block_admission(EncodedBytes[s.payload])

\* One turn of drain_blocked: the oldest parked submission is admitted.
DrainOne ==
    /\ pc = "drain" /\ blocked # << >>
    /\ LET b == Head(blocked) IN
        /\ CanDrain(b.sub)
        /\ admit(b.call, b.sub, Tail(blocked))
    /\ UNCHANGED pc

\* drain_blocked returns and the caller of append_depth_one goes on: the loop,
\* the reply of a flush, or the return of an actor without handles.
DrainDone ==
    /\ pc = "drain"
    /\ blocked # << >> => ~CanDrain(Head(blocked).sub)
    /\ barrier' = {}
    /\ resume' = "run"
    /\ \/ /\ resume # "exit"
          /\ pc' = "run"
          /\ UNCHANGED <<open, pending, blocked, call>>
       \/ /\ resume = "exit"
          /\ pc' = "stopped"
          /\ open' = EmptyChunk /\ pending' = NoWork /\ blocked' = << >>
          /\ call' = [c \in Call |-> Told(c, "Unavailable", {})]
    /\ UNCHANGED <<log, writer, generation, inflight, dedup, admittedSeq,
                   knownProducers, nextChunk, poisoned>>
-----------------------------------------------------------------------------
\* The environment

\* Mutant: dropping the future takes the submission out of the open chunk.
CancelWithdraws(c) ==
    /\ call[c].status \in Waiting
    /\ call' = [call EXCEPT ![c].status = "cancelled"]
    /\ open' = [open EXCEPT !.placed = {p \in @ : p.waiters # {c}}]
    /\ UNCHANGED <<log, writer, generation, pending, inflight, blocked, dedup,
                   admittedSeq, knownProducers, nextChunk, poisoned, pc, resume, barrier>>

\* The caller drops the future of submit or its ReceiptFuture.
Cancel(c) ==
    /\ call[c].status \in Waiting
    /\ call' = [call EXCEPT ![c].status = "cancelled"]
    /\ UNCHANGED <<log, owner>>

\* The clock moves on, also between the steps of the actor.
Tick ==
    /\ pc \notin {"down", "stopped"}
    /\ \/ open.placed # {} /\ open.age < AgeCap
       \/ pending.placed # {} /\ pending.age < AgeCap
    /\ open' = IF open.placed = {} THEN open ELSE [open EXCEPT !.age = Older(@)]
    /\ pending' = IF pending.placed = {} THEN pending ELSE [pending EXCEPT !.age = Older(@)]
    /\ UNCHANGED <<log, writer, generation, inflight, blocked, dedup, admittedSeq,
                   knownProducers, nextChunk, poisoned, pc, resume, barrier, call>>

NewKeys == [k \in Producer \X Epoch |-> -1]
NewProducers == [p \in Producer |-> -1]

\* The process dies.  All but the log is lost; an append it had issued may have
\* reached the log, and its callers only know that the owner is gone.
Crash ==
    /\ pc # "down"
    /\ log' \in IF pc = "append" THEN {log, Append(log, AsChunk(inflight))} ELSE {log}
    /\ call' = [c \in Call |-> Told(c, "Unavailable", {})]
    /\ writer' = [next |-> 0, poisoned |-> FALSE]
    /\ open' = EmptyChunk /\ pending' = NoWork /\ inflight' = NoWork
    /\ blocked' = << >> /\ dedup' = {}
    /\ admittedSeq' = NewKeys /\ knownProducers' = NewProducers
    /\ nextChunk' = 0 /\ poisoned' = FALSE
    /\ barrier' = {} /\ resume' = "run" /\ pc' = "down"
    /\ UNCHANGED generation

\* Mutant: the scan ends one slot early.
ScannedMissesTail == {i \in DOMAIN log : i > Len(log) - RecoveryScan /\ i < Len(log)}

\* The slots recover_from_log scans: the last RecoveryScan chunks.
Scanned == {i \in DOMAIN log : i > Len(log) - RecoveryScan}

LogEnd == IF log = << >> THEN 0 ELSE log[Len(log)].base + log[Len(log)].records

ReceiptsAt(i) ==
    {[sub |-> e.sub, first |-> log[i].base + e.at, chunk |-> log[i].id, slot |-> i,
      generation |-> log[i].generation] : e \in log[i].entries}

\* ChunkLogWriter::recover and rebuild_dedup: a new owner under a new generation
\* learns from the chunks it scans.  A gap between two of them is an error, and
\* so is a chunk of a generation older than the one before it.
Recover ==
    LET found == UNION {ReceiptsAt(i) : i \in Scanned}
        receipts == {r \in found : \A q \in found : SameIdentity(q.sub, r.sub) => q.slot <= r.slot}
    IN
    /\ pc = "down" /\ generation < MaxGeneration
    /\ \A i \in Scanned : i + 1 \in Scanned =>
          /\ log[i + 1].base = log[i].base + log[i].records
          /\ log[i + 1].generation >= log[i].generation
    /\ writer' = [next |-> LogEnd, poisoned |-> FALSE]
    /\ dedup' = receipts
    /\ admittedSeq' = [k \in Producer \X Epoch |->
                         Highest({r.sub.sequence : r \in
                            {x \in receipts : x.sub.producer = k[1] /\ x.sub.epoch = k[2]}})]
    /\ knownProducers' = [p \in Producer |->
                            Highest({r.sub.epoch : r \in {x \in receipts : x.sub.producer = p}})]
    /\ generation' = generation + 1
    /\ pc' = "run"
    /\ UNCHANGED <<log, open, pending, inflight, blocked, nextChunk, poisoned, resume,
                   barrier, call>>
-----------------------------------------------------------------------------
Init ==
    /\ log = << >>
    /\ writer = [next |-> 0, poisoned |-> FALSE]
    /\ generation = 1
    /\ open = EmptyChunk /\ pending = NoWork /\ inflight = NoWork
    /\ blocked = << >> /\ dedup = {}
    /\ admittedSeq = NewKeys /\ knownProducers = NewProducers
    /\ nextChunk = 0 /\ poisoned = FALSE
    /\ pc = "run" /\ resume = "run" /\ barrier = {}
    /\ call = [c \in Call |-> IdleCall]

ActorStep == Await \/ SealOnAge \/ IssueAppend \/ AppendRefused \/ DrainOne \/ DrainDone
HolylogAnswers == AppendAcknowledged \/ AppendUncertain

Next ==
    \/ \E c \in Call, s \in Submission : HandleSubmit(c, s)
    \/ \E c \in Call : Cancel(c)
    \/ HandleFlush
    \/ HandlesDropped
    \/ ActorStep
    \/ HolylogAnswers
    \/ Tick
    \/ Crash
    \/ Recover

Spec == Init /\ [][Next]_vars

\* The actor task runs, time passes, and an append returns in the end.  Nobody
\* has to submit, flush, crash or recover.
FairSpec == Spec /\ WF_vars(ActorStep) /\ WF_vars(HolylogAnswers) /\ WF_vars(Tick)
-----------------------------------------------------------------------------
\* Properties

\* Every variable keeps its type; an actor awaits exactly one append at a time.
TypeOK ==
    /\ log \in Seq(Chunk)
    /\ writer \in [next : Nat, poisoned : BOOLEAN]
    /\ generation \in Nat
    /\ open \in OpenChunk /\ pending \in SealedWork /\ inflight \in SealedWork
    /\ blocked \in Seq([call : Call, sub : Submission])
    /\ dedup \subseteq Receipt
    /\ admittedSeq \in [Producer \X Epoch -> Sequence \cup {-1}]
    /\ knownProducers \in [Producer -> Epoch \cup {-1}]
    /\ nextChunk \in Nat /\ poisoned \in BOOLEAN
    /\ pc \in {"run", "wait", "append", "drain", "stopped", "down"}
    /\ resume \in {"run", "flush", "exit"}
    /\ barrier \subseteq Call
    /\ call \in [Call -> CallState]

\* Every receipt a caller holds, first-hand or replayed from the dedup window,
\* names the chunk, slot, generation and offsets at which its submission is in
\* the log, also after poison, crash and recovery.
ReceiptSound ==
    \A c \in Call : call[c].status \in Acknowledged =>
        \E i \in DOMAIN log : \E r \in ReceiptsAt(i) :
            call[c].receipt = {r} /\ call[c].sub = {r.sub}

\* Offsets in the log are dense: a chunk starts where the one before it ends,
\* whatever chunks were refused, lost or overwritten on the way.
DenseLog ==
    \A i \in DOMAIN log :
        log[i].base = IF i = 1 THEN 0 ELSE log[i - 1].base + log[i - 1].records

\* One identity is committed once: no two places of the log hold it, across
\* retries, joins, uncertain appends and recovery.
NoDuplicate ==
    \A i, j \in DOMAIN log : \A e \in log[i].entries, f \in log[j].entries :
        SameIdentity(e.sub, f.sub) => i = j /\ e = f

\* The log keeps every producer's own order: of two submissions of one producer
\* the one with the lower offset has the lower epoch, or the same epoch and the
\* lower sequence, across fencing, parking, poison and recovery.
ProducerOrder ==
    \A i, j \in DOMAIN log : \A e \in log[i].entries, f \in log[j].entries :
        e.sub.producer = f.sub.producer /\ log[i].base + e.at < log[j].base + f.at =>
            \/ e.sub.epoch < f.sub.epoch
            \/ e.sub.epoch = f.sub.epoch /\ e.sub.sequence < f.sub.sequence

\* Where the identity of a producer's sequence n may be found.
InLog(p, e, n) ==
    \E i \in DOMAIN log : \E x \in log[i].entries :
        x.sub.producer = p /\ x.sub.epoch = e /\ x.sub.sequence = n
Held(p, e, n) ==
    \E x \in open.placed \cup pending.placed \cup inflight.placed :
        x.sub.producer = p /\ x.sub.epoch = e /\ x.sub.sequence = n

\* What an owner has admitted is not lost while it lives: every sequence up to
\* the highest it admitted for a producer and epoch is in its hands or in the
\* log, whether or not the caller still waits for it.
NoSilentLoss ==
    pc \notin {"down", "stopped"} /\ ~poisoned =>
        \A p \in Producer, e \in Epoch : \A n \in 0..admittedSeq[<<p, e>>] :
            InLog(p, e, n) \/ Held(p, e, n)

\* The bytes of everything admitted and not yet acknowledged or failed, summed
\* over the submissions themselves, stay within bytes_at_risk: the reservation of
\* the open and the sealed chunk leaves nothing out, also while drain_blocked
\* seals and goes on admitting.
BytesAtRisk ==
    MapThenSumSet(LAMBDA p : EncodedBytes[p.sub.payload],
                  open.placed \cup pending.placed \cup inflight.placed) <= bytes_at_risk

\* A flush, or the exit of an actor whose handles are gone, answers only after
\* every call that had been admitted before it has its receipt.
FlushBarrier ==
    pc = "drain" /\ resume # "run" =>
        \A c \in barrier : call[c].status \in {"committed", "cancelled"}

\* Call c hears status in this step.
Hears(c, status) == call[c].status # status /\ call'[c].status = status

\* A caller is told NotWritten only when its identity is not in the log, whatever
\* became of the chunk whose append failed: it may retry elsewhere.
NotWrittenIsHonest ==
    [][\A c \in Call : Hears(c, "NotWritten") =>
        \A s \in call[c].sub : ~InLog(s.producer, s.epoch, s.sequence)']_vars


\* A caller is told Unavailable only when the actor is gone.
UnavailableMeansGone ==
    [][\A c \in Call : Hears(c, "Unavailable") => pc' \in {"down", "stopped"}]_vars

\* A poisoned owner never adds to the log and never releases a receipt, not even
\* for what it had buffered when the append failed.
PoisonFailsClosed ==
    [][poisoned => /\ log' = log
                   /\ \A c \in Call : call'[c].receipt = call[c].receipt]_vars

\* Under the fair specification every call gets an answer in the end: it is not
\* left parked, and not left waiting for a chunk nobody appends.
EveryCallIsAnswered == \A c \in Call : call[c].status \in Waiting ~> call[c].status \notin Waiting

-----------------------------------------------------------------------------
\* The parts of the inductive invariant behind ReceiptSound and DenseLog

\* An append is awaited exactly in pc = "append", with nothing else sealed and
\* the writer poisoned until it returns.
OneAppend ==
    /\ pc = "append" <=> inflight.placed # {}
    /\ pc = "append" => pending.placed = {} /\ writer.poisoned

\* The writer knows the end of the log unless an append of its own is open.
WriterAtEnd ==
    /\ pc # "down" /\ ~writer.poisoned => writer.next = LogEnd
    /\ pc = "append" => inflight.base = LogEnd

\* Placements of one chunk have one identity each and offsets that count from
\* the base of the chunk.
WellPlaced(work) ==
    /\ \A p \in work.placed : p.first = work.base + p.at
    /\ \A p, q \in work.placed : SameIdentity(p.sub, q.sub) => p = q

\* No identity is buffered twice, and the open chunk counts its records.
BufferedOnce ==
    \A p, q \in open.placed \cup pending.placed : SameIdentity(p.sub, q.sub) => p = q

OpenAtEnd ==
    /\ open.placed # {} => open.next = open.base + open.records
    /\ open.placed = {} => open.records = 0

\* Whoever waits for a placement submitted what is in it.
WaitersMatch(work) ==
    \A p \in work.placed : \A c \in p.waiters : call[c].sub = {p.sub}

CallsMatch ==
    /\ \A c \in Call : call[c].status = "idle" => call[c].sub = {}
    /\ \A i \in DOMAIN blocked : call[blocked[i].call].sub = {blocked[i].sub}

\* Receipts in the dedup window are true, one for each identity.
DedupSound ==
    /\ \A r \in dedup : \E i \in DOMAIN log : r \in ReceiptsAt(i)
    /\ \A r, q \in dedup : SameIdentity(r.sub, q.sub) => r = q

ChunksUnique ==
    \A i \in DOMAIN log : \A e, f \in log[i].entries : SameIdentity(e.sub, f.sub) => e = f

\* The inductive invariant: the actor's bookkeeping agrees with the log.
ReceiptInv ==
    /\ OneAppend /\ WriterAtEnd /\ OpenAtEnd /\ BufferedOnce
    /\ WellPlaced(open) /\ WellPlaced(pending) /\ WellPlaced(inflight)
    /\ WaitersMatch(open) /\ WaitersMatch(pending) /\ WaitersMatch(inflight)
    /\ CallsMatch /\ DedupSound /\ ChunksUnique /\ DenseLog /\ ReceiptSound
-----------------------------------------------------------------------------
\* The contract

Promise == INSTANCE CommittedLog WITH
    committed <- {[sub |-> r.sub, first |-> r.first] : r \in UNION {ReceiptsAt(i) : i \in DOMAIN log}},
    end <- LogEnd,
    acknowledged <- {[sub |-> r.sub, first |-> r.first] : r \in UNION {call[c].receipt : c \in Call}}

\* The driver implements the contract of CommittedLog: what callers can see of
\* its log and its receipts is an append-only log that holds an identity once.
ImplementsCommittedLog == Promise!Spec
=============================================================================
