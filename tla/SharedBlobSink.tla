--------------------------- MODULE SharedBlobSink ---------------------------
(***************************************************************************)
(* The chunk drivers of a Scribe with several assignments, in their        *)
(* shared-sink mode (driver/run_loop.rs with blob_sink set), and the sink  *)
(* they feed (scripture-runtime/src/shared_blob_sink.rs, blob_writer.rs).  *)
(*                                                                         *)
(* A driver hands each sealed chunk to the sink as an envelope and goes on *)
(* serving commands.  The sink task buffers the envelopes of all Verses;   *)
(* a cut has every envelope sealed by its driver, puts one object holding  *)
(* all of them, has each Verse append references to its part of the object *)
(* and tells each driver which chunk has committed.  A command to a driver *)
(* is answered when the driver's loop is Free: not while it tries to hand  *)
(* over an envelope, nor while it awaits an append of its own.             *)
(*                                                                         *)
(* A submission is one record of one byte, offered once: retries and       *)
(* parking are the subject of ChunkDriver.  The channel to the sink never  *)
(* makes a driver wait, since each send is made by a fresh clone of the    *)
(* sender, and it never closes.  The object store and Holylog are external.*)
(***************************************************************************)
EXTENDS Integers, Sequences, FiniteSetsExt

CONSTANTS
    Verse,
    Outstanding,        \* how many submissions of each Verse callers have unanswered at most
    MaxSubmissions,     \* bound: submissions offered to each Verse
    MaxChunkRecords,
    TargetBlobBytes, MaxBufferBytes, PerAssignmentMaxBytes,
    UsizeRange          \* bound: 2^64, scaled down

ASSUME SinkAssumption ==
    /\ Outstanding \in [Verse -> Nat \ {0}]
    /\ {MaxSubmissions, MaxChunkRecords, TargetBlobBytes, UsizeRange} \subseteq Nat \ {0}
    /\ {MaxBufferBytes, PerAssignmentMaxBytes} \subseteq Nat

Answer(status) == [status |-> status, chunk |-> -1, slot |-> 0, first |-> 0]

\* No pending append: nothing keeps the driver's loop from its commands.
None == [chunk |-> -1, base |-> 0, placed |-> <<>>, enqueued |-> TRUE]

VARIABLES
    answer,         \* Verse -> what each of its submissions has been answered so far
    open,           \* Verse -> the placed submissions of the open chunk
    pending,        \* Verse -> PendingAppend::BlobSink, or None
    nextChunk,      \* Verse -> next_chunk of the driver
    writer,         \* Verse -> next_offset and poisoned of the ChunkLogWriter
    loaded,         \* Verse -> buffered_bytes as read by try_reserve_buffer, or -1
    buffered,       \* buffered_bytes of the sink
    assigned,       \* assignment_buffered of the sink
    channel,        \* BlobSinkSubmits sent and not yet received
    completions,    \* the PendingCompletions of the sink task
    buffer,         \* the envelopes in the BlobWriter
    pc,             \* where the sink task stands
    plan,           \* the envelopes of the cut; once put, in the order they have in the blob
    done,           \* how many of them have been sealed; once put, how many appended
    outcomes,       \* the PlacementCommitOutcomes, those told to the drivers removed
    objects,        \* the blobs in the object store, each the sequence of its envelopes
    verseLog        \* Verse -> the entries Holylog maps, each a sequence of references

driverVars == <<answer, open, pending, nextChunk>>
sinkVars == <<channel, completions, buffer, pc, plan, done, outcomes>>
counterVars == <<loaded, buffered, assigned>>
sinkAllVars == <<driverVars, sinkVars, counterVars, writer, objects, verseLog>>

SinkInit ==
    /\ answer = [v \in Verse |-> <<>>]
    /\ open = [v \in Verse |-> <<>>]
    /\ pending = [v \in Verse |-> None]
    /\ nextChunk = [v \in Verse |-> 0]
    /\ writer = [v \in Verse |-> [next |-> 0, poisoned |-> FALSE]]
    /\ loaded = [v \in Verse |-> -1]
    /\ buffered = 0
    /\ assigned = [v \in Verse |-> 0]
    /\ channel = <<>>
    /\ completions = <<>>
    /\ buffer = <<>>
    /\ pc = "select"
    /\ plan = <<>>
    /\ done = 0
    /\ outcomes = <<>>
    /\ objects = {}
    /\ verseLog = [v \in Verse |-> <<>>]

(***************************************************************************)
(* The drivers.                                                            *)
(***************************************************************************)

\* The sink waits for the append of Verse v.
Appending(v) == pc = "await" /\ plan[done + 1].verse = v

Free(v) == pending[v].enqueued /\ ~Appending(v)

Waiting(v) == {n \in DOMAIN answer[v] : answer[v][n].status = "waiting"}

\* seal_open: the placed submissions become the pending envelope.  The one that
\* was pending is dropped, and with it the senders its callers wait on.
SealOpen(v, placed, answers) ==
    /\ open' = [open EXCEPT ![v] = <<>>]
    /\ pending' = [pending EXCEPT ![v] = [chunk |-> nextChunk[v],
                                          base |-> placed[1].first,
                                          placed |-> placed,
                                          enqueued |-> FALSE]]
    /\ nextChunk' = [nextChunk EXCEPT ![v] = @ + 1]
    /\ answer' = [answer EXCEPT ![v] = [n \in DOMAIN answers |->
                    IF \E i \in DOMAIN pending[v].placed : pending[v].placed[i].n = n
                    THEN Answer("Unavailable") ELSE answers[n]]]

AdmitReady(v) ==
    /\ Free(v)
    /\ Len(answer[v]) < MaxSubmissions
    /\ Cardinality(Waiting(v)) < Outstanding[v]
    /\ LET n == Len(answer[v]) + 1
           first == IF open[v] = <<>> THEN writer[v].next
                                      ELSE open[v][Len(open[v])].first + 1
           placed == Append(open[v], [n |-> n, first |-> first])
           answers == Append(answer[v], Answer("waiting"))
       IN IF Len(placed) >= MaxChunkRecords
          THEN SealOpen(v, placed, answers)
          ELSE /\ open' = [open EXCEPT ![v] = placed]
               /\ answer' = [answer EXCEPT ![v] = answers]
               /\ UNCHANGED <<pending, nextChunk>>
    /\ UNCHANGED <<sinkVars, counterVars, writer, objects, verseLog>>

\* The open chunk has reached its age, or a caller flushes: flush does not wait
\* for the sink.
SealDue(v) ==
    /\ Free(v)
    /\ open[v] # <<>>
    /\ SealOpen(v, open[v], answer[v])
    /\ UNCHANGED <<sinkVars, counterVars, writer, objects, verseLog>>

\* try_reserve_buffer reads the total before it takes the lock.  When the total
\* is too large the driver's loop comes straight back here.
ReserveLoad(v) ==
    /\ ~pending[v].enqueued
    /\ loaded[v] = -1
    /\ buffered + Len(pending[v].placed) <= MaxBufferBytes
    /\ loaded' = [loaded EXCEPT ![v] = buffered]
    /\ UNCHANGED <<driverVars, sinkVars, buffered, assigned, writer, objects, verseLog>>

Envelope(v) ==
    [verse |-> v, chunk |-> pending[v].chunk, base |-> pending[v].base,
     subs |-> [i \in DOMAIN pending[v].placed |-> pending[v].placed[i].n]]

\* The rest of try_reserve_buffer, and the send.
Reserve(v) ==
    /\ loaded[v] # -1
    /\ loaded' = [loaded EXCEPT ![v] = -1]
    /\ LET bytes == Len(pending[v].placed)
       IN IF assigned[v] + bytes > PerAssignmentMaxBytes
          THEN UNCHANGED <<pending, buffered, assigned, channel>>
          ELSE /\ assigned' = [assigned EXCEPT ![v] = @ + bytes]
               /\ buffered' = loaded[v] + bytes
               /\ channel' = Append(channel, Envelope(v))
               /\ pending' = [pending EXCEPT ![v].enqueued = TRUE]
    /\ UNCHANGED <<answer, open, nextChunk, completions, buffer, pc, plan, done, outcomes,
                   writer, objects, verseLog>>

(***************************************************************************)
(* The sink task.                                                          *)
(***************************************************************************)

Bytes(items, v) ==
    MapThenSumSet(LAMBDA i : IF items[i].verse = v THEN Len(items[i].subs) ELSE 0, DOMAIN items)

TotalBytes(items) == MapThenSumSet(LAMBDA v : Bytes(items, v), Verse)

\* cut: everything buffered becomes the plan.
Cut(envelopes) ==
    /\ plan' = envelopes
    /\ buffer' = <<>>
    /\ done' = 0
    /\ pc' = "seal"

\* A submit is received and pushed; the push cuts when the blob has reached its
\* size, or when the oldest envelope has lingered.
SinkReceive(lingered) ==
    /\ pc = "select"
    /\ channel # <<>>
    /\ channel' = Tail(channel)
    /\ completions' = Append(completions, Head(channel))
    /\ LET pushed == Append(buffer, Head(channel))
       IN IF TotalBytes(pushed) >= TargetBlobBytes \/ lingered
          THEN Cut(pushed)
          ELSE buffer' = pushed /\ UNCHANGED <<pc, plan, done>>
    /\ UNCHANGED <<driverVars, counterVars, outcomes, writer, objects, verseLog>>

PollLinger ==
    /\ pc = "select"
    /\ buffer # <<>>
    /\ Cut(buffer)
    /\ UNCHANGED <<driverVars, counterVars, channel, completions, outcomes, writer, objects, verseLog>>

\* The driver of the next envelope seals it under its generation: same identity,
\* same base offset, same submissions.
SealEnvelope ==
    /\ pc = "seal"
    /\ Free(plan[done + 1].verse)
    /\ done' = done + 1
    /\ pc' = IF done' = Len(plan) THEN "put" ELSE "seal"
    /\ UNCHANGED <<driverVars, counterVars, channel, completions, buffer, plan, outcomes,
                   writer, objects, verseLog>>

\* release_buffer_internal for the completions that are gone(_).
Release(gone) ==
    LET released == SelectSeq(completions, LAMBDA c : c \in gone)
    IN /\ completions' = SelectSeq(completions, LAMBDA c : c \notin gone)
       /\ assigned' = [v \in Verse |-> Max({0, assigned[v] - Bytes(released, v)})]
       /\ buffered' = (buffered - TotalBytes(released)) % UsizeRange
       /\ UNCHANGED loaded

\* The sealed chunks, grouped by Verse in the order the Verses first appear.
Grouped(envelopes) ==
    LET first(i) == Min({j \in DOMAIN envelopes : envelopes[j].verse = envelopes[i].verse})
        before(j, i) == first(j) < first(i) \/ (first(j) = first(i) /\ j < i)
        rank(i) == Cardinality({j \in DOMAIN envelopes : before(j, i)}) + 1
    IN [k \in DOMAIN envelopes |-> envelopes[CHOOSE i \in DOMAIN envelopes : rank(i) = k]]

\* Mutant: the put is not verified.
PutUnverified(landed, found) ==
    /\ pc = "put"
    /\ found = landed
    /\ objects' = IF landed THEN objects \cup {Grouped(plan)} ELSE objects
    /\ plan' = Grouped(plan)
    /\ done' = 0
    /\ pc' = "append"
    /\ UNCHANGED <<driverVars, counterVars, channel, completions, buffer, outcomes, writer, verseLog>>

\* Mutant: a cut whose put fails forgets its completions.
PutFailureForgets(landed, found) ==
    /\ pc = "put"
    /\ found => landed
    /\ objects' = IF landed THEN objects \cup {Grouped(plan)} ELSE objects
    /\ plan' = IF found THEN Grouped(plan) ELSE <<>>
    /\ done' = 0
    /\ pc' = IF found THEN "append" ELSE "select"
    /\ completions' = IF found THEN completions ELSE <<>>
    /\ UNCHANGED <<driverVars, counterVars, channel, buffer, outcomes, writer, verseLog>>

\* put_and_verify: what decides is that the object is read back.  A put that
\* fails may have landed, and so may one whose read back fails.
PutAndVerify(landed, found) ==
    /\ pc = "put"
    /\ found => landed
    /\ LET blob == Grouped(plan)
       IN /\ objects' = IF landed THEN objects \cup {blob} ELSE objects
          /\ IF found
             THEN /\ plan' = blob
                  /\ done' = 0
                  /\ pc' = "append"
                  /\ UNCHANGED <<completions, counterVars>>
             ELSE /\ plan' = <<>>
                  /\ done' = 0
                  /\ pc' = "select"
                  /\ Release({completions[i] : i \in DOMAIN completions})
    /\ UNCHANGED <<driverVars, channel, buffer, outcomes, writer, verseLog>>

\* The placements of the Verse whose turn it is.
GroupEnd == Max({m \in done + 1 .. Len(plan) : plan[m].verse = plan[done + 1].verse})

DataRef(i) == [blob |-> plan, at |-> i, chunk |-> plan[i].chunk]

Outcome(i, ok, slot) ==
    [verse |-> plan[i].verse, chunk |-> plan[i].chunk, ok |-> ok, slot |-> slot]

\* The Verse's group is finished, with outcome Ok or Err for all of it.
GroupDone(ok, slot) ==
    /\ outcomes' = outcomes \o
                    [k \in 1 .. GroupEnd - done |-> Outcome(done + k, ok, slot)]
    /\ done' = GroupEnd
    /\ pc' = IF GroupEnd = Len(plan) THEN "commit" ELSE "append"

\* The checks of append_data_ref and append_reference_batch.
Accepts(v) ==
    /\ ~writer[v].poisoned
    /\ plan[done + 1].base = writer[v].next
    /\ \A i \in done + 1 .. GroupEnd - 1 : plan[i + 1].base = plan[i].base + Len(plan[i].subs)

\* The driver whose turn it is starts the append, or refuses.
AppendRefs ==
    /\ pc = "append"
    /\ LET v == plan[done + 1].verse
       IN /\ Free(v)
          /\ IF Accepts(v)
             THEN /\ writer' = [writer EXCEPT ![v].poisoned = TRUE]
                  /\ pc' = "await"
                  /\ UNCHANGED <<done, outcomes>>
             ELSE GroupDone(FALSE, 0) /\ UNCHANGED writer
    /\ UNCHANGED <<driverVars, counterVars, channel, completions, buffer, plan, objects, verseLog>>

\* Mutant: a writer whose append failed goes on.
AppendFailsOpen(landed, ok) ==
    /\ pc = "await"
    /\ ok => landed
    /\ LET v == plan[done + 1].verse
           entry == [k \in 1 .. GroupEnd - done |-> DataRef(done + k)]
       IN /\ verseLog' = IF landed THEN [verseLog EXCEPT ![v] = Append(@, entry)] ELSE verseLog
          /\ writer' = [writer EXCEPT ![v] =
                           [next |-> IF ok THEN plan[GroupEnd].base + Len(plan[GroupEnd].subs)
                                           ELSE @.next,
                            poisoned |-> FALSE]]
          /\ GroupDone(ok, Len(verseLog[v]) + 1)
    /\ UNCHANGED <<driverVars, counterVars, channel, completions, buffer, plan, objects>>

\* Holylog answers.  An append that fails may have landed; the writer stays
\* poisoned.
AppendReturns(landed, ok) ==
    /\ pc = "await"
    /\ ok => landed
    /\ LET v == plan[done + 1].verse
           entry == [k \in 1 .. GroupEnd - done |-> DataRef(done + k)]
       IN /\ verseLog' = IF landed THEN [verseLog EXCEPT ![v] = Append(@, entry)] ELSE verseLog
          /\ writer' = IF ok
                       THEN [writer EXCEPT ![v] =
                               [next |-> plan[GroupEnd].base + Len(plan[GroupEnd].subs),
                                poisoned |-> FALSE]]
                       ELSE writer
          /\ GroupDone(ok, Len(verseLog[v]) + 1)
    /\ UNCHANGED <<driverVars, counterVars, channel, completions, buffer, plan, objects>>

Receipts(v, out) ==
    LET placed(n) == {i \in DOMAIN pending[v].placed : pending[v].placed[i].n = n}
    IN [n \in DOMAIN answer[v] |->
            IF placed(n) = {} THEN answer[v][n]
            ELSE [status |-> "Committed", chunk |-> out.chunk, slot |-> out.slot,
                  first |-> pending[v].placed[Min(placed(n))].first]]

\* Mutant: the driver is told of every placement.
CommitsAnyOutcome ==
    /\ pc = "commit"
    /\ pc' = "release"
    /\ LET out == Head(outcomes)
           v == out.verse
       IN /\ Free(v)
          /\ pending' = [pending EXCEPT ![v] = None]
          /\ answer' = [answer EXCEPT ![v] = Receipts(v, out)]
    /\ UNCHANGED <<open, nextChunk, counterVars, channel, completions, buffer, plan, done,
                   outcomes, writer, objects, verseLog>>

\* finish_blob_sink_committed: whatever is pending has committed, with the chunk
\* identity and the slot of the outcome.  Nothing is said to the driver of a
\* placement that failed.
BlobSinkCommitted ==
    /\ pc = "commit"
    /\ pc' = "release"
    /\ LET out == Head(outcomes)
           v == out.verse
       IN IF out.ok
          THEN /\ Free(v)
               /\ pending' = [pending EXCEPT ![v] = None]
               /\ answer' = [answer EXCEPT ![v] = Receipts(v, out)]
          ELSE UNCHANGED <<pending, answer>>
    /\ UNCHANGED <<open, nextChunk, counterVars, channel, completions, buffer, plan, done,
                   outcomes, writer, objects, verseLog>>

\* notify_chunk_success and notify_chunk_failure: every completion with this
\* chunk identity, of whichever Verse.
NotifyChunk ==
    /\ pc = "release"
    /\ Release({c \in {completions[i] : i \in DOMAIN completions} :
                    c.chunk = Head(outcomes).chunk})
    /\ outcomes' = Tail(outcomes)
    /\ pc' = IF outcomes' = <<>> THEN "select" ELSE "commit"
    /\ plan' = IF outcomes' = <<>> THEN <<>> ELSE plan
    /\ done' = IF outcomes' = <<>> THEN 0 ELSE done
    /\ UNCHANGED <<driverVars, channel, buffer, writer, objects, verseLog>>

SinkNext ==
    \/ \E v \in Verse : AdmitReady(v) \/ SealDue(v) \/ ReserveLoad(v) \/ Reserve(v)
    \/ \E lingered \in BOOLEAN : SinkReceive(lingered)
    \/ PollLinger
    \/ SealEnvelope
    \/ \E landed, found \in BOOLEAN : PutAndVerify(landed, found)
    \/ AppendRefs
    \/ \E landed, ok \in BOOLEAN : AppendReturns(landed, ok)
    \/ BlobSinkCommitted
    \/ NotifyChunk

SinkSpec == SinkInit /\ [][SinkNext]_sinkAllVars

(***************************************************************************)
(* Properties.                                                             *)
(***************************************************************************)

Resolve(ref) == ref.blob[ref.at]

\* Every reference in a Verse's log names a blob that is in the object store, and
\* the bytes it names are the chunk of that Verse with that identity: the put is
\* verified before any reference is appended, and the offsets of the placements
\* are those the chunks have in the blob (commit_cut_plan, put_and_verify).
RefsResolve ==
    \A v \in Verse : \A s \in DOMAIN verseLog[v] : \A i \in DOMAIN verseLog[v][s] :
        LET ref == verseLog[v][s][i]
        IN /\ ref.blob \in objects
           /\ Resolve(ref).verse = v
           /\ Resolve(ref).chunk = ref.chunk

\* The chunks a Verse's log refers to are dense from offset 0, whatever the
\* drivers stamped on their envelopes while the sink was behind, and although an
\* append that failed may have landed (append_data_ref, append_reference_batch).
SinkDense ==
    \A v \in Verse :
        LET refs == UNION {{s} \X DOMAIN verseLog[v][s] : s \in DOMAIN verseLog[v]}
            chunk(r) == Resolve(verseLog[v][r[1]][r[2]])
            earlier(r) == {q \in refs : q[1] < r[1] \/ (q[1] = r[1] /\ q[2] < r[2])}
        IN \A r \in refs : chunk(r).base =
                MapThenSumSet(LAMBDA q : Len(chunk(q).subs), earlier(r))

\* The fair share charged to a Verse is what its envelopes take in the channel
\* and among the completions the sink task has still to settle: each cut, failed
\* or not, gives back what its envelopes reserved, once (try_reserve_buffer,
\* release_buffer_internal, notify_chunk_*, fail_all_completions).
AssignedIsHeld ==
    \A v \in Verse : assigned[v] = Bytes(channel, v) + Bytes(completions, v)

SinkReceipt(v) ==
    \A n \in DOMAIN answer[v] : answer[v][n].status = "Committed" =>
        LET r == answer[v][n]
        IN /\ r.slot \in DOMAIN verseLog[v]
           /\ \E i \in DOMAIN verseLog[v][r.slot] :
                LET c == Resolve(verseLog[v][r.slot][i])
                IN /\ c.chunk = r.chunk
                   /\ \E k \in DOMAIN c.subs : c.subs[k] = n /\ c.base + k - 1 = r.first

\* try_reserve_buffer turns an envelope away for the total only when the bytes in
\* the channel and in the sink task leave no room for it, as blob_sink.rs:61 has
\* it: "Returns `BufferFull` when the Scribe ceiling or per-assignment fair share
\* would be exceeded".
BufferFullIsFull ==
    \A v \in Verse :
        LET bytes == Len(pending[v].placed)
        IN ~pending[v].enqueued /\ buffered + bytes > MaxBufferBytes =>
               TotalBytes(channel \o completions) + bytes > MaxBufferBytes

\* A Verse whose callers keep one submission outstanding only gets receipts for
\* records that are in its log at the chunk, slot and offset the receipt names,
\* whatever the callers of the other Verses do and whatever fails in the cuts it
\* shares with them (finish_blob_sink_committed).
LoneReceiptSound == \A v \in Verse : Outstanding[v] = 1 => SinkReceipt(v)

\* The same for every Verse, as blob_sink.rs:4-7 has it: a receipt is released
\* only after the reference to the submission's chunk has been appended.
SinkReceiptSound == \A v \in Verse : SinkReceipt(v)

=============================================================================
