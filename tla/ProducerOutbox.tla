--------------------------- MODULE ProducerOutbox ---------------------------
(***************************************************************************)
(* The durable outbox of a producer                                        *)
(* (crates/scripture/src/producer_outbox.rs).  A Submit frame is staged in *)
(* a WAL and synced before anybody sends it; an ACK record retires it; the *)
(* frame itself stays in the transcript, so that its sequence is never     *)
(* used for other bytes.                                                   *)
(*                                                                         *)
(* The WAL is a file of SpoolStorage whose identities are the sequences of *)
(* one producer epoch: a Submission holds the exact Submit bytes and a     *)
(* Progress is an ACK.  Unlike the spool, the outbox cuts the file: a torn *)
(* end when it opens, and back to used_bytes when a sync fails.            *)
(***************************************************************************)
EXTENDS SpoolStorage

CONSTANTS
    MaxBytes,           \* max_bytes
    MaxRecords          \* bound: records in the file after a fault

ASSUME SequenceAssumption ==
    /\ \A s \in Identity : 0..s \subseteq Identity
    /\ MaxBytes \in Nat \ {0} /\ MaxRecords \in Nat

VARIABLES
    wal,                \* the WAL: its records, how many are durable, used_bytes
    opens,              \* how often the directory was opened
    entries,            \* what is known of each sequence of the transcript
    acked,              \* the sequences whose EntryState is Acknowledged
    status,             \* "open", "down", or why the last opening failed
    staged              \* history: what stage_submit returned success for

outbox == <<wal, entries, acked, status, staged, opens>>

Transcript == [seq : Identity, submit : Body]
Sequences(es) == {e.seq : e \in es}
Entry(s, b) == [seq |-> s, submit |-> b]
Size(file) == FoldSeq(LAMBDA f, n : encoded_len(f) + n, 0, file)

\* set_len(n) and sync_all: the records within the first n bytes, and a torn one
\* when n cuts through a record.
SetLen(file, n) ==
    LET whole == Max({k \in 0..Len(file) : Size(SubSeq(file, 1, k)) <= n})
        kept == SubSeq(file, 1, whole)
    IN  IF Size(kept) = n \/ whole = Len(file) THEN kept ELSE Append(kept, Torn)

Durable(file) == [wal EXCEPT !.file = file, !.synced = Len(file)]
-----------------------------------------------------------------------------
\* stage_submit

next_sequence == IF entries = {} THEN 0 ELSE Max(Sequences(entries)) + 1

reserve(bytes) == wal.used + bytes <= MaxBytes

\* Mutant: any sequence that is not in the transcript may be staged.
StagesAnyNew(s) == status = "open" /\ s \notin Sequences(entries) /\ reserve(FrameBytes[s])

\* What stage_submit asks of a sequence that is new to the transcript.
CanStage(s) == status = "open" /\ s = next_sequence /\ reserve(FrameBytes[s])

\* Mutant: staged without a sync.
StageUnsynced(s, b) ==
    /\ CanStage(s)
    /\ wal' = Appended(wal, Submission(s, b))
    /\ entries' = entries \cup {Entry(s, b)}
    /\ staged' = staged \cup {Entry(s, b)}
    /\ UNCHANGED <<acked, status, opens>>

Stage(s, b) ==
    /\ CanStage(s)
    /\ wal' = Synced(Appended(wal, Submission(s, b)))
    /\ entries' = entries \cup {Entry(s, b)}
    /\ staged' = staged \cup {Entry(s, b)}
    /\ UNCHANGED <<acked, status, opens>>

\* A sequence of the transcript: the same bytes are confirmed, others refused.
Restage(s, b) ==
    /\ status = "open" /\ Entry(s, b) \in entries
    /\ staged' = staged \cup {Entry(s, b)}
    /\ UNCHANGED <<wal, entries, acked, status, opens>>

\* write_all fails: a part of the record may be in the file.  sync_all fails:
\* the file is cut back to used_bytes.
StageFails(s, b) ==
    /\ CanStage(s) /\ Len(wal.file) < MaxRecords
    /\ \/ "write" \in Faults /\ wal' \in AppendFailed(wal, "tear" \in Faults)
       \/ /\ "sync" \in Faults
          /\ wal' = Durable(SetLen(Append(wal.file, Submission(s, b)), wal.used))
    /\ UNCHANGED <<entries, acked, status, staged, opens>>
-----------------------------------------------------------------------------
\* mark_committed

CanMark(s) ==
    status = "open" /\ s \in Sequences(entries) \ acked /\ reserve(ProgressBytes)

MarkCommitted(s) ==
    /\ CanMark(s)
    /\ wal' = Synced(Appended(wal, Progress(s)))
    /\ acked' = acked \cup {s}
    /\ UNCHANGED <<entries, status, staged, opens>>

\* write_all or sync_all fails: nothing is cut and nothing counted.
MarkFails(s) ==
    /\ CanMark(s) /\ Len(wal.file) < MaxRecords
    /\ \/ "write" \in Faults /\ wal' \in AppendFailed(wal, "tear" \in Faults)
       \/ "ack_sync" \in Faults /\ wal' = [wal EXCEPT !.file = Append(@, Progress(s))]
    /\ UNCHANGED <<entries, acked, status, staged, opens>>

\* pending_submissions, in sequence order.
Pending == {e \in entries : e.seq \notin acked}
-----------------------------------------------------------------------------
\* Crash and opening

\* A crash with one of the frames of writing, or none, on its way to the file.
Crash(writing) ==
    /\ "crash" \in Faults /\ status = "open" /\ opens < MaxOpens
    /\ \E w \in {wal} \cup {Appended(wal, f) : f \in writing} :
          \E file \in Survives(w) : wal' = [wal EXCEPT !.file = file]
    /\ status' = "down"
    /\ entries' = {} /\ acked' = {}
    /\ UNCHANGED <<staged, opens>>

\* scan_wal: a torn record with others behind it may take their bytes for its
\* own and fail its checksum, or claim more bytes than there are.
MayFailChecksum(file) ==
    \E j, k \in DOMAIN file : j < k /\ file[j].kind = "torn" /\ file[k].kind # "torn"

\* apply_record: the n-th new sequence is n - 1, and an ACK follows its Submit.
Lawful(records) ==
    \A k \in DOMAIN records :
        LET before == Submitted(SubSeq(records, 1, k - 1)) IN
        IF records[k].kind = "progress" THEN records[k].id \in before
        ELSE IF records[k].id \in before
             THEN \A j \in 1..k : records[j] \in SubmissionFrame /\ records[j].id = records[k].id
                                      => records[j].body = records[k].body
        ELSE records[k].id = Cardinality(before)

\* open_inner: the file is scanned and its torn end removed.
Open ==
    LET records == Scan(wal.file) IN
    /\ status = "down"
    /\ opens' = opens + 1
    /\ \/ /\ MayFailChecksum(wal.file) \/ ~Lawful(records)
          /\ status' = "Corrupt"
          /\ UNCHANGED <<wal, entries, acked>>
       \/ /\ Lawful(records)
          /\ status' = "open"
          /\ wal' = Opened(records)
          /\ entries' = {Entry(f.id, f.body) : f \in Range(records) \cap SubmissionFrame}
          /\ acked' = Progressed(records)
    /\ UNCHANGED staged

OutboxInit ==
    /\ wal = NewStorage
    /\ entries = {} /\ acked = {} /\ staged = {}
    /\ status = "open" /\ opens = 1
-----------------------------------------------------------------------------
\* Properties

\* However a crash cuts the file, the outbox opens again, and what stage_submit
\* confirmed is in the transcript with the bytes it was confirmed with, in this
\* process and in every later one (stage_submit, open_inner, scan_wal).
StagedIsKept == status # "Corrupt" /\ (status = "open" => staged \subseteq entries)

\* The transcript is dense from 0, gives every sequence one submission, and has
\* one for every ACK, whatever writes and syncs failed and wherever a crash cut
\* the file (stage_submit, apply_record).
DenseTranscript ==
    /\ acked \subseteq Sequences(entries)
    /\ Sequences(entries) = 0..(Cardinality(entries) - 1)
    /\ \A d, e \in entries : d.seq = e.seq => d = e
=============================================================================
