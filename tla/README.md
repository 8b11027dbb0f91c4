# Scripture in TLA+

Scripture stores streams in object storage. A *Verse* is one partition; a
*Scribe* is the process that owns Verses and writes them; a *Canon* is the
durable history of a Verse, a Holylog log whose generations are sealed when
ownership moves. Producers submit lists of records under an identity (producer,
epoch, sequence) and are told *committed* only when the records are in the log.

These modules model the parts of the system that are hard to test: what happens
when calls overlap, when a process dies between two steps, when an append does
not answer, when a file is cut in the middle of a record. TLC checks them on
small instances; TLAPS proves the most important results for every instance.

## 1. The system and its parts

| Part | Code | State | Operations | Hard behaviours |
|---|---|---|---|---|
| Chunk driver | `scripture/src/driver` | open chunk, sealed chunk, parked submissions, dedup window, writer | submit, flush, seal by size / count / age, append, poison, shutdown | callers drop futures; appends land without an answer; parked work drained in a loop |
| Chunk log | `scripture/src/chunklog.rs` | next offset, poison flag; the log itself | append (chunk, DataRef, reference batch), recover | an uncertain append; a bounded recovery scan |
| Submission spool | `scripture/src/spool` | WAL file, reservations, completion queue | submit_forwarded, completer, open and classify | crash between append, sync, forward, commit and progress |
| Continuity outbox | `spool/continuity.rs` | WAL file, pending queue, indexes | admit, mark_committed, reopen | torn ends, failed syncs, retries |
| Pre-commit spool | `scripture-runtime/src/pre_commit_spool.rs`, `receipt.rs` | WAL file, pending, known, drawn markers | admit_for_receipt, next_envelope, observe_committed, open | check-then-act across locks; a full WAL |
| Owner lock | `spool/file.rs`, `producer_outbox.rs` | a PID file | acquire, drop | two processes between look, remove and create |
| Producer outbox | `scripture/src/producer_outbox.rs` | WAL file, transcript | stage_submit, mark_committed, open | failed writes that stay in the file |
| Producer client and wire | `scripture-producer-client`, `scripture-runtime/src/producer_wire.rs` | pending submissions, connections | submit, flush, forward; read, submit, reply | lost replies; handlers that outlive their client |
| Shared blob sink | `scripture-runtime/src/shared_blob_sink.rs`, `blob_writer.rs`, driver in sink mode | byte counters, buffered envelopes, cut in progress, pending envelope of each driver | submit, push, cut, seal, put, append references, notify | one task that waits for many drivers; one failure among several Verses; stale offsets |
| Blob reader and rewrite | `blob_reader.rs`, `blob_rewrite.rs` | staging and rewritten objects, superseding references | read, rewrite, collect | a reader with an old reference while its object goes |
| Serving authority | `serving_authority.rs`, `authority_coordinator.rs`, `ha_session.rs` | the root record of a Verse under compare-and-swap, terms, intents | bootstrap, promote, complete, recover, re-observe | a candidate that dies between intent and completion; uncertain writes |
| Reconcile planner | `reconcile.rs` | none: a function of evidence | plan | evidence that is stale or partial |
| Verse runtime, Canon transition | `verse_runtime.rs`, `canon_transition.rs`, `chunk_service.rs` | phase of the Verse, service actor | serve, seal, hand off, fence | a handoff beside submissions in flight |
| Scribe process | `scribe.rs`, `scribe_lifecycle.rs`, `ingress.rs`, `raw_lines.rs` | lifecycle, connections, budgets | start, drain, stop; lines and acknowledgements | shutdown beside open connections |
| Routing and directory | `producer_routing.rs`, `directory.rs` | heartbeat records, cached routes | publish, resolve, redirect | records that are out of date |
| Workload host | `scripture-workload` | progress register in the object store | read, process, advance | two hosts; a crash between output and progress |
| Telemetry producer | `scripture-telemetry-producer` | bounded buffer, ledger | scrape, offer, send, account | drops at the limit that must be counted |

The command line (`scripture-cli`), the test campaign (`scripture-campaign`), the
prototype (`protoscripture`) and the first journal format (`journal.rs`,
`batch.rs`, `model.rs`, `trace.rs`) are not modelled: they parse, print, test or
are no longer served.

How the parts meet: a producer stages a submission in its **outbox** and sends it
over the **wire** to a Scribe. There it may pass a **spool** (a local WAL that
makes it survive the process) and reaches the **driver** of its Verse, which seals
chunks and appends them through the **chunk log**, directly or through the
**shared blob sink** that packs the chunks of several Verses into one object. The
right to write is the **serving authority** of the Canon. The receipt travels back
the same way, and every stage may crash on it.

## 2. Modules

### ChunkDriver, CommittedLog and their proofs

`ChunkDriver` is the actor of `driver/run_loop.rs` and `driver/admission.rs` with
the writer and the recovery of `chunklog.rs`. The actor is one task, so it has one
program counter `pc`; while it awaits an append it does nothing else, but callers,
the clock, Holylog and a crash go on. `open`, `pending`, `blocked`, `dedup`,
`admittedSeq`, `knownProducers` and `writer` are the fields of the actor under
their own names. `Verdict` is the chain of early returns of `admit`; `Place`,
`Join`, `Replay` and `Park` are what follows; `DrainBlocked` is the loop that
admits parked submissions after an append, including that it can seal more than
once. `log` is what Holylog maps; an append that does not return Ok may have
landed. A list of records is a `Payload`, of which only the record count and two
lengths matter. `CommittedLog` says what the owner of a Verse promises without
chunks, buffers or owners; `ImplementsCommittedLog` is the refinement.

| Run | Shows |
|---|---|
| `driver_retry` | one producer, two epochs, retries with the same and other records, uncertain appends, flush, dropped futures, crash and recovery: the whole contract, and the refinement of `CommittedLog` |
| `driver_drain` | two producers under a policy where `drain_blocked` seals over a pending chunk: log, receipts and `bytes_at_risk` stay right even then |
| `driver_fair` | every call is answered if the actor runs, time passes and appends return |
| `driver_overwrite` (violated) | `drain_blocked` overwrites the sealed chunk; its callers read `Unavailable` from a live owner |
| `driver_window` (violated) | a producer outside the recovery window counts as new |

Bounds: three calls suffice for one chunk pending, one open and one submission
parked, which is all the driver can hold apart; two owners give one crash and one
recovery. Fairness in `driver_fair`: the actor's task is polled (weak fairness of
its steps), the clock ticks, Holylog answers. A runtime that polls tasks justifies
the first two; the third is Holylog's contract.

### SpoolStorage, SpoolCalls

`SpoolStorage` is the WAL file shared by three components: a sequence of frames and
torn pieces, how much of it is synced, and the two counters. `Survives` is what a crash
may leave: all that was synced, some of what was not, and perhaps a piece of the next
frame. `Scan` is `scan_bytes`: it stops at the first thing that does not decode.
`SpoolCalls` declares what the two spools that serve calls have in common.

### SpoolCell, PreCommitSpool, ContinuityOutbox, OwnerLock: MCLocal

* `SpoolCell`: `admit_wal_and_queue` under the admission lock, in two steps (reserve,
  WAL) because a crash can fall between them; `forward` outside the lock; the completer
  beside them.
* `PreCommitSpool`: the four sections of `persist_and_ack_spooled` (check, reserve, write,
  publish) are four steps, since each takes its own lock; the blob writer draws, and
  commits or loses cuts. `Serial` says that callers do not overlap two calls of one
  identity, which the code does not enforce: without it both invariants fail.
* `ContinuityOutbox`: admission, marking, reopening and the drainer, with two possible
  bodies for an identity because `rebuild_indexes` keeps the last.
* `OwnerLock`: the PID file, one step per file system call. `Overlap` lets two processes
  acquire at once; mutual exclusion holds without it only.

They do not call each other. `MCLocal` checks them in one run: the initial state says
which of them the behaviour is about, and the others stand still.

| Run | Shows |
|---|---|
| `local_disk` | through failing appends and syncs, dropped futures and crashes at any step: what spool callers were told and what a scan will say agree, nothing continuity admitted is dropped and nothing retired returns, spooled receipts are kept and retired only when committed, one process holds the lock |
| `local_fair` | reservations come back, every spool receipt resolves, every admission and every spooled submission is retired, a dead owner's lock is reclaimed |
| `continuity_tear` (violated) | a torn end is never removed, and later admissions are lost behind it |

Bounds: three calls, two of them with one identity, give a retry beside another
submission; two crashes, because what a crash leaves matters at the opening after the
next one; a WAL of seven units fills in the middle of a lifecycle. Fairness: calls in
progress, the completer, the drainer, the blob writer and restarts run; the Scribe
answers a submission that is sent again and again.

### ProducerOutbox, ProducerClient, SharedBlobSink, ServingAuthority: MCServing

* `ProducerOutbox`: the producer's transcript. It cuts its file, unlike the spool:
  `SetLen` is `set_len`, which may cut through a record. Failing `set_len` calls, whose
  errors the code drops, are not modelled.
* `ProducerClient` extends it with the flush of the wire client and the connection
  handler: each pending submission in order over a connection of its own, timeouts and
  refusals, handlers that go on after their client has left.
* `SharedBlobSink`: drivers of a Scribe with several assignments and the sink task they
  feed. A driver answers the sink's commands only when its loop is `Free`. The steps of a
  cut are those of `commit_cut_plan`: seal each envelope, put and read back one object,
  append one reference batch per Verse, tell each driver, give back the reservation.
  `try_reserve_buffer` is two steps, since it loads the total before it locks. Submissions
  are one record each, and the driver's byte limits are taken to leave room, so nothing
  parks: that is the subject of `ChunkDriver`.
* `ServingAuthority`: processes that may write one Verse. `root` is Holylog's register with
  the membership and the authority record in its fence; an update expects the version its
  author read, its reply may be lost, and it may arrive later. `Reconcile*` and `ProbePeer`
  are `await_lawful_writer` and what it calls; `PromoteEmpty` to `Activate` are the steps of
  a promotion, one per call to the root or a loglet, because a process may die and others
  may move between any two. `EffectiveWriter` is the gate, asked before a submission and
  before its receipt is handed on. An append writes, then looks at the seal. A process
  starts once; a restarted Scribe is another process of the same owner, and the old one may
  still be running.

| Run | Shows |
|---|---|
| `serving` | the Scribe sees one transcript, in order, and everything that is staged gets there; references resolve to the Verse's own chunks, each log is dense, fair shares add up, and a Verse whose callers wait for one answer at a time gets true receipts whatever its sibling does; nothing acknowledged is lost in a handover, the root never goes back, and a fleet recovers its writer |
| `producer_cut` (violated) | an ACK whose sync failed is not counted, and a later cut goes through a submission |
| `sink_receipt` (violated) | a chunk sealed while another is in the sink gets that one's receipt |
| `sink_counter` (violated) | the byte counter loses a release, and an envelope that fits is turned away |

Bounds: two Verses, `Lone` with one submission outstanding and `Busy` with two, two
submissions each: a chunk in the sink, another sealed over it, and a cut that holds both
Verses. `usize` has 8 values, so a counter that wraps is seen to. Three sequences and two
crashes for the client. Fairness (`ClientFairness`): the application flushes while
something is pending and restarts a process that died; a Scribe that can commit, and an
ACK that can arrive, again and again do.

The authority has two processes of owner A and one of B, one submission, and two faults (a
failed read, a probe that fails although its peer is up, or a lost reply): two failed probes
are what it takes to replace a writer that is alive. Its fairness (`AuthorityFairness`): the
task of a process that is up is polled, and the grace period passes. `FleetRecovers` leaves
out what the code cannot leave by itself, and `Excused` lists it: nobody left in the
lifecycle, a transition whose candidate has no process there, and a root that names an owner
whose endpoint answers although none of its processes may write.


## 3. What is proved

`ChunkDriver_types`, `ChunkDriver_admission` and `ChunkDriver_proofs` (each extends the one
before) hold machine-checked proofs of four theorems about `ChunkDriver`, for every set of
callers, producers and payloads, every policy `ChunkPolicy::validate` accepts
(`PolicyAssumption`), every recovery bound and any number of owners:

* `TypeCorrect`: `Spec => []TypeOK`.
* `BookkeepingAgrees`: `Spec => []ReceiptInv`, the inductive invariant.
* `ReceiptsAreTrue`: `Spec => []ReceiptSound`: a receipt names the slot, chunk and offset at
  which the caller's own submission is in the log.
* `OffsetsAreDense`: `Spec => []DenseLog`.

`ReceiptSound` is not inductive: whether a receipt will be true depends on what the waiters of
a placed submission submitted, on where seal_open says it begins, and on whether the writer
appends the chunk at that offset. `ReceiptInv` therefore adds that the dedup window only names
places of the log (`DedupSound`), that every waiter of a placed submission submitted just that
submission (`WaitersMatch`), that the placed submissions of a chunk tile it and no identity is
placed twice (`WellPlaced`), and that a sound writer's next offset is the end of the log. The
case that needs care is `Place`: a new submission is placed only when nothing buffered has its
identity, and a call that was idle waits nowhere. Recovery keeps, for each identity, the
highest slot that has it, which is the only one as chunks in the log hold an identity once.
The invariant also holds in the runs where `drain_blocked` overwrites a sealed chunk: those
callers hear `Unavailable`, never a wrong receipt.
Out of the prover's reach, and left to TLC: the liveness properties, `ENABLED`, and what folds
over whole logs compute (`NoDuplicate` after recovery, the refinement of `CommittedLog`).

## 4. Conventions

A definition commented *Mutant* is the form a plausible mistake would give the definition
after it; it shows that the property named with it in `PROJECT.json` depends on that code. It
is used nowhere else. *History* variables are read by properties only. *Bounds* are constants
that limit the model, never the code.

An *external* definition stands for something outside the repository, taken from how the code
uses it: Holylog, the file system at a crash, the object store, the death of a process.

## 5. Plan

In this order, each with a composition where it meets what is there:

1. The handoff of a Verse beside the authority (`verse_runtime`, `canon_transition`,
   `canon_node`), and the static Canon assignment.
2. `Reconcile`: the planner as a function over all evidence of a small fleet.
3. DataRef recovery and the blob rewrite: superseding references in a scanned suffix, readers
   beside collection.
4. Workload progress register, routing and directory, raw lines, telemetry buffer.
5. Theorems: `NoDuplicate` under a full scan, `PoisonFailsClosed`, the durability invariants of
   the spools, `SinkDense` and `AssignedIsHeld`, `AckedSurvives` and `RootMovesForward`, and the
   refinements.

## 6. Findings

Where a run is marked as violated, a line of the repository says something the code does not do:

* `continuity_tear` (crates/scripture/src/spool/continuity.rs:201): from_storage takes the frames that scan and ignores the tail (`let (frames, _tail) = storage.scan_valid_frames()?`); it neither truncates the torn piece nor refuses to serve, so frames appended later lie behind it where scan_bytes never looks. An entry admitted after such an opening is gone at the next one. src/crates/scripture/src/spool/continuity.rs:6 says: "It never silently discards a locally durable admission.", and line 13: "Reopening the same store rebuilds pending = submissions without progress."
* `driver_overwrite` (crates/scripture/src/driver/run_loop.rs:329): seal_open assigns pending_append without looking at what it holds. drain_blocked admits parked submissions in a loop and admit_ready seals whenever a chunk is full, so a second seal in one drain overwrites the sealed chunk of the first: its submissions were admitted, their waiters are dropped and read Unavailable, and the owner goes on serving. src/crates/scripture/src/driver/mod.rs:178 says of Unavailable: "The actor is gone; the submission was never admitted."
* `driver_window` (crates/scripture/src/driver/admission.rs:320): A producer whose receipts all lie before the recovery window is unknown to the recovered owner, which expects sequence 0 of it and admits a retry of a committed submission again. docs/decisions/0010: "A producer absent from the recovered window yields **`IndeterminateProducer`**, not automatic admission and not automatic fencing." (line 116), and "a record identified by `(producer_id, producer_epoch, sequence)` appears at most once in the visible log" (lines 318-319).
* `producer_cut` (crates/scripture/src/producer_outbox.rs:420): mark_committed returns the error of sync_all with the ACK record in the file and used_bytes not advanced. stage_submit appends after the ACK, advances used_bytes by its own length only, and when a later sync fails the file is cut to used_bytes, which lies inside the submission staged before. It is gone after a restart. src/crates/scripture/src/producer_outbox.rs:191 says: "`mark_committed` is the only reclaim path".
* `sink_receipt` (crates/scripture/src/driver/run_loop.rs:484): finish_blob_sink_committed takes whatever is pending and answers it with the chunk identity and slot of the chunk that committed. seal_open replaces an envelope that is already in the sink (run_loop.rs:281), so callers of the second chunk get Committed receipts for records that are not in the log; the second envelope carries the base offset of the first and is refused later. src/crates/scripture/src/blob_sink.rs:4 says: "assignments enqueue generation-free envelopes and receive committed receipts only after a cut PUT and per-Verse fenced reference append." (lines 4-6)
* `sink_counter` (crates/scripture-runtime/src/shared_blob_sink.rs:197): try_reserve_buffer loads buffered_bytes before it takes the lock and stores the sum under it; a release in between is lost, and so is a reservation of another driver. The counter then says more than is held, or wraps when the sink subtracts, and envelopes that fit are turned away. src/crates/scripture/src/blob_sink.rs:61 says: "Returns `BufferFull` when the Scribe ceiling or per-assignment fair share would be exceeded" (lines 61-62).

## 7. Not modelled

* **chunk driver** (partly): The actor with depth-one appends in ChunkDriver: admission, deduplication, epochs, sealing, timers, flush, the append, poison, shutdown and recovery. The sink mode in SharedBlobSink: sealing, handing over, sealing and appending at a cut, receipts; there each submission is new and fits. Metrics are left out.
* **chunk log** (partly): append with its offset checks, DataRef and reference-batch appends, and recover over a bounded scan of chunks. Superseding appends, the recovery of DataRefs and the recovery of a Canon's generations (recover_virtual) are not modelled yet.
* **chunk format** (partly): The limits that sealing and decoding enforce on counts and lengths; the byte layout is not modelled.
* **producer outbox** (partly): stage_submit, mark_committed and open_inner over a WAL whose writes and syncs fail. The identity file is not modelled.
* **producer client and wire** (partly): The client's submit and flush, its connections and the handlers on the Scribe's side, over ProducerOutbox and a log that deduplicates. The frame layout, the hello negotiation and redirects to another Scribe are not modelled.
* **shared blob sink and blob writer** (partly): Reservation, buffering, cuts by size and linger, sealing, put and read back, reference appends and completion. The depth-one blob store (blob_store) and the DataRef codec are not modelled.
* **blob reader and rewrite** (not modelled): Planned: superseding references against concurrent readers.
* **serving authority** (partly): The life of a Scribe from start to serving, promotion over a root with compare-and-swap, sealing, provisioning, publication, activation and the gates around submit and receipt. AuthorityCoordinator::reconcile and classify_transition, which only tests call, the record codec and the static Canon assignment (canon, assignment_root) are not modelled.
* **reconcile planner** (not modelled): Planned: the plan as a function of the evidence, over all evidence of a small fleet.
* **verse runtime and Canon transition** (not modelled): Planned after the authority: handoff of a Verse between owners and the service actor.
* **Scribe process** (not modelled): Planned in parts: raw-lines framing with its acknowledgements. The lifecycle is part of the serving authority. Store adapters and credentials are I/O.
* **routing and directory** (not modelled): Planned: soft discovery with stale entries and redirects.
* **workload host** (not modelled): Planned: the progress register over an object store with conditional writes. Parquet output is data conversion.
* **telemetry producer** (not modelled): Planned: the bounded buffer with its ledger. Scraping and normalisation are I/O and formatting.
* **command line** (not modelled): Argument parsing, configuration and printing around the components above.
* **test campaign and spike** (not modelled): A test harness and an early prototype; neither is part of the served system.
* **legacy journal, batch and trace** (not modelled): The first format and service, kept for its tests; the clock is the source of the driver's timers.
