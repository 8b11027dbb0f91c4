----------------------------- MODULE SpoolCell -----------------------------
(***************************************************************************)
(* The submission spool cell of crates/scripture/src/spool/cell.rs: a      *)
(* submission is written to a local WAL and synced, then forwarded to the  *)
(* driver; a completer task awaits the driver's receipt, writes a progress *)
(* frame and only then resolves the caller's receipt.  Concurrent submits  *)
(* are serialised by the admission lock, which is not held while a         *)
(* submission is forwarded; the completer runs beside them.                *)
(*                                                                         *)
(* The driver is external here: remote is what it has committed, and a     *)
(* receipt it gives says committed or failed.  A failed receipt says       *)
(* nothing about the commit.                                               *)
(***************************************************************************)
EXTENDS SpoolCalls

CONSTANT MaxInflightCompletions     \* SpoolConfig

ASSUME CompletionAssumption == MaxInflightCompletions \in Nat \ {0}

VARIABLES
    state,              \* SpoolCellState; a poisoned cell is in the state of its cause
    reserved,           \* reserved_bytes and reserved_frames
    inflight,           \* inflight_completions
    admitting,          \* the call that holds the admission lock
    queue,              \* the CompletionWork of the calls, oldest first
    running,            \* SpoolCell::run has not been dropped
    delivery,           \* what the completer was sent by each call
    receipt,            \* the driver's answer to each forwarded submission
    sent                \* history: the calls whose submission was forwarded

cell == <<wal, state, known, reserved, inflight, admitting, queue, running, opens>>
cellVars == <<cell, delivery, receipt, remote, sent, call>>

Causes == {"ForwardFailed", "ReceiptFailed", "ProgressFailed"}
Nothing == [bytes |-> 0, frames |-> 0]
Monus(m, n) == IF n < m THEN m - n ELSE 0
-----------------------------------------------------------------------------
\* The counters shared by admissions and the completer

Lifecycle(i) == FrameBytes[i] + ProgressBytes

reserve(bytes, frames) ==
    [bytes |-> reserved.bytes + bytes, frames |-> reserved.frames + frames]

release(bytes, frames) ==
    [bytes |-> Monus(reserved.bytes, bytes), frames |-> Monus(reserved.frames, frames)]


\* What reserve checks: the submission frame and its progress frame fit beside
\* all that is written and all that is reserved.
LifecycleFits(i) ==
    /\ wal.used + reserved.bytes + Lifecycle(i) <= MaxWalBytes
    /\ wal.count + reserved.frames + 2 <= MaxFrames

poison(cause) == IF state = "Serving" THEN cause ELSE state
-----------------------------------------------------------------------------
\* submit_forwarded

\* The early returns of admit_wal_and_queue.
Verdict(c) ==
    IF state # "Serving" THEN "Refused"
    ELSE IF FrameBytes[IdOf[c]] > MaxFrameBytes \/ ProgressBytes > MaxFrameBytes
         THEN "CapacityExceeded"
    ELSE IF IdOf[c] \in known THEN "DuplicateIdentity"
    ELSE IF ~LifecycleFits(IdOf[c]) THEN "CapacityExceeded"
    ELSE IF inflight >= MaxInflightCompletions THEN "QueueFull"
    ELSE IF ~running THEN "CapacityExceeded" ELSE "Admit"

\* admit_wal_and_queue up to the WAL.  A call that finds the completion queue
\* full keeps what reserve gave it.
AdmitWal(c) ==
    /\ call[c] = "idle" /\ admitting = NoCall /\ state # "Down"
    /\ \/ /\ Verdict(c) \notin {"Admit", "QueueFull"}
          /\ call' = [call EXCEPT ![c] = Verdict(c)]
          /\ UNCHANGED <<reserved, inflight, queue, known, admitting>>
       \/ /\ Verdict(c) = "QueueFull"
          /\ reserved' = reserve(Lifecycle(IdOf[c]), 2)
          /\ call' = [call EXCEPT ![c] = "CapacityExceeded"]
          /\ UNCHANGED <<inflight, queue, known, admitting>>
       \/ /\ Verdict(c) = "Admit"
          /\ reserved' = reserve(Lifecycle(IdOf[c]), 2)
          /\ inflight' = inflight + 1
          /\ queue' = Append(queue, c)
          /\ known' = known \cup {IdOf[c]}
          /\ admitting' = c
          /\ call' = [call EXCEPT ![c] = "admitting"]
    /\ UNCHANGED <<wal, state, running, delivery, receipt, remote, sent, opens>>


\* The WAL append and sync under the admission lock.
WriteWal(c) ==
    LET written == Appended(wal, Submission(IdOf[c], BodyOf[c])) IN
    /\ admitting = c
    /\ \/ /\ wal' = Synced(written)
          /\ reserved' = release(FrameBytes[IdOf[c]], 1)
          /\ sent' = sent \cup {c}
          /\ call' = [call EXCEPT ![c] = "forwarding"]
          /\ UNCHANGED <<known, delivery>>
       \/ /\ \/ "append" \in Faults /\ wal' \in AppendFailed(wal, "tear" \in Faults)
             \/ "sync" \in Faults /\ wal' = written
          /\ delivery' = [delivery EXCEPT ![c] = "Canceled"]
          /\ known' = known \ {IdOf[c]}
          /\ reserved' = release(Lifecycle(IdOf[c]), 2)
          /\ call' = [call EXCEPT ![c] = "WalFailed"]
          /\ UNCHANGED sent
    /\ admitting' = NoCall
    /\ UNCHANGED <<state, inflight, queue, running, receipt, remote, opens>>

\* forward returns the driver's receipt future.
ForwardOk(c) ==
    /\ call[c] = "forwarding"
    /\ delivery' = [delivery EXCEPT ![c] = "Forwarded"]
    /\ call' = [call EXCEPT ![c] = IF running THEN "waiting" ELSE "Unavailable"]
    /\ UNCHANGED <<cell, receipt, remote, sent>>

\* Mutant: a failed forward leaves the poisoning to the completer.
ForwardFailsLate(c) ==
    /\ call[c] = "forwarding"
    /\ delivery' = [delivery EXCEPT ![c] = "ForwardFailed"]
    /\ call' = [call EXCEPT ![c] = "ForwardFailed"]
    /\ UNCHANGED <<cell, receipt, remote, sent>>

\* forward fails: the cell is poisoned before the caller knows.
ForwardFails(c) ==
    /\ call[c] = "forwarding"
    /\ state' = poison("ForwardFailed")
    /\ delivery' = [delivery EXCEPT ![c] = "ForwardFailed"]
    /\ call' = [call EXCEPT ![c] = "ForwardFailed"]
    /\ UNCHANGED <<wal, known, reserved, inflight, admitting, queue, running, opens,
                   receipt, remote, sent>>

\* The caller drops the future of submit_forwarded, and with it the sender of
\* the delivery, while the submission is being forwarded.
DropSubmit(c) ==
    /\ "drop" \in Faults
    /\ call[c] = "forwarding"
    /\ delivery' = [delivery EXCEPT ![c] = "Canceled"]
    /\ call' = [call EXCEPT ![c] = "dropped"]
    /\ UNCHANGED <<cell, receipt, remote, sent>>

\* The caller drops its SpoolReceiptFuture.
DropReceipt(c) ==
    /\ "drop" \in Faults
    /\ call[c] = "waiting"
    /\ call' = [call EXCEPT ![c] = "dropped"]
    /\ UNCHANGED <<cell, delivery, receipt, remote, sent>>
-----------------------------------------------------------------------------
\* The driver

RemoteCommit(c) ==
    /\ c \in sent /\ IdOf[c] \notin remote
    /\ remote' = remote \cup {IdOf[c]}
    /\ UNCHANGED <<cell, delivery, receipt, sent, call>>

ReceiptResolves(c) ==
    /\ delivery[c] = "Forwarded" /\ receipt[c] = "none"
    /\ \/ IdOf[c] \in remote /\ receipt' = [receipt EXCEPT ![c] = "committed"]
       \/ receipt' = [receipt EXCEPT ![c] = "failed"]
    /\ UNCHANGED <<cell, delivery, remote, sent, call>>
-----------------------------------------------------------------------------
\* The completer: complete_work for the oldest work item

\* The work of call c ends with outcome: a caller that still waits hears it.
Finish(c, outcome) ==
    /\ inflight' = Monus(inflight, 1)
    /\ queue' = Tail(queue)
    /\ call' = [call EXCEPT ![c] = IF @ = "waiting" THEN outcome ELSE @]
    /\ UNCHANGED <<known, admitting, running, delivery, receipt, remote, sent, opens>>

CompleteCanceled(c) ==
    /\ delivery[c] = "Canceled"
    /\ Finish(c, "Unavailable")
    /\ UNCHANGED <<wal, reserved, state>>


CompleteFailed(c) ==
    /\ \/ delivery[c] = "ForwardFailed" /\ state' = poison("ForwardFailed")
       \/ /\ delivery[c] = "Forwarded" /\ receipt[c] = "failed"
          /\ state' = poison("ReceiptFailed")
    /\ reserved' = release(ProgressBytes, 1)
    /\ Finish(c, "ReceiptFailed")
    /\ UNCHANGED wal

CompleteCommitted(c) ==
    LET written == Appended(wal, Progress(IdOf[c])) IN
    /\ delivery[c] = "Forwarded" /\ receipt[c] = "committed"
    /\ reserved' = release(ProgressBytes, 1)
    /\ \/ /\ wal' = Synced(written)
          /\ Finish(c, "committed")
          /\ UNCHANGED state
       \/ /\ \/ "append" \in Faults /\ wal' \in AppendFailed(wal, "tear" \in Faults)
             \/ "sync" \in Faults /\ wal' = written
          /\ state' = poison("ProgressFailed")
          /\ Finish(c, "ProgressFailed")

\* Mutant: the completer waits for the delivery of an admission that failed.
CompleteAwaitsDelivery ==
    /\ running /\ queue # << >>
    /\ LET c == Head(queue) IN CompleteFailed(c) \/ CompleteCommitted(c)

Complete ==
    /\ running /\ queue # << >>
    /\ LET c == Head(queue) IN
        CompleteCanceled(c) \/ CompleteFailed(c) \/ CompleteCommitted(c)

\* The task of SpoolCell::run is dropped: the queued work, and the replies in
\* it, are gone.
CompleterDropped ==
    /\ "drop" \in Faults
    /\ running
    /\ running' = FALSE
    /\ queue' = << >>
    /\ call' = [c \in Call |-> IF call[c] = "waiting" THEN "Unavailable" ELSE call[c]]
    /\ UNCHANGED <<wal, state, known, reserved, inflight, admitting, opens, delivery,
                   receipt, remote, sent>>
-----------------------------------------------------------------------------
\* The process

\* The frame that is being appended and synced, if any.
Unsynced ==
    {wal} \cup {Appended(wal, Submission(IdOf[c], BodyOf[c])) : c \in {admitting} \ {NoCall}}
          \cup {Appended(wal, Progress(IdOf[c])) :
                    c \in {d \in Call : queue # << >> /\ d = Head(queue)
                                           /\ receipt[d] = "committed"}}

CellCrash ==
    /\ "crash" \in Faults
    /\ state # "Down"
    /\ \E file \in UNION {Survives(w) : w \in Unsynced} : wal' = Opened(file)
    /\ state' = "Down"
    /\ known' = {} /\ reserved' = Nothing /\ inflight' = 0
    /\ admitting' = NoCall /\ queue' = << >> /\ running' = FALSE
    /\ call' = [c \in Call |-> IF call[c] \in {"admitting", "forwarding", "waiting"}
                               THEN "dropped" ELSE call[c]]
    /\ delivery' = [c \in Call |-> "none"]
    /\ receipt' = [c \in Call |-> "none"]
    /\ UNCHANGED <<remote, sent, opens>>

\* SpoolCell::open: only an empty, clean directory is served.
CellOpen ==
    /\ state = "Down" /\ opens < MaxOpens
    /\ state' = IF wal.file = << >> THEN "Serving" ELSE "RecoveryRequired"
    /\ running' = TRUE
    /\ opens' = opens + 1
    /\ UNCHANGED <<wal, known, reserved, inflight, admitting, queue, delivery, receipt,
                   remote, sent, call>>

CellInit ==
    /\ wal = NewStorage
    /\ state = "Serving" /\ running = TRUE /\ opens = 1
    /\ known = {} /\ reserved = Nothing /\ inflight = 0
    /\ admitting = NoCall /\ queue = << >>
    /\ delivery = [c \in Call |-> "none"]
    /\ receipt = [c \in Call |-> "none"]
    /\ remote = {} /\ sent = {}
    /\ call = [c \in Call |-> "idle"]

SubmitStep(c) == WriteWal(c) \/ ForwardOk(c) \/ ForwardFails(c)

CellNext ==
    \/ \E c \in Call : AdmitWal(c) \/ SubmitStep(c) \/ DropSubmit(c) \/ DropReceipt(c)
    \/ \E c \in Call : RemoteCommit(c) \/ ReceiptResolves(c)
    \/ Complete
    \/ CompleterDropped
    \/ CellCrash
    \/ CellOpen

\* A submit that was started goes on, the driver answers, the completer runs.
CellFairness ==
    /\ \A c \in Call : WF_cellVars(SubmitStep(c)) /\ WF_cellVars(ReceiptResolves(c))
    /\ WF_cellVars(Complete)
-----------------------------------------------------------------------------
\* Properties



\* Once a caller was told that something failed after its WAL frame was durable,
\* the cell admits nothing more, in this process or after a restart.
FailureIsFinal ==
    (\E c \in Call : call[c] \in Causes) => state # "Serving"


\* A receipt future that was handed out is resolved: the completer reaches every
\* work item although each waits for the one before it.
EveryReceiptResolves == \A c \in Call : call[c] = "waiting" ~> call[c] # "waiting"
=============================================================================
