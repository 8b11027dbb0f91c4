-------------------------- MODULE ContinuityOutbox --------------------------
(***************************************************************************)
(* The producer-edge outbox of crates/scripture/src/spool/continuity.rs:   *)
(* admit writes and syncs a submission frame before it returns; a drainer  *)
(* forwards what is pending, as often as it takes, and mark_committed      *)
(* writes and syncs a progress frame before the entry is dropped; opening  *)
(* the directory again rebuilds the indexes from the frames that scan.     *)
(*                                                                         *)
(* admit holds the locks of both indexes throughout.  mark_committed holds *)
(* one lock at a time, so its write and its index update are two steps.    *)
(***************************************************************************)
EXTENDS SpoolStorage

CONSTANTS
    MaxPending,         \* max_pending
    MaxFile             \* bound: frames in the file

ASSUME ContinuityAssumption ==
    MaxPending \in Nat \ {0} /\ MaxFile \in Nat

VARIABLES
    storage,            \* the FileSpoolStorage
    pending,            \* the queue of entries without progress
    local_durable,      \* identities whose submission is in the file
    committed,          \* identities whose progress is in the file
    marking,            \* mark_committed calls between the file and the indexes
    up,                 \* the outbox is open
    scribed,            \* external: the identities some Scribe has committed
    told,               \* history: the entries admit returned success for
    reopenings,         \* how often the directory was opened
    retired             \* history: the identities mark_committed returned success for

index == <<pending, local_durable, committed>>
continuityVars == <<storage, index, marking, up, scribed, told, retired, reopenings>>

PendingIds(entries) == {e.id : e \in Range(entries)}
-----------------------------------------------------------------------------
\* Writing

\* A write of frame f that fails: append_frame or sync returns an error.
FrameWriteFails(f) ==
    /\ Len(storage.file) < MaxFile
    /\ \/ "append" \in Faults /\ storage' \in AppendFailed(storage, "tear" \in Faults)
       \/ "sync" \in Faults /\ storage' = Appended(storage, f)

CanAdmit(i) == up /\ i \notin local_durable /\ Len(pending) < MaxPending

Admit(i, b) ==
    /\ CanAdmit(i)
    /\ storage' = Synced(Appended(storage, Submission(i, b)))
    /\ local_durable' = local_durable \cup {i}
    /\ pending' = Append(pending, [id |-> i, body |-> b])
    /\ told' = told \cup {[id |-> i, body |-> b]}
    /\ UNCHANGED <<committed, marking, up, scribed, retired, reopenings>>

AdmitFails(i, b) ==
    /\ CanAdmit(i)
    /\ FrameWriteFails(Submission(i, b))
    /\ UNCHANGED <<index, marking, up, scribed, told, retired, reopenings>>

\* The drainer sends a pending submission to a Scribe, which commits it.
Forward(i) ==
    /\ up /\ i \in PendingIds(pending) \ scribed
    /\ scribed' = scribed \cup {i}
    /\ UNCHANGED <<storage, index, marking, up, told, retired, reopenings>>

CanMark(i) == up /\ i \in PendingIds(pending) \cap scribed /\ i \notin marking

\* Mutant: the entry is dropped before its progress is synced.
MarkUnsynced(i) ==
    /\ CanMark(i)
    /\ storage' = Appended(storage, Progress(i))
    /\ marking' = marking \cup {i}
    /\ UNCHANGED <<index, up, scribed, told, retired, reopenings>>

\* mark_committed, the part under the storage lock.
MarkWrites(i) ==
    /\ CanMark(i)
    /\ storage' = Synced(Appended(storage, Progress(i)))
    /\ marking' = marking \cup {i}
    /\ UNCHANGED <<index, up, scribed, told, retired, reopenings>>

MarkFails(i) ==
    /\ CanMark(i)
    /\ FrameWriteFails(Progress(i))
    /\ UNCHANGED <<index, marking, up, scribed, told, retired, reopenings>>

\* Mutant: the entry leaves the queue and is not recorded as committed.
MarkForgets(i) ==
    /\ i \in marking
    /\ pending' = SelectSeq(pending, LAMBDA e : e.id # i)
    /\ marking' = marking \ {i}
    /\ retired' = retired \cup {i}
    /\ UNCHANGED <<storage, local_durable, committed, up, scribed, told, reopenings>>

\* mark_committed, the part that updates the indexes.
MarkApplies(i) ==
    /\ i \in marking
    /\ committed' = committed \cup {i}
    /\ pending' = SelectSeq(pending, LAMBDA e : e.id # i)
    /\ marking' = marking \ {i}
    /\ retired' = retired \cup {i}
    /\ UNCHANGED <<storage, local_durable, up, scribed, told, reopenings>>
-----------------------------------------------------------------------------
\* Crash and reopening

\* The frames a call may be writing when the process dies.
BeingWritten ==
    {Submission(i, b) : i \in {j \in Identity : CanAdmit(j)}, b \in Body}
        \cup {Progress(i) : i \in {j \in Identity : CanMark(j)}}

Left(w) == IF "tear" \in Faults THEN Survives(w) ELSE SurvivesWhole(w)

ContinuityCrash ==
    /\ "crash" \in Faults /\ up /\ reopenings < MaxOpens
    /\ \E w \in {storage} \cup {Appended(storage, f) : f \in BeingWritten} :
          \E file \in Left(w) : storage' = Opened(file)
    /\ up' = FALSE
    /\ pending' = << >> /\ local_durable' = {} /\ committed' = {} /\ marking' = {}
    /\ UNCHANGED <<scribed, told, retired, reopenings>>

\* Mutant: of two frames with one identity the first is kept.
FirstBodies(frames) ==
    {f \in Range(frames) : f.kind = "submission" /\
        \A j, k \in DOMAIN frames :
            frames[k] = f /\ frames[j].kind = "submission" /\ frames[j].id = f.id => k <= j}

\* rebuild_indexes: of the frames with one identity the last is kept.
LastBodies(frames) ==
    {f \in Range(frames) : f.kind = "submission" /\
        \E k \in DOMAIN frames : frames[k] = f /\
            \A j \in DOMAIN frames :
                frames[j].kind = "submission" /\ frames[j].id = f.id => j <= k}

\* rebuild_indexes: what has no progress is pending, in the order of the
\* identities.
Unprogressed(frames) ==
    LET left == {f \in LastBodies(frames) : f.id \notin Progressed(frames)}
    IN  SetToSortSeq({[id |-> f.id, body |-> f.body] : f \in left},
                     LAMBDA d, e : d.id < e.id)

\* open_file and from_storage.
Reopen ==
    /\ ~up
    /\ up' = TRUE
    /\ pending' = Unprogressed(Scan(storage.file))
    /\ committed' = Progressed(Scan(storage.file))
    /\ local_durable' = Submitted(Scan(storage.file)) \cup Progressed(Scan(storage.file))
    /\ reopenings' = reopenings + 1
    /\ UNCHANGED <<storage, marking, scribed, told, retired>>

ContinuityInit ==
    /\ storage = NewStorage
    /\ pending = << >> /\ local_durable = {} /\ committed = {} /\ marking = {}
    /\ up = TRUE /\ reopenings = 1
    /\ scribed = {} /\ told = {} /\ retired = {}

Drain(i) == Forward(i) \/ MarkWrites(i) \/ MarkApplies(i)

ContinuityNext ==
    \/ \E i \in Identity, b \in Body : Admit(i, b) \/ AdmitFails(i, b)
    \/ \E i \in Identity : Drain(i) \/ MarkFails(i)
    \/ ContinuityCrash
    \/ Reopen

\* The drainer goes on, Scribes commit, and a dead process is started again.
ContinuityFairness ==
    /\ \A i \in Identity : WF_continuityVars(Forward(i)) /\ WF_continuityVars(MarkWrites(i))
                           /\ WF_continuityVars(MarkApplies(i))
    /\ WF_continuityVars(Reopen)
-----------------------------------------------------------------------------
\* Properties

\* Zero drop: an entry that admit acknowledged is pending with the records it
\* was admitted with until a Scribe has committed it, through failed writes,
\* retries, crashes and reopenings (admit, mark_committed, rebuild_indexes).
ZeroDrop ==
    up => \A e \in told : e \in Range(pending) \/ e.id \in scribed

\* What mark_committed retired is never forwarded again by this outbox.
RetiredStaysRetired == PendingIds(pending) \cap retired \subseteq marking

\* Every admitted entry is committed and no longer pending in the end, if the
\* process is restarted, although writes fail and the process dies on the way.
EveryAdmissionRetires ==
    \A i \in Identity : (\E e \in told : e.id = i) ~> [](up => i \in committed \ PendingIds(pending))
=============================================================================
