--------------------------- MODULE PreCommitSpool ---------------------------
(***************************************************************************)
(* The pre-commit spool of crates/scripture-runtime/src/pre_commit_spool.rs *)
(* with the receipt policy of crates/scripture/src/receipt.rs.  A call     *)
(* that may be answered early is written to the WAL, synced and told       *)
(* spooled; the blob writer draws pending envelopes from the spool; a      *)
(* commit that is observed is written as progress and retires its entry.   *)
(*                                                                         *)
(* Nothing holds a lock across a call: each step below is one critical     *)
(* section, and calls interleave between them.                             *)
(***************************************************************************)
EXTENDS SpoolCalls

CONSTANTS
    Requested,          \* [Call -> ReceiptRequirement or "none"]
    Policies,           \* the VerseReceiptPolicy records of the instance
    Serial              \* producers do not overlap calls with one identity

Requirement == {"Spooled", "Committed"}
VerseReceiptPolicy == [minimum : Requirement, default : Requirement, allow_spooled : BOOLEAN]

ASSUME SpoolAssumption ==
    /\ Requested \in [Call -> Requirement \cup {"none"}]
    /\ Policies \subseteq VerseReceiptPolicy
    /\ Serial \in BOOLEAN

VARIABLES
    policy,             \* the policy of the Verse
    envelopes,          \* pending: the queue of PendingEntry
    observed,           \* committed: the identities whose commit was observed
    reserved_bytes,
    observing,          \* observe_committed calls between the file and the sets
    serving,            \* the spool is open
    yielded             \* envelopes the blob writer has drawn and not finished

preCommitSets == <<envelopes, known, observed>>
preCommitVars == <<policy, wal, preCommitSets, reserved_bytes, observing, call, serving, opens, yielded, remote>>

Running == {"checked", "reserved", "written"}
EntryOf(c) == [id |-> IdOf[c], body |-> BodyOf[c], drained |-> FALSE]
FrameOf(c) == Submission(IdOf[c], BodyOf[c])
EnvelopeIds(entries) == {e.id : e \in Range(entries)}
-----------------------------------------------------------------------------
\* plan_admission

raise_to_floor(requested, floor) ==
    IF requested = "Spooled" /\ floor = "Spooled" THEN "Spooled" ELSE "Committed"

plan_admission(requested) ==
    LET required == IF requested = "none" THEN policy.default ELSE requested IN
    IF required = "Spooled" /\ ~policy.allow_spooled THEN "SpooledNotPermitted"
    ELSE IF raise_to_floor(required, policy.minimum) = "Spooled"
         THEN "IssueSpooled" ELSE "WaitForCommitted"
-----------------------------------------------------------------------------
\* admit_for_receipt and persist_and_ack_spooled

Told(c, answer) == call' = [call EXCEPT ![c] = answer]

Check(c) ==
    /\ serving /\ call[c] = "idle"
    /\ Serial => \A d \in Call : IdOf[d] = IdOf[c] => call[d] \notin Running
    /\ Told(c, IF plan_admission(Requested[c]) # "IssueSpooled"
               THEN plan_admission(Requested[c])
               ELSE IF IdOf[c] \in known THEN "DuplicateIdentity"
               ELSE IF FrameBytes[IdOf[c]] > MaxFrameBytes THEN "CapacityExceeded"
               ELSE "checked")
    /\ UNCHANGED <<policy, wal, preCommitSets, reserved_bytes, observing, serving, opens, yielded, remote>>

\* The condition of reserve.
FrameFits(bytes) ==
    wal.used + reserved_bytes + bytes <= MaxWalBytes /\ wal.count + 1 <= MaxFrames

Reserve(c) ==
    /\ call[c] = "checked"
    /\ \/ /\ FrameFits(FrameBytes[IdOf[c]])
          /\ reserved_bytes' = reserved_bytes + FrameBytes[IdOf[c]]
          /\ Told(c, "reserved")
       \/ /\ ~FrameFits(FrameBytes[IdOf[c]])
          /\ Told(c, "CapacityExceeded")
          /\ UNCHANGED reserved_bytes
    /\ UNCHANGED <<policy, wal, preCommitSets, observing, serving, opens, yielded, remote>>

EnvelopeWriteFails(f) ==
    \/ "append" \in Faults /\ wal' = wal
    \/ "sync" \in Faults /\ wal' = Appended(wal, f)


\* append_frame and sync under the storage lock.  A success keeps what it
\* reserved although used_bytes now counts the frame too.
WriteEnvelope(c) ==
    /\ call[c] = "reserved"
    /\ \/ /\ wal' = Synced(Appended(wal, FrameOf(c)))
          /\ Told(c, "written")
          /\ UNCHANGED reserved_bytes
       \/ /\ EnvelopeWriteFails(FrameOf(c))
          /\ reserved_bytes' = reserved_bytes - FrameBytes[IdOf[c]]
          /\ Told(c, "failed")
    /\ UNCHANGED <<policy, preCommitSets, observing, serving, opens, yielded, remote>>

\* known and pending take the entry, and the caller is told.
Ack(c) ==
    /\ call[c] = "written"
    /\ known' = known \cup {IdOf[c]}
    /\ envelopes' = Append(envelopes, EntryOf(c))
    /\ Told(c, "spooled")
    /\ UNCHANGED <<policy, wal, observed, reserved_bytes, observing, serving, opens, yielded, remote>>
-----------------------------------------------------------------------------
\* The blob writer


\* next_envelope: the first entry not yet drained, else the front.
NextEnvelope ==
    LET fresh == SelectInSeq(envelopes, LAMBDA e : ~e.drained)
        k == IF fresh = 0 THEN 1 ELSE fresh
    IN  /\ serving /\ envelopes # << >>
        /\ envelopes' = [envelopes EXCEPT ![k].drained = TRUE]
        /\ yielded' = yielded \cup {envelopes[k].id}
        /\ UNCHANGED <<policy, wal, known, observed, reserved_bytes, observing, call, serving, opens, remote>>

reset_drain_markers ==
    /\ serving /\ envelopes # << >>
    /\ envelopes' = [k \in DOMAIN envelopes |-> [envelopes[k] EXCEPT !.drained = FALSE]]
    /\ UNCHANGED <<policy, wal, known, observed, reserved_bytes, observing, call, serving, opens, yielded, remote>>

\* The cut that holds the envelope commits, or fails.
CutCommits(i) ==
    /\ i \in yielded
    /\ remote' = remote \cup {i}
    /\ yielded' = yielded \ {i}
    /\ UNCHANGED <<policy, wal, preCommitSets, reserved_bytes, observing, call, serving, opens>>

CutFails(i) ==
    /\ "lose" \in Faults
    /\ i \in yielded
    /\ yielded' = yielded \ {i}
    /\ UNCHANGED <<policy, wal, preCommitSets, reserved_bytes, observing, call, serving, opens, remote>>

CanObserve(i) == serving /\ i \in EnvelopeIds(envelopes) \cap remote /\ i \notin observing \cup observed

\* observe_committed, up to the sync: nothing happens when the WAL is full.
ObserveWrites(i) ==
    /\ CanObserve(i) /\ FrameFits(ProgressBytes)
    /\ wal' = Synced(Appended(wal, Progress(i)))
    /\ reserved_bytes' = reserved_bytes + ProgressBytes
    /\ observing' = observing \cup {i}
    /\ UNCHANGED <<policy, preCommitSets, call, serving, opens, yielded, remote>>

ObserveFails(i) ==
    /\ CanObserve(i) /\ FrameFits(ProgressBytes)
    /\ EnvelopeWriteFails(Progress(i))
    /\ UNCHANGED <<policy, preCommitSets, reserved_bytes, observing, call, serving, opens, yielded, remote>>

ObserveApplies(i) ==
    /\ i \in observing
    /\ observed' = observed \cup {i}
    /\ envelopes' = SelectSeq(envelopes, LAMBDA e : e.id # i)
    /\ observing' = observing \ {i}
    /\ UNCHANGED <<policy, wal, known, reserved_bytes, call, serving, opens, yielded, remote>>
-----------------------------------------------------------------------------
\* Crash and reopening, on a disk that keeps whole frames

PreCommitCrash ==
    /\ "crash" \in Faults /\ serving /\ opens < MaxOpens
    /\ \E w \in {wal} \cup {Appended(wal, FrameOf(c)) : c \in {d \in Call : call[d] = "reserved"}}
                     \cup {Appended(wal, Progress(i)) : i \in {j \in Identity : CanObserve(j) /\ FrameFits(ProgressBytes)}} :
          \E file \in SurvivesWhole(w) : wal' = Opened(file)
    /\ serving' = FALSE
    /\ envelopes' = << >> /\ known' = {} /\ observed' = {} /\ observing' = {}
    /\ reserved_bytes' = 0
    /\ yielded' = {}
    /\ call' = [c \in Call |-> IF call[c] \in Running THEN "dropped" ELSE call[c]]
    /\ UNCHANGED <<policy, opens, remote>>

\* The envelope of the last frame with identity i.
Replayed(frames, i) ==
    LET at == {k \in DOMAIN frames : frames[k].kind = "submission" /\ frames[k].id = i}
    IN  [id |-> i, body |-> frames[Max(at)].body, drained |-> FALSE]


\* PreCommitSpool::open.
PreCommitOpen ==
    LET frames == Scan(wal.file) IN
    /\ ~serving
    /\ known' = Submitted(frames)
    /\ observed' = Progressed(frames)
    /\ envelopes' = SetToSortSeq({Replayed(frames, i) : i \in PendingUnclassified(frames)},
                               LAMBDA d, e : d.id < e.id)
    /\ serving' = TRUE /\ opens' = opens + 1
    /\ UNCHANGED <<policy, wal, reserved_bytes, observing, call, yielded, remote>>

PreCommitInit ==
    /\ policy \in Policies
    /\ wal = NewStorage
    /\ envelopes = << >> /\ known = {} /\ observed = {} /\ observing = {} /\ reserved_bytes = 0
    /\ call = [c \in Call |-> "idle"]
    /\ serving = TRUE /\ opens = 1
    /\ yielded = {} /\ remote = {}

Submit(c) == Check(c) \/ Reserve(c) \/ WriteEnvelope(c) \/ Ack(c)
Observe(i) == ObserveWrites(i) \/ ObserveApplies(i)

PreCommitNext ==
    \/ \E c \in Call : Submit(c)
    \/ NextEnvelope
    \/ reset_drain_markers
    \/ \E i \in Identity : CutCommits(i) \/ CutFails(i) \/ Observe(i) \/ ObserveFails(i)
    \/ PreCommitCrash
    \/ PreCommitOpen

\* The blob writer keeps drawing, a cut that is tried again and again commits,
\* commits are observed, and a dead process is started again.
PreCommitFairness ==
    /\ WF_preCommitVars(NextEnvelope) /\ WF_preCommitVars(PreCommitOpen)
    /\ \A i \in Identity : SF_preCommitVars(CutCommits(i)) /\ WF_preCommitVars(ObserveWrites(i))
                           /\ WF_preCommitVars(ObserveApplies(i))
    /\ \A c \in Call : WF_preCommitVars(Reserve(c) \/ WriteEnvelope(c) \/ Ack(c))
-----------------------------------------------------------------------------
\* Properties



=============================================================================
