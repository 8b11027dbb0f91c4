---------------------------- MODULE SpoolStorage ----------------------------
(***************************************************************************)
(* The WAL file of crates/scripture/src/spool: frames appended to one      *)
(* segment, made durable by sync, and read back by a scanner that stops at *)
(* the first region it cannot decode (frame.rs, storage.rs, file.rs).      *)
(*                                                                         *)
(* A file is a sequence of frames and of torn pieces: the prefix of a      *)
(* frame that a failed write or a crash left behind.  A torn piece claims  *)
(* more bytes than it has, so decode_frame takes the bytes after it for    *)
(* its own, finds that the checksum does not match, and the scan ends.     *)
(* A crash keeps what was synced and some prefix of what was not.          *)
(***************************************************************************)
EXTENDS Integers, Sequences, SequencesExt, FiniteSetsExt

CONSTANTS
    Identity,           \* ProgressIdentity: journal, producer, epoch, sequence, in their order
    Body,               \* the records of a submission
    FrameBytes,         \* [Identity -> Nat]: encoded length of a submission frame
    ProgressBytes,      \* encoded length of a progress frame
    TornBytes,          \* length of a torn piece
    Faults,             \* which faults of the disk and the process happen
    MaxOpens            \* bound: how often the directory is opened

ASSUME FrameAssumption ==
    /\ FrameBytes \in [Identity -> Nat \ {0}]
    /\ ProgressBytes \in Nat \ {0}
    /\ TornBytes \in Nat \ {0} /\ MaxOpens \in Nat
    /\ Identity \subseteq Nat

\* SpoolFrame::Submission and ::PreCommit differ in what they carry for later
\* use; each client of the WAL writes only one of the two.
SubmissionFrame == [kind : {"submission"}, id : Identity, body : Body]
ProgressFrame == [kind : {"progress"}, id : Identity]
Torn == [kind |-> "torn"]

Submission(i, b) == [kind |-> "submission", id |-> i, body |-> b]
Progress(i) == [kind |-> "progress", id |-> i]

\* encode_frame: all that is kept of it is the length.
encoded_len(f) ==
    IF f.kind = "submission" THEN FrameBytes[f.id]
    ELSE IF f.kind = "progress" THEN ProgressBytes ELSE TornBytes

NewStorage == [file |-> << >>, synced |-> 0, used |-> 0, count |-> 0]

\* append_frame that succeeds.
Appended(w, f) == [w EXCEPT !.file = Append(@, f),
                            !.used = @ + encoded_len(f),
                            !.count = @ + 1]

\* append_frame that fails: write_all may have written a part of the frame,
\* which the counters do not see.
AppendFailed(w, tears) ==
    {w} \cup IF tears THEN {[w EXCEPT !.file = Append(@, Torn)]} ELSE {}

Synced(w) == [w EXCEPT !.synced = Len(w.file)]

\* What a crash can leave of the file: whole frames, or a torn one at the end.
SurvivesWhole(w) == {SubSeq(w.file, 1, k) : k \in w.synced..Len(w.file)}
Survives(w) ==
    SurvivesWhole(w)
       \cup {Append(SubSeq(w.file, 1, k), Torn) : k \in w.synced..(Len(w.file) - 1)}

\* scan_bytes: the frames before the first region that does not decode.
Scan(file) ==
    LET torn == SelectInSeq(file, LAMBDA f : f.kind = "torn")
    IN  IF torn = 0 THEN file ELSE SubSeq(file, 1, torn - 1)

\* FileSpoolStorage::open on a file that is already there.
Opened(file) ==
    [file |-> file, synced |-> Len(file),
     used |-> FoldSeq(LAMBDA f, n : encoded_len(f) + n, 0, file),
     count |-> Len(Scan(file))]

Submitted(frames) == {f.id : f \in {g \in Range(frames) : g.kind = "submission"}}
Progressed(frames) == {f.id : f \in {g \in Range(frames) : g.kind = "progress"}}

\* classify_frames: the identities of each class.
CommittedLocally(frames) == Submitted(frames) \cap Progressed(frames)
PendingUnclassified(frames) == Submitted(frames) \ Progressed(frames)
=============================================================================
