------------------------------ MODULE MCLocal -------------------------------
(***************************************************************************)
(* The components that keep a WAL or a lock on the local disk, for TLC.    *)
(* They do not call each other, so a behaviour is one of one of them: the  *)
(* initial state says which, and the others stand still.                   *)
(***************************************************************************)
EXTENDS SpoolCell, PreCommitSpool, ContinuityOutbox, OwnerLock

CONSTANTS c1, c2, c3, b1, b2, p1, p2,
    SameBody,           \* the two calls with identity 1 carry the same records
    Subjects            \* the components of the run

VARIABLE subject

MCCall == {c1, c2, c3}
MCIdentity == {1, 2}
MCBody == {b1, b2}
MCIdOf == [c \in Call |-> IF c = c3 THEN 2 ELSE 1]
MCBodyOf == [c \in Call |-> IF c = c2 /\ ~SameBody THEN b2 ELSE b1]
MCFrameBytes == [i \in Identity |-> 2]
MCRequested == [c \in Call |-> IF c = c1 THEN "none" ELSE "Spooled"]
MCStrict == [minimum |-> "Committed", default |-> "Spooled", allow_spooled |-> TRUE]
MCClosed == [minimum |-> "Spooled", default |-> "Committed", allow_spooled |-> FALSE]
MCLenient == {[minimum |-> "Spooled", default |-> "Spooled", allow_spooled |-> TRUE]}
MCPolicies == MCLenient \cup {MCStrict, MCClosed}
MCProcess == {p1, p2}

cellOnly == <<state, reserved, inflight, admitting, queue, running, delivery, receipt, sent>>
preCommitOnly == <<policy, envelopes, observed, reserved_bytes, observing, serving, yielded>>
continuityOnly == <<storage, reopenings, pending, local_durable, committed, marking, up, scribed, told, retired>>
calls == <<wal, opens, call, known, remote>>
local == <<subject, calls, cellOnly, preCommitOnly, continuityOnly, lockVars>>

Init ==
    /\ subject \in Subjects
    /\ CellInit /\ PreCommitInit /\ ContinuityInit /\ LockInit
    /\ subject # "precommit" => policy \in MCLenient

Cell == subject = "cell" /\ UNCHANGED <<subject, preCommitOnly, continuityOnly, lockVars>>
PreCommit == subject = "precommit" /\ UNCHANGED <<subject, cellOnly, continuityOnly, lockVars>>
Continuity == subject = "continuity" /\ UNCHANGED <<subject, calls, cellOnly, preCommitOnly, lockVars>>
Lock == subject = "lock" /\ UNCHANGED <<subject, calls, cellOnly, preCommitOnly, continuityOnly>>

Next ==
    \/ Cell /\ CellNext
    \/ PreCommit /\ PreCommitNext
    \/ Continuity /\ ContinuityNext
    \/ Lock /\ LockNext

Spec == Init /\ [][Next]_local

FairSpec == Spec /\ CellFairness /\ PreCommitFairness /\ ContinuityFairness /\ LockFairness
=============================================================================
