----------------------------- MODULE MCServing ------------------------------
(***************************************************************************)
(* Three parts of a record's way to its Verse, for TLC: the producer's     *)
(* client over its outbox, the blob sink the drivers of a Scribe with      *)
(* several assignments share, and the authority to write the Verse.  They  *)
(* do not call each other here, so a behaviour is one of one of them; the  *)
(* initial state says which.                                               *)
(*                                                                         *)
(* The callers of Lone wait for each answer before the next submission,    *)
(* those of Busy do not.  Owner A has two processes, and B has one.        *)
(***************************************************************************)
EXTENDS ProducerClient, SharedBlobSink, ServingAuthority

CONSTANTS b1, b2, Lone, Busy, A, B, pa1, pa2, pb,
    Subjects            \* the components of the run

VARIABLE subject

MCIdentity == 0..2
MCBody == {b1, b2}
MCFrameBytes == [s \in MCIdentity |-> 3]
MCVerse == {Lone, Busy}
MCOutstanding == [v \in MCVerse |-> IF v = Lone THEN 1 ELSE 2]
MCProcess == {pa1, pa2, pb}
MCOwner == {A, B}
MCOwnerOf == [p \in MCProcess |-> IF p = pb THEN B ELSE A]

Init == subject \in Subjects /\ ClientInit /\ SinkInit /\ AuthorityInit

Client == subject = "client" /\ UNCHANGED <<subject, sinkAllVars, authority>>
Sink == subject = "sink" /\ UNCHANGED <<subject, client, authority>>
Authority == subject = "authority" /\ UNCHANGED <<subject, client, sinkAllVars>>

Next ==
    \/ Client /\ ClientNext
    \/ Sink /\ SinkNext
    \/ Authority /\ AuthorityNext

Spec == Init /\ [][Next]_<<subject, client, sinkAllVars, authority>>

FairSpec == Spec /\ ClientFairness /\ AuthorityFairness
=============================================================================
