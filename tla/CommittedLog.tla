---------------------------- MODULE CommittedLog ----------------------------
(***************************************************************************)
(* What the owner of a Verse promises to its producers, without chunks,    *)
(* buffers, windows or owners: a log of submissions that only grows, gives *)
(* every identity at most one place, leaves no offset out and uses none    *)
(* twice, and receipts that only name places of the log.  It is the Phase  *)
(* 1 contract of the driver (driver/mod.rs); ChunkDriver implements it.    *)
(***************************************************************************)
EXTENDS Integers

CONSTANTS Submission, RecordCount

VARIABLES
    committed,      \* the places of the log: a submission and its first offset
    end,            \* the next free offset
    acknowledged    \* the places receipts have named

vars == <<committed, end, acknowledged>>

Place == [sub : Submission, first : Nat]

Offsets(p) == p.first .. (p.first + RecordCount[p.sub.payload] - 1)

SameIdentity(s, t) ==
    s.producer = t.producer /\ s.epoch = t.epoch /\ s.sequence = t.sequence

\* The new places share out exactly the offsets from the old end to the new one.
Tiles(new, from, to) ==
    /\ \A p \in new : from <= p.first /\ p.first + RecordCount[p.sub.payload] <= to
    /\ \A o \in from .. (to - 1) : \E p \in new : o \in Offsets(p)
    /\ \A p, q \in new : p # q => Offsets(p) \cap Offsets(q) = {}

Init == committed = {} /\ end = 0 /\ acknowledged = {}

Commit ==
    LET new == committed' \ committed IN
    /\ committed \subseteq committed'
    /\ new \subseteq Place /\ new # {}
    /\ \A p \in new : \A q \in committed' : SameIdentity(p.sub, q.sub) => p = q
    /\ end' > end /\ Tiles(new, end, end')

Acknowledge ==
    /\ acknowledged \subseteq acknowledged'
    /\ acknowledged' \subseteq committed'

\* A step commits new submissions, acknowledges committed ones, or both.
Next == Acknowledge /\ (Commit \/ UNCHANGED <<committed, end>>)

Spec == Init /\ [][Next]_vars
=============================================================================
