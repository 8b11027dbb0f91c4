----------------------------- MODULE OwnerLock -----------------------------
(***************************************************************************)
(* The PID lock file that guards a spool directory                         *)
(* (crates/scripture/src/spool/file.rs) and a producer outbox              *)
(* (crates/scripture/src/producer_outbox.rs): look at the file, remove it  *)
(* when its owner is dead, create it exclusively, write the PID.           *)
(*                                                                         *)
(* Every file system call is one step.  A process that has created the     *)
(* file writes to that file also when another process has removed it and   *)
(* created its own at the same path.                                       *)
(***************************************************************************)
EXTENDS Integers, FiniteSets

CONSTANTS
    Process, Nobody,    \* a process is its PID; Nobody is no process
    Overlap,            \* acquisitions may overlap
    MaxTries            \* bound: how often each process acquires

ASSUME LockAssumption ==
    Nobody \notin Process /\ Overlap \in BOOLEAN /\ MaxTries \in Nat

VARIABLES
    lockFile,               \* who created the file at the path, and the PID in it
    at,                 \* where each process is
    tries

lockVars == <<lockFile, at, tries>>

Absent == [by |-> Nobody, pid |-> Nobody]
Acquiring == {"look", "read", "remove", "create", "write"}
Alive(p) == p # Nobody /\ at[p] # "dead"

Go(p, place) == at' = [at EXCEPT ![p] = place]

Start(p) ==
    /\ at[p] = "idle" /\ tries[p] < MaxTries
    /\ Overlap \/ \A q \in Process : at[q] \notin Acquiring
    /\ Go(p, "look")
    /\ tries' = [tries EXCEPT ![p] = @ + 1]
    /\ UNCHANGED lockFile

\* path.exists()
Look(p) ==
    /\ at[p] = "look"
    /\ Go(p, IF lockFile = Absent THEN "create" ELSE "read")
    /\ UNCHANGED <<lockFile, tries>>

\* Mutant: a lock with a PID in it is respected for ever.
ReadTrusting(p) ==
    /\ at[p] = "read"
    /\ Go(p, IF lockFile.pid \notin {Nobody, p} THEN "idle" ELSE "remove")
    /\ UNCHANGED <<lockFile, tries>>


\* read_to_string and pid_appears_alive: fail when the owner is another live
\* process.
Read(p) ==
    /\ at[p] = "read"
    /\ Go(p, IF lockFile.pid # p /\ Alive(lockFile.pid) THEN "idle" ELSE "remove")
    /\ UNCHANGED <<lockFile, tries>>

RemoveStale(p) ==
    /\ at[p] = "remove"
    /\ lockFile' = Absent
    /\ Go(p, "create")
    /\ UNCHANGED tries

\* create_new
Create(p) ==
    /\ at[p] = "create"
    /\ \/ /\ lockFile = Absent
          /\ lockFile' = [by |-> p, pid |-> Nobody]
          /\ Go(p, "write")
       \/ /\ lockFile # Absent
          /\ Go(p, "idle")
          /\ UNCHANGED lockFile
    /\ UNCHANGED tries

\* write!("{pid}") and sync_all
WritePid(p) ==
    /\ at[p] = "write"
    /\ lockFile' = IF lockFile.by = p THEN [lockFile EXCEPT !.pid = p] ELSE lockFile
    /\ Go(p, "owner")
    /\ UNCHANGED tries

\* OwnerLock::drop: the file goes only if it holds this PID.
DropStarts(p) ==
    /\ at[p] = "owner"
    /\ Go(p, IF lockFile.pid = p THEN "drop" ELSE "idle")
    /\ UNCHANGED <<lockFile, tries>>

DropRemoves(p) ==
    /\ at[p] = "drop"
    /\ lockFile' = Absent
    /\ Go(p, "idle")
    /\ UNCHANGED tries

\* The process dies; what it left in the directory stays.
Die(p) ==
    /\ at[p] # "dead"
    /\ Go(p, "dead")
    /\ UNCHANGED <<lockFile, tries>>

LockInit ==
    /\ lockFile = Absent
    /\ at = [p \in Process |-> "idle"]
    /\ tries = [p \in Process |-> 0]

Acquire(p) == Look(p) \/ Read(p) \/ RemoveStale(p) \/ Create(p) \/ WritePid(p)
Drop(p) == DropStarts(p) \/ DropRemoves(p)

LockNext == \E p \in Process : Start(p) \/ Acquire(p) \/ Drop(p) \/ Die(p)

LockFairness == \A p \in Process : WF_lockVars(Acquire(p))
-----------------------------------------------------------------------------
\* Properties

Owners == {p \in Process : at[p] \in {"owner", "drop"}}


\* A lock left behind by a dead process, also one that died before it wrote its
\* PID, does not keep the others out: an acquisition that starts when nobody
\* owns the directory and that meets no other ends with ownership.
DeadIsReclaimed ==
    \A p \in Process :
        (at[p] = "look" /\ Owners = {}) ~> (at[p] \in {"owner", "dead"})
=============================================================================
