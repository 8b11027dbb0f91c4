-------------------------- MODULE ServingAuthority --------------------------
(***************************************************************************)
(* Who may write a Verse: the serving authority and the life of a Scribe   *)
(* (crates/scripture/src/serving_authority.rs;                             *)
(* crates/scripture-service/src/authority_coordinator.rs;                  *)
(* holylog_foundation.rs, ha_session.rs, authority_gate.rs and             *)
(* scribe_lifecycle.rs of crates/scripture-runtime/src;                    *)
(* crates/scripture-cli/src/scribe_run.rs).                                *)
(*                                                                         *)
(* The root of the VirtualLog is one register under compare-and-swap.  It  *)
(* holds the membership (the loglets of the log, in order) and the fence,  *)
(* in which Scripture keeps its only authority record.  A Scribe that      *)
(* replaces another writes its intent into the fence, seals the loglet of  *)
(* its predecessor, reads the tail, provisions a loglet of its own and     *)
(* swings the root to it.  Between any two of these steps it may die, lose *)
(* a reply or be overtaken, and the predecessor may be alive and writing.  *)
(*                                                                         *)
(* A process starts at most once; one that is restarted is another process *)
(* with the same owner, and the first may not know yet that it is gone.    *)
(***************************************************************************)
EXTENDS Integers, Sequences, FiniteSets, TLC

CONSTANTS
    Process, Owner, OwnerOf,    \* OwnerOf \in [Process -> Owner]
    Message,                    \* what callers submit, once each
    MAX_CANDIDATE_ATTEMPTS,
    InitialTerm,                \* ScribeRunOptions::initial_term
    MaxFaults                   \* bound: failed reads and probes, lost replies

\* WriterTerm::new refuses 0.
ASSUME AuthorityAssumption ==
    /\ OwnerOf \in [Process -> Owner]
    /\ MAX_CANDIDATE_ATTEMPTS \in Nat \ {0} /\ InitialTerm \in Nat \ {0} /\ MaxFaults \in Nat

VARIABLES
    root,       \* the register: NoRoot, or its revision, membership and fence
    loglets,    \* the loglets that were ever claimed: entries, and sealed or not
    scribe,     \* the processes
    calls,      \* the submissions
    delayed,    \* external: root updates that are under way with nobody waiting
    faults

authority == <<root, loglets, scribe, calls, delayed, faults>>

Nothing == [none |-> TRUE]
NoRoot == Nothing
-----------------------------------------------------------------------------
\* The records

\* JournalGenerationRef
Generation(rev, id, start) == [rev |-> rev, id |-> id, start |-> start]
Active(r) == r.gens[Len(r.gens)]
LiveGeneration(r) == Generation(r.rev, Active(r).id, Active(r).start)
same_active_membership(g, h) == g.id = h.id /\ g.start = h.start

Serving(o, term, g) == [state |-> "Serving", owner |-> o, term |-> term, gen |-> g]
Transitioning(o, term, g) ==
    [state |-> "Transitioning", owner |-> o, term |-> term, gen |-> g]

\* DefaultFreshLogletIdPolicy
LogletId(rev, term, o, attempt) ==
    [rev |-> rev, term |-> term, owner |-> o, attempt |-> attempt]

\* evaluate_authority_gate with is_effective_writer.  It asks for the owner and
\* that fence and membership agree; which generation the caller holds it does not.
EffectiveWriter(p) ==
    /\ root # NoRoot /\ scribe[p].writable # Nothing
    /\ root.fence.state = "Serving"
    /\ root.fence.owner = OwnerOf[p]
    /\ root.fence.gen = LiveGeneration(root)
-----------------------------------------------------------------------------
\* The life of a Scribe

NoJob == Nothing
At(p, at) == scribe[p].at = at
Up(o) == \E p \in Process : OwnerOf[p] = o /\ scribe[p].at \notin {"new", "down"}
Goto(p, at) == scribe' = [scribe EXCEPT ![p].at = at]
Job(from, term, g) ==
    [from |-> from, term |-> term, expected |-> g, seen |-> NoRoot, start |-> 0, id |-> Nothing]
Work(p, at, job) == scribe' = [scribe EXCEPT ![p].at = at, ![p].job = job]

Fault == faults < MaxFaults /\ faults' = faults + 1

\* External: a TCP connect to the endpoint of an owner, which may also fail.
Probe(o, reachable) ==
    \/ reachable = Up(o) /\ UNCHANGED faults
    \/ Up(o) /\ ~reachable /\ Fault

Fresh(at, writable) ==
    [at |-> at, since |-> "reachable", peer |-> Nothing, job |-> NoJob, writable |-> writable]
Exit == Fresh("down", Nothing)

\* join_member: every loglet is materialised as a read/seal view.
Member(s) == [s EXCEPT !.at = "member", !.job = NoJob, !.writable = Nothing]

\* The error of an activation.  Out of a Serving record it is caught and the
\* process stays as a member; out of an empty root or its own intent it ends it.
GiveUp(p) ==
    scribe' = [scribe EXCEPT ![p] = IF @.job.from = "Serving" THEN Member(@) ELSE Exit]

\* scribe_run: the listener is bound before anything else.
StartScribe(p) ==
    /\ At(p, "new")
    /\ Goto(p, "loop")
    /\ UNCHANGED <<root, loglets, calls, delayed, faults>>

\* The process dies, or one of the errors that reconcile_once hands on ends it.
CrashScribe(p) ==
    /\ scribe[p].at \notin {"new", "down"}
    /\ scribe' = [scribe EXCEPT ![p] = Exit]
    /\ UNCHANGED <<root, loglets, calls, delayed, faults>>

\* peer_grace has passed since unreachable_since.
GraceElapses(p) ==
    /\ scribe[p].since = "unreachable" /\ scribe[p].at \in {"loop", "member"}
    /\ scribe' = [scribe EXCEPT ![p].since = "elapsed"]
    /\ UNCHANGED <<root, loglets, calls, delayed, faults>>

Armed(p) == scribe[p].since = "elapsed"

\* reconcile_once and reconcile_record
ReconcileEmpty(p) ==
    /\ At(p, "loop") /\ root = NoRoot
    /\ Work(p, "bootstrap", Job("Empty", InitialTerm, Nothing))
    /\ UNCHANGED <<root, loglets, calls, delayed, faults>>

ReconcileTransitioning(p) ==
    /\ At(p, "loop") /\ root # NoRoot
    /\ LET f == root.fence IN
       /\ f.state = "Transitioning"
       /\ IF f.owner = OwnerOf[p] /\ Armed(p)
          THEN Work(p, "promote", Job("Transitioning", f.term, f.gen))
          ELSE scribe' = [scribe EXCEPT ![p] = Member([@ EXCEPT !.peer = Nothing])]
    /\ UNCHANGED <<root, loglets, calls, delayed, faults>>

\* The named owner does not take its loglet up again without the writable, and
\* fails closed if it has the writable and no session.
ReconcileOwn(p) ==
    /\ At(p, "loop") /\ root # NoRoot
    /\ root.fence.state = "Serving" /\ root.fence.owner = OwnerOf[p]
    /\ scribe' = [scribe EXCEPT ![p] =
         IF @.writable = root.fence.gen.id THEN Exit
         ELSE Member([@ EXCEPT !.peer = OwnerOf[p]])]
    /\ UNCHANGED <<root, loglets, calls, delayed, faults>>

ReconcileServing(p) ==
    /\ At(p, "loop") /\ root # NoRoot
    /\ LET f == root.fence IN
       /\ f.state = "Serving" /\ f.owner # OwnerOf[p]
       /\ \E reachable \in BOOLEAN :
            /\ Probe(f.owner, reachable)
            /\ scribe' = [scribe EXCEPT ![p] =
                 IF Armed(p) /\ ~reachable
                 THEN [@ EXCEPT !.at = "promote", !.peer = f.owner,
                                !.job = Job("Serving", f.term + 1, f.gen)]
                 ELSE Member([@ EXCEPT !.peer = f.owner])]
    /\ UNCHANGED <<root, loglets, calls, delayed>>

\* Mutant: a root that names no endpoint does not start the grace period.
ProbePeerWantsRoute(p) ==
    /\ At(p, "member")
    /\ \E reachable \in BOOLEAN :
         /\ IF scribe[p].peer = Nothing THEN reachable /\ UNCHANGED faults
            ELSE Probe(scribe[p].peer, reachable)
         /\ scribe' = [scribe EXCEPT ![p].at = "loop",
                                     ![p].since = IF reachable THEN "reachable"
                                                  ELSE IF @ = "reachable" THEN "unreachable"
                                                  ELSE @]
    /\ UNCHANGED <<root, loglets, calls, delayed>>

\* await_lawful_writer, after an outcome HealthyMember.
ProbePeer(p) ==
    /\ At(p, "member")
    /\ \E reachable \in BOOLEAN :
         /\ IF scribe[p].peer = Nothing THEN ~reachable /\ UNCHANGED faults
            ELSE Probe(scribe[p].peer, reachable)
         /\ scribe' = [scribe EXCEPT ![p].at = "loop",
                                     ![p].since = IF reachable THEN "reachable"
                                                  ELSE IF @ = "reachable" THEN "unreachable"
                                                  ELSE @]
    /\ UNCHANGED <<root, loglets, calls, delayed>>
-----------------------------------------------------------------------------
\* promote

\* External: an update of the register that expects what its author saw.  Its
\* reply may be lost, and then it may also arrive later, or never.
Applied(old, new) == root = old /\ root' = new /\ UNCHANGED <<delayed, faults>>
Conflict(old) == root # old /\ UNCHANGED <<root, delayed, faults>>
Lost(old, new) ==
    /\ Fault /\ root = old
    /\ \/ root' = new /\ UNCHANGED delayed
       \/ delayed' = delayed \cup {[old |-> old, new |-> new]} /\ UNCHANGED root

DelayedArrives(d) ==
    /\ delayed' = delayed \ {d}
    /\ root' = IF root = d.old THEN d.new ELSE root
    /\ UNCHANGED <<loglets, scribe, calls, faults>>

\* A read of the root or of a loglet fails.
ReadFails(p) ==
    /\ scribe[p].at \in
         {"bootstrap", "promote", "drive", "seal", "tail", "provision", "activate"}
    /\ Fault /\ GiveUp(p)
    /\ UNCHANGED <<root, loglets, calls, delayed>>

\* promote_empty and drive_locked both want the root still empty.
PromoteEmpty(p) ==
    /\ At(p, "bootstrap")
    /\ IF root = NoRoot THEN Goto(p, "provision") ELSE GiveUp(p)
    /\ UNCHANGED <<root, loglets, calls, delayed, faults>>

IntentIsOurs(p) ==
    /\ root.fence.state = "Transitioning"
    /\ root.fence.owner = OwnerOf[p]
    /\ root.fence.term = scribe[p].job.term
    /\ root.fence.gen = scribe[p].job.expected

\* Mutant: a live transition of another candidate is taken over.
PromoteExpectedTakesOver(p) ==
    /\ At(p, "promote")
    /\ LET s == scribe[p] IN
       IF IntentIsOurs(p) THEN Goto(p, "drive")
       ELSE Work(p, "intent", [s.job EXCEPT !.seen = root])
    /\ UNCHANGED <<root, loglets, calls, delayed, faults>>

\* promote_expected up to the update of the fence.
PromoteExpected(p) ==
    /\ At(p, "promote")
    /\ LET s == scribe[p] IN
       IF IntentIsOurs(p) THEN Goto(p, "drive")
       ELSE IF root.fence.state = "Serving" /\ root.fence.term < s.job.term
                                            /\ root.fence.gen = s.job.expected
       THEN Work(p, "intent", [s.job EXCEPT !.seen = root])
       ELSE GiveUp(p)
    /\ UNCHANGED <<root, loglets, calls, delayed, faults>>

\* update_application_fence.  A conflict that is reported although the update
\* was applied is resolved by reading the root, and ends like Applied.
UpdateFence(p) ==
    /\ At(p, "intent")
    /\ LET s == scribe[p]
           old == s.job.seen
           new == [old EXCEPT !.rev = @ + 1,
                     !.fence = Transitioning(OwnerOf[p], s.job.term, s.job.expected)]
       IN \/ Applied(old, new) /\ Goto(p, "drive")
          \/ Conflict(old) /\ GiveUp(p)
          \/ Lost(old, new) /\ GiveUp(p)
    /\ UNCHANGED <<loglets, calls>>

\* confirm_durable_intent, complete_after_intent and drive_locked read the root
\* one after the other, and the last read is the one that counts.  When it shows
\* that this transition is complete, activation fails for want of the writable.
DriveFoundation(p) ==
    /\ At(p, "drive")
    /\ IF same_active_membership(LiveGeneration(root), scribe[p].job.expected)
       THEN Work(p, "seal", [scribe[p].job EXCEPT !.seen = root])
       ELSE GiveUp(p)
    /\ UNCHANGED <<root, loglets, calls, delayed, faults>>

\* ensure_predecessor_sealed
SealPredecessor(p) ==
    /\ At(p, "seal")
    /\ loglets' = [loglets EXCEPT ![Active(scribe[p].job.seen).id].sealed = TRUE]
    /\ Goto(p, "tail")
    /\ UNCHANGED <<root, calls, delayed, faults>>

\* External: where a generation after the sealed one begins.
Boundary(g) == g.start + Len(loglets[g.id].entries)

\* sealed_predecessor_start
ReadSealedTail(p) ==
    /\ At(p, "tail")
    /\ LET g == Active(scribe[p].job.seen) IN
       IF loglets[g.id].sealed
       THEN Work(p, "provision", [scribe[p].job EXCEPT !.start = Boundary(g)])
       ELSE GiveUp(p)
    /\ UNCHANGED <<root, loglets, calls, delayed, faults>>

NextRevision(job) == IF job.from = "Empty" THEN 0 ELSE job.seen.rev + 1

\* The names provision_successor_uninstalled tries that nobody has claimed.
FreeAttempts(p) ==
    {a \in 0..MAX_CANDIDATE_ATTEMPTS - 1 :
        LogletId(NextRevision(scribe[p].job), scribe[p].job.term, OwnerOf[p], a)
            \notin DOMAIN loglets}

\* provision_successor_uninstalled
Provision(p) ==
    /\ At(p, "provision")
    /\ LET job == scribe[p].job IN
       IF FreeAttempts(p) = {} THEN GiveUp(p) /\ UNCHANGED loglets
       ELSE LET a == CHOOSE a \in FreeAttempts(p) : \A b \in FreeAttempts(p) : a <= b
                id == LogletId(NextRevision(job), job.term, OwnerOf[p], a)
            IN /\ loglets' = loglets @@ (id :> [entries |-> << >>, sealed |-> FALSE])
               /\ Work(p, "publish", [job EXCEPT !.id = id])
    /\ UNCHANGED <<root, calls, delayed, faults>>

\* bootstrap_with_receipt and reconfigure_with_receipt: membership and a Serving
\* fence in one update.  Only who hears that it was applied gets the writable.
Publish(p) ==
    /\ At(p, "publish")
    /\ LET s == scribe[p]
           rev == NextRevision(s.job)
           fence == Serving(OwnerOf[p], s.job.term, Generation(rev, s.job.id, s.job.start))
           old == s.job.seen
           gens == IF old = NoRoot THEN <<[id |-> s.job.id, start |-> 0]>>
                   ELSE Append(old.gens, [id |-> s.job.id, start |-> Boundary(Active(old))])
           new == [rev |-> rev, gens |-> gens, fence |-> fence]
       IN \/ /\ Applied(old, new)
             /\ scribe' = [scribe EXCEPT ![p].at = "activate", ![p].writable = s.job.id]
          \/ Conflict(old) /\ GiveUp(p)
          \/ Lost(old, new) /\ GiveUp(p)
    /\ UNCHANGED <<loglets, calls>>

\* require_local_serving and activate_after_serving_cas: gates before and after
\* the runtime starts.
Activate(p) ==
    /\ At(p, "activate")
    /\ IF EffectiveWriter(p) /\ root.fence.term = scribe[p].job.term
                             /\ root.fence.gen.id = scribe[p].job.id
       THEN scribe' = [scribe EXCEPT ![p] = Fresh("serving", @.writable)]
       ELSE GiveUp(p)
    /\ UNCHANGED <<root, loglets, calls, delayed, faults>>
-----------------------------------------------------------------------------
\* HaServingSession

Call(at, p, pos) == [at |-> at, by |-> p, id |-> scribe[p].writable, pos |-> pos]

\* submit: the gate, then the runtime's driver.
SubmitEntry(p, e) ==
    /\ At(p, "serving") /\ calls[e].at = "new"
    /\ EffectiveWriter(p)
    /\ calls' = [calls EXCEPT ![e] = Call("queued", p, 0)]
    /\ UNCHANGED <<root, loglets, scribe, delayed, faults>>

\* External: AtomicLog::append writes, whatever has become of its caller; what is
\* written after the seal is beyond the tail.  The driver appends one at a time.
LogAppendWrites(e) ==
    /\ calls[e].at = "queued"
    /\ \A d \in Message : calls[d].by = calls[e].by => calls[d].at # "written"
    /\ LET id == calls[e].id IN
       /\ calls' = [calls EXCEPT ![e].at = "written", ![e].pos = Len(loglets[id].entries) + 1]
       /\ loglets' = IF loglets[id].sealed THEN loglets
                     ELSE [loglets EXCEPT ![id].entries = Append(@, e)]
    /\ UNCHANGED <<root, scribe, delayed, faults>>

\* Mutant: the caller is answered as soon as the entry is written.
LogAppendReturnsUnchecked(e) ==
    /\ calls[e].at = "written" /\ At(calls[e].by, "serving")
    /\ calls' = [calls EXCEPT ![e].at = "acked"]
    /\ UNCHANGED <<root, loglets, scribe, delayed, faults>>

\* The append looks at the seal, then returns; the driver resolves the receipt.
LogAppendReturns(e) ==
    /\ calls[e].at = "written" /\ At(calls[e].by, "serving")
    /\ calls' = [calls EXCEPT ![e].at =
                   IF loglets[calls[e].id].sealed THEN "failed" ELSE "committed"]
    /\ UNCHANGED <<root, loglets, scribe, delayed, faults>>

\* The receipt is handed on only through the gate.
ForwardReceipt(e) ==
    /\ calls[e].at = "committed" /\ At(calls[e].by, "serving")
    /\ calls' = [calls EXCEPT ![e].at =
                   IF EffectiveWriter(calls[e].by) THEN "acked" ELSE "failed"]
    /\ UNCHANGED <<root, loglets, scribe, delayed, faults>>
-----------------------------------------------------------------------------
AuthorityInit ==
    /\ root = NoRoot /\ loglets = << >> /\ delayed = {} /\ faults = 0
    /\ scribe = [p \in Process |-> Fresh("new", Nothing)]
    /\ calls = [e \in Message |-> [at |-> "new", by |-> Nothing, id |-> Nothing, pos |-> 0]]

Reconcile(p) ==
    ReconcileEmpty(p) \/ ReconcileTransitioning(p) \/ ReconcileOwn(p) \/ ReconcileServing(p)

Promote(p) ==
    \/ PromoteEmpty(p) \/ PromoteExpected(p) \/ UpdateFence(p) \/ DriveFoundation(p)
    \/ SealPredecessor(p) \/ ReadSealedTail(p) \/ Provision(p) \/ Publish(p) \/ Activate(p)

AuthorityNext ==
    \/ \E p \in Process :
         \/ StartScribe(p) \/ CrashScribe(p) \/ GraceElapses(p)
         \/ Reconcile(p) \/ ProbePeer(p) \/ Promote(p) \/ ReadFails(p)
         \/ \E e \in Message : SubmitEntry(p, e)
    \/ \E e \in Message : LogAppendWrites(e) \/ LogAppendReturns(e) \/ ForwardReceipt(e)
    \/ \E d \in delayed : DelayedArrives(d)

\* The runtime polls the task of a process that is up, and time passes.
AuthorityFairness ==
    \A p \in Process :
        /\ WF_authority(Reconcile(p) \/ ProbePeer(p) \/ Promote(p))
        /\ WF_authority(GraceElapses(p))
-----------------------------------------------------------------------------
\* A committed receipt survives every handover: whatever was acknowledged is in
\* its loglet, in the membership, before the place where the next one begins
\* (submit and ensure_root_authority in ha_session.rs, which rest on append
\* looking at the seal after it has written).
AckedSurvives ==
    \A e \in Message : calls[e].at = "acked" =>
        \E i \in DOMAIN root.gens :
            LET g == root.gens[i] IN
            /\ g.id = calls[e].id
            /\ calls[e].pos \in DOMAIN loglets[g.id].entries
            /\ loglets[g.id].entries[calls[e].pos] = e
            /\ i < Len(root.gens) => g.start + calls[e].pos <= root.gens[i + 1].start

\* The root only moves forward: from Serving to the intent of a successor with a
\* higher term, from an intent to Serving by its own candidate with its term, in
\* one update with a membership the fence is bound to (authority_coordinator.rs:
\* "Forward-only: never restore predecessor Serving").
RootMovesForward ==
    [][LET f == root.fence  g == root'.fence IN
       root \notin {NoRoot, root'} =>
         \/ /\ f.state = "Serving" /\ g.state = "Transitioning"
            /\ g.term > f.term /\ g.gen = f.gen
            /\ root'.gens = root.gens
         \/ /\ f.state = "Transitioning" /\ g.state = "Serving"
            /\ g.term = f.term /\ g.owner = f.owner
            /\ g.gen = LiveGeneration(root')
            /\ root.gens = SubSeq(root'.gens, 1, Len(root.gens))]_authority

\* The states a fleet without a writer may stay in: nobody runs the lifecycle,
\* the owner the root names is up and does not take up its loglet again, or the
\* candidate of a transition is gone.
InLifecycle(p) == scribe[p].at \notin {"new", "down", "serving"}
Excused ==
    \/ \A p \in Process : ~InLifecycle(p)
    \/ root # NoRoot /\ root.fence.state = "Serving" /\ Up(root.fence.owner)
    \/ root # NoRoot /\ root.fence.state = "Transitioning"
       /\ \A p \in Process : OwnerOf[p] = root.fence.owner => ~InLifecycle(p)

\* A Scribe that runs the lifecycle does not leave the Verse without a writer:
\* again and again there is one, or one of the states above
\* (scribe_lifecycle.rs, await_lawful_writer: "Loops until this process becomes
\* the lawful writer or fail-closes").
FleetRecovers ==
    []<>(Excused \/ \E p \in Process : At(p, "serving") /\ EffectiveWriter(p))
=============================================================================
