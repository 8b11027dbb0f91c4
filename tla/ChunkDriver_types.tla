------------------------- MODULE ChunkDriver_types -------------------------
(***************************************************************************)
(* Type correctness of ChunkDriver, for every set of callers and producers *)
(* and every policy that ChunkPolicy::validate accepts.                    *)
(***************************************************************************)
EXTENDS ChunkDriver, TLAPS, NaturalsInduction, WellFoundedInduction, SequenceTheorems

-----------------------------------------------------------------------------
\* Data

\* A non-empty set of naturals up to N has a greatest element.
LEMMA GreatestExists ==
    ASSUME NEW N \in Nat, NEW S \in SUBSET (0..N), S # {}
    PROVE  \E n \in S : \A m \in S : m <= n
<1> DEFINE R == OpToRel(<, Nat)
           T == {N - m : m \in S}
<1>1. T \subseteq Nat /\ T # {}
    <2>1. \A m \in S : N - m \in Nat
        OBVIOUS
    <2>2. PICK m \in S : TRUE
        OBVIOUS
    <2>3. N - m \in T
        BY <2>2
    <2> QED BY <2>1, <2>3
<1>2. PICK t \in T : \A u \in T : ~(<<u, t>> \in R)
    <2>1. IsWellFoundedOn(R, Nat)
        BY Zenon, NatLessThanWellFounded
    <2> HIDE DEF R, T
    <2> QED BY Zenon, <1>1, <2>1, WFMin
<1>3. ASSUME NEW u \in T PROVE t <= u
    <2>1. u \in Nat /\ t \in Nat
        BY Zenon, <1>1, <1>2
    <2> HIDE DEF T
    <2>2. u < t => <<u, t>> \in R
        BY <2>1 DEF OpToRel
    <2>3. ~(u < t)
        BY Zenon, <1>2, <2>2
    <2> QED BY <2>1, <2>3
<1>4. PICK n \in S : t = N - n
    BY Zenon, <1>2
<1>5. \A m \in S : m <= n
    BY <1>3, <1>4
<1> QED BY <1>5

\* Highest of a set of naturals is its greatest element, or -1 for the empty set.
LEMMA HighestIsGreatest ==
    ASSUME NEW N \in Nat, NEW S \in SUBSET (0..N)
    PROVE  /\ Highest(S) \in (0..N) \cup {-1}
           /\ S # {} => Highest(S) \in S /\ \A m \in S : m <= Highest(S)
           /\ S = {} => Highest(S) = -1
<1>1. CASE S = {}
    BY <1>1 DEF Highest
<1>2. CASE S # {}
    <2>1. \E n \in S : \A m \in S : m <= n
        BY Zenon, <1>2, GreatestExists
    <2> QED BY Zenon, <1>2, <2>1 DEF Highest
<1> QED BY <1>1, <1>2
-----------------------------------------------------------------------------
\* Type correctness

\* What a caller is told is a call state.
LEMMA ToldType ==
    ASSUME TypeOK, NEW c \in Call, NEW status \in Status, NEW receipts \in SUBSET Receipt
    PROVE  Told(c, status, receipts) \in CallState
BY Zenon DEF TypeOK, Told, CallState

\* So is the reply to the call being handled.
LEMMA ReplyType ==
    ASSUME TypeOK, NEW c \in Call, NEW s \in Submission, NEW status \in Status,
           NEW receipts \in SUBSET Receipt
    PROVE  Reply(c, s, status, receipts) \in CallState
BY DEF TypeOK, Reply, CallState

\* Answering one call and a set of waiters keeps every call a call state.
LEMMA AnswerType ==
    ASSUME TypeOK, NEW c \in Call, NEW new \in CallState, NEW waiters,
           NEW status, waiters = {} \/ status \in Status
    PROVE  Answer(c, new, waiters, status) \in [Call -> CallState]
<1>1. \A x \in Call : call[x] \in CallState
    BY DEF TypeOK
<1>2. \A x \in Call : x \in waiters => Told(x, status, {}) \in CallState
    BY ToldType
<1> QED BY <1>1, <1>2 DEF Answer

\* The empty chunks are chunks.
LEMMA EmptyTypes == EmptyChunk \in OpenChunk /\ NoWork \in SealedWork
BY DEF EmptyChunk, OpenChunk, NoWork, SealedWork

\* Sealing a chunk of placed submissions gives sealed work.
LEMMA SealType ==
    ASSUME TypeOK, NEW o \in OpenChunk
    PROVE  Seal(o) \in SealedWork
BY DEF TypeOK, Seal, OpenChunk, SealedWork

\* Placing a submission in the open chunk gives an open chunk.
LEMMA WithPlacedType ==
    ASSUME TypeOK, NEW c \in Call, NEW s \in Submission
    PROVE  WithPlaced(c, s) \in OpenChunk
<1> DEFINE first == IF open.placed = {} THEN writer.next ELSE open.next
           n == RecordCount[s.payload]
           new == [sub |-> s, first |-> first, at |-> open.records, waiters |-> {c}]
<1>1. open \in OpenChunk /\ writer.next \in Nat
    BY DEF TypeOK
<1>2. first \in Nat /\ open.records \in Nat /\ open.bytes \in Nat /\ open.age \in Nat
      /\ open.base \in Nat /\ open.placed \subseteq Placed
    BY <1>1 DEF OpenChunk
<1>3. n \in Nat /\ EncodedBytes[s.payload] \in Nat
    BY DataAssumption DEF Submission
<1>4. new \in Placed
    BY <1>2 DEF Placed
<1> HIDE DEF first, n, new
<1>5. /\ open.placed \cup {new} \subseteq Placed
      /\ (IF open.placed = {} THEN first ELSE open.base) \in Nat
      /\ first + n \in Nat /\ open.records + n \in Nat
      /\ open.bytes + EncodedBytes[s.payload] \in Nat
    BY <1>2, <1>3, <1>4
<1>6. WithPlaced(c, s) = [placed |-> open.placed \cup {new},
         base |-> IF open.placed = {} THEN first ELSE open.base,
         next |-> first + n, records |-> open.records + n,
         bytes |-> open.bytes + EncodedBytes[s.payload], age |-> open.age]
    BY DEF WithPlaced, first, n, new
<1> QED BY <1>2, <1>5, <1>6 DEF OpenChunk

\* What seal_open leaves behind has its type.
LEMMA SealOpenType ==
    ASSUME TypeOK, NEW o \in OpenChunk, seal_open(o)
    PROVE  open' \in OpenChunk /\ pending' \in SealedWork /\ nextChunk' \in Nat
BY SealType, EmptyTypes DEF seal_open, TypeOK

\* The part of the state that admit changes.
AdmitTypes ==
    /\ open \in OpenChunk /\ pending \in SealedWork /\ nextChunk \in Nat
    /\ blocked \in Seq([call : Call, sub : Submission])
    /\ admittedSeq \in [Producer \X Epoch -> Sequence \cup {-1}]
    /\ knownProducers \in [Producer -> Epoch \cup {-1}]
    /\ call \in [Call -> CallState]

\* Admitting a submission, in any of its outcomes, keeps the types.
LEMMA AdmitType ==
    ASSUME TypeOK, NEW c \in Call, NEW s \in Submission,
           NEW queue \in Seq([call : Call, sub : Submission]), admit(c, s, queue)
    PROVE  AdmitTypes'
<1> DEFINE Same == UNCHANGED <<open, pending, admittedSeq, knownProducers, nextChunk>>
<1>0. AdmitTypes
    BY DEF TypeOK, AdmitTypes
<1>a. \A status \in Status, rs \in SUBSET Receipt :
        Answer(c, Reply(c, s, status, rs), {}, "") \in [Call -> CallState]
    BY Zenon, ReplyType, AnswerType
<1>b. Rejection \subseteq Status /\ {"deduplicated", "parked", "admitted", "Unavailable"} \subseteq Status
    BY DEF Status, Rejection, Waiting, Acknowledged, Failure
<1>1. CASE Verdict(s) \in Rejection /\ Same /\ blocked' = queue
           /\ call' = Answer(c, Reply(c, s, Verdict(s), {}), {}, "")
    BY Zenon, <1>0, <1>1, <1>a, <1>b DEF AdmitTypes
<1>2. CASE Verdict(s) = "Replay" /\ Same /\ blocked' = queue
           /\ call' = Answer(c, Reply(c, s, "deduplicated", {r \in dedup : r.sub = s}), {}, "")
    <2>1. {r \in dedup : r.sub = s} \in SUBSET Receipt
        BY DEF TypeOK
    <2> QED BY Zenon, <1>0, <1>2, <1>a, <1>b, <2>1 DEF AdmitTypes
<1>3. CASE Verdict(s) = "Join" /\ JoinWaiter(c, s) /\ blocked' = queue
           /\ UNCHANGED <<admittedSeq, knownProducers, nextChunk>>
    <2> DEFINE joined(placed) == {IF SameIdentity(p.sub, s)
                                  THEN [p EXCEPT !.waiters = @ \cup {c}] ELSE p : p \in placed}
    <2>1. \A placed \in SUBSET Placed : joined(placed) \in SUBSET Placed
        BY DEF Placed
    <2>2. open.placed \in SUBSET Placed /\ pending.placed \in SUBSET Placed
        BY <1>0 DEF AdmitTypes, OpenChunk, SealedWork
    <2>3. open' = [open EXCEPT !.placed = joined(open.placed)]
          /\ pending' = [pending EXCEPT !.placed = joined(pending.placed)]
        BY Zenon, <1>3 DEF JoinWaiter
    <2> HIDE DEF joined
    <2>4. open' \in OpenChunk /\ pending' \in SealedWork
        BY Zenon, <1>0, <2>1, <2>2, <2>3 DEF AdmitTypes, OpenChunk, SealedWork
    <2>5. call' \in [Call -> CallState]
        BY Zenon, <1>3, <1>a, <1>b DEF JoinWaiter
    <2> QED BY <1>0, <1>3, <2>4, <2>5 DEF AdmitTypes
<1>4. CASE Verdict(s) = "Park" /\ Same
           /\ call' = Answer(c, Reply(c, s, "parked", {}), {}, "")
           /\ blocked' = Append(queue, [call |-> c, sub |-> s])
    <2>1. [call |-> c, sub |-> s] \in [call : Call, sub : Submission]
        OBVIOUS
    <2>2. blocked' \in Seq([call : Call, sub : Submission])
        BY Zenon, <1>4, <2>1, AppendProperties
    <2> QED BY Zenon, <1>0, <1>4, <1>a, <1>b, <2>2 DEF AdmitTypes
<1>5. CASE Verdict(s) = "Place" /\ admit_ready(c, s) /\ blocked' = queue
    <2> DEFINE o == WithPlaced(c, s)
    <2>1. o \in OpenChunk
        BY WithPlacedType
    <2>2. admittedSeq' \in [Producer \X Epoch -> Sequence \cup {-1}]
          /\ knownProducers' \in [Producer -> Epoch \cup {-1}]
        <3>1. s.producer \in Producer /\ s.epoch \in Epoch /\ s.sequence \in Sequence
            BY DEF Submission
        <3>2. admittedSeq' = [admittedSeq EXCEPT ![<<s.producer, s.epoch>>] = s.sequence]
            BY Zenon, <1>5 DEF admit_ready
        <3>3. knownProducers' = [knownProducers EXCEPT ![s.producer] =
                IF knownProducers[s.producer] < s.epoch THEN s.epoch ELSE knownProducers[s.producer]]
            BY Zenon, <1>5 DEF admit_ready
        <3>4. admittedSeq' \in [Producer \X Epoch -> Sequence \cup {-1}]
            BY <1>0, <3>1, <3>2 DEF AdmitTypes
        <3>5. knownProducers' \in [Producer -> Epoch \cup {-1}]
            BY <1>0, <3>1, <3>3 DEF AdmitTypes
        <3> QED BY <3>4, <3>5
    <2>3. CASE seal_open(o) /\ call' = Answer(c, Reply(c, s, "admitted", {}), Waiters(pending), "Unavailable")
        <3>1. open' \in OpenChunk /\ pending' \in SealedWork /\ nextChunk' \in Nat
            BY <2>1, <2>3, SealOpenType
        <3>2. call' \in [Call -> CallState]
            BY <2>3, <1>b, ReplyType, AnswerType
        <3> QED BY <1>5, <2>2, <3>1, <3>2 DEF AdmitTypes
    <2>4. CASE open' = o /\ call' = Answer(c, Reply(c, s, "admitted", {}), {}, "")
               /\ UNCHANGED <<pending, nextChunk>>
        BY Zenon, <1>0, <1>5, <1>a, <1>b, <2>1, <2>2, <2>4 DEF AdmitTypes
    <2> QED BY Zenon, <1>5, <2>3, <2>4 DEF admit_ready
<1> QED BY Zenon, <1>1, <1>2, <1>3, <1>4, <1>5 DEF admit

\* A chunk that is appended, and the receipts for it, have their types.
LEMMA AppendType ==
    ASSUME TypeOK, NEW work \in SealedWork
    PROVE  /\ AsChunk(work) \in Chunk /\ Append(log, AsChunk(work)) \in Seq(Chunk)
           /\ \A slot \in Nat : {ReceiptOf(p, work, slot) : p \in work.placed} \subseteq Receipt
<1>1. work.id \in Nat /\ work.base \in Nat /\ work.records \in Nat /\ generation \in Nat
      /\ \A p \in work.placed : p.sub \in Submission /\ p.at \in Nat /\ p.first \in Nat
    BY DEF TypeOK, SealedWork, Placed
<1>2. {[sub |-> p.sub, at |-> p.at] : p \in work.placed} \subseteq [sub : Submission, at : Nat]
    BY <1>1
<1>3. AsChunk(work) \in Chunk
    BY <1>1, <1>2 DEF AsChunk, Chunk
<1>4. Append(log, AsChunk(work)) \in Seq(Chunk)
    BY <1>3, AppendProperties DEF TypeOK
<1>5. ASSUME NEW slot \in Nat, NEW p \in work.placed PROVE ReceiptOf(p, work, slot) \in Receipt
    BY <1>1 DEF ReceiptOf, Receipt
<1> QED BY <1>3, <1>4, <1>5

\* The error arm of finish_depth_one_append keeps the types.
LEMMA PoisonDrainType ==
    ASSUME TypeOK, NEW W, PoisonDrain(W), UNCHANGED writer, log' \in Seq(Chunk)
    PROVE  TypeOK'
<1>1. call' \in [Call -> CallState]
    <2>1. {"Uncertain", "NotWritten", "Poisoned"} \subseteq Status
        BY DEF Status, Rejection, Failure
    <2>2. \A c \in Call : /\ call[c] \in CallState
                          /\ Told(c, "Uncertain", {}) \in CallState
                          /\ Told(c, "NotWritten", {}) \in CallState
                          /\ Told(c, "Poisoned", {}) \in CallState
        BY <2>1, ToldType DEF TypeOK
    <2> QED BY <2>2 DEF PoisonDrain
<1>2. blocked' \in Seq([call : Call, sub : Submission])
    BY DEF PoisonDrain
<1>3. open' \in OpenChunk /\ pending' \in SealedWork /\ inflight' \in SealedWork
    BY EmptyTypes DEF PoisonDrain
<1> QED BY <1>1, <1>2, <1>3 DEF PoisonDrain, TypeOK

\* A first owner on an empty log has its types.
LEMMA TypeInit == Init => TypeOK
<1> SUFFICES ASSUME Init PROVE TypeOK
    OBVIOUS
<1>1. call \in [Call -> CallState]
    BY DEF Init, IdleCall, CallState, Status
<1>2. admittedSeq \in [Producer \X Epoch -> Sequence \cup {-1}]
      /\ knownProducers \in [Producer -> Epoch \cup {-1}]
    BY DEF Init, NewKeys, NewProducers
<1>3. log \in Seq(Chunk) /\ blocked \in Seq([call : Call, sub : Submission])
    BY DEF Init
<1>4. writer \in [next : Nat, poisoned : BOOLEAN]
    BY DEF Init
<1>5. open \in OpenChunk /\ pending \in SealedWork /\ inflight \in SealedWork
    BY EmptyTypes DEF Init
<1>6. dedup \subseteq Receipt /\ barrier \subseteq Call
    BY DEF Init
<1> QED BY Zenon, <1>1, <1>2, <1>3, <1>4, <1>5, <1>6 DEF Init, TypeOK

\* Recovery computes values of the right types from the chunks it scans.
LEMMA RecoverType ==
    ASSUME TypeOK, Recover
    PROVE  TypeOK'
<1> DEFINE found == UNION {ReceiptsAt(i) : i \in Scanned}
           receipts == {r \in found : \A q \in found :
                           SameIdentity(q.sub, r.sub) => q.slot <= r.slot}
<1>1. \A i \in DOMAIN log : log[i] \in Chunk /\ i \in Nat
    BY ElementOfSeq, LenProperties DEF TypeOK
<1>2. ASSUME NEW i \in DOMAIN log PROVE ReceiptsAt(i) \subseteq Receipt
    <2>1. /\ log[i].base \in Nat /\ log[i].id \in Nat /\ log[i].generation \in Nat /\ i \in Nat
          /\ \A e \in log[i].entries : e.sub \in Submission /\ e.at \in Nat
        BY <1>1 DEF Chunk
    <2> QED BY <2>1 DEF ReceiptsAt, Receipt
<1>3. receipts \subseteq Receipt
    BY <1>2 DEF Scanned
<1>4. LogEnd \in Nat
    <2>1. CASE log = << >>
        BY <2>1 DEF LogEnd
    <2>2. CASE log # << >>
        <3>1. Len(log) \in DOMAIN log
            BY <2>2, LenProperties, EmptySeq DEF TypeOK
        <3> QED BY <1>1, <2>2, <3>1 DEF LogEnd, Chunk
    <2> QED BY <2>1, <2>2
<1>5. \A r \in receipts : r.sub.sequence \in 0..MaxSequence /\ r.sub.epoch \in 0..MaxEpoch
    BY <1>3 DEF Receipt, Submission, Sequence, Epoch
<1>6. writer' = [next |-> LogEnd, poisoned |-> FALSE] /\ dedup' = receipts
      /\ generation' = generation + 1 /\ pc' = "run"
      /\ UNCHANGED <<log, open, pending, inflight, blocked, nextChunk, poisoned, resume, barrier, call>>
    BY DEF Recover
<1>7. admittedSeq' = [k \in Producer \X Epoch |->
                         Highest({r.sub.sequence : r \in
                            {x \in receipts : x.sub.producer = k[1] /\ x.sub.epoch = k[2]}})]
    BY DEF Recover
<1>8. knownProducers' = [p \in Producer |->
                            Highest({r.sub.epoch : r \in {x \in receipts : x.sub.producer = p}})]
    BY DEF Recover
<1> HIDE DEF receipts
<1>9. admittedSeq' \in [Producer \X Epoch -> Sequence \cup {-1}]
    <2>1. ASSUME NEW k \in Producer \X Epoch
          PROVE Highest({r.sub.sequence : r \in
                   {x \in receipts : x.sub.producer = k[1] /\ x.sub.epoch = k[2]}}) \in Sequence \cup {-1}
        <3> DEFINE S == {r.sub.sequence : r \in
                           {x \in receipts : x.sub.producer = k[1] /\ x.sub.epoch = k[2]}}
        <3>1. S \in SUBSET (0..MaxSequence)
            BY <1>5
        <3> HIDE DEF S
        <3>2. Highest(S) \in (0..MaxSequence) \cup {-1}
            BY <3>1, HighestIsGreatest, DataAssumption
        <3> QED BY <3>2 DEF Sequence, S
    <2> QED BY <1>7, <2>1
<1>10. knownProducers' \in [Producer -> Epoch \cup {-1}]
    <2>1. ASSUME NEW p \in Producer
          PROVE Highest({r.sub.epoch : r \in {x \in receipts : x.sub.producer = p}}) \in Epoch \cup {-1}
        <3> DEFINE S == {r.sub.epoch : r \in {x \in receipts : x.sub.producer = p}}
        <3>1. S \in SUBSET (0..MaxEpoch)
            BY <1>5
        <3> HIDE DEF S
        <3>2. Highest(S) \in (0..MaxEpoch) \cup {-1}
            BY Zenon, <3>1, HighestIsGreatest, DataAssumption
        <3> QED BY <3>2 DEF Epoch, S
    <2> QED BY <1>8, <2>1
<1>11. writer' \in [next : Nat, poisoned : BOOLEAN] /\ generation' \in Nat
    BY <1>4, <1>6 DEF TypeOK
<1> QED BY <1>3, <1>6, <1>9, <1>10, <1>11 DEF TypeOK

\* A step that only admits, and moves the actor, keeps the types.
LEMMA AdmitStepType ==
    ASSUME TypeOK, NEW c \in Call, NEW s \in Submission,
           NEW queue \in Seq([call : Call, sub : Submission]), admit(c, s, queue),
           pc' \in {"run", pc}
    PROVE  TypeOK'
<1>1. AdmitTypes'
    BY Zenon, AdmitType
<1>2. UNCHANGED <<log, writer, generation, inflight, dedup, poisoned, resume, barrier>>
    BY Zenon DEF admit
<1> QED BY <1>1, <1>2 DEF TypeOK, AdmitTypes

\* Every step keeps the types.
LEMMA TypeNext == TypeOK /\ [Next]_vars => TypeOK'
<1> SUFFICES ASSUME TypeOK, [Next]_vars PROVE TypeOK'
    OBVIOUS
<1>u. {"Unavailable", "cancelled", "committed"} \subseteq Status
    BY DEF Status, Failure, Acknowledged
<1>g. \A c \in Call : Told(c, "Unavailable", {}) \in CallState
    BY <1>u, ToldType
<1>e. EmptyChunk \in OpenChunk /\ NoWork \in SealedWork
      /\ << >> \in Seq([call : Call, sub : Submission])
    BY EmptyTypes
<1>1. ASSUME NEW c \in Call, NEW s \in Submission, HandleSubmit(c, s) PROVE TypeOK'
    <2>1. blocked \in Seq([call : Call, sub : Submission])
        BY DEF TypeOK
    <2> QED BY Zenon, <1>1, <2>1, AdmitStepType DEF HandleSubmit
<1>2. ASSUME NEW c \in Call, Cancel(c) PROVE TypeOK'
    <2>1. call' \in [Call -> CallState]
        BY Zenon, <1>2, <1>u DEF Cancel, TypeOK, CallState
    <2> QED BY <1>2, <2>1 DEF Cancel, TypeOK, owner
<1>3. CASE HandleFlush
    <2>1. open' \in OpenChunk /\ pending' \in SealedWork /\ nextChunk' \in Nat
        BY <1>3, SealOpenType DEF HandleFlush, TypeOK
    <2> QED BY <1>3, <2>1 DEF HandleFlush, TypeOK
<1>4. CASE HandlesDropped
    <2>1. CASE seal_open(open)
        <3>1. open' \in OpenChunk /\ pending' \in SealedWork /\ nextChunk' \in Nat
            BY <2>1, SealOpenType DEF TypeOK
        <3>2. blocked' \in Seq([call : Call, sub : Submission])
            BY Zenon, <1>4, <1>e DEF HandlesDropped, TypeOK
        <3> QED BY <1>4, <3>1, <3>2 DEF HandlesDropped, TypeOK
    <2>2. CASE blocked' = << >> /\ pc' = "stopped" /\ UNCHANGED <<open, pending, nextChunk, resume, barrier>>
        BY <1>4, <2>2, <1>e DEF HandlesDropped, TypeOK
    <2> QED BY <1>4, <2>1, <2>2 DEF HandlesDropped
<1>5. CASE Await
    BY <1>5 DEF Await, TypeOK
<1>6. CASE SealOnAge
    <2>1. open' \in OpenChunk /\ pending' \in SealedWork /\ nextChunk' \in Nat
        BY <1>6, SealOpenType DEF SealOnAge, TypeOK
    <2> QED BY <1>6, <2>1 DEF SealOnAge, TypeOK
<1>7. CASE IssueAppend
    BY Zenon, <1>7, <1>e DEF IssueAppend, TypeOK
<1>8. CASE AppendRefused
    BY Zenon, <1>8, PoisonDrainType DEF AppendRefused, TypeOK
<1>9. CASE DrainOne
    <2>1. blocked \in Seq([call : Call, sub : Submission]) /\ blocked # << >>
        BY <1>9 DEF DrainOne, TypeOK
    <2>2. Head(blocked) \in [call : Call, sub : Submission]
          /\ Tail(blocked) \in Seq([call : Call, sub : Submission])
        BY Zenon, <2>1, HeadTailProperties
    <2>3. PICK c \in Call, s \in Submission, queue \in Seq([call : Call, sub : Submission]) :
             admit(c, s, queue)
        BY Zenon, <1>9, <2>2 DEF DrainOne
    <2> QED BY Zenon, <1>9, <2>3, AdmitStepType DEF DrainOne
<1>10. CASE DrainDone
    <2>1. CASE pc' = "run" /\ UNCHANGED <<open, pending, blocked, call>>
        BY <1>10, <2>1 DEF DrainDone, TypeOK
    <2>2. CASE /\ pc' = "stopped" /\ open' = EmptyChunk /\ pending' = NoWork /\ blocked' = << >>
               /\ call' = [c \in Call |-> Told(c, "Unavailable", {})]
        <3>1. call' \in [Call -> CallState]
            BY <2>2, <1>g
        <3> QED BY <1>10, <2>2, <3>1, <1>e DEF DrainDone, TypeOK
    <2> QED BY <1>10, <2>1, <2>2 DEF DrainDone
<1>11. CASE AppendAcknowledged
    <2> DEFINE receipts == {ReceiptOf(p, inflight, Len(log) + 1) : p \in inflight.placed}
    <2>1. inflight \in SealedWork /\ Len(log) + 1 \in Nat
        BY LenProperties DEF TypeOK
    <2>2. log' \in Seq(Chunk)
        BY <1>11, <2>1, AppendType DEF AppendAcknowledged
    <2>3. receipts \subseteq Receipt
        BY <2>1, AppendType
    <2>4. writer' \in [next : Nat, poisoned : BOOLEAN]
        BY <1>11, <2>1 DEF AppendAcknowledged, SealedWork
    <2>5. dedup' \subseteq Receipt
        BY <1>11, <2>3 DEF AppendAcknowledged, Remember, TypeOK
    <2>6. call' = [c \in Call |-> IF c \in Waiters(inflight)
                      THEN Told(c, "committed", {r \in receipts : r.sub \in call[c].sub})
                      ELSE call[c]]
        BY <1>11 DEF AppendAcknowledged
    <2> HIDE DEF receipts
    <2>7. \A c \in Call : {r \in receipts : r.sub \in call[c].sub} \in SUBSET Receipt
        BY <2>3
    <2>8. \A c \in Call : Told(c, "committed", {r \in receipts : r.sub \in call[c].sub}) \in CallState
        BY <2>7, <1>u, ToldType
    <2>9. call' \in [Call -> CallState]
        BY <2>6, <2>8 DEF TypeOK
    <2> QED BY Zenon, <1>11, <1>e, <2>2, <2>4, <2>5, <2>9 DEF AppendAcknowledged, TypeOK
<1>12. CASE AppendUncertain
    <2>1. log' \in Seq(Chunk)
        BY Zenon, <1>12, AppendType DEF AppendUncertain, TypeOK
    <2> QED BY <1>12, <2>1, PoisonDrainType DEF AppendUncertain
<1>13. CASE Tick
    <2>1. \A a \in Nat : Older(a) \in Nat
        BY DEF Older
    <2>2. open' \in OpenChunk /\ pending' \in SealedWork
        BY Zenon, <1>13, <2>1 DEF Tick, TypeOK, OpenChunk, SealedWork
    <2> QED BY <1>13, <2>2 DEF Tick, TypeOK
<1>14. CASE Crash
    <2>1. log' \in Seq(Chunk)
        <3>1. Append(log, AsChunk(inflight)) \in Seq(Chunk)
            BY AppendType DEF TypeOK
        <3> QED BY Zenon, <1>14, <3>1 DEF Crash, TypeOK
    <2>2. call' \in [Call -> CallState]
        BY <1>14, <1>g DEF Crash
    <2>3. writer' \in [next : Nat, poisoned : BOOLEAN] /\ dedup' \subseteq Receipt
        BY <1>14 DEF Crash
    <2>4. admittedSeq' \in [Producer \X Epoch -> Sequence \cup {-1}]
          /\ knownProducers' \in [Producer -> Epoch \cup {-1}]
        BY <1>14 DEF Crash, NewKeys, NewProducers
    <2> QED BY Zenon, <1>14, <1>e, <2>1, <2>2, <2>3, <2>4 DEF Crash, TypeOK
<1>15. CASE Recover
    BY <1>15, RecoverType
<1>16. CASE UNCHANGED vars
    BY <1>16 DEF vars, owner, TypeOK
<1> QED BY <1>1, <1>2, <1>3, <1>4, <1>5, <1>6, <1>7, <1>8, <1>9, <1>10, <1>11, <1>12, <1>13,
           <1>14, <1>15, <1>16 DEF Next, ActorStep, HolylogAnswers

\* Every variable of the driver keeps its type, for every policy that
\* ChunkPolicy::validate accepts and any number of callers and owners.
THEOREM TypeCorrect == Spec => []TypeOK
BY TypeInit, TypeNext, PTL DEF Spec

=============================================================================
