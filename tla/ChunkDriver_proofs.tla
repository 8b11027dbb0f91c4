------------------------- MODULE ChunkDriver_proofs -------------------------
(***************************************************************************)
(* The safety of ChunkDriver: the bookkeeping invariant is inductive,      *)
(* receipts are true and offsets are dense.                                *)
(***************************************************************************)
EXTENDS ChunkDriver_admission

-----------------------------------------------------------------------------
\* Sealing moves the placements of the open chunk as they are.
LEMMA SealKeeps ==
    ASSUME TypeOK, ReceiptInv, seal_open(open), open.placed # {}
    PROVE  /\ WellPlaced(open)' /\ WellPlaced(pending)' /\ OpenAtEnd' /\ BufferedOnce'
           /\ pending'.placed = open.placed /\ open'.placed = {}
<1>1. /\ open'.placed = {} /\ open'.records = 0
      /\ pending'.placed = open.placed /\ pending'.base = open.base
    BY DEF seal_open, Seal, EmptyChunk
<1> QED BY <1>1 DEF ReceiptInv, WellPlaced, OpenAtEnd, BufferedOnce

\* A step that seals the open chunk and tells nobody anything.
LEMMA SealStepInv ==
    ASSUME TypeOK, ReceiptInv, seal_open(open), open.placed # {}, pc \in {"run", "wait"}, pc' = "run",
           UNCHANGED <<log, writer, inflight, dedup, blocked, call>>
    PROVE  ReceiptInv'
<1>1. /\ WellPlaced(open)' /\ WellPlaced(pending)' /\ OpenAtEnd' /\ BufferedOnce'
      /\ pending'.placed = open.placed /\ open'.placed = {}
    BY SealKeeps
<1>2. DenseLog' /\ ChunksUnique' /\ LogEnd' = LogEnd /\ LogMayGrow
    BY SameLog
<1>3. DedupSound' /\ ReceiptSound'
    <2>1. \A c \in Call : Quiet(c, call'[c])
        BY DEF Quiet
    <2> QED BY <1>2, <2>1, DedupKept, ReceiptSoundKept
<1>4. OneAppend' /\ WriterAtEnd' /\ CallsMatch'
    BY <1>2 DEF ReceiptInv, OneAppend, WriterAtEnd, CallsMatch
<1>5. WellPlaced(inflight)' /\ WaitersMatch(inflight)'
    BY DEF ReceiptInv, WellPlaced, WaitersMatch
<1>6. WaitersMatch(open)' /\ WaitersMatch(pending)'
    BY <1>1 DEF ReceiptInv, WaitersMatch
<1> QED BY <1>1, <1>2, <1>3, <1>4, <1>5, <1>6 DEF ReceiptInv

\* The error arm of finish_depth_one_append keeps the invariant.
LEMMA PoisonDrainInv ==
    ASSUME TypeOK, ReceiptInv, NEW W, PoisonDrain(W), LogMayGrow, DenseLog', ChunksUnique', WriterAtEnd'
    PROVE  ReceiptInv'
<1>1. dedup' = dedup /\ open' = EmptyChunk /\ pending' = NoWork /\ inflight' = NoWork
      /\ blocked' = << >> /\ pc' # "append"
    BY DEF PoisonDrain
<1>2. ASSUME NEW c \in Call PROVE Quiet(c, call'[c])
    <2>1. {"Uncertain", "NotWritten", "Poisoned"} \cap (Acknowledged \cup {"idle"}) = {}
        BY DEF Acknowledged
    <2>2. call'[c] \in {Told(c, "Uncertain", {}), Told(c, "NotWritten", {}), Told(c, "Poisoned", {}), call[c]}
        BY DEF PoisonDrain
    <2>3. /\ Quiet(c, Told(c, "Uncertain", {})) /\ Quiet(c, Told(c, "NotWritten", {}))
          /\ Quiet(c, Told(c, "Poisoned", {})) /\ Quiet(c, call[c])
        BY <2>1, QuietTold
    <2> QED BY <2>2, <2>3
<1>3. DedupSound'
    BY <1>1, DedupKept
<1> QED BY <1>1, <1>2, <1>3, EmptiedInv

\* The receipts of an acknowledged append are true, and its callers get theirs.
LEMMA AcknowledgedInv ==
    ASSUME TypeOK, ReceiptInv, AppendAcknowledged
    PROVE  ReceiptInv'
<1> DEFINE receipts == {ReceiptOf(p, inflight, Len(log) + 1) : p \in inflight.placed}
<1>0. PICK slot : slot = Len(log) + 1
    OBVIOUS
<1>1. /\ pc = "append" /\ log' = Append(log, AsChunk(inflight)) /\ LogMayGrow
      /\ writer' = [next |-> inflight.base + inflight.records, poisoned |-> FALSE]
      /\ inflight' = NoWork /\ pc' = "drain" /\ UNCHANGED <<open, pending, blocked>>
      /\ dedup' = Remember(receipts)
      /\ call' = [c \in Call |-> IF c \in Waiters(inflight)
                      THEN Told(c, "committed", {r \in receipts : r.sub \in call[c].sub})
                      ELSE call[c]]
    BY DEF AppendAcknowledged, LogMayGrow
<1>2. /\ DenseLog' /\ ChunksUnique' /\ LogEnd' = inflight.base + inflight.records
      /\ slot \in DOMAIN log'
      /\ ReceiptsAt(slot)' = {ReceiptOf(p, inflight, slot) : p \in inflight.placed}
    BY <1>0, <1>1, AppendFits
<1>3. ReceiptsAt(slot)' = receipts
    BY <1>0, <1>2
<1>4. \A p, q \in inflight.placed : SameIdentity(p.sub, q.sub) => p = q
    BY DEF ReceiptInv, WellPlaced
<1>5. \A p \in inflight.placed : ReceiptOf(p, inflight, Len(log) + 1).sub = p.sub
    BY DEF ReceiptOf
<1>6. \A r, q \in receipts : SameIdentity(r.sub, q.sub) => r = q
    BY <1>4, <1>5
<1>7. DedupSound'
    <2> HIDE DEF receipts
    <2>1. \A r \in dedup' : r \in receipts \/ (r \in dedup /\ \A n \in receipts : ~SameIdentity(n.sub, r.sub))
        BY <1>1 DEF Remember
    <2>2. ASSUME NEW r \in dedup' PROVE \E i \in DOMAIN log' : r \in ReceiptsAt(i)'
        <3>1. CASE r \in receipts
            BY <1>2, <1>3, <3>1
        <3>2. CASE r \in dedup
            <4>1. PICK i \in DOMAIN log : r \in ReceiptsAt(i)
                BY <3>2 DEF ReceiptInv, DedupSound
            <4> QED BY <1>1, <4>1, LogKept
        <3> QED BY <2>1, <3>1, <3>2
    <2>3. ASSUME NEW r \in dedup', NEW q \in dedup', SameIdentity(r.sub, q.sub) PROVE r = q
        <3>1. SameIdentity(q.sub, r.sub)
            BY <2>3 DEF SameIdentity, SameKey
        <3>2. CASE r \in receipts /\ q \in receipts
            BY <1>6, <2>3, <3>2
        <3>3. CASE r \in dedup /\ q \in dedup
            BY <2>3, <3>3 DEF ReceiptInv, DedupSound
        <3> QED BY <2>1, <2>3, <3>1, <3>2, <3>3
    <2> QED BY <2>2, <2>3 DEF DedupSound
<1>8. ASSUME NEW c \in Call
      PROVE  /\ call'[c].sub = call[c].sub
             /\ call'[c].status = "idle" => call'[c] = call[c]
             /\ Quiet(c, call'[c]) \/ HasReceipt(c)'
    <2>1. CASE c \in Waiters(inflight) /\ call[c].status \in Waiting
        <3>1. PICK p \in inflight.placed : c \in p.waiters
            BY <2>1 DEF Waiters
        <3>2. call[c].sub = {p.sub}
            BY <3>1 DEF ReceiptInv, WaitersMatch
        <3> DEFINE r == ReceiptOf(p, inflight, Len(log) + 1)
        <3>3. r \in receipts /\ r.sub = p.sub
            BY <1>5
        <3>4. \A q \in receipts : q.sub = p.sub => q = r
            BY <1>6, <3>3 DEF SameIdentity, SameKey
        <3> HIDE DEF receipts, r
        <3>5. {q \in receipts : q.sub \in call[c].sub} = {r}
            BY <3>2, <3>3, <3>4
        <3>6. call'[c] = [call[c] EXCEPT !.status = "committed", !.receipt = {r}]
            BY Zenon, <1>1, <2>1, <3>5 DEF Told
        <3>7. call'[c].status = "committed" /\ call'[c].receipt = {r} /\ call'[c].sub = call[c].sub
            BY <3>6 DEF TypeOK, CallState
        <3>8. PICK q : q = r
            OBVIOUS
        <3>9. q \in ReceiptsAt(slot)' /\ call'[c].receipt = {q} /\ call'[c].sub = {q.sub}
            BY <1>3, <3>2, <3>3, <3>7, <3>8
        <3>10. HasReceipt(c)'
            BY <1>2, <3>9 DEF HasReceipt
        <3> QED BY <3>7, <3>10
    <2>2. CASE ~(c \in Waiters(inflight) /\ call[c].status \in Waiting)
        <3>1. call'[c] = call[c]
            BY Zenon, <1>1, <2>2 DEF Told
        <3> QED BY <3>1 DEF Quiet
    <2> QED BY <2>1, <2>2
<1> HIDE DEF receipts
<1>9. ReceiptSound'
    BY <1>1, <1>8, ReceiptSoundKept
<1>10. CallsMatch'
    <2>1. \A i \in DOMAIN blocked : blocked[i].call \in Call
        BY BlockedTyped
    <2>2. \A i \in DOMAIN blocked' : call'[blocked'[i].call].sub = {blocked'[i].sub}
        BY <1>1, <1>8, <2>1 DEF ReceiptInv, CallsMatch
    <2>3. \A c \in Call : call'[c].status = "idle" => call'[c].sub = {}
        BY <1>8 DEF ReceiptInv, CallsMatch
    <2> QED BY <2>2, <2>3 DEF CallsMatch
<1>11. OneAppend' /\ WriterAtEnd' /\ OpenAtEnd' /\ BufferedOnce'
    BY <1>1, <1>2 DEF ReceiptInv, OneAppend, WriterAtEnd, OpenAtEnd, BufferedOnce, NoWork
<1>12. WellPlaced(open)' /\ WellPlaced(pending)' /\ WellPlaced(inflight)'
    BY SMTT(20), <1>1 DEF ReceiptInv, WellPlaced, NoWork
<1>13. WaitersMatch(open)' /\ WaitersMatch(pending)' /\ WaitersMatch(inflight)'
    BY SMTT(20), <1>1, <1>8, WaitersAreCalls DEF ReceiptInv, WaitersMatch, NoWork
<1> QED BY <1>2, <1>7, <1>9, <1>10, <1>11, <1>12, <1>13 DEF ReceiptInv

\* What recovery learns from the chunks it scans is true.
LEMMA RecoverInv ==
    ASSUME TypeOK, ReceiptInv, Recover
    PROVE  ReceiptInv'
<1> DEFINE found == UNION {ReceiptsAt(i) : i \in Scanned}
           receipts == {r \in found : \A q \in found :
                           SameIdentity(q.sub, r.sub) => q.slot <= r.slot}
<1>1. /\ writer' = [next |-> LogEnd, poisoned |-> FALSE] /\ dedup' = receipts
      /\ pc = "down" /\ pc' = "run"
      /\ UNCHANGED <<log, open, pending, inflight, blocked, call>>
    BY DEF Recover
<1>2. DenseLog' /\ ChunksUnique' /\ LogEnd' = LogEnd /\ LogMayGrow
    BY <1>1, SameLog
<1>3. \A r \in receipts : \E i \in DOMAIN log : r \in ReceiptsAt(i)
    BY DEF Scanned
<1>4. ASSUME NEW r \in receipts, NEW q \in receipts, SameIdentity(r.sub, q.sub) PROVE r = q
    <2>1. PICK i \in DOMAIN log : r \in ReceiptsAt(i)
        BY <1>3
    <2>2. PICK j \in DOMAIN log : q \in ReceiptsAt(j)
        BY <1>3
    <2>3. i \in Nat /\ j \in Nat
        BY LenProperties DEF TypeOK
    <2>4. PICK e \in log[i].entries : r = [sub |-> e.sub, first |-> log[i].base + e.at,
              chunk |-> log[i].id, slot |-> i, generation |-> log[i].generation]
        BY <2>1 DEF ReceiptsAt
    <2>5. PICK f \in log[j].entries : q = [sub |-> f.sub, first |-> log[j].base + f.at,
              chunk |-> log[j].id, slot |-> j, generation |-> log[j].generation]
        BY <2>2 DEF ReceiptsAt
    <2>6. r.slot = i /\ q.slot = j /\ r.sub = e.sub /\ q.sub = f.sub
        BY <2>4, <2>5
    <2>7. r \in found /\ q \in found /\ SameIdentity(q.sub, r.sub)
        BY <1>4 DEF SameIdentity, SameKey
    <2> HIDE DEF found
    <2>8. q.slot <= r.slot /\ r.slot <= q.slot
        BY <1>4, <2>7
    <2>9. i = j
        BY <2>3, <2>6, <2>8
    <2>10. e = f
        BY <1>4, <2>6, <2>9 DEF ReceiptInv, ChunksUnique
    <2> QED BY <2>4, <2>5, <2>9, <2>10
<1>5. DedupSound'
    <2> HIDE DEF receipts
    <2>1. \A r \in dedup' : \E i \in DOMAIN log' : r \in ReceiptsAt(i)'
        BY <1>1, <1>2, <1>3, LogKept
    <2>2. \A r, q \in dedup' : SameIdentity(r.sub, q.sub) => r = q
        BY <1>1, <1>4
    <2> QED BY <2>1, <2>2 DEF DedupSound
<1>6. ReceiptSound'
    <2>1. \A c \in Call : Quiet(c, call'[c])
        BY <1>1 DEF Quiet
    <2> QED BY <1>2, <2>1, ReceiptSoundKept
<1>7. OneAppend' /\ WriterAtEnd' /\ OpenAtEnd' /\ BufferedOnce' /\ CallsMatch'
    BY SMTT(20), <1>1, <1>2 DEF ReceiptInv, OneAppend, WriterAtEnd, OpenAtEnd, BufferedOnce, CallsMatch
<1>8. WellPlaced(open)' /\ WellPlaced(pending)' /\ WellPlaced(inflight)'
    BY <1>1 DEF ReceiptInv, WellPlaced
<1>9. WaitersMatch(open)' /\ WaitersMatch(pending)' /\ WaitersMatch(inflight)'
    BY <1>1 DEF ReceiptInv, WaitersMatch
<1> QED BY <1>2, <1>5, <1>6, <1>7, <1>8, <1>9 DEF ReceiptInv

\* A first owner on an empty log agrees with it.
LEMMA ReceiptInvInit == Init => ReceiptInv
<1> SUFFICES ASSUME Init PROVE ReceiptInv
    OBVIOUS
<1>1. OneAppend /\ WriterAtEnd /\ OpenAtEnd /\ BufferedOnce
    BY DEF Init, OneAppend, WriterAtEnd, OpenAtEnd, BufferedOnce, EmptyChunk, NoWork, LogEnd
<1>2. /\ WellPlaced(open) /\ WellPlaced(pending) /\ WellPlaced(inflight)
      /\ WaitersMatch(open) /\ WaitersMatch(pending) /\ WaitersMatch(inflight)
    BY DEF Init, WellPlaced, WaitersMatch, EmptyChunk, NoWork
<1>3. CallsMatch /\ DedupSound /\ ChunksUnique /\ DenseLog
    BY DEF Init, CallsMatch, DedupSound, ChunksUnique, DenseLog, IdleCall
<1>4. ReceiptSound
    BY DEF Init, ReceiptSound, IdleCall, Acknowledged
<1> QED BY <1>1, <1>2, <1>3, <1>4 DEF ReceiptInv

\* A step that leaves the log, the chunks, the dedup window and the parked calls
\* alone, and answers nobody, keeps the invariant.
LEMMA IdleStepInv ==
    ASSUME TypeOK, ReceiptInv, UNCHANGED <<log, writer, inflight, dedup, blocked>>,
           pc' = pc \/ (pc # "append" /\ pc' \notin {"append", "down"} /\ pc # "down"),
           open'.placed = open.placed, open'.base = open.base, open'.next = open.next,
           open'.records = open.records, pending'.placed = pending.placed,
           pending'.base = pending.base,
           \A c \in Call : Quiet(c, call'[c])
    PROVE  ReceiptInv'
<1>1. DenseLog' /\ ChunksUnique' /\ LogEnd' = LogEnd /\ LogMayGrow
    BY SameLog
<1>2. DedupSound' /\ ReceiptSound'
    BY <1>1, DedupKept, ReceiptSoundKept
<1>3. OneAppend' /\ WriterAtEnd' /\ OpenAtEnd' /\ BufferedOnce'
    BY <1>1 DEF ReceiptInv, OneAppend, WriterAtEnd, OpenAtEnd, BufferedOnce
<1>4. WellPlaced(open)' /\ WellPlaced(pending)' /\ WellPlaced(inflight)'
    BY DEF ReceiptInv, WellPlaced
<1>5. \A c \in Call : call'[c].sub = call[c].sub
    BY DEF Quiet
<1>6. WaitersMatch(open)' /\ WaitersMatch(pending)' /\ WaitersMatch(inflight)'
    BY <1>5, WaitersAreCalls DEF ReceiptInv, WaitersMatch
<1>7. CallsMatch'
    BY <1>5, BlockedTyped DEF ReceiptInv, CallsMatch, Quiet
<1> QED BY <1>1, <1>2, <1>3, <1>4, <1>6, <1>7 DEF ReceiptInv

\* Every step keeps the invariant.
LEMMA ReceiptInvNext == TypeOK /\ ReceiptInv /\ [Next]_vars => ReceiptInv'
<1> SUFFICES ASSUME TypeOK, ReceiptInv, [Next]_vars PROVE ReceiptInv'
    OBVIOUS
<1>q. call' = call => \A c \in Call : Quiet(c, call'[c])
    BY DEF Quiet
<1>u. \A c \in Call : Quiet(c, Told(c, "Unavailable", {}))
    <2>1. "Unavailable" \notin Acknowledged \cup {"idle"}
        BY DEF Acknowledged
    <2> QED BY <2>1, QuietTold
<1>1. ASSUME NEW c \in Call, NEW s \in Submission, HandleSubmit(c, s) PROVE ReceiptInv'
    <2>1. Asks(c, s)
        BY <1>1 DEF HandleSubmit, Asks, ReceiptInv, CallsMatch
    <2>2. QueueMatches(blocked)
        BY DEF QueueMatches, ReceiptInv, CallsMatch
    <2>3. blocked \in Seq([call : Call, sub : Submission])
        BY DEF TypeOK
    <2>4. pc = "wait" /\ pc' = "run" /\ admit(c, s, blocked)
        BY <1>1 DEF HandleSubmit
    <2>5. PICK queue \in Seq([call : Call, sub : Submission]) : queue = blocked
        BY <2>3
    <2>6. admit(c, s, queue) /\ QueueMatches(queue)
        BY <2>2, <2>4, <2>5
    <2> QED BY Zenon, <2>1, <2>4, <2>6, AdmitInv
<1>2. ASSUME NEW c \in Call, Cancel(c) PROVE ReceiptInv'
    <2>1. \A x \in Call : Quiet(x, call'[x])
        <3>1. "cancelled" \notin Acknowledged \cup {"idle"}
            BY DEF Acknowledged
        <3> QED BY <1>2, <3>1 DEF Cancel, Quiet, TypeOK, CallState
    <2>2. UNCHANGED <<log, writer, inflight, dedup, blocked, pc, open, pending>>
        BY <1>2 DEF Cancel, owner
    <2> QED BY <2>1, <2>2, IdleStepInv
<1>3. CASE HandleFlush
    BY <1>3, SealStepInv DEF HandleFlush
<1>4. CASE HandlesDropped
    <2>1. CASE seal_open(open) /\ open.placed # {} /\ pc' = "run" /\ UNCHANGED blocked
        BY <1>4, <2>1, SealStepInv DEF HandlesDropped
    <2>2. CASE blocked' = << >> /\ pc' = "stopped" /\ UNCHANGED <<open, pending>>
        <3>1. /\ UNCHANGED <<log, writer, inflight, dedup, call>> /\ pc = "wait"
            BY <1>4 DEF HandlesDropped
        <3>2. DenseLog' /\ ChunksUnique' /\ LogEnd' = LogEnd /\ LogMayGrow
            BY <3>1, SameLog
        <3>3. DedupSound' /\ ReceiptSound'
            BY <1>q, <3>1, <3>2, DedupKept, ReceiptSoundKept
        <3>4. OneAppend' /\ WriterAtEnd' /\ OpenAtEnd' /\ BufferedOnce'
            BY <2>2, <3>1, <3>2 DEF ReceiptInv, OneAppend, WriterAtEnd, OpenAtEnd, BufferedOnce
        <3>5. WellPlaced(open)' /\ WellPlaced(pending)' /\ WellPlaced(inflight)'
            BY <2>2, <3>1 DEF ReceiptInv, WellPlaced
        <3>6. WaitersMatch(open)' /\ WaitersMatch(pending)' /\ WaitersMatch(inflight)'
            BY <2>2, <3>1 DEF ReceiptInv, WaitersMatch
        <3>7. CallsMatch'
            BY <2>2, <3>1 DEF ReceiptInv, CallsMatch
        <3> QED BY <3>2, <3>3, <3>4, <3>5, <3>6, <3>7 DEF ReceiptInv
    <2> QED BY <1>4, <2>1, <2>2 DEF HandlesDropped
<1>5. CASE Await
    BY <1>5, <1>q, IdleStepInv DEF Await
<1>6. CASE SealOnAge
    BY <1>6, SealStepInv DEF SealOnAge, age_due
<1>7. CASE IssueAppend
    <2>1. /\ pc = "run" /\ pc' = "append" /\ inflight' = pending /\ pending' = NoWork
          /\ pending.placed # {} /\ ~writer.poisoned /\ pending.base = writer.next
          /\ writer' = [writer EXCEPT !.poisoned = TRUE]
          /\ UNCHANGED <<log, open, blocked, dedup, call>>
        BY <1>7 DEF IssueAppend
    <2>2. DenseLog' /\ ChunksUnique' /\ LogEnd' = LogEnd /\ LogMayGrow
        BY <2>1, SameLog
    <2>3. DedupSound' /\ ReceiptSound'
        BY <1>q, <2>1, <2>2, DedupKept, ReceiptSoundKept
    <2>4. writer'.poisoned
        BY <2>1 DEF TypeOK
    <2>5. OneAppend' /\ WriterAtEnd'
        BY <2>1, <2>2, <2>4 DEF ReceiptInv, OneAppend, WriterAtEnd, NoWork
    <2>6. OpenAtEnd' /\ BufferedOnce' /\ CallsMatch'
        BY <2>1 DEF ReceiptInv, OpenAtEnd, BufferedOnce, CallsMatch, NoWork
    <2>7. WellPlaced(open)' /\ WellPlaced(pending)' /\ WellPlaced(inflight)'
        BY <2>1 DEF ReceiptInv, WellPlaced, NoWork
    <2>8. WaitersMatch(open)' /\ WaitersMatch(pending)' /\ WaitersMatch(inflight)'
        BY <2>1 DEF ReceiptInv, WaitersMatch, NoWork
    <2> QED BY <2>2, <2>3, <2>5, <2>6, <2>7, <2>8 DEF ReceiptInv
<1>8. CASE AppendRefused
    <2>1. log' = log /\ writer' = writer /\ PoisonDrain(pending) /\ pc = "run" /\ pc' \in {"run", "stopped"}
        BY <1>8 DEF AppendRefused, PoisonDrain
    <2>2. DenseLog' /\ ChunksUnique' /\ LogEnd' = LogEnd /\ LogMayGrow
        BY <2>1, SameLog
    <2>3. WriterAtEnd'
        BY <2>1, <2>2 DEF ReceiptInv, WriterAtEnd
    <2> QED BY <2>1, <2>2, <2>3, PoisonDrainInv
<1>9. CASE DrainOne
    <2> DEFINE S == [call : Call, sub : Submission]
    <2>1. blocked \in Seq(S) /\ blocked # << >>
        BY <1>9 DEF DrainOne, TypeOK
    <2> HIDE DEF S
    <2>2. /\ Head(blocked) = blocked[1] /\ Tail(blocked) \in Seq(S) /\ Len(Tail(blocked)) = Len(blocked) - 1
          /\ Len(blocked) \in Nat \ {0} /\ DOMAIN blocked = 1..Len(blocked)
          /\ \A i \in 1..Len(Tail(blocked)) : Tail(blocked)[i] = blocked[i + 1]
        BY <2>1, HeadTailProperties, LenProperties, EmptySeq
    <2>3. DOMAIN Tail(blocked) = 1..Len(Tail(blocked))
        BY <2>2, LenProperties
    <2>4. PICK c \in Call, s \in Submission, queue \in Seq(S) :
             c = blocked[1].call /\ s = blocked[1].sub /\ queue = Tail(blocked)
        <3>1. 1 \in DOMAIN blocked
            BY <2>2
        <3> QED BY Zenon, <2>2, <3>1, BlockedTyped
    <2>5. \A i \in DOMAIN blocked : Submitted(blocked[i].call, blocked[i].sub)
        BY DEF ReceiptInv, CallsMatch, Submitted
    <2>6. QueueMatches(queue)
        <3>1. \A i \in DOMAIN queue : i + 1 \in DOMAIN blocked /\ queue[i] = blocked[i + 1]
            BY <2>2, <2>3, <2>4
        <3>2. \A i \in DOMAIN queue : Submitted(queue[i].call, queue[i].sub)
            BY <2>5, <3>1
        <3> QED BY <3>2 DEF QueueMatches, Submitted
    <2>7. Asks(c, s)
        <3>1. call[c].sub = {s}
            <4>1. 1 \in DOMAIN blocked
                BY <2>2
            <4>2. Submitted(c, s)
                BY <2>4, <2>5, <4>1
            <4> QED BY <4>2 DEF Submitted
        <3>2. call[c].status # "idle"
            BY <3>1 DEF ReceiptInv, CallsMatch
        <3> QED BY <3>1, <3>2 DEF Asks
    <2>8. admit(c, s, queue) /\ pc = "drain" /\ pc' = "drain"
        BY <1>9, <2>2, <2>4 DEF DrainOne
    <2> QED BY Zenon, <2>4, <2>6, <2>7, <2>8, AdmitInv DEF S
<1>10. CASE DrainDone
    <2>1. UNCHANGED <<log, writer, inflight, dedup>> /\ pc = "drain"
        BY <1>10 DEF DrainDone
    <2>2. CASE pc' = "run" /\ UNCHANGED <<open, pending, blocked, call>>
        BY <1>q, <2>1, <2>2, IdleStepInv
    <2>3. CASE /\ pc' = "stopped" /\ open' = EmptyChunk /\ pending' = NoWork /\ blocked' = << >>
               /\ call' = [c \in Call |-> Told(c, "Unavailable", {})]
        <3>1. DenseLog' /\ ChunksUnique' /\ LogEnd' = LogEnd /\ LogMayGrow
            BY SMTT(20), <2>1, SameLog
        <3>2. WellPlaced(inflight)' /\ OneAppend' /\ WriterAtEnd' /\ inflight'.placed = {}
            BY <2>1, <2>3, <3>1 DEF ReceiptInv, WellPlaced, OneAppend, WriterAtEnd, NoWork
        <3>3. \A c \in Call : Quiet(c, call'[c])
            BY <1>u, <2>3
        <3>4. DedupSound' /\ ReceiptSound'
            BY <2>1, <3>1, <3>3, DedupKept, ReceiptSoundKept
        <3>5. OpenAtEnd' /\ BufferedOnce' /\ WellPlaced(open)' /\ WellPlaced(pending)'
            BY <2>3 DEF OpenAtEnd, BufferedOnce, WellPlaced, EmptyChunk, NoWork
        <3>6. WaitersMatch(open)' /\ WaitersMatch(pending)' /\ WaitersMatch(inflight)'
            BY <2>3, <3>2 DEF WaitersMatch, EmptyChunk, NoWork
        <3>7. CallsMatch'
            BY <2>3, <3>3 DEF ReceiptInv, CallsMatch, Quiet
        <3> QED BY <3>1, <3>2, <3>4, <3>5, <3>6, <3>7 DEF ReceiptInv
    <2> QED BY <1>10, <2>2, <2>3 DEF DrainDone
<1>11. CASE AppendAcknowledged
    BY <1>11, AcknowledgedInv
<1>12. CASE AppendUncertain
    <2>1. LogMayGrow /\ PoisonDrain(inflight) /\ writer' = writer /\ pc = "append" /\ pc' \in {"run", "stopped"}
        BY <1>12 DEF AppendUncertain, PoisonDrain, LogMayGrow
    <2>2. DenseLog' /\ ChunksUnique'
        <3>1. CASE log' = log
            BY <3>1, SameLog
        <3>2. CASE log' = Append(log, AsChunk(inflight))
            BY <2>1, <3>2, AppendFits
        <3> QED BY <2>1, <3>1, <3>2 DEF LogMayGrow
    <2>3. WriterAtEnd'
        BY <2>1 DEF ReceiptInv, OneAppend, WriterAtEnd
    <2> QED BY SMTT(20), <2>1, <2>2, <2>3, PoisonDrainInv
<1>13. CASE Tick
    <2>1. /\ UNCHANGED <<log, writer, inflight, dedup, blocked, pc, call>>
          /\ open'.placed = open.placed /\ open'.base = open.base /\ open'.next = open.next
          /\ open'.records = open.records /\ pending'.placed = pending.placed
          /\ pending'.base = pending.base
        BY <1>13 DEF Tick, TypeOK, OpenChunk, SealedWork
    <2> QED BY <1>q, <2>1, IdleStepInv
<1>14. CASE Crash
    <2>1. /\ open' = EmptyChunk /\ pending' = NoWork /\ inflight' = NoWork /\ blocked' = << >>
          /\ dedup' = {} /\ pc' = "down" /\ call' = [c \in Call |-> Told(c, "Unavailable", {})]
          /\ \/ log' = log
             \/ pc = "append" /\ log' = Append(log, AsChunk(inflight))
        BY <1>14 DEF Crash
    <2>2. DenseLog' /\ ChunksUnique' /\ LogMayGrow
        <3>1. CASE log' = log
            BY <3>1, SameLog
        <3>2. CASE pc = "append" /\ log' = Append(log, AsChunk(inflight))
            BY <3>2, AppendFits DEF LogMayGrow
        <3> QED BY <2>1, <3>1, <3>2
    <2>3. DedupSound' /\ WriterAtEnd'
        BY <2>1 DEF DedupSound, WriterAtEnd
    <2>4. \A c \in Call : Quiet(c, call'[c])
        BY <1>u, <2>1
    <2> QED BY <2>1, <2>2, <2>3, <2>4, EmptiedInv
<1>15. CASE Recover
    BY <1>15, RecoverInv
<1>16. CASE UNCHANGED vars
    BY <1>q, <1>16, IdleStepInv DEF vars, owner
<1> QED BY <1>1, <1>2, <1>3, <1>4, <1>5, <1>6, <1>7, <1>8, <1>9, <1>10, <1>11, <1>12, <1>13,
           <1>14, <1>15, <1>16 DEF Next, ActorStep, HolylogAnswers

\* The bookkeeping of every owner agrees with the log: the inductive invariant.
THEOREM BookkeepingAgrees == Spec => []ReceiptInv
BY TypeCorrect, ReceiptInvInit, ReceiptInvNext, PTL DEF Spec

\* Every receipt a caller holds names the place of its submission in the log, for
\* every policy, every recovery bound and any number of callers and owners.
THEOREM ReceiptsAreTrue == Spec => []ReceiptSound
<1>1. ReceiptInv => ReceiptSound
    BY DEF ReceiptInv
<1> QED BY <1>1, BookkeepingAgrees, PTL

\* Offsets in the log are dense whatever appends were refused, lost or late.
THEOREM OffsetsAreDense == Spec => []DenseLog
<1>1. ReceiptInv => DenseLog
    BY DEF ReceiptInv
<1> QED BY <1>1, BookkeepingAgrees, PTL

=============================================================================
