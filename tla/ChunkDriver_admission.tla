----------------------- MODULE ChunkDriver_admission -----------------------
(***************************************************************************)
(* Lemmas about the invariant of ChunkDriver that relates its bookkeeping  *)
(* to the committed log: what a growing log keeps, and that handling one   *)
(* submission, new or parked, keeps the invariant.                         *)
(***************************************************************************)
EXTENDS ChunkDriver_types

-----------------------------------------------------------------------------
\* Receipts and offsets

\* The log as it was, or with the chunk in flight at its end.
LogMayGrow == log' \in {log, Append(log, AsChunk(inflight))}

\* A log that grows keeps its chunks, and so what receipts stand for.
LEMMA LogKept ==
    ASSUME TypeOK, LogMayGrow
    PROVE  \A i \in DOMAIN log : /\ i \in DOMAIN log' /\ log'[i] = log[i]
                                 /\ ReceiptsAt(i)' = ReceiptsAt(i)
<1>1. CASE log' = log
    BY <1>1 DEF ReceiptsAt
<1>2. CASE log' = Append(log, AsChunk(inflight))
    <2>1. AsChunk(inflight) \in Chunk /\ log \in Seq(Chunk)
        BY AppendType DEF TypeOK
    <2>2. \A i \in 1..Len(log) : log'[i] = log[i] /\ i \in DOMAIN log'
        BY <1>2, <2>1, AppendProperties, LenProperties
    <2>3. DOMAIN log = 1..Len(log)
        BY <2>1, LenProperties
    <2> QED BY <2>2, <2>3 DEF ReceiptsAt
<1> QED BY <1>1, <1>2 DEF LogMayGrow

\* The chunk in flight fits the end of the log: appending it keeps offsets dense
\* and identities unique within a chunk, and its receipts are true.
LEMMA AppendFits ==
    ASSUME TypeOK, ReceiptInv, pc = "append", log' = Append(log, AsChunk(inflight)),
           NEW slot, slot = Len(log) + 1
    PROVE  /\ DenseLog' /\ ChunksUnique'
           /\ LogEnd' = inflight.base + inflight.records
           /\ slot \in DOMAIN log'
           /\ ReceiptsAt(slot)' = {ReceiptOf(p, inflight, slot) : p \in inflight.placed}
<1> DEFINE n == slot - 1
<1>1. AsChunk(inflight) \in Chunk /\ log \in Seq(Chunk)
    BY AppendType DEF TypeOK
<1>2. /\ n \in Nat /\ slot = n + 1 /\ DOMAIN log = 1..n
      /\ n = Len(log) /\ log' \in Seq(Chunk) /\ Len(log') = slot /\ DOMAIN log' = 1..slot
      /\ \A i \in 1..n : log'[i] = log[i]
      /\ log'[slot] = AsChunk(inflight)
    BY <1>1, AppendProperties, LenProperties
<1> HIDE DEF n
<1>3. inflight.base = LogEnd
    BY DEF ReceiptInv, WriterAtEnd
<1>4. inflight.base = IF n = 0 THEN 0 ELSE log[n].base + log[n].records
    BY <1>1, <1>2, <1>3, EmptySeq DEF LogEnd
<1>5. DenseLog'
    <2> SUFFICES ASSUME NEW i \in 1..slot
                 PROVE log'[i].base = IF i = 1 THEN 0 ELSE log'[i - 1].base + log'[i - 1].records
        BY <1>2 DEF DenseLog
    <2>1. CASE i \in 1..n
        <3>1. log[i].base = IF i = 1 THEN 0 ELSE log[i - 1].base + log[i - 1].records
            BY Zenon, <1>2, <2>1 DEF ReceiptInv, DenseLog
        <3>2. i # 1 => i - 1 \in 1..n
            BY <1>2, <2>1
        <3> QED BY <1>2, <2>1, <3>1, <3>2
    <2>2. CASE i = slot
        <3>1. log'[i].base = inflight.base
            BY <1>2, <2>2 DEF AsChunk
        <3>2. n \in Nat /\ slot = n + 1 /\ \A j \in 1..n : log'[j] = log[j]
            BY <1>2
        <3>3. n # 0 => log'[n] = log[n]
            BY <3>2
        <3>4. n # 0 => log'[i - 1] = log[n]
            BY <2>2, <3>2, <3>3
        <3> QED BY <1>4, <2>2, <3>1, <3>2, <3>4
    <2> QED BY <1>2, <2>1, <2>2
<1>6. ChunksUnique'
    <2> SUFFICES ASSUME NEW i \in 1..slot, NEW e \in log'[i].entries, NEW f \in log'[i].entries,
                        SameIdentity(e.sub, f.sub)
                 PROVE e = f
        BY <1>2 DEF ChunksUnique
    <2>1. CASE i \in 1..n
        BY <1>2, <2>1 DEF ReceiptInv, ChunksUnique
    <2>2. CASE i = slot
        <3>1. log'[i].entries = {[sub |-> p.sub, at |-> p.at] : p \in inflight.placed}
            BY <1>2, <2>2 DEF AsChunk
        <3>2. PICK p \in inflight.placed, q \in inflight.placed :
                 e = [sub |-> p.sub, at |-> p.at] /\ f = [sub |-> q.sub, at |-> q.at]
            BY <3>1
        <3>3. p = q
            BY <3>2 DEF ReceiptInv, WellPlaced
        <3> QED BY <3>2, <3>3
    <2> QED BY <1>2, <2>1, <2>2
<1>7. LogEnd' = inflight.base + inflight.records
    <2>1. log' # << >>
        BY <1>2, EmptySeq
    <2> QED BY <1>2, <2>1 DEF LogEnd, AsChunk
<1>8. ReceiptsAt(slot)' = {ReceiptOf(p, inflight, slot) : p \in inflight.placed}
    <2>1. \A p \in inflight.placed : p.first = inflight.base + p.at
        BY DEF ReceiptInv, WellPlaced
    <2>2. ReceiptsAt(slot)' = {[sub |-> e.sub, first |-> inflight.base + e.at, chunk |-> inflight.id,
                                 slot |-> slot, generation |-> generation] :
                                    e \in {[sub |-> p.sub, at |-> p.at] : p \in inflight.placed}}
        BY <1>2 DEF ReceiptsAt, AsChunk
    <2>3. \A p \in inflight.placed : LET e == [sub |-> p.sub, at |-> p.at] IN
            [sub |-> e.sub, first |-> inflight.base + e.at, chunk |-> inflight.id,
             slot |-> slot, generation |-> generation] = ReceiptOf(p, inflight, slot)
        BY <2>1 DEF ReceiptOf
    <2> DEFINE F(e) == [sub |-> e.sub, first |-> inflight.base + e.at, chunk |-> inflight.id,
                        slot |-> slot, generation |-> generation]
               E == {[sub |-> p.sub, at |-> p.at] : p \in inflight.placed}
    <2>4. \A p \in inflight.placed : \E e \in E : F(e) = ReceiptOf(p, inflight, slot)
        BY Zenon, <2>3
    <2>5. \A e \in E : \E p \in inflight.placed : F(e) = ReceiptOf(p, inflight, slot)
        BY <2>3
    <2>6. ReceiptsAt(slot)' = {F(e) : e \in E}
        BY <2>2
    <2> HIDE DEF F, E
    <2> QED BY <2>4, <2>5, <2>6
<1> QED BY <1>2, <1>5, <1>6, <1>7, <1>8

\* What a step may do to a call it does not acknowledge: the submission stays,
\* and an idle or acknowledged call stays as it is.
Quiet(c, new) ==
    /\ new.sub = call[c].sub
    /\ new.status \in Acknowledged \cup {"idle"} => new = call[c]

\* Telling a call that something failed is quiet, and so is leaving it alone.
LEMMA QuietTold ==
    ASSUME TypeOK, NEW c \in Call, NEW status, status \notin Acknowledged \cup {"idle"}
    PROVE  Quiet(c, Told(c, status, {})) /\ Quiet(c, call[c])
<1>1. call[c] \in [status : Status, sub : SUBSET Submission, receipt : SUBSET Receipt]
    BY DEF TypeOK, CallState
<1> QED BY <1>1 DEF Quiet, Told

\* A call c is acknowledged with a receipt that the log bears out.
HasReceipt(c) ==
    \E i \in DOMAIN log : \E r \in ReceiptsAt(i) :
        call[c].receipt = {r} /\ call[c].sub = {r.sub}

\* Receipts stay true in a step that keeps the log and gives out only true ones.
LEMMA ReceiptSoundKept ==
    ASSUME TypeOK, ReceiptInv, LogMayGrow,
           \A c \in Call : Quiet(c, call'[c]) \/ call'[c].status \notin Acknowledged \/ HasReceipt(c)'
    PROVE  ReceiptSound'
<1> SUFFICES ASSUME NEW c \in Call, call'[c].status \in Acknowledged PROVE HasReceipt(c)'
    BY DEF ReceiptSound, HasReceipt
<1>1. CASE call'[c] = call[c]
    <2>1. HasReceipt(c)
        BY <1>1 DEF ReceiptInv, ReceiptSound, HasReceipt
    <2>2. PICK i \in DOMAIN log : \E r \in ReceiptsAt(i) :
             call[c].receipt = {r} /\ call[c].sub = {r.sub}
        BY <2>1 DEF HasReceipt
    <2>3. i \in DOMAIN log' /\ ReceiptsAt(i)' = ReceiptsAt(i)
        BY LogKept
    <2> QED BY <1>1, <2>2, <2>3 DEF HasReceipt
<1> QED BY <1>1 DEF Quiet

\* A dedup window that keeps its receipts stays true.
LEMMA DedupKept ==
    ASSUME TypeOK, ReceiptInv, LogMayGrow, dedup' = dedup
    PROVE  DedupSound'
<1>1. \A r \in dedup : \E i \in DOMAIN log : r \in ReceiptsAt(i)
    BY DEF ReceiptInv, DedupSound
<1>2. \A r \in dedup' : \E i \in DOMAIN log' : r \in ReceiptsAt(i)'
    BY <1>1, LogKept
<1>3. \A r, q \in dedup' : SameIdentity(r.sub, q.sub) => r = q
    BY DEF ReceiptInv, DedupSound
<1> QED BY <1>2, <1>3 DEF DedupSound

\* Placements name calls.
LEMMA WaitersAreCalls ==
    ASSUME TypeOK
    PROVE  \A p \in open.placed \cup pending.placed \cup inflight.placed :
              p.waiters \subseteq Call /\ p.sub \in Submission /\ p.first \in Nat /\ p.at \in Nat
BY DEF TypeOK, OpenChunk, SealedWork, Placed

\* So do parked submissions.
LEMMA BlockedTyped ==
    ASSUME TypeOK
    PROVE  \A i \in DOMAIN blocked : blocked[i].call \in Call /\ blocked[i].sub \in Submission
<1> DEFINE S == [call : Call, sub : Submission]
<1>1. blocked \in Seq(S)
    BY DEF TypeOK
<1> HIDE DEF S
<1>2. \A i \in DOMAIN blocked : blocked[i] \in S
    BY <1>1, LenProperties, ElementOfSeq
<1> QED BY <1>2 DEF S

\* A step in which the owner lets go of all it has keeps the invariant, if the
\* log only grew by the chunk in flight.
LEMMA EmptiedInv ==
    ASSUME TypeOK, ReceiptInv, LogMayGrow, DenseLog', ChunksUnique', DedupSound', WriterAtEnd',
           open' = EmptyChunk, pending' = NoWork, inflight' = NoWork, blocked' = << >>,
           pc' # "append", \A c \in Call : Quiet(c, call'[c])
    PROVE  ReceiptInv'
<1>1. ReceiptSound'
    BY ReceiptSoundKept
<1>2. CallsMatch'
    BY DEF ReceiptInv, CallsMatch, Quiet
<1>3. OneAppend' /\ OpenAtEnd' /\ BufferedOnce'
    BY DEF OneAppend, OpenAtEnd, BufferedOnce, EmptyChunk, NoWork
<1>4. /\ WellPlaced(open)' /\ WellPlaced(pending)' /\ WellPlaced(inflight)'
      /\ WaitersMatch(open)' /\ WaitersMatch(pending)' /\ WaitersMatch(inflight)'
    BY DEF WellPlaced, WaitersMatch, EmptyChunk, NoWork
<1> QED BY <1>1, <1>2, <1>3, <1>4 DEF ReceiptInv

\* While the log stays, so do its shape and its end.
LEMMA SameLog ==
    ASSUME ReceiptInv, log' = log
    PROVE  DenseLog' /\ ChunksUnique' /\ LogEnd' = LogEnd /\ LogMayGrow
BY DEF ReceiptInv, DenseLog, ChunksUnique, LogEnd, LogMayGrow

\* A verdict of Place means that the identity is not buffered yet, a verdict of
\* Join that a placement has the very submission, and one of Replay that the
\* dedup window has it.
LEMMA VerdictMeans ==
    ASSUME NEW s
    PROVE  /\ Verdict(s) = "Place" => Buffered(s) = {}
           /\ Verdict(s) = "Join" => \E p \in Buffered(s) : p.sub = s
           /\ Verdict(s) = "Replay" => \E r \in dedup : r.sub = s
BY DEF Verdict

\* Placing keeps offsets and identities of the open chunk in order.
LEMMA PlaceKeeps ==
    ASSUME TypeOK, ReceiptInv, NEW c \in Call, NEW s \in Submission, Buffered(s) = {},
           NEW o, o = WithPlaced(c, s)
    PROVE  /\ o.placed # {} /\ o.next = o.base + o.records
           /\ WellPlaced(o)
           /\ \A p, q \in o.placed \cup pending.placed : SameIdentity(p.sub, q.sub) => p = q
           /\ \A p \in o.placed : p \in open.placed \/ (p.sub = s /\ p.waiters = {c})
<1> DEFINE first == IF open.placed = {} THEN writer.next ELSE open.next
           new == [sub |-> s, first |-> first, at |-> open.records, waiters |-> {c}]
<1>1. /\ o.placed = open.placed \cup {new}
      /\ o.base = IF open.placed = {} THEN first ELSE open.base
      /\ o.next = first + RecordCount[s.payload]
      /\ o.records = open.records + RecordCount[s.payload]
    BY DEF WithPlaced
<1>2. open.records \in Nat /\ open.base \in Nat /\ open.next \in Nat /\ writer.next \in Nat
    BY DEF TypeOK, OpenChunk
<1>3. RecordCount[s.payload] \in Nat
    BY DataAssumption DEF Submission
<1>4. first = o.base + open.records
    BY <1>1, <1>2 DEF ReceiptInv, OpenAtEnd
<1>5. new.sub = s /\ new.first = first /\ new.at = open.records /\ new.waiters = {c}
    OBVIOUS
<1> HIDE DEF first, new
<1>6. o.base \in Nat
    BY <1>1, <1>2 DEF first
<1>7. o.next = o.base + o.records
    BY <1>1, <1>2, <1>3, <1>4, <1>6
<1>8. \A p \in open.placed \cup pending.placed : ~SameIdentity(p.sub, s)
    BY DEF Buffered
<1>9. \A p \in open.placed \cup pending.placed : ~SameIdentity(s, p.sub)
    BY <1>8 DEF SameIdentity, SameKey
<1>10. SameIdentity(s, s)
    BY DEF SameIdentity, SameKey
<1>11. \A p, q \in o.placed \cup pending.placed : SameIdentity(p.sub, q.sub) => p = q
    BY <1>1, <1>5, <1>8, <1>9 DEF ReceiptInv, BufferedOnce
<1>12. ASSUME NEW p \in o.placed PROVE p.first = o.base + p.at
    <2>1. CASE p = new
        BY <1>4, <1>5, <2>1
    <2>2. CASE p \in open.placed
        <3>1. o.base = open.base /\ p.first = open.base + p.at
            BY <1>1, <2>2 DEF ReceiptInv, WellPlaced
        <3> QED BY <3>1
    <2> QED BY <1>1, <2>1, <2>2
<1> QED BY <1>1, <1>5, <1>7, <1>11, <1>12 DEF WellPlaced

\* Call c is new, or was parked with submission s.
Asks(c, s) ==
    \/ call[c].status = "idle" /\ call[c].sub = {}
    \/ call[c].status # "idle" /\ call[c].sub = {s}

\* What an answer does: the call being handled now has submission s, and hears
\* status unless its caller is gone; nobody else is acknowledged.
LEMMA AnswerMeans ==
    ASSUME TypeOK, NEW c \in Call, NEW s \in Submission, Asks(c, s),
           NEW status \in Status \ {"idle"}, NEW receipts, NEW waiters,
           NEW told, told \notin Acknowledged \cup {"idle"},
           call' = Answer(c, Reply(c, s, status, receipts), waiters, told)
    PROVE  /\ \A x \in Call : x # c => Quiet(x, call'[x])
           /\ call'[c].sub = {s} /\ call'[c].status # "idle"
           /\ \/ call'[c].status = status /\ call'[c].receipt = receipts
              \/ call'[c].status = "cancelled"
<1>1. ASSUME NEW x \in Call, x # c PROVE Quiet(x, call'[x])
    <2>1. call'[x] = call[x] \/ call'[x] = Told(x, told, {})
        BY <1>1 DEF Answer
    <2> QED BY <2>1, QuietTold
<1>2. call'[c] = Reply(c, s, status, receipts)
    BY DEF Answer
<1> QED BY <1>1, <1>2 DEF Reply, Asks

\* The waiters and the parked calls after submission s of call c was handled are
\* the old ones and perhaps c.
Submitted(c, s) == call[c].sub = {s}

Waits(c, s) ==
    \A p \in open'.placed \cup pending'.placed : \A x \in p.waiters :
        (x = c /\ p.sub = s) \/ (x \in Call /\ Submitted(x, p.sub))

Parks(c, s) ==
    \A i \in DOMAIN blocked' :
        \/ blocked'[i] = [call |-> c, sub |-> s]
        \/ call[blocked'[i].call].sub = {blocked'[i].sub} /\ blocked'[i].call \in Call

\* A step that handles submission s of call c and leaves the log alone keeps the
\* invariant if every waiter and every parked call is c or was one before.
LEMMA AnsweredInv ==
    ASSUME TypeOK, ReceiptInv, NEW c \in Call, NEW s \in Submission, Asks(c, s),
           call' \in [Call -> CallState],
           \A x \in Call : x # c => Quiet(x, call'[x]),
           call'[c].sub = {s}, call'[c].status # "idle",
           Parks(c, s), Waits(c, s),
           inflight' = inflight
    PROVE  /\ CallsMatch'
           /\ WaitersMatch(open)' /\ WaitersMatch(pending)' /\ WaitersMatch(inflight)'
<1>1. \A x \in Call : call[x].sub # {} => call'[x].sub = call[x].sub
    BY Zenon DEF Quiet, Asks
<1>2. CallsMatch'
    <2>1. ASSUME NEW x \in Call, call'[x].status = "idle" PROVE call'[x].sub = {}
        BY <2>1 DEF Quiet, ReceiptInv, CallsMatch
    <2>2. \A i \in DOMAIN blocked' : call'[blocked'[i].call].sub = {blocked'[i].sub}
        BY <1>1 DEF Parks
    <2> QED BY <2>1, <2>2 DEF CallsMatch
<1>3. \A p \in open'.placed \cup pending'.placed : \A x \in p.waiters : call'[x].sub = {p.sub}
    BY <1>1 DEF Waits, Submitted
<1>4. \A p \in inflight'.placed : \A x \in p.waiters : call'[x].sub = {p.sub}
    BY <1>1, WaitersAreCalls DEF ReceiptInv, WaitersMatch
<1> QED BY <1>2, <1>3, <1>4 DEF WaitersMatch

\* What the callers hear in a step that handles submission s of call c.
Heard(c, s) ==
    /\ \A x \in Call : x # c => Quiet(x, call'[x])
    /\ call'[c].sub = {s} /\ call'[c].status # "idle"
    /\ call'[c].status \in Acknowledged => HasReceipt(c)'

\* An answer that is no acknowledgement is heard.
LEMMA AnswerHeard ==
    ASSUME TypeOK, NEW c \in Call, NEW s \in Submission, Asks(c, s),
           NEW status \in Rejection \cup Waiting, NEW waiters,
           NEW told \in {"", "Unavailable"},
           call' = Answer(c, Reply(c, s, status, {}), waiters, told)
    PROVE  Heard(c, s)
<1>1. told \notin Acknowledged \cup {"idle"} /\ status \in Status \ {"idle"}
      /\ status \notin Acknowledged /\ "cancelled" \notin Acknowledged
    BY Zenon DEF Acknowledged, Rejection, Waiting, Status
<1>2. /\ \A x \in Call : x # c => Quiet(x, call'[x])
      /\ call'[c].sub = {s} /\ call'[c].status # "idle"
      /\ \/ call'[c].status = status /\ call'[c].receipt = {}
         \/ call'[c].status = "cancelled"
    BY Zenon, <1>1, AnswerMeans
<1>3. call'[c].status \notin Acknowledged
    BY Zenon, <1>1, <1>2
<1> QED BY Zenon, <1>2, <1>3 DEF Heard

\* The calls of queue submitted what is in it.
QueueMatches(queue) == \A i \in DOMAIN queue : call[queue[i].call].sub = {queue[i].sub}

\* What handling a submission keeps of the chunks that are not in flight.
Kept == WellPlaced(open)' /\ WellPlaced(pending)' /\ OpenAtEnd' /\ BufferedOnce'

\* The waiters of the chunks not in flight are calls that submitted what they wait for.
LEMMA WaitersSubmitted ==
    ASSUME TypeOK, ReceiptInv
    PROVE  \A p \in open.placed \cup pending.placed : \A x \in p.waiters :
              x \in Call /\ Submitted(x, p.sub)
BY WaitersAreCalls DEF ReceiptInv, WaitersMatch, Submitted

\* Joining the waiters of a buffered submission keeps the chunks.
LEMMA JoinKeeps ==
    ASSUME TypeOK, ReceiptInv, NEW c \in Call, NEW s \in Submission,
           Verdict(s) = "Join", JoinWaiter(c, s)
    PROVE  Kept /\ Waits(c, s)
<1> DEFINE joined(placed) == {IF SameIdentity(p.sub, s)
                              THEN [p EXCEPT !.waiters = @ \cup {c}] ELSE p : p \in placed}
<1>1. open' = [open EXCEPT !.placed = joined(open.placed)]
      /\ pending' = [pending EXCEPT !.placed = joined(pending.placed)]
    BY Zenon DEF JoinWaiter
<1>3. PICK b \in open.placed \cup pending.placed : b.sub = s
    BY VerdictMeans DEF Buffered
<1>4. \A p \in open.placed \cup pending.placed : SameIdentity(p.sub, s) => p = b
    BY <1>3 DEF ReceiptInv, BufferedOnce
<1> DEFINE J(p) == IF SameIdentity(p.sub, s) THEN [p EXCEPT !.waiters = @ \cup {c}] ELSE p
<1>5. \A p \in open.placed \cup pending.placed :
         /\ J(p).sub = p.sub /\ J(p).first = p.first /\ J(p).at = p.at
         /\ \A x \in J(p).waiters : x \in p.waiters \/ (x = c /\ p.sub = s)
    <2>1. \A p \in open.placed \cup pending.placed : p \in Placed
        BY DEF TypeOK, OpenChunk, SealedWork
    <2>2. ASSUME NEW p \in open.placed \cup pending.placed, SameIdentity(p.sub, s)
          PROVE /\ J(p).sub = p.sub /\ J(p).first = p.first /\ J(p).at = p.at
                /\ J(p).waiters = p.waiters \cup {c} /\ p.sub = s
        BY <1>3, <1>4, <2>1, <2>2 DEF Placed
    <2>3. ASSUME NEW p \in open.placed \cup pending.placed, ~SameIdentity(p.sub, s)
          PROVE J(p) = p
        BY <2>3
    <2> HIDE DEF J
    <2>4. TAKE p \in open.placed \cup pending.placed
    <2>5. CASE SameIdentity(p.sub, s)
        BY <2>2, <2>5
    <2>6. CASE ~SameIdentity(p.sub, s)
        <3>1. J(p) = p
            BY <2>3, <2>6
        <3> QED BY <3>1, Zenon
    <2> QED BY <2>5, <2>6
<1>6. \A placed : joined(placed) = {J(p) : p \in placed}
    OBVIOUS
<1> HIDE DEF joined, J
<1>7. /\ open'.placed = {J(p) : p \in open.placed} /\ open'.base = open.base
      /\ open'.next = open.next /\ open'.records = open.records
      /\ pending'.placed = {J(p) : p \in pending.placed} /\ pending'.base = pending.base
    BY Zenon, <1>1, <1>6 DEF TypeOK, OpenChunk, SealedWork
<1>8. Kept
    <2>1. WellPlaced(open)' /\ WellPlaced(pending)'
        BY <1>5, <1>7 DEF ReceiptInv, WellPlaced
    <2>2. OpenAtEnd'
        BY <1>7 DEF ReceiptInv, OpenAtEnd
    <2>3. BufferedOnce'
        BY <1>5, <1>7 DEF ReceiptInv, BufferedOnce
    <2> QED BY <2>1, <2>2, <2>3 DEF Kept
<1>9. Waits(c, s)
    <2> SUFFICES ASSUME NEW p \in open'.placed \cup pending'.placed, NEW x \in p.waiters
                 PROVE (x = c /\ p.sub = s) \/ (x \in Call /\ Submitted(x, p.sub))
        BY DEF Waits
    <2>1. PICK q \in open.placed \cup pending.placed : p = J(q)
        BY <1>7
    <2>2. p.sub = q.sub /\ (x \in q.waiters \/ (x = c /\ q.sub = s))
        BY <1>5, <2>1
    <2> QED BY WaitersSubmitted, <2>2
<1> QED BY <1>8, <1>9

\* Parking a submission at the end of the queue parks it and nobody else.
LEMMA ParkParks ==
    ASSUME NEW c \in Call, NEW s \in Submission,
           NEW queue \in Seq([call : Call, sub : Submission]),
           \A i \in DOMAIN queue : queue[i].call \in Call /\ call[queue[i].call].sub = {queue[i].sub},
           blocked' = Append(queue, [call |-> c, sub |-> s])
    PROVE  Parks(c, s)
<1>2. [call |-> c, sub |-> s] \in [call : Call, sub : Submission]
    OBVIOUS
<1>3. /\ DOMAIN blocked' = 1..(Len(queue) + 1) /\ Len(queue) \in Nat
      /\ \A i \in 1..Len(queue) : blocked'[i] = queue[i]
      /\ blocked'[Len(queue) + 1] = [call |-> c, sub |-> s]
      /\ DOMAIN queue = 1..Len(queue)
    <2> DEFINE S == [call : Call, sub : Submission]
               e == [call |-> c, sub |-> s]
    <2>0. queue \in Seq(S) /\ e \in S /\ blocked' = Append(queue, e)
        BY <1>2
    <2> HIDE DEF S, e
    <2>1. Len(queue) \in Nat /\ DOMAIN queue = 1..Len(queue)
        BY <2>0, LenProperties
    <2>2. blocked' \in Seq(S) /\ Len(blocked') = Len(queue) + 1
        BY <2>0, AppendProperties
    <2>3. DOMAIN blocked' = 1..(Len(queue) + 1)
        BY <2>2, LenProperties
    <2>4. /\ \A i \in 1..Len(queue) : blocked'[i] = queue[i]
          /\ blocked'[Len(queue) + 1] = e
        BY <2>0, AppendProperties
    <2> QED BY <2>1, <2>3, <2>4 DEF e
<1> SUFFICES ASSUME NEW i \in DOMAIN blocked'
             PROVE \/ blocked'[i] = [call |-> c, sub |-> s]
                   \/ call[blocked'[i].call].sub = {blocked'[i].sub} /\ blocked'[i].call \in Call
    BY Zenon DEF Parks
<1>5. CASE i = Len(queue) + 1
    BY <1>3, <1>5
<1>6. CASE i \in 1..Len(queue)
    BY <1>3, <1>6
<1> QED BY <1>3, <1>5, <1>6

\* Placing a submission, and sealing the chunk if it is then full, keeps the chunks.
LEMMA PlacedKept ==
    ASSUME TypeOK, ReceiptInv, NEW c \in Call, NEW s \in Submission, Asks(c, s),
           Verdict(s) = "Place", admit_ready(c, s)
    PROVE  Kept /\ Waits(c, s) /\ Heard(c, s)
<1>0. "admitted" \in Waiting
    BY DEF Waiting
<1>4. \A p \in open.placed \cup pending.placed : \A x \in p.waiters :
         x \in Call /\ Submitted(x, p.sub)
    BY WaitersSubmitted
<1> DEFINE o == WithPlaced(c, s)
<1>1. /\ o.placed # {} /\ o.next = o.base + o.records /\ WellPlaced(o)
      /\ \A p, q \in o.placed \cup pending.placed : SameIdentity(p.sub, q.sub) => p = q
      /\ \A p \in o.placed : p \in open.placed \/ (p.sub = s /\ p.waiters = {c})
    <2>1. Buffered(s) = {}
        BY VerdictMeans
    <2> QED BY <2>1, PlaceKeeps
<1> HIDE DEF o
<1>2. CASE seal_open(o) /\ call' = Answer(c, Reply(c, s, "admitted", {}), Waiters(pending), "Unavailable")
    <2>1. Heard(c, s)
        BY Zenon, <1>0, <1>2, AnswerHeard
    <2>2. /\ open'.placed = {} /\ open'.records = 0 /\ pending'.placed = o.placed
          /\ pending'.base = o.base
        BY <1>2 DEF seal_open, Seal, EmptyChunk
    <2>3. WellPlaced(open)' /\ OpenAtEnd'
        BY <2>2 DEF WellPlaced, OpenAtEnd
    <2>4. WellPlaced(pending)' /\ BufferedOnce'
        BY <1>1, <2>2 DEF WellPlaced, BufferedOnce
    <2>5. Waits(c, s)
        <3> SUFFICES ASSUME NEW p \in o.placed, NEW x \in p.waiters
                     PROVE (x = c /\ p.sub = s) \/ (x \in Call /\ Submitted(x, p.sub))
            BY <2>2 DEF Waits
        <3> QED BY <1>1, <1>4
    <2> QED BY <2>1, <2>3, <2>4, <2>5 DEF Kept
<1>3. CASE open' = o /\ call' = Answer(c, Reply(c, s, "admitted", {}), {}, "") /\ pending' = pending
    <2>1. Heard(c, s)
        BY Zenon, <1>0, <1>3, AnswerHeard
    <2>2. WellPlaced(pending)'
        BY Zenon, <1>3 DEF ReceiptInv, WellPlaced
    <2>3. WellPlaced(open)' /\ OpenAtEnd'
        BY Zenon, <1>1, <1>3 DEF WellPlaced, OpenAtEnd
    <2>4. BufferedOnce'
        BY Zenon, <1>1, <1>3 DEF BufferedOnce
    <2>5. Waits(c, s)
        <3> SUFFICES ASSUME NEW p \in o.placed \cup pending.placed, NEW x \in p.waiters
                     PROVE (x = c /\ p.sub = s) \/ (x \in Call /\ Submitted(x, p.sub))
            BY Zenon, <1>3 DEF Waits
        <3> QED BY <1>1, <1>4
    <2> QED BY <2>1, <2>2, <2>3, <2>4, <2>5 DEF Kept
<1> QED BY Zenon, <1>2, <1>3 DEF admit_ready, o

\* Handling one submission, new or parked, keeps the invariant.
LEMMA AdmitInv ==
    ASSUME TypeOK, ReceiptInv, NEW c \in Call, NEW s \in Submission, Asks(c, s),
           NEW queue \in Seq([call : Call, sub : Submission]), admit(c, s, queue),
           QueueMatches(queue), pc \in {"wait", "drain"}, pc' \in {"run", "drain"}
    PROVE  ReceiptInv'
<1>0. UNCHANGED <<log, writer, inflight, dedup>>
    BY Zenon DEF admit
<1>1. /\ DenseLog' /\ ChunksUnique' /\ DedupSound' /\ WriterAtEnd' /\ LogMayGrow
      /\ WellPlaced(inflight)' /\ OneAppend'
    <2>1. DenseLog' /\ ChunksUnique' /\ LogEnd' = LogEnd /\ LogMayGrow
        BY <1>0, SameLog
    <2>2. DedupSound'
        BY <1>0, <2>1, DedupKept
    <2>3. WriterAtEnd'
        BY <1>0, <2>1 DEF ReceiptInv, WriterAtEnd
    <2>4. WellPlaced(inflight)'
        BY <1>0 DEF ReceiptInv, WellPlaced
    <2>5. OneAppend'
        BY <1>0 DEF ReceiptInv, OneAppend
    <2> QED BY <2>1, <2>2, <2>3, <2>4, <2>5
<1>2. call' \in [Call -> CallState]
    BY Zenon, AdmitType DEF AdmitTypes
<1>3. /\ "" \notin Acknowledged \cup {"idle"} /\ "cancelled" \notin Acknowledged
      /\ "deduplicated" \in Status \ {"idle"} /\ {"parked", "admitted"} \subseteq Waiting
    BY DEF Acknowledged, Status, Waiting
<1>4. \A i \in DOMAIN queue : queue[i].call \in Call /\ call[queue[i].call].sub = {queue[i].sub}
    <2>1. \A i \in DOMAIN queue : queue[i] \in [call : Call, sub : Submission]
        BY Zenon, LenProperties, ElementOfSeq
    <2> QED BY <2>1 DEF QueueMatches
<1>5. \A p \in open.placed \cup pending.placed : \A x \in p.waiters :
         x \in Call /\ Submitted(x, p.sub)
    BY WaitersSubmitted
<1>6. ASSUME Kept, Waits(c, s), Parks(c, s), Heard(c, s) PROVE ReceiptInv'
    <2>1. CallsMatch' /\ WaitersMatch(open)' /\ WaitersMatch(pending)' /\ WaitersMatch(inflight)'
        BY <1>0, <1>2, <1>6, AnsweredInv DEF Heard
    <2>2. ReceiptSound'
        BY Zenon, <1>1, <1>6, ReceiptSoundKept DEF Heard
    <2> QED BY Zenon, <1>1, <1>6, <2>1, <2>2 DEF ReceiptInv, Kept
<1>7. blocked' = queue => Parks(c, s)
    BY Zenon, <1>4 DEF Parks
<1>8. ASSUME UNCHANGED <<open, pending>> PROVE Kept /\ Waits(c, s)
    BY <1>5, <1>8 DEF ReceiptInv, Kept, WellPlaced, OpenAtEnd, BufferedOnce, Waits
<1>9. CASE /\ Verdict(s) \in Rejection /\ blocked' = queue /\ UNCHANGED <<open, pending>>
           /\ call' = Answer(c, Reply(c, s, Verdict(s), {}), {}, "")
    <2>2. Heard(c, s)
        BY Zenon, <1>9, AnswerHeard
    <2> QED BY Zenon, <1>6, <1>7, <1>8, <1>9, <2>2
<1>10. CASE /\ Verdict(s) = "Replay" /\ blocked' = queue /\ UNCHANGED <<open, pending>>
            /\ call' = Answer(c, Reply(c, s, "deduplicated", {r \in dedup : r.sub = s}), {}, "")
    <2>1. PICK r \in dedup : r.sub = s
        BY Zenon, <1>10, VerdictMeans
    <2>2. {q \in dedup : q.sub = s} = {r}
        BY <2>1 DEF ReceiptInv, DedupSound, SameIdentity, SameKey
    <2>3. PICK i \in DOMAIN log' : r \in ReceiptsAt(i)'
        BY <1>0, <1>1, <2>1 DEF DedupSound
    <2>4. call' = Answer(c, Reply(c, s, "deduplicated", {r}), {}, "")
        BY Zenon, <1>10, <2>2
    <2>5. /\ \A x \in Call : x # c => Quiet(x, call'[x])
          /\ call'[c].sub = {s} /\ call'[c].status # "idle"
          /\ \/ call'[c].status = "deduplicated" /\ call'[c].receipt = {r}
             \/ call'[c].status = "cancelled"
        BY Zenon, <1>3, <2>4, AnswerMeans
    <2>6. call'[c].status \in Acknowledged => HasReceipt(c)'
        <3> SUFFICES ASSUME call'[c].status \in Acknowledged PROVE HasReceipt(c)'
            OBVIOUS
        <3>1. call'[c].receipt = {r} /\ call'[c].sub = {r.sub}
            BY Zenon, <1>3, <2>1, <2>5
        <3> QED BY <2>3, <3>1 DEF HasReceipt
    <2>7. Heard(c, s)
        BY <2>5, <2>6 DEF Heard
    <2> QED BY Zenon, <1>6, <1>7, <1>8, <1>10, <2>7
<1>11. CASE Verdict(s) = "Join" /\ JoinWaiter(c, s) /\ blocked' = queue
    <2>1. Heard(c, s)
        BY Zenon, <1>3, <1>11, AnswerHeard DEF JoinWaiter
    <2>2. Kept /\ Waits(c, s)
        BY <1>11, JoinKeeps
    <2> QED BY <1>6, <1>7, <1>11, <2>1, <2>2
<1>12. CASE /\ Verdict(s) = "Park" /\ UNCHANGED <<open, pending>>
            /\ call' = Answer(c, Reply(c, s, "parked", {}), {}, "")
            /\ blocked' = Append(queue, [call |-> c, sub |-> s])
    <2>1. Heard(c, s)
        BY Zenon, <1>3, <1>12, AnswerHeard
    <2>2. Parks(c, s)
        BY Zenon, <1>4, <1>12, ParkParks
    <2> QED BY Zenon, <1>6, <1>8, <1>12, <2>1, <2>2
<1>13. CASE Verdict(s) = "Place" /\ admit_ready(c, s) /\ blocked' = queue
    BY <1>6, <1>7, <1>13, PlacedKept
<1> QED BY Zenon, <1>9, <1>10, <1>11, <1>12, <1>13 DEF admit

=============================================================================
