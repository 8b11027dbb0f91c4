--------------------------- MODULE ProducerClient ---------------------------
(***************************************************************************)
(* The Producer Wire client over its outbox                                *)
(* (crates/scripture-producer-client/src/lib.rs; the two command line      *)
(* clients, producer_wire_client.rs and rsyslog_omprog.rs, drain the same  *)
(* way) and the connection handler it talks to                             *)
(* (crates/scripture-runtime/src/producer_wire.rs, ingress.rs).            *)
(*                                                                         *)
(* A submission is staged, then everything that is pending is sent in the  *)
(* order of its sequences, each over a connection of its own and each only *)
(* after the one before it was acknowledged and marked.  A connection that *)
(* fails or times out leaves its handler running: the Scribe may still     *)
(* commit what it read, long after the client has given up and retried.    *)
(*                                                                         *)
(* The Scribe behind the handler is a log with the contract that           *)
(* ChunkDriver has inside its recovery window: it takes each sequence      *)
(* once, in order, and answers a repetition with the first receipt.        *)
(***************************************************************************)
EXTENDS ProducerOutbox

VARIABLES
    todo,       \* what flush_until has still to send: a snapshot of Pending
    conn,       \* the connection the client waits for, and how far its handler is
    late,       \* what handlers of abandoned connections may still submit
    log         \* external: what the Scribe has committed, in order

client == <<outbox, todo, conn, late, log>>

NoConn == [at |-> "none"]
Conn(e, at) == [at |-> at, entry |-> e]
Idle == status = "open" /\ todo = << >> /\ conn = NoConn
Handled(at) == conn.at = at

\* pending_submissions
InOrder(es) == SetToSortSeq(es, LAMBDA d, e : d.seq < e.seq)
-----------------------------------------------------------------------------
\* The client

\* submit: stage_submit, then flush_until.  The sequence is next_sequence, or
\* for producer_wire_client what its caller asks for.
Submit(s, b) ==
    /\ Idle
    /\ Stage(s, b) \/ Restage(s, b)
    /\ todo' = InOrder({e \in entries' : e.seq \notin acked})
    /\ UNCHANGED <<conn, late, log>>

SubmitFails(s, b) == Idle /\ StageFails(s, b) /\ UNCHANGED <<todo, conn, late, log>>

flush ==
    /\ Idle /\ Pending # {}
    /\ todo' = InOrder(Pending)
    /\ UNCHANGED <<outbox, conn, late, log>>

\* forward: connect, write hello and the exact staged bytes.
forward ==
    /\ status = "open" /\ conn = NoConn /\ todo # << >>
    /\ conn' = Conn(Head(todo), "read")
    /\ UNCHANGED <<outbox, todo, late, log>>

\* The handler of the awaited connection lives on without a client.
Abandoned == IF Handled("read") THEN late \cup {conn.entry} ELSE late

\* Mutant: after a failure the client goes on with what comes next.
AmbiguousGoesOn ==
    /\ status = "open" /\ conn # NoConn
    /\ todo' = Tail(todo) /\ conn' = NoConn
    /\ late' = Abandoned
    /\ UNCHANGED <<outbox, log>>

\* Mutant: a reply that does not come counts as a commit.
AmbiguousMarks ==
    /\ status = "open" /\ conn # NoConn
    /\ MarkCommitted(conn.entry.seq)
    /\ todo' = << >> /\ conn' = NoConn
    /\ late' = Abandoned
    /\ UNCHANGED log

\* The connection fails or the ACK times out: SubmitOutcome::Ambiguous, and
\* nothing later is sent around it.
Ambiguous ==
    /\ status = "open" /\ conn # NoConn
    /\ todo' = << >> /\ conn' = NoConn
    /\ late' = Abandoned
    /\ UNCHANGED <<outbox, log>>

\* Mutant: the ACK is taken and not recorded.
AcknowledgedForgets ==
    /\ Handled("acked")
    /\ todo' = Tail(todo) /\ conn' = NoConn
    /\ UNCHANGED <<outbox, late, log>>

\* A matching ACK: mark_committed, and the loop goes on.
Acknowledged ==
    /\ Handled("acked")
    /\ MarkCommitted(conn.entry.seq)
    /\ todo' = Tail(todo) /\ conn' = NoConn
    /\ UNCHANGED <<late, log>>

\* mark_committed fails, by its write, its sync or for lack of room.
AcknowledgedUnmarked ==
    /\ Handled("acked") /\ status = "open"
    /\ \/ MarkFails(conn.entry.seq)
       \/ ~reserve(ProgressBytes) /\ UNCHANGED outbox
    /\ todo' = << >> /\ conn' = NoConn
    /\ UNCHANGED <<late, log>>

\* An Error frame: SubmitOutcome::Refused.
Refused ==
    /\ conn.at \in {"refused", "conflict"} /\ status = "open"
    /\ todo' = << >> /\ conn' = NoConn
    /\ UNCHANGED <<outbox, late, log>>

\* The process dies; so does its end of the connection.
ClientCrash ==
    /\ Crash(IF Idle THEN {Submission(s, b) : s \in {t \in Identity : CanStage(t)}, b \in Body}
             ELSE IF Handled("acked") /\ reserve(ProgressBytes)
             THEN {Progress(conn.entry.seq)} ELSE {})
    /\ todo' = << >> /\ conn' = NoConn
    /\ late' = Abandoned
    /\ UNCHANGED log

ClientOpen == Open /\ UNCHANGED <<todo, conn, late, log>>
-----------------------------------------------------------------------------
\* The Scribe

\* External: what the log makes of a submission.
Taken(e) == e.seq < Len(log)
Commit(e) ==
    log' = IF e.seq = Len(log) THEN Append(log, e.submit) ELSE log
Agrees(e) ==
    IF Taken(e) THEN log[e.seq + 1] = e.submit ELSE e.seq = Len(log)

\* serve_producer_wire_connection: submit and flush, then the receipt.
HandlerSubmits ==
    /\ Handled("read")
    /\ Commit(conn.entry)
    /\ conn' = Conn(conn.entry, IF Agrees(conn.entry) THEN "committed" ELSE "conflict")
    /\ UNCHANGED <<outbox, todo, late>>

\* NotServing, Backpressure: nothing was admitted.
HandlerRefuses ==
    /\ Handled("read")
    /\ conn' = Conn(conn.entry, "refused")
    /\ UNCHANGED <<outbox, todo, late, log>>

\* The receipt is written as an ACK; or it is lost, and Ambiguous is written.
HandlerReplies ==
    /\ Handled("committed")
    /\ conn' \in {Conn(conn.entry, "acked"), Conn(conn.entry, "refused")}
    /\ UNCHANGED <<outbox, todo, late, log>>

\* A handler whose client has left submits what it read.  There may be others
\* with the same submission.
LateSubmits(e) ==
    /\ e \in late
    /\ Commit(e)
    /\ late' \in {late, late \ {e}}
    /\ UNCHANGED <<outbox, todo, conn>>

ClientInit == OutboxInit /\ todo = << >> /\ conn = NoConn /\ late = {} /\ log = << >>

ClientNext ==
    \/ \E s \in Identity, b \in Body : Submit(s, b) \/ SubmitFails(s, b)
    \/ flush \/ forward
    \/ Ambiguous \/ Acknowledged \/ AcknowledgedUnmarked \/ Refused
    \/ ClientCrash \/ ClientOpen
    \/ HandlerSubmits \/ HandlerRefuses \/ HandlerReplies
    \/ \E e \in Transcript : LateSubmits(e)

\* The application flushes for as long as something is pending and restarts a
\* process that died; each step of a flush is taken; an attempt that can
\* succeed again and again does succeed.
ClientFairness ==
    /\ WF_client(ClientOpen) /\ SF_client(flush) /\ WF_client(forward)
    /\ WF_client(Refused) /\ WF_client(AcknowledgedUnmarked)
    /\ SF_client(HandlerSubmits)
    /\ SF_client(HandlerReplies /\ conn'.at = "acked")
    /\ SF_client(Acknowledged)
-----------------------------------------------------------------------------
\* Properties

\* Whatever is marked as committed is in the log with the staged bytes: a
\* timeout, an error reply or a crash never retires a submission by itself
\* (flush_until, forward, mark_committed).
MarkedIsCommitted ==
    \A e \in entries : e.seq \in acked => Taken(e) /\ log[e.seq + 1] = e.submit

\* The Scribe never meets a sequence that it does not expect, or other bytes
\* under one that it has, from this client or from what an earlier connection
\* left behind (flush_until stops at the first failure; stage_submit gives a
\* sequence away once).
NeverConflicts ==
    /\ ~Handled("conflict")
    /\ \A e \in late : Agrees(e)

\* Again and again everything that was staged is marked as committed, by this
\* process or one that opens the directory after it, unless the WAL has no room
\* for an ACK; what is marked stays so, so each submission is in the end
\* (flush, mark_committed, reserve).
EveryStagedIsMarked ==
    []<>(status = "open" /\ (Sequences(staged) \subseteq acked \/ ~reserve(ProgressBytes)))
=============================================================================
