----------------------------- MODULE LiveStream -----------------------------
(***************************************************************************)
(* The viewer's live stream: captures notify the endpoint's channel when   *)
(* they commit, PostgresNotifier of one web process reads the channel of   *)
(* its own connection into a queue per subscriber, and stream_for_token    *)
(* turns each identifier into an event.                                    *)
(*                                                                         *)
(* Coroutines switch only where they await, so a step is what runs between *)
(* two awaits of start(), _subscribe_gen(), _read_loop() and               *)
(* stream_for_token().  asyncio.Lock has one holder and wakes its waiters  *)
(* in order; any order is allowed here.                                    *)
(***************************************************************************)
EXTENDS CaptureRequest, Sequences, SequencesExt

CONSTANTS
    Streams,        \* browsers that may watch the endpoint
    MaxConns        \* bound: connections the notifier opens

ASSUME StreamAssumption == MaxConns \in Nat \ {0}

VARIABLES
    listen_conn,    \* the connection the notifier keeps, 0 is None
    reader_task,    \* the reader it keeps, named by its connection
    conns,          \* the connections, and what each has left to deliver
    task,           \* the readers
    stream,         \* the streams
    owed            \* history: what is to reach each stream

notifierVars == <<listen_conn, reader_task, conns, task, stream, owed>>
vars == <<captureVars, notifierVars>>

Conns == 1 .. MaxConns

Conn == [state : {"unused", "open", "listening", "lost", "closed"},
         channel : Seq(Requests)]

Stream == [pc : {"closed", "probed", "starting", "connecting", "listening", "waiting"},
           queue : Seq(Requests), taken : Seq(Requests),
           skipped : SUBSET Requests]

(* The type invariant of the captures and of the notifier.                 *)
TypeOK ==
    /\ CaptureTypeOK
    /\ listen_conn \in 0 .. MaxConns
    /\ reader_task \in 0 .. MaxConns
    /\ conns \in [Conns -> Conn]
    /\ task \in [Conns -> {"none", "running", "crashed", "done"}]
    /\ stream \in [Streams -> Stream]
    /\ owed \in [Streams -> Seq(Requests)]

ClosedStream == [pc |-> "closed", queue |-> <<>>, taken |-> <<>>, skipped |-> {}]

(* The lifespan of the app starts the notifier before any request.         *)
Init ==
    /\ CaptureInit
    /\ listen_conn = 1
    /\ reader_task = 1
    /\ conns = [k \in Conns |-> [state |-> IF k = 1 THEN "listening" ELSE "unused",
                                 channel |-> <<>>]]
    /\ task = [k \in Conns |-> IF k = 1 THEN "running" ELSE "none"]
    /\ stream = [s \in Streams |-> ClosedStream]
    /\ owed = [s \in Streams |-> <<>>]

(* ---------------------------------------------------------------------- *)
(* The captures of the ingestor, and their notification                    *)
(* ---------------------------------------------------------------------- *)

(* Postgres hands a notification to every connection that listens.         *)
Notify(r) ==
    /\ conns' = [k \in Conns |-> IF conns[k].state = "listening"
                                 THEN [conns[k] EXCEPT !.channel = Append(@, r)] ELSE conns[k]]
    /\ owed' = [s \in Streams |-> IF stream[s].pc = "waiting"
                                     /\ listen_conn # 0 /\ conns[listen_conn].state = "listening"
                                  THEN Append(owed[s], r) ELSE owed[s]]
    /\ UNCHANGED <<listen_conn, reader_task, task, stream>>

NotifyAtInsert(r) ==
    \/ /\ CaptureStep(r)
       /\ IF capture'[r].pc = "saved" THEN Notify(r) ELSE UNCHANGED notifierVars
    \/ CommitCapture(r) /\ UNCHANGED notifierVars

(* The NOTIFY is part of the transaction: it leaves with the commit.       *)
NotifyAtCommit(r) ==
    \/ CaptureStep(r) /\ UNCHANGED notifierVars
    \/ CommitCapture(r) /\ Notify(r)

(* ---------------------------------------------------------------------- *)
(* The notifier                                                            *)
(* ---------------------------------------------------------------------- *)

StreamMoves(s, pc) == stream' = [stream EXCEPT ![s].pc = pc]

(* start() holds the lock from its first await to its return.              *)
LockFree == \A s \in Streams : stream[s].pc \notin {"connecting", "listening"}

Alive == /\ listen_conn # 0
         /\ reader_task # 0
         /\ task[reader_task] # "done"

(* The endpoint is looked up and ": connected" sent, or the answer is 404. *)
OpenStream(s) ==
    /\ stream[s].pc = "closed"
    /\ endpoint.exists
    /\ StreamMoves(s, "probed")
    /\ UNCHANGED <<captureVars, listen_conn, reader_task, conns, task, owed>>

(* The queue is registered with no await after the test or after start().  *)
(* Notifications the connection already has will reach it as well.         *)
Register(s, k) ==
    /\ stream' = [stream EXCEPT ![s].pc = "waiting"]
    /\ owed' = [owed EXCEPT ![s] = conns'[k].channel]

Subscribe(s) ==
    /\ stream[s].pc = "probed"
    /\ UNCHANGED conns
    /\ IF Alive THEN Register(s, listen_conn)
                ELSE StreamMoves(s, "starting") /\ UNCHANGED owed
    /\ UNCHANGED <<captureVars, listen_conn, reader_task, task>>

StartUnchecked(s) ==
    /\ stream[s].pc = "starting"
    /\ LockFree
    /\ conns' = conns
    /\ StreamMoves(s, "connecting")
    /\ UNCHANGED <<captureVars, listen_conn, reader_task, task, owed>>

(* start() tests again under the lock, and closes what a failure left.     *)
Start(s) ==
    /\ stream[s].pc = "starting"
    /\ LockFree
    /\ IF Alive
       THEN UNCHANGED conns /\ Register(s, listen_conn)
       ELSE /\ StreamMoves(s, "connecting")
            /\ conns' = IF listen_conn = 0 THEN conns
                        ELSE [conns EXCEPT ![listen_conn] = [state |-> "closed", channel |-> <<>>]]
            /\ UNCHANGED owed
    /\ UNCHANGED <<captureVars, listen_conn, reader_task, task>>

Connect(s, k) ==
    /\ stream[s].pc = "connecting"
    /\ conns[k].state = "unused" /\ \A j \in 1 .. k - 1 : conns[j].state # "unused"
    /\ listen_conn' = k
    /\ conns' = [conns EXCEPT ![k].state = "open"]
    /\ StreamMoves(s, "listening")
    /\ UNCHANGED <<captureVars, reader_task, task, owed>>

Listen(s) ==
    /\ stream[s].pc = "listening"
    /\ conns[listen_conn].state = "open"
    /\ conns' = [conns EXCEPT ![listen_conn].state = "listening"]
    /\ task' = [task EXCEPT ![listen_conn] = "running"]
    /\ reader_task' = listen_conn
    /\ Register(s, listen_conn)
    /\ UNCHANGED <<captureVars, listen_conn>>

(* Neither await of start() is caught: the stream ends, the lock is free.  *)
StartFails(s) ==
    /\ stream[s].pc \in {"connecting", "listening"}
    /\ Fault
    /\ stream' = [stream EXCEPT ![s] = ClosedStream]
    /\ UNCHANGED <<capture, rows, endpoint, blobs, listen_conn, reader_task, conns, task, owed>>

ReadToFirst(k) ==
    /\ task[k] = "running" /\ conns[k].channel # <<>>
    /\ conns' = [conns EXCEPT ![k].channel = Tail(@)]
    /\ \E s \in Streams :
         /\ stream[s].pc = "waiting"
         /\ stream' = [stream EXCEPT ![s].queue = Append(@, Head(conns[k].channel))]
    /\ UNCHANGED <<captureVars, listen_conn, reader_task, task, owed>>

(* One notification of the connection, into the queue of every subscriber. *)
ReadLoop(k) ==
    /\ task[k] = "running" /\ conns[k].channel # <<>>
    /\ conns' = [conns EXCEPT ![k].channel = Tail(@)]
    /\ stream' = [s \in Streams |->
                    IF stream[s].pc = "waiting"
                    THEN [stream[s] EXCEPT !.queue = Append(@, Head(conns[k].channel))]
                    ELSE stream[s]]
    /\ UNCHANGED <<captureVars, listen_conn, reader_task, task, owed>>

(* What the connection had not delivered is lost with it. *)
ConnectionLost(k) ==
    /\ conns[k].state \in {"open", "listening"}
    /\ Fault
    /\ conns' = [conns EXCEPT ![k] = [state |-> "lost", channel |-> <<>>]]
    /\ owed' = [s \in Streams |-> IF stream[s].pc = "waiting" /\ k = listen_conn
                                  THEN SubSeq(owed[s], 1, Len(owed[s]) - Len(conns[k].channel))
                                  ELSE owed[s]]
    /\ UNCHANGED <<capture, rows, endpoint, blobs, listen_conn, reader_task, task, stream>>

(* notifies() raises, and the handler waits for the lock. *)
ReaderCrashes(k) ==
    /\ task[k] = "running" /\ conns[k].state \in {"lost", "closed"}
    /\ task' = [task EXCEPT ![k] = "crashed"]
    /\ UNCHANGED <<captureVars, listen_conn, reader_task, conns, stream, owed>>

(* The handler closes and forgets the connection the notifier holds now.   *)
ResetForRecovery(k) ==
    /\ task[k] = "crashed"
    /\ LockFree
    /\ conns' = IF listen_conn = 0 THEN conns
                ELSE [conns EXCEPT ![listen_conn] = [state |-> "closed", channel |-> <<>>]]
    /\ listen_conn' = 0
    /\ reader_task' = 0
    /\ task' = [task EXCEPT ![k] = "done"]
    /\ UNCHANGED <<captureVars, stream, owed>>

(* queue.get() returned: the row is read anew, and skipped when deleted.   *)
Receive(s) ==
    /\ stream[s].pc = "waiting" /\ stream[s].queue # <<>>
    /\ LET r == Head(stream[s].queue) IN
         stream' = [stream EXCEPT ![s].queue = Tail(@), ![s].taken = Append(@, r),
                                  ![s].skipped = IF rows[r].request = "stored" THEN @
                                                 ELSE @ \cup {r}]
    /\ UNCHANGED <<captureVars, listen_conn, reader_task, conns, task, owed>>

(* The browser leaves: whatever the generator awaits is cancelled, the     *)
(* lock released and the queue discarded.                                  *)
CloseStream(s) ==
    /\ stream[s].pc # "closed"
    /\ stream' = [stream EXCEPT ![s] = ClosedStream]
    /\ owed' = [owed EXCEPT ![s] = <<>>]
    /\ UNCHANGED <<captureVars, listen_conn, reader_task, conns, task>>

(* A restart of the web process: stop() cancels the reader and closes the  *)
(* connection, the streams end with the process, the lifespan starts anew. *)
RestartWeb(k) ==
    /\ conns[k].state = "unused" /\ \A j \in 1 .. k - 1 : conns[j].state # "unused"
    /\ Fault
    /\ conns' = [j \in Conns |-> IF j < k THEN [state |-> "closed", channel |-> <<>>]
                               ELSE IF j = k THEN [state |-> "listening", channel |-> <<>>]
                               ELSE conns[j]]
    /\ task' = [j \in Conns |-> IF j = k THEN "running"
                              ELSE IF task[j] = "none" THEN "none" ELSE "done"]
    /\ listen_conn' = k /\ reader_task' = k
    /\ stream' = [s \in Streams |-> ClosedStream]
    /\ owed' = [s \in Streams |-> <<>>]
    /\ UNCHANGED <<capture, rows, endpoint, blobs>>

StreamStep(s) ==
    \/ OpenStream(s) \/ Subscribe(s) \/ Start(s)
    \/ \E k \in Conns : Connect(s, k)
    \/ Listen(s) \/ StartFails(s) \/ Receive(s) \/ CloseStream(s)

ReaderStep(k) == \/ ReadLoop(k) \/ ConnectionLost(k)
                 \/ ReaderCrashes(k) \/ ResetForRecovery(k) \/ RestartWeb(k)

Next ==
    \/ \E r \in Requests : NotifyAtCommit(r)
    \/ DeleteExpired /\ UNCHANGED notifierVars
    \/ \E s \in Streams : StreamStep(s)
    \/ \E k \in Conns : ReaderStep(k)

Spec == Init /\ [][Next]_vars

(* The event loop runs what is ready: a reader that has a notification and *)
(* a stream whose queue has one.  Browsers, connections and captures owe   *)
(* nothing.                                                                *)
Fairness ==
    /\ \A k \in Conns : WF_vars(ReadLoop(k))
    /\ \A s \in Streams : WF_vars(Receive(s))

FairSpec == Spec /\ Fairness

(* ---------------------------------------------------------------------- *)
(* Properties                                                              *)
(* ---------------------------------------------------------------------- *)

(* A stream has taken, has queued or will be sent exactly what it is owed, *)
(* each once and in the order of the commits, through every crash and      *)
(* restart of the reader (postgres_notifier.py:34-103).                    *)
Coming(s) ==
    stream[s].taken \o stream[s].queue \o (IF listen_conn = 0 THEN <<>> ELSE conns[listen_conn].channel)

OnceInOrder == \A s \in Streams : stream[s].pc = "waiting" => Coming(s) = owed[s]

(* sse.py:61-64 drops what it does not find: only rows deleted since, never *)
(* one whose notification overtook its commit (request_repository.py:17-45).*)
SkipsOnlyDeleted ==
    \A s \in Streams : \A r \in stream[s].skipped : rows[r].request = "deleted"

(* A crashed reader waits for a lock that start() may hold; what it then   *)
(* closes is its own connection, never the one that replaced it            *)
(* (postgres_notifier.py:96-103).                                          *)
ResetsItsOwn ==
    \A k \in Conns : task[k] \in {"running", "crashed"} => listen_conn = k /\ reader_task = k

(* What a stream is owed it takes, unless it is closed or the connection   *)
(* is lost first.                                                          *)
Delivered ==
    \A s \in Streams : \A r \in Requests :
        r \in Range(owed[s]) ~> (r \in Range(stream[s].taken) \/ r \notin Range(owed[s]))
=============================================================================
