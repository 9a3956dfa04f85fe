--------------------------- MODULE ForwardPipeline ---------------------------
(***************************************************************************)
(* The forward pipeline of hooktrace: everything that reads or writes a    *)
(* forward after its webhook was captured.                                 *)
(*                                                                         *)
(*   - the web processes: the capture handler (web/ingestor/routes.py),    *)
(*     the retry, redrive and abandon handlers (web/app/routes.py), each   *)
(*     inside the transaction of the get_session dependency;               *)
(*   - the arq workers running execute_forward: claim (TX1), HTTP, record  *)
(*     (TX2), re-enqueue (application/use_cases/execute_forward.py);       *)
(*   - the daily cleaner deleting expired endpoints (jobs/cleaner.py).     *)
(*                                                                         *)
(* They share the forwards table (ForwardRepository) and the arq queue     *)
(* (ArqQueue).  Transactions run at READ COMMITTED: a statement sees the   *)
(* committed row, and an UPDATE that matches a row another transaction has *)
(* updated waits for that transaction.  A transaction that does nothing    *)
(* between its statement and its commit that another process can see is    *)
(* one step; the redrive and the retry/capture requests, which call the    *)
(* queue around their commit, are several.                                 *)
(*                                                                         *)
(* Time is discrete and relative: ages and timers, never an absolute       *)
(* clock, so the state space is finite without a bound on time.            *)
(***************************************************************************)
EXTENDS ForwardRepository, ArqQueue

CONSTANTS
    Forwards,       \* forwards of one endpoint
    Workers,        \* job slots of the arq workers (max_jobs per process)
    Redrivers,      \* redrive requests that may be running at once
    NoForward,      \* what an idle slot works on
    JobTimeout,     \* job_timeout
    Responses,      \* HTTP statuses a receiver may answer with
    EndpointExpires,\* may the cleaner delete the endpoint?
    MaxFaults,      \* bound: crashes, timeouts, Redis and database failures
    MaxRetries,     \* bound: manual retries
    MaxAbandons     \* bound: manual abandons

ASSUME PipelineAssumption ==
    /\ NoForward \notin Forwards
    /\ JobTimeout \in Nat
    /\ Responses \subseteq 100..599
    /\ EndpointExpires \in BOOLEAN
    /\ {MaxFaults, MaxRetries, MaxAbandons} \subseteq Nat

(* An attempt is killed by job_timeout (120 s).  Two of them in a row still*)
(* fit in the 300 s after which a redrive takes an in_flight row for       *)
(* abandoned by its worker.                                                *)
ASSUME TimingAssumption == /\ 2 * JobTimeout <= StuckInFlight
                           /\ JobTimeout <= InProgressTtl

VARIABLES
    forwards,    \* the committed row of each forward
    requests,    \* an open capture or retry transaction of each forward
    jobs,        \* the arq job of each forward and defer
    slots,       \* what each worker slot is executing
    redrives,    \* the redrive requests
    sent,        \* history: attempts whose request may have left for the receiver
    backoff,     \* history: what is left of the delay decide() asked for
    budget       \* how many faults, retries and abandons happened

vars == <<forwards, requests, jobs, slots, redrives, sent, backoff, budget>>

Kinds == {"none", "capture", "retry"}
Request == [kind : Kinds, enqueued : BOOLEAN]
NoRequest == [kind |-> "none", enqueued |-> FALSE]

Slot == [pc : {"idle", "claim", "http", "record", "enqueue"},
         f : Forwards \cup {NoForward},
         d : Defers,                \* the job is <<f, d>>
         attempt : Nat,             \* attempt_count of the claimed snapshot
         next_status : {"none", "succeeded", "failed", "dead"},
         defer : Defers,            \* the decision, once taken
         elapsed : 0..JobTimeout]   \* since arq started the job

IdleSlot == [pc |-> "idle", f |-> NoForward, d |-> 0, attempt |-> 0,
             next_status |-> "none", defer |-> 0, elapsed |-> 0]

Redrive == [pc : {"idle", "list_failed", "list_pending", "enqueue"},
            reclaimed : SUBSET Forwards,   \* rows it updated, not committed
            todo : SUBSET Forwards]        \* rows left to enqueue

IdleRedrive == [pc |-> "idle", reclaimed |-> {}, todo |-> {}]

TypeOK ==
    /\ forwards \in [Forwards -> Row]
    /\ requests \in [Forwards -> Request]
    /\ jobs \in [Forwards -> [Defers -> Job]]
    /\ slots \in [Workers -> Slot]
    /\ \A w \in Workers : slots[w].pc # "idle" => slots[w].f \in Forwards
    /\ redrives \in [Redrivers -> Redrive]
    /\ sent \in [Forwards -> SUBSET Nat]
    /\ backoff \in [Forwards -> Nat]
    /\ budget \in [faults : Nat, retries : Nat, abandons : Nat]

Init ==
    /\ forwards = [f \in Forwards |-> AbsentRow]
    /\ requests = [f \in Forwards |-> NoRequest]
    /\ jobs = [f \in Forwards |-> [d \in Defers |-> NoJob]]
    /\ slots = [w \in Workers |-> IdleSlot]
    /\ redrives = [r \in Redrivers |-> IdleRedrive]
    /\ sent = [f \in Forwards |-> {}]
    /\ backoff = [f \in Forwards |-> 0]
    /\ budget = [faults |-> 0, retries |-> 0, abandons |-> 0]

(* Row locks: an uncommitted UPDATE by a retry request or a redrive.       *)
LockedByRetry(f) == requests[f].kind = "retry"

Locked(f) ==
    \/ requests[f].kind = "retry"
    \/ \E r \in Redrivers : f \in redrives[r].reclaimed

Update(f, r) == forwards' = [forwards EXCEPT ![f] = r]

(* ArqForwardQueue.enqueue: the job id is "forward:{id}:{defer_seconds}".  *)
Enqueue(f, d) == jobs' = [jobs EXCEPT ![f][d] = Enqueued(@, d)]

Fault == /\ budget.faults < MaxFaults
         /\ budget' = [budget EXCEPT !.faults = @ + 1]

-----------------------------------------------------------------------------
(* Web requests: capture and manual retry.  _safe_enqueue is a background  *)
(* task.  get_session is a dependency with yield: the pinned FastAPI runs  *)
(* its exit, which commits, after the background tasks, so a worker may    *)
(* start the job before there is a row to claim.                           *)

(* CaptureRequest.execute inserts the forward and returns its id.          *)
Capture(f) ==
    /\ forwards[f].status = "absent"
    /\ requests[f].kind = "none"
    /\ requests' = [requests EXCEPT ![f] = [@ EXCEPT !.kind = "capture"]]
    /\ UNCHANGED <<forwards, jobs, slots, redrives, sent, backoff,
                   budget>>

(* RetryForward.execute: 404 unless the UPDATE matched.                    *)
RetryForward(f) ==
    /\ budget.retries < MaxRetries
    /\ requests[f].kind = "none"
    /\ ManualRetry_Where(forwards[f])
    /\ ~Locked(f)
    /\ requests' = [requests EXCEPT ![f] = [@ EXCEPT !.kind = "retry"]]
    /\ budget' = [budget EXCEPT !.retries = @ + 1]
    /\ UNCHANGED <<forwards, jobs, slots, redrives, sent, backoff>>

(* _safe_enqueue, with the transaction of the request still open.          *)
RunBackground(f) ==
    /\ requests[f].kind # "none" /\ ~requests[f].enqueued
    /\ requests' = [requests EXCEPT ![f] = [@ EXCEPT !.enqueued = TRUE]]

BackgroundEnqueue(f) ==
    /\ RunBackground(f)
    /\ Enqueue(f, 0)
    /\ UNCHANGED <<forwards, slots, redrives, sent, backoff, budget>>

(* Redis is down, and _safe_enqueue swallows the exception.                *)
BackgroundLost(f) ==
    /\ RunBackground(f)
    /\ Fault
    /\ UNCHANGED <<forwards, jobs, slots, redrives, sent, backoff>>

(* The commit of either transaction.                                       *)
CommitRequest(f) ==
    /\ requests[f].kind # "none" /\ requests[f].enqueued
    /\ Update(f, IF requests[f].kind = "retry" THEN ManualRetry_Set(forwards[f])
                 ELSE [forwards[f] EXCEPT !.status = "pending"])
    /\ backoff' = [backoff EXCEPT ![f] = 0]
    /\ requests' = [requests EXCEPT ![f] = NoRequest]
    /\ UNCHANGED <<jobs, slots, redrives, sent, budget>>

(* The process dies before the commit, or the commit fails.                *)
RequestRollback(f) ==
    /\ requests[f].kind # "none"
    /\ Fault
    /\ requests' = [requests EXCEPT ![f] = NoRequest]
    /\ UNCHANGED <<forwards, jobs, slots, redrives, sent, backoff>>

(* AbandonForward.execute; 404 unless the UPDATE matched.                  *)
AbandonForward(f) ==
    /\ budget.abandons < MaxAbandons
    /\ Abandon_Where(forwards[f])
    /\ ~Locked(f)
    /\ Update(f, Abandon_Set(forwards[f]))
    /\ budget' = [budget EXCEPT !.abandons = @ + 1]
    /\ UNCHANGED <<requests, jobs, slots, redrives, sent, backoff>>

(* The cleaner's DELETE of an expired endpoint cascades to its forwards,   *)
(* and waits for the transactions that hold their rows.                    *)
DeleteExpired ==
    /\ EndpointExpires
    /\ \E f \in Forwards : Exists(forwards[f])
    /\ \A f \in Forwards : Exists(forwards[f]) => ~Locked(f)
    /\ \A f \in Forwards : requests[f].kind = "none"
    /\ forwards' = [f \in Forwards |-> [AbsentRow EXCEPT !.status = "deleted"]]
    /\ UNCHANGED <<requests, jobs, slots, redrives, sent, backoff,
                   budget>>

-----------------------------------------------------------------------------
(* Redrive: RedrivePendingForwards.execute, one transaction around three   *)
(* statements and a loop of enqueues.                                      *)

(* What a statement of r's transaction sees of f: its own updates too.     *)
Seen(r, f) == IF f \in redrives[r].reclaimed THEN Reclaim_Set(forwards[f])
              ELSE forwards[f]

RedriveReclaim(r) ==
    LET stuck == {f \in Forwards : Reclaim_Where(forwards[f])}
    IN  /\ redrives[r].pc = "idle"
        /\ \E f \in Forwards : Exists(forwards[f])   \* find_by_token
        /\ \A f \in stuck : ~Locked(f)
        /\ redrives' = [redrives EXCEPT ![r] = [@ EXCEPT !.pc = "list_failed",
                                                         !.reclaimed = stuck]]
        /\ UNCHANGED <<forwards, requests, jobs, slots, sent,
                       backoff, budget>>

RedriveListFailed(r) ==
    /\ redrives[r].pc = "list_failed"
    /\ redrives' = [redrives EXCEPT ![r] =
            [@ EXCEPT !.pc = "list_pending",
                      !.todo = {f \in Forwards : OverdueFailed_Where(Seen(r, f))}]]
    /\ UNCHANGED <<forwards, requests, jobs, slots, sent, backoff,
                   budget>>

RedriveListPending(r) ==
    /\ redrives[r].pc = "list_pending"
    /\ redrives' = [redrives EXCEPT ![r] =
            [@ EXCEPT !.pc = "enqueue",
                      !.todo = redrives[r].todo \cup
                         {f \in Forwards : StuckPending_Where(Seen(r, f))}]]
    /\ UNCHANGED <<forwards, requests, jobs, slots, sent, backoff,
                   budget>>

RedriveEnqueue(r, f) ==
    /\ redrives[r].pc = "enqueue"
    /\ f \in redrives[r].todo
    /\ Enqueue(f, 0)
    /\ redrives' = [redrives EXCEPT ![r] =
                    [@ EXCEPT !.todo = redrives[r].todo \ {f}]]
    /\ UNCHANGED <<forwards, requests, slots, sent, backoff, budget>>

(* An enqueue that raises is logged and swallowed.                         *)
RedriveEnqueueFails(r, f) ==
    /\ redrives[r].pc = "enqueue"
    /\ f \in redrives[r].todo
    /\ Fault
    /\ redrives' = [redrives EXCEPT ![r] =
                    [@ EXCEPT !.todo = redrives[r].todo \ {f}]]
    /\ UNCHANGED <<forwards, requests, jobs, slots, sent, backoff>>

RedriveCommit(r) ==
    /\ redrives[r].pc = "enqueue"
    /\ redrives[r].todo = {}
    /\ forwards' = [f \in Forwards |-> Seen(r, f)]
    /\ redrives' = [redrives EXCEPT ![r] = IdleRedrive]
    /\ UNCHANGED <<requests, jobs, slots, sent, backoff, budget>>

(* The web process dies, or the commit fails.                              *)
RedriveRollback(r) ==
    /\ redrives[r].pc # "idle"
    /\ Fault
    /\ redrives' = [redrives EXCEPT ![r] = IdleRedrive]
    /\ UNCHANGED <<forwards, requests, jobs, slots, sent, backoff>>

-----------------------------------------------------------------------------
(* Workers: arq starts the job, ExecuteForward.execute runs it.            *)

StartJob(w, f, d) ==
    /\ slots[w].pc = "idle"
    /\ Ready(jobs[f][d])
    /\ jobs[f][d].tries < ArqMaxTries
    /\ jobs' = [jobs EXCEPT ![f][d] = Started(@)]
    /\ slots' = [slots EXCEPT ![w] = [IdleSlot EXCEPT !.pc = "claim",
                                                      !.f = f, !.d = d]]
    /\ UNCHANGED <<forwards, requests, redrives, sent, backoff,
                   budget>>

(* max_tries exceeded: arq writes a failure result without running it.     *)
DropJob(w, f, d) ==
    /\ slots[w].pc = "idle"
    /\ Ready(jobs[f][d])
    /\ jobs[f][d].tries >= ArqMaxTries
    /\ jobs' = [jobs EXCEPT ![f][d] = Finished(@)]
    /\ UNCHANGED <<forwards, requests, slots, redrives, sent,
                   backoff, budget>>

(* The job of slot w ends, with js the queue before its result is written. *)
EndJob(w, js) ==
    /\ jobs' = [js EXCEPT ![slots[w].f][slots[w].d] = Finished(@)]
    /\ slots' = [slots EXCEPT ![w] = IdleSlot]

(* TX1.  The row is locked from the UPDATE to the commit, so the endpoint  *)
(* and the request it references cannot be deleted under it and are found. *)
Claim(w) ==
    LET f == slots[w].f
        claimed == ClaimForAttempt_Set(forwards[f], slots[w].elapsed)
    IN  /\ slots[w].pc = "claim"
        /\ ClaimForAttempt_Where(forwards[f])
        /\ ~Locked(f)
        /\ Update(f, claimed)
        /\ slots' = [slots EXCEPT ![w] =
                        [@ EXCEPT !.pc = "http",
                                  !.attempt = claimed.attempt_count]]
        /\ backoff' = [backoff EXCEPT ![f] = 0]
        /\ UNCHANGED <<requests, jobs, redrives, sent, budget>>

(* No row matched: "forward_skip_not_claimable".                           *)
SkipClaim(w) ==
    /\ slots[w].pc = "claim"
    /\ ~ClaimForAttempt_Where(forwards[slots[w].f])
    /\ EndJob(w, jobs)
    /\ UNCHANGED <<forwards, requests, redrives, sent, backoff,
                   budget>>

(* A slot that is left during the HTTP phase: its request may be out.      *)
CutShort(w) ==
    sent' = IF slots[w].pc = "http"
            THEN [sent EXCEPT ![slots[w].f] = @ \cup {slots[w].attempt}] ELSE sent

(* The wrapper swallows an exception that no phase handles: a failed blob  *)
(* read or commit of TX1; a secret that does not decrypt or a host that    *)
(* does not resolve; a failed TX2; a failed re-enqueue.  Whatever was      *)
(* committed stays, and arq sees a job that finished.  A job killed by     *)
(* job_timeout leaves the same state: its failure is the job's result.     *)
Raise(w) ==
    /\ slots[w].pc # "idle"
    /\ Fault
    /\ EndJob(w, jobs)
    /\ CutShort(w)
    /\ UNCHANGED <<forwards, requests, redrives, backoff>>

(* The HTTP phase ends with an outcome; left: may the request have left?   *)
HttpOutcome(w, decision, left) ==
    LET f == slots[w].f
    IN  /\ slots[w].pc = "http"
        /\ slots' = [slots EXCEPT ![w] =
                        [@ EXCEPT !.pc = "record",
                                  !.next_status = decision.next_status,
                                  !.defer = decision.defer]]
        /\ sent' = IF left THEN [sent EXCEPT ![f] = @ \cup {slots[w].attempt}]
                   ELSE sent
        /\ UNCHANGED <<forwards, requests, jobs, redrives, backoff,
                       budget>>

HttpResponse(w, status) ==
    HttpOutcome(w, Decide(slots[w].attempt, status, FALSE), TRUE)

HttpNetworkError(w) ==
    HttpOutcome(w, Decide(slots[w].attempt, NoStatus, TRUE), TRUE)

HttpSsrfBlockedAsStatus(w) ==
    HttpOutcome(w, [next_status |-> "ssrf_blocked", defer |-> 0], FALSE)

HttpSsrfBlocked(w) ==
    HttpOutcome(w, [next_status |-> "dead", defer |-> 0], FALSE)

(* TX2, and what follows it: a re-enqueue after "failed", the end of the   *)
(* job after anything else.                                                *)
Record(w) ==
    LET f == slots[w].f
        next == slots[w].next_status
    IN  /\ slots[w].pc = "record"
        /\ RecordOutcome_Where(forwards[f]) => ~Locked(f)
        /\ Update(f, IF RecordOutcome_Where(forwards[f])
                     THEN RecordOutcome_Set(forwards[f], next) ELSE forwards[f])
        /\ backoff' = [backoff EXCEPT ![f] = slots[w].defer]
        /\ IF next = "failed"
           THEN /\ slots' = [slots EXCEPT ![w] = [@ EXCEPT !.pc = "enqueue"]]
                /\ UNCHANGED jobs
           ELSE EndJob(w, jobs)
        /\ UNCHANGED <<requests, redrives, sent, budget>>

EnqueueRetryNow(w) ==
    LET f == slots[w].f
        d == slots[w].defer
    IN  /\ slots[w].pc = "enqueue"
        /\ EndJob(w, [jobs EXCEPT ![f][d] = Enqueued(@, 0)])
        /\ UNCHANGED <<forwards, requests, redrives, sent, backoff,
                       budget>>

EnqueueRetrySameId(w) ==
    LET f == slots[w].f
        d == slots[w].defer
    IN  /\ slots[w].pc = "enqueue"
        /\ EndJob(w, [jobs EXCEPT ![f][0] = Enqueued(@, d)])
        /\ UNCHANGED <<forwards, requests, redrives, sent, backoff,
                       budget>>

EnqueueRetry(w) ==
    LET f == slots[w].f
        d == slots[w].defer
    IN  /\ slots[w].pc = "enqueue"
        /\ EndJob(w, [jobs EXCEPT ![f][d] = Enqueued(@, d)])
        /\ UNCHANGED <<forwards, requests, redrives, sent, backoff,
                       budget>>

(* The task leaves its slot with its job back in the queue.                *)
Requeue(w, wait) ==
    /\ slots[w].pc # "idle"
    /\ Fault
    /\ jobs' = [jobs EXCEPT ![slots[w].f][slots[w].d] = Requeued(@, wait)]
    /\ slots' = [slots EXCEPT ![w] = IdleSlot]
    /\ CutShort(w)
    /\ UNCHANGED <<forwards, requests, redrives, backoff>>

(* The worker dies; SIGTERM cancels its jobs.  An open transaction is      *)
(* rolled back, a committed one stays.                                     *)
Crash(w) == Requeue(w, InProgressTtl - slots[w].elapsed)

Shutdown(w) == Requeue(w, 0)

(* One unit of time.  A job that reached job_timeout does not outlive it.  *)
Tick ==
    /\ \A w \in Workers : slots[w].pc # "idle" => slots[w].elapsed < JobTimeout
    /\ forwards' = [f \in Forwards |->
                      IF Exists(forwards[f]) \/ requests[f].kind = "capture"
                      THEN Aged(forwards[f]) ELSE forwards[f]]
    /\ jobs' = [f \in Forwards |-> [d \in Defers |-> JobAged(jobs[f][d])]]
    /\ slots' = [w \in Workers |-> IF slots[w].pc = "idle" THEN slots[w]
                                   ELSE [slots[w] EXCEPT !.elapsed = @ + 1]]
    /\ backoff' = [f \in Forwards |-> IF backoff[f] > 0 THEN backoff[f] - 1 ELSE 0]
    /\ UNCHANGED <<requests, redrives, sent, budget>>

-----------------------------------------------------------------------------
WebStep(f) ==
    \/ Capture(f)
    \/ RetryForward(f)
    \/ CommitRequest(f)
    \/ BackgroundEnqueue(f)
    \/ BackgroundLost(f)
    \/ RequestRollback(f)
    \/ AbandonForward(f)

RedriveStep(r) ==
    \/ RedriveReclaim(r)
    \/ RedriveListFailed(r)
    \/ RedriveListPending(r)
    \/ \E f \in Forwards : RedriveEnqueue(r, f)
    \/ \E f \in Forwards : RedriveEnqueueFails(r, f)
    \/ RedriveCommit(r)
    \/ RedriveRollback(r)

WorkerStep(w) ==
    \/ \E f \in Forwards, d \in Defers : StartJob(w, f, d)
    \/ \E f \in Forwards, d \in Defers : DropJob(w, f, d)
    \/ Claim(w)
    \/ SkipClaim(w)
    \/ \E status \in Responses : HttpResponse(w, status)
    \/ HttpNetworkError(w)
    \/ HttpSsrfBlocked(w)
    \/ Record(w)
    \/ EnqueueRetry(w)
    \/ Raise(w)
    \/ Crash(w)
    \/ Shutdown(w)

Next ==
    \/ \E f \in Forwards : WebStep(f)
    \/ \E r \in Redrivers : RedriveStep(r)
    \/ \E w \in Workers : WorkerStep(w)
    \/ DeleteExpired
    \/ Tick

Spec == Init /\ [][Next]_vars

(***************************************************************************)
(* Fairness.  Time passes, open requests commit and run their background   *)
(* tasks, and a worker slot does not stop inside a job or leave ready jobs *)
(* in the queue: uvicorn and arq run their event loops.  Faults, retries   *)
(* and abandons are never fair.  RedriveProgress is fair because the       *)
(* operator repeats the redrive for as long as forwards are stuck; a       *)
(* configuration without redrivers assumes nothing of the operator.        *)
(***************************************************************************)
SlotProgress(w) ==
    \/ \E f \in Forwards, d \in Defers : StartJob(w, f, d) \/ DropJob(w, f, d)
    \/ Claim(w) \/ SkipClaim(w)
    \/ \E status \in Responses : HttpResponse(w, status)
    \/ HttpNetworkError(w)
    \/ HttpSsrfBlocked(w)
    \/ Record(w) \/ EnqueueRetry(w)

RedriveProgress(r) ==
    \/ RedriveReclaim(r) \/ RedriveListFailed(r) \/ RedriveListPending(r)
    \/ \E f \in Forwards : RedriveEnqueue(r, f)
    \/ RedriveCommit(r)

Fairness ==
    /\ WF_vars(Tick)
    /\ \A f \in Forwards : WF_vars(CommitRequest(f)) /\ WF_vars(BackgroundEnqueue(f))
    /\ \A w \in Workers : WF_vars(SlotProgress(w))
    /\ \A r \in Redrivers : WF_vars(RedriveProgress(r))

FairSpec == Spec /\ Fairness

-----------------------------------------------------------------------------
(* Properties that hold whatever the operators do and the faults hit.      *)

(* forward_completed_at is set exactly on the rows that are over.  Six     *)
(* statements write one of the two columns, none reads the other, and      *)
(* their order is free (record_outcome, manual retry, abandon, reclaim).   *)
CompletedIffTerminal ==
    \A f \in Forwards : Exists(forwards[f]) =>
        (forwards[f].completed <=> forwards[f].status \in Terminal)

(* The committed row under an open transaction stays what the transaction  *)
(* saw: row locks and the WHERE clauses keep two redrives, or a redrive    *)
(* and a retry, from taking one forward, and workers, abandons and the     *)
(* cleaner from changing it before the commit (get_session, deps.py:68-76).*)
OpenTransactionsHoldTheirRows ==
    \A f \in Forwards :
        /\ requests[f].kind = "capture" => forwards[f].status = "absent"
        /\ requests[f].kind = "retry"   => ManualRetry_Where(forwards[f])
        /\ \A r \in Redrivers : f \in redrives[r].reclaimed =>
              /\ forwards[f].status = "in_flight"
              /\ \A s \in Redrivers \ {r} : f \notin redrives[s].reclaimed

(* Slot w holds a claim on f whose outcome is not recorded yet.            *)
Attempting(w, f) == slots[w].f = f /\ slots[w].pc \in {"http", "record"}

(* A redrive never takes a forward away from a worker that is still        *)
(* attempting it: the reclaim threshold outlasts job_timeout, also when an *)
(* abandon and a manual retry put two attempts on one row and the age on   *)
(* the row is not that of the attempt (redrive_pending_forwards.py:32-35). *)
ReclaimSparesLiveAttempts ==
    \A w \in Workers, f \in Forwards :
        Attempting(w, f) => ~Reclaim_Where(forwards[f])

-----------------------------------------------------------------------------
(* Properties of the pipeline as long as nobody abandons a forward.        *)

(* The claim of claim_for_attempt is exclusive until the outcome is        *)
(* recorded: at most one worker attempts a forward, however many jobs,     *)
(* redrives, retries and crashed workers there are.                        *)
OneLiveAttempt ==
    \A w, v \in Workers, f \in Forwards :
        Attempting(w, f) /\ Attempting(v, f) => w = v

(* What a worker carries from TX1 to TX2 is still what the row says: the   *)
(* unconditional UPDATE of record_outcome (forward_repository.py:103-113)  *)
(* overwrites the attempt it belongs to and no other.                      *)
RecordHitsItsOwnAttempt ==
    \A w \in Workers, f \in Forwards : Attempting(w, f) =>
        \/ forwards[f].status = "deleted"
        \/ /\ forwards[f].status = "in_flight"
           /\ forwards[f].attempt_count = slots[w].attempt

(* verifying-forwards.md:85-93 promises at most MAX_ATTEMPTS attempts.      *)
(* Only an attempt that was lost between its claim and its outcome, and    *)
(* then reclaimed, adds to them, by one each; a manual retry does not,     *)
(* for it winds the count of a dead forward back first.                    *)
BoundedOverrun ==
    \A f \in Forwards : forwards[f].attempt_count <= MaxAttempts + budget.faults

(* The Idempotency-Key a receiver dedupes on is the forward and the number *)
(* of its attempt (execute_forward.py:210).  verifying-forwards.md:112-113 *)
(* says that two deliveries with the same key are "possible during arq     *)
(* worker restarts".  They are not: TX1 commits the number before the      *)
(* request leaves, and no crash, timeout, shutdown, duplicate job, reclaim *)
(* or redrive sends it again.  The number of a request about to leave was  *)
(* used before in one case only: a manual retry wound the count of a       *)
(* forward that was over back below MAX_ATTEMPTS.                          *)
Renumbered(n) == n >= MaxAttempts /\ budget.retries > 0

UniqueIdempotencyKeys ==
    \A w \in Workers : slots[w].pc = "http" /\ ~Renumbered(slots[w].attempt) =>
        /\ slots[w].attempt \notin sent[slots[w].f]
        /\ \A v \in Workers \ {w} :
              slots[v].pc = "http" /\ slots[v].f = slots[w].f =>
                 slots[v].attempt # slots[w].attempt

(* The detailed pipeline implements the lifecycle its owner sees.          *)
OwnerView == [f \in Forwards |-> [status  |-> forwards[f].status,
                                  attempt |-> forwards[f].attempt_count]]

Lifecycle == INSTANCE ForwardLifecycle WITH state <- OwnerView

ImplementsLifecycle == Lifecycle!Spec

-----------------------------------------------------------------------------
(* Properties of undisturbed operation: no fault, no retry, no redrive.    *)

(* Something will attempt f: a queued job, a job about to claim, or the    *)
(* worker about to re-enqueue it.  arq does not poll the table, so a       *)
(* forward without any of them waits forever.                              *)
InHand(f) ==
    \/ \E d \in Defers : jobs[f][d].state = "queued"
    \/ \E w \in Workers : slots[w].f = f /\ slots[w].pc \in {"claim", "enqueue"}

(* A forward whose attempt failed is never forgotten: the job of its delay *)
(* is in the queue under an id of its own (arq_forward_queue.py:25-32),    *)
(* which no job or kept result of the earlier attempts takes.              *)
FailedIsScheduled ==
    \A f \in Forwards : forwards[f].status = "failed" => InHand(f)

(* No attempt starts before the delay that decide() asked for is over.     *)
BackoffRespected ==
    [][\A f \in Forwards :
         forwards[f].status # "in_flight" /\ forwards'[f].status = "in_flight"
            => backoff[f] = 0]_vars

(* Every captured forward is eventually over, as long as somebody redrives:*)
(* without, a first job that finds no row to claim, or is lost, is the end.*)
EventuallySettled ==
    \A f \in Forwards :
        Exists(forwards[f]) ~> forwards[f].status \in Terminal \cup {"deleted"}

(* Once a forward was attempted nobody has to redrive it: it is eventually *)
(* over, though all the endpoint's forwards share the slots.               *)
AttemptedIsSettled ==
    \A f \in Forwards :
        forwards[f].status = "in_flight"
            ~> forwards[f].status \in Terminal \cup {"deleted"}

-----------------------------------------------------------------------------
(* What the repository says of the program and the program does not do.    *)

(* web/ingestor/routes.py:165-171: the commit precedes the background task, *)
(* which "guarantees" that the worker sees a committed row.  A captured     *)
(* forward, then, waits in somebody's hand.                                 *)
Scheduled ==
    \A f \in Forwards : forwards[f].status \in {"pending", "failed"} => InHand(f)

(* web/app/routes.py:557-561: a manual retry flips the row to 'pending' and *)
(* enqueues it, so a forward that was retried waits in somebody's hand.     *)
RetriedIsScheduled ==
    \A f \in Forwards :
        forwards[f].status = "pending" /\ forwards[f].attempt_count > 0 => InHand(f)

(* ports/forward_repository.py:102-106 counts 'abandoned' among the        *)
(* terminal states, entered because the owner "has accepted that a         *)
(* delivery will never succeed" (abandon_forward.py:3-6): only the owner's *)
(* retry leaves it, never the worker that was attempting the forward.      *)
AbandonedStaysAbandoned ==
    [][\A f \in Forwards :
         forwards[f].status = "abandoned" /\ ~CommitRequest(f)
            => forwards'[f].status \in {"abandoned", "deleted"}]_vars

(* ports/forward_repository.py:162-164: the sweep of overdue rows          *)
(* "naturally excludes freshly-failed forwards whose backoff window is     *)
(* still in the future".                                                   *)
RedriveSparesBackoff ==
    [][\A r \in Redrivers : RedriveListFailed(r) =>
          \A f \in redrives'[r].todo : backoff[f] = 0]_vars

==============================================================================
