------------------------ MODULE ForwardPipelineProofs ------------------------
(***************************************************************************)
(* Safety theorems about ForwardPipeline, for every number of forwards,    *)
(* workers and redrives, every backoff table and every bound.              *)
(***************************************************************************)
EXTENDS ForwardPipelineTypes

-----------------------------------------------------------------------------
(* The inductive invariants, weakest assumptions first.                    *)

(* CompletedIffTerminal, of the rows before and after their life too: the  *)
(* capture inserts, and a deleted row is, one that is not completed.       *)
CompletionInv ==
    \A f \in Forwards : forwards[f].completed <=> forwards[f].status \in Terminal

RowInv == TypeInv /\ CompletionInv /\ OpenTransactionsHoldTheirRows

(* Two attempts on one row (after an abandon and a manual retry) are less  *)
(* than a job_timeout apart, so the row's age is not far from either's.    *)
AttemptAges ==
    \A w \in Workers, f \in Forwards :
        Attempting(w, f) /\ forwards[f].status = "in_flight" =>
            forwards[f].started_age <= slots[w].elapsed + JobTimeout

AgeInv == RowInv /\ AttemptAges

-----------------------------------------------------------------------------
(* What the statements do to the columns the invariants are about.         *)

(* claim_for_attempt (forward_repository.py:73-90)                         *)
LEMMA ClaimFields ==
    ASSUME NEW r \in Row, NEW age
    PROVE  /\ ClaimForAttempt_Set(r, age).status = "in_flight"
           /\ ClaimForAttempt_Set(r, age).attempt_count = r.attempt_count + 1
           /\ ClaimForAttempt_Set(r, age).started_age = age
           /\ ClaimForAttempt_Set(r, age).completed = r.completed
BY DEF ClaimForAttempt_Set, Row

(* record_outcome (forward_repository.py:92-114)                           *)
LEMMA RecordFields ==
    ASSUME NEW r \in Row, NEW next
    PROVE  /\ RecordOutcome_Set(r, next).status = next
           /\ RecordOutcome_Set(r, next).attempt_count = r.attempt_count
           /\ RecordOutcome_Set(r, next).completed <=> next \in {"succeeded", "dead"}
BY DEF RecordOutcome_Set, Row

(* claim_for_manual_retry (forward_repository.py:167-205)                  *)
LEMMA ManualRetryFields ==
    ASSUME NEW r \in Row
    PROVE  /\ ManualRetry_Set(r).status = "pending"
           /\ ManualRetry_Set(r).attempt_count =
                 IF r.status \in {"dead", "abandoned"} THEN MaxAttempts - 1
                 ELSE r.attempt_count
           /\ ManualRetry_Set(r).completed = FALSE
BY DEF ManualRetry_Set, Row

(* abandon (forward_repository.py:207-230)                                 *)
LEMMA AbandonFields ==
    ASSUME NEW r \in Row
    PROVE  /\ Abandon_Set(r).status = "abandoned"
           /\ Abandon_Set(r).attempt_count = r.attempt_count
           /\ Abandon_Set(r).completed = TRUE
BY DEF Abandon_Set, Row

(* reclaim_stuck_in_flight (forward_repository.py:252-271)                 *)
LEMMA ReclaimFields ==
    ASSUME NEW r \in Row
    PROVE  /\ Reclaim_Set(r).status = "failed"
           /\ Reclaim_Set(r).attempt_count = r.attempt_count
           /\ Reclaim_Set(r).completed = r.completed
BY DEF Reclaim_Set, Row

(* The insert of a captured forward (save, forward_repository.py:17-39)    *)
LEMMA InsertFields ==
    ASSUME NEW r \in Row
    PROVE  /\ [r EXCEPT !.status = "pending"].status = "pending"
           /\ [r EXCEPT !.status = "pending"].attempt_count = r.attempt_count
           /\ [r EXCEPT !.status = "pending"].completed = r.completed
BY DEF Row

(* Time passing over a row                                                 *)
LEMMA AgedFields ==
    ASSUME NEW r \in Row
    PROVE  /\ Aged(r).status = r.status
           /\ Aged(r).attempt_count = r.attempt_count
           /\ Aged(r).completed = r.completed
           /\ Aged(r).started_age <= r.started_age + 1
<1>1. Older(r.started_age, StuckInFlight + 1) <= r.started_age + 1
  BY ThresholdTypes DEF Older, Row
<1>2. r.started_age <= r.started_age + 1
  BY ThresholdTypes DEF Row
<1>3. QED
  BY <1>1, <1>2 DEF Aged, Row

(* The row outside its life                                                *)
LEMMA DeletedFields ==
    /\ AbsentRow.status = "absent" /\ AbsentRow.attempt_count = 0
    /\ AbsentRow.completed = FALSE
    /\ [AbsentRow EXCEPT !.status = "deleted"].status = "deleted"
    /\ [AbsentRow EXCEPT !.status = "deleted"].attempt_count = 0
    /\ [AbsentRow EXCEPT !.status = "deleted"].completed = FALSE
BY DEF AbsentRow, Created

-----------------------------------------------------------------------------
(* What the steps of one part leave alone in the others.                   *)

(* Only Claim and Record touch the table; a slot other than w stays, and   *)
(* w attempts what it attempted before unless it just claimed.             *)
LEMMA WorkerFrame ==
    ASSUME TypeInv, NEW w \in Workers, WorkerStep(w)
    PROVE  /\ UNCHANGED <<requests, redrives>>
           /\ Claim(w) \/ Record(w) \/ UNCHANGED forwards
           /\ \A v \in Workers \ {w} : slots'[v] = slots[v]
           /\ ~Claim(w) => \A f \in Forwards : Attempting(w, f)' =>
                 /\ Attempting(w, f) /\ ~Record(w)
                 /\ slots'[w].elapsed = slots[w].elapsed
                 /\ slots'[w].attempt = slots[w].attempt
<1> slots \in [Workers -> Slot]
  BY DEF TypeInv, TypeOK
<1> USE DEF Attempting
<1>1. ASSUME NEW js, EndJob(w, js)
      PROVE  /\ \A v \in Workers \ {w} : slots'[v] = slots[v]
             /\ \A f \in Forwards : ~Attempting(w, f)'
  BY <1>1 DEF EndJob, IdleSlot
<1>2. ASSUME NEW f \in Forwards, NEW d \in Defers,
             StartJob(w, f, d) \/ DropJob(w, f, d)
      PROVE  /\ UNCHANGED <<requests, redrives, forwards>>
             /\ \A v \in Workers \ {w} : slots'[v] = slots[v]
             /\ \A g \in Forwards : ~Attempting(w, g)'
  BY <1>2 DEF StartJob, DropJob, IdleSlot
<1>3. CASE Claim(w)
  BY <1>3 DEF Claim
<1>4. CASE SkipClaim(w) \/ Raise(w) \/ EnqueueRetry(w)
  BY <1>1, <1>4 DEF SkipClaim, Raise, EnqueueRetry
<1>5. ASSUME NEW dec, NEW left, HttpOutcome(w, dec, left)
      PROVE  /\ UNCHANGED <<requests, redrives, forwards>>
             /\ \A v \in Workers \ {w} : slots'[v] = slots[v]
             /\ \A f \in Forwards : Attempting(w, f)' =>
                   /\ Attempting(w, f) /\ slots[w].pc = "http"
                   /\ slots'[w].elapsed = slots[w].elapsed
                   /\ slots'[w].attempt = slots[w].attempt
  BY <1>5 DEF HttpOutcome, Slot
<1>6. CASE Record(w)
  <2>1. /\ \A v \in Workers \ {w} : slots'[v] = slots[v]
        /\ \A f \in Forwards : ~Attempting(w, f)'
    BY <1>1, <1>6 DEF Record, Slot
  <2>2. UNCHANGED <<requests, redrives>>
    BY <1>6 DEF Record
  <2>3. QED
    BY <1>6, <2>1, <2>2
<1>7. ASSUME NEW wait, Requeue(w, wait)
      PROVE  /\ UNCHANGED <<requests, redrives, forwards>>
             /\ \A v \in Workers \ {w} : slots'[v] = slots[v]
             /\ \A f \in Forwards : ~Attempting(w, f)'
  BY <1>7 DEF Requeue, IdleSlot
<1>8. slots[w].pc = "http" => ~Record(w)
  BY DEF Record
<1>9. CASE \E f \in Forwards, d \in Defers : StartJob(w, f, d) \/ DropJob(w, f, d)
  BY <1>2, <1>9
<1>10. CASE \/ \E status \in Responses : HttpResponse(w, status)
            \/ HttpNetworkError(w)
            \/ HttpSsrfBlocked(w)
  <2>1. \E dec, left : HttpOutcome(w, dec, left)
    BY <1>10 DEF HttpResponse, HttpNetworkError, HttpSsrfBlocked
  <2>2. QED
    BY <1>5, <1>8, <2>1
<1>11. CASE Crash(w) \/ Shutdown(w)
  <2>1. \E wait : Requeue(w, wait)
    BY <1>11 DEF Crash, Shutdown
  <2>2. QED
    BY <1>7, <2>1
<1>12. QED
  BY <1>3, <1>4, <1>6, <1>9, <1>10, <1>11 DEF WorkerStep

(* Web requests, redrives and the cleaner do not touch the slots, and put  *)
(* no forward in flight.                                                   *)
LEMMA OwnerFrame ==
    ASSUME TypeInv,
           \/ \E f \in Forwards : WebStep(f)
           \/ \E r \in Redrivers : RedriveStep(r)
           \/ DeleteExpired
    PROVE  /\ UNCHANGED slots
           /\ \A f \in Forwards :
                 forwards'[f].status = "in_flight" => forwards'[f] = forwards[f]
<1> forwards \in [Forwards -> Row]
  BY DEF TypeInv, TypeOK
<1>1. ASSUME NEW f \in Forwards, WebStep(f)
      PROVE  /\ UNCHANGED slots
             /\ \A g \in Forwards :
                   forwards'[g].status = "in_flight" => forwards'[g] = forwards[g]
  <2>1. CASE CommitRequest(f)
    BY <2>1, ManualRetryFields, InsertFields DEF CommitRequest, Update
  <2>2. CASE AbandonForward(f)
    BY <2>2, AbandonFields DEF AbandonForward, Update
  <2>3. CASE \/ Capture(f) \/ RetryForward(f) \/ BackgroundEnqueue(f)
             \/ BackgroundLost(f) \/ RequestRollback(f)
    BY <2>3 DEF Capture, RetryForward, BackgroundEnqueue, BackgroundLost,
                RequestRollback
  <2>4. QED
    BY <1>1, <2>1, <2>2, <2>3 DEF WebStep
<1>2. ASSUME NEW r \in Redrivers, RedriveStep(r)
      PROVE  /\ UNCHANGED slots
             /\ \A g \in Forwards :
                   forwards'[g].status = "in_flight" => forwards'[g] = forwards[g]
  <2>1. CASE RedriveCommit(r)
    BY <2>1, ReclaimFields DEF RedriveCommit, Seen
  <2>2. CASE ~RedriveCommit(r)
    BY <1>2, <2>2 DEF RedriveStep, RedriveReclaim, RedriveListFailed,
       RedriveListPending, RedriveEnqueue, RedriveEnqueueFails, RedriveRollback
  <2>3. QED
    BY <2>1, <2>2
<1>3. CASE DeleteExpired
  BY <1>3, DeletedFields DEF DeleteExpired
<1>4. QED
  BY <1>1, <1>2, <1>3

-----------------------------------------------------------------------------
(* CompletionInv and the open transactions, step by step.                  *)

(* An empty table has no completed row and no row under a transaction.     *)
LEMMA InitRows == Init => RowInv
<1> SUFFICES ASSUME Init PROVE RowInv
  OBVIOUS
<1>1. CompletionInv
  BY DeletedFields DEF Init, CompletionInv, Terminal
<1>2. OpenTransactionsHoldTheirRows
  BY DEF Init, OpenTransactionsHoldTheirRows, NoRequest, IdleRedrive
<1>3. QED
  BY <1>1, <1>2, InitTypes DEF RowInv

(* Capture, retry and abandon: completed with the terminal status, never under a lock. *)
LEMMA WebRows ==
    ASSUME RowInv, NEW f \in Forwards, WebStep(f)
    PROVE  CompletionInv' /\ OpenTransactionsHoldTheirRows'
<1> /\ forwards \in [Forwards -> Row]
    /\ requests \in [Forwards -> Request]
    /\ CompletionInv /\ OpenTransactionsHoldTheirRows
  BY DEF RowInv, TypeInv, TypeOK
<1> USE DEF CompletionInv, OpenTransactionsHoldTheirRows
<1>1. CASE Capture(f)
  BY <1>1 DEF Capture, ManualRetry_Where, Request
<1>2. CASE RetryForward(f)
  BY <1>2 DEF RetryForward, ManualRetry_Where, Request
<1>3. CASE CommitRequest(f)
  <2>1. /\ forwards' = [forwards EXCEPT ![f] = forwards'[f]]
        /\ forwards'[f].status = "pending" /\ ~forwards'[f].completed
    <3>1. CASE requests[f].kind = "retry"
      BY <1>3, <3>1, ManualRetryFields DEF CommitRequest, Update
    <3>2. CASE requests[f].kind # "retry"
      <4>1. requests[f].kind = "capture"
        BY <1>3, <3>2 DEF CommitRequest, Request, Kinds
      <4>2. ~forwards[f].completed
        BY <4>1 DEF Terminal, Row
      <4>3. QED
        BY <1>3, <3>2, <4>2, InsertFields DEF CommitRequest, Update
    <3>3. QED
      BY <3>1, <3>2
  <2>2. /\ requests' = [requests EXCEPT ![f] = NoRequest]
        /\ UNCHANGED redrives
        /\ requests[f].kind \in {"capture", "retry"}
    BY <1>3 DEF CommitRequest, Request, Kinds
  <2>3. CompletionInv'
    BY <2>1 DEF Terminal
  <2>4. \A r \in Redrivers : f \notin redrives[r].reclaimed
    BY <2>2 DEF ManualRetry_Where
  <2>5. OpenTransactionsHoldTheirRows'
    BY <2>1, <2>2, <2>4 DEF NoRequest
  <2>6. QED
    BY <2>3, <2>5
<1>4. CASE BackgroundEnqueue(f) \/ BackgroundLost(f)
  <2>1. /\ UNCHANGED <<forwards, redrives>>
        /\ \A g \in Forwards : requests'[g].kind = requests[g].kind
    BY <1>4 DEF BackgroundEnqueue, BackgroundLost, RunBackground, Request
  <2>2. QED
    BY <2>1
<1>5. CASE RequestRollback(f)
  BY <1>5 DEF RequestRollback, NoRequest
<1>6. CASE AbandonForward(f)
  <2>1. /\ forwards' = [forwards EXCEPT ![f] = forwards'[f]]
        /\ forwards'[f].status = "abandoned" /\ forwards'[f].completed
    BY <1>6, AbandonFields DEF AbandonForward, Update
  <2>2. /\ UNCHANGED <<requests, redrives>>
        /\ ~Locked(f) /\ forwards[f].status # "absent"
    BY <1>6 DEF AbandonForward, Abandon_Where, Exists, Statuses
  <2>3. CompletionInv'
    BY <2>1 DEF Terminal
  <2>4. OpenTransactionsHoldTheirRows'
    BY <2>1, <2>2 DEF Locked
  <2>5. QED
    BY <2>3, <2>4
<1>7. QED
  BY <1>1, <1>2, <1>3, <1>4, <1>5, <1>6 DEF WebStep

(* A redrive takes only in_flight rows that no other transaction holds.    *)
LEMMA RedriveRows ==
    ASSUME RowInv, NEW r \in Redrivers, RedriveStep(r)
    PROVE  CompletionInv' /\ OpenTransactionsHoldTheirRows'
<1> /\ forwards \in [Forwards -> Row]
    /\ redrives \in [Redrivers -> Redrive]
    /\ CompletionInv /\ OpenTransactionsHoldTheirRows
  BY DEF RowInv, TypeInv, TypeOK
<1> USE DEF CompletionInv, OpenTransactionsHoldTheirRows
<1>1. CASE RedriveReclaim(r)
  <2> DEFINE stuck == {f \in Forwards : Reclaim_Where(forwards[f])}
  <2>1. /\ redrives' = [redrives EXCEPT ![r] = redrives'[r]]
        /\ redrives'[r].reclaimed = stuck
        /\ UNCHANGED <<forwards, requests>>
        /\ \A f \in stuck : ~Locked(f)
    BY <1>1 DEF RedriveReclaim, Redrive
  <2>2. \A f \in stuck : forwards[f].status = "in_flight"
    BY DEF Reclaim_Where
  <2>3. QED
    BY <2>1, <2>2 DEF Locked
<1>2. CASE \/ RedriveListFailed(r) \/ RedriveListPending(r)
           \/ \E f \in Forwards : RedriveEnqueue(r, f) \/ RedriveEnqueueFails(r, f)
  <2>1. /\ UNCHANGED <<forwards, requests>>
        /\ \A s \in Redrivers : redrives'[s].reclaimed = redrives[s].reclaimed
    <3>1. CASE RedriveListFailed(r)
      BY <3>1 DEF RedriveListFailed, Redrive
    <3>2. CASE RedriveListPending(r)
      BY <3>2 DEF RedriveListPending, Redrive
    <3>3. ASSUME NEW f \in Forwards, RedriveEnqueue(r, f) \/ RedriveEnqueueFails(r, f)
          PROVE  /\ UNCHANGED <<forwards, requests>>
                 /\ redrives' = [redrives EXCEPT ![r] =
                                   [redrives[r] EXCEPT !.todo = redrives[r].todo \ {f}]]
      BY <3>3 DEF RedriveEnqueue, RedriveEnqueueFails
    <3>4. QED
      BY <1>2, <3>1, <3>2, <3>3 DEF Redrive
  <2>2. QED
    BY <2>1
<1>3. CASE RedriveRollback(r)
  BY <1>3 DEF RedriveRollback, IdleRedrive
<1>4. CASE RedriveCommit(r)
  <2>1. /\ redrives' = [redrives EXCEPT ![r] = IdleRedrive]
        /\ UNCHANGED requests
    BY <1>4 DEF RedriveCommit
  <2>2. \A f \in Forwards :
           IF f \in redrives[r].reclaimed
           THEN /\ forwards'[f].status = "failed"
                /\ forwards'[f].completed = forwards[f].completed
                /\ forwards[f].status = "in_flight"
           ELSE forwards'[f] = forwards[f]
    BY <1>4, ReclaimFields DEF RedriveCommit, Seen
  <2>3. CompletionInv'
    BY <2>2 DEF Terminal
  <2>4. OpenTransactionsHoldTheirRows'
    <3>1. ASSUME NEW f \in Forwards
          PROVE  /\ requests[f].kind = "capture" => forwards'[f].status = "absent"
                 /\ requests[f].kind = "retry" => ManualRetry_Where(forwards'[f])
      BY <2>2 DEF ManualRetry_Where
    <3>2. ASSUME NEW f \in Forwards, NEW q \in Redrivers, f \in redrives'[q].reclaimed
          PROVE  /\ forwards'[f].status = "in_flight"
                 /\ \A p \in Redrivers \ {q} : f \notin redrives'[p].reclaimed
      <4>1. q # r /\ f \in redrives[q].reclaimed
        BY <2>1, <3>2 DEF IdleRedrive
      <4>2. /\ f \notin redrives[r].reclaimed /\ forwards[f].status = "in_flight"
            /\ \A p \in Redrivers \ {q} : f \notin redrives[p].reclaimed
        BY <4>1
      <4>3. QED
        BY <2>1, <2>2, <4>2 DEF IdleRedrive
    <3>3. QED
      BY <2>1, <3>1, <3>2
  <2>5. QED
    BY <2>3, <2>4
<1>5. QED
  BY <1>1, <1>2, <1>3, <1>4 DEF RedriveStep

(* TX1 and TX2 wait for a locked row, and TX2 completes it with its final status. *)
LEMMA WorkerRows ==
    ASSUME RowInv, NEW w \in Workers, WorkerStep(w)
    PROVE  CompletionInv' /\ OpenTransactionsHoldTheirRows'
<1> /\ forwards \in [Forwards -> Row] /\ TypeInv
    /\ CompletionInv /\ OpenTransactionsHoldTheirRows
  BY DEF RowInv, TypeInv, TypeOK
<1> DEFINE f == slots[w].f
<1> USE DEF CompletionInv, OpenTransactionsHoldTheirRows
<1>1. UNCHANGED <<requests, redrives>>
  BY WorkerFrame
<1>2. CASE UNCHANGED forwards
  BY <1>1, <1>2
<1>3. CASE Claim(w)
  <2>1. f \in Forwards /\ ClaimForAttempt_Where(forwards[f]) /\ ~Locked(f)
    BY <1>3 DEF Claim, TypeInv, GoodSlot
  <2>2. /\ forwards' = [forwards EXCEPT ![f] = forwards'[f]]
        /\ forwards'[f].status = "in_flight"
        /\ forwards'[f].completed = forwards[f].completed
    BY <1>3, <2>1, ClaimFields DEF Claim, Update
  <2>3. CompletionInv'
    BY <2>1, <2>2 DEF ClaimForAttempt_Where, Terminal
  <2>4. OpenTransactionsHoldTheirRows'
    BY <1>1, <2>1, <2>2 DEF Locked, ClaimForAttempt_Where
  <2>5. QED
    BY <2>3, <2>4
<1>4. CASE Record(w) /\ ~UNCHANGED forwards
  <2>1. /\ f \in Forwards /\ RecordOutcome_Where(forwards[f]) /\ ~Locked(f)
        /\ slots[w].next_status \in {"succeeded", "failed", "dead"}
    BY <1>4 DEF Record, Update, TypeInv, GoodSlot
  <2>2. /\ forwards' = [forwards EXCEPT ![f] = forwards'[f]]
        /\ forwards'[f].status = slots[w].next_status
        /\ forwards'[f].completed <=> slots[w].next_status \in {"succeeded", "dead"}
    <3>1. forwards' = [forwards EXCEPT ![f] =
                         RecordOutcome_Set(forwards[f], slots[w].next_status)]
      BY <1>4, <2>1 DEF Record, Update
    <3>2. forwards[f] \in Row
      BY <2>1
    <3>3. QED
      BY <2>1, <3>1, <3>2, RecordFields
  <2>3. CompletionInv'
    BY <2>1, <2>2 DEF Terminal
  <2>4. OpenTransactionsHoldTheirRows'
    BY <1>1, <2>1, <2>2 DEF Locked, RecordOutcome_Where, Exists, Statuses
  <2>5. QED
    BY <2>3, <2>4
<1>5. QED
  BY <1>2, <1>3, <1>4, WorkerFrame

(* The cleaner waits for locked rows; time changes no status.              *)
LEMMA ClockRows ==
    ASSUME RowInv, DeleteExpired \/ Tick \/ UNCHANGED vars
    PROVE  CompletionInv' /\ OpenTransactionsHoldTheirRows'
<1> /\ forwards \in [Forwards -> Row]
    /\ CompletionInv /\ OpenTransactionsHoldTheirRows
  BY DEF RowInv, TypeInv, TypeOK
<1> USE DEF CompletionInv, OpenTransactionsHoldTheirRows
<1>1. CASE DeleteExpired
  <2>1. \A f \in Forwards : /\ forwards'[f].status = "deleted"
                            /\ ~forwards'[f].completed
                            /\ requests'[f].kind = "none"
    BY <1>1, DeletedFields DEF DeleteExpired
  <2>2. \A r \in Redrivers, f \in Forwards : f \notin redrives'[r].reclaimed
    BY <1>1 DEF DeleteExpired, Exists, Statuses, Locked
  <2>3. QED
    BY <2>1, <2>2 DEF Terminal
<1>2. CASE Tick
  <2>1. \A f \in Forwards : /\ forwards'[f].status = forwards[f].status
                            /\ forwards'[f].completed = forwards[f].completed
    BY <1>2, AgedFields DEF Tick
  <2>2. UNCHANGED <<requests, redrives>>
    BY <1>2 DEF Tick
  <2>3. QED
    BY <2>1, <2>2 DEF ManualRetry_Where
<1>3. CASE UNCHANGED vars
  BY <1>3 DEF vars
<1>4. QED
  BY <1>1, <1>2, <1>3

(* Every step keeps completion and the rows under open transactions.       *)
LEMMA NextRows == RowInv /\ [Next]_vars => RowInv'
<1> SUFFICES ASSUME RowInv, [Next]_vars PROVE RowInv'
  OBVIOUS
<1>1. TypeInv'
  BY NextTypes DEF RowInv
<1>2. CompletionInv' /\ OpenTransactionsHoldTheirRows'
  BY WebRows, RedriveRows, WorkerRows, ClockRows DEF Next
<1>3. QED
  BY <1>1, <1>2 DEF RowInv

(* forward_completed_at is set exactly on the forwards that are over, for  *)
(* any interleaving of workers, redrives, retries, abandons and crashes.   *)
THEOREM CompletedExactlyWhenOver == Spec => []CompletedIffTerminal
<1>1. RowInv => CompletedIffTerminal
  BY DEF RowInv, CompletionInv, CompletedIffTerminal
<1>2. QED
  BY <1>1, InitRows, NextRows, PTL DEF Spec

(* The rows under an open transaction do not change before its commit.     *)
THEOREM TransactionsHoldTheirRows == Spec => []OpenTransactionsHoldTheirRows
<1>1. RowInv => OpenTransactionsHoldTheirRows
  BY DEF RowInv
<1>2. QED
  BY <1>1, InitRows, NextRows, PTL DEF Spec

-----------------------------------------------------------------------------
(* The age of a row that is being attempted.                               *)

(* A worker that does not claim leaves every row in flight as it is, or    *)
(* takes it out of flight.                                                 *)
LEMMA NoNewFlight ==
    ASSUME TypeInv, NEW w \in Workers, WorkerStep(w), ~Claim(w),
           NEW f \in Forwards, forwards'[f].status = "in_flight"
    PROVE  forwards'[f] = forwards[f]
<1> forwards \in [Forwards -> Row]
  BY DEF TypeInv, TypeOK
<1>1. CASE UNCHANGED forwards
  BY <1>1
<1>2. CASE Record(w) /\ RecordOutcome_Where(forwards[slots[w].f])
  <2>1. /\ slots[w].f \in Forwards
        /\ slots[w].next_status # "in_flight"
        /\ forwards' = [forwards EXCEPT ![slots[w].f] =
              RecordOutcome_Set(forwards[slots[w].f], slots[w].next_status)]
    BY <1>2 DEF Record, Update, TypeInv, GoodSlot
  <2>2. QED
    BY <2>1, RecordFields
<1>3. CASE Record(w) /\ ~RecordOutcome_Where(forwards[slots[w].f])
  BY <1>3 DEF Record, Update
<1>4. QED
  BY <1>1, <1>2, <1>3, WorkerFrame

(* Every step keeps the age on a row within a job_timeout of its attempts.  *)
LEMMA NextAges == AgeInv /\ [Next]_vars => AgeInv'
<1> SUFFICES ASSUME AgeInv, [Next]_vars PROVE AgeInv'
  OBVIOUS
<1> RowInv /\ TypeInv /\ AttemptAges
  BY DEF AgeInv, RowInv
<1>1. RowInv' /\ TypeInv'
  BY NextRows DEF RowInv
<1>2. ASSUME \/ \E f \in Forwards : WebStep(f)
             \/ \E r \in Redrivers : RedriveStep(r)
             \/ DeleteExpired
      PROVE  AttemptAges'
  BY <1>2, OwnerFrame DEF AttemptAges, Attempting
<1>3. ASSUME NEW w \in Workers, WorkerStep(w), ~Claim(w) PROVE AttemptAges'
  <2>1. ASSUME NEW v \in Workers, NEW f \in Forwards, Attempting(v, f)'
        PROVE  Attempting(v, f) /\ slots'[v].elapsed = slots[v].elapsed
    BY <1>3, <2>1, WorkerFrame DEF Attempting
  <2>2. \A f \in Forwards :
           forwards'[f].status = "in_flight" => forwards'[f] = forwards[f]
    BY <1>3, NoNewFlight
  <2>3. QED
    BY <2>1, <2>2 DEF AttemptAges
<1>4. ASSUME NEW w \in Workers, Claim(w) PROVE AttemptAges'
  <2>1. /\ slots[w].f \in Forwards /\ forwards \in [Forwards -> Row]
        /\ slots[w].elapsed \in 0..JobTimeout
        /\ slots \in [Workers -> Slot]
    BY <1>4 DEF Claim, TypeInv, TypeOK, GoodSlot, Slot
  <2>2. /\ forwards' = [forwards EXCEPT ![slots[w].f] = forwards'[slots[w].f]]
        /\ forwards'[slots[w].f].started_age = slots[w].elapsed
    BY <1>4, <2>1, ClaimFields DEF Claim, Update
  <2>3. /\ \A v \in Workers \ {w} : slots'[v] = slots[v]
        /\ slots'[w].f = slots[w].f
    BY <1>4, <2>1 DEF Claim, Slot
  <2>4. SUFFICES ASSUME NEW v \in Workers, NEW f \in Forwards, Attempting(v, f)',
                        forwards'[f].status = "in_flight"
                 PROVE  forwards'[f].started_age <= slots'[v].elapsed + JobTimeout
    BY DEF AttemptAges
  <2>5. slots'[v].elapsed \in 0..JobTimeout
    BY <1>1 DEF TypeInv, GoodSlot, Slot
  <2>6. CASE f = slots[w].f
    BY <2>1, <2>2, <2>5, <2>6, TimeTypes
  <2>7. CASE f # slots[w].f
    <3>1. v # w
      BY <2>3, <2>4, <2>7 DEF Attempting
    <3>2. Attempting(v, f) /\ slots'[v] = slots[v] /\ forwards'[f] = forwards[f]
      BY <2>1, <2>2, <2>3, <2>4, <2>7, <3>1 DEF Attempting
    <3>3. QED
      BY <2>4, <3>2 DEF AttemptAges
  <2>8. QED
    BY <2>6, <2>7
<1>5. ASSUME Tick PROVE AttemptAges'
  <2>1. SUFFICES ASSUME NEW w \in Workers, NEW f \in Forwards, Attempting(w, f)',
                        forwards'[f].status = "in_flight"
                 PROVE  forwards'[f].started_age <= slots'[w].elapsed + JobTimeout
    BY DEF AttemptAges
  <2>2. /\ forwards[f] \in Row /\ slots[w] \in Slot
        /\ forwards'[f] \in Row /\ slots'[w] \in Slot
    BY <1>1 DEF TypeInv, TypeOK
  <2>3. Attempting(w, f) /\ slots'[w].elapsed = slots[w].elapsed + 1
    BY <1>5, <2>1, <2>2 DEF Tick, Attempting, Slot
  <2>4. /\ forwards'[f].status = forwards[f].status
        /\ forwards'[f].started_age <= forwards[f].started_age + 1
    <3>1. CASE forwards'[f] = Aged(forwards[f])
      BY <2>2, <3>1, AgedFields
    <3>2. CASE forwards'[f] = forwards[f]
      BY <2>2, <3>2, ThresholdTypes DEF Row
    <3>3. QED
      BY <1>5, <3>1, <3>2 DEF Tick
  <2>5. forwards[f].started_age <= slots[w].elapsed + JobTimeout
    BY <2>1, <2>3, <2>4 DEF AttemptAges
  <2>6. /\ forwards[f].started_age \in Int /\ forwards'[f].started_age \in Int
        /\ slots[w].elapsed \in Int
    BY <2>2, TimeTypes DEF Row, Slot
  <2>7. QED
    BY <2>3, <2>4, <2>5, <2>6, TimeTypes
<1>6. ASSUME UNCHANGED vars PROVE AttemptAges'
  BY <1>6 DEF AttemptAges, Attempting, vars
<1>7. AttemptAges'
  BY <1>2, <1>3, <1>4, <1>5, <1>6 DEF Next
<1>8. QED
  BY <1>1, <1>7 DEF AgeInv

(* There is no attempt at first.                                           *)
LEMMA InitAges == Init => AgeInv
<1>1. Init => AttemptAges
  BY DEF Init, AttemptAges, Attempting, IdleSlot
<1>2. QED
  BY <1>1, InitRows DEF AgeInv

(* TimingAssumption: a live attempt is too young for the reclaim threshold.  *)
LEMMA AgesSpareAttempts == AgeInv => ReclaimSparesLiveAttempts
<1> SUFFICES ASSUME AgeInv, NEW w \in Workers, NEW f \in Forwards,
                    Attempting(w, f), Reclaim_Where(forwards[f])
             PROVE  FALSE
  BY DEF ReclaimSparesLiveAttempts
<1>1. /\ forwards[f].started_age <= slots[w].elapsed + JobTimeout
      /\ forwards[f].started_age > StuckInFlight
  BY DEF AgeInv, AttemptAges, Reclaim_Where
<1>2. slots[w].elapsed \in 0..JobTimeout /\ forwards[f].started_age \in Int
  <2>1. slots[w] \in Slot /\ forwards[f] \in Row
    BY DEF AgeInv, RowInv, TypeInv, TypeOK
  <2>2. QED
    BY <2>1, ThresholdTypes DEF Slot, Row
<1>3. QED
  BY <1>1, <1>2, TimeTypes

(* A redrive never reclaims the row of a worker still attempting it, under *)
(* TimingAssumption: twice job_timeout (worker.py:250) is within           *)
(* STUCK_IN_FLIGHT_THRESHOLD_SECONDS.                                      *)
THEOREM ReclaimsOnlyLostAttempts == Spec => []ReclaimSparesLiveAttempts
BY InitAges, NextAges, AgesSpareAttempts, PTL DEF Spec
-----------------------------------------------------------------------------
(* The numbers of the attempts.  Only a manual retry winds a count back,   *)
(* and never below MAX_ATTEMPTS - 1, so what it has used again are the     *)
(* numbers that Renumbered lets alone.                                     *)

Sending(w, f) == slots[w].pc = "http" /\ slots[w].f = f

Covered(f, n) == n <= forwards[f].attempt_count \/ Renumbered(n)

(* The row's count has reached every number in use for the forward, sent   *)
(* or about to be.  A deleted row counts nothing and is never claimed.     *)
NumbersCounted ==
    \A f \in Forwards : forwards[f].status # "deleted" =>
        /\ \A n \in sent[f] : Covered(f, n)
        /\ \A w \in Workers : Sending(w, f) => Covered(f, slots[w].attempt)

RetriesCounted ==
    \A f \in Forwards : requests[f].kind = "retry" => budget.retries > 0

NumberInv == RowInv /\ RetriesCounted /\ NumbersCounted /\ UniqueIdempotencyKeys

(* An open retry was counted when it was opened, and no count goes down.   *)
LEMMA NextRetriesCounted ==
    ASSUME TypeInv, RetriesCounted, [Next]_vars
    PROVE  RetriesCounted' /\ budget'.retries >= budget.retries
<1> /\ requests \in [Forwards -> Request]
    /\ budget \in [faults : Nat, retries : Nat, abandons : Nat]
    /\ \A f \in Forwards : requests[f].kind = "retry" => budget.retries > 0
  BY DEF TypeInv, TypeOK, RetriesCounted
<1>1. ASSUME Fault PROVE budget'.retries = budget.retries
  BY <1>1 DEF Fault
<1>2. ASSUME NEW g \in Forwards, WebStep(g)
      PROVE  RetriesCounted' /\ budget'.retries >= budget.retries
  <2>1. CASE Capture(g)
    BY <2>1 DEF Capture, RetriesCounted, Request
  <2>2. CASE CommitRequest(g)
    BY <2>2 DEF CommitRequest, NoRequest, RetriesCounted
  <2>3. CASE RequestRollback(g)
    BY <1>1, <2>3 DEF RequestRollback, NoRequest, RetriesCounted
  <2>4. CASE BackgroundEnqueue(g) \/ BackgroundLost(g)
    BY <1>1, <2>4 DEF BackgroundEnqueue, BackgroundLost, RunBackground,
                      RetriesCounted, Request
  <2>5. CASE AbandonForward(g)
    <3>1. UNCHANGED requests /\ budget'.retries = budget.retries
      BY <2>5 DEF AbandonForward
    <3>2. QED
      BY <3>1 DEF RetriesCounted
  <2>6. CASE RetryForward(g)
    <3>1. budget'.retries = budget.retries + 1
      BY <2>6 DEF RetryForward
    <3>2. QED
      BY <3>1 DEF RetriesCounted
  <2>7. QED
    BY <1>2, <2>1, <2>2, <2>3, <2>4, <2>5, <2>6 DEF WebStep
<1>3. ASSUME UNCHANGED requests, Fault \/ UNCHANGED budget
      PROVE  RetriesCounted' /\ budget'.retries >= budget.retries
  BY <1>1, <1>3 DEF RetriesCounted
<1>4. ASSUME NEW r \in Redrivers, RedriveStep(r)
      PROVE  UNCHANGED requests /\ (Fault \/ UNCHANGED budget)
  BY <1>4 DEF RedriveStep, RedriveReclaim, RedriveListFailed, RedriveListPending,
     RedriveEnqueue, RedriveEnqueueFails, RedriveCommit, RedriveRollback
<1>5. ASSUME NEW w \in Workers, WorkerStep(w) PROVE Fault \/ UNCHANGED budget
  BY <1>5 DEF WorkerStep, StartJob, DropJob, Claim, SkipClaim, HttpResponse,
     HttpNetworkError, HttpSsrfBlocked, HttpOutcome, Record, EnqueueRetry, Raise,
     Crash, Shutdown, Requeue
<1>6. DeleteExpired \/ Tick \/ UNCHANGED vars => UNCHANGED <<requests, budget>>
  BY DEF DeleteExpired, Tick, vars
<1>7. QED
  BY <1>2, <1>3, <1>4, <1>5, <1>6, WorkerFrame DEF Next

(* Every step leaves a row its number, or counts it up, or deletes it, or  *)
(* winds it back for a manual retry.                                       *)
LEMMA CountsGrow ==
    ASSUME RowInv, RetriesCounted, [Next]_vars, NEW f \in Forwards,
           forwards'[f].status # "deleted"
    PROVE  /\ forwards[f].status # "deleted"
           /\ \/ forwards'[f].attempt_count >= forwards[f].attempt_count
              \/ /\ forwards'[f].attempt_count = MaxAttempts - 1
                 /\ budget.retries > 0
<1> /\ TypeInv /\ OpenTransactionsHoldTheirRows
    /\ forwards \in [Forwards -> Row] /\ forwards[f].attempt_count \in Nat
    /\ requests \in [Forwards -> Request]
  BY DEF RowInv, TypeInv, TypeOK, Row
<1>1. ASSUME NEW g \in Forwards, WebStep(g)
      PROVE  /\ forwards[f].status # "deleted"
             /\ \/ forwards'[f].attempt_count = forwards[f].attempt_count
                \/ /\ forwards'[f].attempt_count = MaxAttempts - 1
                   /\ budget.retries > 0
  <2>1. CASE CommitRequest(g) /\ requests[g].kind = "retry"
    <3>1. /\ forwards' = [forwards EXCEPT ![g] = ManualRetry_Set(forwards[g])]
          /\ ManualRetry_Where(forwards[g]) /\ budget.retries > 0
      BY <2>1 DEF CommitRequest, Update, RetriesCounted, OpenTransactionsHoldTheirRows
    <3>2. forwards[g].status # "deleted"
      BY <3>1 DEF ManualRetry_Where
    <3>3. QED
      BY <3>1, <3>2, ManualRetryFields
  <2>6. CASE CommitRequest(g) /\ requests[g].kind # "retry"
    <3>1. requests[g].kind = "capture" /\ forwards[g].status = "absent"
      BY <2>6 DEF CommitRequest, Request, Kinds, OpenTransactionsHoldTheirRows
    <3>2. forwards' = [forwards EXCEPT ![g] = [forwards[g] EXCEPT !.status = "pending"]]
      BY <2>6, <3>1 DEF CommitRequest, Update
    <3>3. QED
      BY <3>1, <3>2, InsertFields
  <2>2. CASE AbandonForward(g)
    BY <2>2, AbandonFields DEF AbandonForward, Update, Abandon_Where, Exists, Statuses
  <2>3. CASE \/ Capture(g) \/ RetryForward(g) \/ BackgroundEnqueue(g)
             \/ BackgroundLost(g) \/ RequestRollback(g)
    BY <2>3 DEF Capture, RetryForward, BackgroundEnqueue, BackgroundLost,
                RequestRollback
  <2>4. QED
    BY <1>1, <2>1, <2>2, <2>3, <2>6 DEF WebStep
<1>2. ASSUME NEW r \in Redrivers, RedriveStep(r)
      PROVE  /\ forwards[f].status # "deleted"
             /\ forwards'[f].attempt_count = forwards[f].attempt_count
  <2>1. CASE RedriveCommit(r)
    BY <2>1, ReclaimFields DEF RedriveCommit, Seen, OpenTransactionsHoldTheirRows
  <2>2. CASE ~RedriveCommit(r)
    BY <1>2, <2>2 DEF RedriveStep, RedriveReclaim, RedriveListFailed,
       RedriveListPending, RedriveEnqueue, RedriveEnqueueFails, RedriveRollback
  <2>3. QED
    BY <2>1, <2>2
<1>3. ~DeleteExpired
  BY DeletedFields DEF DeleteExpired
<1>4. CASE Tick
  BY <1>4, AgedFields DEF Tick
<1>5. ASSUME NEW w \in Workers, WorkerStep(w)
      PROVE  /\ forwards[f].status # "deleted"
             /\ forwards'[f].attempt_count >= forwards[f].attempt_count
  <2>1. CASE Claim(w)
    BY <2>1, ClaimFields DEF Claim, Update, ClaimForAttempt_Where
  <2>2. CASE Record(w) /\ RecordOutcome_Where(forwards[slots[w].f])
    <3>1. forwards' = [forwards EXCEPT ![slots[w].f] =
              RecordOutcome_Set(forwards[slots[w].f], slots[w].next_status)]
      BY <2>2 DEF Record, Update
    <3>2. QED
      BY <2>2, <3>1, RecordFields DEF RecordOutcome_Where, Exists, Statuses
  <2>3. CASE Record(w) /\ ~RecordOutcome_Where(forwards[slots[w].f])
    BY <2>3 DEF Record, Update
  <2>4. CASE UNCHANGED forwards
    BY <2>4
  <2>5. QED
    BY <1>5, <2>1, <2>2, <2>3, <2>4, WorkerFrame
<1>6. CASE UNCHANGED vars
  BY <1>6 DEF vars
<1>7. QED
  BY <1>1, <1>2, <1>3, <1>4, <1>5, <1>6 DEF Next

(* A request is out only if its worker was sending it, and no longer does; *)
(* and only a claim begins to send.                                        *)
LEMMA SendingFrame ==
    ASSUME TypeInv, [Next]_vars
    PROVE  \/ \E w \in Workers : Claim(w)
           \/ /\ \A f \in Forwards : \A n \in sent'[f] :
                    \/ n \in sent[f]
                    \/ \E w \in Workers : Sending(w, f) /\ slots[w].attempt = n
                                          /\ slots'[w].pc # "http"
              /\ \A w \in Workers : slots'[w].pc = "http" =>
                    /\ slots[w].pc = "http" /\ slots'[w].f = slots[w].f
                    /\ slots'[w].attempt = slots[w].attempt
<1> DEFINE Kept == /\ UNCHANGED sent
                   /\ \A w \in Workers : slots'[w].pc = "http" =>
                        /\ slots[w].pc = "http" /\ slots'[w].f = slots[w].f
                        /\ slots'[w].attempt = slots[w].attempt
           Left(w) == /\ \A f \in Forwards : \A n \in sent'[f] :
                           \/ n \in sent[f]
                           \/ /\ Sending(w, f) /\ slots[w].attempt = n
                              /\ slots'[w].pc # "http"
                      /\ \A v \in Workers : slots'[v].pc = "http" => slots'[v] = slots[v]
<1> /\ slots \in [Workers -> Slot] /\ sent \in [Forwards -> SUBSET Nat]
    /\ \A w \in Workers : slots[w].pc # "idle" => slots[w].f \in Forwards
  BY DEF TypeInv, TypeOK
<1>1. ASSUME NEW f \in Forwards, WebStep(f) PROVE Kept
  BY <1>1 DEF WebStep, Capture, RetryForward, CommitRequest, BackgroundEnqueue,
     BackgroundLost, RequestRollback, AbandonForward
<1>2. ASSUME NEW r \in Redrivers, RedriveStep(r) PROVE Kept
  BY <1>2 DEF RedriveStep, RedriveReclaim, RedriveListFailed, RedriveListPending,
     RedriveEnqueue, RedriveEnqueueFails, RedriveCommit, RedriveRollback
<1>3. CASE DeleteExpired \/ UNCHANGED vars
  BY <1>3 DEF DeleteExpired, vars
<1>4. CASE Tick
  BY <1>4 DEF Tick, Slot
<1>5. ASSUME NEW w \in Workers, NEW s, slots' = [slots EXCEPT ![w] = s], s.pc # "http",
             \/ UNCHANGED sent
             \/ /\ slots[w].pc = "http"
                /\ sent' = [sent EXCEPT ![slots[w].f] = @ \cup {slots[w].attempt}]
      PROVE  Left(w)
  <2>1. slots'[w].pc # "http" /\ \A v \in Workers \ {w} : slots'[v] = slots[v]
    BY <1>5
  <2>2. ASSUME NEW f \in Forwards, NEW n \in sent'[f]
        PROVE  n \in sent[f] \/ (Sending(w, f) /\ slots[w].attempt = n)
    BY <1>5, <2>2 DEF Sending
  <2>3. QED
    BY <2>1, <2>2
<1>6. ASSUME NEW w \in Workers, NEW dec, NEW left, HttpOutcome(w, dec, left)
      PROVE  Left(w)
  <2> DEFINE s == [slots[w] EXCEPT !.pc = "record", !.next_status = dec.next_status,
                                   !.defer = dec.defer]
  <2>1. s.pc # "http"
    BY DEF Slot
  <2>2. slots' = [slots EXCEPT ![w] = s]
    BY <1>6 DEF HttpOutcome
  <2>3. \/ UNCHANGED sent
        \/ /\ slots[w].pc = "http"
           /\ sent' = [sent EXCEPT ![slots[w].f] = @ \cup {slots[w].attempt}]
    BY <1>6 DEF HttpOutcome
  <2> HIDE DEF s
  <2>4. QED
    BY <1>5, <2>1, <2>2, <2>3
<1>7. ASSUME NEW w \in Workers, CutShort(w), slots' = [slots EXCEPT ![w] = IdleSlot]
      PROVE  Left(w)
  <2>1. IdleSlot.pc # "http"
    BY DEF IdleSlot
  <2>2. QED
    BY <1>5, <1>7, <2>1 DEF CutShort
<1>8. ASSUME NEW w \in Workers, WorkerStep(w), ~Claim(w)
      PROVE  Kept \/ Left(w)
  <2>1. ASSUME NEW js, EndJob(w, js)
        PROVE  \A v \in Workers : slots'[v].pc = "http" => slots'[v] = slots[v]
    BY <2>1 DEF EndJob, IdleSlot
  <2>2. CASE \E f \in Forwards, d \in Defers : StartJob(w, f, d) \/ DropJob(w, f, d)
    BY <2>2 DEF StartJob, DropJob, IdleSlot
  <2>3. CASE SkipClaim(w) \/ EnqueueRetry(w)
    BY <2>1, <2>3 DEF SkipClaim, EnqueueRetry
  <2>4. CASE Record(w)
    <3>1. \A v \in Workers : slots'[v].pc = "http" => slots'[v] = slots[v]
      BY <2>1, <2>4 DEF Record, Slot
    <3>2. QED
      BY <2>4, <3>1 DEF Record
  <2>5. CASE Raise(w) \/ Crash(w) \/ Shutdown(w)
    BY <1>7, <2>5 DEF Raise, EndJob, Crash, Shutdown, Requeue
  <2>6. CASE \/ \E status \in Responses : HttpResponse(w, status)
             \/ HttpNetworkError(w) \/ HttpSsrfBlocked(w)
    <3>1. \E dec, left : HttpOutcome(w, dec, left)
      BY <2>6 DEF HttpResponse, HttpNetworkError, HttpSsrfBlocked
    <3>2. QED
      BY <1>6, <3>1
  <2>7. QED
    BY <1>8, <2>2, <2>3, <2>4, <2>5, <2>6 DEF WorkerStep
<1>9. ASSUME NEW w \in Workers, Left(w)
      PROVE  /\ \A f \in Forwards : \A n \in sent'[f] :
                    \/ n \in sent[f]
                    \/ \E v \in Workers : Sending(v, f) /\ slots[v].attempt = n
                                          /\ slots'[v].pc # "http"
             /\ \A v \in Workers : slots'[v].pc = "http" => slots'[v] = slots[v]
  BY <1>9
<1>10. QED
  BY <1>1, <1>2, <1>3, <1>4, <1>8, <1>9 DEF Next

(* A claim takes the next number, which nobody has used.                   *)
LEMMA ClaimNumbers ==
    ASSUME NumberInv, NEW w \in Workers, Claim(w)
    PROVE  (NumbersCounted /\ UniqueIdempotencyKeys)'
<1> DEFINE f == slots[w].f
           n == forwards[f].attempt_count
<1>1. /\ f \in Forwards /\ forwards \in [Forwards -> Row] /\ n \in Nat
      /\ slots \in [Workers -> Slot] /\ sent \in [Forwards -> SUBSET Nat]
      /\ \A v \in Workers : slots[v].pc = "http" =>
            slots[v].f \in Forwards /\ slots[v].attempt \in Nat
      /\ forwards[f].status # "deleted"
  BY DEF Claim, NumberInv, RowInv, TypeInv, TypeOK, Row, Slot, ClaimForAttempt_Where
<1>2. /\ \A m \in sent[f] : m <= n \/ Renumbered(m)
      /\ \A v \in Workers : slots[v].pc = "http" /\ slots[v].f = f =>
            slots[v].attempt <= n \/ Renumbered(slots[v].attempt)
  BY <1>1 DEF NumberInv, NumbersCounted, Sending, Covered
<1>3. /\ forwards'[f].attempt_count = n + 1
      /\ \A g \in Forwards \ {f} : forwards'[g] = forwards[g]
      /\ slots'[w].pc = "http" /\ slots'[w].f = f /\ slots'[w].attempt = n + 1
      /\ \A v \in Workers \ {w} : slots'[v] = slots[v]
      /\ UNCHANGED <<sent, budget>>
  BY <1>1, ClaimFields DEF Claim, Update, Slot
<1> HIDE DEF f, n
<1>4. \A m : Renumbered(m)' <=> Renumbered(m)
  BY <1>3 DEF Renumbered
<1>5. /\ ~Renumbered(n + 1) => n + 1 \notin sent[f]
      /\ \A v \in Workers : slots[v].pc = "http" /\ slots[v].f = f =>
            /\ ~Renumbered(n + 1) => slots[v].attempt # n + 1
            /\ slots[v].attempt <= n + 1 \/ Renumbered(slots[v].attempt)
      /\ \A m \in sent[f] : m <= n + 1 \/ Renumbered(m)
  BY <1>1, <1>2
<1>6. NumbersCounted'
  <2> SUFFICES ASSUME NEW g \in Forwards, forwards'[g].status # "deleted"
               PROVE  /\ \A m \in sent[g] :
                            m <= forwards'[g].attempt_count \/ Renumbered(m)
                      /\ \A v \in Workers : Sending(v, g)' =>
                            \/ slots'[v].attempt <= forwards'[g].attempt_count
                            \/ Renumbered(slots'[v].attempt)
    BY <1>3, <1>4 DEF NumbersCounted, Covered
  <2>1. CASE g = f
    BY <1>1, <1>3, <1>5, <2>1 DEF Sending
  <2>2. CASE g # f
    <3>1. forwards'[g] = forwards[g] /\ ~Sending(w, g)'
      BY <1>3, <2>2 DEF Sending
    <3>2. QED
      BY <1>3, <3>1 DEF NumberInv, NumbersCounted, Covered, Sending
  <2>3. QED
    BY <2>1, <2>2
<1>7. UniqueIdempotencyKeys'
  <2> SUFFICES ASSUME NEW u \in Workers, slots'[u].pc = "http",
                      ~Renumbered(slots'[u].attempt)
               PROVE  /\ slots'[u].attempt \notin sent[slots'[u].f]
                      /\ \A v \in Workers \ {u} :
                            slots'[v].pc = "http" /\ slots'[v].f = slots'[u].f =>
                               slots'[v].attempt # slots'[u].attempt
    BY <1>3, <1>4 DEF UniqueIdempotencyKeys
  <2>1. CASE u = w
    BY <1>1, <1>3, <1>5, <2>1
  <2>2. CASE u # w
    <3>1. /\ slots'[u] = slots[u]
          /\ slots[u].f = f => slots[u].attempt # n + 1
      BY <1>3, <1>5, <2>2, <1>1, <1>2
    <3>2. QED
      BY <1>1, <1>3, <3>1, <2>2 DEF NumberInv, UniqueIdempotencyKeys
  <2>3. QED
    BY <2>1, <2>2
<1>8. QED
  BY <1>6, <1>7

(* A number in use stays counted, or becomes one of those used again.      *)
LEMMA CoveredStays ==
    ASSUME NumberInv, [Next]_vars, NEW f \in Forwards,
           forwards'[f].status # "deleted", NEW n \in Nat, Covered(f, n)
    PROVE  Covered(f, n)'
<1>1. /\ TypeInv /\ TypeInv'
      /\ budget.retries \in Nat /\ budget'.retries \in Nat
      /\ forwards[f].attempt_count \in Nat /\ forwards'[f].attempt_count \in Nat
  BY NextRows DEF NumberInv, RowInv, TypeInv, TypeOK, Row
<1>2. budget'.retries >= budget.retries
  BY <1>1, NextRetriesCounted DEF NumberInv
<1>3. \/ forwards'[f].attempt_count >= forwards[f].attempt_count
      \/ /\ forwards'[f].attempt_count = MaxAttempts - 1
         /\ budget.retries > 0
  BY CountsGrow DEF NumberInv
<1>4. n <= forwards[f].attempt_count \/ (n >= MaxAttempts /\ budget.retries > 0)
  BY DEF Covered, Renumbered
<1>5. n <= forwards'[f].attempt_count \/ (n >= MaxAttempts /\ budget'.retries > 0)
  BY <1>1, <1>2, <1>3, <1>4, MaxAttemptsType
<1>6. QED
  BY <1>5 DEF Covered, Renumbered

(* Every step keeps the numbers of the attempts apart.                     *)
LEMMA NextNumbers == NumberInv /\ [Next]_vars => NumberInv'
<1> SUFFICES ASSUME NumberInv, [Next]_vars PROVE NumberInv'
  OBVIOUS
<1>1. RowInv' /\ RetriesCounted' /\ TypeInv /\ TypeInv'
  BY NextRows, NextRetriesCounted DEF NumberInv, RowInv
<1>2. CASE \E w \in Workers : Claim(w)
  BY <1>1, <1>2, ClaimNumbers DEF NumberInv
<1>3. CASE ~(\E w \in Workers : Claim(w))
  <2>1. /\ \A f \in Forwards : \A n \in sent'[f] :
              \/ n \in sent[f]
              \/ \E w \in Workers : Sending(w, f) /\ slots[w].attempt = n
                                    /\ slots'[w].pc # "http"
        /\ \A w \in Workers : slots'[w].pc = "http" =>
              /\ slots[w].pc = "http" /\ slots'[w].f = slots[w].f
              /\ slots'[w].attempt = slots[w].attempt
    BY <1>1, <1>3, SendingFrame
  <2>2. /\ sent \in [Forwards -> SUBSET Nat] /\ slots \in [Workers -> Slot]
        /\ \A w \in Workers : slots[w].pc = "http" =>
              slots[w].f \in Forwards /\ slots[w].attempt \in Nat
    BY <1>1 DEF TypeInv, TypeOK, Slot
  <2>3. NumbersCounted'
    <3> SUFFICES ASSUME NEW f \in Forwards, forwards'[f].status # "deleted"
                 PROVE  /\ \A n \in sent'[f] : Covered(f, n)'
                        /\ \A w \in Workers : Sending(w, f)' =>
                              Covered(f, slots[w].attempt)'
      BY DEF NumbersCounted
    <3>1. forwards[f].status # "deleted"
      BY CountsGrow DEF NumberInv
    <3>2. /\ \A n \in sent[f] : Covered(f, n)
          /\ \A w \in Workers : Sending(w, f) => Covered(f, slots[w].attempt)
      BY <3>1 DEF NumberInv, NumbersCounted
    <3>3. ASSUME NEW n \in sent'[f] PROVE Covered(f, n)'
      <4>1. n \in Nat /\ Covered(f, n)
        BY <2>1, <2>2, <3>2 DEF Sending
      <4>2. QED
        BY <4>1, CoveredStays
    <3>4. ASSUME NEW w \in Workers, Sending(w, f)'
          PROVE  Covered(f, slots[w].attempt)'
      <4> PICK n \in Nat : n = slots[w].attempt /\ slots'[w].attempt = n
        BY <2>1, <2>2, <3>4 DEF Sending
      <4>1. Covered(f, n)
        BY <2>1, <3>2, <3>4 DEF Sending
      <4>2. Covered(f, n)'
        BY <4>1, CoveredStays
      <4>3. QED
        BY <4>2 DEF Covered, Renumbered
    <3>5. QED
      BY <3>3, <3>4
  <2>4. UniqueIdempotencyKeys'
    <3>1. \A n \in Nat : Renumbered(n) => Renumbered(n)'
      <4>1. /\ budget'.retries >= budget.retries
            /\ budget.retries \in Nat /\ budget'.retries \in Nat
        BY <1>1, NextRetriesCounted DEF NumberInv, TypeInv, TypeOK
      <4>2. QED
        BY <4>1 DEF Renumbered
    <3> SUFFICES ASSUME NEW u \in Workers, slots'[u].pc = "http",
                        ~Renumbered(slots[u].attempt)'
                 PROVE  /\ slots'[u].attempt \notin sent'[slots'[u].f]
                        /\ \A v \in Workers \ {u} :
                              slots'[v].pc = "http" /\ slots'[v].f = slots'[u].f =>
                                 slots'[v].attempt # slots'[u].attempt
      BY DEF UniqueIdempotencyKeys, Renumbered
    <3>2. /\ slots[u].pc = "http" /\ slots'[u].f = slots[u].f
          /\ slots'[u].attempt = slots[u].attempt
          /\ slots[u].f \in Forwards /\ slots[u].attempt \in Nat
      BY <2>1, <2>2
    <3>3. ~Renumbered(slots[u].attempt)
      BY <3>1, <3>2 DEF Renumbered
    <3>4. /\ slots[u].attempt \notin sent[slots[u].f]
          /\ \A v \in Workers \ {u} :
                slots[v].pc = "http" /\ slots[v].f = slots[u].f =>
                   slots[v].attempt # slots[u].attempt
      BY <3>2, <3>3 DEF NumberInv, UniqueIdempotencyKeys
    <3>5. QED
      BY <2>1, <3>2, <3>4 DEF Sending
  <2>5. QED
    BY <1>1, <2>3, <2>4 DEF NumberInv
<1>4. QED
  BY <1>2, <1>3

(* Nothing was sent at first.                                              *)
LEMMA InitNumbers == Init => NumberInv
<1> SUFFICES ASSUME Init PROVE NumberInv
  OBVIOUS
<1>1. /\ \A w \in Workers : slots[w].pc # "http"
      /\ \A f \in Forwards : sent[f] = {} /\ requests[f].kind # "retry"
  BY DEF Init, IdleSlot, NoRequest
<1>2. QED
  BY <1>1, InitRows
     DEF NumberInv, RetriesCounted, NumbersCounted, Sending, UniqueIdempotencyKeys

(* No request is about to leave under an Idempotency-Key that was sent, or *)
(* that another worker is about to send (execute_forward.py:210), whatever *)
(* crashes, restarts, redrives, abandons and retries there were; except    *)
(* the numbers from MAX_ATTEMPTS on once somebody retried by hand, which   *)
(* the retry of a dead forward uses again (forward_repository.py:174-183). *)
THEOREM KeysAreUnique == Spec => []UniqueIdempotencyKeys
<1>1. NumberInv => UniqueIdempotencyKeys
  BY DEF NumberInv
<1>2. QED
  BY <1>1, InitNumbers, NextNumbers, PTL DEF Spec
==============================================================================
