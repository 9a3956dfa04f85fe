------------------------ MODULE ForwardPipelineTypes -------------------------
(***************************************************************************)
(* Type correctness of ForwardPipeline, for every number of forwards,      *)
(* workers and redrives, every backoff table and every bound; and the      *)
(* types of its operators, which the other proofs use too.                 *)
(***************************************************************************)
EXTENDS ForwardPipeline, TLAPS

-----------------------------------------------------------------------------
(* The assumptions on the constants, in the parts the proofs cite.         *)

(* The two thresholds of redrive_pending_forwards.py are numbers. *)
LEMMA ThresholdTypes == StuckPending \in Nat /\ StuckInFlight \in Nat
BY ThresholdsAssumption DEF ThresholdsAssumption

(* job_timeout fits twice into the in-flight threshold, once into the time *)
(* arq keeps a dead worker's mark (worker.py:250).                         *)
LEMMA TimeTypes == /\ JobTimeout \in Nat /\ StuckInFlight \in Nat
                   /\ InProgressTtl \in Nat /\ KeepResult \in Nat
                   /\ 2 * JobTimeout <= StuckInFlight
                   /\ JobTimeout <= InProgressTtl
BY ThresholdsAssumption, ArqAssumption, PipelineAssumption, TimingAssumption
   DEF ThresholdsAssumption, ArqAssumption, PipelineAssumption, TimingAssumption

(* An idle slot works on no forward. *)
LEMMA NoForwardOutside == NoForward \notin Forwards
BY PipelineAssumption DEF PipelineAssumption

-----------------------------------------------------------------------------
(* What the decision and the statements return.                            *)

(* MAX_ATTEMPTS = len(RETRY_BACKOFFS). *)
LEMMA MaxAttemptsType == MaxAttempts \in Nat /\ MaxAttempts >= 1
BY RetryBackoffsAssumption DEF RetryBackoffsAssumption, MaxAttempts

(* Every delay a job is enqueued with is a number of seconds. *)
LEMMA DefersType == Defers \subseteq Nat /\ 0 \in Defers
BY RetryBackoffsAssumption DEF RetryBackoffsAssumption, Defers, MaxAttempts

(* decide() reads the backoff table inside its bounds, and asks for        *)
(* another attempt only while there is one left (forward_decision.py:43).  *)
LEMMA DecideType ==
    ASSUME NEW n \in Nat, n >= 1, NEW s, NEW e \in BOOLEAN
    PROVE  /\ Decide(n, s, e) \in Decision
           /\ Decide(n, s, e).next_status = "failed" => n < MaxAttempts
BY MaxAttemptsType DEF Decide, Decision, Defers

(* The values a row may hold, one fact per column.                         *)
LEMMA RowStatuses ==
    /\ Statuses \subseteq Statuses \cup {"absent", "deleted"}
    /\ {"pending", "in_flight", "succeeded", "failed", "dead", "abandoned",
        "absent", "deleted"} \subseteq Statuses \cup {"absent", "deleted"}
BY DEF Statuses

(* An age starts at 0 (claim_for_attempt, Forward.create).                 *)
LEMMA RowAges == 0 \in 0..(StuckInFlight + 1) /\ 0 \in 0..(StuckPending + 1)
BY ThresholdTypes

(* claim_for_attempt, with an age of the clock reading within job_timeout. *)
LEMMA ClaimType ==
    ASSUME NEW r \in Row, NEW age \in 0..JobTimeout
    PROVE  ClaimForAttempt_Set(r, age) \in Row
<1>1. "in_flight" \in Statuses \cup {"absent", "deleted"}
  BY RowStatuses
<1>2. r.attempt_count + 1 \in Nat
  BY DEF Row
<1>3. age \in 0..(StuckInFlight + 1)
  BY TimeTypes
<1>4. QED
  BY <1>1, <1>2, <1>3 DEF Row, ClaimForAttempt_Set

(* record_outcome, with any of the three outcomes.                         *)
LEMMA RecordType ==
    ASSUME NEW r \in Row, NEW s \in {"succeeded", "failed", "dead"}
    PROVE  RecordOutcome_Set(r, s) \in Row
<1>1. s \in Statuses \cup {"absent", "deleted"}
  BY RowStatuses
<1>2. (s = "failed") \in BOOLEAN /\ (s \in {"succeeded", "dead"}) \in BOOLEAN
  OBVIOUS
<1>3. QED
  BY <1>1, <1>2, RowAges DEF Row, RecordOutcome_Set

(* claim_for_manual_retry: the count is wound back to MAX_ATTEMPTS - 1.    *)
LEMMA ManualRetryType ==
    ASSUME NEW r \in Row PROVE ManualRetry_Set(r) \in Row
<1>1. "pending" \in Statuses \cup {"absent", "deleted"}
  BY RowStatuses
<1>2. (IF r.status \in {"dead", "abandoned"} THEN MaxAttempts - 1
       ELSE r.attempt_count) \in Nat
  BY MaxAttemptsType DEF Row
<1>3. QED
  BY <1>1, <1>2 DEF Row, ManualRetry_Set

(* abandon                                                                 *)
LEMMA AbandonType == ASSUME NEW r \in Row PROVE Abandon_Set(r) \in Row
<1>1. "abandoned" \in Statuses \cup {"absent", "deleted"}
  BY RowStatuses
<1>2. QED
  BY <1>1, RowAges DEF Row, Abandon_Set

(* reclaim_stuck_in_flight                                                 *)
LEMMA ReclaimType == ASSUME NEW r \in Row PROVE Reclaim_Set(r) \in Row
<1>1. "failed" \in Statuses \cup {"absent", "deleted"}
  BY RowStatuses
<1>2. QED
  BY <1>1, RowAges DEF Row, Reclaim_Set

(* Time passing over a row: ages saturate.                                 *)
LEMMA AgedType == ASSUME NEW r \in Row PROVE Aged(r) \in Row
<1>1. Older(r.created_age, StuckPending + 1) \in 0..(StuckPending + 1)
  BY ThresholdTypes DEF Row, Older
<1>2. (IF r.status = "in_flight" THEN Older(r.started_age, StuckInFlight + 1)
       ELSE r.started_age) \in 0..(StuckInFlight + 1)
  BY ThresholdTypes DEF Row, Older
<1>3. QED
  BY <1>1, <1>2 DEF Row, Aged

(* The insert of a forward, and the row before and after its life.         *)
LEMMA InsertType ==
    ASSUME NEW r \in Row PROVE [r EXCEPT !.status = "pending"] \in Row
<1>1. "pending" \in Statuses \cup {"absent", "deleted"}
  BY RowStatuses
<1>2. QED
  BY <1>1 DEF Row

(* The row before its insert, and the one the cascading DELETE leaves, are rows. *)
LEMMA AbsentRowType ==
    AbsentRow \in Row /\ [AbsentRow EXCEPT !.status = "deleted"] \in Row
<1>1. {"pending", "absent", "deleted"} \subseteq Statuses \cup {"absent", "deleted"}
  BY RowStatuses
<1>2. Created \in Row
  BY <1>1, RowAges DEF Created, Row
<1>3. AbsentRow \in Row
  BY <1>1, <1>2 DEF AbsentRow, Row
<1>4. QED
  BY <1>1, <1>3 DEF Row

(* What the queue does with a job.                                         *)
LEMMA JobOperationTypes ==
    ASSUME NEW job \in Job
    PROVE  /\ \A d \in Defers : Enqueued(job, d) \in Job
           /\ Started(job) \in Job
           /\ Finished(job) \in Job
           /\ \A wait \in Nat : Requeued(job, wait) \in Job
           /\ JobAged(job) \in Job
           /\ NoJob \in Job
<1>1. ASSUME NEW d \in Defers PROVE Enqueued(job, d) \in Job
  <2>1. d \in Nat
    BY DefersType
  <2>2. [state |-> "queued", timer |-> d, tries |-> 0] \in Job
    BY <2>1 DEF Job
  <2>3. QED
    BY <2>2 DEF Enqueued
<1>2. Started(job) \in Job
  <2>1. job.tries + 1 \in Nat
    BY DEF Job
  <2>2. QED
    BY <2>1 DEF Started, Job
<1>3. Finished(job) \in Job
  BY TimeTypes DEF Finished, Job
<1>4. \A wait \in Nat : Requeued(job, wait) \in Job
  BY DEF Requeued, Job
<1>5. NoJob \in Job
  BY DEF NoJob, Job
<1>6. JobAged(job) \in Job
  <2>1. job.timer > 0 => job.timer - 1 \in Nat
    BY DEF Job
  <2>2. job.timer > 0 => [job EXCEPT !.timer = @ - 1] \in Job
    BY <2>1 DEF Job
  <2>3. job.timer > 1 => job.timer > 0
    BY DEF Job
  <2>4. QED
    BY <1>5, <2>2, <2>3 DEF JobAged
<1>7. QED
  BY <1>1, <1>2, <1>3, <1>4, <1>5, <1>6

(* One job of the queue replaced.                                          *)
LEMMA JobsUpdated ==
    ASSUME NEW js \in [Forwards -> [Defers -> Job]],
           NEW f \in Forwards, NEW d \in Defers, NEW job \in Job
    PROVE  [js EXCEPT ![f][d] = job] \in [Forwards -> [Defers -> Job]]
OBVIOUS
-----------------------------------------------------------------------------
(* What the phases of execute_forward leave in a worker slot.  GoodSlot    *)
(* adds to the types what they carry from one phase to the next: an attempt*)
(* in its HTTP phase has a number that indexes the backoff table, and one  *)
(* that reached TX2 has an outcome, "failed" only with attempts left.      *)
GoodSlot(s) ==
    /\ s \in Slot
    /\ s.pc # "idle" => s.f \in Forwards
    /\ s.pc = "http" => s.attempt >= 1
    /\ s.pc = "record" =>
          /\ s.next_status \in {"succeeded", "failed", "dead"}
          /\ s.next_status = "failed" => s.attempt < MaxAttempts

(* A slot whose job ended, or was requeued. *)
LEMMA IdleSlotGood == GoodSlot(IdleSlot)
<1>1. 0 \in Defers /\ 0 \in 0..JobTimeout /\ 0 \in Nat
  BY DefersType, TimeTypes
<1>2. QED
  BY <1>1 DEF GoodSlot, IdleSlot, Slot

(* A slot that started a job. *)
LEMMA StartedSlotGood ==
    ASSUME NEW f \in Forwards, NEW d \in Defers
    PROVE  GoodSlot([IdleSlot EXCEPT !.pc = "claim", !.f = f, !.d = d])
<1>1. 0 \in Defers /\ 0 \in 0..JobTimeout /\ 0 \in Nat
  BY DefersType, TimeTypes
<1>2. QED
  BY <1>1 DEF GoodSlot, IdleSlot, Slot

(* A slot that claimed its forward for attempt n. *)
LEMMA ClaimedSlotGood ==
    ASSUME NEW s, GoodSlot(s), s.pc # "idle", NEW n \in Nat, n >= 1
    PROVE  GoodSlot([s EXCEPT !.pc = "http", !.attempt = n])
BY DEF GoodSlot, Slot

(* A slot whose HTTP phase ended with a decision. *)
LEMMA DecidedSlotGood ==
    ASSUME NEW s, GoodSlot(s), s.pc = "http", NEW dec \in Decision,
           dec.next_status = "failed" => s.attempt < MaxAttempts
    PROVE  GoodSlot([s EXCEPT !.pc = "record",
                              !.next_status = dec.next_status,
                              !.defer = dec.defer])
BY DEF GoodSlot, Slot, Decision

(* A slot whose TX2 is committed and whose forward has to be re-enqueued. *)
LEMMA RecordedSlotGood ==
    ASSUME NEW s, GoodSlot(s), s.pc = "record"
    PROVE  GoodSlot([s EXCEPT !.pc = "enqueue"])
BY DEF GoodSlot, Slot

(* A slot that has not used up job_timeout gets older. *)
LEMMA OlderSlotGood ==
    ASSUME NEW s, GoodSlot(s), s.elapsed < JobTimeout
    PROVE  GoodSlot([s EXCEPT !.elapsed = @ + 1])
<1>1. s.elapsed + 1 \in 0..JobTimeout
  BY TimeTypes DEF GoodSlot, Slot
<1>2. QED
  BY <1>1 DEF GoodSlot, Slot

-----------------------------------------------------------------------------
(* Type correctness.                                                       *)

TypeInv == TypeOK /\ \A w \in Workers : GoodSlot(slots[w])

(* A slot replaced by a good one. *)
LEMMA SlotsUpdated ==
    ASSUME TypeInv, NEW w \in Workers, NEW s, GoodSlot(s),
           slots' = [slots EXCEPT ![w] = s]
    PROVE  /\ slots' \in [Workers -> Slot]
           /\ \A v \in Workers : GoodSlot(slots'[v])
<1>1. s \in Slot /\ slots \in [Workers -> Slot]
  BY DEF GoodSlot, TypeInv, TypeOK
<1>2. slots' \in [Workers -> Slot]
  BY <1>1
<1>3. ASSUME NEW v \in Workers PROVE GoodSlot(slots'[v])
  BY <1>1 DEF TypeInv
<1>4. QED
  BY <1>2, <1>3

(* What the rest of TypeOK asks of the slots follows from GoodSlot. *)
LEMMA SlotsOK ==
    ASSUME \A w \in Workers : GoodSlot(slots[w])
    PROVE  \A w \in Workers : slots[w].pc # "idle" => slots[w].f \in Forwards
BY DEF GoodSlot

(* The empty table, the empty queue and the idle processes have their types. *)
LEMMA InitTypes == Init => TypeInv
<1> SUFFICES ASSUME Init PROVE TypeInv
  OBVIOUS
<1>2. \A w \in Workers : GoodSlot(slots[w])
  BY IdleSlotGood DEF Init
<1>3. slots \in [Workers -> Slot]
  BY IdleSlotGood DEF Init, GoodSlot
<1>4. /\ forwards \in [Forwards -> Row]
      /\ jobs \in [Forwards -> [Defers -> Job]]
  BY AbsentRowType, JobOperationTypes DEF Init, NoJob, Job
<1>5. /\ requests \in [Forwards -> Request]
      /\ redrives \in [Redrivers -> Redrive]
  BY DEF Init, NoRequest, Request, Kinds, IdleRedrive, Redrive
<1>6. /\ sent \in [Forwards -> SUBSET Nat]
      /\ backoff \in [Forwards -> Nat]
      /\ budget \in [faults : Nat, retries : Nat, abandons : Nat]
  BY DEF Init
<1>7. QED
  BY <1>2, <1>3, <1>4, <1>5, <1>6, SlotsOK DEF TypeInv, TypeOK

(* Every request of the web processes keeps the types. *)
LEMMA WebTypes ==
    ASSUME TypeInv, NEW f \in Forwards, WebStep(f) PROVE TypeInv'
<1> USE DEF TypeInv, TypeOK
<1>1. CASE Capture(f)
  <2>1. [requests[f] EXCEPT !.kind = "capture"] \in Request
    BY DEF Request, Kinds
  <2>2. QED
    BY <1>1, <2>1 DEF Capture
<1>2. CASE RetryForward(f)
  <2>1. [requests[f] EXCEPT !.kind = "retry"] \in Request
    BY DEF Request, Kinds
  <2>2. [budget EXCEPT !.retries = @ + 1] \in
           [faults : Nat, retries : Nat, abandons : Nat]
    OBVIOUS
  <2>3. QED
    BY <1>2, <2>1, <2>2 DEF RetryForward
<1>3. CASE CommitRequest(f)
  <2>1. forwards' \in [Forwards -> Row]
    BY <1>3, ManualRetryType, InsertType DEF CommitRequest, Update
  <2>2. NoRequest \in Request
    BY DEF NoRequest, Request, Kinds
  <2>3. backoff' \in [Forwards -> Nat]
    BY <1>3 DEF CommitRequest
  <2>4. QED
    BY <1>3, <2>1, <2>2, <2>3 DEF CommitRequest
<1>4. ASSUME RunBackground(f) PROVE requests' \in [Forwards -> Request]
  <2>1. [requests[f] EXCEPT !.enqueued = TRUE] \in Request
    BY DEF Request
  <2>2. QED
    BY <1>4, <2>1 DEF RunBackground
<1>5. CASE BackgroundEnqueue(f)
  <2>1. Enqueued(jobs[f][0], 0) \in Job
    BY JobOperationTypes, DefersType
  <2>2. jobs' \in [Forwards -> [Defers -> Job]]
    BY <1>5, <2>1, JobsUpdated, DefersType DEF BackgroundEnqueue, Enqueue
  <2>3. QED
    BY <1>4, <1>5, <2>2 DEF BackgroundEnqueue
<1>6. ASSUME Fault
      PROVE  budget' \in [faults : Nat, retries : Nat, abandons : Nat]
  BY <1>6 DEF Fault
<1>7. CASE BackgroundLost(f)
  BY <1>4, <1>6, <1>7 DEF BackgroundLost
<1>8. CASE RequestRollback(f)
  <2>1. NoRequest \in Request
    BY DEF NoRequest, Request, Kinds
  <2>2. QED
    BY <1>6, <1>8, <2>1 DEF RequestRollback
<1>9. CASE AbandonForward(f)
  <2>1. forwards' \in [Forwards -> Row]
    BY <1>9, AbandonType DEF AbandonForward, Update
  <2>2. budget' \in [faults : Nat, retries : Nat, abandons : Nat]
    BY <1>9 DEF AbandonForward
  <2>3. QED
    BY <1>9, <2>1, <2>2 DEF AbandonForward
<1>10. QED
  BY <1>1, <1>2, <1>3, <1>5, <1>7, <1>8, <1>9 DEF WebStep

(* Every step of a redrive keeps the types. *)
LEMMA RedriveTypes ==
    ASSUME TypeInv, NEW r \in Redrivers, RedriveStep(r) PROVE TypeInv'
<1> USE DEF TypeInv, TypeOK
<1>1. CASE RedriveReclaim(r)
  BY <1>1 DEF RedriveReclaim, Redrive
<1>2. CASE RedriveListFailed(r)
  BY <1>2 DEF RedriveListFailed, Redrive
<1>3. CASE RedriveListPending(r)
  BY <1>3 DEF RedriveListPending, Redrive
<1>4. ASSUME NEW f \in Forwards
      PROVE  [redrives[r] EXCEPT !.todo = @ \ {f}] \in Redrive
  BY DEF Redrive
<1>5. ASSUME NEW f \in Forwards, RedriveEnqueue(r, f) PROVE TypeInv'
  <2>1. Enqueued(jobs[f][0], 0) \in Job
    BY JobOperationTypes, DefersType
  <2>2. jobs' \in [Forwards -> [Defers -> Job]]
    BY <1>5, <2>1, JobsUpdated, DefersType DEF RedriveEnqueue, Enqueue
  <2>3. QED
    BY <1>4, <1>5, <2>2 DEF RedriveEnqueue
<1>6. ASSUME Fault
      PROVE  budget' \in [faults : Nat, retries : Nat, abandons : Nat]
  BY <1>6 DEF Fault
<1>7. ASSUME NEW f \in Forwards, RedriveEnqueueFails(r, f) PROVE TypeInv'
  BY <1>4, <1>6, <1>7 DEF RedriveEnqueueFails
<1>8. IdleRedrive \in Redrive
  BY DEF IdleRedrive, Redrive
<1>9. CASE RedriveCommit(r)
  <2>1. \A f \in Forwards : Seen(r, f) \in Row
    BY ReclaimType DEF Seen
  <2>2. QED
    BY <1>8, <1>9, <2>1 DEF RedriveCommit
<1>10. CASE RedriveRollback(r)
  BY <1>6, <1>8, <1>10 DEF RedriveRollback
<1>11. QED
  BY <1>1, <1>2, <1>3, <1>5, <1>7, <1>9, <1>10 DEF RedriveStep

(* Every step of a worker slot keeps the types: the decision indexes the   *)
(* backoff table inside its bounds, and a job returns to the queue with a  *)
(* delay that is not negative.                                             *)
LEMMA WorkerTypes ==
    ASSUME TypeInv, NEW w \in Workers, WorkerStep(w) PROVE TypeInv'
<1> USE DEF TypeInv, TypeOK
<1>1. ASSUME NEW s, GoodSlot(s), slots' = [slots EXCEPT ![w] = s]
      PROVE  /\ slots' \in [Workers -> Slot]
             /\ \A v \in Workers : slots'[v].pc # "idle" => slots'[v].f \in Forwards
             /\ \A v \in Workers : GoodSlot(slots'[v])
  <2>1. slots' \in [Workers -> Slot] /\ \A v \in Workers : GoodSlot(slots'[v])
    BY <1>1, SlotsUpdated
  <2>2. QED
    BY <2>1 DEF GoodSlot
<1>2. /\ slots[w] \in Slot /\ GoodSlot(slots[w])
      /\ slots[w].d \in Defers /\ slots[w].defer \in Defers
      /\ slots[w].attempt \in Nat /\ slots[w].elapsed \in 0..JobTimeout
      /\ slots[w].pc # "idle" => slots[w].f \in Forwards
  BY DEF Slot
<1>3. ASSUME NEW f \in Forwards, NEW d \in Defers, StartJob(w, f, d)
      PROVE  TypeInv'
  <2>1. jobs' \in [Forwards -> [Defers -> Job]]
    BY <1>3, JobOperationTypes, JobsUpdated DEF StartJob
  <2>2. QED
    BY <1>1, <1>3, <2>1, StartedSlotGood DEF StartJob
<1>4. ASSUME NEW f \in Forwards, NEW d \in Defers, DropJob(w, f, d)
      PROVE  TypeInv'
  <2>1. jobs' \in [Forwards -> [Defers -> Job]]
    BY <1>4, JobOperationTypes, JobsUpdated DEF DropJob
  <2>2. QED
    BY <1>4, <2>1 DEF DropJob
<1>5. ASSUME NEW js \in [Forwards -> [Defers -> Job]], slots[w].pc # "idle",
             EndJob(w, js)
      PROVE  /\ jobs' \in [Forwards -> [Defers -> Job]]
             /\ slots' = [slots EXCEPT ![w] = IdleSlot]
  <2>1. Finished(js[slots[w].f][slots[w].d]) \in Job
    BY <1>2, <1>5, JobOperationTypes
  <2>2. QED
    BY <1>2, <1>5, <2>1, JobsUpdated DEF EndJob
<1>6. ASSUME Fault
      PROVE  budget' \in [faults : Nat, retries : Nat, abandons : Nat]
  BY <1>6 DEF Fault
<1>7. CASE Claim(w)
  <2> DEFINE f == slots[w].f
             claimed == ClaimForAttempt_Set(forwards[f], slots[w].elapsed)
  <2>1. f \in Forwards /\ slots[w].pc # "idle"
    BY <1>2, <1>7 DEF Claim
  <2>2. claimed \in Row
    BY <1>2, <2>1, ClaimType
  <2>3. /\ claimed.attempt_count = forwards[f].attempt_count + 1
        /\ forwards[f].attempt_count \in Nat
    BY <2>1 DEF ClaimForAttempt_Set, Row
  <2>4. GoodSlot([slots[w] EXCEPT !.pc = "http",
                                  !.attempt = claimed.attempt_count])
    <3>1. claimed.attempt_count \in Nat /\ claimed.attempt_count >= 1
      BY <2>3
    <3> HIDE DEF claimed
    <3>2. QED
      BY <1>2, <2>1, <3>1, ClaimedSlotGood
  <2>5. forwards' \in [Forwards -> Row] /\ backoff' \in [Forwards -> Nat]
    BY <1>7, <2>1, <2>2 DEF Claim, Update
  <2>6. slots' = [slots EXCEPT ![w] = [slots[w] EXCEPT
                     !.pc = "http", !.attempt = claimed.attempt_count]]
    BY <1>7 DEF Claim
  <2>7. UNCHANGED <<requests, jobs, redrives, sent, budget>>
    BY <1>7 DEF Claim
  <2>8. QED
    BY <1>1, <2>4, <2>5, <2>6, <2>7
<1>8. CASE SkipClaim(w)
  BY <1>1, <1>5, <1>8, IdleSlotGood DEF SkipClaim
<1>9. ASSUME NEW dec \in Decision, NEW left \in BOOLEAN,
             HttpOutcome(w, dec, left),
             dec.next_status = "failed" => slots[w].attempt < MaxAttempts
      PROVE  TypeInv'
  <2>1. slots[w].pc = "http" /\ slots[w].f \in Forwards
    BY <1>2, <1>9 DEF HttpOutcome
  <2>2. sent' \in [Forwards -> SUBSET Nat]
    BY <1>2, <1>9, <2>1 DEF HttpOutcome
  <2>3. GoodSlot([slots[w] EXCEPT !.pc = "record",
                     !.next_status = dec.next_status, !.defer = dec.defer])
    BY <1>2, <1>9, <2>1, DecidedSlotGood
  <2>4. slots' = [slots EXCEPT ![w] = [slots[w] EXCEPT !.pc = "record",
                     !.next_status = dec.next_status, !.defer = dec.defer]]
    BY <1>9 DEF HttpOutcome
  <2>5. UNCHANGED <<forwards, requests, jobs, redrives, backoff, budget>>
    BY <1>9 DEF HttpOutcome
  <2>6. QED
    BY <1>1, <2>2, <2>3, <2>4, <2>5
<1>10. ASSUME NEW status \in Responses, HttpResponse(w, status) PROVE TypeInv'
  <2>1. slots[w].pc = "http" /\ slots[w].attempt >= 1
    BY <1>2, <1>10 DEF HttpResponse, HttpOutcome, GoodSlot
  <2>2. QED
    BY <1>2, <1>9, <1>10, <2>1, DecideType DEF HttpResponse
<1>11. CASE HttpNetworkError(w)
  <2>1. slots[w].pc = "http" /\ slots[w].attempt >= 1
    BY <1>2, <1>11 DEF HttpNetworkError, HttpOutcome, GoodSlot
  <2>2. QED
    BY <1>2, <1>9, <1>11, <2>1, DecideType DEF HttpNetworkError
<1>12. CASE HttpSsrfBlocked(w)
  <2>1. [next_status |-> "dead", defer |-> 0] \in Decision
    BY DefersType DEF Decision
  <2>2. QED
    BY <1>9, <1>12, <2>1 DEF HttpSsrfBlocked
<1>13. CASE Record(w)
  <2> DEFINE f == slots[w].f
  <2>1. /\ f \in Forwards /\ slots[w].pc = "record"
        /\ slots[w].next_status \in {"succeeded", "failed", "dead"}
    BY <1>2, <1>13 DEF Record, GoodSlot
  <2>2. forwards' \in [Forwards -> Row]
    BY <1>13, <2>1, RecordType DEF Record, Update
  <2>3. backoff' \in [Forwards -> Nat]
    BY <1>2, <1>13, DefersType DEF Record
  <2>4. UNCHANGED <<requests, redrives, sent, budget>>
    BY <1>13 DEF Record
  <2>5. CASE slots[w].next_status = "failed"
    <3>1. /\ slots' = [slots EXCEPT ![w] = [slots[w] EXCEPT !.pc = "enqueue"]]
          /\ UNCHANGED jobs
      BY <1>13, <2>5 DEF Record
    <3>2. GoodSlot([slots[w] EXCEPT !.pc = "enqueue"])
      BY <1>2, <2>1, RecordedSlotGood
    <3>3. QED
      BY <1>1, <2>2, <2>3, <2>4, <3>1, <3>2
  <2>6. CASE slots[w].next_status # "failed"
    <3>1. EndJob(w, jobs)
      BY <1>13, <2>6 DEF Record
    <3>2. QED
      BY <1>1, <1>5, <2>1, <2>2, <2>3, <2>4, <3>1, IdleSlotGood
  <2>7. QED
    BY <2>5, <2>6
<1>14. CASE EnqueueRetry(w)
  <2> DEFINE f == slots[w].f
             d == slots[w].defer
             js == [jobs EXCEPT ![f][d] = Enqueued(jobs[f][d], d)]
  <2>1. f \in Forwards /\ d \in Defers /\ slots[w].pc # "idle"
    BY <1>2, <1>14 DEF EnqueueRetry
  <2>2. js \in [Forwards -> [Defers -> Job]]
    <3> HIDE DEF f, d
    <3>1. jobs[f][d] \in Job
      BY <2>1
    <3>2. Enqueued(jobs[f][d], d) \in Job
      BY <2>1, <3>1, JobOperationTypes
    <3>3. QED
      BY <2>1, <3>2, JobsUpdated
  <2>3. EndJob(w, js)
    BY <1>14 DEF EnqueueRetry
  <2>4. jobs' \in [Forwards -> [Defers -> Job]] /\ slots' = [slots EXCEPT ![w] = IdleSlot]
    BY <1>5, <2>1, <2>2, <2>3
  <2>5. UNCHANGED <<forwards, requests, redrives, sent, backoff, budget>>
    BY <1>14 DEF EnqueueRetry
  <2>6. QED
    BY <1>1, <2>4, <2>5, IdleSlotGood
<1>14a. ASSUME CutShort(w), slots[w].pc # "idle" PROVE sent' \in [Forwards -> SUBSET Nat]
  BY <1>2, <1>14a DEF CutShort
<1>15. CASE Raise(w)
  BY <1>1, <1>5, <1>6, <1>15, <1>14a, IdleSlotGood DEF Raise
<1>16. ASSUME NEW wait \in Nat, Requeue(w, wait) PROVE TypeInv'
  <2>1. slots[w].f \in Forwards /\ slots' = [slots EXCEPT ![w] = IdleSlot]
    BY <1>2, <1>16 DEF Requeue
  <2>2. jobs' \in [Forwards -> [Defers -> Job]]
    <3>1. Requeued(jobs[slots[w].f][slots[w].d], wait) \in Job
      BY <1>2, <2>1, JobOperationTypes
    <3>2. QED
      BY <1>2, <1>16, <2>1, <3>1, JobsUpdated DEF Requeue
  <2>3. QED
    BY <1>1, <1>6, <1>16, <1>14a, <2>1, <2>2, IdleSlotGood DEF Requeue
<1>17. CASE Crash(w)
  <2>1. InProgressTtl - slots[w].elapsed \in Nat
    BY <1>2, TimeTypes
  <2>2. QED
    BY <1>16, <1>17, <2>1 DEF Crash
<1>18. CASE Shutdown(w)
  BY <1>16, <1>18 DEF Shutdown
<1>19. QED
  BY <1>3, <1>4, <1>7, <1>8, <1>10, <1>11, <1>12, <1>13, <1>14, <1>15, <1>17,
     <1>18 DEF WorkerStep

(* The cleaner and the clock keep the types. *)
LEMMA DeleteTypes == ASSUME TypeInv, DeleteExpired PROVE TypeInv'
BY AbsentRowType DEF TypeInv, TypeOK, DeleteExpired

(* Time keeps the types: every age saturates and every timer stops at 0.   *)
LEMMA TickTypes == ASSUME TypeInv, Tick PROVE TypeInv'
<1> USE DEF TypeInv, TypeOK
<1>1. forwards' \in [Forwards -> Row]
  BY AgedType DEF Tick
<1>2. jobs' \in [Forwards -> [Defers -> Job]]
  BY JobOperationTypes DEF Tick
<1>3. ASSUME NEW w \in Workers PROVE GoodSlot(slots'[w])
  BY OlderSlotGood DEF Tick
<1>4. slots' \in [Workers -> Slot]
  BY <1>3 DEF Tick, GoodSlot
<1>5. backoff' \in [Forwards -> Nat]
  <2>1. \A f \in Forwards : backoff[f] > 0 => backoff[f] - 1 \in Nat
    OBVIOUS
  <2>2. QED
    BY <2>1 DEF Tick
<1>6. QED
  BY <1>1, <1>2, <1>3, <1>4, <1>5 DEF Tick, GoodSlot

(* Every step of the pipeline keeps the types.                             *)
LEMMA NextTypes == TypeInv /\ [Next]_vars => TypeInv'
<1>1. ASSUME TypeInv, UNCHANGED vars PROVE TypeInv'
  BY <1>1 DEF TypeInv, TypeOK, vars
<1>2. QED
  BY <1>1, WebTypes, RedriveTypes, WorkerTypes, DeleteTypes, TickTypes DEF Next

(* Every variable keeps its type: no step of the pipeline indexes the      *)
(* backoff table out of bounds, starts a negative timer, or stores a       *)
(* status the forwards table does not know (forward.py:6).                 *)
THEOREM TypeCorrect == Spec => []TypeOK
<1>1. TypeInv => TypeOK
  BY DEF TypeInv
<1>2. QED
  BY <1>1, InitTypes, NextTypes, PTL DEF Spec
==============================================================================
