---------------------- MODULE ForwardExclusionProofs ------------------------
(***************************************************************************)
(* What ForwardPipeline guarantees as long as nobody abandons a forward:   *)
(* one attempt at a time, recorded on its own row; no more attempts than   *)
(* the backoff table and the faults allow; and, as long as nothing else    *)
(* goes wrong either, no failed forward that is forgotten.  An abandon     *)
(* during an attempt, followed by a manual retry, starts a second one, so  *)
(* the hypothesis cannot be dropped.                                       *)
(***************************************************************************)
EXTENDS ForwardPipelineProofs

NobodyAbandons == MaxAbandons = 0

(* A redrive has not taken the row of a worker that will still record.     *)
ReclaimedNotAttempted ==
    \A w \in Workers, r \in Redrivers, f \in Forwards :
        Attempting(w, f) => f \notin redrives[r].reclaimed

ExclusionInv == /\ AgeInv
                /\ OneLiveAttempt
                /\ RecordHitsItsOwnAttempt
                /\ ReclaimedNotAttempted

-----------------------------------------------------------------------------
(* What happens to the row of an attempt, and to the redrives' claims.     *)

(* Web requests, redrives, the cleaner and the clock leave the row of a    *)
(* running attempt in flight with its number, or delete it.                *)
LEMMA AttemptedRowsStay ==
    ASSUME NobodyAbandons, ExclusionInv,
           \/ \E g \in Forwards : WebStep(g)
           \/ \E r \in Redrivers : RedriveStep(r)
           \/ DeleteExpired
           \/ Tick,
           NEW w \in Workers, NEW f \in Forwards, Attempting(w, f)
    PROVE  \/ forwards'[f].status = "deleted"
           \/ /\ forwards'[f].status = "in_flight"
              /\ forwards'[f].attempt_count = slots[w].attempt
<1> /\ forwards \in [Forwards -> Row] /\ requests \in [Forwards -> Request]
    /\ OpenTransactionsHoldTheirRows
    /\ \A r \in Redrivers : f \notin redrives[r].reclaimed
  BY DEF ExclusionInv, AgeInv, RowInv, TypeInv, TypeOK, ReclaimedNotAttempted
<1>1. \/ forwards[f].status = "deleted"
      \/ /\ forwards[f].status = "in_flight"
         /\ forwards[f].attempt_count = slots[w].attempt
  BY DEF ExclusionInv, RecordHitsItsOwnAttempt
<1>2. ASSUME NEW g \in Forwards, WebStep(g) PROVE forwards'[f] = forwards[f]
  <2>1. CASE CommitRequest(g)
    <3>1. requests[g].kind \in {"capture", "retry"}
      BY <2>1 DEF CommitRequest, Request, Kinds
    <3>2. g # f
      BY <1>1, <3>1 DEF OpenTransactionsHoldTheirRows, ManualRetry_Where
    <3>3. QED
      BY <2>1, <3>2 DEF CommitRequest, Update
  <2>2. ~AbandonForward(g)
    <3>1. budget.abandons \in Nat
      BY DEF ExclusionInv, AgeInv, RowInv, TypeInv, TypeOK
    <3>2. QED
      BY <3>1 DEF AbandonForward, NobodyAbandons
  <2>3. CASE \/ Capture(g) \/ RetryForward(g) \/ BackgroundEnqueue(g)
             \/ BackgroundLost(g) \/ RequestRollback(g)
    BY <2>3 DEF Capture, RetryForward, BackgroundEnqueue, BackgroundLost,
                RequestRollback
  <2>4. QED
    BY <1>2, <2>1, <2>2, <2>3 DEF WebStep
<1>3. ASSUME NEW r \in Redrivers, RedriveStep(r) PROVE forwards'[f] = forwards[f]
  <2>1. CASE RedriveCommit(r)
    BY <2>1 DEF RedriveCommit, Seen
  <2>2. CASE ~RedriveCommit(r)
    BY <1>3, <2>2 DEF RedriveStep, RedriveReclaim, RedriveListFailed,
       RedriveListPending, RedriveEnqueue, RedriveEnqueueFails, RedriveRollback
  <2>3. QED
    BY <2>1, <2>2
<1>4. CASE DeleteExpired
  BY <1>4, DeletedFields DEF DeleteExpired
<1>5. CASE Tick
  <2>1. forwards'[f].status = forwards[f].status
        /\ forwards'[f].attempt_count = forwards[f].attempt_count
    BY <1>5, AgedFields DEF Tick
  <2>2. QED
    BY <1>1, <2>1
<1>6. QED
  BY <1>1, <1>2, <1>3, <1>4, <1>5

(* A redrive holds a row that it held before, or one that is stuck. *)
LEMMA ReclaimedFrame ==
    ASSUME TypeInv, [Next]_vars, NEW r \in Redrivers, NEW f \in Forwards,
           f \in redrives'[r].reclaimed
    PROVE  f \in redrives[r].reclaimed \/ Reclaim_Where(forwards[f])
<1> redrives \in [Redrivers -> Redrive]
  BY DEF TypeInv, TypeOK
<1>1. ASSUME NEW s \in Redrivers, RedriveStep(s)
      PROVE  f \in redrives[r].reclaimed \/ Reclaim_Where(forwards[f])
  <2>1. CASE RedriveReclaim(s)
    BY <2>1 DEF RedriveReclaim, Redrive
  <2>2. CASE RedriveListFailed(s)
    BY <2>2 DEF RedriveListFailed, Redrive
  <2>3. CASE RedriveListPending(s)
    BY <2>3 DEF RedriveListPending, Redrive
  <2>4. ASSUME NEW g \in Forwards, RedriveEnqueue(s, g) \/ RedriveEnqueueFails(s, g)
        PROVE  redrives' = [redrives EXCEPT ![s] =
                              [redrives[s] EXCEPT !.todo = redrives[s].todo \ {g}]]
    BY <2>4 DEF RedriveEnqueue, RedriveEnqueueFails
  <2>5. CASE RedriveCommit(s) \/ RedriveRollback(s)
    BY <2>5 DEF RedriveCommit, RedriveRollback, IdleRedrive
  <2>6. QED
    BY <1>1, <2>1, <2>2, <2>3, <2>4, <2>5 DEF RedriveStep, Redrive
<1>2. ASSUME NEW g \in Forwards, WebStep(g) PROVE UNCHANGED redrives
  BY <1>2 DEF WebStep, Capture, RetryForward, CommitRequest, BackgroundEnqueue,
     BackgroundLost, RequestRollback, AbandonForward
<1>3. ASSUME DeleteExpired \/ Tick \/ UNCHANGED vars PROVE UNCHANGED redrives
  BY <1>3 DEF DeleteExpired, Tick, vars
<1>4. QED
  BY <1>1, <1>2, <1>3, WorkerFrame DEF Next

-----------------------------------------------------------------------------
(* The inductive step.                                                     *)

Exclusive == OneLiveAttempt /\ RecordHitsItsOwnAttempt /\ ReclaimedNotAttempted

(* Requests, redrives, the cleaner and time change no row under an attempt.  *)
LEMMA OwnerExclusion ==
    ASSUME NobodyAbandons, ExclusionInv,
           \/ \E g \in Forwards : WebStep(g)
           \/ \E r \in Redrivers : RedriveStep(r)
           \/ DeleteExpired
           \/ Tick
    PROVE  Exclusive'
<1>1. TypeInv /\ AgeInv
  BY DEF ExclusionInv, AgeInv, RowInv
<1>2. ASSUME NEW w \in Workers, NEW f \in Forwards
      PROVE  /\ Attempting(w, f)' <=> Attempting(w, f)
             /\ slots'[w].attempt = slots[w].attempt
  <2>1. CASE Tick
    <3>1. slots[w] \in Slot /\ slots \in [Workers -> Slot]
      BY <1>1 DEF TypeInv, TypeOK
    <3>2. QED
      BY <2>1, <3>1 DEF Tick, Attempting, Slot
  <2>2. CASE ~Tick
    BY <1>1, <2>2, OwnerFrame DEF Attempting
  <2>3. QED
    BY <2>1, <2>2
<1>3. OneLiveAttempt'
  BY <1>2 DEF ExclusionInv, OneLiveAttempt
<1>4. RecordHitsItsOwnAttempt'
  BY <1>2, AttemptedRowsStay DEF RecordHitsItsOwnAttempt
<1>5. ReclaimedNotAttempted'
  <2>1. \A w \in Workers, f \in Forwards :
           Attempting(w, f) => ~Reclaim_Where(forwards[f])
    BY <1>1, AgesSpareAttempts DEF ReclaimSparesLiveAttempts
  <2>2. [Next]_vars
    BY DEF Next
  <2>3. QED
    BY <1>1, <1>2, <2>1, <2>2, ReclaimedFrame
       DEF ExclusionInv, ReclaimedNotAttempted
<1>6. QED
  BY <1>3, <1>4, <1>5 DEF Exclusive

(* claim_for_attempt takes a row that nobody is attempting, for it is not in_flight. *)
LEMMA ClaimExclusion ==
    ASSUME ExclusionInv, NEW w \in Workers, Claim(w) PROVE Exclusive'
<1> DEFINE f == slots[w].f
<1>1. /\ f \in Forwards /\ forwards \in [Forwards -> Row]
      /\ slots \in [Workers -> Slot]
      /\ OneLiveAttempt /\ RecordHitsItsOwnAttempt /\ ReclaimedNotAttempted
  BY DEF Claim, ExclusionInv, AgeInv, RowInv, TypeInv, TypeOK, GoodSlot
<1>2. \A v \in Workers : ~Attempting(v, f)
  BY <1>1 DEF Claim, ClaimForAttempt_Where, RecordHitsItsOwnAttempt
<1>3. \A r \in Redrivers : f \notin redrives[r].reclaimed
  BY DEF Claim, Locked
<1>4. /\ forwards' = [forwards EXCEPT ![f] = forwards'[f]]
      /\ forwards'[f].status = "in_flight"
      /\ forwards'[f].attempt_count = slots'[w].attempt
      /\ slots'[w].f = f
      /\ \A v \in Workers \ {w} : slots'[v] = slots[v]
      /\ UNCHANGED redrives
  <2>1. forwards' = [forwards EXCEPT ![f] =
                       ClaimForAttempt_Set(forwards[f], slots[w].elapsed)]
    BY DEF Claim, Update
  <2>2. slots' = [slots EXCEPT ![w] = [slots[w] EXCEPT !.pc = "http",
           !.attempt = ClaimForAttempt_Set(forwards[f], slots[w].elapsed).attempt_count]]
    BY DEF Claim
  <2>3. forwards'[f].status = "in_flight"
    BY <1>1, <2>1, ClaimFields
  <2>4. forwards'[f].attempt_count = slots'[w].attempt /\ slots'[w].f = f
    BY <1>1, <2>1, <2>2 DEF Slot
  <2>5. UNCHANGED redrives
    BY DEF Claim
  <2>6. QED
    BY <1>1, <2>1, <2>2, <2>3, <2>4, <2>5
<1>5. ASSUME NEW v \in Workers, NEW g \in Forwards, Attempting(v, g)'
      PROVE  \/ v = w /\ g = f
             \/ v # w /\ g # f /\ Attempting(v, g) /\ slots'[v] = slots[v]
  BY <1>2, <1>4, <1>5 DEF Attempting
<1>6. OneLiveAttempt'
  BY <1>1, <1>5 DEF OneLiveAttempt
<1>7. RecordHitsItsOwnAttempt'
  BY <1>1, <1>4, <1>5 DEF RecordHitsItsOwnAttempt
<1>8. ReclaimedNotAttempted'
  BY <1>1, <1>3, <1>4, <1>5 DEF ReclaimedNotAttempted
<1>9. QED
  BY <1>6, <1>7, <1>8 DEF Exclusive

(* The worker's other steps: the outcome it records ends the only attempt.  *)
LEMMA WorkerExclusion ==
    ASSUME ExclusionInv, NEW w \in Workers, WorkerStep(w) PROVE Exclusive'
<1>1. CASE Claim(w)
  BY <1>1, ClaimExclusion
<1>2. CASE ~Claim(w)
  <2>1. /\ TypeInv /\ forwards \in [Forwards -> Row]
        /\ OneLiveAttempt /\ RecordHitsItsOwnAttempt /\ ReclaimedNotAttempted
    BY DEF ExclusionInv, AgeInv, RowInv, TypeInv, TypeOK
  <2>2. ASSUME NEW v \in Workers, NEW f \in Forwards, Attempting(v, f)'
        PROVE  /\ Attempting(v, f) /\ slots'[v].attempt = slots[v].attempt
               /\ v = w => ~Record(w)
    BY <1>2, <2>1, <2>2, WorkerFrame DEF Attempting
  <2>3. ASSUME NEW v \in Workers, NEW f \in Forwards, Attempting(v, f)'
        PROVE  forwards'[f] = forwards[f]
    <3>1. CASE Record(w)
      <4>1. Attempting(w, slots[w].f) /\ slots[w].f \in Forwards
        BY <2>1, <3>1 DEF Record, Attempting, TypeInv, GoodSlot
      <4>2. f # slots[w].f
        BY <2>1, <2>2, <2>3, <3>1, <4>1 DEF OneLiveAttempt
      <4>3. QED
        BY <2>1, <3>1, <4>2 DEF Record, Update
    <3>2. CASE ~Record(w)
      BY <1>2, <2>1, <3>2, WorkerFrame
    <3>3. QED
      BY <3>1, <3>2
  <2>4. UNCHANGED redrives
    BY <2>1, WorkerFrame
  <2>5. OneLiveAttempt'
    BY <2>1, <2>2 DEF OneLiveAttempt
  <2>6. RecordHitsItsOwnAttempt'
    BY <2>1, <2>2, <2>3 DEF RecordHitsItsOwnAttempt
  <2>7. ReclaimedNotAttempted'
    BY <2>1, <2>2, <2>4 DEF ReclaimedNotAttempted
  <2>8. QED
    BY <2>5, <2>6, <2>7 DEF Exclusive
<1>3. QED
  BY <1>1, <1>2

(* Every step of the pipeline keeps an attempt exclusive.                  *)
LEMMA NextExclusion ==
    ASSUME NobodyAbandons PROVE ExclusionInv /\ [Next]_vars => ExclusionInv'
<1> SUFFICES ASSUME ExclusionInv, [Next]_vars PROVE ExclusionInv'
  OBVIOUS
<1>1. AgeInv'
  BY NextAges DEF ExclusionInv
<1>2. CASE UNCHANGED vars
  BY <1>1, <1>2 DEF ExclusionInv, OneLiveAttempt, RecordHitsItsOwnAttempt,
                    ReclaimedNotAttempted, Attempting, vars
<1>3. CASE Next
  <2>1. Exclusive'
    BY <1>3, OwnerExclusion, WorkerExclusion DEF Next
  <2>2. QED
    BY <1>1, <2>1 DEF ExclusionInv, Exclusive
<1>4. QED
  BY <1>2, <1>3

(* Nothing is attempted at first.                                          *)
LEMMA InitExclusion == Init => ExclusionInv
<1>1. Init => \A w \in Workers, f \in Forwards : ~Attempting(w, f)
  BY DEF Init, Attempting, IdleSlot
<1>2. QED
  BY <1>1, InitAges DEF ExclusionInv, OneLiveAttempt, RecordHitsItsOwnAttempt,
                        ReclaimedNotAttempted

(* A claim is exclusive until its outcome is recorded, however many        *)
(* workers, redrives, retries and crashes there are.                       *)
THEOREM OneAttemptAtATime ==
    ASSUME NobodyAbandons PROVE Spec => []OneLiveAttempt
<1>1. ExclusionInv => OneLiveAttempt
  BY DEF ExclusionInv
<1>2. QED
  BY <1>1, InitExclusion, NextExclusion, PTL DEF Spec

(* record_outcome, whose WHERE clause names only the id, overwrites the    *)
(* attempt it belongs to (forward_repository.py:103-113).                  *)
THEOREM OutcomesHitTheirAttempts ==
    ASSUME NobodyAbandons PROVE Spec => []RecordHitsItsOwnAttempt
<1>1. ExclusionInv => RecordHitsItsOwnAttempt
  BY DEF ExclusionInv
<1>2. QED
  BY <1>1, InitExclusion, NextExclusion, PTL DEF Spec

-----------------------------------------------------------------------------
(* How many attempts there are.                                            *)

(* An attempt may be the last; a forward that may be attempted again, or   *)
(* whose worker is gone, has used fewer, or lost one to a fault.           *)
AttemptsLeft(f) ==
    \/ forwards[f].status \in {"pending", "failed", "absent"}
    \/ /\ forwards[f].status = "in_flight"
       /\ \A w \in Workers : ~Attempting(w, f)

OverrunInv ==
    /\ BoundedOverrun
    /\ \A f \in Forwards : AttemptsLeft(f) =>
          forwards[f].attempt_count < MaxAttempts + budget.faults

(* A worker stops attempting a forward by recording its outcome, or by a   *)
(* fault.                                                                  *)
LEMMA AttemptEnds ==
    ASSUME TypeInv, NEW w \in Workers, WorkerStep(w), NEW f \in Forwards,
           Attempting(w, f), ~Attempting(w, f)'
    PROVE  Record(w) \/ Fault
<1> slots \in [Workers -> Slot] /\ slots[w].pc \in {"http", "record"}
  BY DEF TypeInv, TypeOK, Attempting
<1>1. ASSUME NEW dec, NEW left, HttpOutcome(w, dec, left) PROVE FALSE
  BY <1>1 DEF HttpOutcome, Attempting, Slot
<1>2. ~(\E status \in Responses : HttpResponse(w, status))
  BY <1>1 DEF HttpResponse
<1>3. ~(HttpNetworkError(w))
  BY <1>1 DEF HttpNetworkError
<1>4. ~HttpSsrfBlocked(w)
  BY <1>1 DEF HttpSsrfBlocked
<1>5. /\ \A g \in Forwards, d \in Defers : ~StartJob(w, g, d) /\ ~DropJob(w, g, d)
      /\ ~Claim(w) /\ ~SkipClaim(w) /\ ~EnqueueRetry(w)
  BY DEF StartJob, DropJob, Claim, SkipClaim, EnqueueRetry
<1>6. Raise(w) \/ Crash(w) \/ Shutdown(w) => Fault
  BY DEF Raise, Crash, Shutdown, Requeue
<1>7. QED
  BY <1>2, <1>3, <1>4, <1>5, <1>6 DEF WorkerStep

(* The budget never shrinks, and a fault adds one to it. *)
LEMMA FaultsGrow ==
    ASSUME TypeInv, [Next]_vars
    PROVE  /\ budget.faults \in Nat /\ budget'.faults \in Nat
           /\ budget'.faults >= budget.faults
           /\ Fault => budget'.faults = budget.faults + 1
<1>1. budget \in [faults : Nat, retries : Nat, abandons : Nat]
  BY DEF TypeInv, TypeOK
<1>2. budget' \in [faults : Nat, retries : Nat, abandons : Nat]
  BY NextTypes DEF TypeInv, TypeOK
<1>3. Fault => budget'.faults = budget.faults + 1
  BY <1>1 DEF Fault
<1>4. ASSUME ~Fault PROVE budget'.faults = budget.faults
  <2>1. ASSUME NEW f \in Forwards, WebStep(f) PROVE budget'.faults = budget.faults
    BY <1>1, <1>4, <2>1
       DEF WebStep, Capture, RetryForward, CommitRequest, BackgroundEnqueue,
           BackgroundLost, RequestRollback, AbandonForward
  <2>2. ASSUME NEW r \in Redrivers, RedriveStep(r) PROVE UNCHANGED budget
    BY <1>4, <2>2
       DEF RedriveStep, RedriveReclaim, RedriveListFailed, RedriveListPending,
           RedriveEnqueue, RedriveEnqueueFails, RedriveCommit, RedriveRollback
  <2>3. ASSUME NEW w \in Workers, WorkerStep(w) PROVE UNCHANGED budget
    BY <1>4, <2>3
       DEF WorkerStep, StartJob, DropJob, Claim, SkipClaim, HttpResponse,
           HttpNetworkError, HttpSsrfBlocked, HttpOutcome, Record, EnqueueRetry,
           Raise, Crash, Shutdown, Requeue
  <2>4. ASSUME DeleteExpired \/ Tick \/ UNCHANGED vars PROVE UNCHANGED budget
    BY <2>4 DEF DeleteExpired, Tick, vars
  <2>5. QED
    BY <2>1, <2>2, <2>3, <2>4 DEF Next
<1>5. QED
  BY <1>1, <1>2, <1>3, <1>4

(* A step that spends a fault is a rollback, a lost task or a dead worker: *)
(* it changes no committed row.                                            *)
LEMMA FaultKeepsRows == ASSUME TypeInv, [Next]_vars, Fault PROVE UNCHANGED forwards
<1>1. budget.faults \in Nat /\ budget' = [budget EXCEPT !.faults = @ + 1]
      /\ budget \in [faults : Nat, retries : Nat, abandons : Nat]
  BY DEF Fault, TypeInv, TypeOK
<1>2. budget'.faults # budget.faults
  BY <1>1
<1>3. ASSUME NEW f \in Forwards, WebStep(f) PROVE UNCHANGED forwards
  <2>1. CASE \/ Capture(f) \/ RetryForward(f) \/ CommitRequest(f)
             \/ BackgroundEnqueue(f) \/ AbandonForward(f)
    BY <1>1, <1>2, <2>1 DEF Capture, RetryForward, CommitRequest,
                            BackgroundEnqueue, AbandonForward
  <2>2. CASE BackgroundLost(f) \/ RequestRollback(f)
    BY <2>2 DEF BackgroundLost, RequestRollback
  <2>3. QED
    BY <1>3, <2>1, <2>2 DEF WebStep
<1>4. ASSUME NEW r \in Redrivers, RedriveStep(r) PROVE UNCHANGED forwards
  BY <1>2, <1>4
     DEF RedriveStep, RedriveReclaim, RedriveListFailed, RedriveListPending,
         RedriveEnqueue, RedriveEnqueueFails, RedriveCommit, RedriveRollback
<1>5. ASSUME NEW w \in Workers, WorkerStep(w) PROVE UNCHANGED forwards
  BY <1>1, <1>2, <1>5, WorkerFrame DEF Claim, Record
<1>6. ~DeleteExpired /\ ~Tick /\ ~UNCHANGED vars
  BY <1>2 DEF DeleteExpired, Tick, vars
<1>7. QED
  BY <1>3, <1>4, <1>5, <1>6 DEF Next

(* One step, one forward: its count stays, and it has attempts left only   *)
(* if it had; or it is one of the statements that start or end a count.    *)
LEMMA CountSteps ==
    ASSUME NobodyAbandons, ExclusionInv, [Next]_vars, ~Fault, NEW f \in Forwards
    PROVE  \/ /\ forwards'[f].attempt_count = forwards[f].attempt_count
              /\ AttemptsLeft(f)' =>
                    \/ AttemptsLeft(f)
                    \/ forwards[f].attempt_count < MaxAttempts
           \/ forwards'[f].attempt_count < MaxAttempts
           \/ /\ AttemptsLeft(f) /\ ~AttemptsLeft(f)'
              /\ forwards'[f].attempt_count = forwards[f].attempt_count + 1
<1> USE DEF NobodyAbandons
<1> /\ TypeInv /\ OpenTransactionsHoldTheirRows
    /\ forwards \in [Forwards -> Row] /\ slots \in [Workers -> Slot]
    /\ requests \in [Forwards -> Request]
    /\ OneLiveAttempt /\ RecordHitsItsOwnAttempt /\ ReclaimedNotAttempted
  BY DEF ExclusionInv, AgeInv, RowInv, TypeInv, TypeOK
<1>1. ASSUME UNCHANGED slots, forwards'[f] = forwards[f]
      PROVE  /\ forwards'[f].attempt_count = forwards[f].attempt_count
             /\ AttemptsLeft(f)' => AttemptsLeft(f)
  BY <1>1 DEF AttemptsLeft, Attempting
<1>2. ASSUME NEW g \in Forwards, WebStep(g)
      PROVE  \/ UNCHANGED slots /\ forwards'[f] = forwards[f]
             \/ forwards'[f].attempt_count < MaxAttempts
             \/ /\ AttemptsLeft(f)
                /\ forwards'[f].attempt_count = forwards[f].attempt_count
  <2>1. UNCHANGED slots
    BY <1>2, OwnerFrame
  <2>2. CASE CommitRequest(g) /\ g = f
    <3>1. CASE requests[f].kind = "retry"
      <4>1. forwards'[f] = ManualRetry_Set(forwards[f])
        BY <2>2, <3>1 DEF CommitRequest, Update
      <4>2. forwards[f].status \in {"failed", "dead", "abandoned"}
        BY <3>1 DEF OpenTransactionsHoldTheirRows, ManualRetry_Where
      <4>3. forwards'[f].attempt_count =
              IF forwards[f].status \in {"dead", "abandoned"} THEN MaxAttempts - 1
              ELSE forwards[f].attempt_count
        BY <4>1, ManualRetryFields
      <4>4. QED
        BY <4>2, <4>3, MaxAttemptsType DEF AttemptsLeft
    <3>2. CASE requests[f].kind = "capture"
      BY <2>2, <3>2, InsertFields
         DEF CommitRequest, Update, OpenTransactionsHoldTheirRows, AttemptsLeft
    <3>3. QED
      BY <2>2, <3>1, <3>2 DEF CommitRequest, Request, Kinds
  <2>3. CASE CommitRequest(g) /\ g # f
    BY <2>1, <2>3 DEF CommitRequest, Update
  <2>4. ~AbandonForward(g)
    <3>1. budget.abandons \in Nat
      BY DEF TypeInv, TypeOK
    <3>2. QED
      BY <3>1 DEF AbandonForward
  <2>5. CASE \/ Capture(g) \/ RetryForward(g) \/ BackgroundEnqueue(g)
             \/ BackgroundLost(g) \/ RequestRollback(g)
    BY <2>1, <2>5 DEF Capture, RetryForward, BackgroundEnqueue, BackgroundLost,
                      RequestRollback
  <2>6. QED
    BY <1>2, <2>2, <2>3, <2>4, <2>5 DEF WebStep
<1>3. ASSUME NEW r \in Redrivers, RedriveStep(r)
      PROVE  \/ UNCHANGED slots /\ forwards'[f] = forwards[f]
             \/ /\ AttemptsLeft(f)
                /\ forwards'[f].attempt_count = forwards[f].attempt_count
  <2>1. UNCHANGED slots
    BY <1>3, OwnerFrame
  <2>2. CASE RedriveCommit(r) /\ f \in redrives[r].reclaimed
    BY <2>2, ReclaimFields DEF RedriveCommit, Seen, AttemptsLeft,
       OpenTransactionsHoldTheirRows, ReclaimedNotAttempted
  <2>3. CASE RedriveCommit(r) /\ f \notin redrives[r].reclaimed
    BY <2>1, <2>3 DEF RedriveCommit, Seen
  <2>4. CASE ~RedriveCommit(r)
    BY <1>3, <2>1, <2>4 DEF RedriveStep, RedriveReclaim, RedriveListFailed,
       RedriveListPending, RedriveEnqueue, RedriveEnqueueFails, RedriveRollback
  <2>5. QED
    BY <2>2, <2>3, <2>4
<1>4. CASE DeleteExpired
  <2>1. forwards'[f].attempt_count = 0
    BY <1>4, DeletedFields DEF DeleteExpired
  <2>2. QED
    BY <2>1, MaxAttemptsType
<1>5. CASE Tick
  <2>1. /\ forwards'[f].status = forwards[f].status
        /\ forwards'[f].attempt_count = forwards[f].attempt_count
    BY <1>5, AgedFields DEF Tick
  <2>2. \A w \in Workers : Attempting(w, f)' <=> Attempting(w, f)
    BY <1>5 DEF Tick, Attempting, Slot
  <2>3. QED
    BY <2>1, <2>2 DEF AttemptsLeft
<1>6. ASSUME NEW w \in Workers, Claim(w)
      PROVE  \/ UNCHANGED <<forwards[f], AttemptsLeft(f)>>
             \/ /\ AttemptsLeft(f) /\ ~AttemptsLeft(f)'
                /\ forwards'[f].attempt_count = forwards[f].attempt_count + 1
  <2>1. slots[w].f \in Forwards /\ slots[w].pc = "claim"
    BY <1>6 DEF Claim, TypeInv, GoodSlot
  <2>2. /\ \A v \in Workers \ {w} : slots'[v] = slots[v]
        /\ slots'[w].f = slots[w].f /\ slots'[w].pc = "http"
    BY <1>6 DEF Claim, Slot
  <2>3. CASE f = slots[w].f
    <3>1. AttemptsLeft(f)
      BY <1>6, <2>3 DEF Claim, ClaimForAttempt_Where, AttemptsLeft
    <3>2. /\ forwards'[f].attempt_count = forwards[f].attempt_count + 1
          /\ forwards'[f].status = "in_flight"
      BY <1>6, <2>3, ClaimFields DEF Claim, Update
    <3>3. Attempting(w, f)'
      BY <2>2, <2>3 DEF Attempting
    <3>4. QED
      BY <3>1, <3>2, <3>3 DEF AttemptsLeft
  <2>4. CASE f # slots[w].f
    <3>1. forwards'[f] = forwards[f]
      BY <1>6, <2>1, <2>4 DEF Claim, Update
    <3>2. \A v \in Workers : Attempting(v, f)' <=> Attempting(v, f)
      BY <2>2, <2>4 DEF Attempting
    <3>3. QED
      BY <3>1, <3>2 DEF AttemptsLeft
  <2>5. QED
    BY <2>3, <2>4
<1>7. ASSUME NEW w \in Workers, Record(w)
      PROVE  /\ forwards'[f].attempt_count = forwards[f].attempt_count
             /\ AttemptsLeft(f)' =>
                    \/ AttemptsLeft(f)
                    \/ forwards[f].attempt_count < MaxAttempts
  <2>1. /\ slots[w].f \in Forwards /\ Attempting(w, slots[w].f)
        /\ slots[w].next_status \in {"succeeded", "failed", "dead"}
        /\ slots[w].next_status = "failed" => slots[w].attempt < MaxAttempts
    BY <1>7 DEF Record, TypeInv, GoodSlot, Attempting
  <2>2. \A v \in Workers \ {w} : slots'[v] = slots[v]
    BY <1>7, WorkerFrame DEF WorkerStep
  <2>3. CASE f # slots[w].f
    <3>1. forwards'[f] = forwards[f]
      BY <1>7, <2>1, <2>3 DEF Record, Update
    <3>2. ASSUME \A v \in Workers : ~Attempting(v, f)'
          PROVE  \A v \in Workers : ~Attempting(v, f)
      BY <2>2, <2>3, <3>2 DEF Attempting
    <3>3. QED
      BY <3>1, <3>2 DEF AttemptsLeft
  <2>4. CASE f = slots[w].f /\ RecordOutcome_Where(forwards[f])
    <3>1. /\ forwards'[f].attempt_count = forwards[f].attempt_count
          /\ forwards'[f].status = slots[w].next_status
      BY <1>7, <2>1, <2>4, RecordFields DEF Record, Update
    <3>2. forwards[f].attempt_count = slots[w].attempt
      BY <2>1, <2>4 DEF RecordHitsItsOwnAttempt, RecordOutcome_Where, Exists, Statuses
    <3>3. QED
      BY <2>1, <3>1, <3>2 DEF AttemptsLeft
  <2>5. CASE f = slots[w].f /\ ~RecordOutcome_Where(forwards[f])
    <3>1. forwards'[f] = forwards[f]
      BY <1>7, <2>5 DEF Record, Update
    <3>2. forwards[f].status = "deleted"
      BY <2>1, <2>5 DEF RecordHitsItsOwnAttempt, RecordOutcome_Where, Exists, Statuses
    <3>3. QED
      BY <3>1, <3>2 DEF AttemptsLeft
  <2>6. QED
    BY <2>3, <2>4, <2>5
<1>8. ASSUME NEW w \in Workers, WorkerStep(w), ~Claim(w), ~Record(w)
      PROVE  /\ forwards'[f].attempt_count = forwards[f].attempt_count
             /\ AttemptsLeft(f)' => AttemptsLeft(f)
  <2>1. UNCHANGED forwards
    BY <1>8, WorkerFrame
  <2>2. Attempting(w, f) => Attempting(w, f)'
    BY <1>8, AttemptEnds
  <2>3. \A v \in Workers : Attempting(v, f) => Attempting(v, f)'
    BY <1>8, <2>2, WorkerFrame DEF Attempting
  <2>4. QED
    BY <2>1, <2>3 DEF AttemptsLeft
<1>9. CASE UNCHANGED vars
  BY <1>1, <1>9 DEF vars
<1>10. CASE \E g \in Forwards : WebStep(g)
  BY <1>1, <1>2, <1>10
<1>11. CASE \E r \in Redrivers : RedriveStep(r)
  BY <1>1, <1>3, <1>11
<1>12. CASE \E w \in Workers : WorkerStep(w)
  BY <1>6, <1>7, <1>8, <1>12
<1>13. QED
  BY <1>4, <1>5, <1>9, <1>10, <1>11, <1>12 DEF Next

(* Every step keeps each attempt beyond MAX_ATTEMPTS paid for by a fault.  *)
LEMMA NextOverrun ==
    ASSUME NobodyAbandons
    PROVE  ExclusionInv /\ OverrunInv /\ [Next]_vars => OverrunInv'
<1> SUFFICES ASSUME ExclusionInv, OverrunInv, [Next]_vars,
                    NEW f \in Forwards
             PROVE  /\ (forwards[f].attempt_count <= MaxAttempts + budget.faults)'
                    /\ AttemptsLeft(f)' =>
                         (forwards[f].attempt_count < MaxAttempts + budget.faults)'
  BY DEF OverrunInv, BoundedOverrun
<1> DEFINE n == forwards[f].attempt_count
           n2 == forwards'[f].attempt_count
           x == budget.faults
           x2 == budget'.faults
<1>1. TypeInv /\ TypeInv'
  BY NextTypes DEF ExclusionInv, AgeInv, RowInv
<1>2. n \in Nat /\ n2 \in Nat
  BY <1>1 DEF TypeInv, TypeOK, Row
<1>3. /\ x \in Nat /\ x2 \in Nat /\ x2 >= x
      /\ Fault => x2 = x + 1
  BY <1>1, FaultsGrow
<1>4. /\ n <= MaxAttempts + x
      /\ AttemptsLeft(f) => n < MaxAttempts + x
  BY DEF OverrunInv, BoundedOverrun
<1>5. CASE ~Fault
  <2>1. \/ n2 = n /\ (AttemptsLeft(f)' => AttemptsLeft(f) \/ n < MaxAttempts)
        \/ n2 < MaxAttempts
        \/ AttemptsLeft(f) /\ ~AttemptsLeft(f)' /\ n2 = n + 1
    <3>1. \/ /\ forwards'[f].attempt_count = forwards[f].attempt_count
             /\ AttemptsLeft(f)' =>
                   \/ AttemptsLeft(f)
                   \/ forwards[f].attempt_count < MaxAttempts
          \/ forwards'[f].attempt_count < MaxAttempts
          \/ /\ AttemptsLeft(f) /\ ~AttemptsLeft(f)'
             /\ forwards'[f].attempt_count = forwards[f].attempt_count + 1
      BY <1>5, CountSteps
    <3>2. QED
      BY <3>1
  <2> HIDE DEF n, n2, x, x2
  <2>2. n2 <= MaxAttempts + x2 /\ (AttemptsLeft(f)' => n2 < MaxAttempts + x2)
    BY <1>2, <1>3, <1>4, <2>1, MaxAttemptsType
  <2>3. QED
    BY <2>2 DEF n2, x2
<1>6. CASE Fault
  <2>1. n2 = n
    BY <1>1, <1>6, FaultKeepsRows
  <2> HIDE DEF n, n2, x, x2
  <2>2. n2 < MaxAttempts + x2
    BY <1>2, <1>3, <1>4, <1>6, <2>1, MaxAttemptsType
  <2>3. QED
    BY <1>2, <1>3, <2>2, MaxAttemptsType DEF n2, x2
<1>7. QED
  BY <1>5, <1>6

(* No attempt has been made at first.                                      *)
LEMMA InitOverrun == Init => OverrunInv
<1> SUFFICES ASSUME Init PROVE OverrunInv
  OBVIOUS
<1>1. \A f \in Forwards : forwards[f].attempt_count = 0
  BY DeletedFields DEF Init
<1>2. budget.faults = 0
  BY DEF Init
<1>3. QED
  BY <1>1, <1>2, MaxAttemptsType DEF OverrunInv, BoundedOverrun

(* At most MAX_ATTEMPTS attempts of a forward, and one more for each       *)
(* attempt that was lost to a fault (verifying-forwards.md:85-93).         *)
THEOREM AttemptsAreBounded ==
    ASSUME NobodyAbandons PROVE Spec => []BoundedOverrun
<1>1. ExclusionInv /\ OverrunInv => BoundedOverrun
  BY DEF OverrunInv
<1>2. Init => ExclusionInv /\ OverrunInv
  BY InitExclusion, InitOverrun
<1>3. (ExclusionInv /\ OverrunInv) /\ [Next]_vars => (ExclusionInv /\ OverrunInv)'
  BY NextExclusion, NextOverrun
<1>4. QED
  BY <1>1, <1>2, <1>3, PTL DEF Spec
-----------------------------------------------------------------------------
(* That no failed forward is forgotten.                                    *)

NobodyRetries == MaxRetries = 0

(* Undisturbed operation: no fault and no owner's retry or abandon, a job  *)
(* that may be tried, and a delay that no other job of the forward has.    *)
(* Redrives, the cleaner, slow workers, late jobs and jobs that start      *)
(* before there is a row to claim are not excluded.                        *)
Undisturbed ==
    /\ MaxFaults = 0 /\ NobodyRetries /\ NobodyAbandons
    /\ ArqMaxTries >= 1
    /\ \A i \in 1..MaxAttempts :
          /\ RetryBackoffs[i] # 0
          /\ \A j \in 1..MaxAttempts : RetryBackoffs[i] = RetryBackoffs[j] => i = j

NoRetryOpen == \A f \in Forwards : requests[f].kind # "retry"

(* No retry is ever opened.                                                *)
LEMMA NextNoRetryOpen ==
    ASSUME NobodyRetries, TypeInv, NoRetryOpen, [Next]_vars PROVE NoRetryOpen'
<1> /\ requests \in [Forwards -> Request] /\ budget.retries \in Nat
    /\ \A f \in Forwards : requests[f].kind # "retry"
  BY DEF TypeInv, TypeOK, NoRetryOpen
<1>1. ASSUME NEW g \in Forwards, WebStep(g) PROVE NoRetryOpen'
  <2>1. ~RetryForward(g)
    BY DEF RetryForward, NobodyRetries
  <2>2. CASE Capture(g)
    BY <2>2 DEF Capture, NoRetryOpen, Request
  <2>3. CASE CommitRequest(g) \/ RequestRollback(g)
    BY <2>3 DEF CommitRequest, RequestRollback, NoRequest, NoRetryOpen
  <2>4. CASE RunBackground(g)
    BY <2>4 DEF RunBackground, NoRetryOpen, Request
  <2>5. CASE AbandonForward(g)
    BY <2>5 DEF AbandonForward, NoRetryOpen
  <2>6. QED
    BY <1>1, <2>1, <2>2, <2>3, <2>4, <2>5
       DEF WebStep, BackgroundEnqueue, BackgroundLost
<1>2. ASSUME NEW r \in Redrivers, RedriveStep(r) PROVE UNCHANGED requests
  BY <1>2 DEF RedriveStep, RedriveReclaim, RedriveListFailed, RedriveListPending,
     RedriveEnqueue, RedriveEnqueueFails, RedriveCommit, RedriveRollback
<1>3. DeleteExpired \/ Tick \/ UNCHANGED vars => UNCHANGED requests
  BY DEF DeleteExpired, Tick, vars
<1>4. QED
  BY <1>1, <1>2, <1>3, WorkerFrame DEF Next, NoRetryOpen

On(w, f) == slots[w].f = f /\ slots[w].pc # "idle"

(* Slot w has claimed f, for an attempt that it may still re-enqueue.      *)
Past(w, f) == slots[w].f = f /\ slots[w].pc \in {"http", "record", "enqueue"}

(* A job that will still claim f.                                          *)
Waiting(f, d) ==
    \/ jobs[f][d].state = "queued"
    \/ \E w \in Workers : On(w, f) /\ slots[w].pc = "claim" /\ slots[w].d = d

(* arq runs a job in one slot, once.                                       *)
JobsHeld(f) ==
    /\ \A d \in Defers : jobs[f][d].state = "queued" => jobs[f][d].tries = 0
    /\ \A d \in Defers : jobs[f][d].state = "running" =>
          \E w \in Workers : On(w, f) /\ slots[w].d = d
    /\ \A w \in Workers : On(w, f) => jobs[f][slots[w].d].state = "running"
    /\ \A w, v \in Workers :
          On(w, f) /\ On(v, f) /\ slots[w].d = slots[v].d => w = v

(* Before its first attempt no worker has f: a job that started early      *)
(* found no row to claim.                                                  *)
NotBegun(f) ==
    forwards[f].status \in {"absent", "pending"} => \A w \in Workers : ~Past(w, f)

(* The delay of attempt i names a job only after that attempt's worker     *)
(* enqueued it, so no enqueue after a failed attempt is swallowed.         *)
DelaysUnused(f) == forwards[f].status # "deleted" =>
    /\ \A i \in 1..MaxAttempts : jobs[f][RetryBackoffs[i]].state # "none" =>
          /\ i <= forwards[f].attempt_count
          /\ \A w \in Workers : Past(w, f) => slots[w].attempt # i
    /\ \A w \in Workers : Past(w, f) =>
          1 <= slots[w].attempt /\ slots[w].attempt <= forwards[f].attempt_count
    /\ \A w, v \in Workers :
          Past(w, f) /\ Past(v, f) /\ slots[w].attempt = slots[v].attempt => w = v

InFlightIsAttempted(f) ==
    forwards[f].status = "in_flight" => \E w \in Workers : Attempting(w, f)

(* Who has a failed forward in hand: the job of its delay, or the worker   *)
(* that will put it in the queue.                                          *)
Assigned(f) == forwards[f].status = "failed" =>
    /\ forwards[f].attempt_count \in 1..(MaxAttempts - 1)
    /\ \/ Waiting(f, RetryBackoffs[forwards[f].attempt_count])
       \/ \E w \in Workers : /\ slots[w].f = f /\ slots[w].pc = "enqueue"
                             /\ slots[w].attempt = forwards[f].attempt_count

Calm(f) == /\ JobsHeld(f) /\ NotBegun(f) /\ DelaysUnused(f)
           /\ InFlightIsAttempted(f) /\ Assigned(f)

(* A worker carries the delay of its attempt from the decision to the      *)
(* enqueue.                                                                *)
DelaysCarried ==
    \A w \in Workers :
        \/ slots[w].pc = "record" /\ slots[w].next_status = "failed"
        \/ slots[w].pc = "enqueue"
        => /\ slots[w].attempt \in 1..(MaxAttempts - 1)
           /\ slots[w].defer = RetryBackoffs[slots[w].attempt]

NothingReclaimed == \A r \in Redrivers : redrives[r].reclaimed = {}

CalmInv == /\ ExclusionInv /\ NoRetryOpen /\ DelaysCarried /\ NothingReclaimed
           /\ \A f \in Forwards : Calm(f)

(* A step that is not about f: time passes over it, or nothing.            *)
Untouched(f) ==
    /\ forwards'[f].status = forwards[f].status
    /\ forwards'[f].attempt_count = forwards[f].attempt_count
    /\ \A d \in Defers :
          \/ /\ jobs'[f][d].state = jobs[f][d].state
             /\ jobs'[f][d].tries = jobs[f][d].tries
          \/ jobs[f][d].state = "done" /\ jobs'[f][d].state = "none"
    /\ \A w \in Workers :
          /\ On(w, f)' => On(w, f)
          /\ On(w, f) => /\ On(w, f)'
                         /\ slots'[w].pc = slots[w].pc /\ slots'[w].d = slots[w].d
                         /\ slots'[w].attempt = slots[w].attempt

(* Every job of the backoff table has its place in the queue.              *)
LEMMA DelaysAreDefers ==
    \A i \in 1..MaxAttempts : RetryBackoffs[i] \in Defers
BY DEF Defers

(* What a step leaves alone of a forward stays calm.                       *)
LEMMA UntouchedCalm ==
    ASSUME CalmInv, NEW f \in Forwards, Untouched(f) PROVE Calm(f)'
<1> USE DEF On, Past, Attempting
<1>1. /\ JobsHeld(f) /\ NotBegun(f) /\ DelaysUnused(f)
      /\ InFlightIsAttempted(f) /\ Assigned(f)
      /\ slots \in [Workers -> Slot]
      /\ forwards \in [Forwards -> Row]
  BY DEF CalmInv, Calm, ExclusionInv, AgeInv, RowInv, TypeInv, TypeOK
<1>2. JobsHeld(f)'
  BY <1>1 DEF Untouched, JobsHeld, Slot
<1>3. NotBegun(f)'
  BY <1>1 DEF Untouched, NotBegun
<1>4. DelaysUnused(f)'
  BY <1>1, DelaysAreDefers DEF Untouched, DelaysUnused
<1>5. InFlightIsAttempted(f)'
  BY <1>1 DEF Untouched, InFlightIsAttempted
<1>6. ASSUME NEW d \in Defers, Waiting(f, d) PROVE Waiting(f, d)'
  BY <1>6 DEF Untouched, Waiting
<1>7. Assigned(f)'
  <2>2. CASE forwards'[f].status = "failed"
    <3>1. /\ forwards[f].status = "failed"
          /\ forwards'[f].attempt_count = forwards[f].attempt_count
          /\ forwards[f].attempt_count \in 1..(MaxAttempts - 1)
      BY <1>1, <2>2 DEF Untouched, Assigned
    <3>2. RetryBackoffs[forwards[f].attempt_count] \in Defers
      BY <3>1, DelaysAreDefers, MaxAttemptsType
    <3>3. CASE Waiting(f, RetryBackoffs[forwards[f].attempt_count])
      <4>1. Waiting(f, RetryBackoffs[forwards[f].attempt_count])'
        BY <1>6, <3>1, <3>2, <3>3
      <4>2. QED
        BY <2>2, <3>1, <4>1 DEF Assigned
    <3>4. CASE \E w \in Workers : /\ slots[w].f = f /\ slots[w].pc = "enqueue"
                                  /\ slots[w].attempt = forwards[f].attempt_count
      BY <2>2, <3>1, <3>4 DEF Untouched, Assigned
    <3>5. QED
      BY <1>1, <3>1, <3>3, <3>4 DEF Assigned
  <2>3. QED
    BY <2>2 DEF Assigned
<1>8. QED
  BY <1>2, <1>3, <1>4, <1>5, <1>7 DEF Calm

(* What the steps of a calm pipeline start from.                           *)
LEMMA CalmFacts ==
    ASSUME CalmInv
    PROVE  /\ TypeInv /\ OpenTransactionsHoldTheirRows /\ RecordHitsItsOwnAttempt
           /\ ReclaimSparesLiveAttempts
           /\ forwards \in [Forwards -> Row] /\ requests \in [Forwards -> Request]
           /\ slots \in [Workers -> Slot] /\ jobs \in [Forwards -> [Defers -> Job]]
           /\ redrives \in [Redrivers -> Redrive]
           /\ \A w \in Workers : slots[w].pc # "idle" =>
                 /\ slots[w].f \in Forwards /\ slots[w].d \in Defers
                 /\ slots[w].attempt \in Nat /\ slots[w].defer \in Defers
           /\ \A f \in Forwards : forwards[f].attempt_count \in Nat
BY AgesSpareAttempts
   DEF CalmInv, ExclusionInv, AgeInv, RowInv, TypeInv, TypeOK, Slot, Row

(* A captured forward is committed; a job may have looked for it before.   *)
LEMMA CommitCalm ==
    ASSUME CalmInv, NEW f \in Forwards, CommitRequest(f)
    PROVE  Calm(f)' /\ \A g \in Forwards \ {f} : Untouched(g)
<1> USE DEF On, Past, Attempting
<1>1. requests[f].kind = "capture" /\ forwards[f].status = "absent"
  BY CalmFacts DEF CommitRequest, CalmInv, NoRetryOpen, Request, Kinds,
                   OpenTransactionsHoldTheirRows
<1>2. /\ forwards' = [forwards EXCEPT ![f] = [forwards[f] EXCEPT !.status = "pending"]]
      /\ UNCHANGED <<jobs, slots, redrives>>
  BY <1>1 DEF CommitRequest, Update
<1>3. /\ forwards'[f].status = "pending"
      /\ forwards'[f].attempt_count = forwards[f].attempt_count
  BY <1>2, CalmFacts, InsertFields
<1>4. JobsHeld(f) /\ NotBegun(f) /\ DelaysUnused(f)
  BY DEF CalmInv, Calm
<1>5. JobsHeld(f)' /\ NotBegun(f)' /\ InFlightIsAttempted(f)' /\ Assigned(f)'
  BY <1>1, <1>2, <1>3, <1>4 DEF JobsHeld, NotBegun, InFlightIsAttempted, Assigned
<1>6. DelaysUnused(f)'
  BY <1>1, <1>2, <1>3, <1>4 DEF DelaysUnused
<1>7. ASSUME NEW g \in Forwards \ {f} PROVE Untouched(g)
  BY <1>2, CalmFacts DEF Untouched
<1>8. QED
  BY <1>5, <1>6, <1>7 DEF Calm

(* The job of defer 0 is enqueued, by a background task or a redrive.      *)
LEMMA EnqueueCalm ==
    ASSUME Undisturbed, CalmInv, NEW f \in Forwards,
           Enqueue(f, 0), UNCHANGED <<forwards, slots>>
    PROVE  Calm(f)'
<1> USE DEF On, Past, Attempting
<1>1. /\ JobsHeld(f) /\ NotBegun(f) /\ DelaysUnused(f)
      /\ InFlightIsAttempted(f) /\ Assigned(f)
  BY DEF CalmInv, Calm
<1>2. /\ 0 \in Defers /\ jobs'[f][0] = Enqueued(jobs[f][0], 0)
      /\ \A d \in Defers \ {0} : jobs'[f][d] = jobs[f][d]
  <2>1. 0 \in Defers /\ jobs' = [jobs EXCEPT ![f][0] = Enqueued(jobs[f][0], 0)]
    BY DefersType, CalmFacts DEF Enqueue
  <2>2. QED
    BY <2>1, CalmFacts
<1>3. /\ jobs[f][0].state = "none" => jobs'[f][0].state = "queued" /\ jobs'[f][0].tries = 0
      /\ jobs[f][0].state # "none" => jobs'[f][0] = jobs[f][0]
  BY <1>2 DEF Enqueued
<1>4. JobsHeld(f)'
  <2>1. ASSUME NEW d \in Defers
        PROVE  /\ jobs'[f][d].state = "queued" => jobs'[f][d].tries = 0
               /\ jobs'[f][d].state = "running" => jobs[f][d].state = "running"
               /\ jobs[f][d].state = "running" => jobs'[f][d].state = "running"
    BY <1>1, <1>2, <1>3 DEF JobsHeld
  <2>2. QED
    BY <1>1, <2>1, CalmFacts DEF JobsHeld
<1>5. NotBegun(f)'
  BY <1>1 DEF NotBegun
<1>6. DelaysUnused(f)'
  BY <1>1, <1>2, DelaysAreDefers DEF DelaysUnused, Undisturbed
<1>7. InFlightIsAttempted(f)'
  BY <1>1 DEF InFlightIsAttempted
<1>8. Assigned(f)'
  <2>1. ASSUME NEW d \in Defers \ {0}, Waiting(f, d) PROVE Waiting(f, d)'
    BY <1>2, <2>1 DEF Waiting
  <2>2. ASSUME forwards[f].status = "failed"
        PROVE  RetryBackoffs[forwards[f].attempt_count] \in Defers \ {0}
    BY <1>1, <2>2, DelaysAreDefers, MaxAttemptsType DEF Assigned, Undisturbed
  <2>3. QED
    BY <1>1, <2>1, <2>2 DEF Assigned
<1>9. QED
  BY <1>4, <1>5, <1>6, <1>7, <1>8 DEF Calm

(* arq starts a queued job.                                                *)
LEMMA StartCalm ==
    ASSUME CalmInv, NEW w \in Workers, NEW f \in Forwards, NEW d \in Defers,
           StartJob(w, f, d)
    PROVE  Calm(f)' /\ \A g \in Forwards \ {f} : Untouched(g)
<1> USE DEF On, Past, Attempting
<1>1. /\ JobsHeld(f) /\ NotBegun(f) /\ DelaysUnused(f)
      /\ InFlightIsAttempted(f) /\ Assigned(f)
  BY DEF CalmInv, Calm
<1>2. /\ slots[w].pc = "idle" /\ jobs[f][d].state = "queued"
      /\ slots'[w].pc = "claim" /\ slots'[w].f = f /\ slots'[w].d = d
      /\ \A v \in Workers \ {w} : slots'[v] = slots[v]
      /\ UNCHANGED <<forwards, redrives>>
  <2>1. slots' = [slots EXCEPT ![w] = [IdleSlot EXCEPT !.pc = "claim", !.f = f, !.d = d]]
    BY DEF StartJob
  <2>2. QED
    BY <2>1, CalmFacts DEF StartJob, Ready, IdleSlot
<1>3. /\ jobs'[f][d].state = "running"
      /\ \A e \in Defers \ {d} : jobs'[f][e] = jobs[f][e]
      /\ \A g \in Forwards \ {f} : jobs'[g] = jobs[g]
  <2>1. jobs' = [jobs EXCEPT ![f][d] = Started(jobs[f][d])]
    BY CalmFacts DEF StartJob
  <2>2. Started(jobs[f][d]).state = "running"
    BY CalmFacts DEF Started, Job
  <2>3. QED
    BY <2>1, <2>2, CalmFacts
<1>4. JobsHeld(f)'
  <2>1. ASSUME NEW v \in Workers \ {w}, On(v, f) PROVE slots[v].d # d
    BY <1>1, <1>2, <2>1 DEF JobsHeld
  <2>2. ASSUME NEW v \in Workers, On(v, f)'
        PROVE  \/ v = w /\ slots'[v].d = d
               \/ v # w /\ On(v, f) /\ slots'[v] = slots[v] /\ slots[v].d # d
    BY <1>2, <2>1, <2>2
  <2>3. \A e \in Defers : jobs'[f][e].state = "queued" => jobs'[f][e].tries = 0
    BY <1>1, <1>3 DEF JobsHeld
  <2>4. ASSUME NEW e \in Defers, jobs'[f][e].state = "running"
        PROVE  \E v \in Workers : On(v, f)' /\ slots'[v].d = e
    <3>1. CASE e = d
      BY <1>2, <3>1
    <3>2. CASE e # d
      <4>1. PICK v \in Workers : On(v, f) /\ slots[v].d = e
        BY <1>1, <1>3, <2>4, <3>2 DEF JobsHeld
      <4>2. QED
        BY <1>2, <4>1
    <3>3. QED
      BY <3>1, <3>2
  <2>5. ASSUME NEW v \in Workers, On(v, f)'
        PROVE  jobs'[f][slots'[v].d].state = "running"
    <3>1. CASE v = w
      BY <1>2, <1>3, <3>1
    <3>2. CASE v # w
      <4>1. /\ On(v, f) /\ slots'[v] = slots[v] /\ slots[v].d # d
            /\ slots[v].d \in Defers
        BY <2>2, <2>5, <3>2, CalmFacts
      <4>2. QED
        BY <1>1, <1>3, <4>1 DEF JobsHeld
    <3>3. QED
      BY <3>1, <3>2
  <2>6. \A v, u \in Workers :
           On(v, f)' /\ On(u, f)' /\ slots'[v].d = slots'[u].d => v = u
    BY <1>1, <2>2 DEF JobsHeld
  <2>7. QED
    BY <2>3, <2>4, <2>5, <2>6 DEF JobsHeld
<1>5. NotBegun(f)'
  BY <1>1, <1>2, <1>3 DEF NotBegun
<1>6. DelaysUnused(f)'
  <2>1. \A v \in Workers : Past(v, f)' => Past(v, f) /\ slots'[v].attempt = slots[v].attempt
    BY <1>2
  <2>2. \A e \in Defers : jobs'[f][e].state # "none" => jobs[f][e].state # "none"
    BY <1>2, <1>3
  <2>3. QED
    BY <1>1, <1>2, <2>1, <2>2, DelaysAreDefers DEF DelaysUnused
<1>7. InFlightIsAttempted(f)'
  BY <1>1, <1>2 DEF InFlightIsAttempted
<1>8. \A e \in Defers : Waiting(f, e) => Waiting(f, e)'
  BY <1>2, <1>3 DEF Waiting
<1>9. Assigned(f)'
  <2>1. ASSUME forwards[f].status = "failed"
        PROVE  RetryBackoffs[forwards[f].attempt_count] \in Defers
    BY <1>1, <2>1, DelaysAreDefers, MaxAttemptsType DEF Assigned
  <2>2. \A v \in Workers : slots[v].pc = "enqueue" => slots'[v] = slots[v]
    BY <1>2
  <2>3. QED
    BY <1>1, <1>2, <1>8, <2>1, <2>2, DefersType DEF Assigned
<1>10. ASSUME NEW g \in Forwards \ {f} PROVE Untouched(g)
  BY <1>2, <1>3 DEF Untouched
<1>11. QED
  BY <1>4, <1>5, <1>6, <1>7, <1>9, <1>10 DEF Calm

(* A worker's step is about the forward of its job only.                   *)
LEMMA OtherForwards ==
    ASSUME CalmInv, NEW w \in Workers, slots[w].pc # "idle",
           slots'[w].pc = "idle" \/ slots'[w].f = slots[w].f,
           \A v \in Workers \ {w} : slots'[v] = slots[v],
           NEW g \in Forwards, g # slots[w].f,
           forwards'[g] = forwards[g], jobs'[g] = jobs[g],
           UNCHANGED redrives
    PROVE  Untouched(g)
BY DEF Untouched, On

(* claim_for_attempt puts the forward in flight, under a new number.       *)
LEMMA ClaimCalm ==
    ASSUME CalmInv, NEW w \in Workers, Claim(w), NEW f \in Forwards, slots[w].f = f
    PROVE  Calm(f)' /\ \A g \in Forwards \ {f} : Untouched(g)
<1> DEFINE n == forwards[f].attempt_count
<1>1. /\ f \in Forwards /\ slots[w].pc = "claim" /\ n \in Nat
      /\ forwards[f].status \in {"pending", "failed"}
  BY CalmFacts DEF Claim, ClaimForAttempt_Where
<1>2. /\ forwards' = [forwards EXCEPT ![f] =
                        ClaimForAttempt_Set(forwards[f], slots[w].elapsed)]
      /\ slots' = [slots EXCEPT ![w] = [slots[w] EXCEPT !.pc = "http",
           !.attempt = ClaimForAttempt_Set(forwards[f], slots[w].elapsed).attempt_count]]
      /\ UNCHANGED <<jobs, redrives>>
  BY DEF Claim, Update
<1>3. /\ forwards'[f].status = "in_flight" /\ forwards'[f].attempt_count = n + 1
      /\ \A g \in Forwards \ {f} : forwards'[g] = forwards[g]
  BY <1>1, <1>2, CalmFacts, ClaimFields
<1>4. /\ slots'[w].pc = "http" /\ slots'[w].f = f /\ slots'[w].d = slots[w].d
      /\ slots'[w].attempt = n + 1
      /\ \A v \in Workers \ {w} : slots'[v] = slots[v]
  BY <1>1, <1>2, CalmFacts, ClaimFields DEF Slot
<1>5. /\ JobsHeld(f) /\ DelaysUnused(f)
  BY <1>1 DEF CalmInv, Calm
<1> HIDE DEF n
<1>6. JobsHeld(f)'
  BY <1>1, <1>2, <1>4, <1>5 DEF JobsHeld, On
<1>7. NotBegun(f)' /\ Assigned(f)' /\ InFlightIsAttempted(f)'
  BY <1>3, <1>4 DEF NotBegun, Assigned, InFlightIsAttempted, Attempting
<1>8. DelaysUnused(f)'
  <2>1. ASSUME NEW v \in Workers, Past(v, f)'
        PROVE  \/ v = w /\ slots'[v].attempt = n + 1
               \/ /\ v # w /\ Past(v, f) /\ slots'[v] = slots[v]
                  /\ slots[v].attempt \in Nat /\ slots[v].attempt < n + 1
                  /\ 1 <= slots[v].attempt
    <3>1. CASE v # w
      <4>1. Past(v, f) /\ slots'[v] = slots[v]
        BY <1>4, <2>1, <3>1 DEF Past
      <4>2. 1 <= slots[v].attempt /\ slots[v].attempt <= n /\ slots[v].attempt \in Nat
        BY <1>1, <1>5, <4>1, CalmFacts DEF DelaysUnused, Past, n
      <4>3. QED
        BY <1>1, <3>1, <4>1, <4>2
    <3>2. QED
      BY <1>4, <3>1
  <2>2. ASSUME NEW i \in 1..MaxAttempts, jobs[f][RetryBackoffs[i]].state # "none"
        PROVE  /\ i <= n
               /\ \A v \in Workers : Past(v, f)' => slots'[v].attempt # i
    <3>1. i <= n /\ \A v \in Workers : Past(v, f) => slots[v].attempt # i
      BY <1>1, <1>5, <2>2 DEF DelaysUnused, n
    <3>2. n + 1 # i
      BY <1>1, <3>1
    <3>3. QED
      BY <2>1, <3>1, <3>2
  <2>3. \A i \in 1..MaxAttempts : jobs'[f][RetryBackoffs[i]].state # "none" =>
           /\ i <= n + 1
           /\ \A v \in Workers : Past(v, f)' => slots'[v].attempt # i
    BY <1>1, <1>2, <2>2
  <2>4. \A v \in Workers : Past(v, f)' =>
           1 <= slots'[v].attempt /\ slots'[v].attempt <= n + 1
    BY <1>1, <2>1
  <2>5. \A u, v \in Workers :
           Past(u, f)' /\ Past(v, f)' /\ slots'[u].attempt = slots'[v].attempt => u = v
    BY <1>1, <1>5, <2>1 DEF DelaysUnused
  <2>6. QED
    BY <1>3, <2>3, <2>4, <2>5 DEF DelaysUnused
<1>9. ASSUME NEW g \in Forwards \ {f} PROVE Untouched(g)
  BY <1>1, <1>2, <1>3, <1>4, <1>9, OtherForwards
<1>10. QED
  BY <1>1, <1>6, <1>7, <1>8, <1>9 DEF Calm

(* The HTTP phase ends.                                                    *)
LEMMA OutcomeCalm ==
    ASSUME CalmInv, NEW w \in Workers, NEW dec, NEW left,
           HttpOutcome(w, dec, left), NEW f \in Forwards, slots[w].f = f
    PROVE  Calm(f)' /\ \A g \in Forwards \ {f} : Untouched(g)
<1>1. /\ f \in Forwards /\ slots[w].pc = "http"
      /\ UNCHANGED <<forwards, jobs, redrives>>
      /\ slots'[w].pc = "record" /\ slots'[w].f = f /\ slots'[w].d = slots[w].d
      /\ slots'[w].attempt = slots[w].attempt
      /\ \A v \in Workers \ {w} : slots'[v] = slots[v]
  BY CalmFacts DEF HttpOutcome, Slot
<1>2. /\ JobsHeld(f) /\ NotBegun(f) /\ DelaysUnused(f)
      /\ InFlightIsAttempted(f) /\ Assigned(f)
  BY <1>1 DEF CalmInv, Calm
<1>3. JobsHeld(f)'
  BY <1>1, <1>2 DEF JobsHeld, On
<1>4. NotBegun(f)' /\ InFlightIsAttempted(f)'
  BY <1>1, <1>2 DEF NotBegun, InFlightIsAttempted, Attempting, Past, On
<1>5. \A v \in Workers : /\ Past(v, f)' <=> Past(v, f)
                         /\ Past(v, f) => slots'[v].attempt = slots[v].attempt
  BY <1>1 DEF Past
<1>6. DelaysUnused(f)'
  BY <1>1, <1>2, <1>5 DEF DelaysUnused
<1>7. \A d \in Defers : Waiting(f, d) => Waiting(f, d)'
  BY <1>1 DEF Waiting, On
<1>8. Assigned(f)'
  <2>1. ASSUME forwards[f].status = "failed"
        PROVE  RetryBackoffs[forwards[f].attempt_count] \in Defers
    BY <1>2, <2>1, DelaysAreDefers, MaxAttemptsType DEF Assigned
  <2>2. \A v \in Workers : slots[v].pc = "enqueue" => slots'[v] = slots[v]
    BY <1>1
  <2>3. QED
    BY <1>1, <1>2, <1>7, <2>1, <2>2, DefersType DEF Assigned
<1>9. ASSUME NEW g \in Forwards \ {f} PROVE Untouched(g)
  BY <1>1, <1>9, OtherForwards
<1>10. QED
  BY <1>1, <1>3, <1>4, <1>6, <1>8, <1>9 DEF Calm

(* The job of a slot ends; another job of its forward may have been put in *)
(* the queue.                                                              *)
LEMMA EndedJobHeld ==
    ASSUME CalmInv, NEW w \in Workers, NEW f \in Forwards, On(w, f),
           slots'[w].pc = "idle", \A v \in Workers \ {w} : slots'[v] = slots[v],
           jobs'[f][slots[w].d].state = "done",
           \A e \in Defers \ {slots[w].d} :
              \/ jobs'[f][e] = jobs[f][e]
              \/ /\ jobs[f][e].state = "none"
                 /\ jobs'[f][e].state = "queued" /\ jobs'[f][e].tries = 0
    PROVE  JobsHeld(f)'
<1> DEFINE d == slots[w].d
<1>1. JobsHeld(f) /\ d \in Defers
  BY CalmFacts DEF CalmInv, Calm, On
<1>2. ASSUME NEW v \in Workers, On(v, f)'
      PROVE  v # w /\ On(v, f) /\ slots'[v] = slots[v] /\ slots[v].d # d
             /\ slots[v].d \in Defers
  <2>1. v # w /\ On(v, f) /\ slots'[v] = slots[v]
    BY <1>2 DEF On
  <2>2. QED
    BY <1>1, <2>1, CalmFacts DEF JobsHeld, On
<1>3. ASSUME NEW v \in Workers \ {w}, On(v, f) PROVE On(v, f)' /\ slots'[v] = slots[v]
  BY <1>3 DEF On
<1>4. \A e \in Defers : jobs'[f][e].state = "queued" => jobs'[f][e].tries = 0
  BY <1>1 DEF JobsHeld
<1>5. ASSUME NEW e \in Defers, jobs'[f][e].state = "running"
      PROVE  \E v \in Workers : On(v, f)' /\ slots'[v].d = e
  <2>1. e # d /\ jobs[f][e].state = "running"
    BY <1>5
  <2>2. PICK v \in Workers : On(v, f) /\ slots[v].d = e
    BY <1>1, <2>1 DEF JobsHeld
  <2>3. QED
    BY <1>3, <2>1, <2>2
<1>6. ASSUME NEW v \in Workers, On(v, f)' PROVE jobs'[f][slots'[v].d].state = "running"
  <2>1. /\ v # w /\ On(v, f) /\ slots'[v] = slots[v] /\ slots[v].d # d
        /\ slots[v].d \in Defers
    BY <1>2, <1>6
  <2>2. jobs[f][slots[v].d].state = "running"
    BY <1>1, <2>1 DEF JobsHeld
  <2>3. QED
    BY <2>1, <2>2
<1>7. \A v, u \in Workers :
         On(v, f)' /\ On(u, f)' /\ slots'[v].d = slots'[u].d => v = u
  BY <1>1, <1>2 DEF JobsHeld
<1>8. QED
  BY <1>4, <1>5, <1>6, <1>7 DEF JobsHeld

(* A forward in the hand of nobody else needs none when it is over.        *)
LEMMA EndedJobCalm ==
    ASSUME CalmInv, NEW w \in Workers, NEW f \in Forwards, slots[w].f = f,
           slots[w].pc # "idle", EndJob(w, jobs),
           forwards'[f].attempt_count = forwards[f].attempt_count,
           forwards'[f].status = "deleted" \/ forwards[f].status # "deleted",
           \/ /\ forwards'[f].status \in {"succeeded", "dead", "abandoned", "deleted"}
           \/ /\ forwards'[f].status \in {"in_flight", "absent"}
              /\ forwards[f].status = forwards'[f].status
              /\ slots[w].pc = "claim",
           \A g \in Forwards \ {f} : forwards'[g] = forwards[g],
           UNCHANGED redrives
    PROVE  Calm(f)' /\ \A g \in Forwards \ {f} : Untouched(g)
<1> DEFINE d == slots[w].d
<1>1. /\ d \in Defers /\ On(w, f)
      /\ JobsHeld(f) /\ NotBegun(f) /\ DelaysUnused(f) /\ InFlightIsAttempted(f)
  BY CalmFacts DEF On, CalmInv, Calm
<1>2. /\ jobs' = [jobs EXCEPT ![f][d] = Finished(jobs[f][d])]
      /\ slots' = [slots EXCEPT ![w] = IdleSlot]
  BY <1>1, CalmFacts DEF EndJob
<1>3. Finished(jobs[f][d]).state = "done"
  BY DEF Finished
<1>4. /\ jobs'[f][d].state = "done"
      /\ \A e \in Defers \ {d} : jobs'[f][e] = jobs[f][e]
      /\ \A g \in Forwards \ {f} : jobs'[g] = jobs[g]
      /\ slots'[w].pc = "idle" /\ \A v \in Workers \ {w} : slots'[v] = slots[v]
  BY <1>1, <1>2, <1>3, CalmFacts DEF IdleSlot
<1>5. JobsHeld(f)'
  BY <1>1, <1>4, EndedJobHeld
<1>6. NotBegun(f)' /\ Assigned(f)'
  BY <1>1, <1>4 DEF NotBegun, Assigned, Past
<1>7. InFlightIsAttempted(f)'
  <2>1. CASE forwards'[f].status = "in_flight"
    <3>1. PICK v \in Workers : Attempting(v, f)
      BY <1>1, <2>1 DEF InFlightIsAttempted
    <3>2. v # w
      BY <2>1, <3>1 DEF Attempting
    <3>3. QED
      BY <1>4, <3>1, <3>2 DEF InFlightIsAttempted, Attempting
  <2>2. QED
    BY <2>1 DEF InFlightIsAttempted
<1>8. DelaysUnused(f)'
  <2>1. \A v \in Workers : Past(v, f)' => Past(v, f) /\ slots'[v] = slots[v]
    BY <1>4 DEF Past
  <2>2. jobs[f][d].state = "running"
    BY <1>1 DEF JobsHeld
  <2>3. \A e \in Defers : jobs'[f][e].state # "none" => jobs[f][e].state # "none"
    BY <1>4, <2>2
  <2>4. QED
    BY <1>1, <2>1, <2>3, DelaysAreDefers DEF DelaysUnused
<1>9. ASSUME NEW g \in Forwards \ {f} PROVE Untouched(g)
  BY <1>4, OtherForwards
<1>10. QED
  BY <1>5, <1>6, <1>7, <1>8, <1>9 DEF Calm

(* A job that finds its forward claimed, over or gone, or not yet there.   *)
LEMMA SkipCalm ==
    ASSUME CalmInv, NEW w \in Workers, SkipClaim(w), NEW f \in Forwards,
           slots[w].f = f
    PROVE  Calm(f)' /\ \A g \in Forwards \ {f} : Untouched(g)
<1>1. /\ slots[w].pc = "claim" /\ EndJob(w, jobs)
      /\ forwards[f].status \notin {"pending", "failed"}
      /\ UNCHANGED <<forwards, redrives>>
  BY DEF SkipClaim, ClaimForAttempt_Where
<1>2. forwards[f].status \in
         {"in_flight", "succeeded", "dead", "abandoned", "absent", "deleted"}
  BY <1>1, CalmFacts DEF Row, Statuses
<1>3. QED
  BY <1>1, <1>2, EndedJobCalm

(* TX2 of an attempt: its forward is over, or its worker will enqueue it.   *)
LEMMA RecordCalm ==
    ASSUME CalmInv, NEW w \in Workers, Record(w), NEW f \in Forwards,
           slots[w].f = f
    PROVE  Calm(f)' /\ \A g \in Forwards \ {f} : Untouched(g)
<1> DEFINE next == slots[w].next_status
<1>1. /\ slots[w].pc = "record" /\ next \in {"succeeded", "failed", "dead"}
      /\ UNCHANGED redrives
      /\ forwards' = [forwards EXCEPT ![f] =
           IF Exists(forwards[f]) THEN RecordOutcome_Set(forwards[f], next)
           ELSE forwards[f]]
  BY CalmFacts DEF Record, Update, RecordOutcome_Where, TypeInv, GoodSlot
<1>2. \A g \in Forwards \ {f} : forwards'[g] = forwards[g]
  BY <1>1, CalmFacts
<1>3. \/ /\ forwards[f].status = "in_flight" /\ forwards[f].attempt_count = slots[w].attempt
         /\ forwards'[f].status = next
         /\ forwards'[f].attempt_count = forwards[f].attempt_count
      \/ forwards[f].status = "deleted" /\ forwards'[f] = forwards[f]
  <2>1. Attempting(w, f)
    BY <1>1 DEF Attempting
  <2>2. \/ forwards[f].status = "deleted"
        \/ forwards[f].status = "in_flight" /\ forwards[f].attempt_count = slots[w].attempt
    BY <2>1, CalmFacts DEF RecordHitsItsOwnAttempt
  <2>3. CASE forwards[f].status = "deleted"
    BY <1>1, <2>3, CalmFacts DEF Exists, Statuses
  <2>4. CASE forwards[f].status = "in_flight"
    <3>1. forwards'[f] = RecordOutcome_Set(forwards[f], next)
      BY <1>1, <2>4, CalmFacts DEF Exists, Statuses
    <3>2. QED
      BY <2>2, <2>4, <3>1, CalmFacts, RecordFields
  <2>5. QED
    BY <2>2, <2>3, <2>4
<1> HIDE DEF next
<1>4. CASE next # "failed"
  <2>1. EndJob(w, jobs)
    BY <1>4 DEF Record, next
  <2>2. QED
    BY <1>1, <1>2, <1>3, <1>4, <2>1, EndedJobCalm
<1>5. CASE next = "failed"
  <2>1. slots' = [slots EXCEPT ![w] = [slots[w] EXCEPT !.pc = "enqueue"]] /\ UNCHANGED jobs
    BY <1>5 DEF Record, next
  <2>2. /\ slots'[w].pc = "enqueue" /\ slots'[w].f = f /\ slots'[w].d = slots[w].d
        /\ slots'[w].attempt = slots[w].attempt
        /\ \A v \in Workers \ {w} : slots'[v] = slots[v]
    BY <2>1, CalmFacts DEF Slot
  <2>3. JobsHeld(f) /\ DelaysUnused(f)
    BY DEF CalmInv, Calm
  <2>4. JobsHeld(f)'
    BY <1>1, <2>1, <2>2, <2>3 DEF JobsHeld, On
  <2>5. NotBegun(f)' /\ InFlightIsAttempted(f)'
    BY <1>3, <1>5 DEF NotBegun, InFlightIsAttempted
  <2>6. \A v \in Workers : Past(v, f)' => Past(v, f) /\ slots'[v].attempt = slots[v].attempt
    BY <1>1, <2>2 DEF Past
  <2>7. DelaysUnused(f)'
    BY <1>3, <1>5, <2>1, <2>3, <2>6 DEF DelaysUnused
  <2>8. Assigned(f)'
    <3>1. slots[w].attempt \in 1..(MaxAttempts - 1)
      BY <1>1, <1>5 DEF CalmInv, DelaysCarried, next
    <3>2. QED
      BY <1>3, <1>5, <2>2, <3>1 DEF Assigned
  <2>9. ASSUME NEW g \in Forwards \ {f} PROVE Untouched(g)
    BY <1>1, <1>2, <2>1, <2>2, OtherForwards
  <2>10. QED
    BY <2>4, <2>5, <2>7, <2>8, <2>9 DEF Calm
<1>6. QED
  BY <1>4, <1>5

(* The worker of a failed attempt enqueues the next one, under a job id    *)
(* that is free.                                                           *)
LEMMA EnqueueRetryCalm ==
    ASSUME Undisturbed, CalmInv, NEW w \in Workers, EnqueueRetry(w),
           NEW f \in Forwards, slots[w].f = f
    PROVE  Calm(f)' /\ \A g \in Forwards \ {f} : Untouched(g)
<1> DEFINE d == slots[w].d
           n == slots[w].attempt
           delay == RetryBackoffs[n]
<1>1. /\ slots[w].pc = "enqueue" /\ d \in Defers /\ n \in Nat
      /\ n \in 1..MaxAttempts /\ delay \in Defers /\ slots[w].defer = delay
      /\ Past(w, f) /\ On(w, f)
      /\ UNCHANGED <<forwards, redrives>>
  <2>1. slots[w].pc = "enqueue" /\ UNCHANGED <<forwards, redrives>>
    BY DEF EnqueueRetry
  <2>2. n \in 1..(MaxAttempts - 1) /\ slots[w].defer = delay
    BY <2>1 DEF CalmInv, DelaysCarried
  <2>3. n \in 1..MaxAttempts /\ n \in Nat
    BY <2>2, MaxAttemptsType
  <2>4. QED
    BY <2>1, <2>2, <2>3, DelaysAreDefers, CalmFacts DEF Past, On
<1>2. /\ JobsHeld(f) /\ NotBegun(f) /\ DelaysUnused(f)
      /\ InFlightIsAttempted(f) /\ Assigned(f)
  BY DEF CalmInv, Calm
<1>3. jobs[f][d].state = "running"
  BY <1>1, <1>2 DEF JobsHeld
<1>4. CASE forwards[f].status = "deleted"
  <2>1. slots' = [slots EXCEPT ![w] = IdleSlot]
    BY DEF EnqueueRetry, EndJob
  <2>2. jobs' = [[jobs EXCEPT ![f][delay] = Enqueued(jobs[f][delay], delay)]
                  EXCEPT ![f][d] = Finished(jobs[f][d])]
    <3>1. jobs' = [[jobs EXCEPT ![f][delay] = Enqueued(@, delay)]
                    EXCEPT ![f][d] = Finished(@)]
      BY <1>1 DEF EnqueueRetry, EndJob
    <3>2. QED
      BY <1>1, <3>1, CalmFacts DEF Finished
  <2>3. /\ Finished(jobs[f][d]).state = "done"
        /\ Enqueued(jobs[f][delay], delay) =
              IF jobs[f][delay].state = "none"
              THEN [state |-> "queued", timer |-> delay, tries |-> 0] ELSE jobs[f][delay]
    BY DEF Finished, Enqueued
  <2>4. /\ jobs'[f][d].state = "done"
        /\ \A e \in Defers \ {d} :
              \/ jobs'[f][e] = jobs[f][e]
              \/ /\ jobs[f][e].state = "none"
                 /\ jobs'[f][e].state = "queued" /\ jobs'[f][e].tries = 0
        /\ \A g \in Forwards \ {f} : jobs'[g] = jobs[g]
        /\ slots'[w].pc = "idle" /\ \A v \in Workers \ {w} : slots'[v] = slots[v]
    <3> DEFINE added == Enqueued(jobs[f][delay], delay)
               ended == Finished(jobs[f][d])
    <3>1. ended.state = "done" /\ jobs \in [Forwards -> [Defers -> Job]]
      BY <2>3, CalmFacts
    <3>2. \/ added = jobs[f][delay]
          \/ jobs[f][delay].state = "none" /\ added.state = "queued" /\ added.tries = 0
      BY <2>3
    <3>3. jobs' = [[jobs EXCEPT ![f][delay] = added] EXCEPT ![f][d] = ended]
      BY <2>2
    <3> HIDE DEF added, ended, d, delay
    <3>4. jobs'[f][d].state = "done" /\ \A g \in Forwards \ {f} : jobs'[g] = jobs[g]
      BY <1>1, <3>1, <3>3
    <3>5. \A e \in Defers \ {d} :
              jobs'[f][e] = IF e = delay THEN added ELSE jobs[f][e]
      BY <1>1, <3>1, <3>3
    <3>6. slots'[w].pc = "idle" /\ \A v \in Workers \ {w} : slots'[v] = slots[v]
      BY <2>1, CalmFacts DEF IdleSlot
    <3>7. QED
      BY <3>2, <3>4, <3>5, <3>6
  <2>5. JobsHeld(f)'
    BY <1>1, <2>4, EndedJobHeld
  <2>6. /\ NotBegun(f)' /\ DelaysUnused(f)' /\ InFlightIsAttempted(f)' /\ Assigned(f)'
    BY <1>1, <1>4 DEF NotBegun, DelaysUnused, InFlightIsAttempted, Assigned
  <2>7. ASSUME NEW g \in Forwards \ {f} PROVE Untouched(g)
    BY <1>1, <2>4, OtherForwards
  <2>8. QED
    BY <2>5, <2>6, <2>7 DEF Calm
<1>5. CASE forwards[f].status # "deleted"
  <2>1. jobs[f][delay].state = "none" /\ d # delay
    <3>1. jobs[f][delay].state = "none"
      BY <1>1, <1>2, <1>5 DEF DelaysUnused
    <3>2. QED
      BY <1>3, <3>1
  <2>2. /\ jobs'[f][d].state = "done"
        /\ jobs'[f][delay].state = "queued" /\ jobs'[f][delay].tries = 0
        /\ \A e \in Defers \ {d, delay} : jobs'[f][e] = jobs[f][e]
        /\ \A g \in Forwards \ {f} : jobs'[g] = jobs[g]
    <3>1. jobs' = [[jobs EXCEPT ![f][delay] = Enqueued(@, delay)]
                    EXCEPT ![f][d] = Finished(@)]
      BY <1>1 DEF EnqueueRetry, EndJob
    <3>2. Enqueued(jobs[f][delay], delay) = [state |-> "queued", timer |-> delay, tries |-> 0]
      BY <2>1 DEF Enqueued
    <3>3. QED
      BY <1>1, <2>1, <3>1, <3>2, CalmFacts DEF Finished
  <2>3. slots'[w].pc = "idle" /\ \A v \in Workers \ {w} : slots'[v] = slots[v]
    <3>1. slots' = [slots EXCEPT ![w] = IdleSlot]
      BY DEF EnqueueRetry, EndJob
    <3>2. QED
      BY <3>1, CalmFacts DEF IdleSlot
  <2> HIDE DEF d, n, delay
  <2>4. JobsHeld(f)'
    <3>1. \A e \in Defers \ {d} :
             \/ jobs'[f][e] = jobs[f][e]
             \/ /\ jobs[f][e].state = "none"
                /\ jobs'[f][e].state = "queued" /\ jobs'[f][e].tries = 0
      BY <2>1, <2>2
    <3>2. QED
      BY <1>1, <2>2, <2>3, <3>1, EndedJobHeld DEF d
  <2>5. forwards[f].status \notin {"absent", "pending"}
    BY <1>1, <1>2 DEF NotBegun
  <2>6. NotBegun(f)'
    BY <1>1, <2>5 DEF NotBegun
  <2>7. InFlightIsAttempted(f)'
    BY <1>1, <1>2, <2>3 DEF InFlightIsAttempted, Attempting
  <2>8. ASSUME NEW v \in Workers, Past(v, f)'
        PROVE  Past(v, f) /\ slots'[v] = slots[v] /\ slots[v].attempt # n
    <3>1. v # w /\ Past(v, f) /\ slots'[v] = slots[v]
      BY <2>3, <2>8 DEF Past
    <3>2. QED
      BY <1>1, <1>2, <1>5, <3>1 DEF DelaysUnused, n
  <2>9. DelaysUnused(f)'
    <3>1. ASSUME NEW i \in 1..MaxAttempts, jobs'[f][RetryBackoffs[i]].state # "none"
          PROVE  /\ i <= forwards[f].attempt_count
                 /\ \A v \in Workers : Past(v, f)' => slots'[v].attempt # i
      <4>1. CASE i = n
        BY <1>1, <1>2, <1>5, <2>8, <4>1 DEF DelaysUnused, n
      <4>2. CASE i # n
        <5>1. RetryBackoffs[i] # delay /\ RetryBackoffs[i] \in Defers
          BY <1>1, <4>2, DelaysAreDefers DEF Undisturbed, delay
        <5>2. jobs[f][RetryBackoffs[i]].state # "none"
          BY <1>3, <2>2, <3>1, <5>1
        <5>3. QED
          BY <1>2, <1>5, <2>8, <5>2 DEF DelaysUnused
      <4>3. QED
        BY <4>1, <4>2
    <3>2. QED
      BY <1>1, <1>2, <1>5, <2>8, <3>1 DEF DelaysUnused
  <2>10. Assigned(f)'
    <3>1. CASE forwards[f].status # "failed"
      BY <1>1, <2>5, <3>1 DEF Assigned
    <3>2. CASE forwards[f].status = "failed"
      <4> DEFINE c == forwards[f].attempt_count
      <4>1. c \in 1..(MaxAttempts - 1) /\ c \in 1..MaxAttempts /\ RetryBackoffs[c] \in Defers
        BY <1>2, <3>2, DelaysAreDefers, MaxAttemptsType DEF Assigned
      <4>2. CASE n = c
        <5>1. Waiting(f, RetryBackoffs[c])'
          BY <1>1, <2>2, <4>2 DEF Waiting, delay
        <5>2. QED
          BY <1>1, <3>2, <4>1, <5>1 DEF Assigned
      <4>3. CASE n # c
        <5>1. RetryBackoffs[c] # delay
          BY <1>1, <4>1, <4>3 DEF Undisturbed, delay
        <5>2. CASE jobs[f][RetryBackoffs[c]].state = "queued"
          <6>1. jobs'[f][RetryBackoffs[c]].state = "queued"
            BY <1>3, <2>2, <4>1, <5>1, <5>2
          <6>2. QED
            BY <1>1, <3>2, <4>1, <6>1 DEF Assigned, Waiting
        <5>3. CASE \E v \in Workers : On(v, f) /\ slots[v].pc = "claim"
                                      /\ slots[v].d = RetryBackoffs[c]
          <6>1. PICK v \in Workers : On(v, f) /\ slots[v].pc = "claim"
                                      /\ slots[v].d = RetryBackoffs[c]
            BY <5>3
          <6>2. v # w /\ slots'[v] = slots[v]
            BY <1>1, <2>3, <6>1
          <6>3. Waiting(f, RetryBackoffs[c])'
            BY <1>1, <6>1, <6>2 DEF Waiting, On
          <6>4. QED
            BY <1>1, <3>2, <4>1, <6>3 DEF Assigned
        <5>4. CASE \E v \in Workers : /\ slots[v].f = f /\ slots[v].pc = "enqueue"
                                      /\ slots[v].attempt = c
          <6>1. PICK v \in Workers : /\ slots[v].f = f /\ slots[v].pc = "enqueue"
                                     /\ slots[v].attempt = c
            BY <5>4
          <6>2. v # w /\ slots'[v] = slots[v]
            BY <2>3, <4>3, <6>1 DEF n
          <6>3. QED
            BY <1>1, <3>2, <4>1, <6>1, <6>2 DEF Assigned
        <5>5. QED
          BY <1>2, <3>2, <5>2, <5>3, <5>4 DEF Assigned, Waiting
      <4>4. QED
        BY <4>2, <4>3
    <3>3. QED
      BY <3>1, <3>2
  <2>11. ASSUME NEW g \in Forwards \ {f} PROVE Untouched(g)
    BY <1>1, <2>2, <2>3, OtherForwards
  <2>12. QED
    BY <2>4, <2>6, <2>7, <2>9, <2>10, <2>11 DEF Calm
<1>6. QED
  BY <1>4, <1>5

(* A deleted forward waits for nothing.                                    *)
LEMMA DeleteCalm ==
    ASSUME CalmInv, DeleteExpired, NEW f \in Forwards PROVE Calm(f)'
<1>1. /\ forwards'[f].status = "deleted"
      /\ UNCHANGED <<jobs, slots>>
  BY DeletedFields DEF DeleteExpired
<1>2. JobsHeld(f)
  BY DEF CalmInv, Calm
<1>3. JobsHeld(f)'
  BY <1>1, <1>2 DEF JobsHeld, On
<1>4. NotBegun(f)' /\ DelaysUnused(f)' /\ InFlightIsAttempted(f)' /\ Assigned(f)'
  BY <1>1 DEF NotBegun, DelaysUnused, InFlightIsAttempted, Assigned
<1>5. QED
  BY <1>3, <1>4 DEF Calm

(* The delay of a decision is the one of its attempt (forward_decision.py). *)
LEMMA DecisionDelay ==
    ASSUME NEW n, NEW status, NEW err, Decide(n, status, err).next_status = "failed"
    PROVE  n < MaxAttempts /\ Decide(n, status, err).defer = RetryBackoffs[n]
<1>1. CASE Succeeds(status, err)
  BY <1>1 DEF Decide
<1>2. CASE ~Succeeds(status, err) /\ Retryable(status, err) /\ n < MaxAttempts
  BY <1>2 DEF Decide
<1>3. CASE ~Succeeds(status, err) /\ ~(Retryable(status, err) /\ n < MaxAttempts)
  BY <1>3 DEF Decide
<1>4. QED
  BY <1>1, <1>2, <1>3

(* The delay that decide() chose is carried to its record and enqueue.     *)
LEMMA NextDelaysCarried ==
    ASSUME TypeInv, DelaysCarried, [Next]_vars PROVE DelaysCarried'
<1> DEFINE Carries(s) ==
        (\/ s.pc = "record" /\ s.next_status = "failed"
         \/ s.pc = "enqueue")
        => /\ s.attempt \in 1..(MaxAttempts - 1)
           /\ s.defer = RetryBackoffs[s.attempt]
<1>1. /\ slots \in [Workers -> Slot] /\ \A w \in Workers : GoodSlot(slots[w])
      /\ \A w \in Workers : Carries(slots[w])
      /\ MaxAttempts \in Nat
  BY MaxAttemptsType DEF TypeInv, TypeOK, DelaysCarried
<1>2. SUFFICES ASSUME NEW w \in Workers PROVE Carries(slots'[w])
  BY DEF DelaysCarried
<1>3. CASE slots'[w] = slots[w]
  BY <1>1, <1>3
<1>4. ASSUME NEW v \in Workers, WorkerStep(v), v # w PROVE slots'[w] = slots[w]
  BY <1>4, WorkerFrame
<1>5. ASSUME WorkerStep(w) PROVE Carries(slots'[w])
  <2>1. CASE slots'[w].pc \in {"idle", "claim", "http"}
    BY <2>1
  <2>2. ASSUME NEW js, EndJob(w, js) PROVE slots'[w].pc = "idle"
    BY <1>1, <2>2 DEF EndJob, IdleSlot
  <2>3. CASE \E f \in Forwards, d \in Defers : StartJob(w, f, d)
    BY <1>1, <2>1, <2>3 DEF StartJob, IdleSlot
  <2>4. CASE \E f \in Forwards, d \in Defers : DropJob(w, f, d)
    BY <1>1, <2>4 DEF DropJob
  <2>5. CASE Claim(w)
    BY <1>1, <2>1, <2>5 DEF Claim, Slot
  <2>6. CASE SkipClaim(w) \/ Raise(w) \/ EnqueueRetry(w)
    BY <2>1, <2>2, <2>6 DEF SkipClaim, Raise, EnqueueRetry
  <2>7. CASE Crash(w) \/ Shutdown(w)
    BY <1>1, <2>1, <2>7 DEF Crash, Shutdown, Requeue, IdleSlot
  <2>8. CASE Record(w)
    <3>1. CASE slots[w].next_status = "failed"
      <4>1. /\ slots' = [slots EXCEPT ![w] = [slots[w] EXCEPT !.pc = "enqueue"]]
            /\ slots[w].pc = "record"
        BY <2>8, <3>1 DEF Record
      <4>2. slots'[w].attempt = slots[w].attempt /\ slots'[w].defer = slots[w].defer
        BY <1>1, <4>1 DEF Slot
      <4>3. QED
        BY <1>1, <3>1, <4>1, <4>2
    <3>2. CASE slots[w].next_status # "failed"
      <4>1. EndJob(w, jobs)
        BY <2>8, <3>2 DEF Record
      <4>2. QED
        BY <2>1, <2>2, <4>1
    <3>3. QED
      BY <3>1, <3>2
  <2>9. ASSUME NEW dec, NEW left, HttpOutcome(w, dec, left),
               dec.next_status = "failed" =>
                  slots[w].attempt < MaxAttempts /\ dec.defer = RetryBackoffs[slots[w].attempt]
        PROVE  Carries(slots'[w])
    <3>1. /\ slots[w].pc = "http"
          /\ slots'[w].pc = "record" /\ slots'[w].next_status = dec.next_status
          /\ slots'[w].defer = dec.defer /\ slots'[w].attempt = slots[w].attempt
      BY <1>1, <2>9 DEF HttpOutcome, Slot
    <3>2. slots[w].attempt >= 1 /\ slots[w].attempt \in Nat
      BY <1>1, <3>1 DEF GoodSlot, Slot
    <3>3. QED
      BY <1>1, <2>9, <3>1, <3>2
  <2>14. ASSUME NEW status, NEW err, NEW left,
                HttpOutcome(w, Decide(slots[w].attempt, status, err), left)
         PROVE  Carries(slots'[w])
    <3> DEFINE dec == Decide(slots[w].attempt, status, err)
    <3>1. HttpOutcome(w, dec, left)
      BY <2>14
    <3>2. dec.next_status = "failed" =>
             slots[w].attempt < MaxAttempts /\ dec.defer = RetryBackoffs[slots[w].attempt]
      BY DecisionDelay
    <3> HIDE DEF dec, Carries
    <3>3. QED
      BY <2>9, <3>1, <3>2
  <2> HIDE DEF Carries
  <2>10. CASE \E status \in Responses : HttpResponse(w, status)
    BY <2>10, <2>14 DEF HttpResponse
  <2>11. CASE HttpNetworkError(w)
    BY <2>11, <2>14 DEF HttpNetworkError
  <2> USE DEF Carries
  <2>12. CASE HttpSsrfBlocked(w)
    BY <2>9, <2>12 DEF HttpSsrfBlocked
  <2>13. QED
    BY <1>5, <2>3, <2>4, <2>5, <2>6, <2>7, <2>8, <2>10, <2>11, <2>12 DEF WorkerStep
<1>6. CASE Tick
  <2>1. slots'[w].pc = slots[w].pc /\ slots'[w].next_status = slots[w].next_status
        /\ slots'[w].attempt = slots[w].attempt /\ slots'[w].defer = slots[w].defer
    BY <1>1, <1>6 DEF Tick, Slot
  <2>2. QED
    BY <1>1, <2>1
<1>7. CASE UNCHANGED vars
  BY <1>3, <1>7 DEF vars
<1>8. QED
  BY <1>3, <1>4, <1>5, <1>6, <1>7, OwnerFrame DEF Next

(* What undisturbed operation excludes.                                    *)
LEMMA NoDisturbance ==
    ASSUME Undisturbed, CalmInv
    PROVE  /\ ~Fault
           /\ \A f \in Forwards : ~RetryForward(f) /\ ~AbandonForward(f)
           /\ \A w \in Workers, f \in Forwards, d \in Defers : ~DropJob(w, f, d)
<1>1. budget \in [faults : Nat, retries : Nat, abandons : Nat]
  BY CalmFacts DEF TypeInv, TypeOK
<1>2. ~Fault /\ \A f \in Forwards : ~RetryForward(f) /\ ~AbandonForward(f)
  BY <1>1 DEF Undisturbed, NobodyRetries, NobodyAbandons, Fault, RetryForward,
            AbandonForward
<1>3. ASSUME NEW w \in Workers, NEW f \in Forwards, NEW d \in Defers, DropJob(w, f, d)
      PROVE  FALSE
  <2>1. jobs[f][d].state = "queued" /\ jobs[f][d].tries >= ArqMaxTries
    BY <1>3 DEF DropJob, Ready
  <2>2. jobs[f][d].tries = 0
    BY <2>1 DEF CalmInv, Calm, JobsHeld
  <2>3. QED
    BY <2>1, <2>2, ArqAssumption DEF Undisturbed, ArqAssumption
<1>4. QED
  BY <1>2, <1>3

(* A redrive finds nothing to reclaim, and enqueues captured forwards.     *)
LEMMA RedriveCalm ==
    ASSUME Undisturbed, CalmInv, NEW r \in Redrivers, RedriveStep(r)
    PROVE  NothingReclaimed' /\ \A f \in Forwards : Calm(f)'
<1>1. /\ redrives \in [Redrivers -> Redrive]
      /\ \A s \in Redrivers : redrives[s].reclaimed = {}
      /\ \A f \in Forwards : Seen(r, f) = forwards[f]
  BY CalmFacts DEF CalmInv, NothingReclaimed, Seen
<1>2. ASSUME UNCHANGED <<forwards, slots, jobs>>
      PROVE  \A f \in Forwards : Calm(f)'
  <2>1. \A f \in Forwards : Untouched(f)
    BY <1>2, CalmFacts DEF Untouched, On
  <2>2. QED
    BY <2>1, UntouchedCalm
<1>3. CASE RedriveReclaim(r)
  <2>1. {f \in Forwards : Reclaim_Where(forwards[f])} = {}
    <3>1. ASSUME NEW f \in Forwards, Reclaim_Where(forwards[f]) PROVE FALSE
      <4>1. \E w \in Workers : Attempting(w, f)
        BY <3>1 DEF Reclaim_Where, CalmInv, Calm, InFlightIsAttempted
      <4>2. QED
        BY <3>1, <4>1, CalmFacts DEF ReclaimSparesLiveAttempts
    <3>2. QED
      BY <3>1
  <2>2. redrives' = [redrives EXCEPT ![r] = [redrives[r] EXCEPT !.pc = "list_failed",
                                                               !.reclaimed = {}]]
    BY <1>3, <2>1 DEF RedriveReclaim
  <2>3. \A s \in Redrivers : redrives'[s].reclaimed = {}
    BY <1>1, <2>2 DEF Redrive
  <2>4. UNCHANGED <<forwards, slots, jobs>>
    BY <1>3 DEF RedriveReclaim
  <2>5. QED
    BY <1>2, <2>3, <2>4 DEF NothingReclaimed
<1>4. CASE RedriveListFailed(r)
  <2>1. /\ redrives' = [redrives EXCEPT ![r] = [redrives[r] EXCEPT !.pc = "list_pending",
               !.todo = {f \in Forwards : OverdueFailed_Where(Seen(r, f))}]]
        /\ UNCHANGED <<forwards, slots, jobs>>
    BY <1>4 DEF RedriveListFailed
  <2>2. \A s \in Redrivers : redrives'[s].reclaimed = {}
    BY <1>1, <2>1 DEF Redrive
  <2>3. QED
    BY <1>2, <2>1, <2>2 DEF NothingReclaimed
<1>5. CASE RedriveListPending(r)
  <2>1. /\ redrives' = [redrives EXCEPT ![r] = [redrives[r] EXCEPT !.pc = "enqueue",
               !.todo = redrives[r].todo \cup {f \in Forwards : StuckPending_Where(Seen(r, f))}]]
        /\ UNCHANGED <<forwards, slots, jobs>>
    BY <1>5 DEF RedriveListPending
  <2>2. \A s \in Redrivers : redrives'[s].reclaimed = {}
    BY <1>1, <2>1 DEF Redrive
  <2>3. QED
    BY <1>2, <2>1, <2>2 DEF NothingReclaimed
<1>6. ASSUME NEW g \in Forwards, RedriveEnqueue(r, g)
      PROVE  NothingReclaimed' /\ \A f \in Forwards : Calm(f)'
  <2>1. /\ redrives' = [redrives EXCEPT ![r] =
                         [redrives[r] EXCEPT !.todo = redrives[r].todo \ {g}]]
        /\ Enqueue(g, 0)
        /\ UNCHANGED <<forwards, slots>>
    BY <1>6 DEF RedriveEnqueue
  <2>2. \A s \in Redrivers : redrives'[s].reclaimed = {}
    BY <1>1, <2>1 DEF Redrive
  <2>3. Calm(g)'
    BY <2>1, EnqueueCalm
  <2>4. ASSUME NEW f \in Forwards \ {g} PROVE Calm(f)'
    <3>1. jobs'[f] = jobs[f]
      BY <2>1, CalmFacts DEF Enqueue
    <3>2. Untouched(f)
      BY <2>1, <3>1 DEF Untouched, On
    <3>3. QED
      BY <3>2, UntouchedCalm
  <2>5. QED
    BY <2>2, <2>3, <2>4 DEF NothingReclaimed
<1>7. CASE RedriveCommit(r)
  <2>1. /\ redrives' = [redrives EXCEPT ![r] = IdleRedrive]
        /\ forwards' = [f \in Forwards |-> forwards[f]]
        /\ UNCHANGED <<slots, jobs>>
    BY <1>1, <1>7 DEF RedriveCommit
  <2>2. \A s \in Redrivers : redrives'[s].reclaimed = {}
    BY <1>1, <2>1 DEF IdleRedrive
  <2>3. forwards' = forwards
    BY <2>1, CalmFacts
  <2>4. QED
    BY <1>2, <2>1, <2>2, <2>3 DEF NothingReclaimed
<1>8. \A f \in Forwards : ~RedriveEnqueueFails(r, f)
  BY NoDisturbance DEF RedriveEnqueueFails
<1>9. ~RedriveRollback(r)
  BY NoDisturbance DEF RedriveRollback
<1>10. QED
  BY <1>3, <1>4, <1>5, <1>6, <1>7, <1>8, <1>9 DEF RedriveStep

(* Web requests: the background task of a capture, and its commit.         *)
LEMMA WebCalm ==
    ASSUME Undisturbed, CalmInv, NEW g \in Forwards, WebStep(g)
    PROVE  UNCHANGED redrives /\ \A f \in Forwards : Calm(f)'
<1>1. ~RetryForward(g) /\ ~AbandonForward(g) /\ ~BackgroundLost(g) /\ ~RequestRollback(g)
  BY NoDisturbance DEF BackgroundLost, RequestRollback
<1>2. CASE Capture(g)
  <2>1. UNCHANGED redrives /\ \A f \in Forwards : Untouched(f)
    BY <1>2 DEF Capture, Untouched, On
  <2>2. QED
    BY <2>1, UntouchedCalm
<1>3. CASE CommitRequest(g)
  <2>1. Calm(g)' /\ \A f \in Forwards \ {g} : Untouched(f)
    BY <1>3, CommitCalm
  <2>2. UNCHANGED redrives
    BY <1>3 DEF CommitRequest
  <2>3. QED
    BY <2>1, <2>2, UntouchedCalm
<1>4. CASE BackgroundEnqueue(g)
  <2>1. Enqueue(g, 0) /\ UNCHANGED <<forwards, slots, redrives>>
    BY <1>4 DEF BackgroundEnqueue
  <2>2. Calm(g)'
    BY <2>1, EnqueueCalm
  <2>3. ASSUME NEW f \in Forwards \ {g} PROVE Calm(f)'
    <3>1. jobs'[f] = jobs[f]
      BY <2>1, CalmFacts DEF Enqueue
    <3>2. Untouched(f)
      BY <2>1, <3>1 DEF Untouched, On
    <3>3. QED
      BY <3>2, UntouchedCalm
  <2>4. QED
    BY <2>1, <2>2, <2>3
<1>5. QED
  BY <1>1, <1>2, <1>3, <1>4 DEF WebStep

(* Every step of a worker leaves every forward calm.                       *)
LEMMA WorkerCalm ==
    ASSUME Undisturbed, CalmInv, NEW w \in Workers, WorkerStep(w)
    PROVE  UNCHANGED redrives /\ \A f \in Forwards : Calm(f)'
<1>1. UNCHANGED redrives
  BY CalmFacts, WorkerFrame
<1>2. ASSUME NEW f \in Forwards, Calm(f)', \A g \in Forwards \ {f} : Untouched(g)
      PROVE  \A g \in Forwards : Calm(g)'
  BY <1>2, UntouchedCalm
<1>3. /\ ~Raise(w) /\ ~Crash(w) /\ ~Shutdown(w)
      /\ \A f \in Forwards, d \in Defers : ~DropJob(w, f, d)
  BY NoDisturbance DEF Raise, Crash, Shutdown, Requeue
<1>4. ASSUME NEW f \in Forwards, NEW d \in Defers, StartJob(w, f, d)
      PROVE  \A g \in Forwards : Calm(g)'
  <2>1. Calm(f)' /\ \A g \in Forwards \ {f} : Untouched(g)
    BY <1>4, StartCalm
  <2>2. QED
    BY <1>2, <2>1
<1>5. CASE slots[w].pc # "idle"
  <2>1. PICK f \in Forwards : slots[w].f = f
    BY <1>5, CalmFacts
  <2>2. ASSUME Claim(w) \/ SkipClaim(w) \/ Record(w) \/ EnqueueRetry(w)
        PROVE  Calm(f)' /\ \A g \in Forwards \ {f} : Untouched(g)
    <3>1. CASE Claim(w)
      BY <2>1, <3>1, ClaimCalm
    <3>2. CASE SkipClaim(w)
      BY <2>1, <3>2, SkipCalm
    <3>3. CASE Record(w)
      BY <2>1, <3>3, RecordCalm
    <3>4. CASE EnqueueRetry(w)
      BY <2>1, <3>4, EnqueueRetryCalm
    <3>5. QED
      BY <2>2, <3>1, <3>2, <3>3, <3>4
  <2>6. ASSUME NEW dec, NEW left, HttpOutcome(w, dec, left)
        PROVE  Calm(f)' /\ \A g \in Forwards \ {f} : Untouched(g)
    BY <2>1, <2>6, OutcomeCalm
  <2>7. ASSUME \/ \E status \in Responses : HttpResponse(w, status)
               \/ HttpNetworkError(w)
               \/ HttpSsrfBlocked(w)
        PROVE  Calm(f)' /\ \A g \in Forwards \ {f} : Untouched(g)
    <3>1. \E dec, left : HttpOutcome(w, dec, left)
      BY <2>7 DEF HttpResponse, HttpNetworkError, HttpSsrfBlocked
    <3>2. QED
      BY <2>6, <3>1
  <2>8. ~(\E f2 \in Forwards, d \in Defers : StartJob(w, f2, d))
    BY <1>5 DEF StartJob
  <2>9. Calm(f)' /\ \A g \in Forwards \ {f} : Untouched(g)
    BY <1>3, <2>2, <2>7, <2>8 DEF WorkerStep
  <2>10. QED
    BY <1>1, <1>2, <2>9
<1>6. CASE slots[w].pc = "idle" /\ ~(\E f \in Forwards, d \in Defers : StartJob(w, f, d))
  BY <1>3, <1>6 DEF WorkerStep, Claim, SkipClaim, HttpResponse, HttpNetworkError,
     HttpSsrfBlocked, HttpOutcome, Record, EnqueueRetry
<1>7. QED
  BY <1>1, <1>4, <1>5, <1>6

(* Time passes over the forwards and their jobs.                           *)
LEMMA TickCalm ==
    ASSUME CalmInv, Tick PROVE UNCHANGED redrives /\ \A f \in Forwards : Calm(f)'
<1>1. ASSUME NEW f \in Forwards PROVE Untouched(f)
  <2>1. /\ forwards'[f].status = forwards[f].status
        /\ forwards'[f].attempt_count = forwards[f].attempt_count
    BY CalmFacts, AgedFields DEF Tick
  <2>2. ASSUME NEW d \in Defers
        PROVE  \/ /\ jobs'[f][d].state = jobs[f][d].state
                  /\ jobs'[f][d].tries = jobs[f][d].tries
               \/ jobs[f][d].state = "done" /\ jobs'[f][d].state = "none"
    <3>1. jobs'[f][d] = JobAged(jobs[f][d]) /\ jobs[f][d] \in Job
      BY CalmFacts DEF Tick
    <3>2. QED
      BY <3>1 DEF JobAged, Job, NoJob
  <2>3. ASSUME NEW w \in Workers
        PROVE  /\ slots'[w].f = slots[w].f /\ slots'[w].pc = slots[w].pc
               /\ slots'[w].d = slots[w].d /\ slots'[w].attempt = slots[w].attempt
    BY CalmFacts DEF Tick, Slot
  <2>4. UNCHANGED redrives
    BY DEF Tick
  <2>5. QED
    BY <2>1, <2>2, <2>3, <2>4 DEF Untouched, On
<1>2. UNCHANGED redrives
  BY DEF Tick
<1>3. QED
  BY <1>1, <1>2, UntouchedCalm

(* Every step of undisturbed operation leaves each waiting forward in      *)
(* somebody's hand.                                                        *)
LEMMA NextCalm == ASSUME Undisturbed PROVE CalmInv /\ [Next]_vars => CalmInv'
<1> SUFFICES ASSUME CalmInv, [Next]_vars PROVE CalmInv'
  OBVIOUS
<1>1. ExclusionInv' /\ NoRetryOpen' /\ DelaysCarried'
  <2>1. TypeInv /\ NobodyAbandons /\ NobodyRetries
    BY CalmFacts DEF Undisturbed
  <2>2. QED
    BY <2>1, NextExclusion, NextNoRetryOpen, NextDelaysCarried DEF CalmInv
<1>2. NothingReclaimed' /\ \A f \in Forwards : Calm(f)'
  <2>1. UNCHANGED redrives => NothingReclaimed'
    BY DEF CalmInv, NothingReclaimed
  <2>2. CASE DeleteExpired
    <3>1. UNCHANGED redrives
      BY <2>2 DEF DeleteExpired
    <3>2. QED
      BY <2>1, <2>2, <3>1, DeleteCalm
  <2>3. CASE UNCHANGED vars
    <3>1. UNCHANGED redrives /\ \A f \in Forwards : Untouched(f)
      BY <2>3 DEF vars, Untouched, On
    <3>2. QED
      BY <2>1, <3>1, UntouchedCalm
  <2>4. QED
    BY <2>1, <2>2, <2>3, WebCalm, RedriveCalm, WorkerCalm, TickCalm DEF Next
<1>3. QED
  BY <1>1, <1>2 DEF CalmInv

(* No forward is captured at first.                                        *)
LEMMA InitCalm == Init => CalmInv
<1> SUFFICES ASSUME Init PROVE CalmInv
  OBVIOUS
<1>1. /\ \A w \in Workers : slots[w].pc = "idle"
      /\ \A f \in Forwards : /\ forwards[f].status = "absent"
                             /\ requests[f].kind = "none"
      /\ \A f \in Forwards, d \in Defers : jobs[f][d].state = "none"
      /\ \A r \in Redrivers : redrives[r].reclaimed = {} /\ redrives[r].todo = {}
  BY DeletedFields DEF Init, IdleSlot, NoRequest, NoJob, IdleRedrive
<1>2. ExclusionInv /\ NoRetryOpen /\ DelaysCarried /\ NothingReclaimed
  BY <1>1, InitExclusion DEF NoRetryOpen, DelaysCarried, NothingReclaimed
<1>3. ASSUME NEW f \in Forwards PROVE Calm(f)
  <2>1. JobsHeld(f) /\ NotBegun(f) /\ InFlightIsAttempted(f) /\ Assigned(f)
    BY <1>1, <1>2 DEF JobsHeld, NotBegun, InFlightIsAttempted, Assigned, On, Past,
       CalmInv, ExclusionInv, AgeInv, RowInv, TypeInv, TypeOK, Slot
  <2>2. DelaysUnused(f)
    BY <1>1, DelaysAreDefers DEF DelaysUnused, Past
  <2>3. QED
    BY <2>1, <2>2 DEF Calm
<1>4. QED
  BY <1>2, <1>3 DEF CalmInv

(* No forward whose attempt failed is forgotten: arq does not poll the     *)
(* table, and yet the job of its delay or the worker that will enqueue it  *)
(* has it in hand, also when its first job found no row, when redrives     *)
(* enqueue it again and when slots are slow (execute_forward.py:134-150).  *)
(* A pending forward is excluded: it may be forgotten (routes.py:165-171). *)
THEOREM NoFailureIsForgotten ==
    ASSUME Undisturbed PROVE Spec => []FailedIsScheduled
<1>1. ASSUME CalmInv PROVE FailedIsScheduled
  <2>1. SUFFICES ASSUME NEW f \in Forwards, forwards[f].status = "failed"
                 PROVE  InHand(f)
    BY DEF FailedIsScheduled
  <2>2. Assigned(f)
    BY <1>1 DEF CalmInv, Calm
  <2>3. RetryBackoffs[forwards[f].attempt_count] \in Defers
    BY <2>1, <2>2, DelaysAreDefers, MaxAttemptsType DEF Assigned
  <2>4. QED
    BY <2>1, <2>2, <2>3 DEF Assigned, Waiting, On, InHand
<1>2. QED
  BY <1>1, InitCalm, NextCalm, PTL DEF Spec

-----------------------------------------------------------------------------
(* That no attempt starts before its time.                                 *)

(* Without faults, retries and redrives; the owner may abandon, the        *)
(* endpoint may expire, and a job may start before there is a row.         *)
Unhurried == MaxFaults = 0 /\ NobodyRetries /\ Redrivers = {}

(* Nothing of f has been scheduled yet.                                    *)
Quiet(f) ==
    /\ backoff[f] = 0
    /\ \A d \in Defers : jobs[f][d].state # "queued"
    /\ \A w \in Workers : ~On(w, f)

(* One queued job or one slot at a time has f in hand: each hands over to  *)
(* the next as it ends.                                                    *)
InOneHand(f) ==
    /\ \A d \in Defers : jobs[f][d].state = "queued" =>
          /\ \A w \in Workers : ~On(w, f)
          /\ \A e \in Defers : jobs[f][e].state = "queued" => d = e
    /\ \A w, v \in Workers : On(w, f) /\ On(v, f) => w = v
    /\ forwards[f].status = "absent" /\ ~requests[f].enqueued => Quiet(f)

(* Whoever has it in hand sits the delay out: the worker that will enqueue *)
(* the next attempt carries the delay, and the job waits for it.           *)
SitsOut(f) == backoff[f] > 0 =>
    /\ \A w \in Workers : On(w, f) =>
          slots[w].pc = "enqueue" /\ backoff[f] <= slots[w].defer
    /\ \A d \in Defers : jobs[f][d].state = "queued" => backoff[f] <= jobs[f][d].timer

PacedInv == /\ RowInv /\ NoRetryOpen
            /\ \A f \in Forwards : InOneHand(f) /\ SitsOut(f)

(* A step that schedules nothing for f, and asks for no delay.             *)
Eased(f) ==
    /\ backoff'[f] \in {0, backoff[f]}
    /\ forwards'[f].status = "absent" /\ ~requests'[f].enqueued =>
          /\ forwards[f].status = "absent" /\ ~requests[f].enqueued
    /\ requests'[f].enqueued => requests[f].enqueued
    /\ \A d \in Defers : jobs'[f][d].state = "queued" => jobs'[f][d] = jobs[f][d]
    /\ \A w \in Workers : On(w, f)' =>
          /\ On(w, f)
          /\ slots[w].pc = "enqueue" => /\ slots'[w].pc = "enqueue"
                                        /\ slots'[w].defer = slots[w].defer

(* What the steps of a paced pipeline start from.                          *)
LEMMA PacedFacts ==
    ASSUME PacedInv
    PROVE  /\ TypeInv /\ OpenTransactionsHoldTheirRows
           /\ forwards \in [Forwards -> Row] /\ requests \in [Forwards -> Request]
           /\ slots \in [Workers -> Slot] /\ jobs \in [Forwards -> [Defers -> Job]]
           /\ backoff \in [Forwards -> Nat]
           /\ \A w \in Workers : slots[w].pc # "idle" =>
                 slots[w].f \in Forwards /\ slots[w].d \in Defers /\ slots[w].defer \in Defers
BY DEF PacedInv, RowInv, TypeInv, TypeOK, Slot

(* An eased forward stays in one hand.                                     *)
LEMMA EasedPaced ==
    ASSUME PacedInv, NEW f \in Forwards, Eased(f)
    PROVE  InOneHand(f)' /\ SitsOut(f)'
<1>1. /\ InOneHand(f) /\ SitsOut(f)
      /\ backoff[f] \in Nat
  BY PacedFacts DEF PacedInv
<1>2. \A d \in Defers : jobs'[f][d].state = "queued" => jobs[f][d].state = "queued"
  BY DEF Eased
<1>3. Quiet(f) => Quiet(f)'
  BY <1>1, <1>2 DEF Eased, Quiet
<1>4. InOneHand(f)'
  BY <1>1, <1>2, <1>3 DEF Eased, InOneHand
<1>5. SitsOut(f)'
  BY <1>1, <1>2 DEF Eased, SitsOut
<1>6. QED
  BY <1>4, <1>5

(* What these hypotheses exclude.                                          *)
LEMMA NothingHurries ==
    ASSUME Unhurried, PacedInv
    PROVE  /\ ~Fault
           /\ \A f \in Forwards : ~RetryForward(f)
           /\ \A f \in Forwards : requests[f].kind \in {"none", "capture"}
           /\ \A f \in Forwards : requests[f].kind = "capture" => forwards[f].status = "absent"
<1>1. budget.faults \in Nat /\ budget.retries \in Nat
  BY PacedFacts DEF TypeInv, TypeOK
<1>2. ~Fault /\ \A f \in Forwards : ~RetryForward(f)
  BY <1>1 DEF Unhurried, NobodyRetries, Fault, RetryForward
<1>3. QED
  BY <1>2, PacedFacts DEF PacedInv, NoRetryOpen, OpenTransactionsHoldTheirRows,
                          Request, Kinds

(* A capture's commit, after its background task.                          *)
LEMMA CommitPaced ==
    ASSUME Unhurried, PacedInv, NEW f \in Forwards, CommitRequest(f), NEW g \in Forwards
    PROVE  InOneHand(g)' /\ SitsOut(g)'
<1>1. requests[f].kind = "capture" /\ forwards[f].status = "absent"
  BY NothingHurries DEF CommitRequest
<1>2. /\ forwards' = [forwards EXCEPT ![f] = [forwards[f] EXCEPT !.status = "pending"]]
      /\ backoff' = [backoff EXCEPT ![f] = 0]
      /\ requests' = [requests EXCEPT ![f] = NoRequest]
      /\ UNCHANGED <<jobs, slots>>
  BY <1>1 DEF CommitRequest, Update
<1>3. forwards'[f].status = "pending" /\ backoff'[f] = 0 /\ ~requests'[f].enqueued
  BY <1>2, PacedFacts, InsertFields DEF NoRequest
<1>4. CASE g # f
  <2>1. Eased(g)
    BY <1>2, <1>4, PacedFacts DEF Eased, On
  <2>2. QED
    BY <2>1, EasedPaced
<1>5. CASE g = f
  <2>1. Eased(f)
    BY <1>2, <1>3, <1>5, PacedFacts DEF Eased, On
  <2>2. QED
    BY <1>5, <2>1, EasedPaced
<1>6. QED
  BY <1>4, <1>5

(* _safe_enqueue: the task hands the forward over to the job.              *)
LEMMA TaskPaced ==
    ASSUME Unhurried, PacedInv, NEW f \in Forwards, BackgroundEnqueue(f),
           NEW g \in Forwards
    PROVE  InOneHand(g)' /\ SitsOut(g)'
<1>1. RunBackground(f) /\ Enqueue(f, 0) /\ UNCHANGED <<forwards, slots, backoff>>
  BY DEF BackgroundEnqueue
<1>2. /\ jobs'[f][0] = Enqueued(jobs[f][0], 0)
      /\ \A d \in Defers \ {0} : jobs'[f][d] = jobs[f][d]
      /\ \A h \in Forwards \ {f} : jobs'[h] = jobs[h]
  <2>1. 0 \in Defers /\ jobs' = [jobs EXCEPT ![f][0] = Enqueued(jobs[f][0], 0)]
    BY <1>1, DefersType, PacedFacts DEF Enqueue
  <2>2. QED
    BY <2>1, PacedFacts
<1>3. CASE g # f
  <2>1. requests'[g] = requests[g]
    BY <1>1, <1>3, PacedFacts DEF RunBackground
  <2>2. Eased(g)
    BY <1>1, <1>2, <1>3, <2>1 DEF Eased, On
  <2>3. QED
    BY <2>2, EasedPaced
<1>4. CASE g = f
  <2>1. InOneHand(f)
    BY DEF PacedInv
  <2>2. /\ backoff[f] = 0
        /\ \A d \in Defers : jobs[f][d].state # "queued"
        /\ \A w \in Workers : ~On(w, f)
        /\ requests'[f].enqueued
    <3>1. forwards[f].status = "absent" /\ ~requests[f].enqueued
      BY <1>1, NothingHurries DEF RunBackground
    <3>2. Quiet(f)
      BY <2>1, <3>1 DEF InOneHand
    <3>3. requests'[f].enqueued
      BY <1>1, PacedFacts DEF RunBackground, Request
    <3>4. QED
      BY <3>2, <3>3 DEF Quiet
  <2>3. \A d \in Defers : jobs'[f][d].state = "queued" => d = 0
    BY <1>2, <2>2
  <2>4. InOneHand(f)' /\ SitsOut(f)'
    BY <1>1, <2>2, <2>3 DEF InOneHand, SitsOut, On
  <2>5. QED
    BY <1>4, <2>4
<1>5. QED
  BY <1>3, <1>4

(* The web requests and the cleaner.                                       *)
LEMMA OwnerPaced ==
    ASSUME Unhurried, PacedInv, NEW g \in Forwards,
           (\E f \in Forwards : WebStep(f)) \/ DeleteExpired
    PROVE  InOneHand(g)' /\ SitsOut(g)'
<1>1. CASE DeleteExpired
  <2>1. forwards'[g].status = "deleted" /\ UNCHANGED <<requests, jobs, slots, backoff>>
    BY <1>1, DeletedFields DEF DeleteExpired
  <2>2. Eased(g)
    BY <2>1 DEF Eased, On
  <2>3. QED
    BY <2>2, EasedPaced
<1>2. ASSUME NEW f \in Forwards, WebStep(f) PROVE InOneHand(g)' /\ SitsOut(g)'
  <2>1. ~RetryForward(f) /\ ~BackgroundLost(f) /\ ~RequestRollback(f)
    BY NothingHurries DEF BackgroundLost, RequestRollback
  <2>2. CASE Capture(f)
    <3>1. requests'[g].enqueued = requests[g].enqueued
      BY <2>2, PacedFacts DEF Capture, Request
    <3>2. Eased(g)
      BY <2>2, <3>1 DEF Capture, Eased, On
    <3>3. QED
      BY <3>2, EasedPaced
  <2>3. CASE AbandonForward(f)
    <3>1. forwards' = [forwards EXCEPT ![f] = Abandon_Set(forwards[f])]
      BY <2>3 DEF AbandonForward, Update
    <3>2. forwards'[g].status = "absent" => forwards[g].status = "absent"
      BY <3>1, PacedFacts, AbandonFields
    <3>3. Eased(g)
      BY <2>3, <3>2 DEF AbandonForward, Eased, On
    <3>4. QED
      BY <3>3, EasedPaced
  <2>4. QED
    BY <1>2, <2>1, <2>2, <2>3, CommitPaced, TaskPaced DEF WebStep
<1>3. QED
  BY <1>1, <1>2

(* A worker's step hands on the forward of its job, or lets go of it.      *)
LEMMA OtherPaced ==
    ASSUME PacedInv, NEW w \in Workers, slots[w].pc # "idle",
           slots'[w].pc = "idle" \/ slots'[w].f = slots[w].f,
           \A v \in Workers \ {w} : slots'[v] = slots[v],
           NEW g \in Forwards, g # slots[w].f,
           forwards'[g] = forwards[g], jobs'[g] = jobs[g], backoff'[g] = backoff[g],
           UNCHANGED requests
    PROVE  InOneHand(g)' /\ SitsOut(g)'
<1>1. Eased(g)
  BY DEF Eased, On
<1>2. QED
  BY <1>1, EasedPaced

(* arq starts a job whose timer ran out: the delay is over.                *)
LEMMA StartPaced ==
    ASSUME PacedInv, NEW w \in Workers, NEW f \in Forwards, NEW d \in Defers,
           StartJob(w, f, d), NEW g \in Forwards
    PROVE  InOneHand(g)' /\ SitsOut(g)'
<1>1. /\ slots[w].pc = "idle" /\ jobs[f][d].state = "queued" /\ jobs[f][d].timer = 0
      /\ slots' = [slots EXCEPT ![w] = [IdleSlot EXCEPT !.pc = "claim", !.f = f, !.d = d]]
      /\ jobs' = [jobs EXCEPT ![f][d] = Started(jobs[f][d])]
      /\ UNCHANGED <<forwards, requests, backoff>>
  BY PacedFacts DEF StartJob, Ready
<1>2. /\ slots'[w].pc = "claim" /\ slots'[w].f = f
      /\ \A v \in Workers \ {w} : slots'[v] = slots[v]
  BY <1>1, PacedFacts DEF IdleSlot
<1>3. Started(jobs[f][d]).state = "running"
  BY PacedFacts DEF Started, Job
<1>4. /\ jobs'[f][d].state = "running"
      /\ \A e \in Defers \ {d} : jobs'[f][e] = jobs[f][e]
      /\ \A h \in Forwards \ {f} : jobs'[h] = jobs[h]
  BY <1>1, <1>3, PacedFacts
<1>5. CASE g # f
  <2>1. Eased(g)
    BY <1>1, <1>2, <1>4, <1>5 DEF Eased, On
  <2>2. QED
    BY <2>1, EasedPaced
<1>6. CASE g = f
  <2>1. InOneHand(f) /\ SitsOut(f) /\ backoff[f] \in Nat
    BY PacedFacts DEF PacedInv
  <2>2. /\ backoff[f] = 0
        /\ \A v \in Workers : ~On(v, f)
        /\ \A e \in Defers \ {d} : jobs[f][e].state # "queued"
        /\ ~(forwards[f].status = "absent" /\ ~requests[f].enqueued)
    BY <1>1, <2>1 DEF InOneHand, SitsOut, Quiet
  <2>3. \A e \in Defers : jobs'[f][e].state # "queued"
    BY <1>4, <2>2
  <2>4. \A v \in Workers : On(v, f)' => v = w
    BY <1>2, <2>2 DEF On
  <2>5. InOneHand(f)' /\ SitsOut(f)'
    BY <1>1, <2>2, <2>3, <2>4 DEF InOneHand, SitsOut
  <2>6. QED
    BY <1>6, <2>5
<1>7. QED
  BY <1>5, <1>6

(* While a worker has f in hand nobody else has, and until its outcome is  *)
(* recorded no delay runs.                                                 *)
LEMMA HeldByOne ==
    ASSUME PacedInv, NEW w \in Workers, slots[w].pc # "idle", NEW f \in Forwards,
           slots[w].f = f
    PROVE  /\ \A d \in Defers : jobs[f][d].state # "queued"
           /\ \A v \in Workers : On(v, f) => v = w
           /\ ~(forwards[f].status = "absent" /\ ~requests[f].enqueued)
           /\ slots[w].pc # "enqueue" => backoff[f] = 0
           /\ slots[w].pc = "enqueue" => backoff[f] <= slots[w].defer \/ backoff[f] = 0
<1>1. InOneHand(f) /\ SitsOut(f) /\ backoff[f] \in Nat /\ On(w, f)
  BY PacedFacts DEF PacedInv, On
<1>2. QED
  BY <1>1 DEF InOneHand, SitsOut, Quiet

(* TX2 sets the delay, and the worker carries it to the enqueue.           *)
LEMMA RecordPaced ==
    ASSUME PacedInv, NEW w \in Workers, Record(w), NEW g \in Forwards
    PROVE  InOneHand(g)' /\ SitsOut(g)'
<1> DEFINE next == slots[w].next_status
<1> PICK f \in Forwards : slots[w].f = f
  BY PacedFacts DEF Record
<1>1. /\ slots[w].pc = "record" /\ slots[w].d \in Defers
      /\ next \in {"succeeded", "failed", "dead"} /\ slots[w].defer \in Nat
      /\ UNCHANGED requests
      /\ backoff' = [backoff EXCEPT ![f] = slots[w].defer]
      /\ forwards' = [forwards EXCEPT ![f] =
           IF Exists(forwards[f]) THEN RecordOutcome_Set(forwards[f], next)
           ELSE forwards[f]]
  BY PacedFacts, DefersType DEF Record, Update, RecordOutcome_Where, TypeInv, GoodSlot
<1>2. /\ backoff'[f] = slots[w].defer
      /\ \A h \in Forwards \ {f} : backoff'[h] = backoff[h] /\ forwards'[h] = forwards[h]
  BY <1>1, PacedFacts
<1>3. forwards'[f].status = "absent" => forwards[f].status = "absent"
  <2>1. CASE Exists(forwards[f])
    <3>1. forwards'[f] = RecordOutcome_Set(forwards[f], next)
      BY <1>1, <2>1, PacedFacts
    <3>2. QED
      BY <1>1, <3>1, PacedFacts, RecordFields
  <2>2. CASE ~Exists(forwards[f])
    BY <1>1, <2>2, PacedFacts
  <2>3. QED
    BY <2>1, <2>2
<1>4. /\ \A d \in Defers : jobs[f][d].state # "queued"
      /\ \A v \in Workers : On(v, f) => v = w
      /\ ~(forwards[f].status = "absent" /\ ~requests[f].enqueued)
  BY <1>1, HeldByOne
<1>5. CASE next = "failed"
  <2>1. slots' = [slots EXCEPT ![w] = [slots[w] EXCEPT !.pc = "enqueue"]] /\ UNCHANGED jobs
    BY <1>5 DEF Record
  <2>2. /\ slots'[w].pc = "enqueue" /\ slots'[w].f = f /\ slots'[w].defer = slots[w].defer
        /\ \A v \in Workers \ {w} : slots'[v] = slots[v]
    BY <2>1, PacedFacts DEF Slot
  <2> HIDE DEF next
  <2>3. \A v \in Workers : On(v, f)' => v = w
    BY <1>4, <2>2 DEF On
  <2>4. InOneHand(f)' /\ SitsOut(f)'
    BY <1>1, <1>2, <1>3, <1>4, <2>1, <2>2, <2>3 DEF InOneHand, SitsOut
  <2>5. ASSUME g # f PROVE InOneHand(g)' /\ SitsOut(g)'
    BY <1>1, <1>2, <2>1, <2>2, <2>5, OtherPaced
  <2>6. QED
    BY <2>4, <2>5
<1>6. CASE next # "failed"
  <2>1. /\ jobs' = [jobs EXCEPT ![f][slots[w].d] = Finished(jobs[f][slots[w].d])]
        /\ slots' = [slots EXCEPT ![w] = IdleSlot]
    BY <1>1, <1>6, PacedFacts DEF Record, EndJob
  <2>2. Finished(jobs[f][slots[w].d]).state = "done"
    BY DEF Finished
  <2>3. /\ slots'[w].pc = "idle"
        /\ \A v \in Workers \ {w} : slots'[v] = slots[v]
    BY <2>1, PacedFacts DEF IdleSlot
  <2> HIDE DEF next
  <2>4. /\ \A d \in Defers : jobs'[f][d].state = "queued" => jobs[f][d].state = "queued"
        /\ \A h \in Forwards \ {f} : jobs'[h] = jobs[h]
    BY <1>1, <2>1, <2>2, PacedFacts
  <2>5. \A v \in Workers : ~On(v, f)'
    BY <1>4, <2>3 DEF On
  <2>6. InOneHand(f)' /\ SitsOut(f)'
    BY <1>1, <1>3, <1>4, <2>4, <2>5 DEF InOneHand, SitsOut
  <2>7. ASSUME g # f PROVE InOneHand(g)' /\ SitsOut(g)'
    BY <1>1, <1>2, <2>3, <2>4, <2>7, OtherPaced
  <2>8. QED
    BY <2>6, <2>7
<1>7. QED
  BY <1>5, <1>6

(* The re-enqueue hands the forward over to a job with the whole delay.    *)
LEMMA EnqueueRetryPaced ==
    ASSUME PacedInv, NEW w \in Workers, EnqueueRetry(w), NEW g \in Forwards
    PROVE  InOneHand(g)' /\ SitsOut(g)'
<1> DEFINE d == slots[w].d
           delay == slots[w].defer
<1> PICK f \in Forwards : slots[w].f = f
  BY PacedFacts DEF EnqueueRetry
<1>1. /\ slots[w].pc = "enqueue" /\ d \in Defers /\ delay \in Defers /\ delay \in Nat
      /\ UNCHANGED <<forwards, requests, backoff>>
  BY PacedFacts, DefersType DEF EnqueueRetry
<1>2. /\ \A e \in Defers : jobs[f][e].state # "queued"
      /\ \A v \in Workers : On(v, f) => v = w
      /\ ~(forwards[f].status = "absent" /\ ~requests[f].enqueued)
      /\ backoff[f] <= delay
  BY <1>1, HeldByOne, PacedFacts
<1>3. /\ slots'[w].pc = "idle" /\ \A v \in Workers \ {w} : slots'[v] = slots[v]
  <2>1. slots' = [slots EXCEPT ![w] = IdleSlot]
    BY DEF EnqueueRetry, EndJob
  <2>2. QED
    BY <2>1, PacedFacts DEF IdleSlot
<1>4. /\ \A e \in Defers : jobs'[f][e].state = "queued" => e = delay /\ jobs'[f][e].timer = delay
      /\ \A h \in Forwards \ {f} : jobs'[h] = jobs[h]
  <2> DEFINE added == Enqueued(jobs[f][delay], delay)
             ended == [state |-> "done", timer |-> KeepResult, tries |-> 0]
  <2>1. jobs' = [[jobs EXCEPT ![f][delay] = added] EXCEPT ![f][d] = ended]
    BY <1>1, PacedFacts DEF EnqueueRetry, EndJob, Finished
  <2>2. ended.state = "done"
    OBVIOUS
  <2>3. added.state = "queued" => added.timer = delay
    BY <1>1, <1>2 DEF Enqueued
  <2> HIDE DEF added, ended, d, delay
  <2>4. \A h \in Forwards \ {f} : jobs'[h] = jobs[h]
    BY <1>1, <2>1, PacedFacts
  <2>5. ASSUME NEW e \in Defers
        PROVE  jobs'[f][e] = IF e = d THEN ended
                             ELSE IF e = delay THEN added ELSE jobs[f][e]
    BY <1>1, <2>1, PacedFacts
  <2>6. QED
    BY <1>1, <1>2, <2>2, <2>3, <2>4, <2>5
<1> HIDE DEF d, delay
<1>5. \A v \in Workers : ~On(v, f)'
  BY <1>2, <1>3 DEF On
<1>6. InOneHand(f)' /\ SitsOut(f)'
  <2>1. InOneHand(f)'
    BY <1>1, <1>2, <1>4, <1>5 DEF InOneHand
  <2>2. SitsOut(f)'
    BY <1>1, <1>2, <1>4, <1>5 DEF SitsOut
  <2>3. QED
    BY <2>1, <2>2
<1>7. ASSUME g # f PROVE InOneHand(g)' /\ SitsOut(g)'
  BY <1>1, <1>3, <1>4, <1>7, OtherPaced
<1>8. QED
  BY <1>6, <1>7

(* The other steps of a worker schedule nothing.                           *)
LEMMA WorkerPaced ==
    ASSUME Unhurried, PacedInv, NEW w \in Workers, WorkerStep(w), NEW g \in Forwards
    PROVE  InOneHand(g)' /\ SitsOut(g)'
<1>1. ~Raise(w) /\ ~Crash(w) /\ ~Shutdown(w)
  BY NothingHurries DEF Raise, Crash, Shutdown, Requeue
<1>2. CASE \E f \in Forwards, d \in Defers : DropJob(w, f, d)
  <2>1. PICK f \in Forwards, d \in Defers : DropJob(w, f, d)
    BY <1>2
  <2>2. /\ jobs' = [jobs EXCEPT ![f][d] = Finished(jobs[f][d])]
        /\ UNCHANGED <<forwards, requests, slots, backoff>>
    BY <2>1, PacedFacts DEF DropJob
  <2>3. Finished(jobs[f][d]).state = "done"
    BY DEF Finished
  <2>4. \A e \in Defers : jobs'[g][e].state = "queued" => jobs'[g][e] = jobs[g][e]
    BY <2>2, <2>3, PacedFacts
  <2>5. Eased(g)
    BY <2>2, <2>4 DEF Eased, On
  <2>6. QED
    BY <2>5, EasedPaced
<1>3. CASE Claim(w)
  <2> PICK f \in Forwards : slots[w].f = f
    BY <1>3, PacedFacts DEF Claim
  <2>1. /\ slots[w].pc = "claim"
        /\ forwards' = [forwards EXCEPT ![f] =
                          ClaimForAttempt_Set(forwards[f], slots[w].elapsed)]
        /\ backoff' = [backoff EXCEPT ![f] = 0]
        /\ UNCHANGED <<requests, jobs>>
    BY <1>3 DEF Claim, Update
  <2>2. forwards'[g].status = "absent" => forwards[g].status = "absent"
    BY <2>1, PacedFacts, ClaimFields
  <2>3. \A v \in Workers : /\ slots'[v].f = slots[v].f
                           /\ slots'[v].pc # "idle" => slots[v].pc # "idle"
                           /\ slots[v].pc = "enqueue" => slots'[v] = slots[v]
    <3>1. slots' = [slots EXCEPT ![w] = [slots[w] EXCEPT !.pc = "http", !.attempt =
             ClaimForAttempt_Set(forwards[f], slots[w].elapsed).attempt_count]]
      BY <1>3 DEF Claim
    <3>2. QED
      BY <2>1, <3>1, PacedFacts DEF Slot
  <2>4. Eased(g)
    BY <2>1, <2>2, <2>3, PacedFacts DEF Eased, On
  <2>5. QED
    BY <2>4, EasedPaced
<1>4. CASE SkipClaim(w)
  <2> PICK f \in Forwards : slots[w].f = f
    BY <1>4, PacedFacts DEF SkipClaim
  <2>1. /\ slots[w].pc # "idle" /\ slots[w].d \in Defers
        /\ jobs' = [jobs EXCEPT ![f][slots[w].d] = Finished(jobs[f][slots[w].d])]
        /\ slots' = [slots EXCEPT ![w] = IdleSlot]
        /\ UNCHANGED <<forwards, requests, backoff>>
    BY <1>4, PacedFacts DEF SkipClaim, EndJob
  <2>2. Finished(jobs[f][slots[w].d]).state = "done"
    BY DEF Finished
  <2>3. \A e \in Defers : jobs'[g][e].state = "queued" => jobs'[g][e] = jobs[g][e]
    BY <2>1, <2>2, PacedFacts
  <2>4. slots'[w].pc = "idle" /\ \A v \in Workers \ {w} : slots'[v] = slots[v]
    BY <2>1, PacedFacts DEF IdleSlot
  <2>5. Eased(g)
    BY <2>1, <2>3, <2>4 DEF Eased, On
  <2>6. QED
    BY <2>5, EasedPaced
<1>5. ASSUME NEW dec, NEW left, HttpOutcome(w, dec, left)
      PROVE  InOneHand(g)' /\ SitsOut(g)'
  <2>1. /\ slots[w].pc = "http"
        /\ slots' = [slots EXCEPT ![w] = [slots[w] EXCEPT !.pc = "record",
             !.next_status = dec.next_status, !.defer = dec.defer]]
        /\ UNCHANGED <<forwards, requests, jobs, backoff>>
    BY <1>5 DEF HttpOutcome
  <2>2. \A v \in Workers : /\ slots'[v].f = slots[v].f
                           /\ slots'[v].pc # "idle" => slots[v].pc # "idle"
                           /\ slots[v].pc = "enqueue" => slots'[v] = slots[v]
    BY <2>1, PacedFacts DEF Slot
  <2>3. Eased(g)
    BY <2>1, <2>2 DEF Eased, On
  <2>4. QED
    BY <2>3, EasedPaced
<1>6. ASSUME \/ \E status \in Responses : HttpResponse(w, status)
             \/ HttpNetworkError(w)
             \/ HttpSsrfBlocked(w)
      PROVE  InOneHand(g)' /\ SitsOut(g)'
  <2>1. \E dec, left : HttpOutcome(w, dec, left)
    BY <1>6 DEF HttpResponse, HttpNetworkError, HttpSsrfBlocked
  <2>2. QED
    BY <1>5, <2>1
<1>7. QED
  BY <1>1, <1>2, <1>3, <1>4, <1>6, StartPaced, RecordPaced, EnqueueRetryPaced
     DEF WorkerStep

(* Time takes as much from a job's timer as from the delay.                *)
LEMMA TickPaced ==
    ASSUME PacedInv, Tick, NEW f \in Forwards PROVE InOneHand(f)' /\ SitsOut(f)'
<1>1. /\ InOneHand(f) /\ SitsOut(f) /\ backoff[f] \in Nat
      /\ UNCHANGED requests
  BY PacedFacts DEF PacedInv, Tick
<1>2. forwards'[f].status = forwards[f].status
  BY PacedFacts, AgedFields DEF Tick
<1>3. \A w \in Workers : /\ slots'[w].f = slots[w].f /\ slots'[w].pc = slots[w].pc
                         /\ slots'[w].defer = slots[w].defer
  BY PacedFacts DEF Tick, Slot
<1>4. backoff'[f] = IF backoff[f] > 0 THEN backoff[f] - 1 ELSE 0
  BY DEF Tick
<1>5. ASSUME NEW d \in Defers, jobs'[f][d].state = "queued"
      PROVE  /\ jobs[f][d].state = "queued" /\ jobs[f][d].timer \in Nat
             /\ jobs[f][d].timer > 0 => jobs'[f][d].timer = jobs[f][d].timer - 1
  <2>1. jobs'[f][d] = JobAged(jobs[f][d]) /\ jobs[f][d] \in Job
    BY PacedFacts DEF Tick
  <2>2. QED
    BY <1>5, <2>1 DEF JobAged, Job, NoJob
<1>6. \A w \in Workers : On(w, f)' <=> On(w, f)
  BY <1>3 DEF On
<1>7. InOneHand(f)'
  BY <1>1, <1>2, <1>4, <1>5, <1>6 DEF InOneHand, Quiet
<1>8. SitsOut(f)'
  <2>1. SUFFICES ASSUME backoff'[f] > 0 PROVE SitsOut(f)'
    BY DEF SitsOut
  <2>2. backoff[f] > 0 /\ backoff'[f] = backoff[f] - 1
    BY <1>1, <1>4, <2>1
  <2>3. ASSUME NEW w \in Workers, On(w, f)'
        PROVE  slots'[w].pc = "enqueue" /\ backoff'[f] <= slots'[w].defer
    <3>1. slots[w].pc = "enqueue" /\ backoff[f] <= slots[w].defer /\ slots[w].defer \in Nat
      BY <1>1, <1>6, <2>2, <2>3, PacedFacts, DefersType DEF SitsOut, On
    <3>2. QED
      BY <1>1, <1>3, <2>2, <3>1
  <2>4. ASSUME NEW d \in Defers, jobs'[f][d].state = "queued"
        PROVE  backoff'[f] <= jobs'[f][d].timer
    <3>1. backoff[f] <= jobs[f][d].timer
      BY <1>1, <1>5, <2>2, <2>4 DEF SitsOut
    <3>2. QED
      BY <1>1, <1>5, <2>2, <2>4, <3>1
  <2>5. QED
    BY <1>1, <2>2, <2>3, <2>4 DEF SitsOut
<1>9. QED
  BY <1>7, <1>8

(* Every step leaves each forward in one hand, which sits its delay out.   *)
LEMMA NextPaced == ASSUME Unhurried PROVE PacedInv /\ [Next]_vars => PacedInv'
<1> SUFFICES ASSUME PacedInv, [Next]_vars PROVE PacedInv'
  OBVIOUS
<1>1. RowInv' /\ NoRetryOpen'
  BY PacedFacts, NextRows, NextNoRetryOpen DEF PacedInv, Unhurried
<1>2. ASSUME NEW f \in Forwards PROVE InOneHand(f)' /\ SitsOut(f)'
  <2>1. CASE UNCHANGED vars
    <3>1. Eased(f)
      BY <2>1 DEF vars, Eased, On
    <3>2. QED
      BY <3>1, EasedPaced
  <2>2. ~(\E r \in Redrivers : RedriveStep(r))
    BY DEF Unhurried
  <2>3. QED
    BY <2>1, <2>2, OwnerPaced, WorkerPaced, TickPaced DEF Next
<1>3. QED
  BY <1>1, <1>2 DEF PacedInv

(* Nothing is scheduled at first.                                          *)
LEMMA InitPaced == Init => PacedInv
<1> SUFFICES ASSUME Init PROVE PacedInv
  OBVIOUS
<1>1. /\ \A w \in Workers : slots[w].pc = "idle"
      /\ \A f \in Forwards : /\ backoff[f] = 0
                             /\ requests[f].kind = "none" /\ ~requests[f].enqueued
      /\ \A f \in Forwards, d \in Defers : jobs[f][d].state = "none"
  BY DEF Init, IdleSlot, NoRequest, NoJob
<1>2. RowInv /\ NoRetryOpen
  BY <1>1, InitRows DEF NoRetryOpen
<1>3. \A f \in Forwards : InOneHand(f) /\ SitsOut(f)
  BY <1>1 DEF InOneHand, SitsOut, Quiet, On
<1>4. QED
  BY <1>2, <1>3 DEF PacedInv

(* A forward goes in flight by a claim, and then no delay is running.      *)
LEMMA ClaimsWait ==
    ASSUME Unhurried, PacedInv, Next, NEW f \in Forwards,
           forwards[f].status # "in_flight", forwards'[f].status = "in_flight"
    PROVE  backoff[f] = 0
<1>1. ~(\/ \E g \in Forwards : WebStep(g)
        \/ \E r \in Redrivers : RedriveStep(r)
        \/ DeleteExpired)
  BY PacedFacts, OwnerFrame
<1>2. ~Tick
  BY PacedFacts, AgedFields DEF Tick
<1>3. PICK w \in Workers : WorkerStep(w)
  BY <1>1, <1>2 DEF Next
<1>4. ~Record(w)
  <2>1. ASSUME Record(w) PROVE FALSE
    <3>1. slots[w].next_status # "in_flight"
      BY <2>1, PacedFacts DEF Record, TypeInv, GoodSlot
    <3>2. forwards' = [forwards EXCEPT ![slots[w].f] =
             IF RecordOutcome_Where(forwards[slots[w].f])
             THEN RecordOutcome_Set(forwards[slots[w].f], slots[w].next_status)
             ELSE forwards[slots[w].f]]
      BY <2>1 DEF Record, Update
    <3>3. QED
      BY <3>1, <3>2, PacedFacts, RecordFields
  <2>2. QED
    BY <2>1
<1>5. Claim(w)
  BY <1>3, <1>4, PacedFacts, WorkerFrame
<1>6. slots[w].pc = "claim" /\ slots[w].f = f
  BY <1>5, PacedFacts DEF Claim, Update
<1>7. QED
  BY <1>6, HeldByOne

(* No attempt starts before the delay that decide() asked for is over,     *)
(* whatever the interleaving of tasks, jobs and slots: a forward is in one *)
(* hand at a time, and that hand waits (execute_forward.py:134-150).       *)
THEOREM BackoffsAreSatOut ==
    ASSUME Unhurried PROVE Spec => BackoffRespected
<1>1. ASSUME PacedInv, [Next]_vars
      PROVE  [\A f \in Forwards :
                forwards[f].status # "in_flight" /\ forwards'[f].status = "in_flight"
                   => backoff[f] = 0]_vars
  BY <1>1, ClaimsWait
<1>2. QED
  BY <1>1, InitPaced, NextPaced, PTL DEF Spec, BackoffRespected
==============================================================================
