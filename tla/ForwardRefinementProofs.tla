---------------------- MODULE ForwardRefinementProofs -----------------------
(***************************************************************************)
(* ForwardPipeline implements ForwardLifecycle as long as nobody abandons  *)
(* a forward: every step of the workers, the web requests, the redrives,   *)
(* the cleaner and the clock is a step of the lifecycle, or is invisible   *)
(* to the owner of the forward.                                            *)
(***************************************************************************)
EXTENDS ForwardExclusionProofs

(* What the owner sees of forward f does not change. *)
Same(f) == /\ forwards'[f].status = forwards[f].status
           /\ forwards'[f].attempt_count = forwards[f].attempt_count

(* A step that changes what the owner sees of one forward only. *)
LEMMA OneRowChanges ==
    ASSUME NEW f \in Forwards, NEW status, NEW attempt,
           \A g \in Forwards \ {f} : Same(g),
           forwards'[f].status = status, forwards'[f].attempt_count = attempt
    PROVE  OwnerView' = [OwnerView EXCEPT ![f] =
                          [status |-> status, attempt |-> attempt]]
BY DEF OwnerView, Same

(* What the owner sees of a forward: its committed status and attempt count. *)
LEMMA Seeing ==
    ASSUME NEW f \in Forwards
    PROVE  /\ OwnerView[f].status = forwards[f].status
           /\ OwnerView[f].attempt = forwards[f].attempt_count
BY DEF OwnerView

(* A step whose owner sees nothing. *)
LEMMA NothingChanges ==
    ASSUME \A f \in Forwards : Same(f)
    PROVE  UNCHANGED OwnerView
BY DEF OwnerView, Same

LifecycleStep == [Lifecycle!Next]_OwnerView

(* The empty table is the lifecycle's initial state.                       *)
LEMMA InitLifecycle == Init => Lifecycle!Init
BY DeletedFields DEF Init, Lifecycle!Init, OwnerView

(* A forward that was not captured yet was not attempted either.           *)
AbsentIsNew ==
    \A f \in Forwards :
        forwards[f].status = "absent" => forwards[f].attempt_count = 0

(* A forward that was not inserted has made no attempt.                    *)
LEMMA NextAbsent == RowInv /\ AbsentIsNew /\ [Next]_vars => AbsentIsNew'
<1> SUFFICES ASSUME RowInv, AbsentIsNew, [Next]_vars, NEW f \in Forwards,
                    forwards'[f].status = "absent"
             PROVE  forwards'[f].attempt_count = 0
  BY DEF AbsentIsNew
<1> /\ TypeInv /\ OpenTransactionsHoldTheirRows
    /\ forwards \in [Forwards -> Row] /\ requests \in [Forwards -> Request]
  BY DEF RowInv, TypeInv, TypeOK
<1>1. ASSUME forwards'[f] = forwards[f] PROVE forwards'[f].attempt_count = 0
  BY <1>1 DEF AbsentIsNew
<1>2. ASSUME NEW g \in Forwards, WebStep(g) PROVE forwards'[f] = forwards[f]
  <2>1. CASE CommitRequest(g)
    BY <2>1, ManualRetryFields, InsertFields DEF CommitRequest, Update
  <2>2. CASE AbandonForward(g)
    BY <2>2, AbandonFields DEF AbandonForward, Update
  <2>3. CASE \/ Capture(g) \/ RetryForward(g) \/ BackgroundEnqueue(g)
             \/ BackgroundLost(g) \/ RequestRollback(g)
    BY <2>3 DEF Capture, RetryForward, BackgroundEnqueue, BackgroundLost,
                RequestRollback
  <2>4. QED
    BY <1>2, <2>1, <2>2, <2>3 DEF WebStep
<1>3. ASSUME NEW r \in Redrivers, RedriveStep(r) PROVE forwards'[f] = forwards[f]
  <2>1. CASE RedriveCommit(r)
    BY <2>1, ReclaimFields DEF RedriveCommit, Seen
  <2>2. CASE ~RedriveCommit(r)
    BY <1>3, <2>2 DEF RedriveStep, RedriveReclaim, RedriveListFailed,
       RedriveListPending, RedriveEnqueue, RedriveEnqueueFails, RedriveRollback
  <2>3. QED
    BY <2>1, <2>2
<1>4. ASSUME NEW w \in Workers, WorkerStep(w) PROVE forwards'[f] = forwards[f]
  <2>1. CASE Claim(w)
    <3>1. slots[w].f \in Forwards
      BY <2>1 DEF Claim, TypeInv, GoodSlot
    <3>2. QED
      BY <2>1, <3>1, ClaimFields DEF Claim, Update
  <2>2. CASE Record(w)
    <3>1. slots[w].f \in Forwards /\ slots[w].next_status # "absent"
      BY <2>2 DEF Record, TypeInv, GoodSlot
    <3>2. QED
      BY <2>2, <3>1, RecordFields DEF Record, Update
  <2>3. QED
    BY <1>4, <2>1, <2>2, WorkerFrame
<1>5. ~DeleteExpired
  BY DeletedFields DEF DeleteExpired
<1>6. CASE Tick
  <2>1. /\ forwards'[f].status = forwards[f].status
        /\ forwards'[f].attempt_count = forwards[f].attempt_count
    BY <1>6, AgedFields DEF Tick
  <2>2. QED
    BY <2>1 DEF AbsentIsNew
<1>7. CASE UNCHANGED vars
  BY <1>1, <1>7 DEF vars
<1>8. QED
  BY <1>1, <1>2, <1>3, <1>4, <1>5, <1>6, <1>7 DEF Next

(* A capture's commit accepts the forward, a retry's commit is the owner's *)
(* retry.                                                                  *)
LEMMA CommitRequestStep ==
    ASSUME RowInv, AbsentIsNew, NEW f \in Forwards, CommitRequest(f)
    PROVE  Lifecycle!Next
<1> /\ forwards \in [Forwards -> Row] /\ requests \in [Forwards -> Request]
    /\ OpenTransactionsHoldTheirRows
  BY DEF RowInv, TypeInv, TypeOK
<1>1. \A g \in Forwards \ {f} : Same(g)
  BY DEF CommitRequest, Update, Same
<1>2. CASE requests[f].kind = "retry"
  <2>1. forwards[f].status \in {"failed", "dead", "abandoned"}
    BY <1>2 DEF OpenTransactionsHoldTheirRows, ManualRetry_Where
  <2>2. forwards'[f] = ManualRetry_Set(forwards[f])
    BY <1>2 DEF CommitRequest, Update
  <2>3. /\ forwards'[f].status = "pending"
        /\ forwards'[f].attempt_count =
              IF forwards[f].status \in {"dead", "abandoned"} THEN MaxAttempts - 1
              ELSE forwards[f].attempt_count
    <3>1. forwards[f] \in Row
      OBVIOUS
    <3>2. QED
      BY <2>2, <3>1, ManualRetryFields
  <2>4. CASE forwards[f].status = "failed"
    <3>1. OwnerView' = [OwnerView EXCEPT ![f] =
             [status |-> "pending", attempt |-> forwards[f].attempt_count]]
      BY <1>1, <2>3, <2>4, OneRowChanges
    <3>2. QED
      BY <2>4, <3>1, Seeing
         DEF Lifecycle!Next, Lifecycle!OwnerRetries, Lifecycle!Become
  <2>5. CASE forwards[f].status \in {"dead", "abandoned"}
    <3>1. OwnerView' = [OwnerView EXCEPT ![f] =
             [status |-> "pending", attempt |-> MaxAttempts - 1]]
      BY <1>1, <2>3, <2>5, OneRowChanges
    <3>2. QED
      BY <2>5, <3>1, Seeing
         DEF Lifecycle!Next, Lifecycle!OwnerRetries, Lifecycle!Become
  <2>6. QED
    BY <2>1, <2>4, <2>5
<1>3. CASE requests[f].kind = "capture"
  <2>1. forwards[f].status = "absent"
    BY <1>3 DEF OpenTransactionsHoldTheirRows
  <2>2. /\ forwards'[f].status = "pending"
        /\ forwards'[f].attempt_count = forwards[f].attempt_count
    BY <1>3, InsertFields DEF CommitRequest, Update
  <2>3. forwards[f].attempt_count = 0
    BY <2>1 DEF AbsentIsNew
  <2>4. OwnerView' = [OwnerView EXCEPT ![f] =
           [status |-> "pending", attempt |-> 0]]
    BY <1>1, <2>2, <2>3, OneRowChanges
  <2>5. QED
    BY <2>1, <2>4, Seeing DEF Lifecycle!Next, Lifecycle!Accept, Lifecycle!Become
<1>4. QED
  BY <1>2, <1>3 DEF CommitRequest, Request, Kinds

(* A redrive's commit gives up the attempts it reclaimed, and the cleaner's *)
(* DELETE ends every forward of the endpoint.                              *)
LEMMA RedriveCommitStep ==
    ASSUME RowInv, NEW r \in Redrivers, RedriveCommit(r) PROVE Lifecycle!Next
<1> DEFINE S == redrives[r].reclaimed
<1> forwards \in [Forwards -> Row]
  BY DEF RowInv, TypeInv, TypeOK
<1>1. S \in SUBSET Forwards
  BY DEF RowInv, TypeInv, TypeOK, Redrive
<1>2. \A f \in S : forwards[f].status = "in_flight"
  BY <1>1 DEF RowInv, OpenTransactionsHoldTheirRows
<1>3. \A f \in Forwards :
         IF f \in S
         THEN /\ forwards'[f].status = "failed"
              /\ forwards'[f].attempt_count = forwards[f].attempt_count
         ELSE Same(f)
  BY ReclaimFields DEF RedriveCommit, Seen, Same
<1> HIDE DEF S
<1>4. OwnerView' = [f \in Forwards |-> IF f \in S
                      THEN [OwnerView[f] EXCEPT !.status = "failed"]
                      ELSE OwnerView[f]]
  BY <1>3 DEF OwnerView, Same
<1>5. \A f \in S : OwnerView[f].status = "in_flight"
  BY <1>1, <1>2, Seeing
<1>6. QED
  BY <1>1, <1>4, <1>5 DEF Lifecycle!Next, Lifecycle!GiveUp

(* The cleaner's DELETE is the lifecycle's Expire.                         *)
LEMMA DeleteStep == ASSUME DeleteExpired PROVE Lifecycle!Next
BY DeletedFields DEF DeleteExpired, Lifecycle!Next, Lifecycle!Expire, OwnerView

(* A claim starts an attempt. *)
LEMMA ClaimStep ==
    ASSUME TypeInv, NEW w \in Workers, Claim(w) PROVE Lifecycle!Next
<1> DEFINE f == slots[w].f
<1> forwards \in [Forwards -> Row]
  BY DEF TypeInv, TypeOK
<1>1. f \in Forwards /\ forwards[f].status \in {"pending", "failed"}
  BY DEF Claim, ClaimForAttempt_Where, TypeInv, GoodSlot
<1>2. /\ \A g \in Forwards \ {f} : Same(g)
      /\ forwards'[f].status = "in_flight"
      /\ forwards'[f].attempt_count = forwards[f].attempt_count + 1
  <2>1. forwards' = [forwards EXCEPT ![f] =
                       ClaimForAttempt_Set(forwards[f], slots[w].elapsed)]
    BY DEF Claim, Update
  <2>2. QED
    BY <1>1, <2>1, ClaimFields DEF Same
<1> HIDE DEF f
<1>3. OwnerView' = [OwnerView EXCEPT ![f] =
         [status |-> "in_flight", attempt |-> forwards[f].attempt_count + 1]]
  BY <1>1, <1>2, OneRowChanges
<1>4. QED
  BY <1>1, <1>3, Seeing DEF Lifecycle!Next, Lifecycle!Attempt, Lifecycle!Become

(* An outcome ends the attempt in flight, unless the forward is deleted.   *)
LEMMA RecordStep ==
    ASSUME ExclusionInv, NEW w \in Workers, Record(w) PROVE LifecycleStep
<1> DEFINE f == slots[w].f
           next == slots[w].next_status
<1> TypeInv /\ forwards \in [Forwards -> Row] /\ RecordHitsItsOwnAttempt
  BY DEF ExclusionInv, AgeInv, RowInv, TypeInv, TypeOK
<1>1. /\ f \in Forwards /\ Attempting(w, f)
      /\ next \in {"succeeded", "failed", "dead"}
      /\ next = "failed" => slots[w].attempt < MaxAttempts
  BY DEF Record, TypeInv, GoodSlot, Attempting
<1>2. CASE ~RecordOutcome_Where(forwards[f])
  <2>1. \A g \in Forwards : Same(g)
    BY <1>1, <1>2 DEF Record, Update, Same
  <2>2. QED
    BY <2>1, NothingChanges DEF LifecycleStep
<1>3. CASE RecordOutcome_Where(forwards[f])
  <2>1. /\ forwards[f].status = "in_flight"
        /\ forwards[f].attempt_count = slots[w].attempt
    BY <1>1, <1>3 DEF RecordHitsItsOwnAttempt, RecordOutcome_Where, Exists, Statuses
  <2>2. forwards' = [forwards EXCEPT ![f] = RecordOutcome_Set(forwards[f], next)]
    BY <1>3 DEF Record, Update
  <2>3. /\ \A g \in Forwards \ {f} : Same(g)
        /\ forwards'[f].status = next
        /\ forwards'[f].attempt_count = forwards[f].attempt_count
    BY <1>1, <2>2, RecordFields DEF Same
  <2> HIDE DEF f, next
  <2>4. OwnerView' = [OwnerView EXCEPT ![f] =
           [status |-> next, attempt |-> forwards[f].attempt_count]]
    BY <1>1, <2>3, OneRowChanges
  <2>5. CASE next = "failed"
    BY <1>1, <2>1, <2>4, <2>5, Seeing
       DEF LifecycleStep, Lifecycle!Next, Lifecycle!FailForNow, Lifecycle!Become
  <2>6. CASE next # "failed"
    BY <1>1, <2>1, <2>4, <2>6, Seeing
       DEF LifecycleStep, Lifecycle!Next, Lifecycle!Settle, Lifecycle!Become
  <2>7. QED
    BY <2>5, <2>6
<1>4. QED
  BY <1>2, <1>3

(* The steps an owner does not see. *)
LEMMA InvisibleSteps ==
    ASSUME TypeInv, UNCHANGED forwards \/ Tick PROVE LifecycleStep
<1> forwards \in [Forwards -> Row]
  BY DEF TypeInv, TypeOK
<1>1. \A f \in Forwards : Same(f)
  BY AgedFields DEF Tick, Same
<1>2. QED
  BY <1>1, NothingChanges DEF LifecycleStep

(* Every step of the pipeline is a step of the lifecycle or invisible to the owner. *)
LEMMA NextLifecycle ==
    ASSUME NobodyAbandons, ExclusionInv, AbsentIsNew, [Next]_vars
    PROVE  LifecycleStep
<1> RowInv /\ TypeInv
  BY DEF ExclusionInv, AgeInv, RowInv
<1>1. ASSUME NEW f \in Forwards, WebStep(f) PROVE LifecycleStep
  <2>1. CASE CommitRequest(f)
    BY <2>1, CommitRequestStep DEF LifecycleStep
  <2>2. ~AbandonForward(f)
    <3>1. budget.abandons \in Nat
      BY DEF TypeInv, TypeOK
    <3>2. QED
      BY <3>1 DEF AbandonForward, NobodyAbandons
  <2>3. CASE \/ Capture(f) \/ RetryForward(f) \/ BackgroundEnqueue(f)
             \/ BackgroundLost(f) \/ RequestRollback(f)
    <3>1. UNCHANGED forwards
      BY <2>3 DEF Capture, RetryForward, BackgroundEnqueue, BackgroundLost,
                  RequestRollback
    <3>2. QED
      BY <3>1, InvisibleSteps
  <2>4. QED
    BY <1>1, <2>1, <2>2, <2>3 DEF WebStep
<1>2. ASSUME NEW r \in Redrivers, RedriveStep(r) PROVE LifecycleStep
  <2>1. CASE RedriveCommit(r)
    BY <2>1, RedriveCommitStep DEF LifecycleStep
  <2>2. CASE ~RedriveCommit(r)
    <3>1. UNCHANGED forwards
      BY <1>2, <2>2 DEF RedriveStep, RedriveReclaim, RedriveListFailed,
         RedriveListPending, RedriveEnqueue, RedriveEnqueueFails, RedriveRollback
    <3>2. QED
      BY <3>1, InvisibleSteps
  <2>3. QED
    BY <2>1, <2>2
<1>3. ASSUME NEW w \in Workers, WorkerStep(w) PROVE LifecycleStep
  <2>1. CASE Claim(w)
    BY <2>1, ClaimStep DEF LifecycleStep
  <2>2. CASE Record(w)
    BY <2>2, RecordStep
  <2>3. CASE UNCHANGED forwards
    BY <2>3, InvisibleSteps
  <2>4. QED
    BY <1>3, <2>1, <2>2, <2>3, WorkerFrame
<1>4. CASE DeleteExpired
  BY <1>4, DeleteStep DEF LifecycleStep
<1>5. CASE Tick \/ UNCHANGED vars
  BY <1>5, InvisibleSteps DEF vars
<1>6. QED
  BY <1>1, <1>2, <1>3, <1>4, <1>5 DEF Next

(* The pipeline implements the lifecycle its owner sees: outcomes belong   *)
(* to the attempt in flight, a forward fails for now only with attempts    *)
(* left, and what is over stays over until its owner retries it.           *)
THEOREM PipelineImplementsLifecycle ==
    ASSUME NobodyAbandons PROVE Spec => ImplementsLifecycle
<1>1. Init => ExclusionInv /\ AbsentIsNew
  <2>1. Init => AbsentIsNew
    BY DeletedFields DEF Init, AbsentIsNew
  <2>2. QED
    BY <2>1, InitExclusion
<1>2. (ExclusionInv /\ AbsentIsNew) /\ [Next]_vars
         => (ExclusionInv /\ AbsentIsNew)'
  <2>1. ExclusionInv => RowInv
    BY DEF ExclusionInv, AgeInv
  <2>2. QED
    BY <2>1, NextExclusion, NextAbsent
<1>3. ExclusionInv /\ AbsentIsNew /\ [Next]_vars => LifecycleStep
  BY NextLifecycle
<1>4. QED
  BY <1>1, <1>2, <1>3, InitLifecycle, PTL
     DEF Spec, ImplementsLifecycle, Lifecycle!Spec, LifecycleStep
==============================================================================
