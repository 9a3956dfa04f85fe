-------------------------- MODULE ForwardRepository --------------------------
(***************************************************************************)
(* The forwards table: one operator per SQL statement of                   *)
(* infrastructure/repositories/forward_repository.py.  X_Where is the      *)
(* statement's WHERE clause, X_Set the row its VALUES leave behind.  All   *)
(* statements are single UPDATEs, so on a committed row each is atomic.    *)
(*                                                                         *)
(* A row keeps what some statement reads again: the timestamps are kept as *)
(* their distance from now, saturated one past the threshold they are      *)
(* compared with.  last_attempt_at, manual_retry_at, final_error and       *)
(* final_status_code are written and shown but never read by a statement.  *)
(***************************************************************************)
EXTENDS ForwardDecision

CONSTANTS
    StuckPending,    \* STUCK_PENDING_THRESHOLD_SECONDS
    StuckInFlight    \* STUCK_IN_FLIGHT_THRESHOLD_SECONDS

ASSUME ThresholdsAssumption == StuckPending \in Nat /\ StuckInFlight \in Nat

Statuses == {"pending", "in_flight", "succeeded", "failed", "dead", "abandoned"}
Terminal == {"succeeded", "dead", "abandoned"}

Row == [status        : Statuses \cup {"absent", "deleted"},
        attempt_count : Nat,
        created_age   : 0..(StuckPending + 1),   \* now - created_at
        started_age   : 0..(StuckInFlight + 1),  \* now - forward_started_at,
                                                 \* read only while in_flight
        next_at       : BOOLEAN,      \* next_attempt_at IS NOT NULL
        completed     : BOOLEAN]      \* forward_completed_at IS NOT NULL

Exists(r) == r.status \in Statuses

(* Forward.create as save() inserts it.  Every statement that sets         *)
(* next_attempt_at sets it to the current time, so `next_attempt_at <=     *)
(* now' is true of every row on which it is not null, at once and for good.*)
Created == [status |-> "pending", attempt_count |-> 0, created_age |-> 0,
            started_age |-> 0, next_at |-> TRUE, completed |-> FALSE]

AbsentRow == [Created EXCEPT !.status = "absent"]

(* claim_for_attempt.  age: how long before the commit of TX1 the worker   *)
(* read the clock (execute_forward.py:156).                                *)
ClaimForAttempt_WhereInFlight(r) == r.status \in {"pending", "failed", "in_flight"}

ClaimForAttempt_WherePending(r) == r.status = "pending"

ClaimForAttempt_Where(r) == r.status \in {"pending", "failed"}

ClaimForAttempt_Set(r, age) ==
    [r EXCEPT !.status = "in_flight",
              !.attempt_count = @ + 1,
              !.started_age = age]

(* record_outcome: the WHERE clause names the id and nothing else.         *)
RecordOutcome_Where(r) == Exists(r)

RecordOutcome_SetStatusOnly(r, next_status) ==
    [r EXCEPT !.status = next_status,
              !.started_age = 0,
              !.next_at = next_status = "failed"]

RecordOutcome_SetNoNextAttempt(r, next_status) ==
    [r EXCEPT !.status = next_status,
              !.started_age = 0,
              !.next_at = FALSE,
              !.completed = next_status \in {"succeeded", "dead"}]

RecordOutcome_Set(r, next_status) ==
    [r EXCEPT !.status = next_status,
              !.started_age = 0,
              !.next_at = next_status = "failed",
              !.completed = next_status \in {"succeeded", "dead"}]

(* claim_for_manual_retry                                                  *)
ManualRetry_WhereNotSucceeded(r) == Exists(r) /\ r.status # "succeeded"

ManualRetry_Where(r) == r.status \in {"failed", "dead", "abandoned"}

ManualRetry_SetFromZero(r) ==
    [r EXCEPT !.status = "pending",
              !.attempt_count = IF r.status \in {"dead", "abandoned"}
                                THEN 0 ELSE @,
              !.next_at = TRUE,
              !.completed = FALSE]

ManualRetry_Set(r) ==
    [r EXCEPT !.status = "pending",
              !.attempt_count = IF r.status \in {"dead", "abandoned"}
                                THEN MaxAttempts - 1 ELSE @,
              !.next_at = TRUE,
              !.completed = FALSE]

(* abandon                                                                 *)
Abandon_Where(r) == Exists(r) /\ r.status \notin Terminal

Abandon_Set(r) == [r EXCEPT !.status = "abandoned",
                            !.started_age = 0,
                            !.completed = TRUE]

(* reclaim_stuck_in_flight: strictly older than the threshold.             *)
Reclaim_WhereFresh(r) == r.status = "in_flight"

Reclaim_Where(r) == r.status = "in_flight" /\ r.started_age > StuckInFlight

Reclaim_SetRefund(r) == [r EXCEPT !.status = "failed",
                                  !.attempt_count = @ - 1,
                                  !.started_age = 0,
                                  !.next_at = TRUE]

Reclaim_Set(r) == [r EXCEPT !.status = "failed",
                            !.started_age = 0,
                            !.next_at = TRUE]

(* list_overdue_failed and redrive_stuck_pending: reads, no change.        *)
OverdueFailed_Where(r) == r.status = "failed" /\ r.next_at

StuckPending_Where(r) == r.status = "pending" /\ r.created_age > StuckPending

(* One unit of time passes over a row; created_at is set by the handler    *)
(* that inserts the row, before it is visible.                             *)
Older(n, cap) == IF n < cap THEN n + 1 ELSE n

Aged(r) == [r EXCEPT !.created_age = Older(@, StuckPending + 1),
                     !.started_age = IF r.status = "in_flight"
                                     THEN Older(@, StuckInFlight + 1) ELSE @]
==============================================================================
