--------------------------- MODULE ForwardDecision ---------------------------
(***************************************************************************)
(* The retry decision of a forward attempt                                 *)
(* (application/use_cases/forward_decision.py) and the backoff table it    *)
(* reads (domain/entities/forward.py).  A pure function: the worker calls  *)
(* it between the HTTP phase and the record phase of an attempt.           *)
(***************************************************************************)
EXTENDS Integers, Sequences

CONSTANT RetryBackoffs   \* RETRY_BACKOFFS: the delay before each retry

ASSUME RetryBackoffsAssumption ==
    /\ RetryBackoffs \in Seq(Nat)
    /\ Len(RetryBackoffs) >= 1

MaxAttempts == Len(RetryBackoffs)

(* Every job is scheduled with a delay of 0 (capture, manual retry,        *)
(* redrive) or with one of the backoffs.                                   *)
Defers == {0} \cup {RetryBackoffs[i] : i \in 1..MaxAttempts}

NoStatus == 0            \* http_status is None: the request got no response
HttpStatuses == {NoStatus} \cup 100..599

RetryableStatus == {408, 425, 429, 500, 502, 503, 504, 507, 508}

Succeeds(http_status, network_error) ==
    ~network_error /\ http_status \in 200..299

Retryable(http_status, network_error) ==
    network_error \/ http_status \in RetryableStatus

(* The attempt that just finished is number attempt_count, counted from 1. *)
Decision == [next_status : {"succeeded", "failed", "dead"}, defer : Defers]

DecideLateBackoff(attempt_count, http_status, network_error) ==
    CASE Succeeds(http_status, network_error) ->
            [next_status |-> "succeeded", defer |-> 0]
      [] /\ Retryable(http_status, network_error)
         /\ attempt_count < MaxAttempts ->
            [next_status |-> "failed", defer |-> RetryBackoffs[attempt_count + 1]]
      [] OTHER -> [next_status |-> "dead", defer |-> 0]

DecideOffByOne(attempt_count, http_status, network_error) ==
    CASE Succeeds(http_status, network_error) ->
            [next_status |-> "succeeded", defer |-> 0]
      [] /\ Retryable(http_status, network_error)
         /\ attempt_count <= MaxAttempts ->
            [next_status |-> "failed", defer |-> RetryBackoffs[attempt_count]]
      [] OTHER -> [next_status |-> "dead", defer |-> 0]

Decide(attempt_count, http_status, network_error) ==
    CASE Succeeds(http_status, network_error) ->
            [next_status |-> "succeeded", defer |-> 0]
      [] /\ Retryable(http_status, network_error)
         /\ attempt_count < MaxAttempts ->
            [next_status |-> "failed", defer |-> RetryBackoffs[attempt_count]]
      [] OTHER -> [next_status |-> "dead", defer |-> 0]
==============================================================================
