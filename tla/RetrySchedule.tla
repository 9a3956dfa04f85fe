---------------------------- MODULE RetrySchedule ----------------------------
(***************************************************************************)
(* One forward, attempted as often as the decision asks for, by a receiver *)
(* that may answer each attempt with any HTTP status or not at all.  The   *)
(* machine keeps what the receiver's owner can observe (how many attempts, *)
(* how long after the first one) and compares it with the contract         *)
(* published in docs/integrations/verifying-forwards.md.                   *)
(***************************************************************************)
EXTENDS ForwardDecision

CONSTANT DocumentedOffsets  \* seconds from attempt 1 to attempt n, as documented

VARIABLES attempt,   \* attempts sent so far
          elapsed,   \* delay between the first attempt and the current one
          answer,    \* how the receiver answered the current attempt
          status     \* what the row says after it

retryVars == <<attempt, elapsed, answer, status>>

Answers == [http_status : HttpStatuses \ {NoStatus}, network_error : {FALSE}]
             \cup {[http_status |-> NoStatus, network_error |-> TRUE]}

RetryInit == /\ attempt = 1 /\ elapsed = 0
             /\ answer \in Answers
             /\ status = "in_flight"

Outcome == Decide(attempt, answer.http_status, answer.network_error)

Settle == /\ status = "in_flight"
          /\ Outcome.next_status # "failed"
          /\ status' = Outcome.next_status
          /\ UNCHANGED <<attempt, elapsed, answer>>

Retry == /\ status = "in_flight"
         /\ Outcome.next_status = "failed"
         /\ attempt' = attempt + 1
         /\ elapsed' = elapsed + Outcome.defer
         /\ answer' \in Answers
         /\ UNCHANGED status

RetryNext == Settle \/ Retry

(* verifying-forwards.md:89-107: at most five attempts, each at its        *)
(* documented distance from the first; the forward succeeds exactly when   *)
(* the last answer is a 2xx, and dies before the fifth attempt only on an  *)
(* answer outside the documented retryable list (decide, lines 37-52).     *)
PublishedSchedule ==
    /\ attempt \in DOMAIN DocumentedOffsets
    /\ elapsed = DocumentedOffsets[attempt]
    /\ status = "succeeded" => answer.http_status \div 100 = 2
    /\ (status = "dead" /\ attempt < Len(DocumentedOffsets)) =>
          /\ ~answer.network_error
          /\ answer.http_status \notin
                {408, 425, 429, 500, 502, 503, 504, 507, 508}
==============================================================================
