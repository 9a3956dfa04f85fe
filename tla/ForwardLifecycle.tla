-------------------------- MODULE ForwardLifecycle --------------------------
(***************************************************************************)
(* What the forward pipeline promises about a forward, without workers,    *)
(* queue, transactions or time: the states its owner sees in the forwards  *)
(* tab and the steps between them.  An outcome belongs to the attempt that *)
(* is in flight, and a forward that succeeded, died or was abandoned stays *)
(* so until its owner retries it or its endpoint expires.                  *)
(***************************************************************************)
EXTENDS Naturals

CONSTANTS Forwards, MaxAttempts

VARIABLE state   \* [status, attempt] of each forward

Become(f, status, attempt) ==
    state' = [state EXCEPT ![f] = [status |-> status, attempt |-> attempt]]

Init == state = [f \in Forwards |-> [status |-> "absent", attempt |-> 0]]

Accept(f) == /\ state[f].status = "absent"
             /\ Become(f, "pending", 0)

Attempt(f) == /\ state[f].status \in {"pending", "failed"}
              /\ Become(f, "in_flight", state[f].attempt + 1)

Settle(f) == /\ state[f].status = "in_flight"
             /\ \E outcome \in {"succeeded", "dead"} :
                   Become(f, outcome, state[f].attempt)

FailForNow(f) == /\ state[f].status = "in_flight"
                 /\ state[f].attempt < MaxAttempts
                 /\ Become(f, "failed", state[f].attempt)

(* Attempts whose worker is gone are given up, at whatever count.          *)
GiveUp(S) == /\ \A f \in S : state[f].status = "in_flight"
             /\ state' = [f \in Forwards |->
                            IF f \in S THEN [state[f] EXCEPT !.status = "failed"]
                            ELSE state[f]]

OwnerRetries(f) ==
    \/ /\ state[f].status = "failed"
       /\ Become(f, "pending", state[f].attempt)
    \/ /\ state[f].status \in {"dead", "abandoned"}
       /\ Become(f, "pending", MaxAttempts - 1)

OwnerAbandons(f) == /\ state[f].status \in {"pending", "in_flight", "failed"}
                    /\ Become(f, "abandoned", state[f].attempt)

Expire == state' = [f \in Forwards |-> [status |-> "deleted", attempt |-> 0]]

Next == \/ \E f \in Forwards : \/ Accept(f) \/ Attempt(f) \/ Settle(f)
                               \/ FailForNow(f) \/ OwnerRetries(f)
                               \/ OwnerAbandons(f)
        \/ \E S \in SUBSET Forwards : GiveUp(S)
        \/ Expire

Spec == Init /\ [][Next]_state
=============================================================================
