----------------------------- MODULE MCDecisions -----------------------------
(***************************************************************************)
(* The pure decisions: how often a forward is attempted, and how a webhook *)
(* is judged and labelled when it is captured.  A behaviour shows one of   *)
(* them, its subject.                                                      *)
(***************************************************************************)
EXTENDS RetrySchedule, InboundWebhook

VARIABLE subject

Simplest == {Compose(s, <<"current">>, b) : s \in {x \in Senders : x.provider = "n8n"},
                                            b \in {x \in Body : x.text = "b"}}

vars == <<subject, retryVars, inboundVars>>

Init == \/ /\ subject = "webhook"
           /\ RetryInit /\ answer.http_status = 200
           /\ InboundInit
        \/ /\ subject = "forward"
           /\ endpoint = [provider |-> "none", key |-> "unset"]
           /\ InboundInit /\ delivery = CHOOSE d \in Simplest : TRUE
           /\ RetryInit

Next == \/ subject = "forward" /\ RetryNext /\ UNCHANGED <<subject, inboundVars>>
        \/ subject = "webhook" /\ InboundNext /\ UNCHANGED <<subject, retryVars>>

Spec == Init /\ [][Next]_vars

(* The code's own tables. *)
Backoffs == <<30, 120, 600, 3600, 14400>>
Offsets == <<0, 30, 150, 750, 4350>>

(* A captured webhook has one of the four statuses of base.py:5-18 and at  *)
(* most one of the nine integrations, and an attempt is a numbered one.    *)
TypeOK == InboundTypeOK /\ attempt \in Nat /\ status \in {"in_flight", "succeeded", "dead"}
==============================================================================
