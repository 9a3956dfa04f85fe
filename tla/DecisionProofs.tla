--------------------------- MODULE DecisionProofs ---------------------------
(***************************************************************************)
(* The pure decisions, for every table of back-offs, size of body and      *)
(* number of changes on the way.  RetryInv follows one forward.            *)
(* InboundInv says what a delivery still owes to its sender; the rest is   *)
(* an argument about the tables of validators and detectors.               *)
(***************************************************************************)
EXTENDS MCDecisions, TLAPS

-----------------------------------------------------------------------------
(* The retries.                                                            *)

(* What the documentation publishes adds up to the back-offs.              *)
AddsUp(backoffs, offsets) ==
    /\ offsets \in Seq(Nat) /\ Len(offsets) = Len(backoffs)
    /\ offsets[1] = 0
    /\ \A n \in 1 .. Len(backoffs) - 1 : offsets[n + 1] = offsets[n] + backoffs[n]

RetryInv ==
    /\ attempt \in 1 .. MaxAttempts
    /\ elapsed = DocumentedOffsets[attempt]
    /\ answer \in Answers
    /\ status \in {"in_flight", "succeeded", "dead"}
    /\ status = "succeeded" => Succeeds(answer.http_status, answer.network_error)
    /\ (status = "dead" /\ attempt < MaxAttempts)
         => ~Retryable(answer.http_status, answer.network_error)

(* The table of the code and the one it publishes (forward.py:12,          *)
(* verifying-forwards.md:89-107) add up.                                   *)
LEMMA PublishedTablesAddUp == AddsUp(Backoffs, Offsets)
<1>1. Offsets \in Seq(Nat) /\ Len(Backoffs) = 5 /\ Len(Offsets) = 5 /\ Offsets[1] = 0
  BY DEF Backoffs, Offsets
<1>2. \A n \in 1 .. 4 : Offsets[n + 1] = Offsets[n] + Backoffs[n]
  BY DEF Backoffs, Offsets
<1>3. QED
  BY <1>1, <1>2 DEF AddsUp

(* What the decision is, by the answer and the number of the attempt.      *)
LEMMA Decisions ==
    ASSUME NEW n \in 1 .. MaxAttempts, NEW a \in Answers
    PROVE  LET d == Decide(n, a.http_status, a.network_error) IN
             /\ d.next_status \in {"succeeded", "failed", "dead"}
             /\ d.next_status = "succeeded" => Succeeds(a.http_status, a.network_error)
             /\ d.next_status = "failed" => n < MaxAttempts /\ d.defer = RetryBackoffs[n]
             /\ d.next_status = "dead"
                  => n = MaxAttempts \/ ~Retryable(a.http_status, a.network_error)
<1>1. MaxAttempts \in Nat
  BY RetryBackoffsAssumption DEF MaxAttempts
<1>2. CASE Succeeds(a.http_status, a.network_error)
  BY <1>2 DEF Decide
<1>3. CASE ~Succeeds(a.http_status, a.network_error)
           /\ Retryable(a.http_status, a.network_error) /\ n < MaxAttempts
  BY <1>3 DEF Decide
<1>4. CASE ~Succeeds(a.http_status, a.network_error)
           /\ ~(Retryable(a.http_status, a.network_error) /\ n < MaxAttempts)
  BY <1>1, <1>4 DEF Decide
<1>5. QED
  BY <1>2, <1>3, <1>4

(* Every attempt keeps to its published distance from the first.           *)
LEMMA RetryKeepsInv ==
    ASSUME AddsUp(RetryBackoffs, DocumentedOffsets)
    PROVE  /\ RetryInit => RetryInv
           /\ RetryInv /\ [RetryNext]_retryVars => RetryInv'
<1>1. MaxAttempts \in Nat /\ MaxAttempts >= 1
  BY RetryBackoffsAssumption DEF MaxAttempts
<1>2. RetryInit => RetryInv
  BY <1>1 DEF RetryInit, RetryInv, AddsUp
<1>3. ASSUME RetryInv, Settle PROVE RetryInv'
  <2>1. UNCHANGED <<attempt, elapsed, answer>> /\ status' = Outcome.next_status
        /\ Outcome.next_status # "failed"
    BY <1>3 DEF Settle
  <2>2. QED
    BY <1>1, <1>3, <2>1, Decisions DEF RetryInv, Outcome
<1>4. ASSUME RetryInv, Retry PROVE RetryInv'
  <2>1. attempt < MaxAttempts /\ Outcome.defer = RetryBackoffs[attempt]
    BY <1>4, Decisions DEF RetryInv, Outcome, Retry
  <2>2. attempt + 1 \in 1 .. MaxAttempts
    BY <1>1, <1>4, <2>1 DEF RetryInv
  <2>3. elapsed' = DocumentedOffsets[attempt + 1]
    BY <1>1, <1>4, <2>1 DEF Retry, RetryInv, AddsUp, MaxAttempts
  <2>4. QED
    BY <1>4, <2>2, <2>3 DEF Retry, RetryInv
<1>5. ASSUME RetryInv, UNCHANGED retryVars PROVE RetryInv'
  BY <1>5 DEF RetryInv, retryVars
<1>6. QED
  BY <1>2, <1>3, <1>4, <1>5 DEF RetryNext

(* The invariant is the published contract.                                *)
LEMMA RetryInvPublishes ==
    ASSUME AddsUp(RetryBackoffs, DocumentedOffsets), RetryInv
    PROVE  PublishedSchedule
<1>1. DOMAIN DocumentedOffsets = 1 .. MaxAttempts /\ Len(DocumentedOffsets) = MaxAttempts
  BY DEF AddsUp, MaxAttempts
<1>2. \A code \in 200 .. 299 : code \div 100 = 2
  OBVIOUS
<1>3. attempt \in DOMAIN DocumentedOffsets /\ elapsed = DocumentedOffsets[attempt]
  BY <1>1 DEF RetryInv
<1>4. status = "succeeded" => answer.http_status \div 100 = 2
  BY <1>2 DEF RetryInv, Succeeds
<1>5. (status = "dead" /\ attempt < MaxAttempts) =>
        ~answer.network_error /\ answer.http_status \notin RetryableStatus
  BY DEF RetryInv, Retryable
<1>6. QED
  BY <1>1, <1>3, <1>4, <1>5 DEF PublishedSchedule, RetryableStatus

-----------------------------------------------------------------------------
(* The webhook.                                                            *)

(* What the sender signed, and its signatures.                             *)
AsSent == [timestamp |-> "t", body |-> [text |-> "b"]]

Signed(sender, keys) ==
    [i \in DOMAIN keys |-> Digest(keys[i], sender.alg, Covered(AsSent, sender.covers))]

(* What relays may make of a webhook: they add no signature.               *)
Relayed(sender, keys) ==
    [headers : SUBSET (Marks \cup ({sender.header} \ {"form"})),
     form : SUBSET (IF sender.header = "form" THEN FormFields ELSE {}),
     timestamp : {"t", "t'"}, body : Body, value : {"whole", "cut", "garbled"},
     signatures : {Signed(sender, keys)}, zapier_agent : BOOLEAN]

DeliveryInv ==
    /\ endpoint \in [provider : Providers \cup {"none"}, key : {"same", "rotated", "unset"}]
    /\ sent.sender \in Senders /\ sent.keys \in KeyRings(sent.sender)
    /\ delivery \in Relayed(sent.sender, sent.keys)
    /\ sent.sender.provider = "zapier" => delivery.zapier_agent
    /\ hops \in 0 .. MaxHops

(* A captured webhook is judged and labelled as it arrived.                *)
RowInv ==
    \/ row = NoRow
    \/ row.pc = "lost" /\ row.signature_status = "none" /\ row.integration = "none"
    \/ /\ row.pc = "captured"
       /\ row.signature_status = SignatureStatus(endpoint, delivery)
       /\ row.signature_status # "raises"
       /\ row.integration = DetectIntegration(delivery)

InboundInv == DeliveryInv /\ RowInv

(* The nine of the detectors' table, in their order.                       *)
LEMMA DetectorTable ==
    /\ DOMAIN Detectors = 1 .. 9
    /\ Detectors[1] = "stripe" /\ Detectors[2] = "github" /\ Detectors[3] = "shopify"
    /\ Detectors[4] = "twilio" /\ Detectors[5] = "mailgun" /\ Detectors[6] = "discord"
    /\ Detectors[7] = "slack" /\ Detectors[8] = "n8n" /\ Detectors[9] = "zapier"
    /\ Providers = {"stripe", "github", "shopify", "twilio", "mailgun", "discord", "slack",
                    "n8n", "zapier"}
<1>1. DOMAIN Detectors = 1 .. 9
  BY DEF Detectors
<1>2. /\ Detectors[1] = "stripe" /\ Detectors[2] = "github" /\ Detectors[3] = "shopify"
      /\ Detectors[4] = "twilio" /\ Detectors[5] = "mailgun" /\ Detectors[6] = "discord"
      /\ Detectors[7] = "slack" /\ Detectors[8] = "n8n" /\ Detectors[9] = "zapier"
  BY DEF Detectors
<1>3. Providers = {Detectors[k] : k \in 1 .. 9}
  BY <1>1 DEF Providers, Range
<1>4. QED
  BY <1>1, <1>2, <1>3

(* A sender of the table, field by field.                                  *)
IsSender(s, provider, header, marks, alg, covers) ==
    /\ s.provider = provider /\ s.header = header /\ s.marks = marks
    /\ s.alg = alg /\ s.covers = covers

(* The senders, one by one.                                                *)
LEMMA SenderTable ==
    ASSUME NEW s \in Senders
    PROVE  \/ IsSender(s, "stripe", "stripe-signature", {}, "sha256-hex", {"timestamp", "body"})
           \/ IsSender(s, "github", "x-hub-signature-256", {"x-github-event", "x-github-delivery"},
                          "sha256-hex", {"body"})
           \/ IsSender(s, "shopify", "x-shopify-hmac-sha256",
                        {"x-shopify-topic", "x-shopify-shop-domain"},
                          "sha256-base64", {"body"})
           \/ IsSender(s, "twilio", "x-twilio-signature", {}, "sha1-base64", {"body"})
           \/ IsSender(s, "twilio", "x-twilio-signature", {}, "sha1-base64", {"url", "body"})
           \/ IsSender(s, "mailgun", "form", {"form-content-type"},
                          "sha256-hex", {"timestamp", "token"})
           \/ IsSender(s, "mailgun", "x-mailgun-signature-v2", {},
                          "sha256-hex", {"timestamp", "token"})
           \/ IsSender(s, "discord", "x-signature-ed25519", {"x-signature-timestamp"},
                          "ed25519", {"timestamp", "body"})
           \/ IsSender(s, "slack", "x-slack-signature", {"x-slack-request-timestamp"},
                          "sha256-hex", {"timestamp", "body"})
           \/ IsSender(s, "n8n", "x-n8n-signature", {}, "sha256-hex", {"body"})
           \/ IsSender(s, "zapier", "x-hook-signature", {}, "sha256-hex", {"body"})
<1>1. \/ s = Sends("stripe", "stripe-signature", {}, "sha256-hex", {"timestamp", "body"})
      \/ s = Sends("github", "x-hub-signature-256", {"x-github-event", "x-github-delivery"},
                   "sha256-hex", {"body"})
      \/ s = Sends("shopify", "x-shopify-hmac-sha256",
                        {"x-shopify-topic", "x-shopify-shop-domain"},
                   "sha256-base64", {"body"})
      \/ s = Sends("twilio", "x-twilio-signature", {}, "sha1-base64", {"body"})
      \/ s = Sends("twilio", "x-twilio-signature", {}, "sha1-base64", {"url", "body"})
      \/ s = Sends("mailgun", "form", {"form-content-type"},
                   "sha256-hex", {"timestamp", "token"})
      \/ s = Sends("mailgun", "x-mailgun-signature-v2", {},
                   "sha256-hex", {"timestamp", "token"})
      \/ s = Sends("discord", "x-signature-ed25519", {"x-signature-timestamp"},
                   "ed25519", {"timestamp", "body"})
      \/ s = Sends("slack", "x-slack-signature", {"x-slack-request-timestamp"},
                   "sha256-hex", {"timestamp", "body"})
      \/ s = Sends("n8n", "x-n8n-signature", {}, "sha256-hex", {"body"})
      \/ s = Sends("zapier", "x-hook-signature", {}, "sha256-hex", {"body"})
  BY DEF Senders
<1>2. ASSUME NEW provider, NEW header, NEW marks, NEW alg, NEW covers,
             s = Sends(provider, header, marks, alg, covers)
      PROVE  IsSender(s, provider, header, marks, alg, covers)
  BY <1>2 DEF Sends, IsSender
<1>3. QED
  BY <1>1, <1>2

(* No mark is the header of a signature.                                   *)
LEMMA MarkTable ==
    Marks \subseteq
      {"x-github-event", "x-github-delivery", "x-shopify-topic", "x-shopify-shop-domain",
       "form-content-type", "x-signature-timestamp", "x-slack-request-timestamp"}
<1>1. \A m : m \in Marks <=> \E s \in Senders : m \in s.marks
  BY DEF Marks
<1>2. \A s \in Senders : s.marks \subseteq
        {"x-github-event", "x-github-delivery", "x-shopify-topic", "x-shopify-shop-domain",
         "form-content-type", "x-signature-timestamp", "x-slack-request-timestamp"}
  <2> SUFFICES ASSUME NEW s \in Senders
               PROVE  s.marks \subseteq
        {"x-github-event", "x-github-delivery", "x-shopify-topic", "x-shopify-shop-domain",
         "form-content-type", "x-signature-timestamp", "x-slack-request-timestamp"}
    OBVIOUS
  <2>1. \/ s.marks = {} \/ s.marks = {"x-github-event", "x-github-delivery"}
        \/ s.marks = {"x-shopify-topic", "x-shopify-shop-domain"}
        \/ s.marks = {"form-content-type"} \/ s.marks = {"x-signature-timestamp"}
        \/ s.marks = {"x-slack-request-timestamp"}
    BY SenderTable DEF IsSender
  <2>2. QED
    BY <2>1
<1>3. QED
  BY <1>1, <1>2

(* What a relay leaves of the headers: the one of a signature tells who    *)
(* signed.                                                                 *)
LEMMA HeadersTell ==
    ASSUME DeliveryInv
    PROVE  LET h == delivery.headers
               p == sent.sender.provider
           IN /\ "stripe-signature" \in h => p = "stripe"
              /\ "x-hub-signature-256" \in h => p = "github"
              /\ "x-shopify-hmac-sha256" \in h => p = "shopify"
              /\ "x-twilio-signature" \in h => p = "twilio"
              /\ "x-mailgun-signature-v2" \in h => p = "mailgun"
              /\ "x-signature-ed25519" \in h => p = "discord"
              /\ "x-slack-signature" \in h => p = "slack"
              /\ "x-n8n-signature" \in h => p = "n8n"
              /\ "x-hook-signature" \in h => p = "zapier"
              /\ delivery.form = FormFields => p = "mailgun"
<1>1. delivery.headers \subseteq Marks \cup {sent.sender.header}
  BY DEF DeliveryInv, Relayed
<1>2. delivery.form = FormFields => sent.sender.header = "form"
  BY DEF DeliveryInv, Relayed, FormFields
<1>3. sent.sender \in Senders
  BY DEF DeliveryInv
<1>4. LET h == sent.sender.header
          p == sent.sender.provider
      IN /\ h = "stripe-signature" => p = "stripe"
         /\ h = "x-hub-signature-256" => p = "github"
         /\ h = "x-shopify-hmac-sha256" => p = "shopify"
         /\ h = "x-twilio-signature" => p = "twilio"
         /\ h \in {"form", "x-mailgun-signature-v2"} => p = "mailgun"
         /\ h = "x-signature-ed25519" => p = "discord"
         /\ h = "x-slack-signature" => p = "slack"
         /\ h = "x-n8n-signature" => p = "n8n"
         /\ h = "x-hook-signature" => p = "zapier"
  BY <1>3, SenderTable DEF IsSender
<1>5. QED
  BY <1>1, <1>2, <1>4, MarkTable

(* A webhook leaves its sender with what its sender signed.                *)
LEMMA ComposedIsRelayed ==
    ASSUME NEW s \in Senders, NEW keys, NEW b \in Body, b.text = "b"
    PROVE  Compose(s, keys, b) \in Relayed(s, keys)
<1> DEFINE unsigned == [timestamp |-> "t", body |-> b]
<1>1. Covered(unsigned, s.covers) = Covered(AsSent, s.covers)
  BY DEF Covered, AsSent
<1>2. [i \in DOMAIN keys |-> Digest(keys[i], s.alg, Covered(unsigned, s.covers))]
        = Signed(s, keys)
  BY <1>1 DEF Signed
<1>3. s.marks \subseteq Marks
  BY DEF Marks
<1>4. (s.provider = "zapier") \in BOOLEAN
  OBVIOUS
<1>5. Compose(s, keys, b)
        = [headers |-> s.marks \cup ({s.header} \ {"form"}),
           form |-> IF s.header = "form" THEN FormFields ELSE {},
           timestamp |-> "t", body |-> b, value |-> "whole",
           signatures |-> Signed(s, keys), zapier_agent |-> s.provider = "zapier"]
  BY <1>2 DEF Compose
<1>6. QED
  BY <1>3, <1>4, <1>5 DEF Relayed

(* A relay keeps to what relays may do.                                    *)
LEMMA RelayKeepsRelayed ==
    ASSUME NEW sender, NEW keys, NEW d \in Relayed(sender, keys)
    PROVE  /\ \A h : [d EXCEPT !.headers = d.headers \ {h}] \in Relayed(sender, keys)
           /\ \A h \in Marks : [d EXCEPT !.headers = d.headers \cup {h}] \in Relayed(sender, keys)
           /\ \A f : [d EXCEPT !.form = d.form \ {f}] \in Relayed(sender, keys)
           /\ [d EXCEPT !.body = [d.body EXCEPT !.text = "b'"]] \in Relayed(sender, keys)
           /\ [d EXCEPT !.timestamp = "t'"] \in Relayed(sender, keys)
           /\ \A v \in {"cut", "garbled"} : [d EXCEPT !.value = v] \in Relayed(sender, keys)
           /\ [d EXCEPT !.zapier_agent = TRUE] \in Relayed(sender, keys)
<1>1. \A h : [d EXCEPT !.headers = d.headers \ {h}] \in Relayed(sender, keys)
  BY DEF Relayed
<1>2. \A h \in Marks : [d EXCEPT !.headers = d.headers \cup {h}] \in Relayed(sender, keys)
  BY DEF Relayed
<1>3. \A f : [d EXCEPT !.form = d.form \ {f}] \in Relayed(sender, keys)
  BY DEF Relayed
<1>4. [d EXCEPT !.body = [d.body EXCEPT !.text = "b'"]] \in Relayed(sender, keys)
  <2>1. [d.body EXCEPT !.text = "b'"] \in Body
    BY DEF Relayed, Body
  <2>2. QED
    BY <2>1 DEF Relayed
<1>5. [d EXCEPT !.timestamp = "t'"] \in Relayed(sender, keys)
  BY DEF Relayed
<1>6. \A v \in {"cut", "garbled"} : [d EXCEPT !.value = v] \in Relayed(sender, keys)
  BY DEF Relayed
<1>7. [d EXCEPT !.zapier_agent = TRUE] \in Relayed(sender, keys)
  BY DEF Relayed
<1>8. QED
  BY <1>1, <1>2, <1>3, <1>4, <1>5, <1>6, <1>7

(* The user agent of Zapier is not taken away.                             *)
LEMMA RelayKeepsAgent ==
    ASSUME NEW sender, NEW keys, NEW d \in Relayed(sender, keys), d.zapier_agent
    PROVE  /\ \A x : [d EXCEPT !.headers = x].zapier_agent
           /\ \A x : [d EXCEPT !.form = x].zapier_agent
           /\ \A x : [d EXCEPT !.body = x].zapier_agent
           /\ \A x : [d EXCEPT !.timestamp = x].zapier_agent
           /\ \A x : [d EXCEPT !.value = x].zapier_agent
           /\ [d EXCEPT !.zapier_agent = TRUE].zapier_agent
BY DEF Relayed

(* The invariant holds of a webhook that leaves, and on its way.           *)
LEMMA InitInbound == InboundInit => InboundInv
<1> SUFFICES ASSUME InboundInit PROVE InboundInv
  OBVIOUS
<1>0. PICK s \in Senders, b \in Body :
        /\ b.text = "b"
        /\ \E k \in KeyRings(s) : sent = [sender |-> s, keys |-> k] /\ delivery = Compose(s, k, b)
  BY DEF InboundInit
<1>1. PICK k \in KeyRings(s) : sent = [sender |-> s, keys |-> k] /\ delivery = Compose(s, k, b)
  BY <1>0
<1>2. delivery \in Relayed(s, k)
  BY <1>0, <1>1, ComposedIsRelayed
<1>3. s.provider = "zapier" => delivery.zapier_agent
  BY <1>1 DEF Compose
<1>4. 0 \in 0 .. MaxHops
  BY InboundAssumption DEF InboundAssumption
<1>5. QED
  BY <1>1, <1>2, <1>3, <1>4 DEF InboundInit, InboundInv, DeliveryInv, RowInv

(* It is kept by every relay, and by the capture.                          *)
LEMMA InboundNextKeepsInv == InboundInv /\ [InboundNext]_inboundVars => InboundInv'
<1> SUFFICES ASSUME InboundInv, [InboundNext]_inboundVars PROVE InboundInv'
  OBVIOUS
<1>1. delivery \in Relayed(sent.sender, sent.keys)
      /\ (sent.sender.provider = "zapier" => delivery.zapier_agent)
  BY DEF InboundInv, DeliveryInv
<1>2. ASSUME NEW changed \in Relayed(sent.sender, sent.keys), Hop(changed),
             delivery.zapier_agent => changed.zapier_agent
      PROVE  InboundInv'
  <2>1. hops' \in 0 .. MaxHops
    BY <1>2, InboundAssumption DEF Hop, InboundAssumption, InboundInv, DeliveryInv
  <2>2. row = NoRow /\ row' = row
    BY <1>2 DEF Hop, InboundInv, RowInv
  <2>3. DeliveryInv'
    BY <1>1, <1>2, <2>1 DEF Hop, InboundInv, DeliveryInv
  <2>4. QED
    BY <2>2, <2>3 DEF InboundInv, RowInv
<1>3. CASE Relay
  BY <1>1, <1>2, <1>3, RelayKeepsRelayed, RelayKeepsAgent DEF Relay
<1>4. CASE CaptureWebhook
  <2>1. DeliveryInv'
    BY <1>4 DEF CaptureWebhook, InboundInv, DeliveryInv
  <2>2. CASE SignatureStatus(endpoint, delivery) = "raises"
    <3>1. row' = [NoRow EXCEPT !.pc = "lost"]
      BY <1>4, <2>2 DEF CaptureWebhook
    <3>2. row'.pc = "lost" /\ row'.signature_status = "none" /\ row'.integration = "none"
      BY <3>1 DEF NoRow
    <3>3. QED
      BY <2>1, <3>2 DEF InboundInv, RowInv
  <2>3. CASE SignatureStatus(endpoint, delivery) # "raises"
    <3>1. /\ row'.pc = "captured" /\ row'.signature_status = SignatureStatus(endpoint, delivery)
          /\ row'.integration = DetectIntegration(delivery)
          /\ UNCHANGED <<endpoint, delivery>>
      BY <1>4, <2>3 DEF CaptureWebhook
    <3>2. RowInv'
      BY <2>3, <3>1 DEF RowInv
    <3>3. QED
      BY <2>1, <3>2 DEF InboundInv
  <2>4. QED
    BY <2>2, <2>3
<1>5. CASE UNCHANGED inboundVars
  BY <1>5 DEF inboundVars, InboundInv, DeliveryInv, RowInv
<1>6. QED
  BY <1>3, <1>4, <1>5 DEF InboundNext

-----------------------------------------------------------------------------
(* The detectors.                                                          *)

(* The label is that of the first detector that knows the webhook.         *)
LEMMA FirstDetectorLabels ==
    ASSUME NEW d
    PROVE  \/ DetectIntegration(d) = "none" /\ \A k \in 1 .. 9 : ~Evidence(Detectors[k], d)
           \/ \E k \in 1 .. 9 : /\ DetectIntegration(d) = Detectors[k]
                               /\ Evidence(Detectors[k], d)
                               /\ \A j \in 1 .. 9 : Evidence(Detectors[j], d) => k <= j
<1>1. Knowing(d) = {k \in 1 .. 9 : Evidence(Detectors[k], d)}
  BY DetectorTable DEF Knowing
<1>2. CASE Knowing(d) = {}
  BY <1>1, <1>2 DEF DetectIntegration
<1>3. CASE Knowing(d) # {}
  <2>1. \E k \in Knowing(d) : \A j \in Knowing(d) : k <= j
    BY <1>1, <1>3
  <2>2. /\ Min(Knowing(d)) \in Knowing(d)
        /\ \A j \in Knowing(d) : Min(Knowing(d)) <= j
    BY <2>1 DEF Min
  <2>3. DetectIntegration(d) = Detectors[Min(Knowing(d))]
    BY <1>3 DEF DetectIntegration
  <2>4. QED
    BY <1>1, <2>2, <2>3
<1>4. QED
  BY <1>2, <1>3

(* Whoever is known is labelled.                                           *)
LEMMA KnownIsLabelled ==
    ASSUME NEW d, NEW p \in Providers, Evidence(p, d)
    PROVE  DetectIntegration(d) # "none"
<1>1. PICK m \in 1 .. 9 : Detectors[m] = p
  BY DetectorTable
<1>2. \A k \in 1 .. 9 : Detectors[k] # "none"
  BY DetectorTable
<1>3. QED
  BY <1>1, <1>2, FirstDetectorLabels

(* Who else's evidence a delivery may have: that of github and shopify,    *)
(* whose headers are no signatures, and Zapier's user agent.               *)
Others(d) == {s.provider : s \in {x \in Senders : /\ x.provider \in {"github", "shopify"}
                                                 /\ x.marks \subseteq d.headers}}

(* What the detectors look for is the sender's, or another's in full.      *)
LEMMA EvidenceTells ==
    ASSUME DeliveryInv, NEW p \in Providers, Evidence(p, delivery)
    PROVE  p = sent.sender.provider \/ p = "zapier" \/ p \in Others(delivery)
<1>1. CASE p \in {"github", "shopify"}
  <2>1. \A s \in Senders : s.provider \in Providers
    BY SenderTable, DetectorTable DEF IsSender
  <2>2. /\ Sends("github", "x-hub-signature-256", {"x-github-event", "x-github-delivery"},
                 "sha256-hex", {"body"}) \in Senders
        /\ Sends("shopify", "x-shopify-hmac-sha256",
                 {"x-shopify-topic", "x-shopify-shop-domain"}, "sha256-base64", {"body"})
             \in Senders
    BY DEF Senders
  <2>3. \A provider, header, marks, alg, covers :
          /\ Sends(provider, header, marks, alg, covers).provider = provider
          /\ Sends(provider, header, marks, alg, covers).marks = marks
    BY DEF Sends
  <2>4. CASE p = "github"
    <3>1. {"x-github-event", "x-github-delivery"} \subseteq delivery.headers
      BY <2>4 DEF Evidence, Has
    <3>2. QED
      BY <2>2, <2>3, <2>4, <3>1 DEF Others
  <2>5. CASE p = "shopify"
    <3>1. {"x-shopify-topic", "x-shopify-shop-domain"} \subseteq delivery.headers
      BY <2>5 DEF Evidence, Has
    <3>2. QED
      BY <2>2, <2>3, <2>5, <3>1 DEF Others
  <2>6. QED
    BY <1>1, <2>4, <2>5
<1>2. CASE p = "mailgun"
  <2>1. "x-mailgun-signature-v2" \in delivery.headers \/ delivery.form = FormFields
    BY <1>2 DEF Evidence, Has, FormParams, FormFields
  <2>2. QED
    BY <1>2, <2>1, HeadersTell
<1>3. CASE p \in {"stripe", "twilio", "discord", "slack", "n8n"}
  <2>1. /\ p = "stripe" => "stripe-signature" \in delivery.headers
        /\ p = "twilio" => "x-twilio-signature" \in delivery.headers
        /\ p = "discord" => "x-signature-ed25519" \in delivery.headers
        /\ p = "slack" => "x-slack-signature" \in delivery.headers
        /\ p = "n8n" => "x-n8n-signature" \in delivery.headers
    BY <1>3 DEF Evidence, Has
  <2>2. QED
    BY <1>3, <2>1, HeadersTell
<1>4. QED
  BY <1>1, <1>2, <1>3, DetectorTable

(* A delivery that keeps its headers and its form has the evidence of its  *)
(* sender.                                                                 *)
LEMMA SenderIsEvident ==
    ASSUME DeliveryInv,
           Compose(sent.sender, sent.keys, delivery.body).headers \subseteq delivery.headers,
           Compose(sent.sender, sent.keys, delivery.body).form = delivery.form,
           sent.sender.header = "form" => Parsable(delivery)
    PROVE  Evidence(sent.sender.provider, delivery)
<1>1. sent.sender.marks \cup ({sent.sender.header} \ {"form"}) \subseteq delivery.headers
  BY DEF Compose
<1>2. sent.sender.header = "form" => delivery.form = FormFields
  BY DEF Compose
<1>3. sent.sender \in Senders
  BY DEF DeliveryInv
<1>4. CASE sent.sender.provider = "zapier"
  BY <1>4 DEF Evidence, DeliveryInv
<1>5. CASE sent.sender.header = "form"
  <2>1. sent.sender.provider = "mailgun" /\ "form-content-type" \in sent.sender.marks
    BY <1>3, <1>5, SenderTable DEF IsSender
  <2>2. FormParams(delivery) = FormFields
    BY <1>1, <1>2, <1>5, <2>1 DEF FormParams, Has
  <2>3. QED
    BY <2>1, <2>2 DEF Evidence
<1>6. CASE sent.sender.header # "form" /\ sent.sender.provider # "zapier"
  <2>1. LET s == sent.sender
        IN \/ s.provider = "stripe" /\ s.header = "stripe-signature"
           \/ s.provider = "github" /\ s.marks = {"x-github-event", "x-github-delivery"}
           \/ s.provider = "shopify" /\ s.marks = {"x-shopify-topic", "x-shopify-shop-domain"}
           \/ s.provider = "twilio" /\ s.header = "x-twilio-signature"
           \/ s.provider = "mailgun" /\ s.header = "x-mailgun-signature-v2"
           \/ /\ s.provider = "discord" /\ s.header = "x-signature-ed25519"
              /\ s.marks = {"x-signature-timestamp"}
           \/ /\ s.provider = "slack" /\ s.header = "x-slack-signature"
              /\ s.marks = {"x-slack-request-timestamp"}
           \/ s.provider = "n8n" /\ s.header = "x-n8n-signature"
    BY <1>3, <1>6, SenderTable DEF IsSender
  <2>2. sent.sender.header \in delivery.headers /\ sent.sender.marks \subseteq delivery.headers
    BY <1>1, <1>6
  <2>3. QED
    BY <2>1, <2>2 DEF Evidence, Has
<1>7. QED
  BY <1>4, <1>5, <1>6

(* What is captured has the label that DetectedAsSent asks for.            *)
LEMMA LabelIsTheSenders == ASSUME InboundInv PROVE DetectedAsSent
<1> SUFFICES ASSUME row.pc = "captured" PROVE DetectedAsSent
  BY DEF DetectedAsSent
<1>1. row.integration = DetectIntegration(delivery) /\ DeliveryInv
  BY DEF InboundInv, RowInv, NoRow
<1>2. sent.sender.provider \in Providers
  BY <1>1, SenderTable, DetectorTable DEF IsSender, DeliveryInv
<1>3. \A k \in 1 .. 9 : Detectors[k] \in Providers
  BY DetectorTable
<1>4. row.integration \in {sent.sender.provider, "zapier", "none"} \cup Others(delivery)
  BY <1>1, <1>3, FirstDetectorLabels, EvidenceTells
<1>5. ASSUME Compose(sent.sender, sent.keys, delivery.body).headers \subseteq delivery.headers,
             Compose(sent.sender, sent.keys, delivery.body).form = delivery.form,
             sent.sender.header = "form" => Parsable(delivery),
             Others(delivery) \subseteq {sent.sender.provider}
      PROVE  row.integration = sent.sender.provider
  <2>1. PICK m \in 1 .. 9 : Detectors[m] = sent.sender.provider
    BY <1>2, DetectorTable
  <2>2. Evidence(Detectors[m], delivery)
    BY <1>1, <1>5, <2>1, SenderIsEvident
  <2>3. PICK k \in 1 .. 9 : /\ row.integration = Detectors[k] /\ Evidence(Detectors[k], delivery)
                            /\ k <= m
    BY <1>1, <2>2, FirstDetectorLabels
  <2>4. Detectors[k] = sent.sender.provider \/ Detectors[k] = "zapier"
    BY <1>1, <1>3, <1>5, <2>3, EvidenceTells
  <2>5. Detectors[k] = "zapier" => k = 9
    BY DetectorTable
  <2>6. QED
    BY <2>1, <2>3, <2>4, <2>5
<1>6. QED
  BY <1>4, <1>5 DEF DetectedAsSent, Others

-----------------------------------------------------------------------------
(* The validators.                                                         *)

(* A digest is among the signatures exactly when the sender made it.       *)
LEMMA SignatureOf ==
    ASSUME DeliveryInv, NEW key, NEW alg, NEW over
    PROVE  Digest(key, alg, over) \in Range(delivery.signatures)
             <=> /\ key \in Range(sent.keys) /\ sent.sender.alg = alg
                 /\ over = Covered(AsSent, sent.sender.covers)
<1> DEFINE signed == Covered(AsSent, sent.sender.covers)
<1>1. delivery.signatures
        = [i \in DOMAIN sent.keys |-> Digest(sent.keys[i], sent.sender.alg, signed)]
  BY DEF DeliveryInv, Relayed, Signed
<1>2. \A k : Digest(key, alg, over) = Digest(k, sent.sender.alg, signed)
               <=> key = k /\ alg = sent.sender.alg /\ over = signed
  <2>1. \A k, a, o : LET r == Digest(k, a, o) IN r.key = k /\ r.alg = a /\ r.over = o
    BY DEF Digest
  <2>2. QED
    BY <2>1
<1> HIDE DEF signed
<1>3. Digest(key, alg, over) \in Range(delivery.signatures)
        <=> \E i \in DOMAIN sent.keys :
              Digest(key, alg, over) = Digest(sent.keys[i], sent.sender.alg, signed)
  BY <1>1 DEF Range
<1>4. key \in Range(sent.keys) <=> \E i \in DOMAIN sent.keys : key = sent.keys[i]
  BY DEF Range
<1>5. QED
  BY <1>2, <1>3, <1>4 DEF signed

(* The text of a digest tells what was signed.                             *)
LEMMA TextsTell ==
    ASSUME NEW c, NEW t, NEW b
    PROVE  /\ [timestamp |-> t, body |-> b] = Covered(AsSent, c)
                <=> c = {"timestamp", "body"} /\ t = "t" /\ b = "b"
           /\ [body |-> b] = Covered(AsSent, c) <=> c = {"body"} /\ b = "b"
           /\ [timestamp |-> t, token |-> "token"] = Covered(AsSent, c)
                <=> c = {"timestamp", "token"} /\ t = "t"
<1>1. /\ DOMAIN Covered(AsSent, c) = c
      /\ \A p \in c : Covered(AsSent, c)[p] = IF p = "timestamp" THEN "t"
                                            ELSE IF p = "body" THEN "b" ELSE p
      /\ Covered(AsSent, c) = [p \in c |-> Covered(AsSent, c)[p]]
  BY DEF Covered, AsSent
<1>2. [timestamp |-> t, body |-> b] = Covered(AsSent, c)
        <=> c = {"timestamp", "body"} /\ t = "t" /\ b = "b"
  <2>1. ASSUME [timestamp |-> t, body |-> b] = Covered(AsSent, c)
        PROVE  c = {"timestamp", "body"} /\ t = "t" /\ b = "b"
    BY <1>1, <2>1
  <2>2. ASSUME c = {"timestamp", "body"}, t = "t", b = "b"
        PROVE  [timestamp |-> t, body |-> b] = Covered(AsSent, c)
    BY <1>1, <2>2
  <2>3. QED
    BY <2>1, <2>2
<1>3. [body |-> b] = Covered(AsSent, c) <=> c = {"body"} /\ b = "b"
  <2>1. ASSUME [body |-> b] = Covered(AsSent, c) PROVE c = {"body"} /\ b = "b"
    BY <1>1, <2>1
  <2>2. ASSUME c = {"body"}, b = "b" PROVE [body |-> b] = Covered(AsSent, c)
    BY <1>1, <2>2
  <2>3. QED
    BY <2>1, <2>2
<1>4. [timestamp |-> t, token |-> "token"] = Covered(AsSent, c)
        <=> c = {"timestamp", "token"} /\ t = "t"
  <2>1. ASSUME [timestamp |-> t, token |-> "token"] = Covered(AsSent, c)
        PROVE  c = {"timestamp", "token"} /\ t = "t"
    BY <1>1, <2>1
  <2>2. ASSUME c = {"timestamp", "token"}, t = "t"
        PROVE  [timestamp |-> t, token |-> "token"] = Covered(AsSent, c)
    BY <1>1, <2>2
  <2>3. QED
    BY <2>1, <2>2
<1>5. QED
  BY <1>2, <1>3, <1>4

(* The signature of what arrives is the sender's, of what it sent.         *)
Genuine(alg, parts) ==
    /\ delivery.value = "whole"
    /\ "current" \in Range(sent.keys) /\ sent.sender.alg = alg /\ sent.sender.covers = parts
    /\ "timestamp" \in parts => delivery.timestamp = "t"
    /\ "body" \in parts => delivery.body.text = "b"

(* What a validator is given matches when it is genuine.                   *)
LEMMA GivenIsGenuine ==
    ASSUME DeliveryInv, NEW alg
    PROVE  /\ Given(delivery, Digest("current", alg, TimestampAndBody(delivery)))
                <=> Genuine(alg, {"timestamp", "body"})
           /\ Given(delivery, Digest("current", alg, BodyAlone(delivery)))
                <=> Genuine(alg, {"body"})
           /\ Given(delivery, Digest("current", alg,
                                     [timestamp |-> delivery.timestamp, token |-> "token"]))
                <=> Genuine(alg, {"timestamp", "token"})
<1>1. TimestampAndBody(delivery) = Covered(AsSent, sent.sender.covers)
        <=> /\ sent.sender.covers = {"timestamp", "body"}
            /\ delivery.timestamp = "t" /\ delivery.body.text = "b"
  <2>1. TimestampAndBody(delivery)
          = [timestamp |-> delivery.timestamp, body |-> delivery.body.text]
    BY DEF TimestampAndBody
  <2>2. \A c, t, b : [timestamp |-> t, body |-> b] = Covered(AsSent, c)
                       <=> c = {"timestamp", "body"} /\ t = "t" /\ b = "b"
    BY TextsTell
  <2>3. QED
    BY <2>1, <2>2
<1>2. BodyAlone(delivery) = Covered(AsSent, sent.sender.covers)
        <=> sent.sender.covers = {"body"} /\ delivery.body.text = "b"
  BY TextsTell DEF BodyAlone
<1>3. [timestamp |-> delivery.timestamp, token |-> "token"] = Covered(AsSent, sent.sender.covers)
        <=> sent.sender.covers = {"timestamp", "token"} /\ delivery.timestamp = "t"
  BY TextsTell
<1>4. Given(delivery, Digest("current", alg, TimestampAndBody(delivery)))
        <=> Genuine(alg, {"timestamp", "body"})
  BY <1>1, SignatureOf DEF Given, Genuine
<1>5. Given(delivery, Digest("current", alg, BodyAlone(delivery))) <=> Genuine(alg, {"body"})
  BY <1>2, SignatureOf DEF Given, Genuine
<1>6. Given(delivery, Digest("current", alg,
                             [timestamp |-> delivery.timestamp, token |-> "token"]))
        <=> Genuine(alg, {"timestamp", "token"})
  BY <1>3, SignatureOf DEF Given, Genuine
<1>7. QED
  BY <1>4, <1>5, <1>6

(* A verdict is one of four, and valid and missing mean what they say.     *)
LEMMA Verdicts ==
    ASSUME NEW d, NEW present \in BOOLEAN, NEW parsed \in BOOLEAN, NEW matches \in BOOLEAN
    PROVE  /\ Judge(d, present, parsed, matches) \in {"valid", "invalid", "missing", "raises"}
           /\ Judge(d, present, parsed, matches) = "missing" <=> ~present
           /\ Judge(d, present, parsed, matches) = "valid"
                <=> present /\ parsed /\ d.value # "garbled" /\ matches
BY DEF Judge, Compare

(* A validator that reads what it must finds genuine what the sender signed.*)
LEMMA Judgement ==
    ASSUME NEW present \in BOOLEAN, NEW parsed \in BOOLEAN, NEW alg, NEW parts, NEW digest,
           Given(delivery, digest) <=> Genuine(alg, parts), NEW readable \in BOOLEAN,
           readable /\ delivery.value = "whole" => parsed, parsed => readable
    PROVE  LET v == Judge(delivery, present, parsed, Given(delivery, digest)) IN
             /\ v \in {"valid", "invalid", "missing", "raises"}
             /\ v = "missing" => ~present
             /\ v = "valid" <=> present /\ Genuine(alg, parts) /\ readable
<1>1. Given(delivery, digest) \in BOOLEAN
  BY DEF Given
<1>2. Genuine(alg, parts) => delivery.value = "whole"
  BY DEF Genuine
<1>3. QED
  BY <1>1, <1>2, Verdicts

(* What each validator asks of the delivery.                               *)
Present(p) ==
    CASE p = "stripe"  -> Has(delivery, {"stripe-signature"})
      [] p = "github"  -> Has(delivery, {"x-hub-signature-256"})
      [] p = "shopify" -> Has(delivery, {"x-shopify-hmac-sha256"})
      [] p = "twilio"  -> Has(delivery, {"x-twilio-signature"})
      [] p = "mailgun" -> delivery.form = FormFields
      [] p = "discord" -> Has(delivery, {"x-signature-ed25519", "x-signature-timestamp"})
      [] p = "slack"   -> Has(delivery, {"x-slack-signature", "x-slack-request-timestamp"})
      [] p = "n8n"     -> Has(delivery, {"x-n8n-signature"})
      [] p = "zapier"  -> Has(delivery, {"x-hook-signature"})

Signs(p) ==
    CASE p \in {"stripe", "slack"}         -> Genuine("sha256-hex", {"timestamp", "body"})
      [] p \in {"github", "n8n", "zapier"} -> Genuine("sha256-hex", {"body"})
      [] p = "shopify"                     -> Genuine("sha256-base64", {"body"})
      [] p = "twilio"                      -> Genuine("sha1-base64", {"body"})
      [] p = "mailgun"                     -> Genuine("sha256-hex", {"timestamp", "token"})
      [] p = "discord"                     -> Genuine("ed25519", {"timestamp", "body"})

(* Each validator accepts what is present, readable and genuine.           *)
LEMMA ValidatorTable ==
    ASSUME DeliveryInv, NEW p \in Providers
    PROVE  LET v == Validate(p, delivery, "current") IN
             /\ v \in {"valid", "invalid", "missing", "raises"}
             /\ v = "missing" => ~Present(p)
             /\ v = "valid" <=>
                  /\ Present(p) /\ Signs(p)
                  /\ p \in {"stripe", "discord", "slack"} => delivery.body.utf8
                  /\ p = "mailgun" => delivery.body.size <= MailgunCap
<1>1. delivery.body.utf8 \in BOOLEAN /\ delivery.value \in {"whole", "cut", "garbled"}
  BY DEF DeliveryInv, Relayed, Body
<1>2. \A S : Has(delivery, S) \in BOOLEAN
  BY DEF Has
<1>3. CASE p = "stripe"
  <2> DEFINE present == Has(delivery, {"stripe-signature"})
             parsed == delivery.value # "cut" /\ delivery.body.utf8
             digest == Digest("current", "sha256-hex", TimestampAndBody(delivery))
  <2>1. Validate(p, delivery, "current")
          = Judge(delivery, present, parsed, Given(delivery, digest))
    BY <1>3 DEF Validate, StripeValidator
  <2>2. (Present(p) <=> present) /\ (Signs(p) <=> Genuine("sha256-hex", {"timestamp", "body"}))
    BY <1>3 DEF Present, Signs
  <2>3. present \in BOOLEAN /\ parsed \in BOOLEAN
    BY <1>1, <1>2
  <2>4. Given(delivery, digest) <=> Genuine("sha256-hex", {"timestamp", "body"})
    BY GivenIsGenuine
  <2>5. (delivery.body.utf8 /\ delivery.value = "whole" => parsed) /\ (parsed => delivery.body.utf8)
    OBVIOUS
  <2> HIDE DEF present, parsed, digest
  <2>6. LET v == Validate(p, delivery, "current") IN
          /\ v \in {"valid", "invalid", "missing", "raises"}
          /\ v = "missing" => ~Present(p)
          /\ v = "valid" <=> Present(p) /\ Signs(p) /\ delivery.body.utf8
    BY <1>1, <2>1, <2>2, <2>3, <2>4, <2>5, Judgement
  <2>7. QED
    BY <1>3, <2>6
<1>4. CASE p = "github"
  <2> DEFINE present == Has(delivery, {"x-hub-signature-256"})
             parsed == delivery.value # "cut"
             digest == Digest("current", "sha256-hex", BodyAlone(delivery))
  <2>1. Validate(p, delivery, "current")
          = Judge(delivery, present, parsed, Given(delivery, digest))
    BY <1>4 DEF Validate, GithubValidator
  <2>2. (Present(p) <=> present) /\ (Signs(p) <=> Genuine("sha256-hex", {"body"}))
    BY <1>4 DEF Present, Signs
  <2>3. present \in BOOLEAN /\ parsed \in BOOLEAN
    BY <1>1, <1>2
  <2>4. Given(delivery, digest) <=> Genuine("sha256-hex", {"body"})
    BY GivenIsGenuine
  <2>5. (TRUE /\ delivery.value = "whole" => parsed) /\ (parsed => TRUE)
    OBVIOUS
  <2> HIDE DEF present, parsed, digest
  <2>6. LET v == Validate(p, delivery, "current") IN
          /\ v \in {"valid", "invalid", "missing", "raises"}
          /\ v = "missing" => ~Present(p)
          /\ v = "valid" <=> Present(p) /\ Signs(p) /\ TRUE
    BY <1>1, <2>1, <2>2, <2>3, <2>4, <2>5, Judgement
  <2>7. QED
    BY <1>4, <2>6
<1>5. CASE p = "shopify"
  <2> DEFINE present == Has(delivery, {"x-shopify-hmac-sha256"})
             parsed == TRUE
             digest == Digest("current", "sha256-base64", BodyAlone(delivery))
  <2>1. Validate(p, delivery, "current")
          = Judge(delivery, present, parsed, Given(delivery, digest))
    BY <1>5 DEF Validate, ShopifyValidator
  <2>2. (Present(p) <=> present) /\ (Signs(p) <=> Genuine("sha256-base64", {"body"}))
    BY <1>5 DEF Present, Signs
  <2>3. present \in BOOLEAN /\ parsed \in BOOLEAN
    BY <1>1, <1>2
  <2>4. Given(delivery, digest) <=> Genuine("sha256-base64", {"body"})
    BY GivenIsGenuine
  <2>5. (TRUE /\ delivery.value = "whole" => parsed) /\ (parsed => TRUE)
    OBVIOUS
  <2> HIDE DEF present, parsed, digest
  <2>6. LET v == Validate(p, delivery, "current") IN
          /\ v \in {"valid", "invalid", "missing", "raises"}
          /\ v = "missing" => ~Present(p)
          /\ v = "valid" <=> Present(p) /\ Signs(p) /\ TRUE
    BY <1>1, <2>1, <2>2, <2>3, <2>4, <2>5, Judgement
  <2>7. QED
    BY <1>5, <2>6
<1>6. CASE p = "twilio"
  <2> DEFINE present == Has(delivery, {"x-twilio-signature"})
             parsed == TRUE
             digest == Digest("current", "sha1-base64", BodyAlone(delivery))
  <2>1. Validate(p, delivery, "current")
          = Judge(delivery, present, parsed, Given(delivery, digest))
    BY <1>6 DEF Validate, TwilioValidator
  <2>2. (Present(p) <=> present) /\ (Signs(p) <=> Genuine("sha1-base64", {"body"}))
    BY <1>6 DEF Present, Signs
  <2>3. present \in BOOLEAN /\ parsed \in BOOLEAN
    BY <1>1, <1>2
  <2>4. Given(delivery, digest) <=> Genuine("sha1-base64", {"body"})
    BY GivenIsGenuine
  <2>5. (TRUE /\ delivery.value = "whole" => parsed) /\ (parsed => TRUE)
    OBVIOUS
  <2> HIDE DEF present, parsed, digest
  <2>6. LET v == Validate(p, delivery, "current") IN
          /\ v \in {"valid", "invalid", "missing", "raises"}
          /\ v = "missing" => ~Present(p)
          /\ v = "valid" <=> Present(p) /\ Signs(p) /\ TRUE
    BY <1>1, <2>1, <2>2, <2>3, <2>4, <2>5, Judgement
  <2>7. QED
    BY <1>6, <2>6
<1>7. CASE p = "discord"
  <2> DEFINE present == Has(delivery, {"x-signature-ed25519", "x-signature-timestamp"})
             parsed == delivery.value = "whole" /\ delivery.body.utf8
             digest == Digest("current", "ed25519", TimestampAndBody(delivery))
  <2>1. Validate(p, delivery, "current")
          = Judge(delivery, present, parsed, Given(delivery, digest))
    BY <1>7 DEF Validate, DiscordValidator
  <2>2. (Present(p) <=> present) /\ (Signs(p) <=> Genuine("ed25519", {"timestamp", "body"}))
    BY <1>7 DEF Present, Signs
  <2>3. present \in BOOLEAN /\ parsed \in BOOLEAN
    BY <1>1, <1>2
  <2>4. Given(delivery, digest) <=> Genuine("ed25519", {"timestamp", "body"})
    BY GivenIsGenuine
  <2>5. (delivery.body.utf8 /\ delivery.value = "whole" => parsed) /\ (parsed => delivery.body.utf8)
    OBVIOUS
  <2> HIDE DEF present, parsed, digest
  <2>6. LET v == Validate(p, delivery, "current") IN
          /\ v \in {"valid", "invalid", "missing", "raises"}
          /\ v = "missing" => ~Present(p)
          /\ v = "valid" <=> Present(p) /\ Signs(p) /\ delivery.body.utf8
    BY <1>1, <2>1, <2>2, <2>3, <2>4, <2>5, Judgement
  <2>7. QED
    BY <1>7, <2>6
<1>8. CASE p = "slack"
  <2> DEFINE present == Has(delivery, {"x-slack-signature", "x-slack-request-timestamp"})
             parsed == delivery.value # "cut" /\ delivery.body.utf8
             digest == Digest("current", "sha256-hex", TimestampAndBody(delivery))
  <2>1. Validate(p, delivery, "current")
          = Judge(delivery, present, parsed, Given(delivery, digest))
    BY <1>8 DEF Validate, SlackValidator
  <2>2. (Present(p) <=> present) /\ (Signs(p) <=> Genuine("sha256-hex", {"timestamp", "body"}))
    BY <1>8 DEF Present, Signs
  <2>3. present \in BOOLEAN /\ parsed \in BOOLEAN
    BY <1>1, <1>2
  <2>4. Given(delivery, digest) <=> Genuine("sha256-hex", {"timestamp", "body"})
    BY GivenIsGenuine
  <2>5. (delivery.body.utf8 /\ delivery.value = "whole" => parsed) /\ (parsed => delivery.body.utf8)
    OBVIOUS
  <2> HIDE DEF present, parsed, digest
  <2>6. LET v == Validate(p, delivery, "current") IN
          /\ v \in {"valid", "invalid", "missing", "raises"}
          /\ v = "missing" => ~Present(p)
          /\ v = "valid" <=> Present(p) /\ Signs(p) /\ delivery.body.utf8
    BY <1>1, <2>1, <2>2, <2>3, <2>4, <2>5, Judgement
  <2>7. QED
    BY <1>8, <2>6
<1>9. CASE p = "n8n"
  <2> DEFINE present == Has(delivery, {"x-n8n-signature"})
             parsed == TRUE
             digest == Digest("current", "sha256-hex", BodyAlone(delivery))
  <2>1. Validate(p, delivery, "current")
          = Judge(delivery, present, parsed, Given(delivery, digest))
    BY <1>9 DEF Validate, N8nValidator
  <2>2. (Present(p) <=> present) /\ (Signs(p) <=> Genuine("sha256-hex", {"body"}))
    BY <1>9 DEF Present, Signs
  <2>3. present \in BOOLEAN /\ parsed \in BOOLEAN
    BY <1>1, <1>2
  <2>4. Given(delivery, digest) <=> Genuine("sha256-hex", {"body"})
    BY GivenIsGenuine
  <2>5. (TRUE /\ delivery.value = "whole" => parsed) /\ (parsed => TRUE)
    OBVIOUS
  <2> HIDE DEF present, parsed, digest
  <2>6. LET v == Validate(p, delivery, "current") IN
          /\ v \in {"valid", "invalid", "missing", "raises"}
          /\ v = "missing" => ~Present(p)
          /\ v = "valid" <=> Present(p) /\ Signs(p) /\ TRUE
    BY <1>1, <2>1, <2>2, <2>3, <2>4, <2>5, Judgement
  <2>7. QED
    BY <1>9, <2>6
<1>10. CASE p = "zapier"
  <2> DEFINE present == Has(delivery, {"x-hook-signature"})
             parsed == TRUE
             digest == Digest("current", "sha256-hex", BodyAlone(delivery))
  <2>1. Validate(p, delivery, "current")
          = Judge(delivery, present, parsed, Given(delivery, digest))
    BY <1>10 DEF Validate, ZapierValidator
  <2>2. (Present(p) <=> present) /\ (Signs(p) <=> Genuine("sha256-hex", {"body"}))
    BY <1>10 DEF Present, Signs
  <2>3. present \in BOOLEAN /\ parsed \in BOOLEAN
    BY <1>1, <1>2
  <2>4. Given(delivery, digest) <=> Genuine("sha256-hex", {"body"})
    BY GivenIsGenuine
  <2>5. (TRUE /\ delivery.value = "whole" => parsed) /\ (parsed => TRUE)
    OBVIOUS
  <2> HIDE DEF present, parsed, digest
  <2>6. LET v == Validate(p, delivery, "current") IN
          /\ v \in {"valid", "invalid", "missing", "raises"}
          /\ v = "missing" => ~Present(p)
          /\ v = "valid" <=> Present(p) /\ Signs(p) /\ TRUE
    BY <1>1, <2>1, <2>2, <2>3, <2>4, <2>5, Judgement
  <2>7. QED
    BY <1>10, <2>6
<1>11. CASE p = "mailgun"
  <2> DEFINE present == delivery.form = FormFields
             parsed == TRUE
             digest == Digest("current", "sha256-hex",
                              [timestamp |-> delivery.timestamp, token |-> "token"])
  <2>1. Validate(p, delivery, "current")
          = IF delivery.body.size > MailgunCap THEN "invalid"
            ELSE Judge(delivery, present, parsed, Given(delivery, digest))
    BY <1>11 DEF Validate, MailgunValidator
  <2>2. (Present(p) <=> present) /\ (Signs(p) <=> Genuine("sha256-hex", {"timestamp", "token"}))
    BY <1>11 DEF Present, Signs
  <2>3. present \in BOOLEAN /\ parsed
    OBVIOUS
  <2>4. Given(delivery, digest) <=> Genuine("sha256-hex", {"timestamp", "token"})
    BY GivenIsGenuine
  <2>5. delivery.body.size \in Nat /\ MailgunCap \in Nat
    BY InboundAssumption DEF InboundAssumption, DeliveryInv, Relayed, Body, MailgunCap
  <2> HIDE DEF present, parsed, digest
  <2>6. LET v == Judge(delivery, present, parsed, Given(delivery, digest)) IN
          /\ v \in {"valid", "invalid", "missing", "raises"}
          /\ v = "missing" => ~Present(p)
          /\ v = "valid" <=> Present(p) /\ Signs(p)
    BY <2>2, <2>3, <2>4, Judgement
  <2>7. CASE delivery.body.size > MailgunCap
    <3>1. Validate(p, delivery, "current") = "invalid" /\ ~(delivery.body.size <= MailgunCap)
      BY <2>1, <2>5, <2>7
    <3>2. QED
      BY <1>11, <3>1
  <2>8. CASE ~(delivery.body.size > MailgunCap)
    <3>1. /\ Validate(p, delivery, "current")
               = Judge(delivery, present, parsed, Given(delivery, digest))
          /\ delivery.body.size <= MailgunCap
      BY <2>1, <2>5, <2>8
    <3>2. QED
      BY <1>11, <2>6, <3>1
  <2>9. QED
    BY <2>7, <2>8
<1>12. p \in {"stripe", "github", "shopify", "twilio", "mailgun", "discord", "slack", "n8n",
              "zapier"}
  BY DetectorTable
<1>13. QED
  BY <1>3, <1>4, <1>5, <1>6, <1>7, <1>8, <1>9, <1>10, <1>11, <1>12

(* What is present arrived with the headers of its sender, and what its    *)
(* sender sent arrives present.                                            *)
LEMMA PresenceTells ==
    ASSUME DeliveryInv, NEW p \in Providers
    PROVE  /\ Present(p) => sent.sender.provider = p
           /\ ( /\ sent.sender.provider = p
                /\ sent.sender.header = "form" => delivery.form = FormFields
                /\ sent.sender.marks \cup ({sent.sender.header} \ {"form"})
                     \subseteq delivery.headers
                /\ p = "mailgun" => sent.sender.header = "form" ) => Present(p)
<1>1. p \in {"stripe", "github", "shopify", "twilio", "mailgun", "discord", "slack", "n8n",
             "zapier"}
  BY DetectorTable
<1>2. Present(p) => sent.sender.provider = p
  <2>1. CASE p = "mailgun"
    BY <2>1, HeadersTell DEF Present
  <2>2. CASE p \in {"stripe", "github", "shopify", "twilio"}
    <3>1. Present(p) => /\ p = "stripe" => "stripe-signature" \in delivery.headers
                        /\ p = "github" => "x-hub-signature-256" \in delivery.headers
                        /\ p = "shopify" => "x-shopify-hmac-sha256" \in delivery.headers
                        /\ p = "twilio" => "x-twilio-signature" \in delivery.headers
      BY <2>2 DEF Present, Has
    <3>2. QED
      BY <2>2, <3>1, HeadersTell
  <2>3. CASE p \in {"discord", "slack", "n8n", "zapier"}
    <3>1. Present(p) => /\ p = "discord" => "x-signature-ed25519" \in delivery.headers
                        /\ p = "slack" => "x-slack-signature" \in delivery.headers
                        /\ p = "n8n" => "x-n8n-signature" \in delivery.headers
                        /\ p = "zapier" => "x-hook-signature" \in delivery.headers
      BY <2>3 DEF Present, Has
    <3>2. QED
      BY <2>3, <3>1, HeadersTell
  <2>4. QED
    BY <1>1, <2>1, <2>2, <2>3
<1>3. ASSUME sent.sender.provider = p,
             sent.sender.header = "form" => delivery.form = FormFields,
             sent.sender.marks \cup ({sent.sender.header} \ {"form"}) \subseteq delivery.headers,
             p = "mailgun" => sent.sender.header = "form"
      PROVE  Present(p)
  <2>1. sent.sender \in Senders
    BY DEF DeliveryInv
  <2>2. CASE p = "mailgun"
    BY <1>3, <2>2 DEF Present
  <2>3. CASE p # "mailgun"
    <3>1. LET s == sent.sender
          IN \/ p = "stripe" /\ s.header = "stripe-signature"
             \/ p = "github" /\ s.header = "x-hub-signature-256"
             \/ p = "shopify" /\ s.header = "x-shopify-hmac-sha256"
             \/ p = "twilio" /\ s.header = "x-twilio-signature"
             \/ /\ p = "discord" /\ s.header = "x-signature-ed25519"
                /\ s.marks = {"x-signature-timestamp"}
             \/ /\ p = "slack" /\ s.header = "x-slack-signature"
                /\ s.marks = {"x-slack-request-timestamp"}
             \/ p = "n8n" /\ s.header = "x-n8n-signature"
             \/ p = "zapier" /\ s.header = "x-hook-signature"
      BY <1>3, <2>1, <2>3, SenderTable DEF IsSender
    <3>2. sent.sender.header \in delivery.headers /\ sent.sender.marks \subseteq delivery.headers
      BY <1>3, <3>1
    <3>3. QED
      BY <3>1, <3>2 DEF Present, Has
  <2>4. QED
    BY <2>2, <2>3
<1>4. QED
  BY <1>2, <1>3

(* What a sender covers and how, as its validator expects: but for Twilio, *)
(* which may sign the URL.                                                 *)
LEMMA SignsAsExpected ==
    ASSUME DeliveryInv, NEW p \in Providers, sent.sender.provider = p,
           "current" \in Range(sent.keys), delivery.value = "whole",
           delivery.timestamp = "t", delivery.body.text = "b", "url" \notin sent.sender.covers
    PROVE  Signs(p)
<1>1. sent.sender \in Senders
  BY DEF DeliveryInv
<1>2. LET s == sent.sender
      IN \/ p \in {"stripe", "slack"} /\ s.alg = "sha256-hex" /\ s.covers = {"timestamp", "body"}
         \/ p \in {"github", "n8n", "zapier"} /\ s.alg = "sha256-hex" /\ s.covers = {"body"}
         \/ p = "shopify" /\ s.alg = "sha256-base64" /\ s.covers = {"body"}
         \/ p = "twilio" /\ s.alg = "sha1-base64" /\ s.covers = {"body"}
         \/ p = "mailgun" /\ s.alg = "sha256-hex" /\ s.covers = {"timestamp", "token"}
         \/ p = "discord" /\ s.alg = "ed25519" /\ s.covers = {"timestamp", "body"}
  BY <1>1, SenderTable DEF IsSender
<1>3. QED
  BY <1>2 DEF Signs, Genuine

(* What a validator finds genuine is whole, of this key, and as it was     *)
(* signed.                                                                 *)
LEMMA SignsMeansGenuine ==
    ASSUME NEW p \in Providers, Signs(p)
    PROVE  /\ delivery.value = "whole" /\ "current" \in Range(sent.keys)
           /\ "body" \in sent.sender.covers => delivery.body.text = "b"
           /\ "timestamp" \in sent.sender.covers => delivery.timestamp = "t"
<1>1. \E alg, parts : Genuine(alg, parts)
  BY DetectorTable DEF Signs
<1>2. QED
  BY <1>1 DEF Genuine

(* The status of a webhook that was judged with the endpoint's own key.    *)
LEMMA JudgedStatus ==
    ASSUME InboundInv, Judged
    PROVE  /\ DeliveryInv /\ endpoint.provider \in Providers
           /\ row.signature_status = Validate(endpoint.provider, delivery, "current")
           /\ row.integration = DetectIntegration(delivery)
<1>1. DeliveryInv /\ endpoint.provider \in Providers
  BY DEF InboundInv, DeliveryInv, Judged
<1>2. row.signature_status = SignatureStatus(endpoint, delivery)
      /\ row.integration = DetectIntegration(delivery)
  BY DEF InboundInv, RowInv, NoRow, Judged
<1>3. SignatureStatus(endpoint, delivery) = Validate(endpoint.provider, delivery, "current")
  BY DEF SignatureStatus, DecryptSecret, Judged
<1>4. QED
  BY <1>1, <1>2, <1>3

(* What is captured has the status that ValidIsAuthentic asks for.         *)
LEMMA StatusIsRight == ASSUME InboundInv PROVE ValidIsAuthentic
<1> SUFFICES ASSUME Judged PROVE ValidIsAuthentic
  BY DEF ValidIsAuthentic
<1> DEFINE p == endpoint.provider
           mine == sent.sender.provider = p /\ "current" \in Range(sent.keys)
           composed == Compose(sent.sender, sent.keys, [delivery.body EXCEPT !.text = "b"])
           arrives == composed.headers \subseteq delivery.headers /\ composed.form = delivery.form
<1>1. /\ DeliveryInv /\ p \in Providers
      /\ row.signature_status = Validate(p, delivery, "current")
  BY JudgedStatus
<1>2. arrives => /\ sent.sender.marks \cup ({sent.sender.header} \ {"form"})
                     \subseteq delivery.headers
                 /\ sent.sender.header = "form" => delivery.form = FormFields
  BY DEF Compose
<1>3. ASSUME row.signature_status = "valid"
      PROVE  /\ mine /\ delivery.value = "whole"
             /\ "body" \in sent.sender.covers => delivery.body.text = "b"
             /\ "timestamp" \in sent.sender.covers => delivery.timestamp = "t"
  <2>1. Present(p) /\ Signs(p)
    BY <1>1, <1>3, ValidatorTable
  <2>2. QED
    BY <1>1, <2>1, PresenceTells, SignsMeansGenuine
<1>4. ASSUME mine, arrives, Judgeable(sent.sender, delivery.body)
      PROVE  Present(p)
  <2>1. p = "mailgun" => sent.sender.header = "form"
    BY <1>4 DEF Judgeable
  <2>2. QED
    BY <1>1, <1>2, <1>4, <2>1, PresenceTells
<1>5. ASSUME mine, arrives, Judgeable(sent.sender, delivery.body)
      PROVE  row.signature_status # "missing"
  BY <1>1, <1>4, <1>5, ValidatorTable
<1>6. ASSUME mine, arrives, Judgeable(sent.sender, delivery.body), delivery.value = "whole",
             delivery.timestamp = "t", delivery.body.text = "b"
      PROVE  row.signature_status = "valid"
  <2>1. /\ "url" \notin sent.sender.covers
        /\ p \in {"stripe", "discord", "slack"} => delivery.body.utf8
        /\ p = "mailgun" => delivery.body.size <= MailgunCap
    BY <1>6 DEF Judgeable
  <2>2. Signs(p)
    BY <1>1, <1>6, <2>1, SignsAsExpected
  <2>3. QED
    BY <1>1, <1>4, <1>6, <2>1, <2>2, ValidatorTable
<1>7. QED
  BY <1>3, <1>5, <1>6 DEF ValidIsAuthentic

(* Who is known by the header of its signature is labelled when valid.     *)
LEMMA ValidIsKnown == ASSUME InboundInv PROVE AuthenticIsLabelled
<1> SUFFICES ASSUME Judged, row.signature_status = "valid",
                    endpoint.provider \notin {"github", "shopify", "zapier"},
                    endpoint.provider = "mailgun" =>
                      Parsable(delivery) /\ "form-content-type" \in delivery.headers
             PROVE  row.integration # "none"
  BY DEF AuthenticIsLabelled
<1>1. /\ DeliveryInv /\ endpoint.provider \in Providers
      /\ row.signature_status = Validate(endpoint.provider, delivery, "current")
      /\ row.integration = DetectIntegration(delivery)
  BY JudgedStatus
<1>2. Present(endpoint.provider)
  BY <1>1, ValidatorTable
<1>3. endpoint.provider \in {"stripe", "twilio", "mailgun", "discord", "slack", "n8n"}
  BY <1>1, DetectorTable
<1>4. CASE endpoint.provider = "mailgun"
  <2>1. FormParams(delivery) = FormFields
    BY <1>2, <1>4 DEF Present, FormParams, Has
  <2>2. Evidence(endpoint.provider, delivery)
    BY <1>4, <2>1 DEF Evidence
  <2>3. QED
    BY <1>1, <2>2, KnownIsLabelled
<1>5. CASE endpoint.provider # "mailgun"
  <2>1. Evidence(endpoint.provider, delivery)
    BY <1>2, <1>3, <1>5 DEF Present, Evidence
  <2>2. QED
    BY <1>1, <2>1, KnownIsLabelled
<1>6. QED
  BY <1>4, <1>5

-----------------------------------------------------------------------------
(* The two subjects together.                                              *)

(* A step is one of a subject, and leaves the other's state alone.         *)
LEMMA StepsOfSubjects ==
    ASSUME [Next]_vars
    PROVE  [RetryNext]_retryVars /\ [InboundNext]_inboundVars
BY DEF Next, vars, retryVars, inboundVars

(* integration_detector.py and hmac/: what relays leave of a webhook, and  *)
(* how it is judged and labelled when it is captured.                      *)
THEOREM InboundInvariant == Spec => []InboundInv
<1>1. Init => InboundInv
  BY InitInbound DEF Init
<1>2. InboundInv /\ [Next]_vars => InboundInv'
  BY StepsOfSubjects, InboundNextKeepsInv
<1>3. QED
  BY <1>1, <1>2, PTL DEF Spec

(* capture_request.py:85-97 and the nine validators: valid means signed by *)
(* the provider with the endpoint's secret and unchanged, and whatever is  *)
(* so is found valid.                                                      *)
THEOREM ValidMeansAuthentic == Spec => []ValidIsAuthentic
<1>1. InboundInv => ValidIsAuthentic
  BY StatusIsRight
<1>2. QED
  BY <1>1, InboundInvariant, PTL

(* integration_detector.py:131-153: the label is that of the sender,       *)
(* whatever relays add short of another integration's evidence.            *)
THEOREM LabelsAreTheSenders == Spec => []DetectedAsSent
<1>1. InboundInv => DetectedAsSent
  BY LabelIsTheSenders
<1>2. QED
  BY <1>1, InboundInvariant, PTL

(* capture_request.py:83-116: the validators and the detectors agree.      *)
THEOREM TablesAgree == Spec => []AuthenticIsLabelled
<1>1. InboundInv => AuthenticIsLabelled
  BY ValidIsKnown
<1>2. QED
  BY <1>1, InboundInvariant, PTL

(* verifying-forwards.md:89-107: for every table of back-offs that adds up *)
(* to what is published, as forward.py:12 does (PublishedTablesAddUp).     *)
THEOREM SchedulesAsPublished ==
    ASSUME AddsUp(RetryBackoffs, DocumentedOffsets) PROVE Spec => []PublishedSchedule
<1>1. Init => RetryInv
  BY RetryKeepsInv DEF Init
<1>2. RetryInv /\ [Next]_vars => RetryInv'
  BY StepsOfSubjects, RetryKeepsInv
<1>3. RetryInv => PublishedSchedule
  BY RetryInvPublishes
<1>4. QED
  BY <1>1, <1>2, <1>3, PTL DEF Spec

(* Four statuses and nine integrations, as base.py:5-18 has them.          *)
LEMMA InboundTyped == ASSUME InboundInv PROVE InboundTypeOK
<1>1. DeliveryInv /\ delivery \in Relayed(sent.sender, sent.keys)
  BY DEF InboundInv, DeliveryInv
<1>2. delivery.headers \subseteq Marks \cup {x.header : x \in Senders}
  BY <1>1 DEF DeliveryInv, Relayed
<1>3. delivery.body \in Body /\ hops \in 0 .. MaxHops
  BY <1>1 DEF DeliveryInv, Relayed
<1>4. SignatureStatus(endpoint, delivery) \in Statuses \cup {"raises"}
  <2>1. /\ endpoint.provider \in Providers \cup {"none"}
        /\ endpoint.key \in {"same", "rotated", "unset"}
    BY <1>1 DEF DeliveryInv
  <2>2. CASE endpoint.provider = "none"
    BY <2>2 DEF SignatureStatus, Statuses
  <2>3. CASE endpoint.provider # "none" /\ endpoint.key = "same"
    <3>1. SignatureStatus(endpoint, delivery) = Validate(endpoint.provider, delivery, "current")
      BY <2>3 DEF SignatureStatus, DecryptSecret
    <3>2. QED
      BY <1>1, <2>1, <2>3, <3>1, ValidatorTable DEF Statuses
  <2>4. CASE endpoint.provider # "none" /\ endpoint.key \in {"rotated", "unset"}
    BY <2>4 DEF SignatureStatus, DecryptSecret, Statuses
  <2>5. QED
    BY <2>1, <2>2, <2>3, <2>4
<1>5. DetectIntegration(delivery) \in Providers \cup {"none"}
  BY FirstDetectorLabels, DetectorTable
<1>6. /\ row.signature_status \in Statuses \cup {"none"}
      /\ row.integration \in Providers \cup {"none"}
      /\ row.pc \in {"none", "lost", "captured"}
  BY <1>4, <1>5 DEF InboundInv, RowInv, NoRow
<1>7. QED
  BY <1>2, <1>3, <1>6 DEF InboundTypeOK

(* An attempt is a numbered one, whatever is published.                    *)
RetryTyped ==
    /\ attempt \in 1 .. MaxAttempts
    /\ answer \in Answers
    /\ status \in {"in_flight", "succeeded", "dead"}

(* It keeps its number within the table, for every answer.                 *)
LEMMA RetryKeepsTyped ==
    /\ RetryInit => RetryTyped
    /\ RetryTyped /\ [RetryNext]_retryVars => RetryTyped'
<1>1. MaxAttempts \in Nat /\ MaxAttempts >= 1
  BY RetryBackoffsAssumption DEF MaxAttempts
<1>2. RetryInit => RetryTyped
  BY <1>1 DEF RetryInit, RetryTyped
<1>3. ASSUME RetryTyped, Settle PROVE RetryTyped'
  BY <1>3, Decisions DEF RetryTyped, Outcome, Settle
<1>4. ASSUME RetryTyped, Retry PROVE RetryTyped'
  <2>1. attempt < MaxAttempts
    BY <1>4, Decisions DEF RetryTyped, Outcome, Retry
  <2>2. attempt + 1 \in 1 .. MaxAttempts
    BY <1>1, <1>4, <2>1 DEF RetryTyped
  <2>3. QED
    BY <1>4, <2>2 DEF Retry, RetryTyped
<1>5. ASSUME RetryTyped, UNCHANGED retryVars PROVE RetryTyped'
  BY <1>5 DEF RetryTyped, retryVars
<1>6. QED
  BY <1>2, <1>3, <1>4, <1>5 DEF RetryNext

(* base.py:5-18 and the detectors' table: the columns of a captured row.   *)
THEOREM DecisionsWellTyped == Spec => []TypeOK
<1>1. Init => RetryTyped
  BY RetryKeepsTyped DEF Init
<1>2. RetryTyped /\ [Next]_vars => RetryTyped'
  BY StepsOfSubjects, RetryKeepsTyped
<1>3. InboundInv /\ RetryTyped => TypeOK
  BY InboundTyped DEF RetryTyped, TypeOK
<1>4. QED
  BY <1>1, <1>2, <1>3, InboundInvariant, PTL DEF Spec
==============================================================================
