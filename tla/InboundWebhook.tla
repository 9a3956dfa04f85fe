--------------------------- MODULE InboundWebhook ---------------------------
(***************************************************************************)
(* One webhook on its way from an integration to the row that captures it: *)
(* signed by its sender, changed by whatever relays it, judged by the      *)
(* validator of the endpoint's provider (domain/services/hmac) and         *)
(* labelled by the detector (domain/services/integration_detector.py).     *)
(*                                                                         *)
(* A digest is the record of what went into it, so that two are equal when *)
(* key, algorithm and signed text are.  Headers are present with a value   *)
(* or absent.  One with an empty value is left out: to the validators it   *)
(* is missing, to the detectors, which test `in h`, it is there.           *)
(***************************************************************************)
EXTENDS Integers, Sequences, SequencesExt

CONSTANTS Sizes,        \* of bodies, in KB
          MaxHops       \* changes on the way: the bound of the model

ASSUME InboundAssumption == Sizes \subseteq Nat /\ MaxHops \in Nat

VARIABLES endpoint,     \* the endpoint's provider, and the key at capture
          sent,         \* history: the webhook as its sender composed it
          delivery,     \* the webhook now
          hops,
          row           \* what is captured

inboundVars == <<endpoint, sent, delivery, hops, row>>

(* _DETECTORS, in their order: the nine integrations.                      *)
Detectors == <<"stripe", "github", "shopify", "twilio", "mailgun", "discord", "slack",
               "n8n", "zapier">>

Providers == Range(Detectors)

FormFields == {"timestamp", "token", "signature"}

ParseCap == 8           \* KB: _PARSE_CAP_BYTES
MailgunCap == 64        \* KB: _MAX_BODY_BYTES

(* What each integration sends: the header of its signature, the headers   *)
(* it is known by, and what it signs and how.  Mailgun has a form and a    *)
(* header variant; Twilio signs its URL too, its relays may sign the body. *)
Sends(provider, header, marks, alg, covers) ==
    [provider |-> provider, header |-> header, marks |-> marks, alg |-> alg, covers |-> covers]

Senders ==
    { Sends("stripe", "stripe-signature", {}, "sha256-hex", {"timestamp", "body"}),
      Sends("github", "x-hub-signature-256", {"x-github-event", "x-github-delivery"},
            "sha256-hex", {"body"}),
      Sends("shopify", "x-shopify-hmac-sha256", {"x-shopify-topic", "x-shopify-shop-domain"},
            "sha256-base64", {"body"}),
      Sends("twilio", "x-twilio-signature", {}, "sha1-base64", {"body"}),
      Sends("twilio", "x-twilio-signature", {}, "sha1-base64", {"url", "body"}),
      Sends("mailgun", "form", {"form-content-type"}, "sha256-hex",
            {"timestamp", "token"}),
      Sends("mailgun", "x-mailgun-signature-v2", {}, "sha256-hex", {"timestamp", "token"}),
      Sends("discord", "x-signature-ed25519", {"x-signature-timestamp"},
            "ed25519", {"timestamp", "body"}),
      Sends("slack", "x-slack-signature", {"x-slack-request-timestamp"},
            "sha256-hex", {"timestamp", "body"}),
      Sends("n8n", "x-n8n-signature", {}, "sha256-hex", {"body"}),
      Sends("zapier", "x-hook-signature", {}, "sha256-hex", {"body"}) }

Marks == UNION {s.marks : s \in Senders}

Keys == {"current", "other"}

Body == [text : {"b", "b'"}, utf8 : BOOLEAN, size : Sizes, event : BOOLEAN]

Statuses == {"valid", "invalid", "missing", "no_provider"}

InboundTypeOK ==
    /\ delivery.headers \subseteq Marks \cup {s.header : s \in Senders}
    /\ delivery.body \in Body /\ hops \in 0 .. MaxHops
    /\ row.signature_status \in Statuses \cup {"none"}
    /\ row.integration \in Providers \cup {"none"}
    /\ row.pc \in {"none", "lost", "captured"}

NoRow == [pc |-> "none", signature_status |-> "none", integration |-> "none", event |-> "none"]

Digest(key, alg, over) == [key |-> key, alg |-> alg, over |-> over]

Covered(d, parts) ==
    [p \in parts |-> CASE p = "timestamp" -> d.timestamp
                       [] p = "body"      -> d.body.text
                       [] OTHER           -> p]

(* Stripe signs with every valid secret while one is being rolled.         *)
KeyRings(sender) == {<<k>> : k \in Keys}
    \cup IF sender.provider = "stripe" THEN {<<"current", "other">>, <<"other", "current">>} ELSE {}

(* The value of the signature's header is whole, cut short, or no longer   *)
(* ASCII.                                                                  *)
Compose(sender, keys, body) ==
    LET unsigned == [timestamp |-> "t", body |-> body] IN
    [headers |-> sender.marks \cup ({sender.header} \ {"form"}),
     form |-> IF sender.header = "form" THEN FormFields ELSE {},
     timestamp |-> "t", body |-> body, value |-> "whole",
     signatures |-> [i \in DOMAIN keys |->
                       Digest(keys[i], sender.alg, Covered(unsigned, sender.covers))],
     zapier_agent |-> sender.provider = "zapier"]

InboundInit ==
    /\ endpoint \in [provider : Providers \cup {"none"}, key : {"same", "rotated", "unset"}]
    /\ \E s \in Senders, b \in {x \in Body : x.text = "b"} : \E k \in KeyRings(s) :
         /\ sent = [sender |-> s, keys |-> k]
         /\ delivery = Compose(s, k, b)
    /\ hops = 0
    /\ row = NoRow

(* ---------------------------------------------------------------------- *)
(* On the way                                                              *)
(* ---------------------------------------------------------------------- *)

Hop(changed) ==
    /\ row.pc = "none" /\ hops < MaxHops
    /\ hops' = hops + 1
    /\ delivery' = changed
    /\ UNCHANGED <<endpoint, sent, row>>

Relay ==
    \/ \E h \in delivery.headers : Hop([delivery EXCEPT !.headers = @ \ {h}])
    \/ \E h \in Marks \ delivery.headers : Hop([delivery EXCEPT !.headers = @ \cup {h}])
    \/ \E f \in delivery.form : Hop([delivery EXCEPT !.form = @ \ {f}])
    \/ Hop([delivery EXCEPT !.body.text = "b'"])
    \/ Hop([delivery EXCEPT !.timestamp = "t'"])
    \/ \E v \in {"cut", "garbled"} : Hop([delivery EXCEPT !.value = v])
    \/ Hop([delivery EXCEPT !.zapier_agent = TRUE])

(* ---------------------------------------------------------------------- *)
(* The validators                                                          *)
(* ---------------------------------------------------------------------- *)

(* compare_digest raises on what is not ASCII.                             *)
Compare(d, matches) == IF d.value = "garbled" THEN "raises"
                       ELSE IF matches THEN "valid" ELSE "invalid"

Judge(d, present, parsed, matches) ==
    IF ~present THEN "missing" ELSE IF parsed THEN Compare(d, matches) ELSE "invalid"

Has(d, headers) == headers \subseteq d.headers

(* A header cut short has no v1, no prefix, or another digest.             *)
Given(d, digest) == d.value = "whole" /\ digest \in Range(d.signatures)

TimestampAndBody(d) == [timestamp |-> d.timestamp, body |-> d.body.text]

BodyAlone(d) == [body |-> d.body.text]

StripeLastPart(d, key) ==
    Judge(d, Has(d, {"stripe-signature"}), d.value # "cut" /\ d.body.utf8,
          Last(d.signatures) = Digest(key, "sha256-hex", TimestampAndBody(d)))

(* Any of the v1 parts may match.                                          *)
StripeValidator(d, key) ==
    Judge(d, Has(d, {"stripe-signature"}), d.value # "cut" /\ d.body.utf8,
          Given(d, Digest(key, "sha256-hex", TimestampAndBody(d))))

GithubValidator(d, key) ==
    Judge(d, Has(d, {"x-hub-signature-256"}), d.value # "cut",
          Given(d, Digest(key, "sha256-hex", BodyAlone(d))))

ShopifyValidator(d, key) ==
    Judge(d, Has(d, {"x-shopify-hmac-sha256"}), TRUE,
          Given(d, Digest(key, "sha256-base64", BodyAlone(d))))

(* Of the body alone: the URL is not at hand.                              *)
TwilioValidator(d, key) ==
    Judge(d, Has(d, {"x-twilio-signature"}), TRUE,
          Given(d, Digest(key, "sha1-base64", BodyAlone(d))))

(* Reads the form, whatever the content type, and no header.               *)
MailgunValidator(d, key) ==
    IF d.body.size > MailgunCap THEN "invalid"
    ELSE Judge(d, d.form = FormFields, TRUE,
               Given(d, Digest(key, "sha256-hex",
                               [timestamp |-> d.timestamp, token |-> "token"])))

(* The key is the application's public one; what is not hex is caught.     *)
DiscordValidator(d, key) ==
    Judge(d, Has(d, {"x-signature-ed25519", "x-signature-timestamp"}),
          d.value = "whole" /\ d.body.utf8,
          Given(d, Digest(key, "ed25519", TimestampAndBody(d))))

SlackValidator(d, key) ==
    Judge(d, Has(d, {"x-slack-signature", "x-slack-request-timestamp"}),
          d.value # "cut" /\ d.body.utf8,
          Given(d, Digest(key, "sha256-hex", TimestampAndBody(d))))

ZapierValidator(d, key) ==
    Judge(d, Has(d, {"x-hook-signature"}), TRUE,
          Given(d, Digest(key, "sha256-hex", BodyAlone(d))))

N8nValidator(d, key) ==
    Judge(d, Has(d, {"x-n8n-signature"}), TRUE,
          Given(d, Digest(key, "sha256-hex", BodyAlone(d))))

Validate(provider, d, key) ==
    CASE provider = "stripe"  -> StripeValidator(d, key)
      [] provider = "github"  -> GithubValidator(d, key)
      [] provider = "shopify" -> ShopifyValidator(d, key)
      [] provider = "twilio"  -> TwilioValidator(d, key)
      [] provider = "mailgun" -> MailgunValidator(d, key)
      [] provider = "discord" -> DiscordValidator(d, key)
      [] provider = "slack"   -> SlackValidator(d, key)
      [] provider = "zapier"  -> ZapierValidator(d, key)
      [] provider = "n8n"     -> N8nValidator(d, key)

(* AES-GCM: another 32-byte key does not open the secret, and the empty    *)
(* one of a process without SECRETS_ENCRYPTION_KEY is refused.             *)
DecryptSecret(key) == CASE key = "same"    -> "current"
                        [] key = "rotated" -> "invalid_tag"
                        [] key = "unset"   -> "value_error"

SignatureStatusUnset(e, d) ==
    IF e.provider = "none" THEN "null" ELSE Validate(e.provider, d, "current")

SignatureStatus(e, d) ==
    IF e.provider = "none" THEN "no_provider"
    ELSE CASE DecryptSecret(e.key) = "invalid_tag" -> "invalid"
           [] DecryptSecret(e.key) = "value_error" -> "raises"
           [] OTHER -> Validate(e.provider, d, DecryptSecret(e.key))

(* ---------------------------------------------------------------------- *)
(* The detector                                                            *)
(* ---------------------------------------------------------------------- *)

Parsable(d) == d.body.size <= ParseCap /\ d.body.utf8

FormParamsBelowCap(d) ==
    IF Parsable(d) /\ d.body.size < ParseCap /\ Has(d, {"form-content-type"}) THEN d.form ELSE {}

FormParams(d) == IF Parsable(d) /\ Has(d, {"form-content-type"}) THEN d.form ELSE {}

Evidence(provider, d) ==
    CASE provider = "stripe"  -> Has(d, {"stripe-signature"})
      [] provider = "github"  -> Has(d, {"x-github-event", "x-github-delivery"})
      [] provider = "shopify" -> Has(d, {"x-shopify-topic", "x-shopify-shop-domain"})
      [] provider = "twilio"  -> Has(d, {"x-twilio-signature"})
      [] provider = "mailgun" -> Has(d, {"x-mailgun-signature-v2"}) \/ FormParams(d) = FormFields
      [] provider = "discord" -> Has(d, {"x-signature-ed25519", "x-signature-timestamp"})
      [] provider = "slack"   -> Has(d, {"x-slack-signature", "x-slack-request-timestamp"})
      [] provider = "n8n"     -> Has(d, {"x-n8n-signature"})
      [] provider = "zapier"  -> d.zapier_agent

(* The places, in their order, of the detectors that know the webhook.     *)
Knowing(d) == {k \in DOMAIN Detectors : Evidence(Detectors[k], d)}

DetectAnywhere(d) == IF Knowing(d) = {} THEN "none" ELSE Detectors[Max(Knowing(d))]

DetectIntegration(d) == IF Knowing(d) = {} THEN "none" ELSE Detectors[Min(Knowing(d))]

(* Stripe's is in its JSON.                                                *)
EventType(integration, d) ==
    CASE integration = "stripe" /\ Parsable(d) /\ d.body.event -> "type"
      [] integration = "github"  -> "x-github-event"
      [] integration = "shopify" -> "x-shopify-topic"
      [] OTHER -> "none"

(* What raises is no capture: the sender is told 500.                      *)
CaptureWebhook ==
    /\ row.pc = "none"
    /\ LET status == SignatureStatus(endpoint, delivery)
           integration == DetectIntegration(delivery)
       IN row' = IF status = "raises" THEN [NoRow EXCEPT !.pc = "lost"]
                 ELSE [pc |-> "captured", signature_status |-> status,
                       integration |-> integration, event |-> EventType(integration, delivery)]
    /\ UNCHANGED <<endpoint, sent, delivery, hops>>

InboundNext == Relay \/ CaptureWebhook

(* ---------------------------------------------------------------------- *)
(* Properties                                                              *)
(* ---------------------------------------------------------------------- *)

(* What a provider's validator cannot judge: stripe.py:43, discord.py:40,  *)
(* slack.py:36 (a body that is not UTF-8), mailgun.py:31 and 39 (a large   *)
(* form, no form at all), twilio.py:13-21 (the URL).                       *)
Judgeable(sender, body) ==
    /\ sender.provider \in {"stripe", "discord", "slack"} => body.utf8
    /\ sender.provider = "mailgun" => sender.header = "form" /\ body.size <= MailgunCap
    /\ "url" \notin sender.covers

Judged == row.pc = "captured" /\ endpoint.provider # "none" /\ endpoint.key = "same"

(* capture_request.py:85-97 and the nine validators: a webhook is valid    *)
(* only if the provider signed it with the endpoint's secret and what it   *)
(* signed arrives as it was signed, and always if it arrives unchanged;    *)
(* one that arrives with its signature is never called unsigned.           *)
ValidIsAuthentic ==
    Judged =>
      LET sender == sent.sender
          mine == sender.provider = endpoint.provider /\ "current" \in Range(sent.keys)
          composed == Compose(sender, sent.keys, [delivery.body EXCEPT !.text = "b"])
          arrives == /\ composed.headers \subseteq delivery.headers
                     /\ composed.form = delivery.form
          unchanged == /\ arrives /\ delivery.value = "whole"
                       /\ delivery.timestamp = "t" /\ delivery.body.text = "b"
      IN /\ row.signature_status = "valid" =>
              /\ mine /\ delivery.value = "whole"
              /\ "body" \in sender.covers => delivery.body.text = "b"
              /\ "timestamp" \in sender.covers => delivery.timestamp = "t"
         /\ (mine /\ unchanged /\ Judgeable(sender, delivery.body)) =>
              row.signature_status = "valid"
         /\ (mine /\ arrives /\ Judgeable(sender, delivery.body)) =>
              row.signature_status # "missing"

(* integration_detector.py:131-153: whatever a relay adds, short of the    *)
(* whole evidence of another integration, a webhook that keeps its headers *)
(* is labelled with its sender, and the user agent counts only when        *)
(* nothing else does.                                                      *)
DetectedAsSent ==
    row.pc = "captured" =>
      LET sender == sent.sender
          composed == Compose(sender, sent.keys, delivery.body)
          others == {s.provider : s \in {x \in Senders : /\ x.provider \in {"github", "shopify"}
                                                        /\ x.marks \subseteq delivery.headers}}
      IN /\ ( /\ composed.headers \subseteq delivery.headers
              /\ composed.form = delivery.form
              /\ sender.header = "form" => Parsable(delivery)
              /\ others \subseteq {sender.provider} ) => row.integration = sender.provider
         /\ row.integration \in {sender.provider, "zapier", "none"} \cup others

(* The tables of hmac/ and of the detector agree (capture_request.py:      *)
(* 83-116): what is valid for a provider that is known by the header of    *)
(* its signature has a label, so that list_integrations counts it.         *)
AuthenticIsLabelled ==
    ( /\ Judged /\ row.signature_status = "valid"
      /\ endpoint.provider \notin {"github", "shopify", "zapier"}
      /\ endpoint.provider = "mailgun" =>
            Parsable(delivery) /\ "form-content-type" \in delivery.headers )
        => row.integration # "none"
=============================================================================
