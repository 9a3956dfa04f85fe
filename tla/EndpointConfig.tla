--------------------------- MODULE EndpointConfig ---------------------------
(***************************************************************************)
(* The life of the endpoints' rows: created under a slug, configured by    *)
(* their owners, flagged by the daily abuse scan, deleted by the cleaner.  *)
(*                                                                         *)
(* Every request is one READ COMMITTED transaction, committed after the    *)
(* response: a step is a statement, the response or the commit.  An insert *)
(* or an update waits for a transaction that wrote the same row.           *)
(***************************************************************************)
EXTENDS Integers, Sequences, FiniteSets, SequencesExt

CONSTANTS
    Slugs,                  \* that creators ask for: the words of each, hyphens included
    Creators, Owners,
    SecretsKey,             \* whether SECRETS_ENCRYPTION_KEY is set
    MinSuspiciousPosts,     \* MIN_SUSPICIOUS_POSTS (20)
    MaxIds, MaxChanges, MaxConfigFaults     \* bounds of the model

ASSUME ConfigAssumption == /\ Slugs \subseteq Seq(STRING) /\ SecretsKey \in BOOLEAN
                           /\ MinSuspiciousPosts \in Nat \ {0}
                           /\ MaxIds \in Nat /\ MaxChanges \in Nat
                           /\ MaxConfigFaults \in Nat

VARIABLES
    endpoints,      \* the committed row of each slug
    creator,        \* POST /api/endpoints, one each
    owner,          \* PATCH .../config, one at a time each
    scan,           \* the abuse scan
    traffic,        \* of each slug within 24 hours
    flags, alerts,  \* history: ids flagged, ids alerted
    lastId, changes, configFaults   \* used ids, and what is counted against the bounds

configVars == <<endpoints, creator, owner, scan, traffic, flags, alerts,
                lastId, changes, configFaults>>

None == "none"
NoSlug == <<>>

(* The sections a PATCH may name.  Their values are told apart as before   *)
(* and after a change; headers and secret of the forward follow its url.   *)
Settings == [signature : {None, "s1", "s2"}, forward : {None, "u1", "u2"},
             forward_headers : {None, "h1"}, forward_secret : {None, "k1"}]

Row == [id : 0 .. MaxIds, version : Nat, flagged : BOOLEAN, settings : Settings]

NoSettings == [signature |-> None, forward |-> None,
               forward_headers |-> None, forward_secret |-> None]

NoRow == [id |-> 0, version |-> 0, flagged |-> FALSE, settings |-> NoSettings]

Exists(slug) == endpoints[slug].id # 0

(* SignatureConfig has a secret, ForwardConfig may do without.             *)
Patches ==
    [signature : {"s1", "s2"}, forward : {None}, forward_headers : {None}, forward_secret : {None}]
    \cup [signature : {None}, forward : {"u1", "u2"},
          forward_headers : {None, "h1"}, forward_secret : {None, "k1"}]

Creator == [pc : {"new", "inserted", "answered", "over"}, slug : Slugs \cup {NoSlug},
            told : {0, 201, 400, 409}]

Owner == [pc : {"idle", "read", "written", "answered"}, slug : Slugs \cup {NoSlug},
          patch : Patches \cup {NoSettings}, row : Row, told : {0, 204, 404, 500}]

Scan == [pc : {"idle", "flagging", "committed"}, todo : SUBSET Slugs,
         done : SUBSET Slugs, rows : [Slugs -> Row]]

ConfigTypeOK ==
    /\ endpoints \in [Slugs -> Row]
    /\ creator \in [Creators -> Creator]
    /\ owner \in [Owners -> Owner]
    /\ scan \in Scan
    /\ traffic \in [Slugs -> [posts : 0 .. MinSuspiciousPosts, succeeded : BOOLEAN]]
    /\ flags \subseteq 1 .. MaxIds /\ alerts \subseteq 1 .. MaxIds
    /\ lastId \in 0 .. MaxIds
    /\ changes \in 0 .. MaxChanges /\ configFaults \in 0 .. MaxConfigFaults

IdleScan == [pc |-> "idle", todo |-> {}, done |-> {}, rows |-> [s \in Slugs |-> NoRow]]

IdleOwner == [pc |-> "idle", slug |-> NoSlug, patch |-> NoSettings, row |-> NoRow, told |-> 0]

NoTraffic == [posts |-> 0, succeeded |-> FALSE]

ConfigInit ==
    /\ endpoints = [s \in Slugs |-> NoRow]
    /\ creator = [c \in Creators |-> [pc |-> "new", slug |-> NoSlug, told |-> 0]]
    /\ owner = [o \in Owners |-> IdleOwner]
    /\ scan = IdleScan
    /\ traffic = [s \in Slugs |-> NoTraffic]
    /\ flags = {} /\ alerts = {}
    /\ lastId = 0 /\ changes = 0 /\ configFaults = 0

(* ---------------------------------------------------------------------- *)
(* CreateEndpoint                                                          *)
(* ---------------------------------------------------------------------- *)

RESERVED_SLUGS == {"api", "h", "health", "healthz", "stream", "static", "admin", "app", "hook",
                   "www", "assets", "docs", "stripe", "github", "slack", "shopify", "twilio",
                   "zapier", "discord"}

DENYLISTED_SUBSTRINGS ==
    {"stripe", "paypal", "square", "klarna", "google", "amazon", "microsoft", "apple", "facebook",
     "meta", "twitter", "tiktok", "openai", "anthropic", "github", "discord", "slack", "shopify",
     "twilio", "mailgun", "zapier", "n8n", "admin", "root", "system", "support", "verify", "login",
     "signin", "secure", "account-update", "password-reset"}

(* The pattern's lengths and letters are left to the words.                *)
MatchesSlugRe(slug) == slug # <<>> /\ Head(slug) # "-" /\ Last(slug) # "-"

AcceptSlug(slug) ==
    /\ \A word \in RESERVED_SLUGS : slug # <<word>>
    /\ MatchesSlugRe(slug)
    /\ Range(slug) \cap DENYLISTED_SUBSTRINGS = {}

(* What is on either side of each limit.                                   *)
Responses == [status_code : {99, 100, 599, 600}, delay_ms : {-1, 0, 30000, 30001},
              body_bytes : {0, 65536, 65537}, header : {"x-custom", "content-length"}]

AcceptResponse(response) ==
    /\ response.status_code \in 100 .. 599
    /\ response.delay_ms \in 0 .. 30000
    /\ response.body_bytes <= 65536
    /\ response.header \notin {"content-length", "transfer-encoding", "connection", "host", "date"}

(* Who asks for anything else is told 400.                                 *)
Acceptable == {s \in Slugs : AcceptSlug(s)}

Asked == {[slug |-> s, fits |-> s \in Acceptable /\ AcceptResponse(r)] : s \in Slugs, r \in Responses}

Inserting(slug) == \E c \in Creators : creator[c].slug = slug
                                          /\ creator[c].pc \in {"inserted", "answered"}

CreationOver(c, told) ==
    creator' = [creator EXCEPT ![c] = [pc |-> "over", slug |-> NoSlug, told |-> told]]

InsertUnindexed(c, asked) ==
    /\ creator[c].pc = "new" /\ asked.fits
    /\ creator' = [creator EXCEPT ![c] = [pc |-> "inserted", slug |-> asked.slug, told |-> 0]]
    /\ UNCHANGED <<endpoints, owner, scan, traffic, flags, alerts, lastId, changes, configFaults>>

(* The flush waits for an insert of the same token, and fails if it is     *)
(* there.                                                                  *)
InsertEndpoint(c, asked) ==
    /\ creator[c].pc = "new"
    /\ \/ ~asked.fits /\ CreationOver(c, 400)
       \/ asked.fits /\ ~Inserting(asked.slug) /\ Exists(asked.slug) /\ CreationOver(c, 409)
       \/ /\ asked.fits /\ ~Inserting(asked.slug) /\ ~Exists(asked.slug)
          /\ creator' = [creator EXCEPT ![c] = [pc |-> "inserted", slug |-> asked.slug, told |-> 0]]
    /\ UNCHANGED <<endpoints, owner, scan, traffic, flags, alerts, lastId, changes, configFaults>>

AnswerCreated(c) ==
    /\ creator[c].pc = "inserted"
    /\ creator' = [creator EXCEPT ![c].pc = "answered", ![c].told = 201]
    /\ UNCHANGED <<endpoints, owner, scan, traffic, flags, alerts, lastId, changes, configFaults>>

CommitCreated(c) ==
    /\ creator[c].pc = "answered" /\ lastId < MaxIds
    /\ CreationOver(c, 201)
    /\ endpoints' = [endpoints EXCEPT ![creator[c].slug] = [NoRow EXCEPT !.id = lastId + 1]]
    /\ traffic' = [traffic EXCEPT ![creator[c].slug] = NoTraffic]
    /\ lastId' = lastId + 1
    /\ UNCHANGED <<owner, scan, flags, alerts, changes, configFaults>>

(* ---------------------------------------------------------------------- *)
(* UpdateEndpointConfig                                                    *)
(* ---------------------------------------------------------------------- *)

(* The transactions that wrote this row and have not committed.            *)
Locked(slug, id) ==
    \/ \E o \in Owners : owner[o].slug = slug /\ owner[o].row.id = id
                            /\ owner[o].pc \in {"written", "answered"}
    \/ scan.pc = "flagging" /\ slug \in scan.done /\ scan.rows[slug].id = id

(* find_by_token, and _to_entity of the whole row.                         *)
ReadConfig(o, slug, patch) ==
    /\ owner[o].pc = "idle" /\ changes < MaxChanges
    /\ changes' = changes + 1
    /\ owner' = [owner EXCEPT ![o] =
         IF Exists(slug)
         THEN [pc |-> "read", slug |-> slug, patch |-> patch, row |-> endpoints[slug], told |-> 0]
         ELSE [IdleOwner EXCEPT !.told = 404]]
    /\ UNCHANGED <<endpoints, creator, scan, traffic, flags, alerts, lastId, configFaults>>

(* What the use case makes of the row it read: headers are replaced with   *)
(* the url, a secret only when one is given.                               *)
Merged(settings, patch) ==
    LET names == patch.forward # None IN
    [signature |-> IF patch.signature # None THEN patch.signature ELSE settings.signature,
     forward |-> IF names THEN patch.forward ELSE settings.forward,
     forward_headers |-> IF names THEN patch.forward_headers ELSE settings.forward_headers,
     forward_secret |-> IF names /\ patch.forward_secret # None
                        THEN patch.forward_secret ELSE settings.forward_secret]

NeedsKey(patch) == patch.signature # None \/ patch.forward_secret # None

(* The UPDATE sets every column but the count from the entity, by id.      *)
WriteConfig(o) ==
    /\ owner[o].pc = "read"
    /\ LET slug == owner[o].slug
           row == owner[o].row
       IN /\ ~Locked(slug, row.id)
          /\ owner' = [owner EXCEPT ![o] =
               IF NeedsKey(owner[o].patch) /\ ~SecretsKey THEN [IdleOwner EXCEPT !.told = 500]
               ELSE IF endpoints[slug].id # row.id THEN [IdleOwner EXCEPT !.told = 404]
               ELSE [owner[o] EXCEPT !.pc = "written"]]
    /\ UNCHANGED <<endpoints, creator, scan, traffic, flags, alerts, lastId, changes, configFaults>>

AnswerConfig(o) ==
    /\ owner[o].pc = "written"
    /\ owner' = [owner EXCEPT ![o].pc = "answered", ![o].told = 204]
    /\ UNCHANGED <<endpoints, creator, scan, traffic, flags, alerts, lastId, changes, configFaults>>

CommitUnflagged(o) ==
    /\ owner[o].pc = "answered"
    /\ endpoints' = [endpoints EXCEPT ![owner[o].slug] =
         [id |-> @.id, version |-> @.version + 1, flagged |-> FALSE,
          settings |-> Merged(owner[o].row.settings, owner[o].patch)]]
    /\ owner' = [owner EXCEPT ![o] = [IdleOwner EXCEPT !.told = 204]]
    /\ UNCHANGED <<creator, scan, traffic, flags, alerts, lastId, changes, configFaults>>

CommitConfig(o) ==
    /\ owner[o].pc = "answered"
    /\ endpoints' = [endpoints EXCEPT ![owner[o].slug] =
         [id |-> @.id, version |-> @.version + 1, flagged |-> owner[o].row.flagged,
          settings |-> Merged(owner[o].row.settings, owner[o].patch)]]
    /\ owner' = [owner EXCEPT ![o] = [IdleOwner EXCEPT !.told = 204]]
    /\ UNCHANGED <<creator, scan, traffic, flags, alerts, lastId, changes, configFaults>>

(* ---------------------------------------------------------------------- *)
(* The abuse scan                                                          *)
(* ---------------------------------------------------------------------- *)

IsSuspicious(slug) ==
    /\ traffic[slug].posts >= MinSuspiciousPosts
    /\ ~traffic[slug].succeeded

(* One statement counts; the heuristic judges its rows.                    *)
StartScan ==
    /\ scan.pc = "idle"
    /\ \E s \in Slugs : Exists(s) /\ ~endpoints[s].flagged /\ IsSuspicious(s)
    /\ scan' = [pc |-> "flagging", done |-> {}, rows |-> endpoints,
                todo |-> {s \in Slugs : Exists(s) /\ ~endpoints[s].flagged /\ IsSuspicious(s)}]
    /\ UNCHANGED <<endpoints, creator, owner, traffic, flags, alerts, lastId, changes, configFaults>>

(* An UPDATE by id waits for the row; the row may be gone.                 *)
FlagEndpoint(slug) ==
    /\ scan.pc = "flagging" /\ slug \in scan.todo
    /\ ~\E o \in Owners : owner[o].slug = slug /\ owner[o].row.id = scan.rows[slug].id
                             /\ owner[o].pc \in {"written", "answered"}
    /\ scan' = [scan EXCEPT !.todo = @ \ {slug}, !.done = @ \cup {slug}]
    /\ UNCHANGED <<endpoints, creator, owner, traffic, flags, alerts, lastId, changes, configFaults>>

Flagged == {s \in scan.done : endpoints[s].id = scan.rows[s].id}

CommitScan ==
    /\ scan.pc = "flagging" /\ scan.todo = {}
    /\ scan' = [scan EXCEPT !.pc = "committed"]
    /\ endpoints' = [s \in Slugs |->
         IF s \in Flagged THEN [endpoints[s] EXCEPT !.flagged = TRUE, !.version = @ + 1]
                          ELSE endpoints[s]]
    /\ flags' = flags \cup {endpoints[s].id : s \in Flagged}
    /\ UNCHANGED <<creator, owner, traffic, alerts, lastId, changes, configFaults>>

AlertUncommitted ==
    /\ scan.pc = "flagging" /\ scan.todo = {}
    /\ scan' = IdleScan
    /\ alerts' = alerts \cup {scan.rows[s].id : s \in scan.done}
    /\ UNCHANGED <<endpoints, creator, owner, traffic, flags, lastId, changes, configFaults>>

PostAlert ==
    /\ scan.pc = "committed"
    /\ scan' = IdleScan
    /\ alerts' = alerts \cup {scan.rows[s].id : s \in scan.done}
    /\ UNCHANGED <<endpoints, creator, owner, traffic, flags, lastId, changes, configFaults>>

(* ---------------------------------------------------------------------- *)
(* The rest of the system                                                  *)
(* ---------------------------------------------------------------------- *)

CapturePost(slug) ==
    /\ Exists(slug) /\ traffic[slug].posts < MinSuspiciousPosts
    /\ traffic' = [traffic EXCEPT ![slug].posts = @ + 1]
    /\ UNCHANGED <<endpoints, creator, owner, scan, flags, alerts, lastId, changes, configFaults>>

ForwardSucceeds(slug) ==
    /\ Exists(slug) /\ endpoints[slug].settings.forward # None
    /\ traffic[slug].posts > 0 /\ ~traffic[slug].succeeded
    /\ traffic' = [traffic EXCEPT ![slug].succeeded = TRUE]
    /\ UNCHANGED <<endpoints, creator, owner, scan, flags, alerts, lastId, changes, configFaults>>

(* The cleaner waits for the locks of the row.                             *)
DeleteExpiredEndpoint(slug) ==
    /\ Exists(slug) /\ ~Locked(slug, endpoints[slug].id)
    /\ endpoints' = [endpoints EXCEPT ![slug] = NoRow]
    /\ UNCHANGED <<creator, owner, scan, traffic, flags, alerts, lastId, changes, configFaults>>

ConfigFault == configFaults < MaxConfigFaults /\ configFaults' = configFaults + 1

(* The web process dies, or its connection does, before a commit.          *)
RequestsLost ==
    /\ \/ \E c \in Creators : creator[c].pc \in {"inserted", "answered"}
       \/ \E o \in Owners : owner[o].pc # "idle"
    /\ ConfigFault
    /\ creator' = [c \in Creators |-> IF creator[c].pc \in {"inserted", "answered"}
                                      THEN [creator[c] EXCEPT !.pc = "over", !.slug = NoSlug]
                                      ELSE creator[c]]
    /\ owner' = [o \in Owners |-> IdleOwner]
    /\ UNCHANGED <<endpoints, scan, traffic, flags, alerts, lastId, changes>>

(* The scan dies anywhere, or its alert is refused and that is logged.     *)
ScanLost ==
    /\ scan.pc # "idle"
    /\ ConfigFault
    /\ scan' = IdleScan
    /\ UNCHANGED <<endpoints, creator, owner, traffic, flags, alerts, lastId, changes>>

ConfigNext ==
    \/ \E c \in Creators :
         \/ \E asked \in Asked : InsertEndpoint(c, asked)
         \/ AnswerCreated(c) \/ CommitCreated(c)
    \/ \E o \in Owners :
         \/ \E s \in Slugs, p \in Patches : ReadConfig(o, s, p)
         \/ WriteConfig(o) \/ AnswerConfig(o) \/ CommitConfig(o)
    \/ \E s \in Slugs :
         \/ FlagEndpoint(s) \/ CapturePost(s) \/ ForwardSucceeds(s) \/ DeleteExpiredEndpoint(s)
    \/ StartScan \/ CommitScan \/ PostAlert \/ RequestsLost \/ ScanLost

(* ---------------------------------------------------------------------- *)
(* Properties                                                              *)
(* ---------------------------------------------------------------------- *)

(* endpoint_repository.py:18-43: whoever creates under a slug in use, or   *)
(* being inserted by another, never takes it over: a row leaves its slug   *)
(* only by deletion.                                                       *)
NeverTakenOver ==
    [][\A s \in Slugs : (Exists(s) /\ endpoints'[s].id # endpoints[s].id)
                          => endpoints'[s] = NoRow]_configVars

(* update_endpoint_config.py:23-42 writes the whole row back: a section    *)
(* the PATCH does not name, and the flag, survive every PATCH that read    *)
(* the row as it is; only one that read an older row loses them.           *)
SettingsSurvive ==
    [][\A o \in Owners : LET slug == owner[o].slug
                             patch == owner[o].patch
                         IN (owner[o].pc = "answered" /\ owner'[o].pc = "idle"
                             /\ endpoints' # endpoints
                             /\ owner[o].row = endpoints[slug]) =>
         /\ endpoints'[slug].flagged = endpoints[slug].flagged
         /\ patch.signature = None =>
              endpoints'[slug].settings.signature = endpoints[slug].settings.signature
         /\ patch.forward = None =>
              [endpoints'[slug].settings EXCEPT !.signature = None]
                = [endpoints[slug].settings EXCEPT !.signature = None]
         /\ endpoints[slug].settings.forward_secret # None =>
              endpoints'[slug].settings.forward_secret # None]_configVars

(* abuse_scan.py:90-115: an alert names only endpoints whose flag is       *)
(* committed, or which the cleaner deleted under the scan.                 *)
AlertedWasFlagged ==
    \A id \in alerts : id \in flags \/ \A s \in Slugs : endpoints[s].id # id
=============================================================================
