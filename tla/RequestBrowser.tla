--------------------------- MODULE RequestBrowser ---------------------------
(***************************************************************************)
(* What an owner does with the requests of an endpoint: page through them  *)
(* (and through their forwards), export them, replay one, while more are   *)
(* captured and the cleaner deletes the endpoint.                          *)
(*                                                                         *)
(* Requests are named by the order of their ids, which is unrelated to the *)
(* order of their arrival: received_at is taken when a request is          *)
(* captured, its row is visible only when that transaction commits, and    *)
(* two requests may share an instant.  Clients do not affect each other:   *)
(* a behaviour has one, and requests differ in what that one looks at.     *)
(***************************************************************************)
EXTENDS Integers, Sequences, FiniteSets, SequencesExt, ReplayTarget

CONSTANTS
    MaxId,              \* requests that may arrive
    Limit,              \* of a page (1 .. 200)
    ExportMax,          \* export_max_requests
    Bodies,             \* kinds of body to replay
    MaxInstant, MaxPages, MaxBrowseFaults   \* bounds of the model

Ids == 1 .. MaxId

NoId == 0

(* A small body inline, a blob, a blob that is gone, and one above         *)
(* MAX_REPLAY_BODY_BYTES.                                                  *)
BodyClasses == {"inline", "blob", "lost_blob", "large"}

ASSUME BrowserAssumption == /\ MaxId \in Nat /\ Limit \in Nat \ {0}
                            /\ ExportMax \in Nat \ {0}
                            /\ Bodies \subseteq BodyClasses
                            /\ MaxInstant \in Nat /\ MaxPages \in Nat
                            /\ MaxBrowseFaults \in Nat

VARIABLES
    client,         \* what the client of this behaviour does
    now,
    requests,       \* the requests: in flight, visible or deleted
    live,           \* whether the endpoint is
    listing,        \* a client that pages
    stable,         \* history: what the listing matched from its first page on
    export,         \* a client that exports
    replay,         \* a client that replays
    replays,        \* rows of the replays table
    pages, browseFaults     \* counted against the bounds

browseVars == <<client, now, requests, live, listing, stable, export, replay, replays,
                pages, browseFaults>>

Clients == {"lists", "exports", "replays"}

Request == [state : {"none", "open", "visible", "deleted"}, received_at : 0 .. MaxInstant,
            matches : BOOLEAN, body : BodyClasses]

Listing == [pc : {"idle", "paging", "done"}, kind : {"requests", "forwards"},
            before_id : Ids \cup {NoId}, got : Seq(Ids), gone : BOOLEAN]

(* Of the rows that its statement selected an export has sent the first.   *)
Export == [pc : {"idle", "counted", "streaming", "done", "broken", "refused"},
           total : 0 .. MaxId, rows : Seq(Ids), sent : Nat]

(* What README.md:198 says of a target, but for the one range that it      *)
(* lists and the guard lets pass.                                          *)
Targets == {"fit", "shared", "unfit"}

Replay == [pc : {"idle", "authorized", "validated", "sent", "recorded", "over"},
           id : Ids \cup {NoId}, body : {"none", "empty", "inline", "blob"},
           target : Targets,
           outcome : {"none", "answered", "answered_nul", "blocked", "network_error"},
           told : {"none", "replay", "404", "413", "500"}, sent : BOOLEAN]

BrowserTypeOK ==
    /\ client \in Clients
    /\ now \in 0 .. MaxInstant
    /\ requests \in [Ids -> Request]
    /\ live \in BOOLEAN
    /\ listing \in Listing
    /\ stable \subseteq Ids
    /\ export \in Export
    /\ replay \in Replay
    /\ replays \subseteq Ids
    /\ pages \in 0 .. MaxPages /\ browseFaults \in 0 .. MaxBrowseFaults

NoRequest == [state |-> "none", received_at |-> 0, matches |-> TRUE, body |-> "inline"]

IdleReplay == [pc |-> "idle", id |-> NoId, body |-> "none", target |-> "fit", outcome |-> "none",
               told |-> "none", sent |-> FALSE]

BrowserInit ==
    /\ client \in Clients
    /\ now = 0
    /\ requests = [i \in Ids |-> NoRequest]
    /\ live = TRUE
    /\ listing \in [pc : {"idle"}, kind : {"requests", "forwards"}, before_id : {NoId},
                    got : {<<>>}, gone : {FALSE}]
    /\ stable = {}
    /\ export = [pc |-> "idle", total |-> 0, rows |-> <<>>, sent |-> 0]
    /\ replay = IdleReplay
    /\ replays = {}
    /\ pages = 0 /\ browseFaults = 0

Visible == {i \in Ids : requests[i].state = "visible"}

BrowseFault == browseFaults < MaxBrowseFaults /\ browseFaults' = browseFaults + 1

(* ---------------------------------------------------------------------- *)
(* Captures, and what changes under the owner                              *)
(* ---------------------------------------------------------------------- *)

PassTime ==
    /\ now < MaxInstant
    /\ now' = now + 1
    /\ UNCHANGED <<client, requests, live, listing, stable, export, replay, replays, pages, browseFaults>>

Arrive(i, new) ==
    /\ live /\ requests[i].state = "none"
    /\ requests' = [requests EXCEPT ![i] = [new EXCEPT !.state = "open", !.received_at = now]]
    /\ UNCHANGED <<client, now, live, listing, stable, export, replay, replays, pages, browseFaults>>

(* A search finds some requests, a filter some forwards.                   *)
CaptureArrives(i) ==
    \/ client = "lists" /\ \E m \in BOOLEAN : Arrive(i, [NoRequest EXCEPT !.matches = m])
    \/ client = "exports" /\ Arrive(i, NoRequest)
    \/ client = "replays" /\ \E b \in Bodies : Arrive(i, [NoRequest EXCEPT !.body = b])

CaptureCommits(i) ==
    /\ requests[i].state = "open"
    /\ requests' = [requests EXCEPT ![i].state = "visible"]
    /\ UNCHANGED <<client, now, live, listing, stable, export, replay, replays, pages, browseFaults>>

(* The status of a forward changes, so that a filter loses or gains it.    *)
ForwardChanges(i) ==
    /\ listing.kind = "forwards" /\ listing.pc = "paging"
    /\ requests[i].state = "visible"
    /\ requests' = [requests EXCEPT ![i].matches = ~@]
    /\ stable' = stable \ {i}
    /\ UNCHANGED <<client, now, live, listing, export, replay, replays, pages, browseFaults>>

(* The cleaner waits for the captures; the delete cascades to the requests,*)
(* their forwards and their replays.                                       *)
DeleteEndpoint ==
    /\ live /\ \A i \in Ids : requests[i].state # "open"
    /\ live' = FALSE
    /\ requests' = [i \in Ids |-> IF requests[i].state = "visible"
                                  THEN [requests[i] EXCEPT !.state = "deleted"] ELSE requests[i]]
    /\ replays' = {}
    /\ UNCHANGED <<client, now, listing, stable, export, replay, pages, browseFaults>>

(* ---------------------------------------------------------------------- *)
(* Pages                                                                   *)
(* ---------------------------------------------------------------------- *)

(* ORDER BY received_at DESC, id DESC.                                     *)
Before(i, j) ==
    \/ requests[i].received_at < requests[j].received_at
    \/ requests[i].received_at = requests[j].received_at /\ i < j

(* The k-th row has k - 1 newer ones.                                      *)
NewestFirst(ids, most) ==
    [k \in 1 .. (IF Cardinality(ids) < most THEN Cardinality(ids) ELSE most) |->
        CHOOSE i \in ids : Cardinality({j \in ids : Before(i, j)}) = k - 1]

Matching == {i \in Visible : requests[i].matches}

PageBelowInstant(before_id) ==
    NewestFirst(IF before_id \in Visible
                THEN {i \in Matching : requests[i].received_at < requests[before_id].received_at}
                ELSE Matching, Limit)

(* The rows below the cursor's own row; a cursor that is not found is      *)
(* ignored.                                                                *)
Page(before_id) ==
    NewestFirst(IF before_id \in Visible THEN {i \in Matching : Before(i, before_id)}
                                         ELSE Matching, Limit)

(* find_by_token, then one page; there may be more after a full one.       *)
ListPage ==
    /\ client = "lists"
    /\ listing.pc \in {"idle", "paging"} /\ pages < MaxPages
    /\ pages' = pages + 1
    /\ stable' = IF listing.pc = "idle" THEN Matching ELSE stable
    /\ LET items == Page(listing.before_id) IN
         listing' = IF ~live THEN [listing EXCEPT !.pc = "done", !.gone = TRUE]
                    ELSE [listing EXCEPT
                            !.got = @ \o items,
                            !.pc = IF Len(items) = Limit THEN "paging" ELSE "done",
                            !.before_id = IF Len(items) = Limit THEN Last(items) ELSE @]
    /\ UNCHANGED <<client, now, requests, live, export, replay, replays, browseFaults>>

ListRequests == listing.kind = "requests" /\ ListPage

ListForwards == listing.kind = "forwards" /\ ListPage

(* ---------------------------------------------------------------------- *)
(* Export                                                                  *)
(* ---------------------------------------------------------------------- *)

CountByEndpoint == Cardinality(Visible)

CountUncapped ==
    /\ client = "exports" /\ export.pc = "idle" /\ live
    /\ export' = [export EXCEPT !.pc = "counted", !.total = CountByEndpoint]
    /\ UNCHANGED <<client, now, requests, live, listing, stable, replay, replays, pages, browseFaults>>

ExportRefused == ~live \/ CountByEndpoint > ExportMax

(* The count is a statement of its own: it goes into the header, or the    *)
(* answer is 404 or 413.                                                   *)
CountForExport ==
    /\ client = "exports" /\ export.pc = "idle"
    /\ export' = IF ExportRefused
                 THEN [export EXCEPT !.pc = "refused"]
                 ELSE [export EXCEPT !.pc = "counted", !.total = CountByEndpoint]
    /\ UNCHANGED <<client, now, requests, live, listing, stable, replay, replays, pages, browseFaults>>

StreamForExport == NewestFirst(Visible, ExportMax)

(* The header is the first chunk, the answer 200; then comes a statement   *)
(* of its own, whose rows are those of its snapshot, however long it       *)
(* streams.                                                                *)
SelectForExport ==
    /\ export.pc = "counted"
    /\ export' = [export EXCEPT !.pc = "streaming", !.rows = StreamForExport]
    /\ UNCHANGED <<client, now, requests, live, listing, stable, replay, replays, pages, browseFaults>>

(* A row with its body, which is null once the blob is gone.               *)
StreamRow ==
    /\ export.pc = "streaming" /\ export.sent < Len(export.rows)
    /\ export' = [export EXCEPT !.sent = @ + 1]
    /\ UNCHANGED <<client, now, requests, live, listing, stable, replay, replays, pages, browseFaults>>

StreamEnds ==
    /\ export.pc = "streaming" /\ export.sent = Len(export.rows)
    /\ export' = [export EXCEPT !.pc = "done"]
    /\ UNCHANGED <<client, now, requests, live, listing, stable, replay, replays, pages, browseFaults>>

(* The statement, a fetch of its cursor or the read of a blob raises: the  *)
(* answer has begun and is cut off.                                        *)
StreamBreaks ==
    /\ export.pc \in {"counted", "streaming"}
    /\ BrowseFault
    /\ export' = [export EXCEPT !.pc = "broken"]
    /\ UNCHANGED <<client, now, requests, live, listing, stable, replay, replays, pages>>

(* ---------------------------------------------------------------------- *)
(* Replay                                                                  *)
(* ---------------------------------------------------------------------- *)

ReplayOver(told) == replay' = [replay EXCEPT !.pc = "over", !.told = told]

BodyToSendUnread(body) == body

(* A blob that is gone is read as an empty body.                           *)
BodyToSend(body) == IF body = "lost_blob" THEN "empty" ELSE body

(* TX1: the endpoint, a request of it, its body; then the cap on the body. *)
AuthorizeReplay(i, include_body) ==
    /\ client = "replays" /\ replay.pc = "idle"
    /\ LET body == BodyToSend(requests[i].body) IN
         IF ~live \/ i \notin Visible THEN ReplayOver("404")
         ELSE IF include_body /\ body = "large" THEN ReplayOver("413")
         ELSE replay' = [replay EXCEPT !.pc = "authorized", !.id = i,
                                       !.body = IF include_body THEN body ELSE "empty"]
    /\ UNCHANGED <<client, now, requests, live, listing, stable, export, replays, pages, browseFaults>>

(* The store answers anything but the blob or its absence.                 *)
BlobUnread(i) ==
    /\ client = "replays" /\ replay.pc = "idle"
    /\ live /\ i \in Visible /\ requests[i].body # "inline"
    /\ BrowseFault
    /\ ReplayOver("500")
    /\ UNCHANGED <<client, now, requests, live, listing, stable, export, replays, pages>>

(* History: whether the URL may be sent to, as README.md:198 has it, which *)
(* reads a host as the name of a machine and asks for a public address.    *)
(* 100.64.0.0/10 is on its list of what is rejected, not on the guard's.   *)
Reached(url, resolution) ==
    IF url.host.literal = "none" THEN resolution.ips ELSE {url.host.literal}

TargetOf(url, resolution) ==
    IF \/ url.userinfo \/ url.port \notin {80, 443}
       \/ url.host.labels \in {OwnDomain, <<"app">> \o OwnDomain}
       \/ ~(Reached(url, resolution) \subseteq {"public", "shared"})
       \/ Reached(url, resolution) = {}
    THEN "unfit"
    ELSE IF "shared" \in Reached(url, resolution) THEN "shared" ELSE "fit"

Validations == {[verdict |-> Validate(url, resolution), target |-> TargetOf(url, resolution)] :
                  url \in Urls, resolution \in Resolutions}

(* What is blocked is recorded, what raises told 500.                      *)
ValidateReplay ==
    /\ replay.pc = "authorized"
    /\ \E v \in Validations :
         replay' = CASE v.verdict = "valid" ->
                          [replay EXCEPT !.pc = "validated", !.target = v.target]
                     [] v.verdict = "blocked" ->
                          [replay EXCEPT !.pc = "sent", !.outcome = "blocked", !.target = v.target]
                     [] v.verdict = "raises" ->
                          [replay EXCEPT !.pc = "over", !.told = "500", !.target = v.target]
    /\ UNCHANGED <<client, now, requests, live, listing, stable, export, replays, pages, browseFaults>>

(* Whatever goes wrong, timeouts included, is a network error.             *)
Answers == {"answered", "answered_nul", "network_error"}

SendReplay ==
    /\ replay.pc = "validated"
    /\ \E outcome \in Answers :
         replay' = [replay EXCEPT !.pc = "sent", !.outcome = outcome, !.sent = TRUE]
    /\ UNCHANGED <<client, now, requests, live, listing, stable, export, replays, pages, browseFaults>>

(* The row references its request, and Postgres stores no NUL.             *)
CanSave == replay.id \in Visible /\ replay.outcome # "answered_nul"

RecordReplayQuietly ==
    /\ replay.pc = "sent"
    /\ replays' = IF CanSave
                  THEN replays \cup {replay.id} ELSE replays
    /\ replay' = [replay EXCEPT !.pc = "recorded"]
    /\ UNCHANGED <<client, now, requests, live, listing, stable, export, pages, browseFaults>>

(* TX2 commits before the answer.                                          *)
RecordReplay ==
    /\ replay.pc = "sent"
    /\ IF CanSave
       THEN /\ replays' = replays \cup {replay.id}
            /\ replay' = [replay EXCEPT !.pc = "recorded"]
       ELSE ReplayOver("500") /\ UNCHANGED replays
    /\ UNCHANGED <<client, now, requests, live, listing, stable, export, pages, browseFaults>>

AnswerReplay ==
    /\ replay.pc = "recorded"
    /\ ReplayOver("replay")
    /\ UNCHANGED <<client, now, requests, live, listing, stable, export, replays, pages, browseFaults>>

ReplayLost ==
    /\ replay.pc \notin {"idle", "over"}
    /\ BrowseFault
    /\ ReplayOver("none")
    /\ UNCHANGED <<client, now, requests, live, listing, stable, export, replays, pages>>

BrowseNext ==
    \/ PassTime
    \/ \E i \in Ids : CaptureArrives(i) \/ CaptureCommits(i) \/ ForwardChanges(i)
    \/ DeleteEndpoint
    \/ ListRequests \/ ListForwards \/ CountForExport
    \/ SelectForExport \/ StreamRow \/ StreamEnds \/ StreamBreaks
    \/ \E i \in Ids : BlobUnread(i) \/ \E include_body \in BOOLEAN : AuthorizeReplay(i, include_body)
    \/ ValidateReplay \/ SendReplay \/ RecordReplay \/ AnswerReplay \/ ReplayLost

(* ---------------------------------------------------------------------- *)
(* Properties                                                              *)
(* ---------------------------------------------------------------------- *)

(* request_repository.py:52-87 and forward_repository.py:116-150: a client *)
(* that follows next_before_id to the end has every row that matched all   *)
(* along, none of them twice, newest first, whatever is captured, shares   *)
(* an instant or changes meanwhile.                                        *)
PagesComplete ==
    /\ \A m, n \in DOMAIN listing.got : m < n => Before(listing.got[n], listing.got[m])
    /\ (listing.pc = "done" /\ ~listing.gone) => stable \subseteq Range(listing.got)

(* export_requests.py:33-77 counts, tells, then selects with a limit, and  *)
(* may fail while it streams.  The file lists the newest first, none of    *)
(* them twice, never above the cap; a complete one never has fewer rows    *)
(* than its header declares, unless the endpoint was deleted in between.   *)
(* It may have more, what was captured between the two statements, so that *)
(* README.md:288, "the count of rows in the array", does not hold to the   *)
(* letter; one that broke off may have fewer, and is no JSON.              *)
ExportAsDeclared ==
    /\ export.sent <= ExportMax
    /\ \A m, n \in 1 .. export.sent : m < n => Before(export.rows[n], export.rows[m])
    /\ export.pc = "done" =>
         export.sent >= export.total \/ (~live /\ export.sent = 0)

(* replay_request.py:106-156: whoever is answered with a replay finds it   *)
(* stored, as long as the request is there.                                *)
ToldReplayIsStored ==
    (replay.told = "replay" /\ replay.id \in Visible) => replay.id \in replays

(* safe_replay_target.py:82-114: nothing is sent to a URL that README.md:  *)
(* 198 says is refused, however its host is written and whichever of its   *)
(* addresses resolves first, and what is fit is not refused; excepted is   *)
(* shared address space (100.64.0.0/10), listed there as refused, which    *)
(* ipaddress does not call private and the guard sends to.                 *)
OnlyFitIsSent ==
    /\ replay.sent => replay.target \in {"fit", "shared"}
    /\ replay.outcome = "blocked" => replay.target = "unfit"
=============================================================================
