# hooktrace in TLA+

hooktrace captures webhooks at public URLs, shows them live, forwards each one
to a target of the endpoint's owner with retries, and lets the owner replay,
export and search them. This directory holds its formal model: TLA+ modules, the
TLC runs that check them on small instances, and proofs, checked by TLAPS, of the
theorems that hold for every instance. Paths below are relative to
`src/src/webhook_inspector/`. `PROJECT.json` lists components, runs, mutants,
hazards and theorems, and maps every definition to the lines it models.

## 1. The system

Four kinds of process share one Postgres database (READ COMMITTED) and one Redis.

| Process | Code | Shared state it touches |
|---|---|---|
| ingestor (several) | `web/ingestor/` | inserts requests and forwards, counts, NOTIFY; arq queue; rate limits |
| web (several) | `web/app/` | endpoints, forwards, replays; arq queue; LISTEN; rate limits |
| worker (several, `max_jobs` slots each) | `jobs/worker.py`, `jobs/abuse_scan.py` | forwards; arq queue; endpoint flags |
| cleaner (daily) | `jobs/cleaner.py` | deletes expired endpoints, cascading |

### Components, what they keep, what makes them correct

| Component | State | Operations | Hard behaviour | Correct when | Status |
|---|---|---|---|---|---|
| Forward pipeline | `forwards` rows, arq jobs, worker slots, open transactions | capture, retry, redrive, abandon, claim, HTTP, record, re-enqueue, expiry | two transactions around an HTTP call, duplicate jobs, crashes, timeouts, lost and early enqueues, row locks held across Redis calls | one attempt at a time, outcomes land on their attempt, bounded attempts, what failed is scheduled, what somebody redrives is settled | modelled and proved |
| Retry decision | none | `decide` | boundaries of status classes and of the backoff table | the published schedule | modelled and proved |
| Capture | requests, blobs, request count | `CaptureRequest.execute` and its transaction | blob write outside the transaction, swallowed failures inside it, an answer before the commit | a capture is whole or absent, a stored key leads to a blob, the count is exact | modelled and proved |
| Rate limiter | sorted sets in Redis, cached script SHA | `__call__`, `enforce_token_limit` | boundary of the window, equal timestamps, clock skew, lazy start-up, script cache lost, keys lost | never more than `limit` in a window while Redis keeps its keys; exact Retry-After | modelled and proved |
| Live stream | listen connection, reader task, subscriber queues | start, stop, subscribe, read loop, SSE generator | reader crash against start and subscribe under and outside the lock | each capture once, in commit order, to every subscriber of a live reader | modelled and proved |
| Endpoint configuration, abuse scan | endpoint rows | create, PATCH, flag, alert | racing creations, read-modify-write of whole rows, alert after the commit | a slug is never taken over; what a PATCH does not name survives it | modelled and proved |
| Export, listings | cursors | keyset pages, streamed export | rows inserted, changed and deleted between pages and statements, a failure in mid-stream | every row that stays is returned once, a complete export has what it declared | modelled and proved |
| Replay | replay rows | authorize, validate, send, record | request deleted between its transactions, an answer that cannot be stored | who is answered with a replay finds it stored | modelled and proved |
| Signatures, integration detection | none | nine validators, nine detectors | key rotation, parts and headers missing, caps that differ | valid means authentic; what is valid has a label | modelled and proved |
| Outbound targets | none | `validate`, `send` | spellings of a host, DNS answers | nothing unfit is sent to, nothing fit refused (section 4 has one exception) | partly |
| Slugs, response settings | none | `validate_slug`, `is_denylisted`, `Endpoint.create` | two lists of words that must agree | what is created is acceptable | partly |
| Cleaner | expiry times | `delete_expired` | cascades into everything above | nothing uses what it deleted | modelled |
| Blob storage, forwarded headers, secrets | external stores, fixed tables | put, get, decrypt | | | partly: by their outcomes |
| Integrations cross-tab | none | one GROUP BY | | | not modelled: a read |
| Observability, configuration, templates | | | | | not modelled: nothing reads what they write |

### How the forward pipeline's parts interact

    capture ──insert──► forwards row ◄──TX1 claim / TX2 record── worker slot
       │                   ▲    ▲                                  ▲   │
       └─enqueue(f, 0)─┐   │    └── reclaim ── redrive             │   │ enqueue(f, backoff)
                       ▼   │                     │                 │   │
    retry ─enqueue──► arq jobs (one per f and defer) ◄─enqueue─────┼───┘
       └──update row───────┘         └──────── start ──────────────┘

The database row is the only lock: a worker that claims a row owns it until it
records an outcome, whatever the queue does. The queue is the only clock: a
retry's delay exists nowhere but in its job's deferral.

## 2. Modules

| Module | Models | Correspondence |
|---|---|---|
| `ForwardDecision` | `application/use_cases/forward_decision.py`, `RETRY_BACKOFFS` | `Decide` is `decide()`; a status of 0 is "no response" |
| `ForwardRepository` | the statements of `infrastructure/repositories/forward_repository.py` | `X_Where(r)` is a statement's WHERE clause, `X_Set(r)` the row it leaves; timestamps are ages, saturated one past the threshold they are compared with |
| `ArqQueue` | the arq library as the code uses it (`arq_forward_queue.py`, `WorkerSettings`) | one record per job id; external |
| `ForwardPipeline` | capture, retry, abandon and redrive handlers, `ExecuteForward`, the cleaner | one action per transaction or call another process can see between; composes the three modules above |
| `ForwardLifecycle` | what the pipeline promises the owner: a state machine of (status, attempt) per forward, no processes, queue or time | abstract; `OwnerView` is the refinement mapping |
| `RetrySchedule` | one forward attempted until it is over, with a clock | what `Decide` and the table amount to |
| `RateLimiter` | `web/middleware/rate_limit.py`, `token_rate_limit.py` | a step is what runs between two awaits of `__call__` and `enforce_token_limit`; `SlidingWindow` is the Lua script, atomic in Redis |
| `CaptureRequest` | `web/ingestor/routes.py`, `capture_request.py`, the statements of `request_repository.py` and `endpoint_repository.py` | one action per statement, blob write, answer, commit |
| `LiveStream` | `postgres_notifier.py`, `web/app/sse.py` | extends `CaptureRequest`: a commit notifies every listening connection; a step is what runs between two awaits |
| `InboundWebhook` | `domain/services/hmac/`, `integration_detector.py`, `body_parsers.py`, `secrets.py` | one operator per validator; a digest is the record of what went into it |
| `EndpointConfig` | `create_endpoint.py`, `update_endpoint_config.py`, `slug_validator.py`, `abuse_scan.py` | one action per statement, answer, commit, alert |
| `ReplayTarget` | `safe_replay_target.py` | pure operators: `Validate` by URL and DNS answer |
| `RequestBrowser` | `list_requests.py`, `list_forwards.py`, `export_requests.py`, `replay_request.py`, the queries of `request_repository.py` | extends `ReplayTarget`; one action per page, statement, transaction, HTTP call |
| `MCForwardPipeline`, `MCDecisions`, `MCRateLimiter`, `MCLiveStream`, `MCConsole` | instances for TLC; `MCDecisions` and `MCConsole` put two modules that share no state side by side: a behaviour shows one of them | |
| `ForwardPipelineTypes`, `ForwardPipelineProofs`, `ForwardExclusionProofs`, `ForwardRefinementProofs`, `LiveStreamProofs`, `RateLimiterProofs`, `ConsoleProofs`, `DecisionProofs` | theorems and proofs | section 5 |

State of `ForwardPipeline`, and where it lives in the code:

- `forwards`: the committed rows. `absent` is a row before its insert, `deleted` after the cascade.
- `requests`: the transaction `get_session` holds open around a capture or a retry, and whether its background task has enqueued. FastAPI has run the exits of dependencies after background tasks since 0.118, and `uv.lock:484-485` pins 0.136.1: the enqueue precedes the commit, though the comments at `web/ingestor/routes.py:165-171` and `web/app/routes.py:557-561` rely on the opposite (finding 5).
- `jobs[f][d]`: the job `forward:{f}:{d}`.
- `slots`: what a worker coroutine holds in its local variables, in particular the snapshot of TX1 (`_ClaimedState`) that it decides on later.
- `redrives`: the long transaction of `RedrivePendingForwards.execute`: `reclaimed` are the rows it has updated and so locks.
- `sent`, `backoff`: history, read by properties only; `sent` has an attempt from the moment its request may have left, an exception or a crash in the HTTP phase included. `budget` counts what the bounds limit.

An action is atomic when nothing another process can see happens inside it. TX1
and TX2 are one step each, since a waiting statement re-reads the row after the
lock (an action is disabled while its row is `Locked`). A redrive is one step per
statement and per enqueue. A crash, a shutdown and an exception may hit a slot at
every point between its steps.

`Raise` is what the wrapper at `jobs/worker.py:96-100` does with any exception, and
also what `job_timeout` leaves behind. The branch of `_claim_phase` for a missing
endpoint or request is unreachable while TX1 holds the lock of a row whose deletion
would have to precede theirs in one commit; it is part of `Claim`'s lines and has no
disjunct.

What the other modules abstract, and how:

- `RateLimiter`: one client and one token, since keys do not affect each other. A process reads a clock up to `MaxSkew` ahead of the slowest one and its call reaches Redis within `MaxDelay`; `answer`, `passed` and `losses` are history: a request that was let through stays in `passed` whatever Redis forgets, with the number of times Redis had lost its keys before. Windows are promised less what clocks and delays blur, and for each such number apart.
- `CaptureRequest`: a body is one of a few kinds (absent, text, not UTF-8, with a NUL, above the inline threshold, above the cap). The endpoint's row is locked by the insert (against deletion) and by the count (against other captures), until the commit, which follows the answer.
- `LiveStream`: `owed` is history: what the streams should get, by the order of commits. A connection's `channel` is what Postgres has sent and the reader has not read. A closed browser cancels its generator at any await.
- `InboundWebhook`: a sender composes a webhook of one of eleven schemes, relays change up to `MaxHops` parts, the ingestor judges. Headers are present or absent; a signature's value is whole, cut or not ASCII.
- `EndpointConfig`: `row` of an owner is the entity its PATCH read, and all of it is written back. A slug is the sequence of its words, since reserved words match whole and denylisted ones as substrings; its letters and its length are the regular expression's, and generated tokens are unique by chance.
- `RequestBrowser`: a request's id says nothing of its arrival; `received_at` is taken when it arrives, it is visible when its transaction commits. A full-text search or a status filter is the choice of what `matches`. An export is its count, its statement, its rows one at a time and its end, and may break off at any of them. A replay carries, as history, what the repository's `README.md:198` says of its target.
- `ReplayTarget`: addresses are public, private, shared (100.64.0.0/10, of which every flag of `ipaddress` that the code tests is false), or of another class that one flag tells.

## 3. Runs

The pipeline's configurations use the smallest tables and timers that keep the order
of the code's constants: `JobTimeout` 1 (120 s), `InProgressTtl` 2 (130 s),
`StuckInFlight` and `StuckPending` 2 (300 s), backoffs 1, 2, 3 (30 s, 120 s, 600 s ...),
`KeepResult` 3 (3600 s), `ArqMaxTries` 2. `Responses` has one status per class that
`Decide` tells apart: 200, 404, 503.

| Run | Instance | Shows |
|---|---|---|
| `decisions` | the code's backoffs, 500 statuses and "no answer"; eleven signature schemes, two keys, two relays, bodies of 8, 64 and 65 KB (the caps' sides) | `PublishedSchedule` (docs/integrations/verifying-forwards.md:89-107); `ValidIsAuthentic`, `DetectedAsSent`, `AuthenticIsLabelled` |
| `pipeline_full` | 1 forward, 2 slots, 1 redriver, 2 faults, 1 retry, 1 abandon, expiry; workers symmetric | `TypeOK`, `CompletedIffTerminal`, `OpenTransactionsHoldTheirRows`, `ReclaimSparesLiveAttempts` |
| `pipeline_faults` | the same without abandons, with a fair redriver | `OneLiveAttempt`, `RecordHitsItsOwnAttempt`, `BoundedOverrun`, `UniqueIdempotencyKeys`, that the pipeline implements `ForwardLifecycle`, and `EventuallySettled` |
| `pipeline_calm` | 2 forwards share 1 slot, no faults, no operator, three attempts | `FailedIsScheduled`, `BackoffRespected`, `AttemptedIsSettled` |
| `abandoned_overwritten` | an abandon during an attempt | violated: finding 1 |
| `redrive_skips_backoff` | a redrive after a failure | violated: finding 2 |
| `retry_without_job` | a manual retry soon after the first attempt | violated: finding 3 |
| `forgotten_capture` | one capture, one slot, nothing else | violated: finding 5 |
| `rate_limiter` | one ingestor, two open requests, three in all, one fault, an endless clock; limits 2 per window of 4 and 1 per window of 8, in units of a quarter of a second | `WindowBound`, `RetryAfterExact` |
| `limiter_first_requests` | the same without faults | violated: finding 4 |
| `live_stream` | two captures, two streams, two faults, three connections, an endpoint that forwards and expires | `OnceInOrder`, `SkipsOnlyDeleted`, `ResetsItsOwn`, `WholeOrAbsent`, `BlobBacksRow`, `CountIsExact`; `Delivered` |
| `console` | configuration: two creators, two owners, three slugs (free, reserved, denylisted), two rows, two PATCHes, one fault; browsing: three requests, two instants, pages of one, an export cap of two, one fault | `NeverTakenOver`, `SettingsSurvive`, `AlertedWasFlagged`; `PagesComplete`, `ExportAsDeclared`, `ToldReplayIsStored`, `OnlyFitIsSent` |

Why the bounds suffice for what is asked: forwards share nothing but slots, the
expiry and a redrive's loop, so one forward and two slots show every conflict over
a row, and `pipeline_calm` adds a second forward that competes for the slot. Two
slots allow two attempts, one of them a survivor of a timeout. Two faults allow a
crash of the recovery of a crash, and with `ArqMaxTries` = 2 they reach `DropJob`.
Two backoffs give a first attempt, a last one, and a manual retry after it. Where a
theorem states the same property, no bound matters. Deadlock is checked in all
pipeline runs: time can always pass unless a slot must act first.

The other runs stop when their bounded requests are over, so their deadlocks mean
nothing. In `rate_limiter` three requests exceed both limits; the per-IP rule
fails closed and the per-token rule open, which are the two fail modes the api and
replay rules repeat. Its clock does not stop: the limiters read differences of times only
(an entry's age, a key's remaining life, what a call read of the clock), so the `VIEW` of
`MCRateLimiter` takes two states that differ by a shift of all times for one. `MaxTime` is
never reached, both windows slide past entries of every age, keys expire, and a fault
may come before, in and after a window. Everything the properties mention (scores,
`passed`, `answer`) is in the view, by its distance from now, and none of them names an
absolute time; what the view drops is the call time of a handler that calls nothing and
the expiry of a key that is gone. Two streams and three connections let one stream restart the
reader while the other waits, twice. `live_stream` leaves out the bodies that end like
another one there ("text" as the inline "nul" without its failure, "binary" as "text").
In `console`, pages of one make every row a cursor and three rows with two instants
give ties on either side of a page; two owners show every conflict over a row, and two
rows let a slug be deleted and created again under an open PATCH. `decisions` needs two
hops for the evidence of an integration that is known by two headers.

The safety properties depend on the timing: with `StuckInFlight` below two job
timeouts TLC finds `ReclaimSparesLiveAttempts` violated (an abandon and a retry
during an attempt leave the older attempt's end up to two timeouts behind the
row's start). `EventuallySettled` needs the redriver. Without one, a first job that is lost
to a fault, or that finds no row yet (finding 5), leaves the forward in `pending` for
good; so `pipeline_calm`, which has no redriver and no fault, claims only what the code
keeps there: `AttemptedIsSettled` from the first attempt on, and `FailedIsScheduled`
between attempts.

### Fairness

`FairSpec` of the pipeline assumes weak fairness of time, of each open request's
commit and background task, and of each slot as a whole: uvicorn and arq run their
event loops, HTTP calls have a timeout of 10 s, and a slot that is not busy polls the
queue. Nothing is assumed of which ready job a slot picks. Crashes, timeouts, lost
enqueues, retries and abandons are never fair. The redriver is fair where there is
one: it stands for an operator who repeats the redrive while forwards are stuck,
which verifying-forwards.md:109-118 describes as the recovery procedure.

`FairSpec` of `LiveStream` assumes that the event loop runs a reader whose connection
has a notification and a stream whose queue has one; nothing of browsers,
subscriptions, connections or captures. `Delivered` therefore says nothing of a crashed
reader: only the next `subscribe()` restarts it. A browser that keeps its connection and
never reads is left out: the fairness of `Receive` takes a stream's write to end.

## 4. Findings

1. **An abandoned forward comes back.** The port counts `abandoned` among the terminal states, but `record_outcome` updates by id alone: a worker whose attempt was running when the owner abandoned the forward overwrites the row, with `failed` also scheduling further attempts. Retrying the abandoned forward before that moment gives it two concurrent attempts, which is why the exclusion properties are stated for executions without abandons.
2. **A redrive ignores the backoff.** `next_attempt_at` is the time of the failure, so the sweep's `next_attempt_at <= now`, said to exclude forwards whose backoff is running, excludes none.
3. **A manual retry that retries nothing.** Captures and retries use the same job id; for as long as arq keeps the first job's result (3600 s by default) it drops the second enqueue, and the row waits in `pending` (`RetriedIsScheduled`).
4. **503 from a limiter whose Redis is up.** `_ensure_redis` publishes its client before the script is loaded. A request that arrives in between calls `evalsha` without a SHA and is refused by the rule that fails closed. If loading the script fails, or Redis later loses its script cache, nothing loads it again and every request is refused until the process restarts.
5. **A capture that is never forwarded.** Two comments rely on the commit preceding the background task that enqueues. With the pinned FastAPI it follows it: a worker that is faster than the commit finds no row, its job ends as done, and the row waits in `pending` until somebody redrives, though nothing failed (`Scheduled`). A manual retry is not hurt by the same order: its row exists, and the claim waits for the lock.

Divergences and limits without a run of their own:

- `web/ingestor/main.py:39-41` says that captures fail closed when the limiter's Redis URL is unset; the code lets them pass (`rate_limit.py:106-107, 155-158`). `POST /api/endpoints` is not limited: the rule's prefix is `/api/endpoints/`.
- A forward whose insert fails is logged and counted, and the sender gets the configured answer; the database has aborted the transaction, so the commit fails and the capture is gone too (`WholeOrAbsent` is what remains true).
- A body whose blob write failed, and one whose blob was lost, is forwarded and replayed as empty. A small body that is not UTF-8 is kept, forwarded and exported as Python's escapes of it.
- A capture that commits between ": connected" and the registration of the stream's queue, or while no reader listens, is not shown until the page is loaded again.
- A PATCH writes back the whole row it read: a concurrent change of another section is lost, and so is a flag the abuse scan sets meanwhile. `SettingsSurvive` holds what it read to be current.
- The abuse scan's alert is posted once: if that fails, or beyond 2000 characters, flagged endpoints are never named to anyone.
- `verifying-forwards.md:112-113` says that two deliveries with the same `Idempotency-Key` are possible during worker restarts. They are not: the number is committed before the request leaves, and `UniqueIdempotencyKeys` holds through crashes, timeouts, duplicate jobs and redrives. What repeats a number is a manual retry of a forward that is over, whose count is wound back to 4: a receiver that follows the same document (lines 85-87, 113) and drops a key it has seen drops that retry too. The property excepts exactly these numbers.
- `README.md:198` of the repository lists 100.64.0.0/10 among what the guard rejects. The guard tests the flags of `ipaddress`, all of which are false for shared address space, and sends. `OnlyFitIsSent` admits that range by name and nothing else.
- `README.md:288` calls `exported_request_count` the count of rows in the array. It is counted by an earlier statement: the array has more when requests are captured in between, none when the endpoint is deleted, and fewer when the export breaks off, which then is no JSON. `ExportAsDeclared` is what remains: a complete export has at least as many, unless the endpoint was deleted.
- The limiter counts in Redis alone. A Redis that restarts without its keys starts every window again: with n losses in a window up to n + 1 times the limit pass, which is what `WindowBound` states.
- A form of Mailgun that cannot be parsed, for its size or its encoding, may be valid and has no label; GitHub, Shopify and Zapier are labelled by other headers than the one they sign with, so a valid delivery of theirs may have none either. `AuthenticIsLabelled` excepts both.
- The slugs `tos` and `redoc` are accepted, and their viewer is shadowed by a page. `README.md:235` of the repository names `revolut` among the denylisted words; the code does not list it.
- Mailgun's header variant is judged "missing", a Mailgun form between 8 and 64 KB is judged but not labelled, and a Twilio webhook signed over its URL, as Twilio's are, is never valid. A signature header that is not ASCII, or an unset `SECRETS_ENCRYPTION_KEY` with a provider configured, makes the capture a 500.
- `forwarded_headers.py` strips the signature headers of five of the supported senders and not those of Discord, Zapier, n8n and Mailgun.
- A target whose host does not resolve, and a response whose preview holds a NUL, make a replay a 500 without a row, the latter after it was sent.

Two more about the forwards. The comment in
`forward_decision.py:14` and the repository's `README.md:227` call every 5xx
retryable, while the set at line 15 omits 501, 505, 506 and the unassigned ones
(`PublishedSchedule` checks the list of verifying-forwards.md, which agrees with the
code). The same document promises attempt numbers 1 to 5; `BoundedOverrun` is what
the code keeps: one more for each attempt that was lost and reclaimed.

## 5. Proofs

A theorem is about `Spec` of its module, for every value of the constants under the
assumptions declared with them: any number of forwards, workers, redrivers, streams,
processes, owners, requests and faults, any table, limit and timer. Every invariant of
the passing runs, and every action property, is stated by a theorem; what is left to
TLC is at the end of this section.

The assumptions that carry an argument: `TimingAssumption` (`2 * JobTimeout <=
StuckInFlight`, 240 s against 300 s; `JobTimeout <= InProgressTtl`) makes the reclaim
safe. `RateAssumption` has `Slack < Window(name)`: clocks and delays blur less than a
window. `CaptureAssumption`, `ConfigAssumption` and `BrowserAssumption` are types.

### The forward pipeline

`NobodyAbandons` (`MaxAbandons = 0`) is a hypothesis of `OneAttemptAtATime`,
`OutcomesHitTheirAttempts`, `AttemptsAreBounded` and `PipelineImplementsLifecycle`, and
cannot be dropped: with an abandon TLC violates `OneLiveAttempt` and
`RecordHitsItsOwnAttempt` on the instance of `pipeline_full`, and `BoundedOverrun`
with three backoffs and no fault.

| Theorem | Property | Argument |
|---|---|---|
| `TypeCorrect` | `TypeOK` | inductive with `GoodSlot`: a claimed slot carries an attempt number from 1 on, and a recorded `failed` one below `MaxAttempts` |
| `CompletedExactlyWhenOver` | `CompletedIffTerminal` | `CompletionInv` extends it to rows outside their life, since a capture's insert and the cascade write whole rows |
| `TransactionsHoldTheirRows` | `OpenTransactionsHoldTheirRows` | inductive in `RowInv`: every statement that could change a held row waits for its lock |
| `ReclaimsOnlyLostAttempts` | `ReclaimSparesLiveAttempts` | `AttemptAges`: the age on an in_flight row exceeds that of any attempt of it by at most one `JobTimeout`; so it never passes `StuckInFlight` while a slot is within its own timeout |
| `KeysAreUnique` | `UniqueIdempotencyKeys` | `NumberInv`: what was sent, and what a slot is about to send, has a number up to the row's count, and a claim takes the next. A manual retry winds the count back, but not below `MaxAttempts - 1`, so what it repeats is among the numbers that `Renumbered` excepts |
| `OneAttemptAtATime` | `OneLiveAttempt` | `ExclusionInv`: an attempt's row is in flight with its number, is in no redrive's `reclaimed`, and so is claimable by nobody. None of its conjuncts is inductive alone |
| `OutcomesHitTheirAttempts` | `RecordHitsItsOwnAttempt` | a conjunct of `ExclusionInv` |
| `AttemptsAreBounded` | `BoundedOverrun` | `OverrunInv`: a forward that can still be claimed, and one in flight whose worker is gone, has used fewer than `MaxAttempts` plus the faults; only a fault ends an attempt without an outcome (`AttemptEnds`), and a recorded `failed` has attempts left (`GoodSlot`) |
| `NoFailureIsForgotten` | `FailedIsScheduled` | `CalmInv`, under `Undisturbed`: a forward that failed is `Assigned` to a task, a job or a slot. An enqueue is swallowed when a job of its id exists, so the invariant follows which ids are taken (`DelaysUnused`: the delay of an attempt names a job only after that attempt's own enqueue; `NotBegun`: no result is kept before the first) and which slot runs which job (`JobsHeld`) |
| `BackoffsAreSatOut` | `BackoffRespected` | `PacedInv`, under `Unhurried`: one task, one queued job or one slot has the forward in hand (`InOneHand`), and that hand carries what is left of the delay (`SitsOut`) |
| `PipelineImplementsLifecycle` | `ImplementsLifecycle` | step by step under `ExclusionInv`: commits, claims, outcomes, reclaims, abandons and the expiry are lifecycle steps, all others stutter |

`Undisturbed` excludes faults, manual retries and abandons, and has the backoffs differ
from each other and from 0; redrives, the cleaner, any number of slots, late jobs and
jobs that start before there is a row stay. A fault may lose the enqueue and leave
nothing behind but the row, equal backoffs share a job id, and a manual retry may be
swallowed (finding 3); abandons are excluded because the argument rests on
`ExclusionInv`. Nothing is claimed there of a forward that was never attempted:
finding 5. `Unhurried` excludes faults, manual retries and redrives only. A
redrive enqueues a job without a delay (finding 2), a worker that dies before its
re-enqueue leaves its own job to claim the row at once, and a manual retry puts a second
job beside the first.

`ForwardPipelineTypes` holds the lemmas about the operators (what each statement,
each queue operation and `Decide` returns) and the type proofs, one lemma per group
of actions. `ForwardPipelineProofs`, `ForwardExclusionProofs` and
`ForwardRefinementProofs` build on it in that order.

### The other components

| Module | Theorems (property) | Argument |
|---|---|---|
| `LiveStreamProofs` | `StreamsWellTyped` (`TypeOK`), `CapturesAreWhole` (`WholeOrAbsent`), `BlobsBackRows` (`BlobBacksRow`), `NoCountIsLost` (`CountIsExact`) | `CaptureInv`: until it is over a transaction has left no row; a key in a transaction has its blob already; at most one transaction holds the endpoint's row for its count, and what it read plus one is what it will write. The notifier only reads these tables |
| | `StreamsInOrder` (`OnceInOrder`), `StreamsSkipOnlyDeleted` (`SkipsOnlyDeleted`), `RecoveryIsItsOwn` (`ResetsItsOwn`) | `NotifierInv`: one stream at most is inside `start()` (`OneHolder`), no reader runs or is crashed there (`NoReaderUnderLock`), a running reader is that of the listening connection (`ReadersMatchConnections`). Then what a stream has taken, what its queue holds and what the channel holds make one sequence, which each step shifts or appends to; lemmas about sequences say so |
| `RateLimiterProofs` | `RateWellTyped` (`TypeOK`), `WindowIsBounded` (`WindowBound`) | `RateInv`: every pass on the present keyspace that still counts has an entry of its own member in the sorted set, no older than any process's cutoff for it, and the key outlives it (`RecentAreRemembered`); the script leaves no more entries than the limit (`SetsWithinLimit`). The passes inject into the entries, whatever the skew. Those on earlier keyspaces only age (`PastIsBounded`, `RecentOnlyAges`): a loss of the keys makes the present one a past one, which was within its bound |
| | `RetryAfterIsExact` (`RetryAfterExact`) | the oldest entry decides: it exists since scores are naturals (`LeastOfNats`), it is the first to leave, and `Ceil` is the least number of seconds |
| `ConsoleProofs` | `ConsoleWellTyped` (`TypeOK`), `AlertsNameFlaggedEndpoints` (`AlertedWasFlagged`), `NoSlugIsTakenOver` (`NeverTakenOver`), `UnnamedSettingsSurvive` (`SettingsSurvive`) | `ConfigInv`: an id is used once (`RowsAreDistinct`), a slug about to be committed is free and its creator's alone (`InsertsAreFree`), a row that a PATCH wrote is still the one it read (`WritesAreLocked`), what a scan judged keeps its slug or is gone, and after its commit is flagged or gone (`ScanKnowsItsRows`) |
| | `ListingsAreComplete` (`PagesComplete`), `ExportsAreAsDeclared` (`ExportAsDeclared`), `ToldReplaysAreStored` (`ToldReplayIsStored`), `ReplaysGoToFitTargets` (`OnlyFitIsSent`) | `BrowserInv`: what matched from the start and is not in a page yet is older than the cursor (`ListingStands`), what an export declared is within the cap and, while nothing is deleted, still there to be selected, what it selected is in order, and what it sent is a prefix of that (`ExportStands`), a replay's phase fixes what is stored and sent (`ReplayStands`). That a page is full of the newest rows is a counting argument over the definition of the k-th row as the one with k - 1 newer ones |
| `DecisionProofs` | `DecisionsWellTyped` (`TypeOK`), `ValidMeansAuthentic` (`ValidIsAuthentic`), `LabelsAreTheSenders` (`DetectedAsSent`), `TablesAgree` (`AuthenticIsLabelled`) | `InboundInv` says what relays can and cannot have made of a delivery (`Relayed`); the rest is case analysis over the nine validators and, for the labels, over the places of the detectors that know the webhook: the first decides |
| | `SchedulesAsPublished` (`PublishedSchedule`) | for every table of backoffs and published offsets that `AddsUp`, as the code's does (`PublishedTablesAddUp`): at attempt n the clock is at the n-th offset |

### Only model-checked

`EventuallySettled`, `AttemptedIsSettled` and `Delivered`: liveness under fairness is outside the prover's
reach, and so is `ENABLED`. The five runs that expect a violation (section 4) refute
their property by a counterexample. Induction over data is avoided rather than done: no
theorem is about a recursive definition, and the finite sets that need a least or a
greatest element get it from the well-foundedness of the naturals.

## 6. Not modelled, and the plan

Left out of the pipeline: metrics, spans, headers and bodies; `final_error` and the
timestamps no statement reads; statistics of forwards. HTTP responses are a status, a
network error (with or without the receiver having got the request), a blocked target
or an exception.

Not modelled elsewhere: observability, settings, templates, the documentation pages and
the dependency wiring, which keep no state that the program reads back; the blob stores
themselves, the ciphers and the table of stripped headers, which are libraries or data;
the size of the database's pool, whose exhaustion is a failure the models have as a
fault; the integrations cross-tab, a read; the lifecycle rules of the bucket, outside the
code; headers with an empty value; the HTML variants of the
JSON routes, which call the same use cases.

Left, in this order:

1. Abstract specifications of the components that have none yet, as refinements: a log of commits that every stream reads in order (`LiveStream`), a window that counts without clocks (`RateLimiter`).
2. `NoFailureIsForgotten` with a manual retry after the result of the first job has expired, the one case in which it is not swallowed, and with redrives under faults.
3. `BoundedOverrun` with abandons: how many attempts an abandon and the retry after it can add.
