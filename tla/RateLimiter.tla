---------------------------- MODULE RateLimiter ----------------------------
(***************************************************************************)
(* The sliding-window rate limits of the ingestor and the web app          *)
(* (web/middleware/rate_limit.py, web/middleware/token_rate_limit.py).     *)
(*                                                                         *)
(* Every process has two limiters: the middleware, keyed by client IP, and *)
(* the module-level helper of the routes, keyed by token.  Each creates    *)
(* its Redis client and loads the Lua script on its first request and      *)
(* keeps the script's SHA.  Keys of different clients and tokens are       *)
(* independent: the model follows one client using one token, so a rule's  *)
(* name stands for its key.  Time is counted in clock units ("ms"), Second *)
(* of them to a second.  A process reads a clock at most MaxSkew ahead of  *)
(* the slowest one, and its script call reaches Redis within MaxDelay.     *)
(***************************************************************************)
EXTENDS Integers, Sequences, FiniteSets

CONSTANTS
    Processes, SurfaceOf,      \* processes and the kind of request each serves
    NoProcess,
    Handlers,                  \* requests a process can have open at a time
    Limit, WindowSeconds,      \* per rule
    Second,                    \* clock units in a second (1000)
    MaxSkew, MaxDelay,
    MaxTime, MaxRequests, MaxFaults  \* bounds of the model

(* The four rules.  Tokens' caps are enforced by the route, behind the     *)
(* middleware of its process; an error of theirs always lets pass.         *)
IngestRule == [layer |-> "middleware", fail_mode |-> "closed"]
ApiRule == [layer |-> "middleware", fail_mode |-> "open"]
CaptureCap == [layer |-> "token", fail_mode |-> "open"]
ReplayCap == [layer |-> "token", fail_mode |-> "open"]

RuleOf == [ingest |-> IngestRule, api |-> ApiRule,
           capture |-> CaptureCap, replay |-> ReplayCap]

Names == DOMAIN RuleOf

Surfaces == {"capture", "api", "replay", "viewer"}

(* _match_rule by path prefix, then the cap of the route.  The viewer and  *)
(* the stream match no rule.                                               *)
Checks(surface) == CASE surface = "capture" -> <<"ingest", "capture">>
                     [] surface = "api"     -> <<"api">>
                     [] surface = "replay"  -> <<"api", "replay">>
                     [] surface = "viewer"  -> <<>>

Window(name) == WindowSeconds[name] * Second

Slack == MaxSkew + MaxDelay

ASSUME RateAssumption ==
    /\ SurfaceOf \in [Processes -> Surfaces]
    /\ Limit \in [Names -> Nat \ {0}]
    /\ WindowSeconds \in [Names -> Nat \ {0}]
    /\ Second \in Nat \ {0}
    /\ MaxSkew \in Nat /\ MaxDelay \in Nat
    /\ MaxTime \in Nat /\ MaxRequests \in Nat /\ MaxFaults \in Nat
    /\ \A name \in Names : Slack < Window(name)

VARIABLES
    now,       \* Redis's clock
    redis,     \* the server: reachable, and whether it has the script
    zset,      \* per rule: the sorted set of its key
    expire,    \* per rule: when PEXPIRE lets go of the key
    limiter,   \* per process and layer: the cached client and SHA
    handler,   \* per open request: where it is
    answer,    \* history: what the handlers' requests were told in this instant
    passed,    \* history, per rule: what was let pass within the last window
    losses,    \* history: how often Redis came back without its keys
    serial,    \* source of the script calls' unique members
    budget     \* requests and faults so far

vars == <<now, redis, zset, expire, limiter, handler, answer, passed, losses, serial,
          budget>>

Layers == {"middleware", "token"}
Entry == [score : Nat, member : Nat]
Pass == [at : Nat, member : Nat, checked : BOOLEAN, keyspace : Nat]

Handler == [state : {"idle", "loading", "evaluating"}, process : Processes \cup {NoProcess},
            check : 1..2, now_ms : Nat, sha : BOOLEAN, member : Nat,
            sent : Nat, outage : BOOLEAN]
Answer == [verdict : {"none", "pass", "429", "503"}, retry_after : Int, outage : BOOLEAN]
NoAnswer == [verdict |-> "none", retry_after |-> 0, outage |-> FALSE]

TypeOK ==
    /\ now \in Nat
    /\ redis \in [up : BOOLEAN, script : BOOLEAN]
    /\ zset \in [Names -> SUBSET Entry]
    /\ expire \in [Names -> Nat]
    /\ limiter \in [Processes \X Layers -> [client : BOOLEAN, sha : BOOLEAN]]
    /\ handler \in [Handlers -> Handler]
    /\ answer \in [Handlers -> Answer]
    /\ passed \in [Names -> SUBSET Pass]
    /\ losses \in Nat
    /\ serial \in Nat
    /\ budget \in [requests : Nat, faults : Nat]

IdleHandler == [state |-> "idle", process |-> NoProcess,
                check |-> 1, now_ms |-> 0, sha |-> FALSE, member |-> 0,
                sent |-> 0, outage |-> FALSE]

Init ==
    /\ now = 0
    /\ redis = [up |-> TRUE, script |-> FALSE]
    /\ zset = [name \in Names |-> {}]
    /\ expire = [name \in Names |-> 0]
    /\ limiter = [l \in Processes \X Layers |-> [client |-> FALSE, sha |-> FALSE]]
    /\ handler = [h \in Handlers |-> IdleHandler]
    /\ answer = [h \in Handlers |-> NoAnswer]
    /\ passed = [name \in Names |-> {}]
    /\ losses = 0
    /\ serial = 0
    /\ budget = [requests |-> 0, faults |-> 0]

NameOf(h) == Checks(SurfaceOf[handler[h].process])[handler[h].check]

LimiterOf(p, check) == <<p, RuleOf[Checks(SurfaceOf[p])[check]].layer>>

(* ZREMRANGEBYSCORE drops what is at least a window old, the boundary      *)
(* included; ZCARD counts the rest.                                        *)
Kept(entries, now_ms, window) == {e \in entries : e.score > now_ms - window}

CeilRoundedDown(ms) == ms \div Second

Ceil(ms) == (ms + Second - 1) \div Second

Oldest(entries) == CHOOSE e \in entries : \A f \in entries : e.score <= f.score

(* The Lua script, without the unique member that line 46 requires, with   *)
(* the cutoff for the score, and as it is.                                 *)
SlidingWindowSameMember(entries, now_ms, window, limit, member) ==
    LET kept == Kept(entries, now_ms, window)
    IN IF Cardinality(kept) >= limit
       THEN [allowed |-> FALSE, entries |-> kept,
             retry_after |-> Ceil(Oldest(kept).score + window - now_ms)]
       ELSE [allowed |-> TRUE, retry_after |-> 0,
             entries |-> kept \cup {[score |-> now_ms, member |-> 0]}]

SlidingWindowStoresCutoff(entries, now_ms, window, limit, member) ==
    LET kept == Kept(entries, now_ms, window)
    IN IF Cardinality(kept) >= limit
       THEN [allowed |-> FALSE, entries |-> kept,
             retry_after |-> Ceil(Oldest(kept).score + window - now_ms)]
       ELSE [allowed |-> TRUE, retry_after |-> 0,
             entries |-> kept \cup {[score |-> now_ms - window, member |-> member]}]

SlidingWindow(entries, now_ms, window, limit, member) ==
    LET kept == Kept(entries, now_ms, window)
    IN IF Cardinality(kept) >= limit
       THEN [allowed |-> FALSE, entries |-> kept,
             retry_after |-> Ceil(Oldest(kept).score + window - now_ms)]
       ELSE [allowed |-> TRUE, retry_after |-> 0,
             entries |-> kept \cup {[score |-> now_ms, member |-> member]}]

(* ---------------------------------------------------------------------- *)
(* A request                                                               *)
(* ---------------------------------------------------------------------- *)

(* What _ensure_redis leaves of the limiter before its first await, and    *)
(* the handler that waits for it.  Only the request that finds no client   *)
(* loads the script; one that finds a client goes on with the SHA as it    *)
(* stands.                                                                 *)
EnsureRedis(l) == [limiter EXCEPT ![l].client = TRUE]

Called(h, p, check, clock, outage) ==
    [handler EXCEPT ![h] =
        [state |-> IF limiter[LimiterOf(p, check)].client THEN "evaluating" ELSE "loading",
         process |-> p, check |-> check, now_ms |-> clock,
         sha |-> limiter[LimiterOf(p, check)].sha,
         member |-> serial + 1, sent |-> now, outage |-> outage]]

EnterCheck(h, p, check, outage) ==
    \E clock \in now..(now + MaxSkew) :
        /\ limiter' = EnsureRedis(LimiterOf(p, check))
        /\ handler' = Called(h, p, check, clock, outage)
        /\ serial' = serial + 1

(* A request arrives at a process whose surface has a rule. *)
Arrive(h, p) ==
    /\ handler[h].state = "idle"
    /\ Checks(SurfaceOf[p]) # <<>>
    /\ budget.requests < MaxRequests
    /\ EnterCheck(h, p, 1, ~redis.up)
    /\ answer' = [answer EXCEPT ![h] = NoAnswer]
    /\ budget' = [budget EXCEPT !.requests = @ + 1]
    /\ UNCHANGED <<now, redis, zset, expire, passed, losses>>

(* SCRIPT LOAD returned: the SHA is cached, the clock is read and the      *)
(* script called.                                                          *)
LoadScript(h) ==
    /\ handler[h].state = "loading"
    /\ redis.up
    /\ redis' = [redis EXCEPT !.script = TRUE]
    /\ limiter' = [limiter EXCEPT
                     ![LimiterOf(handler[h].process, handler[h].check)].sha = TRUE]
    /\ \E clock \in now..(now + MaxSkew) :
         handler' = [handler EXCEPT ![h].state = "evaluating", ![h].sha = TRUE,
                                    ![h].now_ms = clock, ![h].sent = now]
    /\ UNCHANGED <<now, zset, expire, answer, passed, losses, serial, budget>>

Told(h, verdict, retry_after, outage) ==
    answer' = [answer EXCEPT ![h] =
                 [verdict |-> verdict, retry_after |-> retry_after, outage |-> outage]]

(* A passed check leads to the next one, or to the application. *)
GoOn(h, checked, outage) ==
    LET p == handler[h].process
    IN /\ passed' = [passed EXCEPT ![NameOf(h)] =
            @ \cup {[at |-> now, member |-> handler[h].member, checked |-> checked,
                     keyspace |-> losses]}]
       /\ IF handler[h].check < Len(Checks(SurfaceOf[p]))
          THEN EnterCheck(h, p, handler[h].check + 1, outage) /\ UNCHANGED answer
          ELSE /\ handler' = [handler EXCEPT ![h] = IdleHandler]
               /\ Told(h, "pass", 0, outage)
               /\ UNCHANGED <<limiter, serial>>

Refuse(h, verdict, retry_after, outage) ==
    /\ handler' = [handler EXCEPT ![h] = IdleHandler]
    /\ Told(h, verdict, retry_after, outage)
    /\ UNCHANGED <<limiter, serial, passed>>

Evaluation(h) ==
    SlidingWindow(zset[NameOf(h)], handler[h].now_ms, Window(NameOf(h)),
                  Limit[NameOf(h)], handler[h].member)

(* EVALSHA with a SHA that Redis knows. *)
RunScript(h) ==
    /\ handler[h].state = "evaluating"
    /\ redis.up /\ redis.script /\ handler[h].sha
    /\ zset' = [zset EXCEPT ![NameOf(h)] = Evaluation(h).entries]
    /\ expire' = IF Evaluation(h).allowed
                 THEN [expire EXCEPT ![NameOf(h)] = now + Window(NameOf(h))]
                 ELSE expire
    /\ UNCHANGED <<now, redis, losses>>

(* The except clause of both callers. *)
FailMode(h, outage) ==
    IF RuleOf[NameOf(h)].fail_mode = "closed"
    THEN Refuse(h, "503", 60, outage)
    ELSE GoOn(h, FALSE, outage)

(* The window decides. *)
EvalScript(h) ==
    /\ RunScript(h)
    /\ IF Evaluation(h).allowed
       THEN GoOn(h, TRUE, handler[h].outage)
       ELSE Refuse(h, "429", Evaluation(h).retry_after, handler[h].outage)
    /\ UNCHANGED budget

(* The script ran and its reply was lost. *)
ReplyLost(h) ==
    /\ budget.faults < MaxFaults
    /\ RunScript(h)
    /\ FailMode(h, TRUE)
    /\ budget' = [budget EXCEPT !.faults = @ + 1]

(* Redis is down, or has no such script (NOSCRIPT), or the SHA is None.    *)
RedisError(h) ==
    /\ \/ handler[h].state # "idle" /\ ~redis.up
       \/ handler[h].state = "evaluating" /\ ~(redis.script /\ handler[h].sha)
    /\ FailMode(h, handler[h].outage)
    /\ UNCHANGED <<now, redis, zset, expire, losses, budget>>

(* ---------------------------------------------------------------------- *)
(* The environment                                                         *)
(* ---------------------------------------------------------------------- *)

Outage ==
    /\ budget.faults < MaxFaults
    /\ redis.up
    /\ redis' = [redis EXCEPT !.up = FALSE]
    /\ handler' = [h \in Handlers |-> [handler[h] EXCEPT !.outage = @ \/ handler[h].state # "idle"]]
    /\ budget' = [budget EXCEPT !.faults = @ + 1]
    /\ UNCHANGED <<now, zset, expire, limiter, answer, passed, losses, serial>>

(* Redis is back: it was only unreachable, or it restarted and forgot its  *)
(* scripts, with its keys reloaded from disk or lost.                      *)
Reconnect ==
    /\ ~redis.up
    /\ redis' = [redis EXCEPT !.up = TRUE]
    /\ UNCHANGED <<now, zset, expire, limiter, handler, answer, passed, losses, serial,
                   budget>>

RestartRedis ==
    /\ ~redis.up
    /\ redis' = [up |-> TRUE, script |-> FALSE]
    /\ \/ UNCHANGED <<zset, expire, losses>>
       \/ /\ zset' = [name \in Names |-> {}]
          /\ expire' = [name \in Names |-> 0]
          /\ losses' = losses + 1
    /\ UNCHANGED <<now, limiter, handler, answer, passed, serial, budget>>

(* A process is restarted: its open requests and its cached SHAs are gone. *)
RestartProcess(p) ==
    /\ budget.faults < MaxFaults
    /\ \E l \in {p} \X Layers : limiter[l].client
    /\ budget' = [budget EXCEPT !.faults = @ + 1]
    /\ limiter' = [l \in Processes \X Layers |->
                     IF l[1] = p THEN [client |-> FALSE, sha |-> FALSE] ELSE limiter[l]]
    /\ handler' = [h \in Handlers |->
                     IF handler[h].process = p THEN IdleHandler ELSE handler[h]]
    /\ UNCHANGED <<now, redis, zset, expire, answer, passed, losses, serial>>

(* Time passes; Redis drops a key whose time to live is over.              *)
Tick ==
    /\ now < MaxTime
    /\ \A h \in Handlers : handler[h].state = "evaluating" => now < handler[h].sent + MaxDelay
    /\ now' = now + 1
    /\ zset' = [name \in Names |-> IF now + 1 > expire[name] THEN {} ELSE zset[name]]
    /\ passed' = [name \in Names |-> {p \in passed[name] : p.at > now + 1 - Window(name)}]
    /\ answer' = [h \in Handlers |-> NoAnswer]
    /\ UNCHANGED <<redis, expire, limiter, handler, losses, serial, budget>>

Next ==
    \/ \E h \in Handlers, p \in Processes : Arrive(h, p)
    \/ \E h \in Handlers : LoadScript(h) \/ EvalScript(h) \/ RedisError(h) \/ ReplyLost(h)
    \/ Outage \/ Reconnect \/ RestartRedis
    \/ \E p \in Processes : RestartProcess(p)
    \/ Tick

Spec == Init /\ [][Next]_vars

(* ---------------------------------------------------------------------- *)
(* Properties                                                              *)
(* ---------------------------------------------------------------------- *)

(* What counts against a rule: what its script admitted, and for the       *)
(* capture surface, which must fail closed, whatever got through at all.   *)
Counted(name) ==
    {p \in passed[name] : p.checked \/ RuleOf[name].fail_mode = "closed"}

(* What counts now, of what passed while Redis held one keyspace.          *)
Recent(name, keyspace) ==
    {p \in Counted(name) : p.keyspace = keyspace /\ p.at > now - (Window(name) - Slack)}

(* rate_limit.py:1-10 "eliminates boundary bursts": in any stretch of a    *)
(* window, less what clocks and delays blur, no more than limit requests   *)
(* pass on one keyspace of Redis, whichever processes they come to,        *)
(* several in one millisecond, with replies lost, outages, half-loaded     *)
(* limiters and restarts between.  A Redis that comes back without its     *)
(* keys has forgotten the window: what passed before the loss counts       *)
(* against its own keyspace only, so a window with n losses in it lets up  *)
(* to n + 1 times the limit through.                                       *)
WindowBound ==
    \A name \in Names : \A keyspace \in 0..losses :
        Cardinality(Recent(name, keyspace)) <= Limit[name]

(* The Retry-After of a 429 (_LUA_SLIDING_WINDOW, lines 61-63) is exact:   *)
(* whoever waits that long finds a free place unless another request took  *)
(* it, a second less would not do, and it never exceeds a window by more   *)
(* than the clocks differ.                                                 *)
RetryAfterExact ==
    [][\A h \in Handlers :
        (answer'[h] # answer[h] /\ answer'[h].verdict = "429") =>
            LET name == NameOf(h)
                KeptAfter(seconds) ==
                    Kept(zset'[name], handler[h].now_ms + seconds * Second, Window(name))
            IN /\ answer'[h].retry_after \in 1..Ceil(Window(name) + Slack)
               /\ Cardinality(KeptAfter(answer'[h].retry_after)) < Limit[name]
               /\ Cardinality(KeptAfter(answer'[h].retry_after - 1)) >= Limit[name]]_vars

(* SECURITY.md:41: "Fails closed (503) if Redis is unavailable."  A 503 is *)
(* told only to a request that met an outage.                              *)
UnavailableOnlyInOutage ==
    \A h \in Handlers : answer[h].verdict = "503" => answer[h].outage
============================================================================
