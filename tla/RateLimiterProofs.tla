-------------------------- MODULE RateLimiterProofs --------------------------
(***************************************************************************)
(* The sliding window, for every number of processes and open requests and *)
(* every limit, window, skew and delay, without a bound on time, requests  *)
(* or faults.  Redis's set is what a process's clock makes of the requests *)
(* it let pass; the invariant ties the two together: whatever passed too   *)
(* recently to be forgotten, since Redis last lost its keys, has an entry  *)
(* of its own, young enough for any process's cutoff, and there are never  *)
(* more entries than the limit.  What passed before a loss was bounded     *)
(* then and only grows older.                                              *)
(***************************************************************************)
EXTENDS RateLimiter, FiniteSetTheorems, WellFoundedInduction, TLAPS

Open(h) == handler[h].state # "idle"

(* A request between two checks does not exist: it is at one of its own.   *)
HandlersAtACheck ==
    \A h \in Handlers : Open(h) =>
        /\ handler[h].process \in Processes
        /\ handler[h].check \in 1 .. Len(Checks(SurfaceOf[handler[h].process]))

(* A script call in flight was sent at most MaxDelay ago, with the time of *)
(* a clock at most MaxSkew ahead.                                          *)
ClocksAgree ==
    \A h \in Handlers : handler[h].state = "evaluating" =>
        /\ handler[h].sent <= now /\ now <= handler[h].sent + MaxDelay
        /\ handler[h].sent <= handler[h].now_ms
        /\ handler[h].now_ms <= handler[h].sent + MaxSkew

(* uuid4().hex: no two script calls share a member. *)
OwnMembers ==
    /\ \A h \in Handlers : Open(h) => handler[h].member <= serial
    /\ \A g, h \in Handlers :
          (Open(g) /\ Open(h) /\ handler[g].member = handler[h].member) => g = h
    /\ \A name \in Names : \A p \in passed[name] :
          /\ p.at <= now /\ p.member <= serial /\ p.keyspace <= losses
          /\ \A h \in Handlers : Open(h) => handler[h].member # p.member
    /\ \A name \in Names : \A p, q \in passed[name] : p.member = q.member => p = q

(* Nothing passes a rule that fails closed but by its script.              *)
ClosedRulesAreChecked ==
    \A name \in Names : RuleOf[name].fail_mode = "closed" =>
        \A p \in passed[name] : p.checked

(* The script never leaves more entries than the limit. *)
SetsWithinLimit ==
    \A name \in Names :
        /\ IsFiniteSet(zset[name]) /\ Cardinality(zset[name]) <= Limit[name]
        /\ \A e \in zset[name] : e.score <= now + MaxSkew

(* What counts of the keys that Redis has.                                 *)
Current(name) == Recent(name, losses)

(* Each of them has its entry, and the key outlives it.                    *)
RecentAreRemembered ==
    \A name \in Names : \A p \in Current(name) :
        /\ p.at + Window(name) <= expire[name]
        /\ \E e \in zset[name] : e.member = p.member /\ e.score >= p.at - MaxDelay

RateInv ==
    /\ TypeOK
    /\ HandlersAtACheck
    /\ ClocksAgree
    /\ OwnMembers
    /\ ClosedRulesAreChecked
    /\ SetsWithinLimit
    /\ RecentAreRemembered

-----------------------------------------------------------------------------
(* Rules, windows and seconds.                                             *)

(* _match_rule and the routes apply at most two rules, known ones.         *)
LEMMA ChecksType ==
    ASSUME NEW p \in Processes
    PROVE  /\ Len(Checks(SurfaceOf[p])) \in 0 .. 2
           /\ \A c \in 1 .. Len(Checks(SurfaceOf[p])) : Checks(SurfaceOf[p])[c] \in Names
<1>1. SurfaceOf[p] \in {"capture", "api", "replay", "viewer"}
  BY RateAssumption DEF RateAssumption, Surfaces
<1>2. /\ "ingest" \in Names /\ "api" \in Names /\ "capture" \in Names /\ "replay" \in Names
  BY DEF Names, RuleOf
<1>3. CASE SurfaceOf[p] = "capture"
  BY <1>2, <1>3 DEF Checks
<1>4. CASE SurfaceOf[p] = "api"
  BY <1>2, <1>4 DEF Checks
<1>5. CASE SurfaceOf[p] = "replay"
  BY <1>2, <1>5 DEF Checks
<1>6. CASE SurfaceOf[p] = "viewer"
  BY <1>2, <1>6 DEF Checks
<1>7. QED
  BY <1>1, <1>3, <1>4, <1>5, <1>6

(* Every name has a rule, in one of the two layers and with one of the two *)
(* fail modes.                                                             *)
LEMMA RuleType ==
    ASSUME NEW name \in Names
    PROVE  /\ RuleOf[name].layer \in Layers
           /\ RuleOf[name].fail_mode \in {"open", "closed"}
BY DEF Names, RuleOf, IngestRule, ApiRule, CaptureCap, ReplayCap, Layers

(* Multiplication by the units in a second keeps the order.                *)
LEMMA SecondsGrow ==
    ASSUME NEW a \in Int, NEW b \in Int, a <= b
    PROVE  a * Second \in Int /\ b * Second \in Int /\ a * Second <= b * Second
BY RateAssumption DEF RateAssumption

(* The windows and limits that the rules give are numbers.                 *)
LEMMA WindowType ==
    ASSUME NEW name \in Names
    PROVE  /\ Window(name) \in Nat /\ Limit[name] \in Nat \ {0}
           /\ Slack \in Nat /\ Slack < Window(name)
<1>1. WindowSeconds[name] \in Nat /\ Second \in Nat
  BY RateAssumption DEF RateAssumption
<1>2. WindowSeconds[name] * Second \in Nat
  BY <1>1
<1>3. QED
  BY <1>2, RateAssumption DEF RateAssumption, Window, Slack

(* math.ceil of the Lua script: the least number of seconds that covers    *)
(* the milliseconds.                                                       *)
LEMMA CeilCovers ==
    ASSUME NEW ms \in Int
    PROVE  /\ Ceil(ms) \in Int
           /\ ms <= Ceil(ms) * Second
           /\ (Ceil(ms) - 1) * Second < ms
<1>1. Second \in Nat \ {0}
  BY RateAssumption DEF RateAssumption
<1> DEFINE a == ms + Second - 1
<1>2. a \in Int /\ (a \div Second) \in Int
  BY <1>1
<1> HIDE DEF a
<1>3. (a \div Second) * Second <= a /\ a < (a \div Second) * Second + Second
  BY <1>1, <1>2
<1>4. ASSUME NEW q \in Int PROVE (q - 1) * Second = q * Second - Second /\ q * Second \in Int
  BY <1>1
<1>5. QED
  BY <1>1, <1>2, <1>3, <1>4 DEF Ceil, a

(* math.ceil is monotonic.                                                 *)
LEMMA CeilGrows ==
    ASSUME NEW x \in Int, NEW y \in Int, x <= y
    PROVE  Ceil(x) <= Ceil(y)
<1>1. /\ Ceil(x) \in Int /\ Ceil(y) \in Int
      /\ (Ceil(x) - 1) * Second < x /\ y <= Ceil(y) * Second
  BY CeilCovers
<1>2. SUFFICES ASSUME Ceil(y) <= Ceil(x) - 1 PROVE FALSE
  BY <1>1
<1>3. Ceil(y) * Second <= (Ceil(x) - 1) * Second
        /\ Ceil(y) * Second \in Int /\ (Ceil(x) - 1) * Second \in Int
  BY <1>1, <1>2, SecondsGrow
<1>4. QED
  BY <1>1, <1>3

(* A set of numbers has a least one.                                       *)
LEMMA LeastOfNats ==
    ASSUME NEW T, T \subseteq Nat, T # {}
    PROVE  \E x \in T : \A y \in T : x <= y
<1> DEFINE R == OpToRel(<, Nat)
<1>1. IsWellFoundedOn(R, Nat)
  BY NatLessThanWellFounded
<1>2. ASSUME NEW x \in Nat, NEW y \in Nat, y < x PROVE <<y, x>> \in R
  BY <1>2 DEF OpToRel
<1> HIDE DEF R
<1>3. PICK x \in T : \A y \in T : ~ (<<y, x>> \in R)
  BY <1>1, WFMin
<1>4. ASSUME NEW y \in T PROVE x <= y
  <2>1. x \in Nat /\ y \in Nat
    OBVIOUS
  <2>2. ~(y < x)
    BY <1>2, <1>3, <2>1
  <2>3. QED
    BY <2>1, <2>2
<1>5. QED
  BY <1>4

(* ZRANGE key 0 0: the entry with the least score.                         *)
LEMMA OldestIsOldest ==
    ASSUME NEW entries, entries \subseteq Entry, entries # {}
    PROVE  /\ Oldest(entries) \in entries
           /\ \A f \in entries : Oldest(entries).score <= f.score
<1>1. {e.score : e \in entries} \subseteq Nat /\ {e.score : e \in entries} # {}
  BY DEF Entry
<1>2. PICK x \in {e.score : e \in entries} : \A y \in {e.score : e \in entries} : x <= y
  BY <1>1, LeastOfNats
<1>3. \E e \in entries : \A f \in entries : e.score <= f.score
  BY <1>2
<1>4. QED
  BY <1>3 DEF Oldest

-----------------------------------------------------------------------------
(* The script.                                                             *)

(* What a run of the script answers and leaves of the kept entries.        *)
Works(run, kept, limit, new) ==
    /\ run.allowed \in BOOLEAN /\ run.retry_after \in Int
    /\ run.entries \subseteq Entry /\ IsFiniteSet(run.entries)
    /\ Cardinality(run.entries) <= limit
    /\ kept \subseteq run.entries
    /\ run.entries \subseteq kept \cup {new}
    /\ run.allowed => new \in run.entries

(* A run works so for every set of entries within the limit.               *)
LEMMA SlidingWindowWorks ==
    ASSUME NEW entries, entries \subseteq Entry, IsFiniteSet(entries),
           NEW limit \in Nat \ {0}, Cardinality(entries) <= limit,
           NEW now_ms \in Nat, NEW window \in Nat, NEW member \in Nat
    PROVE  Works(SlidingWindow(entries, now_ms, window, limit, member),
                 Kept(entries, now_ms, window), limit,
                 [score |-> now_ms, member |-> member])
<1> DEFINE run == SlidingWindow(entries, now_ms, window, limit, member)
           kept == Kept(entries, now_ms, window)
<1> DEFINE new == [score |-> now_ms, member |-> member]
<1>1. kept \subseteq entries /\ kept \subseteq Entry
  BY DEF Kept
<1>2. /\ IsFiniteSet(kept) /\ Cardinality(kept) <= Cardinality(entries)
      /\ Cardinality(kept) \in Nat /\ Cardinality(entries) \in Nat
  BY <1>1, FS_Subset, FS_CardinalityType
<1>3. new \in Entry
  BY DEF Entry
<1>4. CASE Cardinality(kept) >= limit
  <2>1. /\ run = [allowed |-> FALSE, entries |-> kept,
                  retry_after |-> Ceil(Oldest(kept).score + window - now_ms)]
    BY <1>4 DEF SlidingWindow
  <2>2. Cardinality(kept) = limit /\ kept # {}
    BY <1>2, <1>4, FS_EmptySet
  <2>3. Oldest(kept).score \in Nat
    BY <1>1, <2>2, OldestIsOldest DEF Entry
  <2>4. Ceil(Oldest(kept).score + window - now_ms) \in Int
    BY <2>3, CeilCovers
  <2> HIDE DEF new, run, kept
  <2>5. Works(run, kept, limit, new)
    BY <1>1, <1>2, <2>1, <2>2, <2>4 DEF Works
  <2>6. QED
    BY <2>5 DEF new, run, kept
<1>5. CASE ~(Cardinality(kept) >= limit)
  <2>1. run = [allowed |-> TRUE, retry_after |-> 0, entries |-> kept \cup {new}]
    BY <1>5 DEF SlidingWindow
  <2>2. /\ IsFiniteSet(kept \cup {new})
        /\ Cardinality(kept \cup {new}) <= Cardinality(kept) + 1
        /\ Cardinality(kept \cup {new}) \in Nat
    <3> HIDE DEF new
    <3>1. /\ IsFiniteSet(kept \cup {new})
          /\ Cardinality(kept \cup {new}) = IF new \in kept THEN Cardinality(kept)
                                           ELSE Cardinality(kept) + 1
      BY <1>2, FS_AddElement
    <3>2. QED
      BY <1>2, <3>1
  <2>3. Cardinality(kept \cup {new}) <= limit
    BY <1>2, <1>5, <2>2
  <2> HIDE DEF new, run, kept
  <2>4. Works(run, kept, limit, new)
    BY <1>1, <1>3, <2>1, <2>2, <2>3 DEF Works
  <2>5. QED
    BY <2>4 DEF new, run, kept
<1>6. QED
  BY <1>4, <1>5

(* A refusal finds the window full, leaves it so, and tells when its       *)
(* oldest entry leaves it.                                                 *)
LEMMA RefusalTells ==
    ASSUME NEW entries, entries \subseteq Entry, IsFiniteSet(entries),
           NEW limit \in Nat \ {0}, Cardinality(entries) <= limit,
           NEW now_ms \in Nat, NEW window \in Nat, NEW member \in Nat,
           ~SlidingWindow(entries, now_ms, window, limit, member).allowed
    PROVE  LET run == SlidingWindow(entries, now_ms, window, limit, member)
               kept == Kept(entries, now_ms, window)
           IN /\ run.entries = kept
              /\ run.retry_after = Ceil(Oldest(kept).score + window - now_ms)
              /\ IsFiniteSet(kept) /\ Cardinality(kept) = limit
<1> DEFINE run == SlidingWindow(entries, now_ms, window, limit, member)
           kept == Kept(entries, now_ms, window)
<1>1. kept \subseteq entries
  BY DEF Kept
<1>2. /\ IsFiniteSet(kept) /\ Cardinality(kept) <= Cardinality(entries)
      /\ Cardinality(kept) \in Nat /\ Cardinality(entries) \in Nat
  BY <1>1, FS_Subset, FS_CardinalityType
<1>3. Cardinality(kept) >= limit
  BY DEF SlidingWindow
<1>4. run.entries = kept /\ run.retry_after = Ceil(Oldest(kept).score + window - now_ms)
  BY <1>3 DEF SlidingWindow
<1>5. Cardinality(kept) = limit
  BY <1>2, <1>3
<1>6. QED
  BY <1>2, <1>4, <1>5

-----------------------------------------------------------------------------
(* A request on its way.                                                   *)

(* An open request is at a rule it has.                                    *)
LEMMA AtARule ==
    ASSUME TypeOK, HandlersAtACheck, NEW h \in Handlers, Open(h)
    PROVE  /\ handler[h].process \in Processes
           /\ handler[h].check \in 1 .. Len(Checks(SurfaceOf[handler[h].process]))
           /\ handler[h].check \in 1 .. 2
           /\ Len(Checks(SurfaceOf[handler[h].process])) \in 1 .. 2
           /\ NameOf(h) \in Names
<1>1. /\ handler[h].process \in Processes
      /\ handler[h].check \in 1 .. Len(Checks(SurfaceOf[handler[h].process]))
  BY DEF HandlersAtACheck
<1>2. QED
  BY <1>1, ChecksType DEF NameOf

(* A handler that is free again, or begins a check with a fresh member.    *)
Settles(h) ==
    /\ handler' \in [Handlers -> Handler]
    /\ limiter' \in [Processes \X Layers -> [client : BOOLEAN, sha : BOOLEAN]]
    /\ serial' \in Nat
    /\ \A g \in Handlers \ {h} : handler'[g] = handler[g]
    /\ \/ handler'[h] = IdleHandler /\ serial' = serial
       \/ /\ serial' = serial + 1
          /\ handler'[h].member = serial + 1
          /\ handler'[h].process \in Processes
          /\ handler'[h].check \in 1 .. Len(Checks(SurfaceOf[handler'[h].process]))
          /\ handler'[h].sent = now
          /\ handler'[h].now_ms \in now .. now + MaxSkew

(* The request is told, in Redis's own time, with a clock of its process.  *)
LEMMA EnterCheckSettles ==
    ASSUME TypeOK, NEW h \in Handlers, NEW p \in Processes,
           NEW check \in 1 .. Len(Checks(SurfaceOf[p])), NEW outage \in BOOLEAN,
           EnterCheck(h, p, check, outage)
    PROVE  Settles(h)
<1>1. check \in 1 .. 2 /\ Checks(SurfaceOf[p])[check] \in Names
  BY ChecksType
<1>2. /\ LimiterOf(p, check) \in Processes \X Layers
      /\ limiter[LimiterOf(p, check)] \in [client : BOOLEAN, sha : BOOLEAN]
  BY <1>1, RuleType DEF LimiterOf, TypeOK
<1>3. PICK clock \in now .. (now + MaxSkew) :
        /\ limiter' = EnsureRedis(LimiterOf(p, check))
        /\ handler' = Called(h, p, check, clock, outage)
        /\ serial' = serial + 1
  BY DEF EnterCheck
<1>4. clock \in Nat
  BY RateAssumption DEF RateAssumption, TypeOK
<1>5. limiter' \in [Processes \X Layers -> [client : BOOLEAN, sha : BOOLEAN]]
  BY <1>2, <1>3 DEF EnsureRedis, TypeOK
<1> DEFINE new == [state |-> IF limiter[LimiterOf(p, check)].client THEN "evaluating" ELSE "loading",
                   process |-> p, check |-> check, now_ms |-> clock,
                   sha |-> limiter[LimiterOf(p, check)].sha,
                   member |-> serial + 1, sent |-> now, outage |-> outage]
<1>6. new \in Handler
  BY <1>1, <1>2, <1>4 DEF Handler, TypeOK
<1>7. handler' = [handler EXCEPT ![h] = new]
  BY <1>3 DEF Called
<1>8. /\ handler' \in [Handlers -> Handler] /\ handler'[h] = new
      /\ \A g \in Handlers \ {h} : handler'[g] = handler[g]
  BY <1>6, <1>7 DEF TypeOK
<1>9. QED
  BY <1>3, <1>5, <1>8 DEF Settles, TypeOK

(* A handler that is done has settled.                                     *)
LEMMA IdleSettles ==
    ASSUME TypeOK, NEW h \in Handlers, handler' = [handler EXCEPT ![h] = IdleHandler],
           UNCHANGED <<limiter, serial>>
    PROVE  Settles(h)
<1>1. IdleHandler \in Handler
  BY DEF IdleHandler, Handler
<1>2. QED
  BY <1>1 DEF Settles, TypeOK

(* What passes, passes under the member of the request's own script call.  *)
Passes(h, name) ==
    \E checked \in BOOLEAN :
        /\ checked \/ RuleOf[name].fail_mode = "open"
        /\ passed' = [passed EXCEPT ![name] =
             @ \cup {[at |-> now, member |-> handler[h].member, checked |-> checked,
                     keyspace |-> losses]}]

(* A request that is over leaves the other handlers their members.         *)
LEMMA SettlingKeepsOwnMembers ==
    ASSUME TypeOK, HandlersAtACheck, ClocksAgree, OwnMembers, ClosedRulesAreChecked,
           UNCHANGED <<now, losses>>, NEW h \in Handlers, Settles(h),
           \/ UNCHANGED passed
           \/ Open(h) /\ \E name \in Names : Passes(h, name)
    PROVE  /\ HandlersAtACheck' /\ ClocksAgree' /\ OwnMembers' /\ ClosedRulesAreChecked'
           /\ passed' \in [Names -> SUBSET Pass]
<1> USE DEF Open
<1>1. IdleHandler.state = "idle"
  BY DEF IdleHandler
<1>2. /\ handler \in [Handlers -> Handler] /\ serial \in Nat /\ now \in Nat /\ losses \in Nat
      /\ passed \in [Names -> SUBSET Pass] /\ MaxSkew \in Nat /\ MaxDelay \in Nat
  BY RateAssumption DEF TypeOK, RateAssumption
<1>3. \A g \in Handlers : handler[g].member \in Nat
  BY <1>2 DEF Handler
<1>4. HandlersAtACheck'
  BY <1>1 DEF Settles, HandlersAtACheck
<1>5. ClocksAgree'
  BY <1>1, <1>2 DEF Settles, ClocksAgree
<1>6. passed' \in [Names -> SUBSET Pass]
  <2>1. ASSUME NEW name \in Names, Passes(h, name) PROVE passed' \in [Names -> SUBSET Pass]
    <3>1. PICK checked \in BOOLEAN :
            passed' = [passed EXCEPT ![name] =
              @ \cup {[at |-> now, member |-> handler[h].member, checked |-> checked,
                     keyspace |-> losses]}]
      BY <2>1 DEF Passes
    <3>2. [at |-> now, member |-> handler[h].member, checked |-> checked,
          keyspace |-> losses] \in Pass
      BY <1>2, <1>3 DEF Pass
    <3>3. QED
      BY <1>2, <3>1, <3>2
  <2>2. QED
    BY <1>2, <2>1
<1>7. ASSUME NEW name \in Names, NEW p \in passed'[name]
      PROVE  \/ p \in passed[name]
             \/ /\ Open(h) /\ passed'[name] = passed[name] \cup {p}
                /\ p.at = now /\ p.member = handler[h].member /\ p.keyspace = losses
                /\ p.checked \/ RuleOf[name].fail_mode = "open"
  BY <1>2, <1>7 DEF Passes
<1>8. ClosedRulesAreChecked'
  BY <1>7 DEF ClosedRulesAreChecked
<1>9. ASSUME NEW g \in Handlers, handler'[g].state # "idle"
      PROVE  handler'[g].member <= serial' /\ handler'[g].member \in Nat
  BY <1>1, <1>2, <1>3, <1>9 DEF Settles, OwnMembers
<1>10. ASSUME NEW f \in Handlers, NEW g \in Handlers, f # g,
              handler'[f].state # "idle", handler'[g].state # "idle"
       PROVE  handler'[f].member # handler'[g].member
  <2>1. CASE f = h
    BY <1>1, <1>2, <1>3, <1>10, <2>1 DEF Settles, OwnMembers
  <2>2. CASE g = h
    BY <1>1, <1>2, <1>3, <1>10, <2>2 DEF Settles, OwnMembers
  <2>3. CASE f # h /\ g # h
    BY <1>10, <2>3 DEF Settles, OwnMembers
  <2>4. QED
    BY <2>1, <2>2, <2>3
<1>11. ASSUME NEW name \in Names, NEW p \in passed'[name]
       PROVE  /\ p.at <= now' /\ p.member <= serial' /\ p.keyspace <= losses'
              /\ \A g \in Handlers : handler'[g].state # "idle" => handler'[g].member # p.member
  <2>1. p.member \in Nat /\ serial' \in Nat /\ serial <= serial'
    BY <1>2, <1>6 DEF Pass, Settles
  <2>2. p.at <= now /\ p.member <= serial /\ p.keyspace <= losses
    BY <1>2, <1>7 DEF OwnMembers
  <2>3. ASSUME NEW g \in Handlers, handler'[g].state # "idle"
        PROVE  handler'[g].member # p.member
    <3>1. CASE g = h
      BY <1>1, <1>2, <2>1, <2>2, <2>3, <3>1 DEF Settles
    <3>2. CASE g # h
      <4>1. handler'[g] = handler[g]
        BY <3>2 DEF Settles
      <4>2. QED
        BY <1>7, <2>3, <3>2, <4>1 DEF OwnMembers
    <3>3. QED
      BY <3>1, <3>2
  <2>4. QED
    BY <1>2, <2>1, <2>2, <2>3
<1>12. ASSUME NEW name \in Names, NEW p \in passed'[name], NEW q \in passed'[name],
              p.member = q.member
       PROVE  p = q
  BY <1>7, <1>12 DEF OwnMembers
<1>13. OwnMembers'
  BY <1>9, <1>10, <1>11, <1>12 DEF OwnMembers
<1>14. QED
  BY <1>4, <1>5, <1>6, <1>8, <1>13

(* What a client is told has the type of an answer.                        *)
LEMMA ToldType ==
    ASSUME TypeOK, NEW h \in Handlers, NEW verdict \in {"none", "pass", "429", "503"},
           NEW retry_after \in Int, NEW outage \in BOOLEAN,
           Told(h, verdict, retry_after, outage)
    PROVE  answer' \in [Handlers -> Answer]
<1>1. [verdict |-> verdict, retry_after |-> retry_after, outage |-> outage] \in Answer
  BY DEF Answer
<1>2. QED
  BY <1>1 DEF Told, TypeOK

(* On to the next check, or through to the application. *)
LEMMA GoOnSettles ==
    ASSUME TypeOK, HandlersAtACheck, NEW h \in Handlers, Open(h),
           NEW checked \in BOOLEAN, NEW outage \in BOOLEAN, GoOn(h, checked, outage)
    PROVE  /\ Settles(h) /\ answer' \in [Handlers -> Answer]
           /\ passed' = [passed EXCEPT ![NameOf(h)] =
                @ \cup {[at |-> now, member |-> handler[h].member, checked |-> checked,
                     keyspace |-> losses]}]
<1> DEFINE p == handler[h].process
           check == handler[h].check
<1>1. p \in Processes /\ check \in 1 .. 2 /\ Len(Checks(SurfaceOf[p])) \in 1 .. 2
  BY AtARule
<1>2. CASE check < Len(Checks(SurfaceOf[p]))
  <2>1. check + 1 \in 1 .. Len(Checks(SurfaceOf[p]))
    BY <1>1, <1>2
  <2>2. EnterCheck(h, p, check + 1, outage) /\ UNCHANGED answer
    BY <1>2 DEF GoOn
  <2> HIDE DEF p, check
  <2>3. Settles(h)
    BY <1>1, <2>1, <2>2, EnterCheckSettles
  <2>4. QED
    BY <2>2, <2>3 DEF GoOn, TypeOK
<1>3. CASE ~(check < Len(Checks(SurfaceOf[p])))
  <2>1. /\ handler' = [handler EXCEPT ![h] = IdleHandler]
        /\ Told(h, "pass", 0, outage)
        /\ UNCHANGED <<limiter, serial>>
    BY <1>3 DEF GoOn
  <2>2. Settles(h)
    BY <2>1, IdleSettles
  <2>3. answer' \in [Handlers -> Answer]
    BY <2>1, ToldType
  <2>4. QED
    BY <2>2, <2>3 DEF GoOn
<1>4. QED
  BY <1>2, <1>3

(* A refusal settles its handler and lets nothing pass.                    *)
LEMMA RefuseSettles ==
    ASSUME TypeOK, NEW h \in Handlers, NEW verdict \in {"none", "pass", "429", "503"},
           NEW retry_after \in Int, NEW outage \in BOOLEAN,
           Refuse(h, verdict, retry_after, outage)
    PROVE  Settles(h) /\ answer' \in [Handlers -> Answer] /\ UNCHANGED passed
BY IdleSettles, ToldType DEF Refuse

(* A passed request still counts: its entry is in the set, and its key.    *)
Remembers(name, p) ==
    /\ p.at + Window(name) <= expire[name]
    /\ \E e \in zset[name] : e.member = p.member /\ e.score >= p.at - MaxDelay

(* The script's run, for the tables: it keeps the entry of everything that *)
(* still counts, and gives what it admits one of its own.                  *)
LEMMA ScriptRemembers ==
    ASSUME RateInv, NEW h \in Handlers, RunScript(h)
    PROVE  /\ zset' \in [Names -> SUBSET Entry] /\ expire' \in [Names -> Nat]
           /\ UNCHANGED <<now, redis, losses>>
           /\ Open(h) /\ NameOf(h) \in Names
           /\ SetsWithinLimit'
           /\ \A m \in Names : \A p \in Current(m) : Remembers(m, p)'
           /\ Evaluation(h).allowed \in BOOLEAN /\ Evaluation(h).retry_after \in Int
           /\ Evaluation(h).allowed =>
                /\ expire'[NameOf(h)] = now + Window(NameOf(h))
                /\ \E e \in zset'[NameOf(h)] :
                     e.member = handler[h].member /\ e.score >= now - MaxDelay
<1> DEFINE name == NameOf(h)
           now_ms == handler[h].now_ms
           member == handler[h].member
           window == Window(name)
           new == [score |-> now_ms, member |-> member]
           run == Evaluation(h)
           kept == Kept(zset[name], now_ms, window)
<1>1. /\ UNCHANGED <<now, redis, losses>> /\ handler[h].state = "evaluating" /\ Open(h)
      /\ zset' = [zset EXCEPT ![name] = run.entries]
      /\ expire' = IF run.allowed THEN [expire EXCEPT ![name] = now + window] ELSE expire
  BY DEF RunScript, Open
<1>2. /\ name \in Names /\ now_ms \in Nat /\ member \in Nat /\ now \in Nat
      /\ handler[h].sent \in Nat
      /\ MaxSkew \in Nat /\ MaxDelay \in Nat /\ Slack = MaxSkew + MaxDelay
      /\ zset \in [Names -> SUBSET Entry] /\ expire \in [Names -> Nat]
  BY <1>1, AtARule, RateAssumption DEF RateInv, TypeOK, Handler, RateAssumption, Slack
<1>3. /\ window \in Nat /\ Limit[name] \in Nat \ {0}
      /\ zset[name] \subseteq Entry /\ IsFiniteSet(zset[name])
      /\ Cardinality(zset[name]) <= Limit[name]
  BY <1>2, WindowType DEF RateInv, SetsWithinLimit
<1>4. /\ handler[h].sent <= now /\ now <= handler[h].sent + MaxDelay
      /\ handler[h].sent <= now_ms /\ now_ms <= handler[h].sent + MaxSkew
  BY <1>1 DEF RateInv, ClocksAgree
<1>5. run = SlidingWindow(zset[name], now_ms, window, Limit[name], member)
  BY DEF Evaluation
<1> HIDE DEF name, now_ms, member, window, run
<1>6. Works(run, kept, Limit[name], new)
  BY <1>2, <1>3, <1>5, SlidingWindowWorks
<1>7. /\ run.allowed \in BOOLEAN /\ run.retry_after \in Int
      /\ run.entries \subseteq Entry /\ IsFiniteSet(run.entries)
      /\ Cardinality(run.entries) <= Limit[name]
      /\ kept \subseteq run.entries
      /\ run.entries \subseteq kept \cup {new}
      /\ run.allowed => new \in run.entries
  BY <1>6 DEF Works
<1>8. zset' \in [Names -> SUBSET Entry] /\ expire' \in [Names -> Nat]
  BY <1>1, <1>2, <1>3, <1>7
<1>9. SetsWithinLimit'
  <2>1. ASSUME NEW m \in Names
        PROVE  /\ IsFiniteSet(zset'[m]) /\ Cardinality(zset'[m]) <= Limit[m]
               /\ \A e \in zset'[m] : e.score <= now + MaxSkew
    <3>1. CASE m = name
      <4>1. zset'[m] = run.entries
        BY <1>1, <1>2, <3>1
      <4>2. ASSUME NEW e \in run.entries PROVE e.score <= now + MaxSkew
        <5>1. e \in zset[name] \/ e = new
          BY <1>7 DEF Kept
        <5>2. now_ms <= now + MaxSkew
          BY <1>2, <1>4
        <5>3. QED
          BY <1>2, <5>1, <5>2 DEF RateInv, SetsWithinLimit
      <4>3. QED
        BY <1>7, <3>1, <4>1, <4>2
    <3>2. CASE m # name
      BY <1>1, <1>2, <3>2 DEF RateInv, SetsWithinLimit
    <3>3. QED
      BY <3>1, <3>2
  <2>2. QED
    BY <1>1, <2>1 DEF SetsWithinLimit
<1>10. ASSUME NEW m \in Names, NEW p \in Current(m)
      PROVE  /\ p.at + Window(m) <= expire'[m]
             /\ \E e \in zset'[m] : e.member = p.member /\ e.score >= p.at - MaxDelay
  <2>1. /\ p.at \in Nat /\ p.at <= now /\ p.at > now - (Window(m) - Slack)
        /\ p.at + Window(m) <= expire[m] /\ Window(m) \in Nat
    BY <1>2, WindowType DEF Current, Recent, Counted, RateInv, TypeOK, Pass, OwnMembers,
                            RecentAreRemembered
  <2>2. PICK e \in zset[m] : e.member = p.member /\ e.score >= p.at - MaxDelay
    BY DEF RateInv, RecentAreRemembered
  <2>3. e.score \in Nat
    BY <1>2 DEF Entry
  <2>4. CASE m = name
    <3>1. e.score > now_ms - window
      BY <1>2, <1>3, <1>4, <2>1, <2>2, <2>3, <2>4 DEF window
    <3>2. e \in run.entries
      BY <1>7, <2>4, <3>1 DEF Kept
    <3>3. p.at + Window(m) <= expire'[m]
      BY <1>1, <1>2, <2>1, <2>4 DEF window
    <3>4. QED
      BY <1>1, <1>2, <2>2, <2>4, <3>2, <3>3
  <2>5. CASE m # name
    BY <1>1, <1>2, <2>1, <2>2, <2>5
  <2>6. QED
    BY <2>4, <2>5
<1>11. ASSUME run.allowed
       PROVE  /\ expire'[name] = now + window
              /\ \E e \in zset'[name] : e.member = member /\ e.score >= now - MaxDelay
  <2>1. new \in zset'[name] /\ now_ms >= now - MaxDelay
    BY <1>1, <1>2, <1>4, <1>7, <1>11
  <2>2. QED
    BY <1>1, <1>2, <1>11, <2>1
<1>12. QED
  BY <1>1, <1>2, <1>7, <1>8, <1>9, <1>10, <1>11 DEF Remembers, name, window, run, member

(* One more pass: it counts only with an entry.                            *)
LEMMA PassingIsRemembered ==
    ASSUME TypeOK, UNCHANGED <<now, losses>>,
           \A m \in Names : \A p \in Current(m) : Remembers(m, p)',
           NEW name \in Names, NEW member, NEW checked \in BOOLEAN,
           passed' = [passed EXCEPT ![name] =
             @ \cup {[at |-> now, member |-> member, checked |-> checked,
                     keyspace |-> losses]}],
           checked \/ RuleOf[name].fail_mode = "open",
           checked => /\ expire'[name] = now + Window(name)
                      /\ \E e \in zset'[name] : e.member = member /\ e.score >= now - MaxDelay
    PROVE  RecentAreRemembered'
<1>1. passed \in [Names -> SUBSET Pass] /\ now \in Nat /\ losses \in Nat
  BY DEF TypeOK
<1>2. Window(name) \in Nat
  BY WindowType
<1>3. ASSUME NEW m \in Names, NEW p \in Current(m)' PROVE Remembers(m, p)'
  <2>1. CASE p \in passed[m]
    <3>1. p \in Current(m)
      BY <1>3, <2>1 DEF Current, Recent, Counted
    <3>2. QED
      BY <3>1
  <2>2. CASE p \notin passed[m]
    <3>1. m = name /\ p = [at |-> now, member |-> member, checked |-> checked,
                         keyspace |-> losses]
      BY <1>1, <1>3, <2>2 DEF Current, Recent, Counted
    <3>2. checked
      BY <1>3, <3>1 DEF Current, Recent, Counted
    <3>3. QED
      BY <1>1, <1>2, <3>1, <3>2 DEF Remembers
  <2>3. QED
    BY <2>1, <2>2
<1>4. QED
  BY <1>3 DEF RecentAreRemembered, Remembers

-----------------------------------------------------------------------------
(* The steps.                                                              *)

(* Nobody's answer or window changes when a request arrives.               *)
LEMMA ArriveKeepsInv ==
    ASSUME RateInv, NEW h \in Handlers, NEW p \in Processes, Arrive(h, p)
    PROVE  RateInv'
<1>1. /\ UNCHANGED <<now, redis, zset, expire, passed, losses>>
      /\ EnterCheck(h, p, 1, ~redis.up) /\ Checks(SurfaceOf[p]) # <<>>
      /\ answer' = [answer EXCEPT ![h] = NoAnswer]
      /\ budget' = [budget EXCEPT !.requests = @ + 1]
  BY DEF Arrive
<1>2. 1 \in 1 .. Len(Checks(SurfaceOf[p]))
  <2>1. SurfaceOf[p] \in {"capture", "api", "replay", "viewer"}
    BY RateAssumption DEF RateAssumption, Surfaces
  <2>2. QED
    BY <1>1, <2>1 DEF Checks
<1>3. Settles(h)
  BY <1>1, <1>2, EnterCheckSettles DEF RateInv
<1>4. NoAnswer \in Answer
  BY DEF NoAnswer, Answer
<1>5. TypeOK'
  <2>1. answer' \in [Handlers -> Answer]
    BY <1>1, <1>4 DEF RateInv, TypeOK
  <2>2. budget' \in [requests : Nat, faults : Nat]
    BY <1>1 DEF RateInv, TypeOK
  <2>3. QED
    BY <1>1, <1>3, <2>1, <2>2 DEF RateInv, TypeOK, Settles
<1>6. HandlersAtACheck' /\ ClocksAgree' /\ OwnMembers' /\ ClosedRulesAreChecked'
  BY <1>1, <1>3, SettlingKeepsOwnMembers DEF RateInv
<1>7. SetsWithinLimit' /\ RecentAreRemembered'
  BY <1>1 DEF RateInv, SetsWithinLimit, RecentAreRemembered, Current, Recent, Counted
<1>8. QED
  BY <1>5, <1>6, <1>7 DEF RateInv

(* The script's SHA is cached, and the call sent with a clock read now.    *)
LEMMA LoadScriptKeepsInv ==
    ASSUME RateInv, NEW h \in Handlers, LoadScript(h)
    PROVE  RateInv'
<1>1. /\ UNCHANGED <<now, zset, expire, answer, passed, losses, serial, budget>>
      /\ handler[h].state = "loading" /\ Open(h)
      /\ redis' = [redis EXCEPT !.script = TRUE]
      /\ limiter' = [limiter EXCEPT
                       ![LimiterOf(handler[h].process, handler[h].check)].sha = TRUE]
  BY DEF LoadScript, Open
<1>2. PICK clock \in now .. (now + MaxSkew) :
        handler' = [handler EXCEPT ![h].state = "evaluating", ![h].sha = TRUE,
                                   ![h].now_ms = clock, ![h].sent = now]
  BY DEF LoadScript
<1>3. /\ clock \in Nat /\ now \in Nat /\ MaxSkew \in Nat /\ MaxDelay \in Nat
      /\ handler \in [Handlers -> Handler]
  BY RateAssumption DEF RateInv, TypeOK, RateAssumption
<1> DEFINE new == [handler[h] EXCEPT !.state = "evaluating", !.sha = TRUE,
                                     !.now_ms = clock, !.sent = now]
<1>4. handler' = [handler EXCEPT ![h] = new]
  BY <1>2
<1>5. /\ new \in Handler /\ new.state = "evaluating" /\ new.process = handler[h].process
      /\ new.check = handler[h].check /\ new.member = handler[h].member
      /\ new.now_ms = clock /\ new.sent = now
  BY <1>3 DEF Handler
<1> HIDE DEF new
<1>6. /\ handler' \in [Handlers -> Handler]
      /\ \A g \in Handlers \ {h} : handler'[g] = handler[g]
      /\ handler'[h] = new
  BY <1>3, <1>4, <1>5
<1>7. limiter' \in [Processes \X Layers -> [client : BOOLEAN, sha : BOOLEAN]]
  BY <1>1 DEF RateInv, TypeOK
<1>8. TypeOK'
  BY <1>1, <1>6, <1>7 DEF RateInv, TypeOK
<1>9. HandlersAtACheck'
  BY <1>1, <1>5, <1>6 DEF RateInv, HandlersAtACheck, Open
<1>10. ClocksAgree'
  BY <1>1, <1>3, <1>5, <1>6 DEF RateInv, ClocksAgree
<1>11. ASSUME NEW g \in Handlers
       PROVE  handler'[g].member = handler[g].member /\ Open(g)' = Open(g)
  BY <1>1, <1>5, <1>6 DEF Open
<1>12. OwnMembers' /\ ClosedRulesAreChecked'
  BY <1>1, <1>11 DEF RateInv, OwnMembers, ClosedRulesAreChecked
<1>13. SetsWithinLimit' /\ RecentAreRemembered'
  BY <1>1 DEF RateInv, SetsWithinLimit, RecentAreRemembered, Current, Recent, Counted
<1>14. QED
  BY <1>8, <1>9, <1>10, <1>12, <1>13 DEF RateInv

(* The window decides: what it lets pass is in the set it leaves.          *)
LEMMA EvalScriptKeepsInv ==
    ASSUME RateInv, NEW h \in Handlers, EvalScript(h)
    PROVE  RateInv'
<1>1. /\ zset' \in [Names -> SUBSET Entry] /\ expire' \in [Names -> Nat]
      /\ UNCHANGED <<now, redis, losses, budget>>
      /\ Open(h) /\ NameOf(h) \in Names
      /\ SetsWithinLimit'
      /\ \A m \in Names : \A p \in Current(m) : Remembers(m, p)'
      /\ Evaluation(h).allowed \in BOOLEAN /\ Evaluation(h).retry_after \in Int
      /\ Evaluation(h).allowed =>
           /\ expire'[NameOf(h)] = now + Window(NameOf(h))
           /\ \E e \in zset'[NameOf(h)] :
                e.member = handler[h].member /\ e.score >= now - MaxDelay
  BY ScriptRemembers DEF EvalScript
<1>2. handler[h].outage \in BOOLEAN
  BY DEF RateInv, TypeOK, Handler
<1>3. CASE Evaluation(h).allowed
  <2>1. /\ Settles(h) /\ answer' \in [Handlers -> Answer]
        /\ passed' = [passed EXCEPT ![NameOf(h)] =
             @ \cup {[at |-> now, member |-> handler[h].member, checked |-> TRUE,
                    keyspace |-> losses]}]
    BY <1>1, <1>2, <1>3, GoOnSettles DEF EvalScript, RateInv
  <2>2. Passes(h, NameOf(h))
    BY <2>1 DEF Passes
  <2>3. /\ HandlersAtACheck' /\ ClocksAgree' /\ OwnMembers' /\ ClosedRulesAreChecked'
        /\ passed' \in [Names -> SUBSET Pass]
    BY <1>1, <2>1, <2>2, SettlingKeepsOwnMembers DEF RateInv
  <2>4. RecentAreRemembered'
    BY <1>1, <1>3, <2>1, PassingIsRemembered DEF RateInv
  <2>5. TypeOK'
    BY <1>1, <2>1, <2>3 DEF RateInv, TypeOK, Settles
  <2>6. QED
    BY <1>1, <2>3, <2>4, <2>5 DEF RateInv
<1>4. CASE ~Evaluation(h).allowed
  <2>1. Settles(h) /\ answer' \in [Handlers -> Answer] /\ UNCHANGED passed
    BY <1>1, <1>2, <1>4, RefuseSettles DEF EvalScript, RateInv
  <2>2. /\ HandlersAtACheck' /\ ClocksAgree' /\ OwnMembers' /\ ClosedRulesAreChecked'
    BY <1>1, <2>1, SettlingKeepsOwnMembers DEF RateInv
  <2>3. RecentAreRemembered'
    BY <1>1, <2>1 DEF RecentAreRemembered, Current, Recent, Counted, Remembers
  <2>4. TypeOK'
    BY <1>1, <2>1 DEF RateInv, TypeOK, Settles
  <2>5. QED
    BY <1>1, <2>1, <2>2, <2>3, <2>4 DEF RateInv
<1>5. QED
  BY <1>3, <1>4

(* Whatever Redis has made of it, an error closes the ingest rule and      *)
(* opens the others, which then count nothing.                             *)
LEMMA FailModeKeepsInv ==
    ASSUME RateInv, NEW h \in Handlers, Open(h), NEW outage \in BOOLEAN, FailMode(h, outage),
           UNCHANGED <<now, losses>>, redis' \in [up : BOOLEAN, script : BOOLEAN],
           budget' \in [requests : Nat, faults : Nat],
           zset' \in [Names -> SUBSET Entry], expire' \in [Names -> Nat],
           SetsWithinLimit', \A m \in Names : \A p \in Current(m) : Remembers(m, p)'
    PROVE  RateInv'
<1>1. NameOf(h) \in Names /\ RuleOf[NameOf(h)].fail_mode \in {"open", "closed"}
  BY AtARule, RuleType DEF RateInv
<1>2. CASE RuleOf[NameOf(h)].fail_mode = "closed"
  <2>1. Settles(h) /\ answer' \in [Handlers -> Answer] /\ UNCHANGED passed
    BY <1>2, RefuseSettles DEF FailMode, RateInv
  <2>2. /\ HandlersAtACheck' /\ ClocksAgree' /\ OwnMembers' /\ ClosedRulesAreChecked'
    BY <2>1, SettlingKeepsOwnMembers DEF RateInv
  <2>3. RecentAreRemembered'
    BY <2>1 DEF RecentAreRemembered, Current, Recent, Counted, Remembers
  <2>4. TypeOK'
    BY <2>1 DEF RateInv, TypeOK, Settles
  <2>5. QED
    BY <2>1, <2>2, <2>3, <2>4 DEF RateInv
<1>3. CASE RuleOf[NameOf(h)].fail_mode = "open"
  <2>1. GoOn(h, FALSE, outage)
    BY <1>3 DEF FailMode
  <2>2. /\ Settles(h) /\ answer' \in [Handlers -> Answer]
        /\ passed' = [passed EXCEPT ![NameOf(h)] =
             @ \cup {[at |-> now, member |-> handler[h].member, checked |-> FALSE,
                    keyspace |-> losses]}]
    BY <2>1, GoOnSettles DEF RateInv
  <2>3. Passes(h, NameOf(h))
    BY <1>3, <2>2 DEF Passes
  <2>4. /\ HandlersAtACheck' /\ ClocksAgree' /\ OwnMembers' /\ ClosedRulesAreChecked'
        /\ passed' \in [Names -> SUBSET Pass]
    BY <1>1, <2>2, <2>3, SettlingKeepsOwnMembers DEF RateInv
  <2>5. RecentAreRemembered'
    BY <1>1, <1>3, <2>2, PassingIsRemembered DEF RateInv
  <2>6. TypeOK'
    BY <2>2, <2>4 DEF RateInv, TypeOK, Settles
  <2>7. QED
    BY <2>4, <2>5, <2>6 DEF RateInv
<1>4. QED
  BY <1>1, <1>2, <1>3

(* A script whose reply is lost has run all the same.                      *)
LEMMA ReplyLostKeepsInv ==
    ASSUME RateInv, NEW h \in Handlers, ReplyLost(h)
    PROVE  RateInv'
<1>1. RunScript(h) /\ FailMode(h, TRUE) /\ budget' = [budget EXCEPT !.faults = @ + 1]
  BY DEF ReplyLost
<1>2. budget' \in [requests : Nat, faults : Nat] /\ redis \in [up : BOOLEAN, script : BOOLEAN]
  BY <1>1 DEF RateInv, TypeOK
<1>3. QED
  BY <1>1, <1>2, ScriptRemembers, FailModeKeepsInv

(* An error before the script runs leaves the sets alone.                  *)
LEMMA RedisErrorKeepsInv ==
    ASSUME RateInv, NEW h \in Handlers, RedisError(h)
    PROVE  RateInv'
<1>1. /\ Open(h) /\ FailMode(h, handler[h].outage)
      /\ UNCHANGED <<now, redis, zset, expire, losses, budget>>
  BY DEF RedisError, Open
<1>2. /\ handler[h].outage \in BOOLEAN /\ redis \in [up : BOOLEAN, script : BOOLEAN]
      /\ budget \in [requests : Nat, faults : Nat]
      /\ zset \in [Names -> SUBSET Entry] /\ expire \in [Names -> Nat]
  BY DEF RateInv, TypeOK, Handler
<1>3. SetsWithinLimit' /\ \A m \in Names : \A p \in Current(m) : Remembers(m, p)'
  BY <1>1 DEF RateInv, SetsWithinLimit, RecentAreRemembered, Remembers
<1>4. QED
  BY <1>1, <1>2, <1>3, FailModeKeepsInv

(* An outage marks the requests that are open.                             *)
LEMMA OutageKeepsInv == ASSUME RateInv, Outage PROVE RateInv'
<1>1. /\ UNCHANGED <<now, zset, expire, limiter, answer, passed, losses, serial>>
      /\ redis' = [redis EXCEPT !.up = FALSE]
      /\ handler' = [h \in Handlers |->
                       [handler[h] EXCEPT !.outage = @ \/ handler[h].state # "idle"]]
      /\ budget' = [budget EXCEPT !.faults = @ + 1]
  BY DEF Outage
<1>2. ASSUME NEW h \in Handlers
      PROVE  /\ handler'[h] \in Handler
             /\ handler'[h].state = handler[h].state
             /\ handler'[h].process = handler[h].process
             /\ handler'[h].check = handler[h].check
             /\ handler'[h].member = handler[h].member
             /\ handler'[h].sent = handler[h].sent
             /\ handler'[h].now_ms = handler[h].now_ms
  <2>1. handler[h] \in Handler /\ (handler[h].outage \/ handler[h].state # "idle") \in BOOLEAN
    BY DEF RateInv, TypeOK, Handler
  <2>2. QED
    BY <1>1, <2>1 DEF Handler
<1>3. TypeOK'
  <2>1. handler' \in [Handlers -> Handler]
    BY <1>1, <1>2
  <2>2. budget' \in [requests : Nat, faults : Nat]
    BY <1>1 DEF RateInv, TypeOK
  <2>3. redis' \in [up : BOOLEAN, script : BOOLEAN]
    BY <1>1 DEF RateInv, TypeOK
  <2>4. QED
    BY <1>1, <2>1, <2>2, <2>3 DEF RateInv, TypeOK
<1>4. HandlersAtACheck' /\ ClocksAgree'
  BY <1>1, <1>2 DEF RateInv, HandlersAtACheck, ClocksAgree, Open
<1>5. OwnMembers' /\ ClosedRulesAreChecked'
  <2>1. \A h \in Handlers : handler'[h].member = handler[h].member
    BY <1>2
  <2>2. \A h \in Handlers : Open(h)' => Open(h)
    BY <1>2 DEF Open
  <2>3. /\ \A h \in Handlers : Open(h)' => handler'[h].member <= serial'
        /\ \A g, h \in Handlers :
             (Open(g)' /\ Open(h)' /\ handler'[g].member = handler'[h].member) => g = h
    BY <1>1, <2>1, <2>2 DEF RateInv, OwnMembers
  <2>4. ASSUME NEW name \in Names, NEW p \in passed[name]
        PROVE  /\ p.at <= now /\ p.member <= serial /\ p.keyspace <= losses
               /\ \A h \in Handlers : Open(h)' => handler'[h].member # p.member
    BY <2>1, <2>2 DEF RateInv, OwnMembers
  <2>5. \A name \in Names : \A p, q \in passed[name] : p.member = q.member => p = q
    BY DEF RateInv, OwnMembers
  <2>6. ClosedRulesAreChecked'
    BY <1>1 DEF RateInv, ClosedRulesAreChecked
  <2>7. QED
    BY <1>1, <2>3, <2>4, <2>5, <2>6 DEF OwnMembers
<1>6. SetsWithinLimit' /\ RecentAreRemembered'
  BY <1>1 DEF RateInv, SetsWithinLimit, RecentAreRemembered, Current, Recent, Counted
<1>7. QED
  BY <1>3, <1>4, <1>5, <1>6 DEF RateInv

(* Redis comes back with its keys, or without them, and then nothing has   *)
(* passed yet that counts against its keyspace.                            *)
LEMMA RecoveryKeepsInv == ASSUME RateInv, Reconnect \/ RestartRedis PROVE RateInv'
<1>1. /\ UNCHANGED <<now, limiter, handler, answer, passed, serial, budget>>
      /\ redis' \in [up : BOOLEAN, script : BOOLEAN]
  <2>1. CASE Reconnect
    BY <2>1 DEF RateInv, TypeOK, Reconnect
  <2>2. CASE RestartRedis
    BY <2>2 DEF RestartRedis
  <2>3. QED
    BY <2>1, <2>2
<1>2. HandlersAtACheck' /\ ClocksAgree'
  BY <1>1 DEF RateInv, HandlersAtACheck, ClocksAgree, Open
<1>3. CASE UNCHANGED <<zset, expire, losses>>
  BY <1>1, <1>2, <1>3 DEF RateInv, TypeOK, OwnMembers, ClosedRulesAreChecked, SetsWithinLimit,
                          RecentAreRemembered, Current, Recent, Counted, Open
<1>4. CASE /\ zset' = [name \in Names |-> {}]
           /\ expire' = [name \in Names |-> 0]
           /\ losses' = losses + 1
  <2>1. TypeOK'
    BY <1>1, <1>4 DEF RateInv, TypeOK
  <2>2. ASSUME NEW name \in Names, NEW p \in passed'[name]
        PROVE  /\ p.at <= now' /\ p.member <= serial' /\ p.keyspace < losses'
               /\ p.keyspace <= losses'
               /\ \A h \in Handlers : Open(h)' => handler'[h].member # p.member
    <3>1. losses \in Nat /\ p \in passed[name] /\ p.keyspace \in Nat
      BY <1>1 DEF RateInv, TypeOK, Pass
    <3>2. /\ p.at <= now /\ p.member <= serial /\ p.keyspace <= losses
          /\ \A h \in Handlers : Open(h) => handler[h].member # p.member
      BY <3>1 DEF RateInv, OwnMembers
    <3>3. QED
      BY <1>1, <1>4, <3>1, <3>2 DEF Open
  <2>3. OwnMembers'
    BY <1>1, <2>2 DEF RateInv, OwnMembers, Open
  <2>4. ClosedRulesAreChecked'
    BY <1>1 DEF RateInv, ClosedRulesAreChecked
  <2>5. SetsWithinLimit'
    BY <1>4, FS_EmptySet, WindowType DEF SetsWithinLimit
  <2>6. RecentAreRemembered'
    <3>1. ASSUME NEW name \in Names, NEW p \in Current(name)' PROVE FALSE
      <4>1. p \in passed'[name] /\ p.keyspace = losses'
        BY <3>1 DEF Current, Recent, Counted
      <4>2. p.keyspace < losses'
        BY <2>2, <4>1
      <4>3. losses \in Nat /\ losses' = losses + 1
        BY <1>4 DEF RateInv, TypeOK
      <4>4. QED
        BY <4>1, <4>2, <4>3
    <3>2. QED
      BY <3>1 DEF RecentAreRemembered
  <2>7. QED
    BY <1>2, <2>1, <2>3, <2>4, <2>5, <2>6 DEF RateInv
<1>5. QED
  BY <1>3, <1>4 DEF Reconnect, RestartRedis

(* The open requests of a process end with it.                             *)
LEMMA RestartProcessKeepsInv ==
    ASSUME RateInv, NEW p \in Processes, RestartProcess(p)
    PROVE  RateInv'
<1>1. /\ UNCHANGED <<now, redis, zset, expire, answer, passed, losses, serial>>
      /\ budget' = [budget EXCEPT !.faults = @ + 1]
      /\ limiter' = [l \in Processes \X Layers |->
                       IF l[1] = p THEN [client |-> FALSE, sha |-> FALSE] ELSE limiter[l]]
      /\ handler' = [h \in Handlers |->
                       IF handler[h].process = p THEN IdleHandler ELSE handler[h]]
  BY DEF RestartProcess
<1>2. IdleHandler \in Handler /\ IdleHandler.state = "idle"
  BY DEF IdleHandler, Handler
<1>3. TypeOK'
  <2>1. handler' \in [Handlers -> Handler]
    BY <1>1, <1>2 DEF RateInv, TypeOK
  <2>2. limiter' \in [Processes \X Layers -> [client : BOOLEAN, sha : BOOLEAN]]
    BY <1>1 DEF RateInv, TypeOK
  <2>3. budget' \in [requests : Nat, faults : Nat]
    BY <1>1 DEF RateInv, TypeOK
  <2>4. QED
    BY <1>1, <2>1, <2>2, <2>3 DEF RateInv, TypeOK
<1>4. \A h \in Handlers : handler'[h].state # "idle" => handler'[h] = handler[h]
  BY <1>1, <1>2
<1>5. HandlersAtACheck' /\ ClocksAgree'
  BY <1>1, <1>4 DEF RateInv, HandlersAtACheck, ClocksAgree, Open
<1>6. OwnMembers' /\ ClosedRulesAreChecked'
  BY <1>1, <1>4 DEF RateInv, OwnMembers, ClosedRulesAreChecked, Open
<1>7. SetsWithinLimit' /\ RecentAreRemembered'
  BY <1>1 DEF RateInv, SetsWithinLimit, RecentAreRemembered, Current, Recent, Counted
<1>8. QED
  BY <1>3, <1>5, <1>6, <1>7 DEF RateInv

(* Time takes away only what no window can see any more.                   *)
LEMMA TickKeepsInv == ASSUME RateInv, Tick PROVE RateInv'
<1>1. /\ UNCHANGED <<redis, expire, limiter, handler, losses, serial, budget>>
      /\ \A h \in Handlers : handler[h].state = "evaluating" => now < handler[h].sent + MaxDelay
      /\ now' = now + 1
      /\ zset' = [name \in Names |-> IF now + 1 > expire[name] THEN {} ELSE zset[name]]
      /\ passed' = [name \in Names |-> {p \in passed[name] : p.at > now + 1 - Window(name)}]
      /\ answer' = [h \in Handlers |-> NoAnswer]
  BY DEF Tick
<1>2. /\ now \in Nat /\ MaxSkew \in Nat /\ MaxDelay \in Nat /\ Slack = MaxSkew + MaxDelay
      /\ handler \in [Handlers -> Handler] /\ passed \in [Names -> SUBSET Pass]
      /\ zset \in [Names -> SUBSET Entry] /\ expire \in [Names -> Nat]
  BY RateAssumption DEF RateInv, TypeOK, RateAssumption, Slack
<1>3. TypeOK'
  <2>1. NoAnswer \in Answer
    BY DEF NoAnswer, Answer
  <2>2. zset' \in [Names -> SUBSET Entry] /\ passed' \in [Names -> SUBSET Pass]
    BY <1>1, <1>2
  <2>3. QED
    BY <1>1, <1>2, <2>1, <2>2 DEF RateInv, TypeOK
<1>4. HandlersAtACheck'
  BY <1>1 DEF RateInv, HandlersAtACheck, Open
<1>5. ClocksAgree'
  <2>1. ASSUME NEW h \in Handlers, handler[h].state = "evaluating"
        PROVE  now + 1 <= handler[h].sent + MaxDelay /\ handler[h].sent <= now + 1
    <3>1. handler[h].sent \in Nat
      BY <1>2 DEF Handler
    <3>2. QED
      BY <1>1, <1>2, <2>1, <3>1 DEF RateInv, ClocksAgree
  <2>2. QED
    BY <1>1, <2>1 DEF RateInv, ClocksAgree
<1>6. ASSUME NEW name \in Names, NEW p \in passed'[name]
      PROVE  p \in passed[name] /\ p.at \in Nat
  BY <1>1, <1>2 DEF Pass
<1>7. OwnMembers'
  <2>1. ASSUME NEW name \in Names, NEW p \in passed'[name] PROVE p.at <= now + 1
    BY <1>2, <1>6 DEF RateInv, OwnMembers
  <2>2. QED
    BY <1>1, <1>6, <2>1 DEF RateInv, OwnMembers, Open
<1>8. ClosedRulesAreChecked'
  BY <1>6 DEF RateInv, ClosedRulesAreChecked
<1>9. SetsWithinLimit'
  <2>1. ASSUME NEW name \in Names
        PROVE  /\ IsFiniteSet(zset'[name]) /\ Cardinality(zset'[name]) <= Limit[name]
               /\ \A e \in zset'[name] : e.score <= now + 1 + MaxSkew
    <3>1. CASE now + 1 > expire[name]
      <4>1. zset'[name] = {}
        BY <1>1, <3>1
      <4>2. QED
        BY <4>1, FS_EmptySet, WindowType
    <3>2. CASE ~(now + 1 > expire[name])
      <4>1. zset'[name] = zset[name]
        BY <1>1, <3>2
      <4>2. \A e \in zset[name] : e.score \in Nat
        BY <1>2 DEF Entry
      <4>3. QED
        BY <1>2, <4>1, <4>2 DEF RateInv, SetsWithinLimit
    <3>3. QED
      BY <3>1, <3>2
  <2>2. QED
    BY <1>1, <2>1 DEF SetsWithinLimit
<1>10. RecentAreRemembered'
  <2>1. ASSUME NEW name \in Names, NEW p \in Current(name)'
        PROVE  /\ p \in Current(name) /\ zset'[name] = zset[name]
    <3>1. /\ p \in passed[name] /\ p.at \in Nat
          /\ p.checked \/ RuleOf[name].fail_mode = "closed"
          /\ p.at > now + 1 - (Window(name) - Slack) /\ p.keyspace = losses
      <4>1. /\ p \in passed'[name] /\ p.at > now' - (Window(name) - Slack)
            /\ p.keyspace = losses'
            /\ p.checked \/ RuleOf[name].fail_mode = "closed"
        BY <2>1 DEF Current, Recent, Counted, Window, Slack
      <4>2. QED
        BY <1>1, <1>2, <1>6, <4>1, WindowType
    <3>2. Window(name) \in Nat /\ Slack \in Nat
      BY WindowType
    <3>3. p \in Current(name)
      BY <1>2, <3>1, <3>2 DEF Current, Recent, Counted
    <3>4. p.at + Window(name) <= expire[name]
      BY <3>3 DEF RateInv, RecentAreRemembered
    <3>5. ~(now + 1 > expire[name])
      BY <1>2, <3>1, <3>2, <3>4
    <3>6. QED
      BY <1>1, <3>3, <3>5
  <2>2. QED
    BY <1>1, <2>1 DEF RateInv, RecentAreRemembered
<1>11. QED
  BY <1>3, <1>4, <1>5, <1>7, <1>8, <1>9, <1>10 DEF RateInv

(* The rate limiter starts in its invariant.                               *)
LEMMA InitRate == Init => RateInv
<1> SUFFICES ASSUME Init PROVE RateInv
  OBVIOUS
<1>1. IdleHandler \in Handler /\ IdleHandler.state = "idle" /\ NoAnswer \in Answer
  BY DEF IdleHandler, Handler, NoAnswer, Answer
<1>2. TypeOK
  BY <1>1 DEF Init, TypeOK
<1>3. /\ HandlersAtACheck /\ ClocksAgree /\ OwnMembers /\ ClosedRulesAreChecked
      /\ RecentAreRemembered
  BY <1>1 DEF Init, HandlersAtACheck, ClocksAgree, OwnMembers, ClosedRulesAreChecked,
              RecentAreRemembered, Current, Recent, Counted, Open
<1>4. SetsWithinLimit
  BY FS_EmptySet, WindowType DEF Init, SetsWithinLimit
<1>5. QED
  BY <1>2, <1>3, <1>4 DEF RateInv

(* Every step of the rate limiter keeps its invariant.                     *)
LEMMA NextKeepsInv == RateInv /\ [Next]_vars => RateInv'
<1> SUFFICES ASSUME RateInv, [Next]_vars PROVE RateInv'
  OBVIOUS
<1>1. CASE Next
  BY <1>1, ArriveKeepsInv, LoadScriptKeepsInv, EvalScriptKeepsInv, RedisErrorKeepsInv,
     ReplyLostKeepsInv, OutageKeepsInv, RecoveryKeepsInv, RestartProcessKeepsInv, TickKeepsInv
     DEF Next
<1>2. CASE UNCHANGED vars
  BY <1>2 DEF vars, RateInv, TypeOK, HandlersAtACheck, ClocksAgree, OwnMembers,
              ClosedRulesAreChecked, SetsWithinLimit, RecentAreRemembered, Current, Recent, Counted, Open
<1>3. QED
  BY <1>1, <1>2

(* The inductive invariant of the rate limiter.                            *)
THEOREM RateInvariant == Spec => []RateInv
BY InitRate, NextKeepsInv, PTL DEF Spec

(* The state of the processes, of Redis and of the requests has its type.  *)
THEOREM RateWellTyped == Spec => []TypeOK
<1>1. RateInv => TypeOK
  BY DEF RateInv
<1>2. QED
  BY <1>1, RateInvariant, PTL

(* Distinct passes have distinct entries, and there are no more entries    *)
(* than the limit.                                                         *)
LEMMA RememberedAreBounded ==
    ASSUME RateInv, NEW name \in Names
    PROVE  IsFiniteSet(Current(name)) /\ Cardinality(Current(name)) <= Limit[name]
<1>1. IsFiniteSet(zset[name]) /\ Cardinality(zset[name]) <= Limit[name]
        /\ Cardinality(zset[name]) \in Nat /\ Limit[name] \in Nat
  BY FS_CardinalityType, WindowType DEF RateInv, SetsWithinLimit
<1>2. \A p \in Current(name) : \E e \in zset[name] : e.member = p.member
  BY DEF RateInv, RecentAreRemembered
<1>3. \A p, q \in Current(name) : p.member = q.member => p = q
  BY DEF RateInv, OwnMembers, Current, Recent, Counted
<1> DEFINE entry == [p \in Current(name) |-> CHOOSE e \in zset[name] : e.member = p.member]
<1>4. \A p \in Current(name) : entry[p] \in zset[name] /\ entry[p].member = p.member
  BY <1>2
<1>5. entry \in Injection(Current(name), zset[name])
  BY <1>3, <1>4 DEF Injection, IsInjective
<1> HIDE DEF entry
<1>6. IsFiniteSet(Current(name)) /\ Cardinality(Current(name)) <= Cardinality(zset[name])
  BY <1>1, <1>5, FS_Injection
<1>7. Cardinality(Current(name)) \in Nat
  BY <1>6, FS_CardinalityType
<1>8. QED
  BY <1>1, <1>6, <1>7

(* What passed before Redis last lost its keys was bounded when it did.    *)
PastIsBounded ==
    \A name \in Names : \A keyspace \in Nat : keyspace < losses =>
        /\ IsFiniteSet(Recent(name, keyspace))
        /\ Cardinality(Recent(name, keyspace)) <= Limit[name]

(* A request passes on the keys that Redis has, and time only goes on: of  *)
(* what an earlier keyspace let pass, a step adds nothing.                 *)
LEMMA RecentOnlyAges ==
    ASSUME RateInv, Next, NEW name \in Names, NEW keyspace \in Nat, keyspace < losses'
    PROVE  /\ Recent(name, keyspace)' \subseteq Recent(name, keyspace)
           /\ losses' = losses \/ losses' = losses + 1
<1>1. /\ now \in Nat /\ losses \in Nat /\ passed \in [Names -> SUBSET Pass]
      /\ Window(name) \in Nat /\ Slack \in Nat
  BY WindowType DEF RateInv, TypeOK
<1>2. ASSUME \A p \in passed'[name] : p \in passed[name] \/ p.keyspace = losses',
             now' = now \/ now' = now + 1
      PROVE  Recent(name, keyspace)' \subseteq Recent(name, keyspace)
  <2>1. ASSUME NEW p \in Recent(name, keyspace)' PROVE p \in Recent(name, keyspace)
    <3>1. /\ p \in passed'[name] /\ p.keyspace = keyspace
          /\ p.at > now' - (Window(name) - Slack)
          /\ p.checked \/ RuleOf[name].fail_mode = "closed"
      BY <2>1 DEF Recent, Counted, Window, Slack
    <3>2. p \in passed[name] /\ p.at \in Nat
      <4>1. p \in passed[name]
        BY <1>2, <3>1
      <4>2. QED
        BY <1>1, <4>1 DEF Pass
    <3>3. p.at > now - (Window(name) - Slack)
      BY <1>1, <1>2, <3>1, <3>2
    <3>4. QED
      BY <3>1, <3>2, <3>3 DEF Recent, Counted
  <2>2. QED
    BY <2>1
<1>3. ASSUME NEW h \in Handlers, NEW checked, NEW outage, GoOn(h, checked, outage)
      PROVE  \A p \in passed'[name] : p \in passed[name] \/ p.keyspace = losses
  BY <1>1, <1>3 DEF GoOn
<1>4. ASSUME NEW h \in Handlers, NEW outage, FailMode(h, outage)
      PROVE  \A p \in passed'[name] : p \in passed[name] \/ p.keyspace = losses
  BY <1>3, <1>4 DEF FailMode, Refuse
<1>5. CASE \E h \in Handlers : EvalScript(h) \/ RedisError(h) \/ ReplyLost(h)
  <2>1. UNCHANGED <<now, losses>>
    BY <1>5 DEF EvalScript, RedisError, ReplyLost, RunScript
  <2>2. \A p \in passed'[name] : p \in passed[name] \/ p.keyspace = losses
    BY <1>3, <1>4, <1>5 DEF EvalScript, RedisError, ReplyLost, Refuse
  <2>3. QED
    BY <1>2, <2>1, <2>2
<1>6. CASE \/ \E h \in Handlers : LoadScript(h) \/ \E p \in Processes : Arrive(h, p)
           \/ Outage \/ Reconnect \/ \E p \in Processes : RestartProcess(p)
  <2>1. UNCHANGED <<now, passed, losses>>
    BY <1>6 DEF LoadScript, Arrive, Outage, Reconnect, RestartProcess
  <2>2. QED
    BY <1>2, <2>1
<1>7. CASE RestartRedis
  <2>1. UNCHANGED <<now, passed>> /\ (losses' = losses \/ losses' = losses + 1)
    BY <1>7 DEF RestartRedis
  <2>2. QED
    BY <1>2, <2>1
<1>8. CASE Tick
  <2>1. /\ now' = now + 1 /\ UNCHANGED losses
        /\ passed'[name] \subseteq passed[name]
    BY <1>8 DEF Tick
  <2>2. QED
    BY <1>2, <2>1
<1>9. QED
  BY <1>5, <1>6, <1>7, <1>8 DEF Next

(* A loss closes the count of the keyspace it ends.                        *)
LEMMA NextKeepsPast == RateInv /\ PastIsBounded /\ [Next]_vars => PastIsBounded'
<1> SUFFICES ASSUME RateInv, PastIsBounded, [Next]_vars,
                    NEW name \in Names, NEW keyspace \in Nat, keyspace < losses'
             PROVE  /\ IsFiniteSet(Recent(name, keyspace)')
                    /\ Cardinality(Recent(name, keyspace)') <= Limit[name]
  BY DEF PastIsBounded
<1>1. CASE Next
  <2>1. /\ Recent(name, keyspace)' \subseteq Recent(name, keyspace)
        /\ losses' = losses \/ losses' = losses + 1
    BY <1>1, RecentOnlyAges
  <2>2. /\ IsFiniteSet(Recent(name, keyspace))
        /\ Cardinality(Recent(name, keyspace)) <= Limit[name]
    <3>1. CASE keyspace < losses
      BY <3>1 DEF PastIsBounded
    <3>2. CASE ~(keyspace < losses)
      <4>1. keyspace = losses
        BY <2>1, <3>2 DEF RateInv, TypeOK
      <4>2. QED
        BY <4>1, RememberedAreBounded DEF Current
    <3>3. QED
      BY <3>1, <3>2
  <2>3. QED
    <3> DEFINE before == Recent(name, keyspace)
               after == Recent(name, keyspace)'
    <3>1. after \subseteq before /\ IsFiniteSet(before) /\ Cardinality(before) <= Limit[name]
      BY <2>1, <2>2
    <3> HIDE DEF before, after
    <3>2. /\ IsFiniteSet(after) /\ Cardinality(after) <= Cardinality(before)
          /\ Cardinality(after) \in Nat /\ Cardinality(before) \in Nat
      BY <3>1, FS_Subset, FS_CardinalityType
    <3>3. IsFiniteSet(after) /\ Cardinality(after) <= Limit[name]
      BY <3>1, <3>2, WindowType
    <3>4. QED
      BY <3>3 DEF after
<1>2. CASE UNCHANGED vars
  BY <1>2 DEF vars, PastIsBounded, Recent, Counted
<1>3. QED
  BY <1>1, <1>2

(* The bound of every keyspace, the current one and the lost ones.         *)
LEMMA BoundedThroughout == RateInv /\ PastIsBounded => WindowBound
<1> SUFFICES ASSUME RateInv, PastIsBounded, NEW name \in Names, NEW keyspace \in 0 .. losses
             PROVE  Cardinality(Recent(name, keyspace)) <= Limit[name]
  BY DEF WindowBound
<1>1. losses \in Nat /\ keyspace \in Nat
  BY DEF RateInv, TypeOK
<1>2. CASE keyspace < losses
  BY <1>1, <1>2 DEF PastIsBounded
<1>3. CASE keyspace = losses
  BY <1>3, RememberedAreBounded DEF Current
<1>4. QED
  BY <1>1, <1>2, <1>3

(* In any stretch of a window, less skew and delay, no more requests pass  *)
(* on one keyspace of Redis than the limit, with every interleaving of     *)
(* processes, lost replies, outages and restarts (rate_limit.py:1-10).  It *)
(* is per keyspace: what a Redis that lost its keys let pass before the    *)
(* loss is counted, and bounded, by itself.                                *)
THEOREM WindowIsBounded == Spec => []WindowBound
<1>1. Init => PastIsBounded
  BY DEF Init, PastIsBounded
<1>2. QED
  BY <1>1, InitRate, NextKeepsInv, NextKeepsPast, BoundedThroughout, PTL DEF Spec

-----------------------------------------------------------------------------
(* The Retry-After of a refusal.                                           *)

(* A handler's answer becomes a 429 only by its own script call.           *)
LEMMA RefusedByScript ==
    ASSUME RateInv, Next, NEW h \in Handlers,
           answer'[h] # answer[h], answer'[h].verdict = "429"
    PROVE  /\ EvalScript(h) /\ ~Evaluation(h).allowed
           /\ answer'[h].retry_after = Evaluation(h).retry_after
<1>1. answer \in [Handlers -> Answer] /\ NoAnswer.verdict # "429"
  BY DEF RateInv, TypeOK, NoAnswer
<1>2. ASSUME NEW g \in Handlers, NEW verdict \in {"pass", "503"},
             NEW retry_after, NEW outage, Told(g, verdict, retry_after, outage)
      PROVE  FALSE
  BY <1>1, <1>2 DEF Told
<1>3. ASSUME NEW g \in Handlers, NEW checked, NEW outage, GoOn(g, checked, outage)
      PROVE  FALSE
  BY <1>2, <1>3 DEF GoOn
<1>4. ASSUME NEW g \in Handlers, NEW outage, FailMode(g, outage) PROVE FALSE
  BY <1>2, <1>3, <1>4 DEF FailMode, Refuse
<1>5. CASE \E g \in Handlers, p \in Processes : Arrive(g, p)
  BY <1>1, <1>5 DEF Arrive
<1>6. CASE \E g \in Handlers : LoadScript(g) \/ RedisError(g) \/ ReplyLost(g)
  BY <1>4, <1>6 DEF LoadScript, RedisError, ReplyLost
<1>7. CASE Outage \/ Reconnect \/ RestartRedis \/ \E p \in Processes : RestartProcess(p)
  BY <1>7 DEF Outage, Reconnect, RestartRedis, RestartProcess
<1>8. CASE Tick
  BY <1>1, <1>8 DEF Tick
<1>9. CASE \E g \in Handlers : EvalScript(g)
  <2>1. PICK g \in Handlers : EvalScript(g)
    BY <1>9
  <2>2. ~Evaluation(g).allowed /\ Told(g, "429", Evaluation(g).retry_after, handler[g].outage)
    BY <1>3, <2>1 DEF EvalScript, Refuse
  <2>3. g = h /\ answer'[h].retry_after = Evaluation(g).retry_after
    BY <1>1, <2>2 DEF Told
  <2>4. QED
    BY <2>1, <2>2, <2>3
<1>10. QED
  BY <1>5, <1>6, <1>7, <1>8, <1>9 DEF Next

(* At a time that leaves every score in the window, all are kept; at one   *)
(* that has passed a score, its entry is not.                              *)
LEMMA NoneLeaves ==
    ASSUME NEW kept, NEW window \in Nat, NEW now_ms \in Int,
           \A e \in kept : e.score > now_ms - window,
           NEW limit \in Nat, Cardinality(kept) = limit
    PROVE  Cardinality(Kept(kept, now_ms, window)) >= limit
<1>1. Kept(kept, now_ms, window) = kept
  BY DEF Kept
<1>2. QED
  BY <1>1

(* Once an entry of a full set is too old there is a free place.           *)
LEMMA OneLeaves ==
    ASSUME NEW kept, kept \subseteq Entry, IsFiniteSet(kept),
           NEW window \in Nat, NEW now_ms \in Int,
           NEW e \in kept, e.score <= now_ms - window,
           NEW limit \in Nat, Cardinality(kept) = limit
    PROVE  Cardinality(Kept(kept, now_ms, window)) < limit
<1> DEFINE later == Kept(kept, now_ms, window)
<1>1. later \subseteq kept \ {e}
  BY DEF Kept, Entry
<1> HIDE DEF later
<1>2. IsFiniteSet(kept \ {e}) /\ Cardinality(kept \ {e}) = limit - 1
  BY FS_RemoveElement
<1>3. IsFiniteSet(later) /\ Cardinality(later) <= limit - 1
  BY <1>1, <1>2, FS_Subset
<1>4. Cardinality(later) \in Nat
  BY <1>3, FS_CardinalityType
<1>5. QED
  BY <1>3, <1>4 DEF later

(* A full window has no place before its oldest entry leaves it, and one   *)
(* as soon as it has left.                                                 *)
LEMMA RetryAfterFrees ==
    ASSUME NEW kept, kept \subseteq Entry, kept # {}, IsFiniteSet(kept),
           NEW limit \in Nat \ {0}, Cardinality(kept) = limit,
           NEW now_ms \in Nat, NEW window \in Nat, NEW latest \in Nat,
           \A e \in kept : e.score > now_ms - window /\ e.score <= now_ms + latest,
           NEW wait \in Int, wait = Ceil(Oldest(kept).score + window - now_ms)
    PROVE  /\ wait \in 1 .. Ceil(window + latest)
           /\ Cardinality(Kept(kept, now_ms + wait * Second, window)) < limit
           /\ Cardinality(Kept(kept, now_ms + (wait - 1) * Second, window)) >= limit
<1> DEFINE oldest == Oldest(kept)
           left == oldest.score + window - now_ms
<1>1. /\ oldest \in kept /\ oldest.score \in Nat
      /\ \A f \in kept : f.score \in Nat /\ oldest.score <= f.score
  BY OldestIsOldest DEF Entry
<1>2. left \in Int /\ left >= 1 /\ left <= window + latest /\ window + latest \in Int
  BY <1>1
<1>3. /\ wait = Ceil(left) /\ left <= wait * Second /\ (wait - 1) * Second < left
      /\ Ceil(window + latest) \in Int /\ wait <= Ceil(window + latest)
      /\ wait * Second \in Int /\ (wait - 1) * Second \in Int
  BY <1>2, CeilCovers, CeilGrows, SecondsGrow
<1>4. wait >= 1
  <2>1. SUFFICES ASSUME wait <= 0 PROVE FALSE
    OBVIOUS
  <2>2. wait * Second <= 0 * Second
    BY <2>1, SecondsGrow
  <2>3. 0 * Second = 0
    BY RateAssumption DEF RateAssumption
  <2>4. QED
    BY <1>2, <1>3, <2>2, <2>3
<1> DEFINE free == now_ms + wait * Second
           full == now_ms + (wait - 1) * Second
<1>5. /\ free \in Int /\ oldest.score <= free - window
      /\ full \in Int /\ \A e \in kept : e.score > full - window
  BY <1>1, <1>3
<1> HIDE DEF free, full, oldest
<1>6. Cardinality(Kept(kept, free, window)) < limit
  BY <1>1, <1>5, OneLeaves
<1>7. Cardinality(Kept(kept, full, window)) >= limit
  BY <1>5, NoneLeaves
<1>8. QED
  BY <1>3, <1>4, <1>6, <1>7 DEF free, full

(* The Retry-After of a 429 is exact: never too short, never a second too  *)
(* long, and within a window and what the clocks differ (rate_limit.py:    *)
(* 61-63), for every limit, window and unit of time.                       *)
THEOREM RetryAfterIsExact == Spec => RetryAfterExact
<1> DEFINE Exact(h) ==
        (answer'[h] # answer[h] /\ answer'[h].verdict = "429") =>
            LET name == NameOf(h)
                KeptAfter(seconds) ==
                    Kept(zset'[name], handler[h].now_ms + seconds * Second, Window(name))
            IN /\ answer'[h].retry_after \in 1..Ceil(Window(name) + Slack)
               /\ Cardinality(KeptAfter(answer'[h].retry_after)) < Limit[name]
               /\ Cardinality(KeptAfter(answer'[h].retry_after - 1)) >= Limit[name]
<1>1. ASSUME RateInv, Next, NEW h \in Handlers PROVE Exact(h)
  <2> SUFFICES ASSUME answer'[h] # answer[h], answer'[h].verdict = "429"
               PROVE  Exact(h)
    OBVIOUS
  <2> DEFINE name == NameOf(h)
             now_ms == handler[h].now_ms
             wait == answer'[h].retry_after
             kept == Kept(zset[name], now_ms, Window(name))
  <2>1. /\ RunScript(h) /\ ~Evaluation(h).allowed
        /\ wait = Evaluation(h).retry_after
    BY <1>1, RefusedByScript DEF EvalScript
  <2>2. /\ name \in Names /\ now_ms \in Nat /\ handler[h].member \in Nat /\ now \in Nat
        /\ handler[h].sent \in Nat /\ MaxSkew \in Nat /\ MaxDelay \in Nat
        /\ Slack = MaxSkew + MaxDelay /\ Slack \in Nat
        /\ zset \in [Names -> SUBSET Entry] /\ handler[h].state = "evaluating"
        /\ Window(name) \in Nat /\ Limit[name] \in Nat \ {0}
    BY <1>1, <2>1, AtARule, WindowType, RateAssumption
       DEF RunScript, RateInv, TypeOK, Handler, RateAssumption, Slack, Open
  <2>3. /\ zset[name] \subseteq Entry /\ IsFiniteSet(zset[name])
        /\ Cardinality(zset[name]) <= Limit[name]
        /\ \A e \in zset[name] : e.score \in Nat /\ e.score <= now + MaxSkew
    BY <1>1, <2>2 DEF RateInv, SetsWithinLimit, Entry
  <2>4. zset'[name] = Evaluation(h).entries
    BY <2>1, <2>2 DEF RunScript
  <2>5. now <= now_ms + MaxDelay
    BY <1>1, <2>2 DEF RateInv, ClocksAgree
  <2> DEFINE member == handler[h].member
             run == SlidingWindow(zset[name], now_ms, Window(name), Limit[name], member)
  <2>10. Evaluation(h) = run
    BY DEF Evaluation
  <2> HIDE DEF name, now_ms, wait, member, run
  <2>6. /\ Evaluation(h).entries = kept /\ Cardinality(kept) = Limit[name] /\ kept # {}
        /\ wait = Ceil(Oldest(kept).score + Window(name) - now_ms)
        /\ wait \in Int /\ IsFiniteSet(kept)
    <3>1. member \in Nat /\ now_ms \in Nat /\ Window(name) \in Nat
            /\ Limit[name] \in Nat \ {0}
      BY <2>2 DEF member, now_ms
    <3>2. ~SlidingWindow(zset[name], now_ms, Window(name), Limit[name], member).allowed
      BY <2>1, <2>10 DEF run
    <3>3. /\ run.entries = kept
          /\ run.retry_after = Ceil(Oldest(kept).score + Window(name) - now_ms)
          /\ IsFiniteSet(kept) /\ Cardinality(kept) = Limit[name]
      BY <2>3, <3>1, <3>2, RefusalTells DEF run
    <3> HIDE DEF kept
    <3>4. kept \subseteq Entry
      BY <2>3 DEF kept, Kept
    <3>5. /\ wait = Ceil(Oldest(kept).score + Window(name) - now_ms)
          /\ Evaluation(h).entries = kept
      BY <2>1, <2>10, <3>3
    <3>6. kept # {}
      BY <3>1, <3>3, FS_EmptySet
    <3>7. Oldest(kept).score + Window(name) - now_ms \in Int
      BY <3>1, <3>4, <3>6, OldestIsOldest DEF Entry
    <3>8. wait \in Int
      BY <3>5, <3>7, CeilCovers
    <3>9. QED
      BY <3>3, <3>5, <3>6, <3>8
  <2>7. kept \subseteq Entry
        /\ \A e \in kept : e.score > now_ms - Window(name) /\ e.score <= now_ms + Slack
    BY <2>2, <2>3, <2>5 DEF Kept
  <2> HIDE DEF kept
  <2>8. /\ wait \in 1 .. Ceil(Window(name) + Slack)
        /\ Cardinality(Kept(kept, now_ms + wait * Second, Window(name))) < Limit[name]
        /\ Cardinality(Kept(kept, now_ms + (wait - 1) * Second, Window(name))) >= Limit[name]
    BY <2>2, <2>6, <2>7, RetryAfterFrees
  <2>9. QED
    BY <2>4, <2>6, <2>8 DEF name, now_ms, wait
<1>2. ASSUME RateInv, [Next]_vars
      PROVE  [\A h \in Handlers : Exact(h)]_vars
  BY <1>1, <1>2
<1>3. QED
  BY <1>2, RateInvariant, PTL DEF Spec, RetryAfterExact
==============================================================================
