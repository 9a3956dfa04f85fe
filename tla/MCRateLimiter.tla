---------------------------- MODULE MCRateLimiter ----------------------------
(***************************************************************************)
(* Instances of RateLimiter: an ingestor, whose captures pass a check that *)
(* fails closed and one that fails open.                                   *)
(***************************************************************************)
EXTENDS RateLimiter, TLC

CONSTANTS ingestor, h1, h2

Surface == [p \in Processes |-> "capture"]

(* A cap below the middleware's limit, over a longer window, as in the code. *)
Limits == [ingest |-> 2, api |-> 1, capture |-> 1, replay |-> 1]
Windows == [ingest |-> 1, api |-> 1, capture |-> 2, replay |-> 2]

(* The rules see differences of times only, so states that differ by when  *)
(* they happen are one: with this view the clock runs on for as long as    *)
(* anything can still change, and MaxTime is never reached.                *)
Ago(t) == t - now

View ==
    <<redis, limiter, answer, losses, serial, budget,
      [h \in Handlers |-> IF handler[h].state = "evaluating"
                         THEN [handler[h] EXCEPT !.now_ms = Ago(@), !.sent = Ago(@)]
                         ELSE [handler[h] EXCEPT !.now_ms = 0, !.sent = 0]],
      [name \in Names |-> {[e EXCEPT !.score = Ago(@)] : e \in zset[name]}],
      [name \in Names |-> IF expire[name] < now THEN -1 ELSE Ago(expire[name])],
      [name \in Names |-> {[p EXCEPT !.at = Ago(@)] : p \in passed[name]}]>>

Symmetry == Permutations({h1, h2})
==============================================================================
