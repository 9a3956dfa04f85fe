------------------------------ MODULE ArqQueue ------------------------------
(***************************************************************************)
(* One job of the arq queue, as far as hooktrace uses it.  arq is a        *)
(* library: this module is modelled from how the code calls it             *)
(* (infrastructure/queue/arq_forward_queue.py) and configures it           *)
(* (jobs/worker.py, WorkerSettings).                                       *)
(*                                                                         *)
(* A job id names at most one job.  While a job of that id is queued or    *)
(* running, and for as long as the result of the last one is kept, another *)
(* enqueue_job of the same id returns None and changes nothing.            *)
(***************************************************************************)
EXTENDS Integers

CONSTANTS
    KeepResult,      \* keep_result, which WorkerSettings leaves at its default
    InProgressTtl,   \* job_timeout + 10: how long a dead worker's mark survives
    ArqMaxTries      \* max_tries

ASSUME ArqAssumption == /\ KeepResult \in Nat \ {0}
                        /\ InProgressTtl \in Nat
                        /\ ArqMaxTries \in Nat

(* timer: of a queued job, the time until it may start; of a done one, the *)
(* time until its result expires.  tries survives a crash or a             *)
(* cancellation, not a finish.                                             *)
Job == [state : {"none", "queued", "running", "done"}, timer : Nat, tries : Nat]

NoJob == [state |-> "none", timer |-> 0, tries |-> 0]

Live(job) == job.state \in {"queued", "running"}

Enqueued(job, defer) ==
    IF job.state = "none"
    THEN [state |-> "queued", timer |-> defer, tries |-> 0]
    ELSE job

Ready(job) == job.state = "queued" /\ job.timer = 0

Started(job) == [job EXCEPT !.state = "running", !.tries = @ + 1]

(* The function returned, raised or timed out, or max_tries was exceeded:  *)
(* a result is written either way.                                         *)
Finished(job) == [state |-> "done", timer |-> KeepResult, tries |-> 0]

(* The function was cancelled by a shutdown (wait = 0), or its worker died *)
(* and the in-progress mark has to expire first.                           *)
Requeued(job, wait) == [job EXCEPT !.state = "queued", !.timer = wait]

JobAged(job) ==
    CASE job.state = "queued" /\ job.timer > 0 -> [job EXCEPT !.timer = @ - 1]
      [] job.state = "done" /\ job.timer > 1   -> [job EXCEPT !.timer = @ - 1]
      [] job.state = "done" /\ job.timer <= 1  -> NoJob
      [] OTHER -> job
==============================================================================
