------------------------------ MODULE ZeebeJobs ------------------------------
(***************************************************************************)
(* The jobs an agent runs for a Zeebe gateway: the callback of             *)
(* ZeebeCoroutine.setup (iams/aio/zeebe.py), the two dictionaries _jobs    *)
(* and _watch it shares between deliveries, and the watchdog timers.       *)
(*                                                                         *)
(* The gateway is external.  It hands a job out again whenever it has heard*)
(* nothing of it for a while, so that a delivery may arrive while the job  *)
(* is run, after it has failed, or when its result is on the way.  Time is *)
(* abstracted: a timer that is armed may fire.                             *)
(***************************************************************************)
EXTENDS Naturals

CONSTANTS
    Key,           \* keys of jobs
    MaxDeliveries  \* bound on the deliveries of one job

ASSUME JobsAssumption == MaxDeliveries \in Nat

VARIABLES
    job,         \* what the gateway knows of each job
    transit,     \* deliveries on their way to the worker
    deliveries,  \* deliveries so far
    jobs,        \* state of the task in _jobs, "none" if there is no entry
    watch,       \* _watch: the timer is armed or spent, or there is no entry
    handler,     \* a callback awaits the task in _jobs
    cancelling,  \* the task was cancelled and has not noticed yet
    sending,     \* a result is on its way to the gateway
    active,      \* history: tasks that are running
    returned,    \* history: a task of the job returned a result
    refused      \* history: tasks of the jobs whose delivery was refused

worker == <<jobs, watch, handler, cancelling, active>>
vars == <<job, transit, deliveries, jobs, watch, handler, cancelling, sending, active,
          returned, refused>>

TaskState == {"none", "running", "returned", "failed", "cancelled"}

\* The last conjunct: both dictionaries always have the same keys, so no lookup of
\* a watchdog fails.
TypeOK ==
    /\ job \in [Key -> {"created", "completed", "gone"}]
    /\ transit \in [Key -> Nat] /\ deliveries \in [Key -> 0 .. MaxDeliveries]
    /\ jobs \in [Key -> TaskState]
    /\ watch \in [Key -> {"none", "armed", "spent"}]
    /\ handler \in [Key -> BOOLEAN] /\ cancelling \in [Key -> BOOLEAN]
    /\ sending \in [Key -> BOOLEAN]
    /\ active \in [Key -> Nat]
    /\ returned \subseteq Key /\ refused \subseteq Key \X TaskState \X BOOLEAN
    /\ \A k \in Key : jobs[k] = "none" <=> watch[k] = "none"

Init ==
    /\ job = [k \in Key |-> "created"]
    /\ transit = [k \in Key |-> 0]
    /\ deliveries = [k \in Key |-> 0]
    /\ jobs = [k \in Key |-> "none"]
    /\ watch = [k \in Key |-> "none"]
    /\ handler = [k \in Key |-> FALSE]
    /\ cancelling = [k \in Key |-> FALSE]
    /\ sending = [k \in Key |-> FALSE]
    /\ active = [k \in Key |-> 0]
    /\ returned = {}
    /\ refused = {}

-----------------------------------------------------------------------------
(* The gateway.                                                            *)

\* The gateway hands a job out, for the first time or again.
Deliver(k) ==
    /\ job[k] = "created" /\ deliveries[k] < MaxDeliveries
    /\ transit' = [transit EXCEPT ![k] = @ + 1]
    /\ deliveries' = [deliveries EXCEPT ![k] = @ + 1]
    /\ UNCHANGED <<job, worker, sending, returned, refused>>

\* The instance of the job's process is cancelled: the job is gone.
Abandon(k) ==
    /\ job[k] = "created"
    /\ job' = [job EXCEPT ![k] = "gone"]
    /\ UNCHANGED <<transit, deliveries, worker, sending, returned, refused>>

\* The result reaches the gateway or is lost.
Complete(k) ==
    /\ sending[k]
    /\ sending' = [sending EXCEPT ![k] = FALSE]
    /\ \/ job' = [job EXCEPT ![k] = IF @ = "created" THEN "completed" ELSE @]
       \/ job' = job
    /\ UNCHANGED <<transit, deliveries, worker, returned, refused>>

-----------------------------------------------------------------------------
(* callback.                                                               *)

Arrives(k) ==
    /\ transit[k] > 0
    /\ transit' = [transit EXCEPT ![k] = @ - 1]

\* Faulty variant: a delivery is not looked up in _jobs.
Run_Again(k) ==
    /\ Arrives(k)
    /\ jobs' = [jobs EXCEPT ![k] = "running"]
    /\ watch' = [watch EXCEPT ![k] = "armed"]
    /\ handler' = [handler EXCEPT ![k] = TRUE]
    /\ active' = [active EXCEPT ![k] = @ + 1]
    /\ UNCHANGED <<job, deliveries, cancelling, sending, returned, refused>>

\* A delivery of an unknown job creates its task and its watchdog and awaits it.
Run(k) ==
    /\ Arrives(k)
    /\ jobs[k] = "none"
    /\ jobs' = [jobs EXCEPT ![k] = "running"]
    /\ watch' = [watch EXCEPT ![k] = "armed"]
    /\ handler' = [handler EXCEPT ![k] = TRUE]
    /\ active' = [active EXCEPT ![k] = @ + 1]
    /\ UNCHANGED <<job, deliveries, cancelling, sending, returned, refused>>

\* Faulty variant: the watchdog is cancelled and not set again.
Refuse_Unwatched(k) ==
    /\ Arrives(k)
    /\ jobs[k] # "none"
    /\ watch' = [watch EXCEPT ![k] = "spent"]
    /\ refused' = refused \cup {<<k, jobs[k], handler[k]>>}
    /\ UNCHANGED <<job, deliveries, jobs, handler, cancelling, sending, active, returned>>

\* A delivery of a known job sets the watchdog anew and raises JobAlreadyRunningError,
\* which exception_handler ignores.
Refuse(k) ==
    /\ Arrives(k)
    /\ jobs[k] # "none"
    /\ watch' = [watch EXCEPT ![k] = "armed"]
    /\ refused' = refused \cup {<<k, jobs[k], handler[k]>>}
    /\ UNCHANGED <<job, deliveries, jobs, handler, cancelling, sending, active, returned>>

\* The watchdog fires and cancels the task; that of a task that is done has no effect.
WatchFires(k) ==
    /\ watch[k] = "armed"
    /\ watch' = [watch EXCEPT ![k] = "spent"]
    /\ cancelling' = [cancelling EXCEPT ![k] = @ \/ jobs[k] = "running"]
    /\ UNCHANGED <<job, transit, deliveries, jobs, handler, sending, active, returned, refused>>

\* zeebe_callback, the agent's code, returns or raises, or is ended by the cancel.
TaskEnds(k, state) ==
    /\ jobs[k] = "running"
    /\ state = "cancelled" => cancelling[k]
    /\ jobs' = [jobs EXCEPT ![k] = state]
    /\ cancelling' = [cancelling EXCEPT ![k] = FALSE]
    /\ active' = [active EXCEPT ![k] = @ - 1]
    /\ returned' = IF state = "returned" THEN returned \cup {k} ELSE returned
    /\ UNCHANGED <<job, transit, deliveries, watch, handler, sending, refused>>

\* Faulty variant: a failed job is completed, too.
HandlerReturns_Failed(k) ==
    /\ handler[k] /\ jobs[k] \in {"returned", "failed"}
    /\ handler' = [handler EXCEPT ![k] = FALSE]
    /\ jobs' = [jobs EXCEPT ![k] = "none"]
    /\ watch' = [watch EXCEPT ![k] = "none"]
    /\ sending' = [sending EXCEPT ![k] = TRUE]
    /\ UNCHANGED <<job, transit, deliveries, cancelling, active, returned, refused>>

\* The callback goes on with the result, cleans up, and the worker reports it.
HandlerReturns(k) ==
    /\ handler[k] /\ jobs[k] = "returned"
    /\ handler' = [handler EXCEPT ![k] = FALSE]
    /\ jobs' = [jobs EXCEPT ![k] = "none"]
    /\ watch' = [watch EXCEPT ![k] = "none"]
    /\ sending' = [sending EXCEPT ![k] = TRUE]
    /\ UNCHANGED <<job, transit, deliveries, cancelling, active, returned, refused>>

\* The callback goes on with an exception: nothing is cleaned up, exception_handler
\* logs it and the gateway is not told.
HandlerRaises(k) ==
    /\ handler[k] /\ jobs[k] \in {"failed", "cancelled"}
    /\ handler' = [handler EXCEPT ![k] = FALSE]
    /\ UNCHANGED <<job, transit, deliveries, jobs, watch, cancelling, sending, active,
                   returned, refused>>

-----------------------------------------------------------------------------
Idle == UNCHANGED vars /\ \A k \in Key : jobs[k] # "running"

Next ==
    \/ \E k \in Key :
          \/ Deliver(k) \/ Abandon(k) \/ Complete(k)
          \/ Run(k) \/ Refuse(k) \/ WatchFires(k)
          \/ \E s \in {"returned", "failed", "cancelled"} : TaskEnds(k, s)
          \/ HandlerReturns(k) \/ HandlerRaises(k)
    \/ Idle

Spec == Init /\ [][Next]_vars

\* A delivery that has arrived is handled, callbacks go on, a cancelled task lets the
\* CancelledError through, and the watchdog of a job that the gateway no longer hands
\* out fires in the end.  Nothing says that the agent's code ends by itself.
Fairness ==
    \A k \in Key :
        /\ WF_vars(Run(k) \/ Refuse(k))
        /\ WF_vars(TaskEnds(k, "cancelled"))
        /\ WF_vars(HandlerReturns(k) \/ HandlerRaises(k))
        /\ WF_vars(job[k] # "created" /\ transit[k] = 0 /\ WatchFires(k))

FairSpec == Spec /\ Fairness

-----------------------------------------------------------------------------
(* Properties.                                                             *)

\* However often a job is delivered, no two tasks run it at the same time.
OneTask == \A k \in Key : active[k] <= 1

\* A running task has a watchdog that will cancel it, or was cancelled by it.
Supervised == \A k \in Key : jobs[k] = "running" => watch[k] = "armed" \/ cancelling[k]

\* A job is completed in the gateway only after a task of it returned a result.
CompletedByResult == \A k \in Key : job[k] = "completed" \/ sending[k] => k \in returned

\* A task that the gateway has given up does not run for ever.
AbandonedEnds == \A k \in Key : job[k] # "created" ~> jobs[k] # "running"

\* JobAlreadyRunningError is "thrown, when job is already processed by the agent": a
\* delivery is refused only while the callback of an earlier one awaits the task.
RefusedWhileProcessed == \A r \in refused : r[3]

=============================================================================
