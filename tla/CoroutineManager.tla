-------------------------- MODULE CoroutineManager --------------------------
(***************************************************************************)
(* The life of one agent process: Manager.main (iams/aio/manager.py) and   *)
(* the coroutines it runs (iams/aio/interfaces.py), from setup over start  *)
(* and loop to the cancellation of everything once one coroutine ends.     *)
(*                                                                         *)
(* asyncio runs one task at a time and switches only at an await, so the   *)
(* code between two awaits is one action.  A task that is ready to run may *)
(* be overtaken by any other task, which is the nondeterminism here.       *)
(*                                                                         *)
(* The kinds of coroutines differ in how they wait for their start and in  *)
(* what a cancellation does to their loop:                                 *)
(*   "base"    Coroutine.__call__ as inherited by TCP, OPC-UA and Zeebe    *)
(*   "thread"  ThreadCoroutine (MQTT, InfluxDB)                            *)
(*   "event"   EventCoroutine                                              *)
(*   "grpc"    GRPCCoroutine                                               *)
(*                                                                         *)
(* asyncio.wait_for with a timeout loses a cancel that arrives together    *)
(* with its result on interpreters before Python 3.12: a start or a loop   *)
(* that awaits one goes on as if nobody had cancelled it.                  *)
(***************************************************************************)
EXTENDS Sequences

CONSTANTS
    Coro,     \* the coroutines an agent may register, by their name
    Kind,     \* the kind of each coroutine
    Parents,  \* the agent if it has a setup method, empty otherwise
    Lossy     \* those whose start or loop awaits a wait_for that loses cancels

Kinds == {"base", "thread", "event", "grpc"}

ASSUME ManagerAssumption ==
    /\ Kind \in [Coro -> Kinds]
    /\ Parents \cap Coro = {}
    /\ Lossy \subseteq {c \in Coro : Kind[c] \in {"base", "event"}}

VARIABLES
    phase,       \* the await main is suspended in
    result,      \* how main ended
    coros,       \* Manager.coros
    setup,       \* the setup task of each coroutine and of the agent
    start,       \* the start task of each coroutine
    call,        \* the call task of each coroutine
    stop,        \* the call of its stop method
    stopFuture,  \* Manager.stop_future is done
    cancel,      \* call tasks that main has cancelled
    lost,        \* those among them that have lost the cancel
    threadStop,  \* ThreadCoroutine._stop
    released,    \* the body under "if await super().stop()" has been run
    todo,        \* call tasks as_completed waits for
    reports,     \* outcomes as_completed has to hand out
    timedOut     \* as_completed gave up after Manager.timeout seconds

vars == <<phase, result, coros, setup, start, call, stop, stopFuture, cancel, lost,
          threadStop, released, todo, reports, timedOut>>

Ended == {"returned", "failed", "cancelled"}

\* Coroutines whose call task exists and has not ended.
Live == {c \in coros : call[c] \notin Ended}

\* The event loop runs tasks until run_until_complete has returned.
LoopRuns == phase \in {"setup", "running", "closing", "leaving"}

TypeOK ==
    /\ phase \in {"init", "setup", "running", "closing", "leaving", "down"}
    /\ result \in {"none", "ValueError", "returned", "cancelled"}
    /\ coros \subseteq Coro
    /\ setup \in [Coro \cup Parents -> {"none", "running", "done", "failed", "cancelled"}]
    /\ start \in [Coro -> {"none", "running", "done", "failed", "cancelled"}]
    /\ call \in [Coro -> {"none", "wait", "waitAll", "loop", "stop"} \cup Ended]
    /\ stop \in [Coro -> {"none", "entered", "done", "failed"}]
    /\ stopFuture \in BOOLEAN
    /\ cancel \subseteq Coro /\ lost \subseteq Coro
    /\ threadStop \in [Coro -> {"none", "pending", "cancelled", "set"}]
    /\ released \in [Coro -> BOOLEAN]
    /\ todo \subseteq Coro
    /\ reports \in Seq(Ended)
    /\ timedOut \in BOOLEAN

Init ==
    /\ phase = "init"
    /\ result = "none"
    /\ coros = {}
    /\ setup = [s \in Coro \cup Parents |-> "none"]
    /\ start = [c \in Coro |-> "none"]
    /\ call = [c \in Coro |-> "none"]
    /\ stop = [c \in Coro |-> "none"]
    /\ stopFuture = FALSE
    /\ cancel = {} /\ lost = {}
    /\ threadStop = [c \in Coro |-> "none"]
    /\ released = [c \in Coro |-> FALSE]
    /\ todo = {}
    /\ reports = << >>
    /\ timedOut = FALSE

-----------------------------------------------------------------------------
(* Setup: every coroutine and the agent run their setup concurrently.      *)

\* Manager.register, called by the agent's _setup before the loop exists.
Register(c) ==
    /\ phase = "init"
    /\ coros' = coros \cup {c}
    /\ UNCHANGED <<phase, result, setup, start, call, stop, stopFuture, cancel, lost,
                   threadStop, released, todo, reports, timedOut>>

\* main up to its first await; asyncio.wait raises ValueError without a task.
CreateSetups ==
    /\ phase = "init"
    /\ IF coros \cup Parents = {}
       THEN /\ phase' = "leaving"
            /\ result' = "ValueError"
            /\ UNCHANGED setup
       ELSE /\ phase' = "setup"
            /\ setup' = [s \in Coro \cup Parents |->
                            IF s \in coros \cup Parents THEN "running" ELSE "none"]
            /\ UNCHANGED result
    /\ UNCHANGED <<coros, start, call, stop, stopFuture, cancel, lost, threadStop,
                   released, todo, reports, timedOut>>

\* A setup method returns; ThreadCoroutine.setup creates its stop future.
SetupDone(s) ==
    /\ phase = "setup"
    /\ setup[s] = "running"
    /\ setup' = [setup EXCEPT ![s] = "done"]
    /\ threadStop' = IF s \in Coro /\ Kind[s] = "thread"
                     THEN [threadStop EXCEPT ![s] = "pending"]
                     ELSE threadStop
    /\ UNCHANGED <<phase, result, coros, start, call, stop, stopFuture, cancel, lost,
                   released, todo, reports, timedOut>>

\* ThreadCoroutine.setup cannot raise, and no subclass overrides it.
SetupFail(s) ==
    /\ phase = "setup"
    /\ setup[s] = "running"
    /\ s \in Coro => Kind[s] # "thread"
    /\ setup' = [setup EXCEPT ![s] = "failed"]
    /\ UNCHANGED <<phase, result, coros, start, call, stop, stopFuture, cancel, lost,
                   threadStop, released, todo, reports, timedOut>>

\* Faulty variant, FIRST_COMPLETED: main gives up with the first setup that ends.
SetupsAborted_First ==
    /\ phase = "setup"
    /\ \E s \in coros \cup Parents : setup[s] \in {"done", "failed"}
    /\ \E s \in coros \cup Parents : setup[s] = "running"
    /\ phase' = "leaving"
    /\ result' = "returned"
    /\ UNCHANGED <<coros, setup, start, call, stop, stopFuture, cancel, lost, threadStop,
                   released, todo, reports, timedOut>>

\* FIRST_EXCEPTION: main resumes while setups are pending and cancels those.
SetupsAborted ==
    /\ phase = "setup"
    /\ \E s \in coros \cup Parents : setup[s] = "failed"
    /\ \E s \in coros \cup Parents : setup[s] = "running"
    /\ phase' = "leaving"
    /\ result' = "returned"
    /\ UNCHANGED <<coros, setup, start, call, stop, stopFuture, cancel, lost, threadStop,
                   released, todo, reports, timedOut>>

\* The cancelled setup runs once more before the event loop stops.
SetupCancelled(s) ==
    /\ phase = "leaving"
    /\ setup[s] = "running"
    /\ setup' = [setup EXCEPT ![s] = "cancelled"]
    /\ UNCHANGED <<phase, result, coros, start, call, stop, stopFuture, cancel, lost,
                   threadStop, released, todo, reports, timedOut>>

\* No setup is pending, whether it failed or not: main creates the start and
\* the call tasks.  Each call task first waits for start tasks.
SetupsConcluded ==
    /\ phase = "setup"
    /\ \A s \in coros \cup Parents : setup[s] # "running"
    /\ phase' = "running"
    /\ start' = [c \in Coro |-> IF c \in coros THEN "running" ELSE start[c]]
    /\ call' = [c \in Coro |-> IF c \in coros THEN "wait" ELSE call[c]]
    /\ UNCHANGED <<result, coros, setup, stop, stopFuture, cancel, lost, threadStop,
                   released, todo, reports, timedOut>>

-----------------------------------------------------------------------------
(* Start and wait: Coroutine._start and the first half of __call__.        *)

\* Shorthand for the steps of a start or call task.
MainVars == <<phase, result, coros, setup, stopFuture, cancel, lost, timedOut>>
CallVars == <<call, stop, threadStop, released, todo, reports>>

\* The task of c is to notice its cancel at the await it is suspended in.
Cancelling(c) == c \in cancel \ lost

StartDone(c) ==
    /\ LoopRuns
    /\ start[c] = "running" /\ ~(Cancelling(c) /\ call[c] = "wait")
    /\ start' = [start EXCEPT ![c] = "done"]
    /\ UNCHANGED <<MainVars, CallVars>>

StartFail(c) ==
    /\ LoopRuns
    /\ start[c] = "running" /\ ~(Cancelling(c) /\ call[c] = "wait")
    /\ start' = [start EXCEPT ![c] = "failed"]
    /\ UNCHANGED <<MainVars, CallVars>>

\* A call task that waits for its own start hands its cancellation on to it.
StartCancelled(c) ==
    /\ LoopRuns
    /\ start[c] = "running" /\ Cancelling(c) /\ call[c] = "wait"
    /\ start' = [start EXCEPT ![c] = "cancelled"]
    /\ UNCHANGED <<MainVars, CallVars>>

\* A wait_for with a timeout, in the start or in the loop, returns its result and forgets
\* the cancel that came with it.
LosesCancel(c) ==
    /\ LoopRuns
    /\ c \in Lossy /\ Cancelling(c)
    /\ (call[c] = "wait" /\ start[c] = "running") \/ call[c] = "loop"
    /\ lost' = lost \cup {c}
    /\ UNCHANGED <<phase, result, coros, setup, stopFuture, cancel, timedOut, start>>
    /\ UNCHANGED CallVars

\* The call task of c ends; as_completed gets to know if it waits for it.
EndCall(c, outcome) ==
    /\ call' = [call EXCEPT ![c] = outcome]
    /\ todo' = todo \ {c}
    /\ reports' = IF c \in todo THEN Append(reports, outcome) ELSE reports

-----------------------------------------------------------------------------
(* Faulty variants of the actions below, each with one plausible mistake.   *)
(* They occur in no specification; replacing an action by its variant shows *)
(* which property notices the mistake.                                      *)

\* wait does not wait for the start task.
WaitDone_NoAwait(c) ==
    /\ LoopRuns
    /\ call[c] = "wait" /\ ~Cancelling(c)
    /\ call' = [call EXCEPT ![c] = IF Kind[c] = "grpc" THEN "waitAll" ELSE "loop"]
    /\ UNCHANGED <<MainVars, start, stop, threadStop, released, todo, reports>>

\* GRPCCoroutine inherits wait.
WaitDone_Inherited(c) ==
    /\ LoopRuns
    /\ call[c] = "wait" /\ start[c] = "done" /\ ~Cancelling(c)
    /\ call' = [call EXCEPT ![c] = "loop"]
    /\ UNCHANGED <<MainVars, start, stop, threadStop, released, todo, reports>>

\* wait swallows the cancellation once the start method has returned.
WaitDone_Swallows(c) ==
    /\ LoopRuns
    /\ call[c] = "wait" /\ start[c] = "done"
    /\ call' = [call EXCEPT ![c] = IF Kind[c] = "grpc" THEN "waitAll" ELSE "loop"]
    /\ UNCHANGED <<MainVars, start, stop, threadStop, released, todo, reports>>

\* GRPCCoroutine.wait swallows the cancellation.
WaitAllDone_Swallows(c) ==
    /\ LoopRuns
    /\ call[c] = "waitAll"
    /\ \A d \in coros : start[d] # "running"
    /\ call' = [call EXCEPT ![c] = "loop"]
    /\ UNCHANGED <<MainVars, start, stop, threadStop, released, todo, reports>>

\* main cancels the pending tasks and does not await them.
Shutdown_NoAwait ==
    /\ phase = "running"
    /\ stopFuture \/ \E c \in coros : call[c] \in Ended
    /\ phase' = "closing"
    /\ stopFuture' = TRUE
    /\ cancel' = Live
    /\ todo' = {}
    /\ UNCHANGED <<result, coros, setup, start, call, stop, lost, threadStop, released,
                   reports, timedOut>>

\* as_completed is called without a timeout.
Timeout_None == FALSE /\ UNCHANGED vars

-----------------------------------------------------------------------------
\* Coroutine.wait returns; GRPCCoroutine.wait goes on to wait for all starts.
WaitDone(c) ==
    /\ LoopRuns
    /\ call[c] = "wait" /\ start[c] = "done" /\ ~Cancelling(c)
    /\ call' = [call EXCEPT ![c] = IF Kind[c] = "grpc" THEN "waitAll" ELSE "loop"]
    /\ UNCHANGED <<MainVars, start, stop, threadStop, released, todo, reports>>

\* asyncio.wait returns.  task.done() raises for no start task, whatever its
\* outcome, so the SystemError of GRPCCoroutine.wait is never raised.
WaitAllDone(c) ==
    /\ LoopRuns
    /\ call[c] = "waitAll" /\ ~Cancelling(c)
    /\ \A d \in coros : start[d] # "running"
    /\ call' = [call EXCEPT ![c] = "loop"]
    /\ UNCHANGED <<MainVars, start, stop, threadStop, released, todo, reports>>

\* The exception of the start method leaves __call__.
WaitFail(c) ==
    /\ LoopRuns
    /\ call[c] = "wait" /\ start[c] = "failed" /\ ~Cancelling(c)
    /\ EndCall(c, "failed")
    /\ UNCHANGED <<MainVars, start, stop, threadStop, released>>

\* A cancellation during wait leaves __call__, which only expects SystemError.
WaitCancelled(c) ==
    /\ LoopRuns
    /\ Cancelling(c)
    /\ \/ call[c] = "wait" /\ start[c] # "running"
       \/ call[c] = "waitAll"
    /\ EndCall(c, "cancelled")
    /\ UNCHANGED <<MainVars, start, stop, threadStop, released>>

-----------------------------------------------------------------------------
(* Loop and stop: the second half of __call__.                             *)

\* The loop ends by itself; EventCoroutine.loop calls stop before it returns.
LoopReturn(c) ==
    /\ LoopRuns
    /\ call[c] = "loop" /\ ~Cancelling(c)
    /\ Kind[c] # "thread"
    /\ EndCall(c, "returned")
    /\ stop' = IF Kind[c] = "event" THEN [stop EXCEPT ![c] = "done"] ELSE stop
    /\ UNCHANGED <<MainVars, start, threadStop, released>>

\* An exception of the loop; EventCoroutine.loop catches those of its main, and
\* ThreadCoroutine.loop only waits for a future.
LoopFail(c) ==
    /\ LoopRuns
    /\ call[c] = "loop" /\ ~Cancelling(c)
    /\ Kind[c] \in {"base", "grpc"}
    /\ EndCall(c, "failed")
    /\ UNCHANGED <<MainVars, start, stop, threadStop, released>>

\* The cancellation reaches __call__, which awaits stop.
LoopCancelled(c) ==
    /\ LoopRuns
    /\ call[c] = "loop" /\ Cancelling(c)
    /\ Kind[c] = "base"
    /\ call' = [call EXCEPT ![c] = "stop"]
    /\ stop' = [stop EXCEPT ![c] = "entered"]
    /\ UNCHANGED <<MainVars, start, threadStop, released, todo, reports>>

\* ThreadCoroutine.stop: the subclass releases its client if the future was
\* still pending, and has nothing to do otherwise.
ThreadLoopCancelled(c) ==
    /\ LoopRuns
    /\ call[c] = "loop" /\ Cancelling(c)
    /\ Kind[c] = "thread"
    /\ IF threadStop[c] = "pending"
       THEN /\ threadStop' = [threadStop EXCEPT ![c] = "set"]
            /\ call' = [call EXCEPT ![c] = "stop"]
            /\ stop' = [stop EXCEPT ![c] = "entered"]
            /\ UNCHANGED <<todo, reports>>
       ELSE /\ EndCall(c, "returned")
            /\ stop' = [stop EXCEPT ![c] = "done"]
            /\ UNCHANGED threadStop
    /\ UNCHANGED <<MainVars, start, released>>

\* EventCoroutine.loop leaves its while loop and calls stop itself.
EventLoopCancelled(c) ==
    /\ LoopRuns
    /\ call[c] = "loop" /\ Cancelling(c)
    /\ Kind[c] = "event"
    /\ EndCall(c, "returned")
    /\ stop' = [stop EXCEPT ![c] = "done"]
    /\ UNCHANGED <<MainVars, start, threadStop, released>>

\* GRPCCoroutine.loop swallows the cancellation: __call__ sees a return.
GrpcLoopCancelled(c) ==
    /\ LoopRuns
    /\ call[c] = "loop" /\ Cancelling(c)
    /\ Kind[c] = "grpc"
    /\ EndCall(c, "returned")
    /\ UNCHANGED <<MainVars, start, stop, threadStop, released>>

StopDone(c) ==
    /\ LoopRuns
    /\ call[c] = "stop"
    /\ EndCall(c, "returned")
    /\ stop' = [stop EXCEPT ![c] = "done"]
    /\ released' = [released EXCEPT ![c] = (Kind[c] = "thread")]
    /\ UNCHANGED <<MainVars, start, threadStop>>

StopFail(c) ==
    /\ LoopRuns
    /\ call[c] = "stop"
    /\ EndCall(c, "failed")
    /\ stop' = [stop EXCEPT ![c] = "failed"]
    /\ UNCHANGED <<MainVars, start, threadStop, released>>

-----------------------------------------------------------------------------
(* Shutdown: main from asyncio.wait(..., FIRST_COMPLETED) to its return.   *)

\* Manager.stop, called by the agent or by one of its coroutines.
Stop ==
    /\ phase \in {"setup", "running", "closing"}
    /\ ~stopFuture
    /\ stopFuture' = TRUE
    /\ UNCHANGED <<phase, result, coros, setup, start, call, stop, cancel, lost,
                   threadStop, released, todo, reports, timedOut>>

\* main resumes, sets the stop future and cancels every call task that is
\* pending by now.  Cancelling a task cancels the future it awaits, and a
\* ThreadCoroutine in its loop awaits its own stop future.
Shutdown ==
    /\ phase = "running"
    /\ stopFuture \/ \E c \in coros : call[c] \in Ended
    /\ phase' = "closing"
    /\ stopFuture' = TRUE
    /\ cancel' = Live
    /\ todo' = Live
    /\ threadStop' = [c \in Coro |->
                         IF c \in Live /\ call[c] = "loop" /\ threadStop[c] = "pending"
                         THEN "cancelled" ELSE threadStop[c]]
    /\ UNCHANGED <<result, coros, setup, start, call, stop, lost, released, reports,
                   timedOut>>

\* "await coro" in the as_completed loop: an exception is logged, but a
\* CancelledError is no Exception and leaves main.
Collect ==
    /\ phase = "closing"
    /\ reports # << >>
    /\ reports' = Tail(reports)
    /\ IF Head(reports) = "cancelled"
       THEN phase' = "leaving" /\ result' = "cancelled"
       ELSE UNCHANGED <<phase, result>>
    /\ UNCHANGED <<coros, setup, start, call, stop, stopFuture, cancel, lost, threadStop,
                   released, todo, timedOut>>

\* as_completed reports a TimeoutError for each task that is not done; the
\* loop body logs them all.
Timeout ==
    /\ phase = "closing"
    /\ todo # {}
    /\ todo' = {}
    /\ timedOut' = TRUE
    /\ UNCHANGED <<phase, result, coros, setup, start, call, stop, stopFuture, cancel, lost,
                   threadStop, released, reports>>

\* The as_completed loop is exhausted.
Return ==
    /\ phase = "closing"
    /\ todo = {} /\ reports = << >>
    /\ phase' = "leaving"
    /\ result' = "returned"
    /\ UNCHANGED <<coros, setup, start, call, stop, stopFuture, cancel, lost, threadStop,
                   released, todo, reports, timedOut>>

\* run_until_complete stops the event loop; what is not done is abandoned.
Exit ==
    /\ phase = "leaving"
    /\ phase' = "down"
    /\ UNCHANGED <<result, coros, setup, start, call, stop, stopFuture, cancel, lost,
                   threadStop, released, todo, reports, timedOut>>

Down == phase = "down" /\ UNCHANGED vars

-----------------------------------------------------------------------------

SetupStep(s) == SetupDone(s) \/ SetupFail(s) \/ SetupCancelled(s)

StartStep(c) == StartDone(c) \/ StartFail(c) \/ StartCancelled(c)

CallStep(c) ==
    \/ WaitDone(c) \/ WaitAllDone(c) \/ WaitFail(c) \/ WaitCancelled(c)
    \/ LoopReturn(c) \/ LoopFail(c) \/ LoopCancelled(c)
    \/ ThreadLoopCancelled(c) \/ EventLoopCancelled(c) \/ GrpcLoopCancelled(c)
    \/ StopDone(c) \/ StopFail(c) \/ LosesCancel(c)

MainStep ==
    \/ CreateSetups \/ SetupsAborted \/ SetupsConcluded
    \/ Shutdown \/ Collect \/ Timeout \/ Return \/ Exit

Next ==
    \/ MainStep
    \/ Stop
    \/ Down
    \/ \E c \in Coro : Register(c) \/ StartStep(c) \/ CallStep(c)
    \/ \E s \in Coro \cup Parents : SetupStep(s)

Spec == Init /\ [][Next]_vars

\* The event loop runs a ready main and an expired timer.  Nothing is assumed of
\* setup, start, loop and stop methods: each of them may await forever.
FairSpec == Spec /\ WF_vars(MainStep)

-----------------------------------------------------------------------------
(* Properties.                                                             *)

\* A loop runs, and stop is awaited, only when the coroutine's own start method
\* has returned: stop methods use what start created (Coroutine.__call__).
StopOnlyStarted ==
    \A c \in Coro :
        call[c] \in {"waitAll", "loop", "stop"} \/ stop[c] # "none" => start[c] = "done"

\* main waits for the end of every setup, also of those that fail, before it awaits the
\* first start method; it gives the boot up only because a setup failed (Manager.main).
SetupsFirst ==
    LET ended == {s \in coros \cup Parents : setup[s] \in {"done", "failed"}}
    IN  /\ (\E c \in coros : start[c] # "none") => ended = coros \cup Parents
        /\ phase \in {"leaving", "down"} /\ result = "returned" /\ ended # coros \cup Parents
               => \E s \in ended : setup[s] = "failed"

\* GRPCCoroutine waits for the termination of its server, so that main takes part of its
\* end, only when no coroutine of the agent is starting any more, failed or not.  The
\* server itself is up since its start (GRPCCoroutine.wait, GrpcServesLast).
GrpcWaitsForAll ==
    \A c \in coros :
        Kind[c] = "grpc" /\ call[c] = "loop" => \A d \in coros : start[d] # "running"

\* If main returned from a shutdown that did not time out, no coroutine is left running,
\* none ended by a CancelledError, and the stop method of each base or event coroutine
\* that had to be cancelled ran to its end, unless a wait_for lost the cancel (Manager.main).
OrderlyShutdown ==
    result = "returned" /\ ~timedOut =>
        \A c \in coros :
            /\ call[c] \in {"none", "returned", "failed"}
            /\ c \in cancel \ lost /\ Kind[c] \in {"base", "event"} =>
                   stop[c] \in {"done", "failed"}

\* main is left by a CancelledError only because of a coroutine that was still
\* waiting for start methods when it was cancelled; its stop was never called.
AbortOnlyWhileStarting ==
    result = "cancelled" => \E c \in cancel : call[c] = "cancelled" /\ stop[c] = "none"

\* Once main has begun to cancel, no coroutine enters its loop, although start methods may
\* still return (the race of a late start with the shutdown); before Python 3.12 this
\* excludes those that lost the cancel in a wait_for of their start.
NoLoopAfterShutdown ==
    [][\A c \in Coro :
        phase \in {"closing", "leaving"} /\ call'[c] = "loop"
            => call[c] = "loop" \/ c \in lost]_vars

\* A running agent that was asked to stop, or one of whose coroutines ended, is
\* down eventually, whatever its coroutines do (timeout of as_completed).
ShutdownTerminates ==
    (phase = "running" /\ (stopFuture \/ \E c \in coros : call[c] \in Ended)) ~> phase = "down"

\* The agent as seen from outside.
BootAborted ==
    /\ phase \in {"leaving", "down"}
    /\ \/ result = "ValueError"
       \/ \E s \in coros \cup Parents : setup[s] \in {"running", "cancelled"}

Stage ==
    IF phase \in {"init", "setup"} THEN "boot"
    ELSE IF phase = "running" THEN "serve"
    ELSE IF BootAborted \/ phase = "down" THEN "down" ELSE "stop"

Serving == {c \in Coro : call[c] \in {"loop", "stop"}}

Outcome ==
    CASE Stage # "down" -> "none"
      [] Stage = "down" /\ BootAborted -> "failed"
      [] OTHER -> IF result = "cancelled" THEN "aborted"
                  ELSE IF timedOut THEN "timeout" ELSE "orderly"

Lifecycle == INSTANCE AgentLifecycle
    WITH Late <- Lossy, stage <- Stage, serving <- Serving, outcome <- Outcome

\* Manager.main implements the life cycle of an agent.
ImplementsLifecycle == Lifecycle!Spec

\* "stop method is called after the coroutine was canceled" (Coroutine.stop): of
\* every coroutine cancelled in a shutdown that was not cut short by the timeout
\* or by a CancelledError.
StopAfterCancel ==
    result = "returned" /\ ~timedOut => \A c \in cancel : stop[c] # "none"

\* What the subclass of a ThreadCoroutine opened in start is released when stop
\* is called after the coroutine was cancelled (MQTTCoroutine.stop).
ThreadReleases ==
    phase = "down" /\ ~timedOut =>
        \A c \in cancel : Kind[c] = "thread" /\ stop[c] = "done" => released[c]

\* main leaves coroutines that are not done behind only when it has waited for
\* Manager.timeout seconds.
AllCancelledInTime ==
    phase = "down" /\ ~timedOut => \A c \in cancel : call[c] \in Ended

\* "start method is awaited once, after the setup were concluded": a start method
\* is awaited only on a coroutine whose setup was successful.
StartAfterSetup == \A c \in coros : start[c] # "none" => setup[c] = "done"

\* "The wait method can be used to delay the startup of a coroutine until preconditions
\* are fulfilled", and that of GRPCCoroutine waits "for all tasks to finish": the server
\* is up (its start has returned) only when no coroutine of the agent is starting.
GrpcServesLast ==
    \A c \in coros :
        Kind[c] = "grpc" /\ start[c] = "done" => \A d \in coros : start[d] # "running"

=============================================================================
