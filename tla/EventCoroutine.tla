--------------------------- MODULE EventCoroutine ---------------------------
(***************************************************************************)
(* EventCoroutine (iams/aio/interfaces.py): a coroutine whose main is      *)
(* called once at the start, then whenever run was called, and, if it has  *)
(* an interval, whenever that time has passed.                             *)
(*                                                                         *)
(* Everything runs on one event loop, so an action is what happens between *)
(* two awaits.  The lock around main is taken by nobody else in the        *)
(* library; acquiring it never suspends and it is left out.                *)
(***************************************************************************)
CONSTANTS
    Timed,          \* may get_interval return a time (TRUE), None (FALSE), or either?
    Legacy,         \* may the interpreter be older than Python 3.12 (TRUE), may it not?
    MainRaises      \* the exceptions main may raise: "timeout", "error"

ASSUME EventAssumption ==
    /\ Timed \in SUBSET BOOLEAN /\ Timed # {} /\ Legacy \in SUBSET BOOLEAN
    /\ MainRaises \subseteq {"timeout", "error"}

VARIABLES
    pc,         \* where the coroutine is
    event,      \* the flag _event
    stopped,    \* _stop is done
    periodic,   \* the argument of the next or current main
    timer,      \* the current wait ends with the interval, too
    cancelled,  \* the task was cancelled and has not noticed yet
    legacy,     \* asyncio.wait_for before Python 3.12: a cancel that meets the event it
                \* waits for is lost if the wait has a timeout
    \* History.
    asked,      \* run was called and no main began since
    due,        \* run was called and no main began with periodic=False since
    turn,       \* flips whenever a main begins
    cancels     \* was the task ever cancelled?

ghosts == <<legacy, asked, due, turn, cancels>>
eventVars == <<pc, event, stopped, periodic, timer, cancelled, legacy, asked, due, turn, cancels>>

EventTypeOK ==
    /\ pc \in {"created", "started", "main", "wait", "ended"}
    /\ event \in BOOLEAN /\ stopped \in BOOLEAN /\ periodic \in BOOLEAN /\ timer \in BOOLEAN
    /\ cancelled \in BOOLEAN /\ legacy \in BOOLEAN /\ asked \in BOOLEAN /\ due \in BOOLEAN
    /\ turn \in BOOLEAN /\ cancels \in BOOLEAN
    /\ timer => pc = "wait"
    /\ cancelled => cancels

EventInit ==
    /\ pc = "created"
    /\ event = FALSE /\ stopped = FALSE /\ periodic = TRUE
    /\ timer = FALSE /\ cancelled = FALSE /\ legacy \in Legacy
    /\ asked = FALSE /\ due = FALSE /\ turn = FALSE /\ cancels = FALSE

\* _start, once start has returned; the event, the lock and the future are new.
Start ==
    /\ pc = "created"
    /\ pc' = "started"
    /\ UNCHANGED <<event, stopped, periodic, timer, cancelled, ghosts>>

-----------------------------------------------------------------------------
(* What other coroutines of the agent do.                                  *)

\* run sets the event.  (Before _start there is no event and run raises.)
Run ==
    /\ pc \notin {"created", "ended"}
    /\ event' = TRUE
    /\ asked' = TRUE
    /\ due' = TRUE
    /\ UNCHANGED <<pc, stopped, periodic, timer, cancelled, turn, cancels, legacy>>

\* stop wakes the loop; before _start it does nothing.
StopCalled ==
    /\ pc # "created"
    /\ stopped' = TRUE
    /\ event' = TRUE
    /\ UNCHANGED <<pc, periodic, timer, cancelled, ghosts>>

\* The manager cancels the task.
Cancel ==
    /\ pc \in {"started", "main", "wait"} /\ ~cancels
    /\ cancelled' = TRUE
    /\ cancels' = TRUE
    /\ UNCHANGED <<pc, event, stopped, periodic, timer, asked, due, turn, legacy>>

-----------------------------------------------------------------------------
(* loop.                                                                   *)

\* The loop is left and calls stop.
Leave ==
    /\ pc' = "ended"
    /\ stopped' = TRUE
    /\ event' = TRUE
    /\ asked' = FALSE
    /\ timer' = FALSE
    /\ UNCHANGED <<periodic, due, turn, cancels, legacy>>

\* Faulty variant: the loop does not look at _stop.
Continue_Forever(p, e) ==
    /\ pc' = "main"
    /\ event' = e
    /\ periodic' = p
    /\ asked' = FALSE
    /\ turn' = ~turn
    /\ due' = (due /\ p)
    /\ timer' = FALSE
    /\ UNCHANGED <<stopped, cancels, legacy>>

\* while not self._stop.done(): main begins, or the loop is left.
Continue(p, e) ==
    \/ stopped /\ Leave
    \/ /\ ~stopped
       /\ pc' = "main"
       /\ event' = e
       /\ periodic' = p
       /\ asked' = FALSE
       /\ turn' = ~turn
       /\ due' = (due /\ p)
       /\ timer' = FALSE
       /\ UNCHANGED <<stopped, cancels, legacy>>

LoopStarts ==
    /\ pc = "started" /\ ~cancelled
    /\ Continue(TRUE, event)
    /\ UNCHANGED cancelled

\* The task is cancelled before the loop begins: nothing calls stop.
CancelledBeforeLoop ==
    /\ pc = "started" /\ cancelled
    /\ pc' = "ended"
    /\ cancelled' = FALSE
    /\ asked' = FALSE
    /\ UNCHANGED <<event, stopped, periodic, timer, due, turn, cancels, legacy>>

\* Faulty variant: the event is cleared after main instead of before.
MainReturns_Clears ==
    /\ pc = "main" /\ ~cancelled
    /\ pc' = "wait"
    /\ event' = FALSE
    /\ timer' \in Timed
    /\ UNCHANGED <<stopped, periodic, cancelled, ghosts>>

\* main returns and the loop waits for the event and, if get_interval says so, for
\* the interval.
MainReturns ==
    /\ pc = "main" /\ ~cancelled
    /\ pc' = "wait"
    /\ timer' \in Timed
    /\ UNCHANGED <<event, stopped, periodic, cancelled, ghosts>>

\* main raises TimeoutError: the loop takes it for the end of the interval.
MainTimesOut ==
    /\ pc = "main" /\ ~cancelled /\ "timeout" \in MainRaises
    /\ Continue(TRUE, event)
    /\ UNCHANGED cancelled

MainFails ==
    /\ pc = "main" /\ ~cancelled /\ "error" \in MainRaises
    /\ Leave
    /\ UNCHANGED cancelled

\* The event is set; it is cleared and main is called for it.
Woken ==
    /\ pc = "wait" /\ event /\ ~cancelled
    /\ Continue(FALSE, FALSE)
    /\ UNCHANGED cancelled

\* The interval is over; the event may have been set at the same time and stays set.
TimerExpires ==
    /\ pc = "wait" /\ timer /\ ~cancelled
    /\ Continue(TRUE, event)
    /\ UNCHANGED cancelled

\* Faulty variant: the loop goes on after a cancel.
CancelledInLoop_Continues ==
    /\ pc \in {"main", "wait"} /\ cancelled
    /\ cancelled' = FALSE
    /\ Continue(periodic, event)

\* main or the wait notices the cancel.
CancelledInLoop ==
    /\ pc \in {"main", "wait"} /\ cancelled
    /\ cancelled' = FALSE
    /\ Leave

\* The cancel meets the event in wait_for, which returns as if nothing had been.
CancelLost ==
    /\ pc = "wait" /\ cancelled /\ event /\ timer /\ legacy
    /\ cancelled' = FALSE
    /\ Continue(FALSE, FALSE)

-----------------------------------------------------------------------------
LoopStep ==
    \/ LoopStarts \/ CancelledBeforeLoop \/ MainReturns \/ MainTimesOut \/ MainFails
    \/ Woken \/ TimerExpires \/ CancelledInLoop \/ CancelLost

LoopEnded == pc = "ended" /\ UNCHANGED eventVars

EventNext == Start \/ Run \/ StopCalled \/ Cancel \/ LoopStep \/ LoopEnded

EventSpec == EventInit /\ [][EventNext]_eventVars

\* The event loop goes on with a task that is ready, and main, a coroutine of the
\* agent, ends some time: it returns, raises, or is cancelled.
FairEventSpec == EventSpec /\ WF_eventVars(LoopStep)

-----------------------------------------------------------------------------
(* Properties.                                                             *)

\* A call of run is not lost: while the loop waits, an unserved call has its event
\* set, whether it came during main, between two waits or with the timer.
NoLostWakeup == pc = "wait" /\ asked => event

\* Calls of run are coalesced but never multiplied: between two mains with
\* periodic=False run was called.
Coalesced == [][turn' # turn /\ ~periodic' => due]_eventVars

\* Once stop was called no main begins, wherever the loop is at that time.
NoMainAfterStop == [][stopped => turn' = turn]_eventVars

\* A call of run is followed by a main, unless the coroutine ends.
RunServed == asked ~> ~asked

\* The coroutine ends after stop was called, and, unless an old wait_for may lose the
\* cancel, after it was cancelled.
StopEnds == stopped ~> pc = "ended"
CancelEnds == ~legacy /\ cancels ~> pc = "ended"

\* Expected not to hold before Python 3.12: a cancelled coroutine ends.
EveryCancelEnds == cancels ~> pc = "ended"

\* When it has no interval main is called at first and then only for a call of run
\* ("if None (the default), this function waits for the next event").
WaitsForEvent == [][~timer /\ turn' # turn => due \/ pc = "started"]_eventVars
=============================================================================
