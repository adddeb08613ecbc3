--------------------------- MODULE EventSimulation ---------------------------
(***************************************************************************)
(* What the event queue of a discrete-event simulation promises.  Events   *)
(* are pending until they are fired or cancelled.  The one fired next is   *)
(* due first of all pending ones, is the most urgent of those due at that  *)
(* time, and was scheduled first among those; it moves the clock to its    *)
(* time.  No event is scheduled in the past, none is fired twice, and none *)
(* after the simulation has halted.  SimulationKernel implements this.     *)
(***************************************************************************)
EXTENDS Integers

CONSTANTS Event, Start

VARIABLES
    clock,
    pending,   \* of each event that is to come when it is due, how urgent it is, and
               \* the clock when it was scheduled
    fired,     \* the events that were fired
    halted

\* An event with notice m may be fired although one with notice n is pending.
Before(m, n) ==
    \/ m.due < n.due
    \/ m.due = n.due /\ m.urgency < n.urgency
    \/ m.due = n.due /\ m.urgency = n.urgency /\ m.since <= n.since

Init == clock = Start /\ pending = << >> /\ fired = {} /\ halted = FALSE

Schedule(e) ==
    /\ e \in Event \ (DOMAIN pending \cup fired)
    /\ DOMAIN pending' = DOMAIN pending \cup {e}
    /\ \A d \in DOMAIN pending : pending'[d] = pending[d]
    /\ pending'[e].due \in Int /\ pending'[e].due >= clock
    /\ pending'[e].since = clock
    /\ UNCHANGED <<clock, fired, halted>>

Drop(e) == pending' = [d \in DOMAIN pending \ {e} |-> pending[d]]

Cancel(e) ==
    /\ e \in DOMAIN pending
    /\ Drop(e)
    /\ UNCHANGED <<clock, fired, halted>>

Fire(e) ==
    /\ ~halted
    /\ e \in DOMAIN pending
    /\ \A d \in DOMAIN pending : Before(pending[e], pending[d])
    /\ Drop(e)
    /\ clock' = pending[e].due
    /\ fired' = fired \cup {e}
    /\ UNCHANGED halted

\* The run ends; the first event beyond the limit is dropped.
Halt ==
    /\ ~halted
    /\ halted' = TRUE
    /\ \/ UNCHANGED pending
       \/ \E e \in DOMAIN pending : Drop(e)
    /\ UNCHANGED <<clock, fired>>

Next == Halt \/ \E e \in Event : Schedule(e) \/ Cancel(e) \/ Fire(e)

Spec == Init /\ [][Next]_<<clock, pending, fired, halted>>
=============================================================================
