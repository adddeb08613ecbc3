-------------------------- MODULE SimulationKernel --------------------------
(***************************************************************************)
(* The discrete-event kernel SimulationInterface (iams/interfaces/         *)
(* simulation.py): the heap of events, the run loop of __call__ and what   *)
(* the simulation's own code (setup, agents, callbacks, hooks) may do to   *)
(* the kernel while it is being called.                                    *)
(*                                                                         *)
(* There is one thread.  pc says whose code runs: the kernel's own, or user*)
(* code called from it, which does any number of the user operations       *)
(* before it returns or raises.                                            *)
(*                                                                         *)
(* An event is its number in the order of schedule calls.  Times are whole *)
(* numbers, as the kernel only adds and compares them.                     *)
(***************************************************************************)
EXTENDS Integers, FiniteSets

CONSTANTS
    Agent,        \* names of agents
    Delay,        \* the dt passed to schedule
    Priorities,   \* values of Priority in use
    Start,        \* the time a simulation starts with
    Limit,        \* the time it stops at, or NoLimit
    NoLimit,
    MaxEvents,    \* bound on the events of one simulation
    HookActs      \* does the simulation's event_callback change the queue?

ASSUME KernelAssumption ==
    /\ Delay \subseteq Int
    /\ Priorities \subseteq {1, 3, 5, 7, 9}
    /\ Start \in Int
    /\ Limit \in Int \/ Limit = NoLimit
    /\ NoLimit \notin Int
    /\ MaxEvents \in Nat
    /\ HookActs \in BOOLEAN

VARIABLES
    pc,        \* whose code is running
    agents,    \* _agents
    df,        \* agents known to the directory facilitator
    todo,      \* agents the loops over sorted(_agents) have still to call
    queue,     \* _queue, as the set of events in the heap
    time,      \* _time
    events,    \* _events
    made,      \* number of events scheduled so far
    at, prio, dt,   \* time, priority and dt of each event
    deleted,   \* events that were cancelled
    current,   \* the event taken off the heap last
    executed,  \* events that were handed to event_callback and run
    skipped,   \* events that were taken off the heap and found cancelled
    late       \* events scheduled after the run loop

heap == <<queue, at, prio, dt, made>>
ghosts == <<executed, skipped, late>>
vars == <<pc, agents, df, todo, queue, time, events, made, at, prio, dt,
          deleted, current, executed, skipped, late>>

Event == 1 .. MaxEvents

\* User code is running.
UserCode == {"setup", "initcall", "hook", "callback", "stopcall", "finish"}

TypeOK ==
    /\ pc \in UserCode \cup {"init", "run", "stop", "done", "crashed"}
    /\ agents \subseteq Agent /\ df \subseteq Agent /\ todo \subseteq Agent
    /\ made \in 0 .. MaxEvents
    /\ queue \subseteq 1 .. made
    /\ time \in Int
    /\ events \in Int
    /\ at \in [Event -> Int] /\ prio \in [Event -> Int] /\ dt \in [Event -> Int]
    /\ deleted \subseteq 1 .. made
    /\ current \in 0 .. made
    /\ pc = "hook" => current \in executed
    /\ executed \subseteq 1 .. made
    /\ skipped \subseteq 1 .. made
    /\ late \subseteq 1 .. made
    /\ queue \cap executed = {} /\ queue \cap skipped = {} /\ executed \cap skipped = {}

\* run_simulation registers the configured agents before it starts the kernel.
Init ==
    /\ pc = "setup"
    /\ agents \in SUBSET Agent
    /\ df = agents
    /\ todo = {}
    /\ queue = {}
    /\ time = Start
    /\ events = 0
    /\ made = 0
    /\ at = [e \in Event |-> 0]
    /\ prio = [e \in Event |-> 0]
    /\ dt = [e \in Event |-> 0]
    /\ deleted = {}
    /\ current = 0
    /\ executed = {}
    /\ skipped = {}
    /\ late = {}

\* Faulty variant: the dt are compared like the other fields.
Precedes_DtAscending(e, f) ==
    \/ at[e] < at[f]
    \/ at[e] = at[f] /\ prio[e] < prio[f]
    \/ at[e] = at[f] /\ prio[e] = prio[f] /\ dt[e] < dt[f]

\* Queue.__lt__: note that the dt are compared the other way round.
Precedes(e, f) ==
    \/ at[e] < at[f]
    \/ at[e] = at[f] /\ prio[e] < prio[f]
    \/ at[e] = at[f] /\ prio[e] = prio[f] /\ dt[f] < dt[e]

\* heappop returns an event that no other one precedes.
Heads == {e \in queue : \A f \in queue : ~Precedes(f, e)}

-----------------------------------------------------------------------------
(* What user code may do while it is being called.                         *)

UserActs == pc \in UserCode /\ (pc = "hook" => HookActs)

\* SimulationInterface.schedule: a new event, relative to the current time.
Schedule(d, p) ==
    /\ UserActs
    /\ made < MaxEvents
    /\ made' = made + 1
    /\ events' = events + 1
    /\ at' = [at EXCEPT ![made + 1] = time + d]
    /\ dt' = [dt EXCEPT ![made + 1] = d]
    /\ prio' = [prio EXCEPT ![made + 1] = p]
    /\ queue' = queue \cup {made + 1}
    /\ late' = IF pc \in {"stopcall", "finish"} THEN late \cup {made + 1} ELSE late
    /\ UNCHANGED <<pc, agents, df, todo, time, deleted, current, executed, skipped>>

\* Queue.cancel marks the event, which stays in the heap.
Cancel(e) ==
    /\ UserActs
    /\ deleted' = deleted \cup {e}
    /\ UNCHANGED <<pc, agents, df, todo, time, events, heap, current, ghosts>>

Register(a) ==
    /\ UserActs
    /\ agents' = agents \cup {a}
    /\ df' = df \cup {a}
    /\ UNCHANGED <<pc, todo, time, events, heap, deleted, current, ghosts>>

\* unregister does not tell the directory facilitator.
Unregister(a) ==
    /\ UserActs
    /\ agents' = agents \ {a}
    /\ UNCHANGED <<pc, df, todo, time, events, heap, deleted, current, ghosts>>

\* get_state looks every agent of the directory facilitator up; the KeyError of
\* a missing one goes through the user code and ends the simulation.
GetStateFails ==
    /\ UserActs
    /\ ~(df \subseteq agents)
    /\ pc' = "crashed"
    /\ UNCHANGED <<agents, df, todo, time, events, heap, deleted, current, ghosts>>

-----------------------------------------------------------------------------
(* SimulationInterface.__call__.                                           *)

\* Steps that change pc and todo only.
Control == UNCHANGED <<agents, df, time, events, heap, deleted, current, ghosts>>

SetupReturns ==
    /\ pc = "setup"
    /\ pc' = "init"
    /\ todo' = agents
    /\ Control

\* The loops over sorted(self._agents) in __call__: an agent that is gone by the
\* time it is looked up raises a KeyError.
CallAgent(a, from, to) ==
    /\ pc = from
    /\ a \in todo
    /\ todo' = todo \ {a}
    /\ pc' = IF a \in agents THEN to ELSE "crashed"
    /\ Control

InitAgent(a) == CallAgent(a, "init", "initcall")

StopAgent(a) == CallAgent(a, "stop", "stopcall")

AgentReturns ==
    /\ \/ pc = "initcall" /\ pc' = "init"
       \/ pc = "stopcall" /\ pc' = "stop"
       \/ pc = "callback" /\ pc' = "run"
    /\ UNCHANGED todo
    /\ Control

AgentsInitialised ==
    /\ pc = "init" /\ todo = {}
    /\ pc' = "run"
    /\ UNCHANGED todo
    /\ Control

Beyond(e) == Limit # NoLimit /\ at[e] > Limit

\* A cancelled event leaves the heap without an effect.
Skip(e) ==
    /\ pc = "run"
    /\ e \in Heads /\ e \in deleted
    /\ queue' = queue \ {e}
    /\ current' = e
    /\ skipped' = skipped \cup {e}
    /\ UNCHANGED <<pc, agents, df, todo, time, events, made, at, prio, dt, deleted,
                   executed, late>>

\* The next event is taken off the heap and shown to event_callback.
Take(e) ==
    /\ pc = "run"
    /\ e \in Heads /\ e \notin deleted /\ ~Beyond(e)
    /\ queue' = queue \ {e}
    /\ current' = e
    /\ executed' = executed \cup {e}
    /\ pc' = "hook"
    /\ UNCHANGED <<agents, df, todo, time, events, made, at, prio, dt, deleted,
                   skipped, late>>

\* event_callback returns: the time is updated and the event's callback is called.
RunEvent ==
    /\ pc = "hook"
    /\ pc' = "callback"
    /\ time' = at[current]
    /\ UNCHANGED <<agents, df, todo, events, heap, deleted, current, ghosts>>

\* The run loop is left: the events in the heap are not counted as processed.
LeaveLoop(popped, left) ==
    /\ pc' = "stop"
    /\ todo' = agents
    /\ queue' = left
    /\ events' = events - popped - Cardinality(left)
    /\ UNCHANGED <<agents, df, time, made, at, prio, dt, deleted, ghosts>>

\* Faulty variant: the event beyond the limit is counted as processed.
ReachLimit_Counted(e) ==
    /\ pc = "run"
    /\ e \in Heads /\ e \notin deleted /\ Beyond(e)
    /\ current' = e
    /\ LeaveLoop(0, queue \ {e})

ReachLimit(e) ==
    /\ pc = "run"
    /\ e \in Heads /\ e \notin deleted /\ Beyond(e)
    /\ current' = e
    /\ LeaveLoop(1, queue \ {e})

QueueEmpty ==
    /\ pc = "run" /\ queue = {}
    /\ LeaveLoop(0, queue)
    /\ UNCHANGED current

RaiseStopSimulation ==
    /\ pc = "callback"
    /\ LeaveLoop(0, queue)
    /\ UNCHANGED current

AgentsStopped ==
    /\ pc = "stop" /\ todo = {}
    /\ pc' = "finish"
    /\ UNCHANGED todo
    /\ Control

\* The simulation's stop returns and the number of processed events is logged.
Finish ==
    /\ pc = "finish"
    /\ pc' = "done"
    /\ UNCHANGED todo
    /\ Control

\* User code raises what the kernel does not catch.
Crash ==
    /\ pc \in UserCode
    /\ pc' = "crashed"
    /\ UNCHANGED todo
    /\ Control

Ended == pc \in {"done", "crashed"} /\ UNCHANGED vars

-----------------------------------------------------------------------------

UserStep ==
    \/ \E d \in Delay, p \in Priorities : Schedule(d, p)
    \/ \E e \in 1 .. made : Cancel(e)
    \/ \E a \in Agent : Register(a) \/ Unregister(a)
    \/ GetStateFails

KernelStep ==
    \/ SetupReturns \/ AgentReturns \/ AgentsInitialised \/ RunEvent \/ QueueEmpty
    \/ RaiseStopSimulation \/ AgentsStopped \/ Finish \/ Crash
    \/ \E a \in Agent : InitAgent(a) \/ StopAgent(a)
    \/ \E e \in queue : Skip(e) \/ Take(e) \/ ReachLimit(e)

Next == UserStep \/ KernelStep \/ Ended

Spec == Init /\ [][Next]_vars

-----------------------------------------------------------------------------
(* Properties.                                                             *)

\* The simulation time never goes back (line "update time" of __call__).  It needs
\* that no event is scheduled in the past: neither by a negative dt nor by an
\* event_callback, which still sees the time of the previous event.
TimeNeverGoesBack == [][time' >= time]_vars

\* The number of processed events that is logged at the end counts the events
\* whose callback was called, those found cancelled, and those scheduled too late
\* to be run; events left in the heap by the limit or StopSimulation are not in it.
Accounting ==
    pc \in {"stop", "stopcall", "finish", "done"} =>
        events = Cardinality(executed) + Cardinality(skipped) + Cardinality(late)

\* What the abstract queue knows of an event: the code compares dt where the order is
\* that of the times at which the events were scheduled.
Notice(e) == [due |-> at[e], urgency |-> prio[e], since |-> at[e] - dt[e]]

\* The lazy deletion of events and the limit are invisible from outside.
Queue == INSTANCE EventSimulation WITH
    clock <- IF pc \in {"hook", "crashed"} /\ current \in executed THEN at[current] ELSE time,
    pending <- [e \in queue \ deleted |-> Notice(e)],
    fired <- executed,
    halted <- pc \in {"stop", "stopcall", "finish", "done", "crashed"}

\* The kernel implements an event queue: events are run by time, then urgency, then the
\* time they were scheduled at, and what was cancelled is not run.
ImplementsEventSimulation == Queue!Spec

\* "Processed %s events": the number logged at the end is that of the events that
\* were processed, if none is scheduled after the run loop.
ProcessedEvents == pc = "done" /\ late = {} => events = Cardinality(executed)

\* "unregister agent": get_state finds every agent that is registered.
StateAvailable == df \subseteq agents

=============================================================================
