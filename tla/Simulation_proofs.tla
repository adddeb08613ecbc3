-------------------------- MODULE Simulation_proofs --------------------------
(* Proofs about SimulationKernel for any agents, delays, priorities and number of *)
(* events, and about SimulationRuns for all products, formats, sizes of the pool  *)
(* and numbers of invocations, wherever the runner is killed.                     *)
EXTENDS SimulationKernel, SimulationRuns, FiniteSetTheorems, TLAPS

(***************************************************************************)
(* Type correctness.                                                       *)
(***************************************************************************)
LEMMA UserType == TypeOK /\ UserStep => TypeOK'
<1> SUFFICES ASSUME TypeOK, UserStep PROVE TypeOK'
  OBVIOUS
<1> USE DEF TypeOK, heap, ghosts
<1>1. ASSUME NEW d \in Delay, NEW p \in Priorities, Schedule(d, p)
      PROVE  TypeOK'
  <2>1. made + 1 \in Event /\ d \in Int /\ p \in Int /\ made' = made + 1
    BY <1>1, KernelAssumption DEF Schedule, Event
  <2>2. made' \in 0 .. MaxEvents /\ 1 .. made' = (1 .. made) \cup {made + 1}
    <3>1. made \in Nat /\ made < MaxEvents
      BY <1>1, KernelAssumption DEF Schedule
    <3> QED  BY <2>1, <3>1, KernelAssumption
  <2>3. at' \in [Event -> Int] /\ prio' \in [Event -> Int] /\ dt' \in [Event -> Int]
    BY <1>1, <2>1 DEF Schedule
  <2>4. executed' = executed /\ skipped' = skipped /\ queue' = queue \cup {made + 1}
    BY <1>1 DEF Schedule
  <2>5. made \in Nat /\ made + 1 \notin 1 .. made
    BY KernelAssumption
  <2>6. /\ queue' \cap executed' = {} /\ queue' \cap skipped' = {}
        /\ executed' \cap skipped' = {}
    BY <2>4, <2>5
  <2>7. /\ pc' = pc /\ time' = time /\ events' \in Int
        /\ agents' = agents /\ df' = df /\ todo' = todo
        /\ deleted' = deleted /\ current' = current /\ late' \subseteq late \cup {made + 1}
    BY <1>1 DEF Schedule
  <2>8. current' \in 0 .. made'
    BY <2>1, <2>5, <2>7
  <2> QED  BY <2>2, <2>1, <2>3, <2>4, <2>6, <2>7, <2>8
<1>2. ASSUME NEW e \in 1 .. made, Cancel(e) PROVE TypeOK'
  BY <1>2 DEF Cancel
<1>3. ASSUME NEW a \in Agent, Register(a) \/ Unregister(a) PROVE TypeOK'
  BY <1>3 DEF Register, Unregister
<1>4. CASE GetStateFails
  BY <1>4 DEF GetStateFails
<1> QED  BY <1>1, <1>2, <1>3, <1>4 DEF UserStep

LEMMA LeaveLoopType ==
    ASSUME TypeOK, NEW p \in Int, NEW left \in SUBSET queue, LeaveLoop(p, left),
           current' \in 0 .. made
    PROVE  TypeOK'
<1>1. 1 .. made \subseteq Int /\ IsFiniteSet(1 .. made)
  BY FS_Interval DEF TypeOK
<1>2. IsFiniteSet(left)
  BY <1>1, FS_Subset DEF TypeOK
<1>3. Cardinality(left) \in Int
  BY <1>2, FS_CardinalityType
<1> QED  BY <1>3 DEF TypeOK, LeaveLoop, ghosts

LEMMA KernelType == TypeOK /\ KernelStep => TypeOK'
<1> SUFFICES ASSUME TypeOK, KernelStep PROVE TypeOK'
  OBVIOUS
<1>1. CASE SetupReturns \/ AgentReturns \/ AgentsInitialised \/ AgentsStopped \/ Finish \/ Crash
  BY <1>1 DEF TypeOK, heap, ghosts, Control, UserCode, SetupReturns, AgentReturns,
              AgentsInitialised, AgentsStopped, Finish, Crash
<1>2. CASE RunEvent
  <2>1. current \in Event /\ at[current] \in Int
    BY <1>2, KernelAssumption DEF TypeOK, RunEvent, Event
  <2> QED  BY <1>2, <2>1 DEF TypeOK, heap, ghosts, RunEvent, UserCode
<1>3. CASE QueueEmpty \/ RaiseStopSimulation
  BY <1>3, LeaveLoopType DEF QueueEmpty, RaiseStopSimulation, TypeOK
<1>4. ASSUME NEW a \in Agent, InitAgent(a) \/ StopAgent(a) PROVE TypeOK'
  BY <1>4 DEF TypeOK, heap, ghosts, Control, InitAgent, StopAgent, CallAgent, UserCode
<1>5. ASSUME NEW e \in queue, Skip(e) PROVE TypeOK'
  <2>1. e \in 1 .. made /\ e \in 0 .. made /\ pc' # "hook"
    BY <1>5, KernelAssumption DEF TypeOK, Skip
  <2> QED  BY <1>5, <2>1 DEF TypeOK, Skip, UserCode
<1>7. ASSUME NEW e \in queue, Take(e) PROVE TypeOK'
  <2>1. e \in 1 .. made /\ e \in 0 .. made
    BY KernelAssumption DEF TypeOK
  <2> QED  BY <1>7, <2>1 DEF TypeOK, Take, UserCode
<1>6. ASSUME NEW e \in queue, ReachLimit(e) PROVE TypeOK'
  BY <1>6, LeaveLoopType DEF ReachLimit, TypeOK
<1> QED  BY <1>1, <1>2, <1>3, <1>4, <1>5, <1>6, <1>7 DEF KernelStep

LEMMA StepType == TypeOK /\ [Next]_vars => TypeOK'
<1>1. TypeOK /\ UNCHANGED vars => TypeOK'
  BY DEF TypeOK, vars
<1> QED  BY <1>1, UserType, KernelType DEF Next, Ended

\* Every reachable state of the kernel is well typed, and each event is in the
\* heap, or was run, or was skipped.
THEOREM TypeCorrect == Spec => []TypeOK
<1>1. Init => TypeOK
  BY KernelAssumption DEF Init, TypeOK, Event, UserCode
<1> QED  BY <1>1, StepType, PTL DEF Spec

(***************************************************************************)
(* Accounting: while the loop runs the counter is the number of events     *)
(* scheduled, and every event is in exactly one of the three places.       *)
(***************************************************************************)
Size(S) == Cardinality(S)

Looping == pc \in {"setup", "init", "initcall", "run", "hook", "callback"}

Counted ==
    /\ Looping => late = {} /\ events = Size(queue) + Size(executed) + Size(skipped)
    /\ pc \in {"stop", "stopcall", "finish", "done"} =>
          events = Size(executed) + Size(skipped) + Size(late)

\* Sizes of subsets of the events made so far.
LEMMA Sizes ==
    ASSUME NEW n \in Nat, NEW S \in SUBSET (1 .. n)
    PROVE  /\ IsFiniteSet(S)
           /\ Size(S) \in Nat
           /\ Size(S \cup {n + 1}) = Size(S) + 1
           /\ \A e \in S : Size(S \ {e}) = Size(S) - 1
           /\ \A e \in (1 .. n) \ S : Size(S \cup {e}) = Size(S) + 1
<1>1. IsFiniteSet(1 .. n)
  BY FS_Interval
<1>2. IsFiniteSet(S)
  BY <1>1, FS_Subset
<1>3. n + 1 \notin S
  OBVIOUS
<1> QED  BY <1>2, <1>3, FS_CardinalityType, FS_AddElement, FS_RemoveElement DEF Size

LEMMA StepCounted == TypeOK /\ Counted /\ [Next]_vars => Counted'
<1> SUFFICES ASSUME TypeOK, Counted, [Next]_vars PROVE Counted'
  OBVIOUS
<1>1. made \in Nat /\ {queue, executed, skipped, late} \subseteq SUBSET (1 .. made)
  BY KernelAssumption DEF TypeOK
<1>2. /\ Size(queue) \in Nat /\ Size(executed) \in Nat
      /\ Size(skipped) \in Nat /\ Size(late) \in Nat
  BY <1>1, Sizes
<1>3. Size({}) = 0
  BY FS_EmptySet DEF Size
<1>4. CASE UNCHANGED vars
  BY <1>4 DEF vars, Counted, Looping
<1>5. ASSUME NEW d \in Delay, NEW p \in Priorities, Schedule(d, p) PROVE Counted'
  <2>1. /\ Size(queue \cup {made + 1}) = Size(queue) + 1
        /\ Size(late \cup {made + 1}) = Size(late) + 1
    BY <1>1, Sizes
  <2> QED
    BY <1>2, <1>5, <2>1 DEF Schedule, Counted, Looping, UserActs, UserCode, TypeOK
<1>6. CASE (\E e \in 1 .. made : Cancel(e)) \/ (\E a \in Agent : Register(a) \/ Unregister(a))
  BY <1>6 DEF Cancel, Register, Unregister, heap, ghosts, Counted, Looping
<1>7. CASE GetStateFails \/ Crash
  BY <1>7 DEF GetStateFails, Crash, Control, heap, ghosts, Counted, Looping
<1>8. CASE SetupReturns \/ AgentReturns \/ AgentsInitialised \/ AgentsStopped \/ Finish
  BY <1>8 DEF SetupReturns, AgentReturns, AgentsInitialised, AgentsStopped, Finish, Control,
              heap, ghosts, Counted, Looping
<1>9. CASE RunEvent
  BY <1>9 DEF RunEvent, heap, ghosts, Counted, Looping
<1>10. CASE QueueEmpty \/ RaiseStopSimulation
  <2>1. /\ pc' = "stop" /\ late = {} /\ events' = events - 0 - Size(queue)
        /\ executed' = executed /\ skipped' = skipped /\ late' = late
        /\ events = Size(queue) + Size(executed) + Size(skipped)
    BY <1>10 DEF QueueEmpty, RaiseStopSimulation, LeaveLoop, ghosts, Counted, Looping, Size
  <2> QED  BY <1>2, <1>3, <2>1 DEF Counted, Looping
<1>11. ASSUME NEW a \in Agent, InitAgent(a) \/ StopAgent(a) PROVE Counted'
  BY <1>11 DEF InitAgent, StopAgent, CallAgent, Control, heap, ghosts, Counted, Looping
<1>12. ASSUME NEW e \in queue, Skip(e) \/ Take(e) PROVE Counted'
  <2>1. e \in (1 .. made) \ executed /\ e \in (1 .. made) \ skipped
    BY DEF TypeOK
  <2>2. /\ Size(queue \ {e}) = Size(queue) - 1
        /\ Size(executed \cup {e}) = Size(executed) + 1
        /\ Size(skipped \cup {e}) = Size(skipped) + 1
    BY <1>1, <2>1, Sizes
  <2>3. late = {} /\ events = Size(queue) + Size(executed) + Size(skipped)
    BY <1>12 DEF Skip, Take, Counted, Looping
  <2>4. CASE Skip(e)
    <3>1. /\ pc' = "run" /\ events' = events /\ late' = late
          /\ queue' = queue \ {e} /\ executed' = executed /\ skipped' = skipped \cup {e}
      BY <2>4 DEF Skip
    <3> QED  BY <1>2, <2>2, <2>3, <3>1 DEF Counted, Looping
  <2>5. CASE Take(e)
    <3>1. /\ pc' = "hook" /\ events' = events /\ late' = late
          /\ queue' = queue \ {e} /\ executed' = executed \cup {e} /\ skipped' = skipped
      BY <2>5 DEF Take
    <3> QED  BY <1>2, <2>2, <2>3, <3>1 DEF Counted, Looping
  <2> QED  BY <1>12, <2>4, <2>5
<1>13. ASSUME NEW e \in queue, ReachLimit(e) PROVE Counted'
  <2>1. Size(queue \ {e}) = Size(queue) - 1
    BY <1>1, Sizes
  <2>2. /\ pc' = "stop" /\ late = {} /\ events' = events - 1 - Size(queue \ {e})
        /\ executed' = executed /\ skipped' = skipped /\ late' = late
        /\ events = Size(queue) + Size(executed) + Size(skipped)
    BY <1>13 DEF ReachLimit, LeaveLoop, ghosts, Counted, Looping, Size
  <2> QED  BY <1>2, <1>3, <2>1, <2>2 DEF Counted, Looping
<1> QED
  BY <1>4, <1>5, <1>6, <1>7, <1>8, <1>9, <1>10, <1>11, <1>12, <1>13
  DEF Next, UserStep, KernelStep, Ended

\* The counter logged at the end is the number of events run, found cancelled or
\* scheduled too late.
THEOREM AccountingHolds == Spec => []Accounting
<1>1. Init => Counted
  BY FS_EmptySet DEF Init, Counted, Looping, Size
<1>2. Counted => Accounting
  BY DEF Counted, Accounting, Size
<1> QED  BY <1>1, <1>2, StepCounted, TypeCorrect, PTL DEF Spec

(***************************************************************************)
(* Time: without an event scheduled in the past, no event in the heap is   *)
(* due before the current time.                                            *)
(***************************************************************************)
NotPast ==
    /\ \A e \in queue : at[e] >= time
    /\ pc = "hook" =>
          at[current] >= time /\ \A e \in queue : at[e] >= at[current]
    /\ pc \notin {"hook", "crashed"} /\ current \in executed => time = at[current]

\* Nothing is scheduled with a negative dt, nor while event_callback runs.
Forward == Delay \subseteq Nat /\ HookActs = FALSE

LEMMA NotPastInit == Init => NotPast
  BY DEF Init, NotPast

LEMMA StepNotPast ==
    ASSUME Forward, TypeOK, NotPast, [Next]_vars
    PROVE  NotPast'
<1>1. \A e \in queue \cup executed : e \in Event /\ e # made + 1 /\ at[e] \in Int
  BY KernelAssumption DEF TypeOK, Event
<1>2. CASE UNCHANGED vars
  BY <1>2 DEF vars, NotPast
<1>3. ASSUME NEW d \in Delay, NEW p \in Priorities, Schedule(d, p) PROVE NotPast'
  <2>1. /\ d \in Nat /\ pc # "hook" /\ pc' = pc /\ time' = time /\ time \in Int
        /\ queue' = queue \cup {made + 1} /\ current' = current /\ executed' = executed
    BY <1>3 DEF Forward, Schedule, UserActs, TypeOK
  <2>2. made + 1 \in Event /\ at'[made + 1] = time + d
    BY <1>3, KernelAssumption DEF Schedule, TypeOK, Event
  <2>3. \A e \in queue \cup executed : at'[e] = at[e]
    BY <1>1, <1>3 DEF Schedule, TypeOK
  <2> QED  BY <2>1, <2>2, <2>3 DEF NotPast
<1>4. CASE (\E e \in 1 .. made : Cancel(e)) \/ (\E a \in Agent : Register(a) \/ Unregister(a))
  BY <1>4 DEF Cancel, Register, Unregister, heap, ghosts, NotPast
<1>5. CASE GetStateFails \/ Crash
  BY <1>5 DEF GetStateFails, Crash, Control, heap, ghosts, NotPast
<1>6. CASE SetupReturns \/ AgentReturns \/ AgentsInitialised \/ AgentsStopped \/ Finish
  BY <1>6 DEF SetupReturns, AgentReturns, AgentsInitialised, AgentsStopped, Finish, Control,
              heap, ghosts, NotPast
<1>7. CASE RunEvent
  BY <1>7 DEF RunEvent, heap, ghosts, NotPast
<1>8. CASE QueueEmpty \/ RaiseStopSimulation
  BY <1>8 DEF QueueEmpty, RaiseStopSimulation, LeaveLoop, ghosts, NotPast
<1>9. ASSUME NEW a \in Agent, InitAgent(a) \/ StopAgent(a) PROVE NotPast'
  BY <1>9 DEF InitAgent, StopAgent, CallAgent, Control, heap, ghosts, NotPast
<1>10. ASSUME NEW e \in queue, Skip(e) PROVE NotPast'
  <2>1. e \notin executed
    BY DEF TypeOK
  <2> QED  BY <1>10, <2>1 DEF Skip, NotPast
<1>11. ASSUME NEW e \in queue, Take(e) PROVE NotPast'
  <2>1. \A f \in queue : ~Precedes(f, e) /\ at[f] \in Int
    BY <1>1, <1>11 DEF Take, Heads
  <2>2. \A f \in queue : at[f] >= at[e]
    BY <2>1 DEF Precedes
  <2> QED  BY <1>11, <2>2 DEF Take, NotPast
<1>12. ASSUME NEW e \in queue, ReachLimit(e) PROVE NotPast'
  <2>1. e \notin executed
    BY DEF TypeOK
  <2> QED  BY <1>12, <2>1 DEF ReachLimit, LeaveLoop, ghosts, NotPast
<1> QED
  BY <1>2, <1>3, <1>4, <1>5, <1>6, <1>7, <1>8, <1>9, <1>10, <1>11, <1>12
  DEF Next, UserStep, KernelStep, Ended

LEMMA NotPastHolds ==
    ASSUME Forward
    PROVE  Spec => [](TypeOK /\ NotPast)
<1>1. TypeOK /\ NotPast /\ [Next]_vars => NotPast'
  BY StepNotPast
<1> QED  BY <1>1, NotPastInit, TypeCorrect, PTL DEF Spec

\* The simulation time never goes back, provided that no event is scheduled with
\* a negative dt and event_callback schedules none.
THEOREM TimeNeverGoesBackHolds ==
    ASSUME Forward
    PROVE  Spec => TimeNeverGoesBack
<1>1. TypeOK /\ NotPast /\ [Next]_vars => [time' >= time]_vars
  <2> SUFFICES ASSUME TypeOK, NotPast, Next PROVE time' >= time
    OBVIOUS
  <2>1. time \in Int
    BY DEF TypeOK
  <2>2. CASE RunEvent
    BY <2>2 DEF RunEvent, NotPast
  <2>3. CASE ~RunEvent
    <3>1. UserStep => time' = time
      BY DEF UserStep, Schedule, Cancel, Register, Unregister, GetStateFails
    <3>2. KernelStep => time' = time
      BY <2>3 DEF KernelStep, SetupReturns, AgentReturns, AgentsInitialised,
         QueueEmpty, RaiseStopSimulation, AgentsStopped, Finish, Crash, InitAgent,
         StopAgent, CallAgent, Skip, Take, ReachLimit, LeaveLoop, Control
    <3>3. Ended => time' = time
      BY DEF Ended, vars
    <3> QED  BY <2>1, <3>1, <3>2, <3>3 DEF Next
  <2> QED  BY <2>2, <2>3
<1>2. Spec => [](TypeOK /\ NotPast)
  BY NotPastHolds
<1> QED  BY <1>1, <1>2, PTL DEF Spec, TimeNeverGoesBack

(***************************************************************************)
(* The kernel implements the abstract event queue.                         *)
(***************************************************************************)
Clock == IF pc \in {"hook", "crashed"} /\ current \in executed THEN at[current] ELSE time

Halted == pc \in {"stop", "stopcall", "finish", "done", "crashed"}

\* The abstract variables.
AbstractVars == <<Clock, [e \in queue \ deleted |-> Notice(e)], executed, Halted>>

\* Steps that leave the events alone end the abstract run or are invisible.
LEMMA QuietStep ==
    ASSUME UNCHANGED <<queue, heap, deleted, executed>>, Clock' = Clock,
           Halted => Halted'
    PROVE  Queue!Halt \/ UNCHANGED AbstractVars
<1>1. [e \in queue \ deleted |-> Notice(e)]' = [e \in queue \ deleted |-> Notice(e)]
  BY DEF Notice, heap
<1>2. CASE Halted' = Halted
  BY <1>1, <1>2 DEF AbstractVars
<1>3. CASE ~Halted /\ Halted'
  BY <1>1, <1>3 DEF Queue!Halt, Clock, Halted
<1> QED  BY <1>2, <1>3 DEF Halted

LEMMA StepImplements ==
    ASSUME Forward, TypeOK, NotPast, Next
    PROVE  Queue!Next \/ UNCHANGED AbstractVars
<1>1. ASSUME NEW d \in Delay, NEW p \in Priorities, Schedule(d, p)
      PROVE  \E e \in Event : Queue!Schedule(e)
  <2>0. PICK n \in Event : n = made + 1
    BY <1>1, KernelAssumption DEF Schedule, TypeOK, Event
  <2>1. /\ d \in Nat /\ pc \notin {"hook", "crashed"} /\ pc' = pc /\ time' = time
        /\ queue' = queue \cup {n} /\ deleted' = deleted /\ executed' = executed
        /\ time \in Int /\ current' = current
    BY <1>1, <2>0 DEF Forward, Schedule, UserActs, UserCode, TypeOK
  <2>2. /\ n \in 1 .. MaxEvents /\ n \notin 1 .. made /\ at'[n] = time + d /\ dt'[n] = d
        /\ \A e \in 1 .. made : at'[e] = at[e] /\ prio'[e] = prio[e] /\ dt'[e] = dt[e]
    <3>1. n \in 1 .. MaxEvents /\ n \notin 1 .. made
      BY <1>1, <2>0, KernelAssumption DEF Schedule, TypeOK
    <3> QED  BY <1>1, <2>0, <3>1, KernelAssumption DEF Schedule, TypeOK, Event
  <2>3. n \notin queue /\ n \notin deleted /\ n \notin executed
    BY <2>2 DEF TypeOK
  <2>4. Clock = time /\ Clock' = time /\ Halted' = Halted
    BY <2>1 DEF Clock, Halted
  <2>5. \A e \in queue : Notice(e)' = Notice(e)
    BY <2>2 DEF TypeOK, Notice
  <2>6. queue' \ deleted' = (queue \ deleted) \cup {n}
    BY <2>1, <2>3
  <2> DEFINE P == [e \in queue \ deleted |-> Notice(e)]
             Q == [e \in queue' \ deleted' |-> Notice(e)']
  <2>7. DOMAIN Q = DOMAIN P \cup {n}
    BY <2>6
  <2>8. \A e \in DOMAIN P : Q[e] = P[e]
    BY <2>5, <2>6
  <2>9. Q[n].due \in Int /\ Q[n].due >= time /\ Q[n].since = time
    BY <2>1, <2>2, <2>6 DEF Notice
  <2>10. n \in Event \ (DOMAIN P \cup executed)
    BY <2>2, <2>3 DEF Event
  <2> HIDE DEF P, Q
  <2>11. Queue!Schedule(n)
    BY <2>1, <2>4, <2>7, <2>8, <2>9, <2>10 DEF Queue!Schedule, Clock, Halted, P, Q
  <2> QED  BY <2>11
<1>2. ASSUME NEW e \in 1 .. made, Cancel(e)
      PROVE  Queue!Cancel(e) \/ UNCHANGED AbstractVars
  <2>1. /\ queue' = queue /\ executed' = executed /\ deleted' = deleted \cup {e}
        /\ Clock' = Clock /\ Halted' = Halted /\ \A f \in queue : Notice(f)' = Notice(f)
    BY <1>2 DEF Cancel, heap, ghosts, Clock, Halted, Notice
  <2>2. CASE e \in queue \ deleted
    <3>1. queue' \ deleted' = (queue \ deleted) \ {e}
      BY <2>1
    <3> QED
      BY <2>1, <2>2, <3>1 DEF Queue!Cancel, Queue!Drop, Clock, Halted
  <2>3. CASE e \notin queue \ deleted
    <3>1. queue' \ deleted' = queue \ deleted
      BY <2>1, <2>3
    <3> QED  BY <2>1, <3>1 DEF AbstractVars
  <2> QED  BY <2>2, <2>3
<1>3. CASE (\E a \in Agent : Register(a) \/ Unregister(a)) \/ GetStateFails \/ Crash
  <2>1. UNCHANGED <<queue, heap, deleted, executed, current, time>>
    BY <1>3 DEF Register, Unregister, GetStateFails, Crash, Control, heap, ghosts
  <2>2. pc' = pc \/ (pc \in UserCode /\ pc' = "crashed")
    BY <1>3 DEF Register, Unregister, GetStateFails, Crash, UserActs
  <2>3. Clock' = Clock
    BY <2>1, <2>2 DEF Clock, NotPast, UserCode, heap
  <2>4. Halted => Halted'
    BY <2>2 DEF Halted
  <2> QED  BY <2>1, <2>3, <2>4, QuietStep DEF Queue!Next
<1>4. CASE \/ SetupReturns \/ AgentReturns \/ AgentsInitialised \/ AgentsStopped \/ Finish
           \/ \E a \in Agent : InitAgent(a) \/ StopAgent(a)
  <2>1. UNCHANGED <<queue, heap, deleted, executed, current, time>>
    BY <1>4 DEF SetupReturns, AgentReturns, AgentsInitialised, AgentsStopped, Finish,
       InitAgent, StopAgent, CallAgent, Control, heap, ghosts
  <2>2. pc \notin {"hook", "crashed"} /\ pc' # "hook" /\ (Halted => Halted')
    BY <1>4 DEF SetupReturns, AgentReturns, AgentsInitialised, AgentsStopped, Finish,
       InitAgent, StopAgent, CallAgent, Halted
  <2>3. Clock' = Clock
    BY <2>1, <2>2 DEF Clock, NotPast, heap
  <2>4. Halted => Halted'
    BY <2>2 DEF Halted
  <2> QED  BY <2>1, <2>3, <2>4, QuietStep DEF Queue!Next
<1>5. CASE RunEvent
  <2>1. UNCHANGED <<queue, heap, deleted, executed>> /\ Clock' = Clock /\ Halted' = Halted
    BY <1>5 DEF RunEvent, heap, ghosts, Clock, Halted, TypeOK
  <2> QED  BY <2>1, QuietStep DEF Queue!Next
<1>6. CASE QueueEmpty \/ RaiseStopSimulation
  <2>1. /\ UNCHANGED <<queue, heap, deleted, executed>> /\ Clock' = Clock
        /\ ~Halted /\ Halted'
    BY <1>6 DEF QueueEmpty, RaiseStopSimulation, LeaveLoop, ghosts, heap, Clock, Halted
  <2> QED  BY <2>1, QuietStep DEF Queue!Next
<1>7. ASSUME NEW e \in queue, Skip(e) PROVE UNCHANGED AbstractVars
  <2>1. /\ queue' \ deleted' = queue \ deleted /\ executed' = executed
        /\ Clock' = Clock /\ Halted' = Halted /\ \A f \in queue : Notice(f)' = Notice(f)
    BY <1>7 DEF Skip, Clock, Halted, Notice
  <2> QED  BY <2>1 DEF AbstractVars
<1>8. ASSUME NEW e \in queue, Take(e) PROVE Queue!Fire(e)
  <2>1. /\ queue' \ deleted' = (queue \ deleted) \ {e}
        /\ e \in queue \ deleted /\ executed' = executed \cup {e}
        /\ \A f \in queue : Notice(f)' = Notice(f)
    BY <1>8 DEF Take, Notice
  <2>2. \A f \in queue : Queue!Before(Notice(e), Notice(f))
    <3>1. \A f \in queue :
             at[f] \in Int /\ prio[f] \in Int /\ dt[f] \in Int /\ ~Precedes(f, e)
      <4>1. queue \subseteq Event
        BY KernelAssumption DEF TypeOK, Event
      <4> QED  BY <1>8, <4>1 DEF Take, Heads, TypeOK
    <3> QED  BY <3>1 DEF Precedes, Notice, Queue!Before
  <2>3. Clock' = Notice(e).due /\ ~Halted /\ ~Halted'
    BY <1>8, <2>1 DEF Take, Clock, Halted, Notice
  <2> QED
    BY <2>1, <2>2, <2>3 DEF Queue!Fire, Queue!Drop, Clock, Halted
<1>9. ASSUME NEW e \in queue, ReachLimit(e) PROVE Queue!Halt
  <2>1. /\ queue' \ deleted' = (queue \ deleted) \ {e}
        /\ e \in queue \ deleted /\ executed' = executed
        /\ \A f \in queue : Notice(f)' = Notice(f)
    BY <1>9 DEF ReachLimit, LeaveLoop, ghosts, Notice
  <2>2. Clock' = Clock /\ ~Halted /\ Halted'
    BY <1>9 DEF ReachLimit, LeaveLoop, Clock, Halted
  <2> QED
    BY <2>1, <2>2 DEF Queue!Halt, Queue!Drop, Clock, Halted
<1>10. CASE Ended
  BY <1>10 DEF Ended, vars, AbstractVars, Clock, Halted, Notice
<1>11. \A e \in 1 .. made : e \in Event
  BY KernelAssumption DEF TypeOK, Event
<1>12. (\E d \in Delay, p \in Priorities : Schedule(d, p)) => Queue!Next
  BY <1>1 DEF Queue!Next
<1>13. (\E e \in 1 .. made : Cancel(e)) => Queue!Next \/ UNCHANGED AbstractVars
  BY <1>2, <1>11 DEF Queue!Next
<1>14. \A e \in queue : Skip(e) \/ Take(e) \/ ReachLimit(e) => Queue!Next \/ UNCHANGED AbstractVars
  BY <1>7, <1>8, <1>9, <1>11 DEF Queue!Next, TypeOK
<1> QED
  BY <1>3, <1>4, <1>5, <1>6, <1>10, <1>12, <1>13, <1>14 DEF Next, UserStep, KernelStep

\* Without an event scheduled in the past the kernel is an event queue: lazy
\* deletion, the two callbacks of an event and the limit are invisible.
THEOREM Implements ==
    ASSUME Forward
    PROVE  Spec => ImplementsEventSimulation
<1>1. Init => Queue!Init
  BY DEF Init, Queue!Init
<1>2. TypeOK /\ NotPast /\ [Next]_vars => [Queue!Next]_AbstractVars
  <2>1. UNCHANGED vars => UNCHANGED AbstractVars
    BY DEF vars, AbstractVars, Clock, Halted, Notice
  <2> QED  BY <2>1, StepImplements
<1>3. Spec => [](TypeOK /\ NotPast)
  BY NotPastHolds
<1> QED
  BY <1>1, <1>2, <1>3, PTL DEF Spec, ImplementsEventSimulation, Queue!Spec, AbstractVars,
     Clock, Halted

-----------------------------------------------------------------------------
(* The runner.                                                             *)

USE RunsAssumption, RowsAssumption

\* The format tells the rows apart.
Distinct == \A i, k \in DOMAIN Rows : Name(i) = Name(k) => i = k

Run(i) == [name |-> Name(i), settings |-> Updated(Defaults, i)]
Empty == [by |-> {}, complete |-> FALSE]

(***************************************************************************)
(* Types.  The dictionary of the configuration is that of the row which    *)
(* was generated last, and nothing is executed before all are generated.   *)
(***************************************************************************)
Types ==
    /\ stage \in {"idle", "generate", "execute"}
    /\ args \in Args
    /\ next \in 1 .. Len(Rows) + 1
    /\ settings = IF next = 1 THEN Defaults ELSE Updated(Defaults, next - 1)
    /\ list \in Seq([name : Names, settings : Given])
    /\ submitted \subseteq DOMAIN list /\ running \subseteq DOMAIN list
    /\ stage # "execute" => submitted = {} /\ running = {}
    /\ files \in [Names -> File \cup {None}]
    /\ invocations \in 0 .. Invocations

\* What was generated are different rows, each with its own settings.
OwnRuns ==
    /\ \A j \in DOMAIN list : \E i \in 1 .. next - 1 : list[j] = Run(i)
    /\ \A j, k \in DOMAIN list : list[j].name = list[k].name => j = k

\* The file of a run that is executed is empty.
Begun == ~args.dryrun => \A j \in running : files[list[j].name] = Empty

\* Without --force a run that has not begun has no file.
Untouched ==
    ~args.dryrun /\ ~args.force =>
        \A j \in DOMAIN list : stage = "generate" \/ j \in submitted => files[list[j].name] = None

RInv == Types /\ OwnRuns /\ Begun /\ Untouched /\ OwnResults

-----------------------------------------------------------------------------
(* The rows.                                                               *)

\* The rows are all combinations, each of them once.
LEMMA RowsType ==
    /\ Cardinality(RowSet) \in Nat
    /\ Rows \in [1 .. Cardinality(RowSet) -> RowSet]
    /\ IsInjective(Rows)
<1> DEFINE n == Cardinality(RowSet)
<1>1. n \in Nat /\ ExistsBijection(1 .. n, RowSet)
  BY FS_CardinalityType
<1>2. \E f \in [1 .. n -> RowSet] : IsInjective(f)
  BY <1>1 DEF ExistsBijection, Bijection, Injection
<1> HIDE DEF n
<1>3. Rows \in [1 .. n -> RowSet] /\ IsInjective(Rows)
  BY <1>2 DEF Rows, SetToSeq, n
<1> QED  BY <1>1, <1>3 DEF n

LEMMA RowsSeq == Rows \in Seq(RowSet) /\ Len(Rows) \in Nat /\ DOMAIN Rows = 1 .. Len(Rows)
<1> DEFINE n == Cardinality(RowSet)
<1>1. n \in Nat /\ Rows \in [1 .. n -> RowSet]
  BY RowsType
<1> HIDE DEF n
<1>2. Rows \in Seq(RowSet)
  BY <1>1
<1> QED  BY <1>2

LEMMA NameOf ==
    ASSUME NEW i \in DOMAIN Rows
    PROVE  Name(i) \in Names /\ Updated(Defaults, i) \in Given /\ Updated(Defaults, i) # None
  BY DEF Names, Given

\* The settings of a row replace all that a row before has set.
LEMMA UpdatedAgain ==
    ASSUME NEW s, NEW i, NEW k
    PROVE  Updated(Updated(s, i), k) = Updated(s, k)
<1>1. DOMAIN Updated(s, i) = DOMAIN s \cup Keys
  BY DEF Updated
<1>2. \A x \in (DOMAIN s \cup Keys) \ Keys : Updated(s, i)[x] = s[x]
  BY DEF Updated
<1> QED  BY <1>1, <1>2 DEF Updated

\* An entry of the list has a file and settings of its own.
LEMMA Entry ==
    ASSUME RInv, NEW j \in DOMAIN list
    PROVE  /\ list[j].name \in Names /\ list[j].settings \in Given
           /\ SettingsOf(j) = list[j].settings
           /\ \E i \in DOMAIN Rows :
                Name(i) = list[j].name /\ list[j].settings = Updated(Defaults, i)
<1>1. list[j] \in [name : Names, settings : Given]
  <2> DEFINE T == [name : Names, settings : Given]
  <2>1. list \in Seq(T)
    BY DEF RInv, Types
  <2> HIDE DEF T
  <2>2. list[j] \in T
    BY <2>1
  <2> QED  BY <2>2 DEF T
<1>2. PICK i \in 1 .. next - 1 : list[j] = Run(i)
  BY DEF RInv, OwnRuns
<1>3. i \in DOMAIN Rows
  BY RowsSeq DEF RInv, Types
<1>4. list[j].settings # None
  BY <1>1
<1> QED  BY <1>1, <1>2, <1>3, <1>4 DEF Run, SettingsOf

LEMMA InitInv == RunsInit => RInv
<1> SUFFICES ASSUME RunsInit PROVE RInv
  OBVIOUS
<1>1. Types
  <2>1. next \in 1 .. Len(Rows) + 1
    BY RowsSeq DEF RunsInit
  <2>2. files \in [Names -> File \cup {None}]
    BY DEF RunsInit
  <2>3. list \in Seq([name : Names, settings : Given]) /\ invocations \in 0 .. Invocations
    BY DEF RunsInit
  <2> QED  BY <2>1, <2>2, <2>3 DEF RunsInit, Types, Args
<1>2. OwnRuns /\ Begun /\ Untouched
  BY DEF RunsInit, OwnRuns, Begun, Untouched
<1>3. OwnResults
  BY DEF RunsInit, OwnResults
<1> QED  BY <1>1, <1>2, <1>3 DEF RInv

-----------------------------------------------------------------------------
(* Generation.                                                             *)

LEMMA SameResults == ASSUME OwnResults, files' = files PROVE OwnResults'
  BY DEF OwnResults

LEMMA InvokeInv == ASSUME RInv, NEW a \in Args, Invoke(a) PROVE RInv'
<1> USE DEF RInv
<1>1. /\ stage = "idle" /\ stage' = "generate" /\ args' = a /\ next' = 1 /\ settings' = Defaults
      /\ list' = <<>> /\ invocations > 0 /\ invocations' = invocations - 1
      /\ UNCHANGED <<submitted, running, files>>
  BY DEF Invoke
<1>2. submitted = {} /\ running = {}
  BY <1>1 DEF Types
<1>3. Types'
  <2>1. next' \in 1 .. Len(Rows) + 1
    BY <1>1, RowsSeq
  <2>2. invocations' \in 0 .. Invocations
    BY <1>1 DEF Types
  <2>3. list' \in Seq([name : Names, settings : Given])
    BY <1>1
  <2> QED  BY <1>1, <1>2, <2>1, <2>2, <2>3 DEF Types
<1>4. OwnRuns' /\ Begun' /\ Untouched'
  BY <1>1, <1>2 DEF OwnRuns, Begun, Untouched
<1> QED  BY <1>1, <1>3, <1>4, SameResults

LEMMA GenerateInv == ASSUME Distinct, RInv, Generate PROVE RInv'
<1> USE DEF RInv
<1> DEFINE run == Kwargs(next, settings')
           T == [name : Names, settings : Given]
<1>1. /\ stage = "generate" /\ next <= Len(Rows) /\ settings' = Updated(settings, next)
      /\ list' = IF Skipped(next) THEN list ELSE Append(list, run)
      /\ next' = next + 1 /\ UNCHANGED <<stage, args, submitted, running, files, invocations>>
  BY DEF Generate
<1>2. submitted = {} /\ running = {} /\ list \in Seq(T) /\ next \in 1 .. Len(Rows) + 1
  BY <1>1 DEF Types
<1>3. next \in DOMAIN Rows /\ next \in Nat /\ next' - 1 = next /\ next' # 1
  BY <1>1, <1>2, RowsSeq
<1>4. settings' = Updated(Defaults, next)
  BY <1>1, UpdatedAgain DEF Types
<1>5. run = Run(next)
  BY <1>4 DEF Kwargs, Run
<1>6. Run(next) \in T
  BY <1>3, NameOf DEF Run
<1>7. \A j \in DOMAIN list : \E i \in 1 .. next - 1 : list[j] = Run(i)
  BY DEF OwnRuns
<1>8. \A j \in DOMAIN list : list[j].name # Name(next)
  <2> SUFFICES ASSUME NEW j \in DOMAIN list, list[j].name = Name(next) PROVE FALSE
    OBVIOUS
  <2>1. PICK i \in 1 .. next - 1 : list[j] = Run(i)
    BY <1>7
  <2>2. i \in DOMAIN Rows /\ i # next
    BY <1>2, <1>3, RowsSeq
  <2>3. Name(i) = Name(next)
    BY <2>1 DEF Run
  <2> QED  BY <1>3, <2>2, <2>3 DEF Distinct
<1> HIDE DEF run
<1>9. CASE list' = list
  <2>1. Types'
    BY <1>1, <1>2, <1>3, <1>4, <1>9, RowsSeq DEF Types
  <2>2. OwnRuns'
    BY <1>2, <1>3, <1>7, <1>9 DEF OwnRuns
  <2>3. Begun' /\ Untouched'
    BY <1>1, <1>2, <1>9 DEF Begun, Untouched
  <2> QED  BY <1>1, <2>1, <2>2, <2>3, SameResults
<1>10. CASE list' = Append(list, run) /\ ~Skipped(next)
  <2>1. /\ list' \in Seq(T) /\ DOMAIN list' = DOMAIN list \cup {Len(list) + 1}
        /\ \A j \in DOMAIN list : list'[j] = list[j]
        /\ list'[Len(list) + 1] = Run(next)
        /\ Len(list) + 1 \notin DOMAIN list
    BY <1>2, <1>5, <1>6, <1>10
  <2>2. Types'
    BY <1>1, <1>2, <1>3, <1>4, <2>1, RowsSeq DEF Types
  <2>3. ASSUME NEW j \in DOMAIN list' PROVE \E i \in 1 .. next' - 1 : list'[j] = Run(i)
    <3>1. CASE j \in DOMAIN list
      BY <1>2, <1>3, <1>7, <2>1, <3>1
    <3>2. CASE j = Len(list) + 1
      BY <1>2, <1>3, <2>1, <3>2
    <3> QED  BY <2>1, <3>1, <3>2
  <2>4. ASSUME NEW j \in DOMAIN list', NEW k \in DOMAIN list', list'[j].name = list'[k].name
        PROVE  j = k
    <3>1. list'[Len(list) + 1].name = Name(next)
      BY <2>1 DEF Run
    <3>2. CASE j \in DOMAIN list /\ k \in DOMAIN list
      BY <2>1, <2>4, <3>2 DEF OwnRuns
    <3> QED  BY <1>8, <2>1, <2>4, <3>1, <3>2
  <2>5. OwnRuns'
    BY <2>3, <2>4 DEF OwnRuns
  <2>6. Begun'
    BY <1>1, <1>2 DEF Begun
  <2>7. Untouched'
    <3> SUFFICES ASSUME ~args.dryrun, ~args.force, NEW j \in DOMAIN list'
                 PROVE  files[list'[j].name] = None
      BY <1>1 DEF Untouched
    <3>1. files[Name(next)] = None
      BY <1>10 DEF Skipped
    <3>2. CASE j \in DOMAIN list
      BY <1>1, <2>1, <3>2 DEF Untouched
    <3>3. CASE j = Len(list) + 1
      BY <2>1, <3>1, <3>3 DEF Run
    <3> QED  BY <2>1, <3>2, <3>3
  <2> QED  BY <1>1, <2>2, <2>5, <2>6, <2>7, SameResults
<1> QED  BY <1>1, <1>9, <1>10

LEMMA SubmitInv == ASSUME RInv, Submit PROVE RInv'
<1> USE DEF RInv
<1>1. /\ stage = "generate" /\ stage' = IF list = <<>> THEN "idle" ELSE "execute"
      /\ submitted' \in {DOMAIN list \cap {1}, DOMAIN list}
      /\ UNCHANGED <<args, next, settings, list, running, files, invocations>>
  BY DEF Submit
<1>2. running = {} /\ (list = <<>> => submitted' = {})
  BY <1>1 DEF Types
<1>3. Types'
  BY <1>1, <1>2 DEF Types
<1>4. OwnRuns' /\ Begun'
  BY <1>1, <1>2 DEF OwnRuns, Begun
<1>5. Untouched'
  BY <1>1 DEF Untouched
<1> QED  BY <1>1, <1>3, <1>4, <1>5, SameResults

\* Everything that was to be executed is given up, and some of it may have ended.
LEMMA GiveUpInv ==
    ASSUME RInv, GenerateFails \/ Break \/ Return \/ Kill PROVE RInv'
<1> USE DEF RInv
<1>1. UNCHANGED <<args, next, settings, list, files, invocations>>
  BY DEF GenerateFails, Break, Return, Kill
<1>2. /\ submitted' = {} /\ running' = {} /\ stage' \in {"idle", "execute"}
  BY DEF GenerateFails, Break, Return, Kill, Types
<1>3. Types'
  BY <1>1, <1>2 DEF Types
<1>4. OwnRuns' /\ Begun' /\ Untouched'
  BY <1>1, <1>2 DEF OwnRuns, Begun, Untouched
<1> QED  BY <1>1, <1>3, <1>4, SameResults

-----------------------------------------------------------------------------
(* Execution.                                                              *)

LEMMA EmptyFile == Empty \in File /\ Empty # None
<1>1. Empty \in File
  BY DEF Empty, File
<1> QED  BY <1>1

\* A run that begins or ends touches its own file only.
LEMMA WritesOwn ==
    ASSUME RInv, NEW j \in DOMAIN list, NEW file, Writes(j, file)
    PROVE  /\ args.dryrun => files' = files
           /\ ~args.dryrun => files'[list[j].name] = file
           /\ \A n \in Names \ {list[j].name} : files'[n] = files[n]
           /\ \A k \in DOMAIN list \ {j} : files'[list[k].name] = files[list[k].name]
<1>1. files \in [Names -> File \cup {None}] /\ list[j].name \in Names
  BY Entry DEF RInv, Types
<1>2. \A k \in DOMAIN list \ {j} : list[k].name \in Names \ {list[j].name}
  BY Entry DEF RInv, OwnRuns
<1>3. /\ args.dryrun => files' = files
      /\ ~args.dryrun => files'[list[j].name] = file
      /\ \A n \in Names \ {list[j].name} : files'[n] = files[n]
  BY <1>1 DEF Writes
<1> QED  BY <1>2, <1>3

LEMMA WritesType ==
    ASSUME RInv, NEW j \in DOMAIN list, NEW file \in File, Writes(j, file)
    PROVE  files' \in [Names -> File \cup {None}]
<1>1. files \in [Names -> File \cup {None}] /\ list[j].name \in Names
  BY Entry DEF RInv, Types
<1> QED  BY <1>1 DEF Writes

LEMMA BeginInv == ASSUME RInv, NEW j \in DOMAIN list, Begin(j) PROVE RInv'
<1> USE DEF RInv
<1>1. /\ stage = "execute" /\ j \in submitted
      /\ submitted' = submitted \ {j} /\ running' = running \cup {j}
      /\ Writes(j, Empty) /\ UNCHANGED <<stage, args, next, settings, list, invocations>>
  BY DEF Begin, Empty
<1>2. Empty \in File
  BY EmptyFile
<1>3. files' \in [Names -> File \cup {None}]
  BY <1>1, <1>2, WritesType
<1>4. Types'
  BY <1>1, <1>3 DEF Types
<1>5. OwnRuns'
  BY <1>1 DEF OwnRuns
<1>6. Begun'
  <2> SUFFICES ASSUME ~args.dryrun, NEW k \in running' PROVE files'[list[k].name] = Empty
    BY <1>1 DEF Begun
  <2>1. CASE k = j
    BY <1>1, <2>1, WritesOwn
  <2>2. CASE k # j
    <3>1. k \in running /\ k \in DOMAIN list
      BY <1>1, <2>2 DEF Types
    <3>2. files[list[k].name] = Empty
      BY <3>1 DEF Begun
    <3> QED  BY <1>1, <2>2, <3>1, <3>2, WritesOwn
  <2> QED  BY <2>1, <2>2
<1>7. Untouched'
  <2> SUFFICES ASSUME ~args.dryrun, ~args.force, NEW k \in submitted'
               PROVE  files'[list[k].name] = None
    BY <1>1 DEF Untouched
  <2>1. k # j /\ k \in submitted /\ k \in DOMAIN list
    BY <1>1 DEF Types
  <2>2. files[list[k].name] = None
    BY <2>1 DEF Untouched
  <2> QED  BY <1>1, <2>1, <2>2, WritesOwn
<1>8. OwnResults'
  <2> SUFFICES ASSUME NEW n \in Names, files'[n] # None, files'[n].complete
               PROVE  \E i \in DOMAIN Rows : Name(i) = n /\ files'[n].by = {Updated(Defaults, i)}
    BY DEF OwnResults
  <2>1. files'[n] = files[n]
    <3>1. ~args.dryrun => n # list[j].name
      BY <1>1, WritesOwn DEF Empty
    <3> QED  BY <1>1, <3>1, WritesOwn
  <2> QED  BY <2>1 DEF OwnResults
<1> QED  BY <1>4, <1>5, <1>6, <1>7, <1>8

LEMMA CompleteInv == ASSUME RInv, NEW j \in DOMAIN list, Complete(j) PROVE RInv'
<1> USE DEF RInv
<1> DEFINE name == list[j].name
           file == [by |-> files[name].by \cup {SettingsOf(j)}, complete |-> TRUE]
<1>1. /\ j \in running /\ running' = running \ {j} /\ Writes(j, file)
      /\ UNCHANGED <<stage, args, next, settings, list, submitted, invocations>>
  BY DEF Complete
<1>2. stage = "execute"
  BY <1>1 DEF Types
<1>3. PICK i \in DOMAIN Rows : Name(i) = name /\ SettingsOf(j) = Updated(Defaults, i)
  BY Entry
<1>4. ~args.dryrun => file.by = {Updated(Defaults, i)}
  BY <1>1, <1>3 DEF Begun, Empty
<1>5. ~args.dryrun => file \in File
  <2> SUFFICES ASSUME ~args.dryrun PROVE file \in File
    OBVIOUS
  <2>1. file.by \in SUBSET Given
    BY <1>4 DEF Given
  <2> QED  BY <2>1 DEF File
<1> HIDE DEF file
<1>6. files' \in [Names -> File \cup {None}]
  <2>1. CASE args.dryrun
    BY <1>1, <2>1, WritesOwn DEF Types
  <2>2. CASE ~args.dryrun
    BY <1>1, <1>5, <2>2, WritesType
  <2> QED  BY <2>1, <2>2
<1>7. Types'
  BY <1>1, <1>2, <1>6 DEF Types
<1>8. OwnRuns'
  BY <1>1 DEF OwnRuns
<1>9. Begun'
  <2> SUFFICES ASSUME ~args.dryrun, NEW k \in running' PROVE files'[list[k].name] = Empty
    BY <1>1 DEF Begun
  <2>1. k \in running /\ k \in DOMAIN list \ {j}
    BY <1>1 DEF Types
  <2>2. files[list[k].name] = Empty
    BY <2>1 DEF Begun
  <2> QED  BY <1>1, <2>1, <2>2, WritesOwn
<1>10. Untouched'
  <2> SUFFICES ASSUME ~args.dryrun, ~args.force, NEW k \in submitted
               PROVE  files'[list[k].name] = None
    BY <1>1, <1>2 DEF Untouched
  <2>1. k \in DOMAIN list /\ files[list[k].name] = None
    BY DEF Untouched, Types
  <2>2. k # j
    BY <1>1, <2>1, EmptyFile DEF Begun
  <2> QED  BY <1>1, <2>1, <2>2, WritesOwn
<1>11. OwnResults'
  <2> SUFFICES ASSUME NEW n \in Names, files'[n] # None, files'[n].complete
               PROVE  \E k \in DOMAIN Rows : Name(k) = n /\ files'[n].by = {Updated(Defaults, k)}
    BY DEF OwnResults
  <2>1. CASE ~args.dryrun /\ n = name
    <3>1. files'[n] = file
      BY <1>1, <2>1, WritesOwn
    <3> QED  BY <1>3, <1>4, <2>1, <3>1
  <2>2. CASE args.dryrun \/ n # name
    <3>1. files'[n] = files[n]
      BY <1>1, <2>2, WritesOwn
    <3> QED  BY <3>1 DEF OwnResults
  <2> QED  BY <2>1, <2>2
<1> QED  BY <1>7, <1>8, <1>9, <1>10, <1>11

LEMMA FailInv == ASSUME RInv, NEW j \in DOMAIN list, Fail(j) PROVE RInv'
<1> USE DEF RInv
<1>1. /\ running' = running \ {j}
      /\ UNCHANGED <<stage, args, next, settings, list, submitted, files, invocations>>
  BY DEF Fail
<1>2. Types' /\ OwnRuns'
  BY <1>1 DEF Types, OwnRuns
<1>3. Begun' /\ Untouched'
  BY <1>1 DEF Begun, Untouched
<1> QED  BY <1>1, <1>2, <1>3, SameResults

LEMMA StepInv == ASSUME Distinct, RInv, [RunsNext]_runVars PROVE RInv'
<1>1. CASE UNCHANGED runVars
  BY <1>1, SameResults DEF runVars, RInv, Types, OwnRuns, Begun, Untouched
<1>2. CASE RunsNext
  BY <1>2, InvokeInv, GenerateInv, SubmitInv, GiveUpInv, BeginInv, CompleteInv, FailInv DEF RunsNext
<1> QED  BY <1>1, <1>2

-----------------------------------------------------------------------------
LEMMA NameAt ==
    ASSUME Len(Rows) > 1, NEW i, NEW key \in Format
    PROVE  /\ key = "count" => Name(i)[key] = i
           /\ key # "count" => Name(i)[key] = Rows[i][key]
<1> DEFINE D == IF Len(Rows) > 1 THEN Format ELSE {}
<1>1. key \in D
  BY Zenon
<1> HIDE DEF D
<1>2. Name(i)[key] = IF key = "count" THEN i ELSE Rows[i][key]
  BY <1>1, Zenon DEF Name, D
<1> QED  BY <1>2, Zenon

\* A format that mentions the number of the run, as the default one does, or every key of
\* the products, tells the rows apart.
THEOREM NamesTellApart ==
    ASSUME "count" \in Format \/ Keys \subseteq Format PROVE Distinct
<1> SUFFICES ASSUME NEW i \in DOMAIN Rows, NEW k \in DOMAIN Rows, Name(i) = Name(k) PROVE i = k
  BY DEF Distinct
<1>1. CASE ~(Len(Rows) > 1)
  <2>1. i \in 1 .. Len(Rows) /\ k \in 1 .. Len(Rows) /\ Len(Rows) \in Nat
    BY RowsSeq
  <2> QED  BY <1>1, <2>1
<1>2. CASE Len(Rows) > 1 /\ "count" \in Format
  <2>1. Name(i)["count"] = i
    BY <1>2, NameAt
  <2>2. Name(k)["count"] = k
    BY <1>2, NameAt
  <2> QED  BY <2>1, <2>2, Zenon
<1>3. CASE Len(Rows) > 1 /\ "count" \notin Format
  <2>1. Rows[i] \in RowSet /\ Rows[k] \in RowSet
    BY RowsType
  <2>2. ASSUME NEW key \in Keys PROVE Rows[i][key] = Rows[k][key]
    <3>1. key \in Format /\ key # "count"
      BY <1>3
    <3>2. Name(i)[key] = Rows[i][key]
      BY <1>3, <3>1, NameAt
    <3>3. Name(k)[key] = Rows[k][key]
      BY <1>3, <3>1, NameAt
    <3> QED  BY <3>2, <3>3, Zenon
  <2>3. Rows[i] = Rows[k]
    BY <2>1, <2>2 DEF RowSet
  <2> QED  BY <2>3, RowsType DEF IsInjective
<1> QED  BY <1>1, <1>2, <1>3

\* Every complete file holds the results of one run, and of the settings its name stands
\* for: the settings a run was generated with do not leak into another one, and no two runs
\* write the same file.  Formats that do not tell the rows apart are excluded.
THEOREM OwnResultsHolds == ASSUME Distinct PROVE RunsSpec => []OwnResults
<1>1. RInv /\ [RunsNext]_runVars => RInv'
  BY StepInv
<1>2. RInv => OwnResults
  BY DEF RInv
<1> QED  BY <1>1, <1>2, InitInv, PTL DEF RunsSpec

\* Complete results outlive every later invocation without --force, wherever it is killed:
\* what is executed was found to have no file, and nobody else has written it since.
THEOREM ResultsKeptHolds == ASSUME Distinct PROVE RunsSpec => ResultsKept
<1>1. RInv /\ [RunsNext]_runVars =>
        [\A n \in Names : files[n] # None /\ files[n].complete /\ files'[n] # files[n]
            => args.force]_runVars
  <2> SUFFICES ASSUME RInv, RunsNext, NEW n \in Names, files[n] # None, files[n].complete,
                      files'[n] # files[n], ~args.force
               PROVE  FALSE
    OBVIOUS
  <2>1. PICK j \in DOMAIN list : Begin(j) \/ Complete(j)
    BY DEF RunsNext, Invoke, Generate, GenerateFails, Submit, Break, Return, Kill, Fail
  <2>2. PICK file : Writes(j, file)
    BY <2>1 DEF Begin, Complete
  <2>3. ~args.dryrun /\ n = list[j].name
    BY <2>2, WritesOwn
  <2>4. CASE Begin(j)
    BY <2>3, <2>4 DEF Begin, RInv, Untouched
  <2>5. CASE Complete(j)
    BY <2>3, <2>5 DEF Complete, RInv, Begun, Empty
  <2> QED  BY <2>1, <2>4, <2>5
<1>2. RInv /\ [RunsNext]_runVars => RInv'
  BY StepInv
<1> QED  BY <1>1, <1>2, InitInv, PTL DEF RunsSpec, ResultsKept

\* The dictionary of settings and what was generated, submitted and written have their types.
THEOREM RunsTypeCorrect == ASSUME Distinct PROVE RunsSpec => []RunsTypeOK
<1>1. RInv /\ [RunsNext]_runVars => RInv'
  BY StepInv
<1>2. RInv => RunsTypeOK
  <2> SUFFICES ASSUME Types PROVE RunsTypeOK
    BY DEF RInv
  <2>1. \A n \in Names : files[n] = None \/ files[n].complete \in BOOLEAN
    BY DEF Types, File
  <2>2. DOMAIN settings = DOMAIN Defaults \/ DOMAIN settings = DOMAIN Defaults \cup Keys
    BY DEF Types, Updated
  <2> QED  BY <2>1, <2>2 DEF Types, RunsTypeOK
<1> QED  BY <1>1, <1>2, InitInv, PTL DEF RunsSpec

=============================================================================
