--------------------------- MODULE BufferScheduler ---------------------------
(***************************************************************************)
(* The scheduler of an agent with input and output buffers                 *)
(* (SchedulerInterface in iams/interfaces/scheduler.py, BufferScheduler in *)
(* iams/utils/scheduler.py).  Every request makes a constraint problem of  *)
(* the registered events, and writes the optimum the solver finds back to  *)
(* them.  The agent reports arrivals, starts, ends and departures with the *)
(* time of its clock; the scheduler itself knows no clock.                 *)
(***************************************************************************)
EXTENDS SchedulerEvent, SequencesExt

CONSTANTS
    Kwargs,        \* what events are created with
    MaxEvents,     \* bound on the events created
    MinClock,      \* what the agent's clock starts with
    MaxClock,      \* bound on the agent's clock
    MaxRegistered, \* bound on the registered events
    MaxSaved,      \* bound on the registrations of one event
    Horizon,       \* horizon, in steps of the solver
    BufferInput, BufferOutput,
    Changed,       \* the events the agent cancels or gives other dates
    Dates          \* these dates

ASSUME SchedulerAssumption ==
    /\ Kwargs \subseteq [duration : Int, eta : EtxType, etd : EtxType]
    /\ \A k \in Kwargs : Bounded(k.eta) /\ ValidEtx(k.eta) /\ ValidEtx(k.etd)
    /\ MaxEvents \in Nat /\ MaxRegistered \in Nat /\ MaxSaved \in Nat
    /\ MinClock \in Nat /\ MaxClock \in Nat
    /\ Horizon \in Nat
    /\ BufferInput \in Nat \ {0} /\ BufferOutput \in Nat \ {0}
    /\ Changed \subseteq Nat /\ Dates \subseteq Int

VARIABLES
    event,       \* the events created, by number
    events,      \* the registered ones, in the order of their registration
    max_horizon, \* the latest time any plan so far had to reach
    clock,       \* the agent's clock
    saved,       \* ghost: how often each event was registered
    removed,     \* ghost: how often cleanup was called for each event
    answer       \* ghost: the last request and what came of it

vars == <<event, events, max_horizon, clock, saved, removed, answer>>

Number == 1 .. MaxEvents
Created == DOMAIN event
Registered == ToSet(events)

Calls == {"save", "can_schedule", "validate"}
NoAnswer == [call |-> "none", new |-> {}, result |-> "none"]
Answer(call, new, result) == [call |-> call, new |-> new, result |-> result]

Init ==
    /\ event = <<>>
    /\ events = <<>>
    /\ max_horizon = Horizon
    /\ clock = MinClock
    /\ saved = [i \in Number |-> 0]
    /\ removed = [i \in Number |-> 0]
    /\ answer = NoAnswer

\* How often i is in a sequence, and what of a sequence is in S, in its order.
Occurrences(s, i) == Cardinality({k \in DOMAIN s : s[k] = i})

Restricted(s, S) ==
    LET keep == {k \in DOMAIN s : s[k] \in S}
    IN  [n \in 1 .. Cardinality(keep) |->
            s[CHOOSE k \in keep : Cardinality({j \in keep : j <= k}) = n]]

-----------------------------------------------------------------------------
(* get_events: the departed and canceled events are removed, unless they   *)
(* overlap with the others.                                                *)

Over(i) == event[i].state \in {"DEPARTED", "CANCELED"}
Live == {i \in Registered : ~Over(i)}

\* All times of the live events; nothing, if one of these has none.
LiveTimes ==
    IF \E i \in Live : Times(event[i]) = {} THEN {} ELSE UNION {Times(event[i]) : i \in Live}

\* Faulty variant: nothing that is over is kept.
Overlaps_Never(i) == FALSE

Overlaps(i) ==
    LET e == event[i]
    IN  /\ None \notin {e.activity_start, e.activity_finish}
        /\ \E time \in LiveTimes : time < e.activity_finish
        /\ \E time \in LiveTimes : e.activity_start < time

Kept == {i \in Registered : Over(i) /\ Overlaps(i)}

\* Faulty variant: what has ended is dropped as well.
Dropped_Finished == {i \in Registered : (Over(i) \/ event[i].state = "FINISHED") /\ ~Overlaps(i)}

Dropped == {i \in Registered : Over(i) /\ ~Overlaps(i)}

\* What one pass of the generator removes.  It is consumed while the variables of the
\* events are collected: an exception there leaves the rest registered.
Swept ==
    LET fatal(i) == Raises(event[i])
        before == SelectInSeq(events, LAMBDA i : i \in Kept /\ fatal(i))
    IN  IF \E i \in Live : fatal(i) THEN {}
        ELSE IF before = 0 THEN Dropped
        ELSE {i \in Dropped : \E k \in 1 .. before - 1 : events[k] = i}

Candidates(new) == Live \cup Kept \cup new

-----------------------------------------------------------------------------
(* get_event_variables: the time range of the plan.                        *)

Spans(C) == {get_variables(event[i]).makespan : i \in C}

\* simulation minimum and maximum
TimeRange(spans) ==
    LET mins == {s[1] : s \in spans} \ {None}
        maxs == {s[2] : s \in spans} \ {None}
        short == Max(maxs) - Min(mins) < Horizon
        noneMin == \E s \in spans : s[1] = None
        noneMax == \E s \in spans : s[2] = None
        slack == Round(Horizon - (Max(maxs) - Min(mins)), 2)
    IN  CASE mins = {} /\ maxs = {} -> <<0, Horizon>>
          [] mins # {} /\ maxs = {} -> <<Min(mins), Max(mins) + Horizon>>
          [] mins = {} /\ maxs # {} -> <<Min(maxs) - Horizon, Max(maxs)>>
          [] mins # {} /\ maxs # {} ->
                CASE short /\ noneMin /\ noneMax -> <<Min(mins) - slack, Max(maxs) + slack>>
                  [] short /\ noneMin /\ ~noneMax -> <<Max(maxs) - Horizon, Max(maxs)>>
                  [] short /\ ~noneMin /\ noneMax -> <<Min(mins), Min(mins) + Horizon>>
                  [] OTHER -> <<Min(mins), Max(maxs)>>

Makespan(C) == TimeRange(Spans(C))

-----------------------------------------------------------------------------
(* build_model: the plans of one event, and how those of all fit together. *)

\* A window in the time range first .. last.
Within(window, first, last) ==
    (IF window[1] = None THEN first ELSE window[1]) ..
    (IF window[2] = None THEN last ELSE window[2])

PlansIn(v, first, last) ==
    LET size(window) == Within(window, 0, last - first) \cap Nat
        plan(begin, wait, length, rest) ==
            [eta |-> begin - wait, start |-> begin,
             finish |-> begin + length, etd |-> begin + length + rest]
    IN  {p \in {plan(begin, wait, length, rest) :
                    begin \in Within(v.start, first, last), wait \in size(v.iqt),
                    length \in size(v.duration), rest \in size(v.oqt)} :
            /\ p.eta \in Within(v.eta, first, last)
            /\ p.finish \in Within(v.finish, first, last)
            /\ p.etd \in Within(v.etd, first, last)}

PlansOf(i, first, last) == PlansIn(get_variables(event[i]), first, last)

\* sorted(events): a stable sort by insertion.  The keys of a dictionary: no event twice.
\* An event goes behind the last one that it is not less than.
Place(s, i) == {k \in DOMAIN s : ~Less(event[i], i, event[s[k]], s[k])}
Insert(s, i) ==
    IF i \in ToSet(s) THEN s ELSE InsertAt(s, Max({0} \cup Place(s, i)) + 1, i)

Waiting(C) == {i \in C : event[i].state \in EtaStates}

\* The queue of the first n events that come, for each n.
Queues(coming) ==
    LET queue[n \in 0 .. Len(coming)] ==
            IF n = 0 THEN <<>> ELSE Insert(queue[n - 1], coming[n])
    IN  queue

Queue(C, new) ==
    LET coming == Restricted(events \o SetToSeq(new), Waiting(C))
    IN  Queues(coming)[Len(coming)]

\* At most capacity of the intervals contain any one time.
Cumulative(intervals, capacity) ==
    \A s \in intervals :
        Cardinality({t \in intervals : t.from <= s.from /\ s.from < t.to}) <= capacity

Interval(i, from, to) == [of |-> i, from |-> from, to |-> to]

\* Faulty variant: the input buffer has no limit.
Fits_NoInput(plan, C) ==
    /\ Cumulative({Interval(i, plan[i].start, plan[i].finish) : i \in C}, 1)
    /\ Cumulative({Interval(i, plan[i].finish, plan[i].etd) : i \in C}, BufferInput)

\* Both buffers have the capacity of the input buffer.
Fits(plan, C) ==
    /\ Cumulative({Interval(i, plan[i].eta, plan[i].start) : i \in C}, BufferInput)
    /\ Cumulative({Interval(i, plan[i].start, plan[i].finish) : i \in C}, 1)
    /\ Cumulative({Interval(i, plan[i].finish, plan[i].etd) : i \in C}, BufferInput)

NoOvertakingIn(plan, queue) ==
    \A k \in 1 .. Len(queue) - 1 :
        /\ plan[queue[k]].eta <= plan[queue[k + 1]].eta
        /\ plan[queue[k]].start <= plan[queue[k + 1]].start

\* All combinations of the plans of the events.
Combinations(own) ==
    {plan \in [DOMAIN own -> UNION {own[i] : i \in DOMAIN own}] :
        \A i \in DOMAIN own : plan[i] \in own[i]}

Possible(plans, queue, C) == {p \in plans : NoOvertakingIn(p, queue) /\ Fits(p, C)}

Solutions(C, new, first, last) ==
    Possible(Combinations([i \in C |-> PlansOf(i, first, last)]), Queue(C, new), C)

Cost(plan) == SumFunction([i \in DOMAIN plan |-> plan[i].etd])

\* optimize_model: the solver (external) returns one of the best plans.
Optimal(plans) == {p \in plans : \A q \in plans : Cost(p) <= Cost(q)}

-----------------------------------------------------------------------------
(* What is written back.                                                   *)

Plan(e, p) ==
    LET begin == convert_seconds(p.start)
        end == convert_seconds(p.finish)
    IN  CASE e.state = "NEW" ->
                [e EXCEPT !.eta.time = convert_seconds(p.eta), !.schedule_start = begin,
                          !.schedule_finish = end, !.etd.time = convert_seconds(p.etd)]
          [] e.state \in {"SCHEDULED", "ARRIVED"} ->
                [e EXCEPT !.schedule_start = begin, !.schedule_finish = end]
          [] e.state = "STARTED" -> [e EXCEPT !.schedule_finish = end]
          [] OTHER -> e

Cleanup(gone) ==
    removed' = [i \in Number |-> removed[i] + IF i \in gone THEN Occurrences(events, i) ELSE 0]

Remaining(gone) == Restricted(events, Registered \ gone)

\* optimize_model with the plans the solver chooses from.
Optimize(call, new, C, plans, gone) ==
    \/ /\ plans = {}
       /\ events' = Remaining(gone)
       /\ answer' = Answer(call, new, "refused")
       /\ UNCHANGED <<event, saved>>
    \/ \E plan \in Optimal(plans) :
       /\ event' = [i \in Created |-> IF i \in C THEN Plan(event[i], plan[i]) ELSE event[i]]
       /\ events' = Remaining(gone) \o (IF call = "save" THEN SetToSeq(new) ELSE <<>>)
       /\ saved' = [i \in Number |-> saved[i] + IF call = "save" /\ i \in new THEN 1 ELSE 0]
       /\ answer' = Answer(call, new, "ok")

\* build_model and optimize_model for a time range.
Build(call, new, C, first, last, gone) ==
    /\ max_horizon' = last
    /\ Optimize(call, new, C, Solutions(C, new, first, last), gone)

\* solve_model for the events in C, from which those in gone were swept.
SolveModel(call, new, C, span, gone) ==
    /\ Cleanup(gone)
    /\ UNCHANGED clock
    /\ \/ /\ \E i \in C : Raises(event[i])
          /\ events' = Remaining(gone)
          /\ answer' = Answer(call, new, "error")
          /\ UNCHANGED <<event, max_horizon, saved>>
       \/ /\ ~\E i \in C : Raises(event[i])
          /\ Build(call, new, C, span[1], Max({max_horizon, span[2]}), gone)

\* A request, with the events in new besides the registered ones.
Solve(call, new) ==
    SolveModel(call, new, Candidates(new), Makespan(Candidates(new)), Swept)

-----------------------------------------------------------------------------
(* The agent.  It saves an event before it reports anything of it, and     *)
(* reports the states of an event in their order.                          *)

\* scheduler(**kwargs).  It touches nothing but the counter: all are created first, when
\* they are saved is what matters.
Create(kwargs) ==
    /\ Len(event) < MaxEvents
    /\ clock = MinClock /\ events = <<>>
    /\ event' = Append(event, NewEvent(kwargs))
    /\ answer' = NoAnswer
    /\ UNCHANGED <<events, max_horizon, clock, saved, removed>>

Unsaved(i) == event[i].state \in {"NEW", "SCHEDULED"} /\ i \notin Registered

save(i) ==
    /\ Unsaved(i) /\ saved[i] < MaxSaved /\ Len(events) < MaxRegistered
    /\ Solve("save", {i})
can_schedule(i) == Unsaved(i) /\ Solve("can_schedule", {i})
validate == Solve("validate", {})

\* The agent calls a method of an event.
Report(i, e) ==
    /\ event' = [event EXCEPT ![i] = e]
    /\ answer' = NoAnswer
    /\ UNCHANGED <<events, max_horizon, clock, saved, removed>>

Arrive(i) ==
    /\ i \in Registered /\ event[i].state \in {"NEW", "SCHEDULED"}
    /\ Report(i, arrive(event[i], clock))
Start(i) == event[i].state = "ARRIVED" /\ Report(i, start(event[i], clock))
Finish(i) == event[i].state = "STARTED" /\ Report(i, finish(event[i], clock))
Depart(i) == event[i].state = "FINISHED" /\ Report(i, depart(event[i], clock))
Cancel(i) == ~event[i].canceled /\ Report(i, cancel(event[i]))

\* The agent makes an appointment for the departure, or moves the arrival.
Appoint(i, time) == Report(i, schedule_etd(event[i], time, None))
Move(i, time) == Report(i, schedule_eta(event[i], time, None))

Tick ==
    /\ clock < MaxClock
    /\ clock' = clock + 1
    /\ answer' = NoAnswer
    /\ UNCHANGED <<event, events, max_horizon, saved, removed>>

Next ==
    \/ \E kwargs \in Kwargs : Create(kwargs)
    \/ \E i \in Created :
        \/ save(i) \/ can_schedule(i)
        \/ Arrive(i) \/ Start(i) \/ Finish(i) \/ Depart(i)
    \/ \E i \in Created \cap Changed :
        \/ Cancel(i)
        \/ \E time \in Dates : Appoint(i, time) \/ Move(i, time)
    \/ validate \/ Tick

Spec == Init /\ [][Next]_vars

-----------------------------------------------------------------------------
(* Properties.                                                             *)

TypeOK ==
    /\ event \in Seq(EventType) /\ Created \subseteq Number
    /\ events \in Seq(Created)
    /\ max_horizon \in Int /\ clock \in Nat
    /\ saved \in [Number -> Nat] /\ removed \in [Number -> Nat]
    /\ answer \in [call : Calls \cup {"none"}, new : SUBSET Created,
                   result : {"none", "ok", "refused", "error"}]

\* The events a request has just planned.
Planned == Live \cup answer.new
Processing(e) == e.schedule_start .. e.schedule_finish - 1
Arrival(e) == IF e.state = "ARRIVED" THEN e.eta.time ELSE e.eta.low

\* After every successful request all live events have a plan that can be carried out:
\* one event is processed at a time, nobody who arrives later starts earlier, and the
\* input buffer holds those who wait, whatever has really happened to the others so far.
PlanFeasible ==
    answer.result = "ok" =>
        /\ \A i, j \in Planned :
            i # j => Processing(event[i]) \cap Processing(event[j]) = {}
        /\ \A i, j \in Waiting(Planned) :
            Arrival(event[i]) < Arrival(event[j]) =>
                event[i].schedule_start <= event[j].schedule_start
        /\ \A i \in Waiting(Planned) :
            Cardinality({j \in Waiting(Planned) :
                            /\ Arrival(event[j]) <= Arrival(event[i])
                            /\ Arrival(event[i]) < event[j].schedule_start}) <= BufferInput

\* "after finishing up, the start times in queue should not be changed": an event that
\* waits is not planned into the time in which another one was processed, after that one
\* has departed, as long as their stays overlap.
PlansAroundDeparted ==
    [][answer'.result = "ok" =>
        \A w, d \in Registered :
          LET known == {event[w].activity_start, event[w].schedule_finish} \ {None}
          IN
            /\ event[w].state = "ARRIVED" /\ ~event[w].canceled
            /\ event[d].state = "DEPARTED"
            /\ event[w].activity_start < event[d].activity_finish
            /\ event[d].activity_start < Max(known)
            => Processing(event'[w]) \cap Processing(event[d]) = {}]_vars

\* No registered event gets lost: each one is still there or cleanup was called for it,
\* and that only while it had departed or was canceled.
NeverForgotten ==
    [][\A i \in Created :
        /\ saved'[i] = removed'[i] + Occurrences(events', i)
        /\ removed'[i] # removed[i] => Over(i)]_vars

\* "Returns True if an event can be scheduled": then it is scheduled when it is saved next.
CanScheduleMeansSave ==
    [][answer.call = "can_schedule" /\ answer.result = "ok"
        /\ answer'.call = "save" /\ answer'.new = answer.new
            => answer'.result = "ok"]_vars

\* "Returns True if the scheduler's state is valid": a plan just made is valid.
StaysValid ==
    [][answer.call = "save" /\ answer.result = "ok" /\ answer'.call = "validate"
            => answer'.result = "ok"]_vars

\* A request of an agent that reports in order is answered, it does not raise.
Answered == answer.result # "error"

\* "eta_min eta eta_max": the bounds of an arrival are in this order, for the solver too.
BoundsInOrder ==
    \A i \in Created : Constraints(event[i].eta)[1] <= Constraints(event[i].eta)[2]

\* The output buffer holds those who are done, once they are planned.
OutputBufferHolds ==
    answer.result = "ok" =>
        \A i \in Planned :
            event[i].etd.time # None =>
                Cardinality({j \in Planned :
                                /\ event[j].etd.time # None
                                /\ event[j].schedule_finish <= event[i].schedule_finish
                                /\ event[i].schedule_finish < event[j].etd.time}) <= BufferOutput

=============================================================================
