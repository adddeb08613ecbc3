--------------------------- MODULE SchedulerEvent ---------------------------
(***************************************************************************)
(* The events of a scheduler as values: their times and constraints (ETX), *)
(* their methods and their order (iams/interfaces/scheduler.py), and what  *)
(* the solver may choose for them (iams/utils/scheduler.py).  Times are    *)
(* integers; the variant with datetime objects only differs in units.      *)
(***************************************************************************)
EXTENDS Integers, Sequences

CONSTANTS
    None,        \* an attribute that is not set
    Resolution   \* seconds per step of the solver

ASSUME EventAssumption ==
    /\ None \notin Int
    /\ Resolution \in Nat \ {0}

-----------------------------------------------------------------------------
(* Units: Python's round takes a half to the even neighbour.               *)

Round(value, unit) ==
    LET low == value \div unit
        rest == 2 * (value % unit)
    IN  IF rest < unit \/ (rest = unit /\ low % 2 = 0) THEN low ELSE low + 1

convert_resolution(value) == IF value = None THEN None ELSE Round(value, Resolution)
convert_seconds(value) == value * Resolution

-----------------------------------------------------------------------------
(* States in the order of their values.                                    *)

Rank == [NEW |-> 1, SCHEDULED |-> 2, ARRIVED |-> 3, STARTED |-> 4,
         FINISHED |-> 5, DEPARTED |-> 6, CANCELED |-> 7]
States == DOMAIN Rank
EtaStates == {"NEW", "SCHEDULED", "ARRIVED"}

-----------------------------------------------------------------------------
(* ETX: a time between constraints.                                        *)

Etx(low, time, high) == [low |-> low, time |-> time, high |-> high]

Time == {None} \cup Int
EtxType == [low : Time, time : Time, high : Time]

\* bool(etx)
Bounded(x) == x.low # None /\ x.high # None

\* What __post_init__ and set_constraints accept; the margins are zero.
ValidEtx(x) == Bounded(x) => x.low <= x.high

EtxEq(x, y) == x.time = y.time
EtxLess(x, y) ==
    LET key(z) == IF z.time = None THEN z.low ELSE z.time
    IN  key(x) < key(y)

-----------------------------------------------------------------------------
(* Event.                                                                  *)

\* What an event is made of: the arrival has to be given, the other times are set later.
EventType ==
    [state : States, duration : Int, eta : {x \in EtxType : Bounded(x)}, etd : EtxType,
     schedule_start : Time, schedule_finish : Time,
     activity_start : Time, activity_finish : Time, canceled : BOOLEAN]

\* __post_init__: an event that is given all constraints is an appointment.
NewEvent(kwargs) ==
    [state |-> IF Bounded(kwargs.eta) /\ Bounded(kwargs.etd) THEN "SCHEDULED" ELSE "NEW",
     duration |-> kwargs.duration, eta |-> kwargs.eta, etd |-> kwargs.etd,
     schedule_start |-> None, schedule_finish |-> None,
     activity_start |-> None, activity_finish |-> None, canceled |-> FALSE]

arrive(e, time) ==
    [e EXCEPT !.state = "ARRIVED", !.eta.time = time, !.activity_start = time]

start(e, time) ==
    [e EXCEPT !.state = "STARTED", !.schedule_start = convert_seconds(time)]

finish(e, time) ==
    [e EXCEPT !.state = "FINISHED", !.schedule_finish = convert_seconds(time)]

depart(e, time) ==
    [e EXCEPT !.state = "DEPARTED", !.etd.time = time, !.activity_finish = time]

cancel(e) ==
    [e EXCEPT !.state = IF @ \in {"NEW", "SCHEDULED", "DEPARTED"} THEN "CANCELED" ELSE @,
              !.canceled = TRUE]

\* The state is set to SCHEDULED whatever it was.
Rescheduled(e) ==
    IF Bounded(e.eta) /\ Bounded(e.etd) THEN [e EXCEPT !.state = "SCHEDULED"] ELSE e

\* Without an upper bound it is the lower one, the margins being zero.
Bounds(x, lower, upper) ==
    [x EXCEPT !.low = lower, !.high = IF upper = None THEN lower ELSE upper]

schedule_eta(e, lower, upper) == Rescheduled([e EXCEPT !.eta = Bounds(@, lower, upper)])
schedule_etd(e, lower, upper) == Rescheduled([e EXCEPT !.etd = Bounds(@, lower, upper)])

get_start(e) == convert_resolution(e.schedule_start)
get_finish(e) == convert_resolution(e.schedule_finish)

\* iter(event): a time of zero counts as not set.
Times(e) ==
    {e.activity_start, e.schedule_start, e.schedule_finish, e.activity_finish} \ {None, 0}

\* event < other, with the numbers of the two events.
Less(e, i, f, j) ==
    IF e.state \in EtaStates /\ f.state \in EtaStates
    THEN \/ ~EtxEq(e.eta, f.eta) /\ EtxLess(e.eta, f.eta)
         \/ EtxEq(e.eta, f.eta) /\ e.duration < f.duration
         \/ EtxEq(e.eta, f.eta) /\ e.duration = f.duration /\ i < j
    ELSE Rank[f.state] < Rank[e.state]

-----------------------------------------------------------------------------
(* What the solver may choose.  A window is a pair of bounds, None is open. *)

Fixed(value) == <<value, value>>
Open == <<0, None>>

\* eta_constraints and etd_constraints: the upper bound is computed from the lower one,
\* which is in steps of the solver already and is converted a second time.
Constraints(x) ==
    LET low == convert_resolution(x.low)
    IN  <<low, IF x.high = None THEN None ELSE convert_resolution(low)>>

\* The windows of the times of an event and of the lengths of its three intervals: the
\* waits before (iqt) and after (oqt) the processing, and the processing itself.
\* makespan: what the event demands of the time range of the plan.
\* The parameters are the event and what it is made of, in steps of the solver.
Windows(e, duration, arrival, eta, begin, end, departure, etd) ==
    LET since(time) == <<IF departure[1] = None THEN time ELSE departure[1], departure[2]>>
        processing == IF e.canceled THEN <<0, duration>> ELSE Fixed(duration)
    IN  CASE e.state \in {"NEW", "SCHEDULED"} ->
                [eta |-> arrival, start |-> <<arrival[2], departure[1]>>,
                 finish |-> <<arrival[2], departure[1]>>, etd |-> departure,
                 iqt |-> Open, duration |-> Fixed(duration), oqt |-> Open,
                 makespan |-> <<arrival[1], departure[2]>>]
          [] e.state = "ARRIVED" ->
                [eta |-> Fixed(eta), start |-> <<eta, departure[2]>>,
                 finish |-> <<eta, departure[2]>>, etd |-> since(eta),
                 iqt |-> Open, duration |-> processing, oqt |-> Fixed(0),
                 makespan |-> <<eta, departure[2]>>]
          [] e.state = "STARTED" ->
                [eta |-> Fixed(eta), start |-> Fixed(begin),
                 finish |-> Fixed(begin + duration), etd |-> since(begin),
                 iqt |-> Fixed(begin - eta), duration |-> processing, oqt |-> Open,
                 makespan |-> <<eta, departure[2]>>]
          \* without an arrival: the plan of what is over has no first wait
          [] e.state = "FINISHED" ->
                [eta |-> Fixed(begin), start |-> Fixed(begin),
                 finish |-> Fixed(end), etd |-> since(end),
                 iqt |-> Fixed(0), duration |-> Fixed(end - begin), oqt |-> Open,
                 makespan |-> <<begin, departure[2]>>]
          [] e.state = "DEPARTED" ->
                [eta |-> Fixed(begin), start |-> Fixed(begin),
                 finish |-> Fixed(end), etd |-> Fixed(etd),
                 iqt |-> Fixed(0), duration |-> Fixed(end - begin), oqt |-> Fixed(etd - end),
                 makespan |-> <<begin, etd>>]

get_variables(e) ==
    Windows(e, convert_resolution(e.duration),
            Constraints(e.eta), convert_resolution(e.eta.time),
            convert_resolution(get_start(e)), convert_resolution(get_finish(e)),
            Constraints(e.etd), convert_resolution(e.etd.time))

\* get_variables raises: a time it needs is not there, or the state is CANCELED.
Raises(e) ==
    \/ e.state = "ARRIVED" /\ e.eta.time = None
    \/ e.state = "STARTED" /\ None \in {e.eta.time, e.schedule_start}
    \/ e.state = "FINISHED" /\ None \in {e.schedule_start, e.schedule_finish}
    \/ e.state = "DEPARTED" /\ None \in {e.schedule_start, e.schedule_finish, e.etd.time}
    \/ e.state = "CANCELED"
    \/ e.state # "DEPARTED" /\ e.etd.low = None /\ e.etd.high # None

=============================================================================
