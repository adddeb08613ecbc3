------------------------- MODULE MCBufferScheduler -------------------------
(***************************************************************************)
(* Events for the scheduler.                                               *)
(***************************************************************************)
EXTENDS BufferScheduler

\* eta=t, eta=[a, b]: as Event.__post_init__ converts them.
At(t) == Etx(t, t, t)
Between(a, b) == Etx(a, None, b)
Never == Etx(None, None, None)

Arrivals(times) == {[duration |-> d, eta |-> At(t), etd |-> Never] : d \in {1, 2}, t \in times}

\* An arrival that takes long, and an appointment.
Mixed == {[duration |-> 2, eta |-> At(1), etd |-> Never],
          [duration |-> 1, eta |-> Between(1, 2), etd |-> At(3)]}
Early == Arrivals({0, 1})
\* An appointment, and an arrival that takes less time.
Appointments == {[duration |-> 2, eta |-> At(1), etd |-> At(3)],
                 [duration |-> 1, eta |-> Between(1, 2), etd |-> Never]}
\* Times that need no rounding if a step of the solver is two seconds.
Even == {[duration |-> 2, eta |-> At(0), etd |-> Never],
         [duration |-> 4, eta |-> At(0), etd |-> Never],
         [duration |-> 2, eta |-> Between(2, 4), etd |-> Never]}

=============================================================================
