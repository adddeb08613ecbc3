------------------------- MODULE MCSimulationKernel -------------------------
(* Instances of SimulationKernel.  Three events are enough for two of them to*)
(* tie while a third one is running; the delays make ties between an event   *)
(* scheduled early and one scheduled late possible.                          *)
EXTENDS SimulationKernel

CONSTANTS a1, a2

NormalAndHigh == {3, 5}
ForwardDelays == {0, 1, 2}
AnyDelays == {-1, 0, 1}
=============================================================================
