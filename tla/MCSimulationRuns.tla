-------------------------- MODULE MCSimulationRuns --------------------------
(* Instances of SimulationRuns: two products, one of which replaces a default. *)
EXTENDS SimulationRuns

TwoProducts == [a |-> {1, 2}, b |-> {1, 2}]
TheDefaults == [a |-> 0, c |-> 0]

ByKey == {"a"}
ByKeys == {"a", "b"}
=============================================================================
