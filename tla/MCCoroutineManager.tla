------------------------- MODULE MCCoroutineManager -------------------------
(* Instances of CoroutineManager: an agent that registers any subset of the  *)
(* named coroutines.                                                         *)
EXTENDS CoroutineManager, FiniteSets, Naturals

CONSTANTS tcp, mqtt, event, grpc, agent

\* The library's own coroutines and what they inherit.
MCKind == [c \in Coro |-> CASE c = tcp -> "base"
                            [] c = mqtt -> "thread"
                            [] c = event -> "event"
                            [] OTHER -> "grpc"]

\* Bound: an agent registers at most three of them.
AtMostThree == Cardinality(coros) <= 3
=============================================================================
