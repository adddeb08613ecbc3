--------------------------- MODULE AgentLifecycle ---------------------------
(***************************************************************************)
(* What an agent process promises to those who look at it from outside: it *)
(* boots, serves while coroutines enter and leave their loops, stops, and  *)
(* is down.  A stopping agent never serves again, nothing but a coroutine  *)
(* that may be late enters its loop then, and an agent that says it went   *)
(* down in order has left no coroutine behind.  CoroutineManager           *)
(* implements it.                                                          *)
(***************************************************************************)
CONSTANTS
    Coro,
    Late       \* coroutines that may enter their loop while the agent stops

VARIABLES
    stage,     \* boot, serve, stop or down
    serving,   \* coroutines between the first step of loop and the end of stop
    outcome    \* how the agent went down

lifecycleVars == <<stage, serving, outcome>>

TypeOK ==
    /\ stage \in {"boot", "serve", "stop", "down"}
    /\ serving \subseteq Coro
    /\ outcome \in {"none", "failed", "orderly", "timeout", "aborted"}

Init == stage = "boot" /\ serving = {} /\ outcome = "none"

\* No task to set up, or a setup failed while another one was pending.
BootFailed ==
    /\ stage = "boot"
    /\ stage' = "down" /\ outcome' = "failed"
    /\ UNCHANGED serving

Serve == stage = "boot" /\ stage' = "serve" /\ UNCHANGED <<serving, outcome>>

Enter(c) ==
    /\ stage = "serve" \/ (stage = "stop" /\ c \in Late)
    /\ serving' = serving \cup {c}
    /\ UNCHANGED <<stage, outcome>>

Leave(c) ==
    /\ stage \in {"serve", "stop"}
    /\ c \in serving
    /\ serving' = serving \ {c}
    /\ UNCHANGED <<stage, outcome>>

Close == stage = "serve" /\ stage' = "stop" /\ UNCHANGED <<serving, outcome>>

\* Coroutines are abandoned only after the timeout, or when one that was still starting
\* has left main by its CancelledError.
GoDown ==
    /\ stage = "stop"
    /\ stage' = "down"
    /\ outcome' \in {"orderly", "timeout", "aborted"}
    /\ outcome' = "orderly" => serving = {}
    /\ UNCHANGED serving

Next ==
    \/ BootFailed \/ Serve \/ Close \/ GoDown
    \/ \E c \in Coro : Enter(c) \/ Leave(c)

Spec == Init /\ [][Next]_lifecycleVars
=============================================================================
