--------------------------- MODULE GrpcConnection ---------------------------
(***************************************************************************)
(* GRPCConnectionCoroutine (iams/aio/grpc.py): keeps a stream to another   *)
(* agent open.  Its task opens the stream, hands every response to process,*)
(* tells the agent by connect and disconnect, and tries again after an     *)
(* error, until it is stopped.                                             *)
(*                                                                         *)
(* An action is what happens between two awaits.  The data of a response   *)
(* (data, previous) is left out.                                           *)
(***************************************************************************)
EXTENDS Naturals

CONSTANTS
    WaitCap,        \* the longest wait, in units of 0.3 s (15 s)
    CallbackRaises  \* what connect, disconnect and process may raise

ASSUME ConnectionAssumption ==
    /\ WaitCap \in Nat \ {0}
    /\ CallbackRaises \subseteq {"rpc", "error"}

VARIABLES
    stage,      \* what the task awaits, or "none" before it exists and "done" after it
    connected,  \* the flag of the same name
    wait,       \* wait, in units of 0.3 s
    cancelled,  \* the task was cancelled and has not noticed yet
    server,     \* external: the other agent answers
    stopped,    \* history: stop was called after the last effective call of __call__
    asked,      \* history: the last of __call__ and stop was __call__
    announced,  \* history: connect was called and disconnect was not since
    answered    \* history: a response came since the task slept last

ghosts == <<stopped, asked, announced, answered>>
connectionVars ==
    <<stage, connected, wait, cancelled, server, stopped, asked, announced, answered>>

\* connect, process and disconnect are being awaited.
Callbacks == {"connect", "process", "disconnect"}

\* The task is waiting for something that a cancel interrupts.
Interruptible == Callbacks \cup {"stream", "sleep"}

Running == Interruptible \cup {"new", "cleanup"}

ConnectionTypeOK ==
    /\ stage \in Running \cup {"none", "done"}
    /\ connected \in BOOLEAN
    /\ wait \in 0 .. WaitCap
    /\ cancelled \in BOOLEAN /\ server \in BOOLEAN
    /\ stopped \in BOOLEAN /\ asked \in BOOLEAN /\ announced \in BOOLEAN /\ answered \in BOOLEAN
    /\ cancelled => stage \in Running

ConnectionInit ==
    /\ stage = "none"
    /\ connected = FALSE
    /\ wait = 0
    /\ cancelled = FALSE
    /\ server \in BOOLEAN
    /\ stopped = FALSE /\ asked = FALSE /\ announced = FALSE /\ answered = FALSE

-----------------------------------------------------------------------------
(* What the agent calls.                                                   *)

\* __call__ creates the task, if there is none that is not done.
CallCreates ==
    /\ stage \in {"none", "done"}
    /\ stage' = "new"
    /\ stopped' = FALSE
    /\ asked' = TRUE
    /\ UNCHANGED <<connected, wait, cancelled, server, announced, answered>>

CallIgnored ==
    /\ stage \in Running
    /\ asked' = TRUE
    /\ UNCHANGED <<stage, connected, wait, cancelled, server, stopped, announced, answered>>

Stop ==
    /\ stage \in Running
    /\ cancelled' = TRUE
    /\ stopped' = TRUE
    /\ asked' = FALSE
    /\ UNCHANGED <<stage, connected, wait, server, announced, answered>>

\* stop has no effect on a task that is done.
StopIgnored ==
    /\ stage \in {"none", "done"}
    /\ asked' = FALSE
    /\ UNCHANGED <<stage, connected, wait, cancelled, server, stopped, announced, answered>>

ServerChanges ==
    /\ server' = ~server
    /\ UNCHANGED <<stage, connected, wait, cancelled, ghosts>>

-----------------------------------------------------------------------------
(* _main.                                                                  *)

\* The task begins with a wait of its own.
Begins ==
    /\ stage = "new" /\ ~cancelled
    /\ stage' = "stream"
    /\ wait' = 0
    /\ answered' = FALSE
    /\ UNCHANGED <<connected, cancelled, server, stopped, asked, announced>>

\* Faulty variant: connect is called for every response.
Response_Connects ==
    /\ stage = "stream" /\ ~cancelled /\ server
    /\ answered' = TRUE
    /\ connected' = TRUE
    /\ wait' = 0
    /\ announced' = TRUE
    /\ stage' = "connect"
    /\ UNCHANGED <<cancelled, server, stopped, asked>>

\* Faulty variant: the wait is not reset.
Response_KeepsWait ==
    /\ stage = "stream" /\ ~cancelled /\ server
    /\ answered' = TRUE
    /\ connected' = TRUE
    /\ announced' = TRUE
    /\ stage' = IF connected THEN "process" ELSE "connect"
    /\ UNCHANGED <<wait, cancelled, server, stopped, asked>>

\* A response arrives: the first one since the connection was lost resets the wait and
\* calls connect.
Response ==
    /\ stage = "stream" /\ ~cancelled /\ server
    /\ answered' = TRUE
    /\ connected' = TRUE
    /\ \/ /\ connected
          /\ stage' = "process"
          /\ UNCHANGED <<wait, announced>>
       \/ /\ ~connected
          /\ stage' = "connect"
          /\ wait' = 0
          /\ announced' = TRUE
    /\ UNCHANGED <<cancelled, server, stopped, asked>>

\* The server ends the stream: it is opened again at once.
StreamEnds ==
    /\ stage = "stream" /\ ~cancelled /\ server
    /\ UNCHANGED connectionVars

\* connect returns and process is called; process returns and the stream goes on.
CallbackReturns ==
    /\ ~cancelled
    /\ \/ stage = "connect" /\ stage' = "process"
       \/ stage = "process" /\ stage' = "stream"
    /\ UNCHANGED <<connected, wait, cancelled, server, ghosts>>

\* The end of the handler of an RpcError.
Sleep ==
    /\ stage' = "sleep"
    /\ wait' = IF wait < WaitCap THEN wait + 1 ELSE WaitCap

\* An RpcError: disconnect is called if the connection was established.
Fails ==
    \/ /\ connected
       /\ connected' = FALSE
       /\ announced' = FALSE
       /\ stage' = "disconnect"
       /\ UNCHANGED wait
    \/ /\ ~connected
       /\ Sleep
       /\ UNCHANGED <<connected, announced>>

StreamFails ==
    /\ stage = "stream" /\ ~cancelled /\ ~server
    /\ Fails
    /\ UNCHANGED <<cancelled, server, stopped, asked, answered>>

\* A callback's own request to another agent fails; it is taken for an error of the stream.
CallbackRpcError ==
    /\ stage \in {"connect", "process"} /\ ~cancelled /\ "rpc" \in CallbackRaises
    /\ Fails
    /\ UNCHANGED <<cancelled, server, stopped, asked, answered>>

Disconnected ==
    /\ stage = "disconnect" /\ ~cancelled
    /\ Sleep
    /\ UNCHANGED <<connected, cancelled, server, ghosts>>

\* Faulty variant: after the longest wait there is no further attempt.
Wakes_Never ==
    /\ stage = "sleep" /\ ~cancelled /\ wait < WaitCap
    /\ stage' = "stream"
    /\ answered' = FALSE
    /\ UNCHANGED <<connected, wait, cancelled, server, stopped, asked, announced>>

Wakes ==
    /\ stage = "sleep" /\ ~cancelled
    /\ stage' = "stream"
    /\ answered' = FALSE
    /\ UNCHANGED <<connected, wait, cancelled, server, stopped, asked, announced>>

\* Any other exception, or an RpcError out of disconnect, ends the task.
CallbackError ==
    /\ ~cancelled
    /\ \/ stage \in Callbacks /\ "error" \in CallbackRaises
       \/ stage = "disconnect" /\ "rpc" \in CallbackRaises
    /\ stage' = "cleanup"
    /\ UNCHANGED <<connected, wait, cancelled, server, ghosts>>

\* Somebody closes the channel, which cancels the stream: the task takes the
\* CancelledError for its own.
ChannelClosed ==
    /\ stage = "stream" /\ ~cancelled
    /\ stage' = "cleanup"
    /\ UNCHANGED <<connected, wait, cancelled, server, ghosts>>

\* Faulty variant: the cancel is taken for an RpcError.
Interrupted_Retries ==
    /\ stage \in Interruptible /\ cancelled
    /\ cancelled' = FALSE
    /\ Sleep
    /\ UNCHANGED <<connected, server, ghosts>>

\* The task notices the cancel and calls cleanup; connected stays as it is.
Interrupted ==
    /\ stage \in Interruptible /\ cancelled
    /\ stage' = "cleanup"
    /\ cancelled' = FALSE
    /\ UNCHANGED <<connected, wait, server, ghosts>>

\* The task is cancelled before its first step, or while it awaits cleanup.
Dropped ==
    /\ stage \in {"new", "cleanup"} /\ cancelled
    /\ stage' = "done"
    /\ cancelled' = FALSE
    /\ UNCHANGED <<connected, wait, server, ghosts>>

CleanupReturns ==
    /\ stage = "cleanup" /\ ~cancelled
    /\ stage' = "done"
    /\ UNCHANGED <<connected, wait, cancelled, server, ghosts>>

-----------------------------------------------------------------------------
TaskStep ==
    \/ Begins \/ CallbackReturns \/ StreamFails \/ Disconnected
    \/ Wakes \/ Interrupted \/ Dropped \/ CleanupReturns

Environment ==
    \/ Response \/ StreamEnds \/ CallbackRpcError \/ CallbackError \/ ChannelClosed
    \/ ServerChanges

ConnectionNext == CallCreates \/ CallIgnored \/ Stop \/ StopIgnored \/ TaskStep \/ Environment

ConnectionSpec == ConnectionInit /\ [][ConnectionNext]_connectionVars

\* The event loop goes on with a task that is ready, callbacks return some time, and
\* an agent that answers sends a response some time.
FairConnectionSpec ==
    ConnectionSpec /\ WF_connectionVars(TaskStep) /\ WF_connectionVars(Response)

-----------------------------------------------------------------------------
(* Properties.                                                             *)

\* The agent hears of connections and their loss alternately: connect is only called
\* when the last one was followed by disconnect, across errors, stops and restarts.
Alternating == [][/\ stage' = "connect" /\ stage # "connect" => ~announced
                  /\ stage' = "disconnect" /\ stage # "disconnect" => announced]_connectionVars

\* After a connection that was established the first attempt to establish it again is
\* made after the shortest wait, however long the waits were before.
PromptRetry == stage = "sleep" /\ answered => wait = 1

\* A task that is stopped ends, whatever it awaits.
StopEnds == stopped ~> stage = "done"

\* Once the other agent answers for good, the connection is established, unless the task
\* is stopped or an exception ends it.
Reconnects ==
    (<>[]server) => (stage \in Running /\ ~stopped ~> connected \/ stage = "done" \/ stopped)

\* stop "closes the connection and stops the coroutine".
StopDisconnects == stage = "done" /\ stopped => ~connected

\* __call__ "starts the coroutine": after it the coroutine runs until it is stopped
\* or fails.
CallStarts == asked => ~cancelled

=============================================================================
