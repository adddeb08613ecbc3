--------------------------- MODULE OpcuaCoroutine ---------------------------
(***************************************************************************)
(* OPCUACoroutine (iams/aio/opcua.py): the start and the call task of the  *)
(* manager, which never run at the same time, callbacks of the client that *)
(* call stop when the server shuts down, and tasks of the agent that       *)
(* subscribe and look up nodes over the same connection.                   *)
(*                                                                         *)
(* The client (asyncua) is external: on a connection that is lost or       *)
(* closed check_connection raises, and disconnect, whether it returns or   *)
(* raises, leaves the connection closed; that the client itself hands a    *)
(* cancel on is assumed.                                                   *)
(*                                                                         *)
(* A cancel that wait_for loses on interpreters before Python 3.12 has met *)
(* the end of a wait for _stop; the check that follows raises then, so the *)
(* loss changes nothing and is left out.                                   *)
(***************************************************************************)
EXTENDS Naturals, Sequences

CONSTANTS
    Callbacks,  \* tasks of the client that report the status BadShutdown
    MaxWait,    \* longest wait between two attempts to connect, 60 in the code
    Callers,    \* tasks of the agent, each of which subscribes or looks up a node once
    Intervals,  \* of subscriptions
    Names,      \* of nodes
    Paths,      \* of nodes; a node is known by its path
    None

ASSUME OpcuaAssumption == MaxWait \in Nat \ {0} /\ None \notin Paths

VARIABLES
    call,       \* where the start task or, after it, the call task is
    wait,       \* seconds until the next attempt to connect
    callback,   \* where the callbacks are
    stop,       \* the event _stop
    client,     \* the connection of the client
    server,     \* does the server accept connections?
    cancelled,  \* the manager has cancelled the coroutine, which has not noticed yet
    cancels,    \* was it ever cancelled?
    subscriptions,  \* the index of the subscription for every interval
    created,        \* the interval of every subscription that the server has
    nodes,          \* the node cached for every name
    paths,          \* the paths that are cached
    caller          \* the local variables of the callers

connection == <<call, wait, callback, stop, client, server, cancelled, cancels>>
requests == <<subscriptions, created, nodes, paths, caller>>
vars == <<connection, requests>>

Starting == {"connect", "sleep", "hook"}
\* Both tasks may await disconnect: the loop, and __call__ after a CancelledError.
Looping == {"wait", "check", "disconnect", "disconnect again"}
Ended == {"ended", "failed"}

Init ==
    /\ call = "connect" /\ wait = 0
    /\ callback = [c \in Callbacks |-> "idle"]
    /\ stop = FALSE
    /\ client = "new"
    /\ server \in BOOLEAN
    /\ cancelled = FALSE /\ cancels = FALSE
    /\ subscriptions = [i \in Intervals |-> None] /\ created = <<>>
    /\ nodes = [n \in Names |-> None] /\ paths = {}
    /\ caller = [c \in Callers |-> [pc |-> "idle"]]

-----------------------------------------------------------------------------
(* start.                                                                  *)

Go(from, to) ==
    /\ call = from
    /\ call' = to
    /\ UNCHANGED <<wait, callback, server, cancelled, cancels>>

Connects ==
    /\ server
    /\ Go("connect", "hook")
    /\ client' = "open"
    /\ UNCHANGED stop

\* Refused, not answered in time, or not known by name.
Refused ==
    /\ call = "connect"
    /\ call' = "sleep"
    /\ wait' = IF wait < MaxWait THEN wait + 1 ELSE MaxWait
    /\ UNCHANGED <<callback, stop, client, server, cancelled, cancels>>

Retry == Go("sleep", "connect") /\ UNCHANGED <<stop, client>>

\* Any other error of connect, or one of the agent's opcua_start.
StartFails ==
    /\ Go("connect", "failed") \/ Go("hook", "failed")
    /\ UNCHANGED <<stop, client>>

Started == Go("hook", "wait") /\ UNCHANGED <<stop, client>>

-----------------------------------------------------------------------------
(* stop.                                                                   *)

\* Faulty variant: the event is set before the connection is closed.
StopBegins_Sets(pc) ==
    /\ call' = IF stop THEN "ended" ELSE pc
    /\ stop' = TRUE

\* stop, called by the call task: who finds the event set does not wait for anything.
StopBegins(pc) ==
    /\ call' = IF stop THEN "ended" ELSE pc
    /\ UNCHANGED stop

\* disconnect has returned or raised.
Disconnected ==
    /\ Go("disconnect", "ended") \/ Go("disconnect again", "ended")
    /\ client' = "closed"
    /\ stop' = TRUE

-----------------------------------------------------------------------------
(* loop.                                                                   *)

\* The event is set, or it is time to check.
Wakes == Go("wait", "check") /\ UNCHANGED <<stop, client>>

CheckReturns ==
    /\ client = "open"
    /\ Go("check", "wait")
    /\ UNCHANGED <<stop, client>>

\* Faulty variant: an error of the connection is logged, and that is all.
CheckFails_Continues ==
    /\ client \in {"lost", "closed"}
    /\ Go("check", "wait")
    /\ UNCHANGED <<stop, client>>

\* check_connection raises, or hands on that tasks of the closed client were cancelled;
\* then it is __call__ that awaits stop.
CheckFails ==
    /\ call = "check" /\ client \in {"lost", "closed"}
    /\ \E pc \in {"disconnect", "disconnect again"} : StopBegins(pc)
    /\ UNCHANGED <<wait, callback, client, server, cancelled, cancels>>

\* The cancel ends the wait and loop calls stop; otherwise it leaves loop and __call__
\* calls stop.
Cancelled ==
    /\ cancelled /\ call \in {"wait", "check", "disconnect"}
    /\ cancelled' = FALSE
    /\ StopBegins(IF call = "wait" THEN "disconnect" ELSE "disconnect again")
    /\ UNCHANGED <<wait, callback, client, server, cancels>>

\* A coroutine that is cancelled before its loop, or in the stop of __call__, is just left.
CancelledOutside ==
    /\ cancelled /\ call \in Starting \cup {"disconnect again"}
    /\ call' = "failed"
    /\ cancelled' = FALSE
    /\ UNCHANGED <<wait, callback, stop, client, server, cancels>>

-----------------------------------------------------------------------------
(* The status callbacks, the manager and the server.                       *)

\* opcua_statuschange with BadShutdown calls stop.
StatusChange(c) ==
    /\ callback[c] = "idle" /\ client \in {"open", "lost"}
    /\ callback' = [callback EXCEPT ![c] = IF stop THEN "done" ELSE "disconnect"]
    /\ UNCHANGED <<call, wait, stop, client, server, cancelled, cancels>>

\* The disconnect of a callback: it may cancel the task of the client that runs the
\* callback, which then does not get to set the event.
CallbackDisconnected(c) ==
    /\ callback[c] = "disconnect"
    /\ callback' = [callback EXCEPT ![c] = "done"]
    /\ client' = "closed"
    /\ stop' \in {stop, TRUE}
    /\ UNCHANGED <<call, wait, server, cancelled, cancels>>

Cancel ==
    /\ ~cancels /\ call \notin Ended
    /\ cancelled' = TRUE /\ cancels' = TRUE
    /\ UNCHANGED <<call, wait, callback, stop, client, server>>

ServerChanges ==
    /\ server' = ~server
    /\ client' = IF client = "open" /\ server THEN "lost" ELSE client
    /\ UNCHANGED <<call, wait, callback, stop, cancelled, cancels>>

-----------------------------------------------------------------------------
(* subscribe and get_node.  Node objects of the client are equal if their  *)
(* identifiers are.                                                        *)

Connected == client # "new"

\* A request is answered over an open connection, and may fail at any time.
Asks(c, pc) == caller[c].pc = pc /\ client = "open"

Becomes(c, fields) == caller' = [caller EXCEPT ![c] = fields]

\* subscribe: the subscription for the interval, if the table has one.
Subscribe(c, i) ==
    /\ caller[c].pc = "idle" /\ Connected
    /\ Becomes(c, [pc |-> IF subscriptions[i] = None THEN "create" ELSE "monitor", interval |-> i])
    /\ UNCHANGED <<connection, subscriptions, created, nodes, paths>>

\* A new subscription replaces one that was created at the same time.
Created(c) ==
    /\ Asks(c, "create")
    /\ created' = Append(created, caller[c].interval)
    /\ subscriptions' = [subscriptions EXCEPT ![caller[c].interval] = Len(created')]
    /\ Becomes(c, [caller[c] EXCEPT !.pc = "monitor"])
    /\ UNCHANGED <<connection, nodes, paths>>

\* subscribe_data_change has returned.
Monitored(c) ==
    /\ Asks(c, "monitor")
    /\ Becomes(c, [caller[c] EXCEPT !.pc = "subscribed"])
    /\ UNCHANGED <<connection, subscriptions, created, nodes, paths>>

\* The name of the node found is cached.
Found(c, n, p) ==
    /\ nodes' = [nodes EXCEPT ![n] = p]
    /\ Becomes(c, [pc |-> "found", name |-> n, path |-> p])

\* get_node: the cached node whatever the path, then the cached path, then the server.
GetNode(c, n, p) ==
    /\ caller[c].pc = "idle" /\ Connected
    /\ IF nodes[n] # None
       THEN Becomes(c, [pc |-> "found", name |-> n, path |-> nodes[n]]) /\ UNCHANGED nodes
       ELSE IF p \in paths
            THEN Found(c, n, p)
            ELSE Becomes(c, [pc |-> "child", name |-> n, path |-> p]) /\ UNCHANGED nodes
    /\ UNCHANGED <<connection, subscriptions, created, paths>>

GotChild(c) ==
    /\ Asks(c, "child")
    /\ paths' = paths \cup {caller[c].path}
    /\ Found(c, caller[c].name, caller[c].path)
    /\ UNCHANGED <<connection, subscriptions, created>>

\* The request fails.  A dictionary of nodes always fails here: subscribe hands coroutines
\* to the client.
RequestFails(c) ==
    /\ caller[c].pc \in {"create", "monitor", "child"}
    /\ Becomes(c, [pc |-> "failed"])
    /\ UNCHANGED <<connection, subscriptions, created, nodes, paths>>

-----------------------------------------------------------------------------
CallStep ==
    \/ Connects \/ Refused \/ Retry \/ StartFails \/ Started
    \/ Wakes \/ CheckReturns \/ CheckFails \/ Disconnected
    \/ Cancelled \/ CancelledOutside

\* The subscriptions of a session end with its connection.  The tables of the coroutine
\* are not cleared, but nothing connects it again either.
SessionEnds ==
    /\ created' = IF client' \in {"lost", "closed"} THEN <<>> ELSE created
    /\ UNCHANGED <<subscriptions, nodes, paths, caller>>

ConnectionStep ==
    /\ \/ CallStep \/ Cancel \/ ServerChanges
       \/ \E c \in Callbacks : StatusChange(c) \/ CallbackDisconnected(c)
    /\ SessionEnds

RequestStep ==
    \E c \in Callers :
        \/ \E i \in Intervals : Subscribe(c, i)
        \/ \E n \in Names, p \in Paths : GetNode(c, n, p)
        \/ Created(c) \/ Monitored(c) \/ GotChild(c) \/ RequestFails(c)

Next == ConnectionStep \/ RequestStep

Spec == Init /\ [][Next]_vars

\* The event loop resumes tasks, the wait of the loop ends after a second, opcua_start and
\* the requests of the client return or time out.
FairSpec ==
    /\ Spec
    /\ WF_vars(CallStep /\ SessionEnds)
    /\ WF_vars((Cancelled \/ CancelledOutside) /\ SessionEnds)

-----------------------------------------------------------------------------
(* Properties.                                                             *)

TypeOK ==
    /\ call \in Starting \cup Looping \cup Ended
    /\ wait \in 0 .. MaxWait
    /\ callback \in [Callbacks -> {"idle", "disconnect", "done"}]
    /\ client \in {"new", "open", "lost", "closed"}
    /\ stop \in BOOLEAN /\ server \in BOOLEAN /\ cancelled \in BOOLEAN /\ cancels \in BOOLEAN
    /\ subscriptions \in [Intervals -> Nat \cup {None}]
    /\ created \in Seq(Intervals)
    /\ nodes \in [Names -> Paths \cup {None}] /\ paths \subseteq Paths
    /\ \A c \in Callers : caller[c].pc \in
          {"idle", "create", "monitor", "subscribed", "child", "found", "failed"}

\* When the coroutine has ended after its loop, or _stop says so, its connection is closed:
\* neither a cancel in the middle of a disconnect nor a callback that is stopping, too,
\* makes it end before.
LoopReleases == call = "ended" \/ stop => client = "closed"

\* A coroutine that was cancelled, or whose connection is lost or closed, ends.
CallEnds == cancels \/ client \in {"lost", "closed"} ~> call \in Ended

\* There is one subscription for an interval, and the table holds it.
OneSubscription == \A s \in DOMAIN created : subscriptions[created[s]] = s

\* The name of a node stands for the same node for all callers.
NamesAgree ==
    \A c, d \in Callers :
        caller[c].pc = "found" /\ caller[d].pc = "found" /\ caller[c].name = caller[d].name
        => caller[c].path = caller[d].path

\* "stop method is called after the coroutine was canceled": nothing is left open.
StartReleases == call = "failed" => client # "open"
=============================================================================
