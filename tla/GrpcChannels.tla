---------------------------- MODULE GrpcChannels ----------------------------
(***************************************************************************)
(* The client channels of GRPCCoroutine (iams/aio/grpc.py): the table      *)
(* channels, its reference counts, and the context managers channel and    *)
(* stub, used by any number of coroutines at the same time.                *)
(*                                                                         *)
(* Channels of different addresses do not meet, so there is one address.   *)
(* Everything runs on one event loop: an action is what happens between two*)
(* awaits, and the only await of this code is the close of an instance,    *)
(* which is unusable from the moment it begins.                            *)
(***************************************************************************)
EXTENDS Integers, FiniteSets

CONSTANTS
    User,         \* coroutines that open a context
    Option,       \* values of a channel option
    NoOption,     \* the option is not asked for
    Wishes,       \* what the coroutines may ask for: a wish for each of them
    MaxUses       \* bound on the contexts one user opens

ASSUME ChannelsAssumption ==
    /\ NoOption \notin Option
    /\ Wishes \subseteq [User -> [persistent : BOOLEAN, option : Option \cup {NoOption}]]
    /\ MaxUses \in Nat
    /\ IsFiniteSet(User)

\* Channel objects and instances of grpc.aio.Channel, in the order of their creation.
Channel == 1 .. MaxUses * Cardinality(User)
Instance == Channel
None == 0

VARIABLES
    wish,        \* what each user asks for: the arguments persistent and options
    table,       \* the Channel in channels, or None
    channels,    \* number of Channel objects created
    persistent, option, instance, connections, stub, \* their fields
    instances,   \* number of instances created
    open,        \* instances that are not closed
    pc,          \* where each user is
    chan,        \* the Channel its context uses
    used,        \* the instance that the stub of its context calls
    cached,      \* users whose context found its stub in the Channel
    uses,        \* contexts it opened
    leaked       \* history: contexts of each Channel that were left by an exception

fields == <<persistent, option, instance, connections, stub>>
vars == <<wish, table, channels, persistent, option, instance, connections, stub, instances, open,
          pc, chan, used, cached, uses, leaked>>

TypeOK ==
    /\ wish \in Wishes
    /\ table \in Channel \cup {None}
    /\ channels \in Channel \cup {None} /\ instances \in Instance \cup {None}
    /\ persistent \in [Channel -> BOOLEAN]
    /\ option \in [Channel -> Option \cup {NoOption}]
    /\ instance \in [Channel -> Instance \cup {None}]
    /\ connections \in [Channel -> Nat]
    /\ stub \in [Channel -> Instance \cup {None}]
    /\ open \subseteq 1 .. instances
    /\ pc \in [User -> {"idle", "recreate", "inside", "closing", "failed"}]
    /\ chan \in [User -> Channel \cup {None}] /\ used \in [User -> Instance \cup {None}]
    /\ cached \subseteq User
    /\ uses \in [User -> 0 .. MaxUses]
    /\ leaked \in [Channel -> Nat]

Init ==
    /\ wish \in Wishes
    /\ table = None
    /\ channels = 0 /\ instances = 0
    /\ persistent = [c \in Channel |-> FALSE]
    /\ option = [c \in Channel |-> NoOption]
    /\ instance = [c \in Channel |-> None]
    /\ connections = [c \in Channel |-> 0]
    /\ stub = [c \in Channel |-> None]
    /\ open = {}
    /\ pc = [u \in User |-> "idle"]
    /\ chan = [u \in User |-> None]
    /\ used = [u \in User |-> None]
    /\ cached = {}
    /\ uses = [u \in User |-> 0]
    /\ leaked = [c \in Channel |-> 0]

-----------------------------------------------------------------------------
\* The rest of _channel, and channel and stub up to their yield: the instance is
\* created if there is none, the context counts as a connection, and its stub is the
\* cached one if there is one.
Enter(u, c, i) ==
    LET new == i = None
        j == IF new THEN instances + 1 ELSE i
        s == IF stub[c] = None THEN j ELSE stub[c]
    IN  /\ instances' = IF new THEN j ELSE instances
        /\ open' = IF new THEN open \cup {j} ELSE open
        /\ instance' = [instance EXCEPT ![c] = j]
        /\ connections' = [connections EXCEPT ![c] = @ + 1]
        /\ stub' = [stub EXCEPT ![c] = s]
        /\ used' = [used EXCEPT ![u] = s]
        /\ cached' = IF stub[c] = None THEN cached \ {u} ELSE cached \cup {u}
        /\ pc' = [pc EXCEPT ![u] = "inside"]

\* The Channel of the address, a new one if it is not in the table.
Lookup(u, c) ==
    /\ pc[u] = "idle" /\ uses[u] < MaxUses
    /\ c = IF table = None THEN channels + 1 ELSE table
    /\ table' = c
    /\ channels' = IF table = None THEN c ELSE channels
    /\ persistent' = IF table = None THEN [persistent EXCEPT ![c] = wish[u].persistent]
                                     ELSE persistent
    /\ chan' = [chan EXCEPT ![u] = c]
    /\ uses' = [uses EXCEPT ![u] = @ + 1]
    /\ option' = [option EXCEPT ![c] = IF wish[u].option = NoOption THEN @ ELSE wish[u].option]

\* The instance does not suit the caller: it asks for a persistent channel and this is
\* not one (and does not become one: the flag that is set is called peristent), or for
\* another value of an option.
Recreates(u, c) ==
    /\ instance[c] # None
    /\ \/ wish[u].persistent /\ ~persistent[c]
       \/ wish[u].option # NoOption /\ option[c] # wish[u].option

Open(u, c) ==
    /\ Lookup(u, c)
    /\ ~Recreates(u, c)
    /\ Enter(u, c, instance[c])
    /\ UNCHANGED <<wish, leaked>>

\* The instance is closed, whoever uses it.
OpenRecreating(u, c) ==
    /\ Lookup(u, c)
    /\ Recreates(u, c)
    /\ open' = open \ {instance[c]}
    /\ pc' = [pc EXCEPT ![u] = "recreate"]
    /\ UNCHANGED <<wish, instance, connections, stub, instances, used, cached, leaked>>

\* The close has returned: the instance, perhaps another one by now, is replaced.
Recreated(u) ==
    /\ pc[u] = "recreate"
    /\ Enter(u, chan[u], None)
    /\ UNCHANGED <<wish, table, channels, persistent, option, chan, uses, leaked>>

\* The caller is cancelled while it waits for the close.
CancelledInClose(u) ==
    /\ pc[u] \in {"recreate", "closing"}
    /\ pc' = [pc EXCEPT ![u] = "idle"]
    /\ UNCHANGED <<wish, table, channels, fields, instances, open, chan, used, cached, uses, leaked>>

-----------------------------------------------------------------------------
(* The end of a context.                                                   *)

\* Faulty variant: the connection is not counted any more, but the channel stays.
Leave_Open(u) ==
    LET c == chan[u]
    IN  /\ pc[u] = "inside"
        /\ connections' = [connections EXCEPT ![c] = @ - 1]
        /\ pc' = [pc EXCEPT ![u] = "idle"]
        /\ UNCHANGED <<wish, table, channels, persistent, option, instance, stub, instances, open,
                       chan, used, cached, uses, leaked>>

\* Faulty variant: an instance is closed while it has one other connection.
Leave_Early(u) ==
    LET c == chan[u]
        last == ~persistent[c] /\ connections[c] <= 2
    IN  /\ pc[u] = "inside"
        /\ connections' = [connections EXCEPT ![c] = @ - 1]
        /\ \/ /\ last
              /\ table' = None
              /\ open' = open \ {instance[c]}
              /\ pc' = [pc EXCEPT ![u] = "closing"]
           \/ /\ ~last
              /\ pc' = [pc EXCEPT ![u] = "idle"]
              /\ UNCHANGED <<table, open>>
        /\ UNCHANGED <<wish, channels, persistent, option, instance, stub, instances, chan, used,
                       cached, uses, leaked>>

\* The last one that leaves a channel that is not persistent removes what is in the
\* table for the address and closes its own instance; without an entry it fails.
Leave(u) ==
    LET c == chan[u]
        last == ~persistent[c] /\ connections[c] <= 1
    IN  /\ pc[u] = "inside"
        /\ connections' = [connections EXCEPT ![c] = @ - 1]
        /\ \/ /\ last /\ table # None
              /\ table' = None
              /\ open' = open \ {instance[c]}
              /\ pc' = [pc EXCEPT ![u] = "closing"]
           \/ /\ last /\ table = None
              /\ pc' = [pc EXCEPT ![u] = "failed"]
              /\ UNCHANGED <<table, open>>
           \/ /\ ~last
              /\ pc' = [pc EXCEPT ![u] = "idle"]
              /\ UNCHANGED <<table, open>>
        /\ UNCHANGED <<wish, channels, persistent, option, instance, stub, instances, chan, used,
                       cached, uses, leaked>>

Closed(u) ==
    /\ pc[u] = "closing"
    /\ pc' = [pc EXCEPT ![u] = "idle"]
    /\ UNCHANGED <<wish, table, channels, fields, instances, open, chan, used, cached, uses, leaked>>

\* The body of the context raises: there is no finally, the connection stays counted.  A
\* KeyError of the body is taken for a stub that is missing where the stub was yielded
\* from the cache: it is made again, for the instance of now, and the second yield ends
\* the context with an error.
LeaveByException(u) ==
    LET c == chan[u]
    IN  /\ pc[u] = "inside"
        /\ \/ stub' = stub
           \/ u \in cached /\ stub' = [stub EXCEPT ![c] = instance[c]]
        /\ pc' = [pc EXCEPT ![u] = "idle"]
        /\ leaked' = [leaked EXCEPT ![c] = @ + 1]
        /\ UNCHANGED <<wish, table, channels, persistent, option, instance, connections, instances,
                       open, chan, used, cached, uses>>

-----------------------------------------------------------------------------
Rest == UNCHANGED vars /\ \A u \in User : pc[u] = "failed" \/ (pc[u] = "idle" /\ uses[u] = MaxUses)

Next ==
    \/ \E u \in User :
          \/ \E c \in Channel : Open(u, c) \/ OpenRecreating(u, c)
          \/ Recreated(u) \/ CancelledInClose(u)
          \/ Leave(u) \/ Closed(u) \/ LeaveByException(u)
    \/ Rest

Spec == Init /\ [][Next]_vars

-----------------------------------------------------------------------------
(* Properties.                                                             *)

Inside(c) == {u \in User : pc[u] = "inside" /\ chan[u] = c}

\* Whatever callers ask for and however their contexts end: a context that closes the
\* instance of its Channel, because the reference count says that it is the last one, is
\* the last one.
LastCloses ==
    [][\A u \in User : pc[u] = "inside" /\ pc'[u] = "closing" => Inside(chan[u]) = {u}]_vars

\* Callers that agree on the persistence and the options of an address.
Agreeing == \A u, v \in User : wish[u] = wish[v]

\* Callers that agree never close an instance under each other: a context calls an
\* instance that is open, of the one Channel that the table has.
InUse ==
    Agreeing => \A u \in User : pc[u] = "inside" =>
        /\ used[u] \in open /\ used[u] = instance[chan[u]]
        /\ chan[u] = table

\* Callers that agree leave nothing behind, unless an exception ended a context: an open
\* instance is that of the table's Channel, which is persistent or in use, and the last
\* one to leave finds the entry it removes.
NothingLeft ==
    Agreeing =>
        /\ \A i \in open :
              /\ table # None /\ instance[table] = i
              /\ persistent[table] \/ Inside(table) # {} \/ leaked[table] > 0
        /\ \A u \in User : pc[u] # "failed"

\* A Channel that was created for a persistent caller is never removed from the table,
\* whatever options callers ask for, as long as all of them want it to be persistent.
PersistentStays ==
    [][(\A u \in User : wish[u].persistent) /\ table # None => table' = table]_vars

=============================================================================
