------------------------ MODULE OpcuaCoroutine_proofs ------------------------
(* Proofs about OpcuaCoroutine for any number of callbacks, callers, intervals, *)
(* names and paths.                                                             *)
EXTENDS OpcuaCoroutine, TLAPS

USE OpcuaAssumption

(***************************************************************************)
(* The connection.  Before it is established nobody can stop it, and       *)
(* nothing opens it again.                                                 *)
(***************************************************************************)
Types ==
    /\ callback \in [Callbacks -> {"idle", "disconnect", "done"}]
    /\ stop \in BOOLEAN

Unopened ==
    call \in {"connect", "sleep"} =>
        ~stop /\ client = "new" /\ \A c \in Callbacks : callback[c] # "disconnect"

CInv == Types /\ Unopened /\ LoopReleases

LEMMA InitCInv == Init => CInv
  BY DEF Init, CInv, Types, Unopened, LoopReleases

LEMMA StepCInv == CInv /\ [Next]_vars => CInv'
<1> SUFFICES ASSUME CInv, [Next]_vars PROVE CInv'
  OBVIOUS
<1> USE DEF CInv, Types, Unopened, LoopReleases
<1>1. CASE UNCHANGED connection
  BY <1>1 DEF connection
<1>2. CASE Connects \/ Refused \/ Retry \/ StartFails \/ Started
  BY <1>2 DEF Connects, Refused, Retry, StartFails, Started, Go
<1>3. CASE Wakes \/ CheckReturns
  BY <1>3 DEF Wakes, CheckReturns, Go
<1>4. CASE CheckFails \/ Cancelled
  <2>1. PICK pc \in {"disconnect", "disconnect again"} : StopBegins(pc)
    BY <1>4 DEF CheckFails, Cancelled
  <2>2. call' \in {"ended", pc} /\ (call' = "ended" => stop) /\ UNCHANGED <<stop, callback, client>>
    BY <1>4, <2>1 DEF CheckFails, Cancelled, StopBegins
  <2> QED  BY <2>2
<1>5. CASE Disconnected
  <2>1. call' = "ended" /\ client' = "closed" /\ stop' = TRUE /\ callback' = callback
    BY <1>5 DEF Disconnected, Go
  <2> QED  BY <2>1
<1>6. CASE CancelledOutside
  BY <1>6 DEF CancelledOutside
<1>7. CASE Cancel
  BY <1>7 DEF Cancel
<1>8. CASE ServerChanges
  BY <1>8 DEF ServerChanges
<1>9. ASSUME NEW c \in Callbacks, StatusChange(c) PROVE CInv'
  BY <1>9 DEF StatusChange
<1>10. ASSUME NEW c \in Callbacks, CallbackDisconnected(c) PROVE CInv'
  BY <1>10 DEF CallbackDisconnected
<1>11. CASE ConnectionStep
  BY <1>2, <1>3, <1>4, <1>5, <1>6, <1>7, <1>8, <1>9, <1>10, <1>11 DEF ConnectionStep, CallStep
<1>12. CASE RequestStep
  BY <1>1, <1>12 DEF RequestStep, Subscribe, GetNode, Created, Monitored, GotChild, RequestFails
<1> QED  BY <1>1, <1>11, <1>12 DEF Next, vars

\* Neither a cancel nor a callback that stops at the same time makes the coroutine end, or
\* _stop be set, while the connection is open.
THEOREM LoopReleasesHolds == Spec => []LoopReleases
<1>1. CInv => LoopReleases
  BY DEF CInv
<1> QED  BY <1>1, InitCInv, StepCInv, PTL DEF Spec
-----------------------------------------------------------------------------
(***************************************************************************)
(* The requests: only types.  What they promise beyond is false, see       *)
(* OneSubscription and NamesAgree.                                         *)
(***************************************************************************)
Waiting == [pc : {"idle", "failed"}]
           \cup [pc : {"create", "monitor", "subscribed"}, interval : Intervals]
           \cup [pc : {"child", "found"}, name : Names, path : Paths]

RTypes ==
    /\ created \in Seq(Intervals)
    /\ subscriptions \in [Intervals -> Nat \cup {None}]
    /\ nodes \in [Names -> Paths \cup {None}] /\ paths \subseteq Paths
    /\ caller \in [Callers -> Waiting]

LEMMA InitRTypes == Init => RTypes
  BY DEF Init, RTypes, Waiting

LEMMA CreatedTypes == ASSUME RTypes, NEW c \in Callers, Created(c) PROVE RTypes'
<1> DEFINE i == caller[c].interval
           w == [caller[c] EXCEPT !.pc = "monitor"]
<1>1. caller[c] \in [pc : {"create", "monitor", "subscribed"}, interval : Intervals]
  <2>1. caller[c] \in Waiting /\ caller[c].pc = "create"
    BY DEF Created, Asks, RTypes
  <2> QED  BY <2>1 DEF Waiting
<1>2. i \in Intervals /\ w \in Waiting
  BY <1>1 DEF Waiting
<1>3. created' = Append(created, i) /\ Len(created') \in Nat /\ created' \in Seq(Intervals)
  BY <1>2 DEF Created, RTypes
<1> QED  BY <1>2, <1>3 DEF Created, Becomes, RTypes

LEMMA MonitoredTypes == ASSUME RTypes, NEW c \in Callers, Monitored(c) PROVE RTypes'
<1> DEFINE w == [caller[c] EXCEPT !.pc = "subscribed"]
<1>1. caller[c] \in [pc : {"create", "monitor", "subscribed"}, interval : Intervals]
  <2>1. caller[c] \in Waiting /\ caller[c].pc = "monitor"
    BY DEF Monitored, Asks, RTypes
  <2> QED  BY <2>1 DEF Waiting
<1>2. w \in Waiting
  BY <1>1 DEF Waiting
<1> QED  BY <1>2 DEF Monitored, Becomes, RTypes

LEMMA GotChildTypes == ASSUME RTypes, NEW c \in Callers, GotChild(c) PROVE RTypes'
<1> DEFINE n == caller[c].name
           p == caller[c].path
           w == [pc |-> "found", name |-> n, path |-> p]
<1>1. n \in Names /\ p \in Paths
  <2>1. caller[c] \in Waiting /\ caller[c].pc = "child"
    BY DEF GotChild, Asks, RTypes
  <2> QED  BY <2>1 DEF Waiting
<1>2. w \in Waiting
  BY <1>1 DEF Waiting
<1> QED  BY <1>1, <1>2 DEF GotChild, Found, Becomes, RTypes

LEMMA GetNodeTypes ==
    ASSUME RTypes, NEW c \in Callers, NEW n \in Names, NEW p \in Paths, GetNode(c, n, p)
    PROVE  RTypes'
<1>1. PICK q \in Paths, pc \in {"found", "child"} :
        /\ Becomes(c, [pc |-> pc, name |-> n, path |-> q])
        /\ nodes' \in [Names -> Paths \cup {None}]
  BY DEF GetNode, Found, RTypes
<1>2. [pc |-> pc, name |-> n, path |-> q] \in Waiting
  BY DEF Waiting
<1> QED  BY <1>1, <1>2 DEF GetNode, Becomes, RTypes

LEMMA StepRTypes == RTypes /\ [Next]_vars => RTypes'
<1> SUFFICES ASSUME RTypes, [Next]_vars PROVE RTypes'
  OBVIOUS
<1>1. CASE UNCHANGED vars
  BY <1>1 DEF vars, requests, RTypes
<1>2. CASE ConnectionStep
  <2>1. <<>> \in Seq(Intervals)
    OBVIOUS
  <2> QED  BY <1>2, <2>1 DEF ConnectionStep, SessionEnds, RTypes
<1>3. ASSUME NEW c \in Callers, NEW i \in Intervals, Subscribe(c, i) PROVE RTypes'
  <2>1. PICK pc \in {"create", "monitor"} : Becomes(c, [pc |-> pc, interval |-> i])
    BY <1>3 DEF Subscribe
  <2>2. [pc |-> pc, interval |-> i] \in Waiting
    BY DEF Waiting
  <2> QED  BY <1>3, <2>1, <2>2 DEF Subscribe, Becomes, RTypes
<1>4. ASSUME NEW c \in Callers, RequestFails(c) PROVE RTypes'
  <2>1. [pc |-> "failed"] \in Waiting
    BY DEF Waiting
  <2> QED  BY <1>4, <2>1 DEF RequestFails, Becomes, RTypes
<1> QED
  BY <1>1, <1>2, <1>3, <1>4, CreatedTypes, MonitoredTypes, GotChildTypes, GetNodeTypes
     DEF Next, RequestStep

-----------------------------------------------------------------------------
(* Type correctness.  What is not in the invariants above: the task, the   *)
(* wait and the flags.                                                     *)

CallTypes ==
    /\ call \in Starting \cup Looping \cup Ended
    /\ wait \in 0 .. MaxWait
    /\ client \in {"new", "open", "lost", "closed"}
    /\ server \in BOOLEAN /\ cancelled \in BOOLEAN /\ cancels \in BOOLEAN

LEMMA CallTypesBegin == Init => CallTypes
<1> SUFFICES ASSUME Init PROVE CallTypes
  OBVIOUS
<1>1. call \in Starting /\ wait \in 0 .. MaxWait
  BY DEF Init, Starting
<1>2. client = "new" /\ server \in BOOLEAN /\ cancelled = FALSE /\ cancels = FALSE
  BY Zenon DEF Init
<1> QED  BY <1>1, <1>2, Zenon DEF CallTypes

LEMMA CallTypesStep == CallTypes /\ [Next]_vars => CallTypes'
<1> SUFFICES ASSUME CallTypes, [Next]_vars PROVE CallTypes'
  OBVIOUS
<1> USE DEF CallTypes, Starting, Looping, Ended
<1>1. CASE UNCHANGED vars
  BY <1>1 DEF vars, connection, requests
<1>2. CASE RequestStep
  <2>1. UNCHANGED <<call, wait, client, server, cancelled, cancels>>
    BY <1>2 DEF RequestStep, Subscribe, GetNode, Created, Monitored, GotChild, RequestFails, connection
  <2> QED  BY <2>1
<1>3. CASE CallStep
  <2>1. server' = server /\ cancels' = cancels
    BY <1>3, Zenon DEF CallStep, Connects, Refused, Retry, StartFails, Started, Wakes,
       CheckReturns, CheckFails, Disconnected, Cancelled, CancelledOutside, Go
  <2>2. call' \in Starting \cup Looping \cup Ended
    <3>1. CASE Connects \/ Refused \/ Retry \/ StartFails \/ Started \/ CancelledOutside
      BY <3>1 DEF Connects, Refused, Retry, StartFails, Started, CancelledOutside, Go
    <3>2. CASE Wakes \/ CheckReturns \/ Disconnected
      BY <3>2 DEF Wakes, CheckReturns, Disconnected, Go
    <3>3. ASSUME NEW pc \in {"disconnect", "disconnect again"}, StopBegins(pc)
          PROVE  call' \in {"ended", "disconnect", "disconnect again"}
      BY <3>3 DEF StopBegins
    <3>4. CASE CheckFails
      BY <3>3, <3>4 DEF CheckFails
    <3>5. CASE Cancelled
      BY <3>3, <3>5 DEF Cancelled
    <3> QED  BY <1>3, <3>1, <3>2, <3>4, <3>5 DEF CallStep
  <2>3. wait' \in 0 .. MaxWait
    <3>1. CASE Refused
      BY <3>1, OpcuaAssumption DEF Refused
    <3>2. CASE ~Refused
      <4>1. wait' = wait
        BY <1>3, <3>2, Zenon DEF CallStep, Connects, Retry, StartFails, Started, Wakes,
           CheckReturns, CheckFails, Disconnected, Cancelled, CancelledOutside, Go
      <4> QED  BY <4>1
    <3> QED  BY <3>1, <3>2
  <2>4. client' \in {client, "open", "closed"} /\ cancelled' \in {cancelled, FALSE}
    BY <1>3, Zenon DEF CallStep, Connects, Refused, Retry, StartFails, Started, Wakes, CheckReturns,
       CheckFails, Disconnected, Cancelled, CancelledOutside, Go
  <2> QED  BY <2>1, <2>2, <2>3, <2>4
<1>4. CASE Cancel \/ ServerChanges
  BY <1>4 DEF Cancel, ServerChanges
<1>5. ASSUME NEW c \in Callbacks, StatusChange(c) \/ CallbackDisconnected(c)
      PROVE  CallTypes'
  BY <1>5 DEF StatusChange, CallbackDisconnected
<1> HIDE DEF CallTypes
<1> QED  BY <1>1, <1>2, <1>3, <1>4, <1>5 DEF Next, ConnectionStep

\* All variables have their types, whatever fails and whoever stops the connection.
THEOREM TypeCorrect == Spec => []TypeOK
<1>1. CInv /\ CallTypes /\ RTypes => TypeOK
  <2> SUFFICES ASSUME CInv, CallTypes, RTypes PROVE TypeOK
    OBVIOUS
  <2>1. \A c \in Callers : caller[c].pc \in
          {"idle", "create", "monitor", "subscribed", "child", "found", "failed"}
    BY DEF RTypes, Waiting
  <2> QED  BY <2>1 DEF CInv, Types, CallTypes, RTypes, TypeOK
<1> QED
  BY <1>1, InitCInv, StepCInv, InitRTypes, StepRTypes, CallTypesBegin, CallTypesStep, PTL DEF Spec

=============================================================================
