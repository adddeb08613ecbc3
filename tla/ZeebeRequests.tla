---------------------------- MODULE ZeebeRequests ----------------------------
(***************************************************************************)
(* The requests of an agent to a Zeebe gateway: start_process,             *)
(* cancel_process and send_message of ZeebeCoroutine (iams/aio/zeebe.py).  *)
(* Each is tried again and again while the gateway or the way to it is out *)
(* of order, and a request may have been executed although its answer was  *)
(* lost.                                                                   *)
(***************************************************************************)
EXTENDS Naturals

CONSTANTS
    Start, Cancel, Send,  \* calls of the three methods
    WaitCap,              \* the longest wait between two attempts (60 s)
    Expires,              \* may the time to live of a message end?
    MaxLost               \* bound on the answers one call loses

ASSUME RequestsAssumption ==
    /\ Start \cap Cancel = {} /\ Start \cap Send = {} /\ Cancel \cap Send = {}
    /\ WaitCap \in Nat \ {0}
    /\ Expires \in BOOLEAN
    /\ MaxLost \in Nat

Call == Start \cup Cancel \cup Send

VARIABLES
    pc,        \* where each call is
    wait,      \* its wait
    result,    \* what it returned
    up,        \* the gateway answers
    valid,     \* external: the process of each start is known and may be started
    instances, \* external: process instances each start created
    alive,     \* external: the instances to cancel that are running
    known,     \* external: the gateway remembers the message (all have one message_id)
    published  \* external: calls whose message was published, and how often

gateway == <<up, valid, instances, alive, known, published>>
requestVars == <<pc, wait, result, up, valid, instances, alive, known, published>>

\* What a call returns; None is what cancel_process returns.
Results == {"key", "0", "None", "True", "False"}

RequestsTypeOK ==
    /\ pc \in [Call -> {"idle", "calling", "sleeping", "done"}]
    /\ wait \in [Call -> 0 .. WaitCap]
    /\ result \in [Call -> Results \cup {"pending"}]
    /\ up \in BOOLEAN /\ valid \subseteq Start
    /\ instances \in [Start -> 0 .. MaxLost + 1]
    /\ alive \subseteq Cancel
    /\ known \in BOOLEAN
    /\ published \in [Send -> 0 .. MaxLost + 1]
    /\ \A c \in Call : pc[c] = "done" <=> result[c] # "pending"

RequestsInit ==
    /\ pc = [c \in Call |-> "idle"]
    /\ wait = [c \in Call |-> 0]
    /\ result = [c \in Call |-> "pending"]
    /\ up \in BOOLEAN
    /\ valid \in SUBSET Start
    /\ instances = [c \in Start |-> 0]
    /\ alive \in SUBSET Cancel
    /\ known = FALSE
    /\ published = [c \in Send |-> 0]

-----------------------------------------------------------------------------
(* The gateway.  An attempt that meets a gateway in order is executed.     *)

GatewayDown == up /\ up' = FALSE
GatewayUp == ~up /\ up' = TRUE

GatewayChanges ==
    /\ GatewayDown \/ GatewayUp
    /\ UNCHANGED <<pc, wait, result, valid, instances, alive, known, published>>

\* The process instance ends, or the message is forgotten when its ttl is over.
InstanceEnds(c) ==
    /\ c \in alive
    /\ alive' = alive \ {c}
    /\ UNCHANGED <<pc, wait, result, up, valid, instances, known, published>>

MessageExpires ==
    /\ Expires /\ known
    /\ known' = FALSE
    /\ UNCHANGED <<pc, wait, result, up, valid, instances, alive, published>>

Executed(c) ==
    \/ /\ c \in Start
       /\ c \in valid
       /\ instances' = [instances EXCEPT ![c] = @ + 1]
       /\ UNCHANGED <<alive, known, published>>
    \/ /\ c \in Cancel
       /\ c \in alive
       /\ alive' = alive \ {c}
       /\ UNCHANGED <<instances, known, published>>
    \/ /\ c \in Send
       /\ ~known
       /\ known' = TRUE
       /\ published' = [published EXCEPT ![c] = @ + 1]
       /\ UNCHANGED <<instances, alive>>

\* ProcessDefinitionNotFoundError, ProcessInstanceNotFoundError, MessageAlreadyExistsError.
Rejected(c) ==
    /\ (c \in Start /\ c \notin valid) \/ (c \in Cancel /\ c \notin alive) \/ (c \in Send /\ known)
    /\ UNCHANGED <<instances, alive, known, published>>

-----------------------------------------------------------------------------
(* The client.                                                             *)

Begin(c) ==
    /\ pc[c] = "idle"
    /\ pc' = [pc EXCEPT ![c] = "calling"]
    /\ UNCHANGED <<wait, result, gateway>>

Return(c, value) ==
    /\ pc' = [pc EXCEPT ![c] = "done"]
    /\ result' = [result EXCEPT ![c] = value]
    /\ UNCHANGED <<wait, up, valid>>

\* The request is executed and answered.
Success(c) ==
    /\ pc[c] = "calling" /\ up
    /\ Executed(c)
    /\ Return(c, IF c \in Start THEN "key" ELSE IF c \in Cancel THEN "None" ELSE "True")

\* Faulty variant: a rejected message is taken for a sent one.
Rejection_Success(c) ==
    /\ pc[c] = "calling" /\ up
    /\ Rejected(c)
    /\ Return(c, IF c \in Start THEN "key" ELSE IF c \in Cancel THEN "None" ELSE "True")

\* The request is rejected for good.
Rejection(c) ==
    /\ pc[c] = "calling" /\ up
    /\ Rejected(c)
    /\ Return(c, IF c \in Start THEN "0" ELSE IF c \in Cancel THEN "None" ELSE "False")

\* Faulty variant: a failed attempt is the last one.
Backoff_GivesUp(c) ==
    /\ pc' = [pc EXCEPT ![c] = "done"]
    /\ result' = [result EXCEPT ![c] = IF c \in Start THEN "0"
                                       ELSE IF c \in Cancel THEN "None" ELSE "False"]
    /\ UNCHANGED <<wait, up, valid>>

\* One of the errors that are tried again: wait one second longer each time.
Backoff(c) ==
    /\ pc' = [pc EXCEPT ![c] = "sleeping"]
    /\ wait' = [wait EXCEPT ![c] = IF @ < WaitCap THEN @ + 1 ELSE WaitCap]
    /\ UNCHANGED <<result, up, valid>>

\* The gateway cannot be reached, or its answer is lost.
Unavailable(c) ==
    /\ pc[c] = "calling" /\ ~up
    /\ Backoff(c)
    /\ UNCHANGED <<instances, alive, known, published>>

AnswerLost(c) ==
    /\ pc[c] = "calling" /\ ~up
    /\ c \in Start => instances[c] < MaxLost
    /\ c \in Send => published[c] < MaxLost
    /\ Executed(c)
    /\ Backoff(c)

\* Faulty variant: the call sleeps on.
Retry_Never(c) ==
    /\ pc[c] = "sleeping" /\ wait[c] < WaitCap
    /\ pc' = [pc EXCEPT ![c] = "calling"]
    /\ UNCHANGED <<wait, result, gateway>>

Retry(c) ==
    /\ pc[c] = "sleeping"
    /\ pc' = [pc EXCEPT ![c] = "calling"]
    /\ UNCHANGED <<wait, result, gateway>>

-----------------------------------------------------------------------------
AllDone == UNCHANGED requestVars /\ \A c \in Call : pc[c] = "done"

Attempt(c) == Success(c) \/ Rejection(c) \/ Unavailable(c) \/ AnswerLost(c)

RequestsNext ==
    \/ GatewayChanges \/ MessageExpires \/ \E c \in Cancel : InstanceEnds(c)
    \/ \E c \in Call : Begin(c) \/ Attempt(c) \/ Retry(c)
    \/ AllDone

RequestsSpec == RequestsInit /\ [][RequestsNext]_requestVars

\* Every attempt ends, every sleep is over some time, and calls are not given up.
FairRequestsSpec ==
    RequestsSpec /\ \A c \in Call : WF_requestVars(Attempt(c)) /\ WF_requestVars(Retry(c))

-----------------------------------------------------------------------------
(* Properties.                                                             *)

\* start_process returns the key of an instance it started, and 0 only if it started
\* none, however many of its attempts failed and whether or not they were executed.
StartReported ==
    \A c \in Start :
        /\ result[c] = "key" => instances[c] > 0
        /\ result[c] = "0" => instances[c] = 0

\* send_message returns True only for a message that it published itself.
SendReported == \A c \in Send : result[c] = "True" => published[c] > 0

\* Once the gateway answers for good every call returns.
CallsReturn == \A c \in Call : (<>[]up) => (pc[c] = "calling" ~> pc[c] = "done")

\* "returns True on success and False on failure": a message of a call that returns
\* False was not published by it.
SendFailure == \A c \in Send : result[c] = "False" => published[c] = 0

\* cancel_process "returns True on success and False on failure".
CancelReports == \A c \in Cancel : pc[c] = "done" => result[c] \in {"True", "False"}

=============================================================================
