---------------------------- MODULE Zeebe_proofs -----------------------------
(* Proofs about ZeebeJobs for every set of jobs and any number of deliveries, and about *)
(* ZeebeRequests for every set of calls and any number of lost answers.                 *)
EXTENDS ZeebeJobs, ZeebeRequests, TLAPS

USE JobsAssumption

(***************************************************************************)
(* The tasks of a job are counted by its entry in _jobs, and an entry that *)
(* has returned came from a task that did.                                 *)
(***************************************************************************)
Counted == \A k \in Key : active[k] = IF jobs[k] = "running" THEN 1 ELSE 0

FromTask == \A k \in Key : jobs[k] = "returned" => k \in returned

IInv == TypeOK /\ Counted /\ FromTask /\ Supervised /\ CompletedByResult

LEMMA InitInv == Init => IInv
  BY DEF Init, IInv, TypeOK, Counted, FromTask, Supervised, CompletedByResult, TaskState

LEMMA StepInv == IInv /\ [Next]_vars => IInv'
<1> SUFFICES ASSUME IInv, [Next]_vars PROVE IInv'
  OBVIOUS
<1> USE DEF IInv, TypeOK, Counted, FromTask, Supervised, CompletedByResult, TaskState
<1>1. CASE UNCHANGED vars
  BY <1>1 DEF vars
<1>2. ASSUME NEW k \in Key, Deliver(k) PROVE IInv'
  BY <1>2 DEF Deliver, worker
<1>3. ASSUME NEW k \in Key, Abandon(k) PROVE IInv'
  BY <1>3 DEF Abandon, worker
<1>4. ASSUME NEW k \in Key, Complete(k) PROVE IInv'
  BY <1>4 DEF Complete, worker
<1>5. ASSUME NEW k \in Key, Run(k) PROVE IInv'
  BY <1>5 DEF Run, Arrives
<1>6. ASSUME NEW k \in Key, Refuse(k) PROVE IInv'
  BY <1>6 DEF Refuse, Arrives
<1>7. ASSUME NEW k \in Key, WatchFires(k) PROVE IInv'
  <2>1. cancelling' \in [Key -> BOOLEAN]
    BY <1>7, Zenon DEF WatchFires
  <2> QED  BY <1>7, <2>1 DEF WatchFires
<1>8. ASSUME NEW k \in Key, NEW s \in {"returned", "failed", "cancelled"}, TaskEnds(k, s)
      PROVE IInv'
  BY <1>8 DEF TaskEnds
<1>9. ASSUME NEW k \in Key, HandlerReturns(k) PROVE IInv'
  BY <1>9 DEF HandlerReturns
<1>10. ASSUME NEW k \in Key, HandlerRaises(k) PROVE IInv'
  BY <1>10 DEF HandlerRaises
<1> QED
  BY <1>1, <1>2, <1>3, <1>4, <1>5, <1>6, <1>7, <1>8, <1>9, <1>10 DEF Next, Idle

\* The inductive invariant holds in every state of the worker and the gateway.
THEOREM InductiveInvariant == Spec => []IInv
  BY InitInv, StepInv, PTL DEF Spec

\* However often the gateway hands a job out, one task at most runs it.
THEOREM OneTaskHolds == Spec => []OneTask
<1>1. ASSUME IInv, NEW k \in Key PROVE active[k] <= 1
  <2>1. active[k] = 0 \/ active[k] = 1
    BY <1>1 DEF IInv, Counted
  <2> QED  BY <2>1
<1>2. IInv => OneTask
  BY <1>1, Zenon DEF OneTask
<1> QED  BY <1>2, InductiveInvariant, PTL

\* The variables of the worker and the gateway keep their types.
THEOREM TypeCorrect == Spec => []TypeOK
<1>1. IInv => TypeOK
  BY DEF IInv
<1> QED  BY <1>1, InductiveInvariant, PTL

\* No delivery, refused or not, leaves a running task without its watchdog.
THEOREM SupervisedHolds == Spec => []Supervised
<1>1. IInv => Supervised
  BY DEF IInv
<1> QED  BY <1>1, InductiveInvariant, PTL

\* Neither a failed nor a cancelled task completes a job.
THEOREM CompletedByResultHolds == Spec => []CompletedByResult
<1>1. IInv => CompletedByResult
  BY DEF IInv
<1> QED  BY <1>1, InductiveInvariant, PTL

-----------------------------------------------------------------------------
(* The requests of an agent (ZeebeRequests).                               *)

(***************************************************************************)
(* Only a process that is known was started, and a call that has not       *)
(* returned can still be executed once more.                               *)
(***************************************************************************)
OnlyValid == \A c \in Start : instances[c] > 0 => c \in valid

Limited ==
    /\ \A c \in Start : pc[c] # "done" => instances[c] <= MaxLost
    /\ \A c \in Send : pc[c] # "done" => published[c] <= MaxLost

Reported == StartReported /\ SendReported /\ OnlyValid /\ Limited

RequestsInv == RequestsTypeOK /\ Reported

LEMMA RequestsBegin == RequestsInit => RequestsInv
<1> SUFFICES ASSUME RequestsInit PROVE RequestsInv
  OBVIOUS
<1> USE RequestsAssumption DEF RequestsInit, Call, Results
<1>1. /\ pc \in [Call -> {"idle", "calling", "sleeping", "done"}]
      /\ wait \in [Call -> 0 .. WaitCap]
      /\ result \in [Call -> Results \cup {"pending"}]
      /\ \A c \in Call : pc[c] = "done" <=> result[c] # "pending"
  OBVIOUS
<1>2. instances \in [Start -> 0 .. MaxLost + 1] /\ published \in [Send -> 0 .. MaxLost + 1]
  OBVIOUS
<1>3. up \in BOOLEAN /\ valid \subseteq Start /\ alive \subseteq Cancel /\ known \in BOOLEAN
  OBVIOUS
<1>4. Reported
  BY DEF Reported, OnlyValid, Limited, StartReported, SendReported
<1> QED  BY <1>1, <1>2, <1>3, <1>4, Zenon DEF RequestsInv, RequestsTypeOK

LEMMA RequestsStep == RequestsInv /\ [RequestsNext]_requestVars => RequestsInv'
<1> SUFFICES ASSUME RequestsInv, [RequestsNext]_requestVars PROVE RequestsInv'
  OBVIOUS
<1>0. OnlyValid
  BY Zenon DEF RequestsInv, Reported
<1> USE RequestsAssumption
    DEF RequestsInv, RequestsTypeOK, Reported, OnlyValid, Limited,
        StartReported, SendReported, Call, Results
<1>1. CASE UNCHANGED requestVars
  BY <1>1 DEF requestVars
<1>2. CASE GatewayChanges
  BY <1>2 DEF GatewayChanges, GatewayUp, GatewayDown
<1>3. CASE MessageExpires
  BY <1>3 DEF MessageExpires
<1>4. ASSUME NEW c \in Cancel, InstanceEnds(c) PROVE RequestsInv'
  BY <1>4 DEF InstanceEnds
<1>5. ASSUME NEW c \in Call, Begin(c) PROVE RequestsInv'
  BY <1>5 DEF Begin, gateway
<1>6. ASSUME NEW c \in Call, Retry(c) PROVE RequestsInv'
  BY <1>6 DEF Retry, gateway
<1>7. ASSUME NEW c \in Call, Success(c) PROVE RequestsInv'
  <2>1. /\ pc' = [pc EXCEPT ![c] = "done"] /\ pc[c] = "calling"
        /\ UNCHANGED <<wait, up, valid>>
    BY <1>7 DEF Success, Return
  <2>2. PICK v \in Results : result' = [result EXCEPT ![c] = v]
                            /\ v = IF c \in Start THEN "key" ELSE IF c \in Cancel THEN "None" ELSE "True"
    BY <1>7 DEF Success, Return
  <2>3. CASE /\ c \in Start /\ c \in valid
             /\ instances' = [instances EXCEPT ![c] = @ + 1]
             /\ UNCHANGED <<alive, known, published>>
    BY <2>1, <2>2, <2>3
  <2>4. CASE /\ c \in Cancel /\ alive' = alive \ {c}
             /\ UNCHANGED <<instances, known, published>>
    BY <2>1, <2>2, <2>4
  <2>5. CASE /\ c \in Send /\ known' = TRUE
             /\ published' = [published EXCEPT ![c] = @ + 1]
             /\ UNCHANGED <<instances, alive>>
    BY <2>1, <2>2, <2>5
  <2> QED  BY <1>7, <2>3, <2>4, <2>5 DEF Success, Executed
<1>8. ASSUME NEW c \in Call, Rejection(c) PROVE RequestsInv'
  <2>1. /\ pc' = [pc EXCEPT ![c] = "done"] /\ pc[c] = "calling"
        /\ UNCHANGED <<wait, up, valid, instances, alive, known, published>>
    BY <1>8 DEF Rejection, Rejected, Return
  <2>2. PICK v \in Results : result' = [result EXCEPT ![c] = v]
                            /\ v = IF c \in Start THEN "0" ELSE IF c \in Cancel THEN "None" ELSE "False"
    BY <1>8 DEF Rejection, Return
  <2>3. c \in Start => c \notin valid
    BY <1>8 DEF Rejection, Rejected
  <2>4. RequestsTypeOK'
    BY <2>1, <2>2
  <2>5. StartReported'
    <3>1. c \in Start => v = "0"
      BY <2>2
    <3>2a. c \in Start => instances[c] = 0
      <4> SUFFICES ASSUME c \in Start PROVE instances[c] = 0
        OBVIOUS
      <4>1. instances[c] \in 0 .. MaxLost + 1
        OBVIOUS
      <4>2. ~(instances[c] > 0)
        BY <2>3, <1>0, Zenon
      <4> QED  BY <4>1, <4>2
    <3>2. \A s \in Start : s # c => result'[s] = result[s]
      BY <2>2
    <3>3. c \in Start => result'[c] = v
      BY <2>2
    <3> QED  BY <2>1, <3>1, <3>2, <3>3, <3>2a
  <2>6. v = "True" => c \notin Send
    BY <2>2
  <2>7. SendReported'
    BY <2>1, <2>2, <2>6
  <2> QED  BY <2>1, <2>2, <2>4, <2>5, <2>7
<1>9. ASSUME NEW c \in Call, Backoff(c)
      PROVE  wait' \in [Call -> 0 .. WaitCap]
  <2>1. (IF wait[c] < WaitCap THEN wait[c] + 1 ELSE WaitCap) \in 0 .. WaitCap
    OBVIOUS
  <2> QED  BY <1>9, <2>1 DEF Backoff
<1>10. ASSUME NEW c \in Call, Unavailable(c) PROVE RequestsInv'
  <2>1. wait' \in [Call -> 0 .. WaitCap]
    BY <1>10, <1>9 DEF Unavailable
  <2> QED  BY <1>10, <2>1 DEF Unavailable, Backoff
<1>11. ASSUME NEW c \in Call, AnswerLost(c) PROVE RequestsInv'
  <2>1. wait' \in [Call -> 0 .. WaitCap]
    BY <1>11, <1>9 DEF AnswerLost
  <2>2. /\ pc' = [pc EXCEPT ![c] = "sleeping"] /\ pc[c] = "calling"
        /\ UNCHANGED <<result, up, valid>>
        /\ c \in Start => instances[c] < MaxLost
        /\ c \in Send => published[c] < MaxLost
    BY <1>11 DEF AnswerLost, Backoff
  <2>3. CASE /\ c \in Start /\ c \in valid
             /\ instances' = [instances EXCEPT ![c] = @ + 1]
             /\ UNCHANGED <<alive, known, published>>
    BY <2>1, <2>2, <2>3
  <2>4. CASE /\ c \in Cancel /\ alive' = alive \ {c}
             /\ UNCHANGED <<instances, known, published>>
    BY <2>1, <2>2, <2>4
  <2>5. CASE /\ c \in Send /\ known' = TRUE
             /\ published' = [published EXCEPT ![c] = @ + 1]
             /\ UNCHANGED <<instances, alive>>
    BY <2>1, <2>2, <2>5
  <2> QED  BY <1>11, <2>3, <2>4, <2>5 DEF AnswerLost, Executed
<1> QED  BY <1>1, <1>2, <1>3, <1>4, <1>5, <1>6, <1>7, <1>8, <1>10, <1>11
    DEF RequestsNext, Attempt, AllDone

\* The variables of the calls and the gateway keep their types.
THEOREM RequestsTypeCorrect == RequestsSpec => []RequestsTypeOK
<1>1. RequestsInv => RequestsTypeOK
  BY DEF RequestsInv
<1> QED  BY <1>1, RequestsBegin, RequestsStep, PTL DEF RequestsSpec

\* What start_process reports is true for any number of calls and of attempts whose answer
\* was lost: a key only of an instance that it started, 0 only if it started none.
THEOREM StartReportedHolds == RequestsSpec => []StartReported
<1>1. RequestsInv => StartReported
  BY DEF RequestsInv, Reported
<1> QED  BY <1>1, RequestsBegin, RequestsStep, PTL DEF RequestsSpec

\* send_message returns True only if the message of this very call was published.
THEOREM SendReportedHolds == RequestsSpec => []SendReported
<1>1. RequestsInv => SendReported
  BY DEF RequestsInv, Reported
<1> QED  BY <1>1, RequestsBegin, RequestsStep, PTL DEF RequestsSpec
==============================================================================
