----------------------- MODULE CoroutineManager_proofs -----------------------
(* Proofs about CoroutineManager for every set of coroutines of any kinds, and about    *)
(* EventCoroutine for every kind of interval, with and without the wait_for that loses  *)
(* a cancel.                                                                            *)
EXTENDS CoroutineManager, EventCoroutine, Integers, TLAPS

USE ManagerAssumption DEF Cancelling

(***************************************************************************)
(* Type correctness.                                                       *)
(***************************************************************************)
LEMMA InitType == Init => TypeOK
<1> SUFFICES ASSUME Init PROVE TypeOK
  OBVIOUS
<1>1. reports \in Seq(Ended)  BY DEF Init
<1> QED  BY <1>1 DEF Init, TypeOK

LEMMA EndCallType ==
    ASSUME TypeOK, NEW c \in Coro, NEW o \in Ended, EndCall(c, o)
    PROVE  /\ call' \in [Coro -> {"none", "wait", "waitAll", "loop", "stop"} \cup Ended]
           /\ todo' \subseteq Coro
           /\ reports' \in Seq(Ended)
BY DEF TypeOK, EndCall

LEMMA MainType == TypeOK /\ (MainStep \/ Stop \/ Down) => TypeOK'
<1> SUFFICES ASSUME TypeOK, MainStep \/ Stop \/ Down PROVE TypeOK'
  OBVIOUS
<1> USE DEF TypeOK
<1>1. CASE CreateSetups  BY <1>1 DEF CreateSetups
<1>2. CASE SetupsAborted  BY <1>2 DEF SetupsAborted
<1>3. CASE SetupsConcluded  BY <1>3 DEF SetupsConcluded
<1>4. CASE Shutdown  BY <1>4 DEF Shutdown, Live
<1>5. CASE Collect  BY <1>5 DEF Collect
<1>6. CASE Timeout  BY <1>6 DEF Timeout
<1>7. CASE Return  BY <1>7 DEF Return
<1>8. CASE Exit  BY <1>8 DEF Exit
<1>9. CASE Stop  BY <1>9 DEF Stop
<1>10. CASE Down  BY <1>10 DEF Down, vars
<1> QED
  BY <1>1, <1>2, <1>3, <1>4, <1>5, <1>6, <1>7, <1>8, <1>9, <1>10 DEF MainStep

LEMMA TaskType ==
    ASSUME TypeOK, NEW c \in Coro, Register(c) \/ StartStep(c) \/ CallStep(c)
    PROVE  TypeOK'
<1>1. CASE Register(c)  BY <1>1 DEF TypeOK, Register
<1>2. CASE StartDone(c)  BY <1>2 DEF TypeOK, StartDone, MainVars, CallVars
<1>3. CASE StartFail(c)  BY <1>3 DEF TypeOK, StartFail, MainVars, CallVars
<1>4. CASE StartCancelled(c)  BY <1>4 DEF TypeOK, StartCancelled, MainVars, CallVars
<1>5. CASE WaitDone(c)  BY <1>5 DEF TypeOK, WaitDone, MainVars
<1>6. CASE WaitAllDone(c)  BY <1>6 DEF TypeOK, WaitAllDone, MainVars
<1>7. CASE WaitFail(c)  BY <1>7, EndCallType DEF TypeOK, WaitFail, MainVars, Ended
<1>8. CASE WaitCancelled(c)  BY <1>8, EndCallType DEF TypeOK, WaitCancelled, MainVars, Ended
<1>9. CASE LoopReturn(c)  BY <1>9, EndCallType DEF TypeOK, LoopReturn, MainVars, Ended
<1>10. CASE LoopFail(c)  BY <1>10, EndCallType DEF TypeOK, LoopFail, MainVars, Ended
<1>11. CASE LoopCancelled(c)  BY <1>11 DEF TypeOK, LoopCancelled, MainVars
<1>12. CASE ThreadLoopCancelled(c)
  <2>1. CASE threadStop[c] = "pending"
    BY <1>12, <2>1 DEF TypeOK, ThreadLoopCancelled, MainVars
  <2>2. CASE threadStop[c] # "pending"
    BY <1>12, <2>2, EndCallType DEF TypeOK, ThreadLoopCancelled, MainVars, Ended
  <2> QED  BY <2>1, <2>2
<1>13. CASE EventLoopCancelled(c)
  BY <1>13, EndCallType DEF TypeOK, EventLoopCancelled, MainVars, Ended
<1>14. CASE GrpcLoopCancelled(c)
  BY <1>14, EndCallType DEF TypeOK, GrpcLoopCancelled, MainVars, Ended
<1>15. CASE StopDone(c)  BY <1>15, EndCallType DEF TypeOK, StopDone, MainVars, Ended
<1>16. CASE StopFail(c)  BY <1>16, EndCallType DEF TypeOK, StopFail, MainVars, Ended
<1>17. CASE LosesCancel(c)  BY <1>17 DEF TypeOK, LosesCancel, CallVars
<1> QED
  BY <1>1, <1>2, <1>3, <1>4, <1>5, <1>6, <1>7, <1>8, <1>9, <1>10, <1>11, <1>12,
     <1>13, <1>14, <1>15,
     <1>16, <1>17
     DEF StartStep, CallStep

LEMMA SetupType ==
    ASSUME TypeOK, NEW s \in Coro \cup Parents, SetupStep(s)
    PROVE  TypeOK'
BY DEF TypeOK, SetupStep, SetupDone, SetupFail, SetupCancelled

\* Every reachable state of Manager.main is well typed, for every set of
\* coroutines and every assignment of kinds.
THEOREM TypeCorrect == Spec => []TypeOK
<1>1. TypeOK /\ [Next]_vars => TypeOK'
  <2> SUFFICES ASSUME TypeOK, [Next]_vars PROVE TypeOK'
    OBVIOUS
  <2>1. CASE UNCHANGED vars  BY <2>1 DEF TypeOK, vars
  <2>2. CASE Next  BY <2>2, MainType, TaskType, SetupType DEF Next
  <2> QED  BY <2>1, <2>2
<1> QED  BY InitType, <1>1, PTL DEF Spec

(***************************************************************************)
(* The inductive invariant.  Tasks relates the tasks of one coroutine to   *)
(* each other, Phases says which tasks exist in which phase of main, and   *)
(* Reports that a CancelledError is not lost between the call task it ends *)
(* and main.                                                               *)
(***************************************************************************)
Tasks ==
    \A c \in Coro :
        /\ c \notin coros => call[c] = "none" /\ start[c] = "none"
        /\ call[c] \in {"none", "wait", "waitAll", "loop"} => stop[c] = "none"
        /\ call[c] \in {"waitAll", "loop", "stop"} => start[c] = "done"
        /\ stop[c] # "none" => start[c] = "done"
        /\ call[c] = "cancelled" => c \in cancel /\ stop[c] = "none"
        /\ c \in cancel => call[c] # "none"
        /\ c \in cancel \ lost /\ Kind[c] \in {"base", "event"}
                /\ call[c] \in {"returned", "failed"} => stop[c] \in {"done", "failed"}

Phases ==
    /\ cancel \subseteq coros /\ lost \subseteq cancel \cap Lossy
    /\ phase \in {"init", "setup"} =>
          \A c \in Coro : call[c] = "none" /\ start[c] = "none"
    /\ phase \in {"init", "setup", "running"} =>
          cancel = {} /\ todo = {} /\ reports = << >> /\ ~timedOut
    /\ phase \in {"init", "setup", "running", "closing"} <=> result = "none"
    /\ phase \in {"running", "closing"} => \A c \in coros : call[c] # "none"
    /\ phase = "closing" => Live \subseteq cancel
    /\ phase = "closing" /\ ~timedOut => todo = Live
    /\ phase \in {"leaving", "down"} => \A c \in coros \ cancel : call[c] \in {"none"} \cup Ended
    /\ result = "returned" /\ ~timedOut =>
          \A c \in coros : call[c] \in {"none", "returned", "failed"}
    /\ \A c \in coros : call[c] = "none" => start[c] = "none"

Reports ==
    /\ \A i \in 1 .. Len(reports) :
          reports[i] = "cancelled" => \E c \in Coro : call[c] = "cancelled"
    /\ phase = "closing" /\ ~timedOut =>
          \A c \in Coro : call[c] = "cancelled" =>
              \E i \in 1 .. Len(reports) : reports[i] = "cancelled"
    /\ result = "cancelled" => \E c \in Coro : call[c] = "cancelled"

ServesLast ==
    \A c \in Coro : Kind[c] = "grpc" /\ call[c] = "loop" =>
        \A d \in coros : start[d] # "running"

IInv == TypeOK /\ Tasks /\ Phases /\ Reports /\ ServesLast

LEMMA CallTasks ==
    ASSUME IInv, NEW c \in Coro, Register(c) \/ StartStep(c) \/ CallStep(c)
    PROVE  Tasks'
<1> USE DEF IInv, TypeOK, Tasks, Phases
<1>1. CASE Register(c)  BY <1>1 DEF Register
<1>2. CASE StartDone(c)  BY <1>2 DEF StartDone, MainVars, CallVars
<1>3. CASE StartFail(c)  BY <1>3 DEF StartFail, MainVars, CallVars
<1>4. CASE StartCancelled(c)  BY <1>4 DEF StartCancelled, MainVars, CallVars
<1>5. CASE WaitDone(c)  BY <1>5 DEF WaitDone, MainVars
<1>6. CASE WaitAllDone(c)  BY <1>6 DEF WaitAllDone, MainVars
<1>7. CASE WaitFail(c)  BY <1>7 DEF WaitFail, MainVars, EndCall, Ended
<1>8. CASE WaitCancelled(c)  BY <1>8 DEF WaitCancelled, MainVars, EndCall, Ended
<1>9. CASE LoopReturn(c)  BY <1>9 DEF LoopReturn, MainVars, EndCall, Ended
<1>10. CASE LoopFail(c)  BY <1>10 DEF LoopFail, MainVars, EndCall, Ended
<1>11. CASE LoopCancelled(c)  BY <1>11 DEF LoopCancelled, MainVars
<1>12. CASE ThreadLoopCancelled(c)  BY <1>12 DEF ThreadLoopCancelled, MainVars, EndCall, Ended
<1>13. CASE EventLoopCancelled(c)  BY <1>13 DEF EventLoopCancelled, MainVars, EndCall, Ended
<1>14. CASE GrpcLoopCancelled(c)  BY <1>14 DEF GrpcLoopCancelled, MainVars, EndCall, Ended
<1>15. CASE StopDone(c)  BY <1>15 DEF StopDone, MainVars, EndCall, Ended
<1>16. CASE StopFail(c)  BY <1>16 DEF StopFail, MainVars, EndCall, Ended
<1>17. CASE LosesCancel(c)  BY <1>17 DEF LosesCancel, CallVars
<1> QED
  BY <1>1, <1>2, <1>3, <1>4, <1>5, <1>6, <1>7, <1>8, <1>9, <1>10, <1>11, <1>12, <1>13, <1>14, <1>15,
     <1>16, <1>17
     DEF StartStep, CallStep

LEMMA MainTasks == IInv /\ (MainStep \/ Stop) => Tasks'
<1> SUFFICES ASSUME IInv, MainStep \/ Stop PROVE Tasks'
  OBVIOUS
<1> USE DEF IInv, TypeOK, Tasks, Phases
<1>1. CASE CreateSetups  BY <1>1 DEF CreateSetups
<1>2. CASE SetupsAborted  BY <1>2 DEF SetupsAborted
<1>3. CASE SetupsConcluded  BY <1>3 DEF SetupsConcluded
<1>4. CASE Shutdown  BY <1>4 DEF Shutdown, Live, Ended
<1>5. CASE Collect  BY <1>5 DEF Collect
<1>6. CASE Timeout  BY <1>6 DEF Timeout
<1>7. CASE Return  BY <1>7 DEF Return
<1>8. CASE Exit  BY <1>8 DEF Exit
<1>9. CASE Stop  BY <1>9 DEF Stop
<1> QED
  BY <1>1, <1>2, <1>3, <1>4, <1>5, <1>6, <1>7, <1>8, <1>9 DEF MainStep

LEMMA SetupTasks ==
    ASSUME IInv, NEW s \in Coro \cup Parents, SetupStep(s)
    PROVE  Tasks'
BY DEF IInv, TypeOK, Tasks, Phases, SetupStep, SetupDone, SetupFail, SetupCancelled

LEMMA EndCallPhases ==
    ASSUME IInv, NEW c \in Coro, NEW o \in Ended, EndCall(c, o),
           call[c] \notin Ended, call[c] # "none", UNCHANGED <<MainVars, start>>
    PROVE  Phases'
<1> USE DEF IInv, TypeOK, Ended, MainVars
<1>1. c \in coros /\ call'[c] = o /\ \A d \in Coro : d # c => call'[d] = call[d]
  BY DEF EndCall, Tasks
<1>2. Live' = Live \ {c} /\ todo' = todo \ {c}
  BY <1>1 DEF EndCall, Live
<1>3. phase \notin {"init", "setup"}
  BY DEF Phases
<1>4. phase = "running" => todo = {} /\ reports = << >> /\ reports' = reports
  BY DEF Phases, EndCall
<1>5. ~(result = "returned" /\ ~timedOut)
  BY <1>1 DEF Phases
<1> QED  BY <1>1, <1>2, <1>3, <1>4, <1>5 DEF Phases

LEMMA CallPhases ==
    ASSUME IInv, NEW c \in Coro, Register(c) \/ StartStep(c) \/ CallStep(c)
    PROVE  Phases'
<1> USE DEF IInv, TypeOK, Tasks, Phases, Live
<1>1. CASE Register(c)  BY <1>1 DEF Register
<1>2. CASE StartDone(c)  BY <1>2 DEF StartDone, MainVars, CallVars
<1>3. CASE StartFail(c)  BY <1>3 DEF StartFail, MainVars, CallVars
<1>4. CASE StartCancelled(c)  BY <1>4 DEF StartCancelled, MainVars, CallVars
<1>5. CASE WaitDone(c)  BY <1>5 DEF WaitDone, MainVars, Ended
<1>6. CASE WaitAllDone(c)  BY <1>6 DEF WaitAllDone, MainVars, Ended
<1>7. CASE WaitFail(c)  BY <1>7, EndCallPhases DEF WaitFail, MainVars, Ended
<1>8. CASE WaitCancelled(c)  BY <1>8, EndCallPhases DEF WaitCancelled, MainVars, Ended
<1>9. CASE LoopReturn(c)  BY <1>9, EndCallPhases DEF LoopReturn, MainVars, Ended
<1>10. CASE LoopFail(c)  BY <1>10, EndCallPhases DEF LoopFail, MainVars, Ended
<1>11. CASE LoopCancelled(c)  BY <1>11 DEF LoopCancelled, MainVars, Ended
<1>12. CASE ThreadLoopCancelled(c)
  <2>1. CASE threadStop[c] = "pending"
    BY <1>12, <2>1 DEF ThreadLoopCancelled, MainVars, Ended
  <2>2. CASE threadStop[c] # "pending"
    BY <1>12, <2>2, EndCallPhases DEF ThreadLoopCancelled, MainVars, Ended
  <2> QED  BY <2>1, <2>2
<1>13. CASE EventLoopCancelled(c)  BY <1>13, EndCallPhases DEF EventLoopCancelled, MainVars, Ended
<1>14. CASE GrpcLoopCancelled(c)  BY <1>14, EndCallPhases DEF GrpcLoopCancelled, MainVars, Ended
<1>15. CASE StopDone(c)  BY <1>15, EndCallPhases DEF StopDone, MainVars, Ended
<1>16. CASE StopFail(c)  BY <1>16, EndCallPhases DEF StopFail, MainVars, Ended
<1>17. CASE LosesCancel(c)  BY <1>17 DEF LosesCancel, CallVars
<1> QED
  BY <1>1, <1>2, <1>3, <1>4, <1>5, <1>6, <1>7, <1>8, <1>9, <1>10, <1>11, <1>12, <1>13, <1>14, <1>15,
     <1>16, <1>17
     DEF StartStep, CallStep

LEMMA MainPhases == IInv /\ (MainStep \/ Stop) => Phases'
<1> SUFFICES ASSUME IInv, MainStep \/ Stop PROVE Phases'
  OBVIOUS
<1> USE DEF IInv, TypeOK, Tasks, Phases, Live
<1>1. CASE CreateSetups  BY <1>1 DEF CreateSetups
<1>2. CASE SetupsAborted  BY <1>2 DEF SetupsAborted
<1>3. CASE SetupsConcluded  BY <1>3 DEF SetupsConcluded
<1>4. CASE Shutdown  BY <1>4 DEF Shutdown, Live, Ended
<1>5. CASE Collect  BY <1>5 DEF Collect
<1>6. CASE Timeout  BY <1>6 DEF Timeout
<1>7. CASE Return
  <2>1. ~timedOut => \A c \in Coro : call[c] # "cancelled"
    BY <1>7 DEF Return, Reports
  <2> QED  BY <1>7, <2>1 DEF Return, Ended
<1>8. CASE Exit  BY <1>8 DEF Exit
<1>9. CASE Stop  BY <1>9 DEF Stop
<1> QED
  BY <1>1, <1>2, <1>3, <1>4, <1>5, <1>6, <1>7, <1>8, <1>9 DEF MainStep

LEMMA SetupPhases ==
    ASSUME IInv, NEW s \in Coro \cup Parents, SetupStep(s)
    PROVE  Phases'
BY DEF IInv, TypeOK, Tasks, Phases, Live, SetupStep, SetupDone, SetupFail, SetupCancelled, Live

LEMMA CallServing ==
    ASSUME IInv, NEW c \in Coro, Register(c) \/ StartStep(c) \/ CallStep(c)
    PROVE  ServesLast'
<1> USE DEF IInv, TypeOK, Tasks, Phases, ServesLast
<1>1. CASE Register(c)  BY <1>1 DEF Register
<1>2. CASE StartDone(c)  BY <1>2 DEF StartDone, MainVars, CallVars
<1>3. CASE StartFail(c)  BY <1>3 DEF StartFail, MainVars, CallVars
<1>4. CASE StartCancelled(c)  BY <1>4 DEF StartCancelled, MainVars, CallVars
<1>5. CASE WaitDone(c)  BY <1>5 DEF WaitDone, MainVars
<1>6. CASE WaitAllDone(c)  BY <1>6 DEF WaitAllDone, MainVars
<1>7. CASE WaitFail(c)  BY <1>7 DEF WaitFail, MainVars, EndCall, Ended
<1>8. CASE WaitCancelled(c)  BY <1>8 DEF WaitCancelled, MainVars, EndCall, Ended
<1>9. CASE LoopReturn(c)  BY <1>9 DEF LoopReturn, MainVars, EndCall, Ended
<1>10. CASE LoopFail(c)  BY <1>10 DEF LoopFail, MainVars, EndCall, Ended
<1>11. CASE LoopCancelled(c)  BY <1>11 DEF LoopCancelled, MainVars
<1>12. CASE ThreadLoopCancelled(c)  BY <1>12 DEF ThreadLoopCancelled, MainVars, EndCall, Ended
<1>13. CASE EventLoopCancelled(c)  BY <1>13 DEF EventLoopCancelled, MainVars, EndCall, Ended
<1>14. CASE GrpcLoopCancelled(c)  BY <1>14 DEF GrpcLoopCancelled, MainVars, EndCall, Ended
<1>15. CASE StopDone(c)  BY <1>15 DEF StopDone, MainVars, EndCall, Ended
<1>16. CASE StopFail(c)  BY <1>16 DEF StopFail, MainVars, EndCall, Ended
<1>17. CASE LosesCancel(c)  BY <1>17 DEF LosesCancel, CallVars
<1> QED
  BY <1>1, <1>2, <1>3, <1>4, <1>5, <1>6, <1>7, <1>8, <1>9, <1>10, <1>11, <1>12, <1>13, <1>14, <1>15,
     <1>16, <1>17
     DEF StartStep, CallStep

LEMMA MainServing == IInv /\ (MainStep \/ Stop) => ServesLast'
<1> SUFFICES ASSUME IInv, MainStep \/ Stop PROVE ServesLast'
  OBVIOUS
<1> USE DEF IInv, TypeOK, Tasks, Phases, ServesLast
<1>1. CASE CreateSetups  BY <1>1 DEF CreateSetups
<1>2. CASE SetupsAborted  BY <1>2 DEF SetupsAborted
<1>3. CASE SetupsConcluded  BY <1>3 DEF SetupsConcluded
<1>4. CASE Shutdown  BY <1>4 DEF Shutdown, Live, Ended
<1>5. CASE Collect  BY <1>5 DEF Collect
<1>6. CASE Timeout  BY <1>6 DEF Timeout
<1>7. CASE Return  BY <1>7 DEF Return
<1>8. CASE Exit  BY <1>8 DEF Exit
<1>9. CASE Stop  BY <1>9 DEF Stop
<1> QED
  BY <1>1, <1>2, <1>3, <1>4, <1>5, <1>6, <1>7, <1>8, <1>9 DEF MainStep

LEMMA SetupServing ==
    ASSUME IInv, NEW s \in Coro \cup Parents, SetupStep(s)
    PROVE  ServesLast'
BY DEF IInv, TypeOK, Tasks, Phases, ServesLast, SetupStep, SetupDone, SetupFail, SetupCancelled

LEMMA EndCallReports ==
    ASSUME IInv, NEW c \in Coro, NEW o \in Ended, EndCall(c, o),
           call[c] \notin Ended, call[c] # "none", o = "cancelled" => c \in cancel,
           UNCHANGED MainVars
    PROVE  Reports'
<1> USE DEF IInv, TypeOK, Ended, MainVars
<1>1. ASSUME NEW d \in Coro, call[d] = "cancelled" PROVE call'[d] = "cancelled"
  BY <1>1 DEF EndCall
<1>2. CASE c \in todo
  <2>1. /\ reports' = Append(reports, o)
        /\ Len(reports') = Len(reports) + 1
        /\ reports'[Len(reports) + 1] = o
        /\ \A i \in 1 .. Len(reports) : reports'[i] = reports[i]
        /\ Len(reports) \in Nat
    BY <1>2 DEF EndCall
  <2>2. call'[c] = o
    BY DEF EndCall
  <2>3. \A d \in Coro : d # c => call'[d] = call[d]
    BY DEF EndCall
  <2>4. ASSUME NEW i \in 1 .. Len(reports'), reports'[i] = "cancelled"
        PROVE  \E d \in Coro : call'[d] = "cancelled"
    <3>1. CASE i \in 1 .. Len(reports)
      <4>1. reports[i] = "cancelled"
        BY <2>1, <2>4, <3>1
      <4>2. PICK d \in Coro : call[d] = "cancelled"
        BY <3>1, <4>1 DEF Reports
      <4> QED  BY <1>1, <4>2
    <3>2. CASE i = Len(reports) + 1
      BY <2>1, <2>2, <2>4, <3>2
    <3> QED  BY <2>1, <2>4, <3>1, <3>2
  <2>5. ASSUME phase = "closing", ~timedOut, NEW d \in Coro, call'[d] = "cancelled"
        PROVE  \E i \in 1 .. Len(reports') : reports'[i] = "cancelled"
    <3>1. CASE d = c
      BY <2>1, <2>2, <2>5, <3>1
    <3>2. CASE d # c
      <4>1. PICK i \in 1 .. Len(reports) : reports[i] = "cancelled"
        BY <2>3, <2>5, <3>2 DEF Reports
      <4>2. i \in 1 .. Len(reports')
        BY <2>1
      <4> QED  BY <2>1, <4>1, <4>2
    <3> QED  BY <3>1, <3>2
  <2>6. result = "cancelled" => \E d \in Coro : call'[d] = "cancelled"
    BY <1>1 DEF Reports
  <2> QED  BY <2>4, <2>5, <2>6 DEF Reports
<1>3. CASE c \notin todo
  <2>1. reports' = reports
    BY <1>3 DEF EndCall
  <2>2. ~(phase = "closing" /\ ~timedOut)
    BY <1>3 DEF Phases, Live, Tasks
  <2> QED  BY <1>1, <2>1, <2>2 DEF Reports
<1> QED  BY <1>2, <1>3

LEMMA KeepReports ==
    ASSUME IInv, UNCHANGED <<result, reports>>,
           phase' = "closing" /\ ~timedOut' => phase = "closing" /\ ~timedOut,
           \A c \in Coro : call'[c] = "cancelled" <=> call[c] = "cancelled"
    PROVE  Reports'
BY DEF IInv, Reports

LEMMA CallReports ==
    ASSUME IInv, NEW c \in Coro, Register(c) \/ StartStep(c) \/ CallStep(c)
    PROVE  Reports'
<1> USE DEF IInv, TypeOK
<1>1. CASE Register(c)  BY <1>1, KeepReports DEF Register
<1>2. CASE StartStep(c)
  BY <1>2, KeepReports DEF StartStep, StartDone, StartFail, StartCancelled, MainVars, CallVars
<1>3. CASE WaitDone(c)  BY <1>3, KeepReports DEF WaitDone, MainVars
<1>4. CASE WaitAllDone(c)  BY <1>4, KeepReports DEF WaitAllDone, MainVars
<1>5. CASE LoopCancelled(c)  BY <1>5, KeepReports DEF LoopCancelled, MainVars
<1>6. CASE WaitFail(c)  BY <1>6, EndCallReports DEF WaitFail, MainVars, Ended
<1>7. CASE WaitCancelled(c)  BY <1>7, EndCallReports DEF WaitCancelled, MainVars, Ended
<1>8. CASE LoopReturn(c)  BY <1>8, EndCallReports DEF LoopReturn, MainVars, Ended
<1>9. CASE LoopFail(c)  BY <1>9, EndCallReports DEF LoopFail, MainVars, Ended
<1>10. CASE ThreadLoopCancelled(c)
  <2>1. CASE threadStop[c] = "pending"
    BY <1>10, <2>1, KeepReports DEF ThreadLoopCancelled, MainVars
  <2>2. CASE threadStop[c] # "pending"
    BY <1>10, <2>2, EndCallReports DEF ThreadLoopCancelled, MainVars, Ended
  <2> QED  BY <2>1, <2>2
<1>11. CASE EventLoopCancelled(c)
  BY <1>11, EndCallReports DEF EventLoopCancelled, MainVars, Ended
<1>12. CASE GrpcLoopCancelled(c)
  BY <1>12, EndCallReports DEF GrpcLoopCancelled, MainVars, Ended
<1>13. CASE StopDone(c)  BY <1>13, EndCallReports DEF StopDone, MainVars, Ended
<1>14. CASE StopFail(c)  BY <1>14, EndCallReports DEF StopFail, MainVars, Ended
<1>15. CASE LosesCancel(c)  BY <1>15, KeepReports DEF LosesCancel, CallVars
<1> QED
  BY <1>1, <1>2, <1>3, <1>4, <1>5, <1>6, <1>7, <1>8, <1>9, <1>10, <1>11, <1>12,
     <1>13, <1>14, <1>15 DEF CallStep

LEMMA MainReports == IInv /\ (MainStep \/ Stop) => Reports'
<1> SUFFICES ASSUME IInv, MainStep \/ Stop PROVE Reports'
  OBVIOUS
<1> USE DEF IInv, TypeOK
<1>1. CASE CreateSetups  BY <1>1, KeepReports DEF CreateSetups, Reports
<1>2. CASE SetupsAborted  BY <1>2 DEF SetupsAborted, Reports
<1>3. CASE SetupsConcluded  BY <1>3, KeepReports DEF SetupsConcluded, Phases
<1>4. CASE Shutdown
  <2>1. \A c \in Coro : call[c] # "cancelled"
    BY <1>4 DEF Shutdown, Phases, Tasks
  <2> QED  BY <1>4, <2>1 DEF Shutdown, Reports
<1>5. CASE Collect
  <2>1. /\ reports # << >>
        /\ Len(reports) \in Nat
        /\ Len(reports') = Len(reports) - 1
        /\ \A i \in 1 .. Len(reports') : reports'[i] = reports[i + 1]
        /\ reports[1] = Head(reports)
    BY <1>5 DEF Collect
  <2>2. call' = call /\ timedOut' = timedOut
    BY <1>5 DEF Collect
  <2>3. CASE Head(reports) = "cancelled"
    <3>1. \E c \in Coro : call[c] = "cancelled"
      BY <2>1, <2>3 DEF Reports
    <3> QED  BY <1>5, <2>1, <2>2, <2>3, <3>1 DEF Collect, Reports
  <2>4. CASE Head(reports) # "cancelled"
    <3>1. ASSUME NEW i \in 1 .. Len(reports), reports[i] = "cancelled"
          PROVE  i - 1 \in 1 .. Len(reports') /\ reports'[i - 1] = "cancelled"
      BY <2>1, <2>4, <3>1
    <3>2. /\ phase' = phase
          /\ result' = result
      BY <1>5, <2>4 DEF Collect
    <3>3. ASSUME NEW i \in 1 .. Len(reports'), reports'[i] = "cancelled"
          PROVE  \E c \in Coro : call[c] = "cancelled"
      <4>1. i + 1 \in 1 .. Len(reports) /\ reports[i + 1] = "cancelled"
        BY <2>1, <3>3
      <4> QED  BY <4>1 DEF Reports
    <3>4. ASSUME phase = "closing", ~timedOut, NEW c \in Coro, call[c] = "cancelled"
          PROVE  \E i \in 1 .. Len(reports') : reports'[i] = "cancelled"
      <4>1. PICK i \in 1 .. Len(reports) : reports[i] = "cancelled"
        BY <3>4 DEF Reports
      <4> QED  BY <3>1, <4>1
    <3>5. result = "cancelled" => \E c \in Coro : call[c] = "cancelled"
      BY DEF Reports
    <3> QED  BY <2>2, <3>2, <3>3, <3>4, <3>5 DEF Reports
  <2> QED  BY <2>3, <2>4
<1>6. CASE Timeout  BY <1>6 DEF Timeout, Reports
<1>7. CASE Return  BY <1>7 DEF Return, Reports
<1>8. CASE Exit  BY <1>8 DEF Exit, Reports
<1>9. CASE Stop  BY <1>9 DEF Stop, Reports
<1> QED
  BY <1>1, <1>2, <1>3, <1>4, <1>5, <1>6, <1>7, <1>8, <1>9 DEF MainStep

LEMMA SetupReports ==
    ASSUME IInv, NEW s \in Coro \cup Parents, SetupStep(s)
    PROVE  Reports'
BY KeepReports DEF SetupStep, SetupDone, SetupFail, SetupCancelled

-----------------------------------------------------------------------------

LEMMA InitIInv == Init => IInv
<1> SUFFICES ASSUME Init PROVE IInv
  OBVIOUS
<1>1. TypeOK  BY InitType
<1>2. Tasks  BY DEF Init, Tasks
<1>3. Phases  BY DEF Init, Phases, Live
<1>4. Reports  BY DEF Init, Reports
<1>5. ServesLast  BY DEF Init, ServesLast
<1> QED  BY <1>1, <1>2, <1>3, <1>4, <1>5 DEF IInv

LEMMA NextIInv == IInv /\ [Next]_vars => IInv'
<1> SUFFICES ASSUME IInv, [Next]_vars PROVE IInv'
  OBVIOUS
<1>1. CASE UNCHANGED vars
  BY <1>1 DEF vars, IInv, TypeOK, Tasks, Phases, Reports, ServesLast, Live
<1>2. CASE MainStep \/ Stop
  BY <1>2, MainType, MainTasks, MainPhases, MainReports, MainServing DEF IInv
<1>3. ASSUME NEW c \in Coro, Register(c) \/ StartStep(c) \/ CallStep(c)
      PROVE  IInv'
  BY <1>3, TaskType, CallTasks, CallPhases, CallReports, CallServing DEF IInv
<1>4. ASSUME NEW s \in Coro \cup Parents, SetupStep(s)
      PROVE  IInv'
  BY <1>4, SetupType, SetupTasks, SetupPhases, SetupReports, SetupServing DEF IInv
<1> QED  BY <1>1, <1>2, <1>3, <1>4 DEF Next, Down

\* The invariant from which the safety properties below follow.
THEOREM InductiveInvariant == Spec => []IInv
BY InitIInv, NextIInv, PTL DEF Spec

\* Loops and stop methods only ever see a started coroutine.
THEOREM StopOnlyStartedHolds == Spec => []StopOnlyStarted
<1>1. IInv => StopOnlyStarted  BY DEF IInv, Tasks, StopOnlyStarted
<1> QED  BY <1>1, InductiveInvariant, PTL

\* GRPCCoroutine waits for its server's end after every start method has come to an end.
THEOREM GrpcWaitsForAllHolds == Spec => []GrpcWaitsForAll
<1>1. IInv => GrpcWaitsForAll  BY DEF IInv, TypeOK, ServesLast, GrpcWaitsForAll
<1> QED  BY <1>1, InductiveInvariant, PTL

\* A main that returns in time leaves no coroutine running or cancelled, and every base or
\* event coroutine that noticed its cancel has been stopped.
THEOREM OrderlyShutdownHolds == Spec => []OrderlyShutdown
<1>1. IInv => OrderlyShutdown
  <2> SUFFICES ASSUME IInv, result = "returned", ~timedOut, NEW c \in coros
               PROVE  /\ call[c] \in {"none", "returned", "failed"}
                      /\ c \in cancel \ lost /\ Kind[c] \in {"base", "event"}
                           => stop[c] \in {"done", "failed"}
    BY DEF OrderlyShutdown
  <2>1. call[c] \in {"none", "returned", "failed"}
    BY DEF IInv, Phases
  <2>2. call[c] = "none" => c \notin cancel
    BY DEF IInv, TypeOK, Tasks
  <2> QED  BY <2>1, <2>2 DEF IInv, TypeOK, Tasks
<1> QED  BY <1>1, InductiveInvariant, PTL

\* Only a coroutine that has not begun to loop can abort main.
THEOREM AbortOnlyWhileStartingHolds == Spec => []AbortOnlyWhileStarting
<1>1. IInv => AbortOnlyWhileStarting
  BY DEF IInv, Tasks, Reports, AbortOnlyWhileStarting
<1> QED  BY <1>1, InductiveInvariant, PTL

(***************************************************************************)
(* Action properties.                                                      *)
(***************************************************************************)
\* A step that is no call step of c leaves call[c] alone or creates the task.
LEMMA OtherSteps ==
    ASSUME IInv, [Next]_vars, phase \in {"closing", "leaving"},
           NEW c \in Coro, call'[c] = "loop", call[c] # "loop"
    PROVE  WaitDone(c) \/ WaitAllDone(c)
<1> USE DEF IInv, TypeOK
<1>1. CASE UNCHANGED vars  BY <1>1 DEF vars
<1>2. CASE MainStep \/ Stop \/ Down
  BY <1>2 DEF MainStep, CreateSetups, SetupsAborted, SetupsConcluded, Shutdown, Collect,
              Timeout, Return, Exit, Stop, Down, vars
<1>3. CASE \E s \in Coro \cup Parents : SetupStep(s)
  BY <1>3 DEF SetupStep, SetupDone, SetupFail, SetupCancelled
<1>4. ASSUME NEW d \in Coro, Register(d) \/ StartStep(d)
      PROVE  FALSE
  BY <1>4 DEF Register, StartStep, StartDone, StartFail, StartCancelled, MainVars, CallVars
<1>5. ASSUME NEW d \in Coro, CallStep(d)
      PROVE  WaitDone(c) \/ WaitAllDone(c)
  <2>1. CASE d = c
    BY <1>5, <2>1 DEF CallStep, WaitFail, WaitCancelled, LoopReturn, LoopFail, LoopCancelled,
       ThreadLoopCancelled, EventLoopCancelled, GrpcLoopCancelled, StopDone, StopFail,
       LosesCancel, CallVars, EndCall, Ended
  <2>2. CASE d # c
    BY <1>5, <2>2 DEF CallStep, WaitDone, WaitAllDone, WaitFail, WaitCancelled, LoopReturn,
       LoopFail, LoopCancelled, ThreadLoopCancelled, EventLoopCancelled, GrpcLoopCancelled,
       StopDone, StopFail, LosesCancel, CallVars, EndCall
  <2> QED  BY <2>1, <2>2
<1> QED  BY <1>1, <1>2, <1>3, <1>4, <1>5 DEF Next

\* No coroutine enters its loop once main has begun to cancel, but for those that lost
\* their cancel.
THEOREM NoLoopAfterShutdownHolds == Spec => NoLoopAfterShutdown
<1>1. IInv /\ [Next]_vars =>
        [\A c \in Coro : phase \in {"closing", "leaving"} /\ call'[c] = "loop"
                            => call[c] = "loop" \/ c \in lost]_vars
  <2> SUFFICES ASSUME IInv, [Next]_vars, NEW c \in Coro, phase \in {"closing", "leaving"},
                      call'[c] = "loop", call[c] # "loop", c \notin lost
               PROVE  FALSE
    OBVIOUS
  <2>1. WaitDone(c) \/ WaitAllDone(c)
    BY OtherSteps
  <2>2. c \in coros /\ call[c] \in {"wait", "waitAll"} /\ c \notin cancel
    BY <2>1 DEF WaitDone, WaitAllDone, IInv, Tasks
  <2> QED  BY <2>2 DEF IInv, Phases, Live, Ended
<1> QED  BY <1>1, InductiveInvariant, PTL DEF Spec, NoLoopAfterShutdown

(***************************************************************************)
(* Manager.main implements the life cycle of an agent.  Boot says that an  *)
(* aborted boot is told from a shutdown by the setups it left behind.      *)
(***************************************************************************)
Boot ==
    /\ phase \in {"init", "setup"} => \A s \in Coro \cup Parents : setup[s] # "cancelled"
    /\ phase # "init" => \A s \in coros \cup Parents : setup[s] # "none"
    /\ phase \in {"running", "closing"} =>
          \A s \in coros \cup Parents : setup[s] \notin {"running", "cancelled"}
    /\ BootAborted => \A c \in Coro : call[c] = "none"
    /\ BootAborted /\ result = "returned" => \E s \in coros \cup Parents : setup[s] = "failed"

LEMMA MainBoot == IInv /\ Boot /\ (MainStep \/ Stop \/ Down) => Boot'
<1> SUFFICES ASSUME IInv, Boot, MainStep \/ Stop \/ Down PROVE Boot'
  OBVIOUS
<1> USE DEF IInv, TypeOK, Boot, BootAborted, Phases
<1>1. CASE CreateSetups  BY <1>1 DEF CreateSetups
<1>2. CASE SetupsAborted  BY <1>2 DEF SetupsAborted
<1>3. CASE SetupsConcluded  BY <1>3 DEF SetupsConcluded
<1>4. CASE Shutdown  BY <1>4 DEF Shutdown
<1>5. CASE Collect  BY <1>5 DEF Collect
<1>6. CASE Timeout  BY <1>6 DEF Timeout
<1>7. CASE Return  BY <1>7 DEF Return
<1>8. CASE Exit  BY <1>8 DEF Exit
<1>9. CASE Stop  BY <1>9 DEF Stop
<1>10. CASE Down  BY <1>10 DEF Down, vars
<1> QED
  BY <1>1, <1>2, <1>3, <1>4, <1>5, <1>6, <1>7, <1>8, <1>9, <1>10 DEF MainStep

LEMMA NextBoot == IInv /\ Boot /\ [Next]_vars => Boot'
<1> SUFFICES ASSUME IInv, Boot, [Next]_vars PROVE Boot'
  OBVIOUS
<1> USE DEF IInv, TypeOK, Boot, BootAborted
<1>1. CASE UNCHANGED vars  BY <1>1 DEF vars
<1>2. CASE MainStep \/ Stop \/ Down
  BY <1>2, MainBoot
<1>3. ASSUME NEW s \in Coro \cup Parents, SetupStep(s) PROVE Boot'
  <2>1. CASE SetupDone(s)  BY <2>1 DEF SetupDone
  <2>2. CASE SetupFail(s)  BY <2>2 DEF SetupFail
  <2>3. CASE SetupCancelled(s)  BY <2>3 DEF SetupCancelled
  <2> QED  BY <1>3, <2>1, <2>2, <2>3 DEF SetupStep
<1>4. ASSUME NEW c \in Coro, Register(c) \/ StartStep(c) PROVE Boot'
  BY <1>4 DEF Register, StartStep, StartDone, StartFail, StartCancelled, MainVars, CallVars
<1>5. ASSUME NEW c \in Coro, CallStep(c) PROVE Boot'
  <2>1. /\ UNCHANGED <<phase, result, coros, setup>>
        /\ call[c] # "none" /\ \A d \in Coro : call[d] = "none" => call'[d] = "none"
    BY <1>5 DEF CallStep, WaitDone, WaitAllDone, WaitFail, WaitCancelled, LoopReturn,
       LoopFail, LoopCancelled, ThreadLoopCancelled, EventLoopCancelled, GrpcLoopCancelled,
       StopDone, StopFail, LosesCancel, CallVars, MainVars, EndCall
  <2> QED  BY <2>1
<1> QED  BY <1>1, <1>2, <1>3, <1>4, <1>5 DEF Next

LEMMA BootInvariant == Spec => []Boot
<1>1. Init => Boot  BY DEF Init, Boot, BootAborted
<1> QED  BY <1>1, NextBoot, InductiveInvariant, PTL DEF Spec

\* No start method is awaited while a setup method is running, and a boot is given up only
\* because a setup failed.
THEOREM SetupsFirstHolds == Spec => []SetupsFirst
<1>1. IInv /\ Boot => SetupsFirst
  <2> SUFFICES ASSUME IInv, Boot PROVE SetupsFirst
    OBVIOUS
  <2> DEFINE ended == {s \in coros \cup Parents : setup[s] \in {"done", "failed"}}
  <2>1. ASSUME NEW c \in coros, start[c] # "none" PROVE ended = coros \cup Parents
    <3>1. call[c] # "none" /\ phase \notin {"init", "setup"} /\ c \in Coro
      BY <2>1 DEF IInv, TypeOK, Phases
    <3>2. \A s \in coros \cup Parents : setup[s] \notin {"none", "running", "cancelled"}
      BY <3>1 DEF IInv, TypeOK, Boot, BootAborted
    <3> QED  BY <3>2 DEF IInv, TypeOK
  <2>2. ASSUME phase \in {"leaving", "down"}, result = "returned", ended # coros \cup Parents
        PROVE  \E s \in ended : setup[s] = "failed"
    <3>1. BootAborted
      BY <2>2 DEF IInv, TypeOK, Boot, BootAborted
    <3> QED  BY <2>2, <3>1 DEF Boot
  <2> QED  BY <2>1, <2>2 DEF SetupsFirst
<1> QED  BY <1>1, InductiveInvariant, BootInvariant, PTL

LEMMA CallRefines ==
    ASSUME IInv, Boot, NEW c \in Coro, CallStep(c)
    PROVE  Lifecycle!Enter(c) \/ Lifecycle!Leave(c) \/ UNCHANGED <<Stage, Serving, Outcome>>
<1> USE DEF IInv, TypeOK, Ended
<1>1. /\ UNCHANGED <<phase, result, coros, setup, timedOut>>
      /\ call[c] # "none" /\ LoopRuns
  BY DEF CallStep, WaitDone, WaitAllDone, WaitFail, WaitCancelled, LoopReturn, LoopFail,
     LoopCancelled, ThreadLoopCancelled, EventLoopCancelled, GrpcLoopCancelled,
     StopDone, StopFail, LosesCancel, MainVars
<1>2. Stage' = Stage /\ Stage \in {"serve", "stop"}
  BY <1>1 DEF Stage, BootAborted, Boot, Phases, LoopRuns
<1>8. Outcome' = Outcome
  BY <1>1, <1>2 DEF Outcome, Stage, BootAborted
<1>3. \A d \in Coro : d # c => call'[d] = call[d]
  BY DEF CallStep, WaitDone, WaitAllDone, WaitFail, WaitCancelled, LoopReturn, LoopFail,
     LoopCancelled, ThreadLoopCancelled, EventLoopCancelled, GrpcLoopCancelled,
     StopDone, StopFail, LosesCancel, CallVars, EndCall
<1>4. CASE call[c] \in {"loop", "stop"} /\ call'[c] \in {"loop", "stop"}
  <2>1. Serving' = Serving
    BY <1>3, <1>4 DEF Serving
  <2> QED  BY <1>2, <1>8, <2>1
<1>5. CASE call[c] \in {"loop", "stop"} /\ call'[c] \notin {"loop", "stop"}
  <2>1. c \in Serving /\ Serving' = Serving \ {c}
    BY <1>3, <1>5 DEF Serving
  <2> QED  BY <1>2, <1>8, <2>1 DEF Lifecycle!Leave
<1>6. CASE call[c] \notin {"loop", "stop"} /\ call'[c] \notin {"loop", "stop"}
  <2>1. Serving' = Serving
    BY <1>3, <1>6 DEF Serving
  <2> QED  BY <1>2, <1>8, <2>1
<1>7. CASE call[c] \notin {"loop", "stop"} /\ call'[c] \in {"loop", "stop"}
  <2>1. WaitDone(c) \/ WaitAllDone(c)
    BY <1>7 DEF CallStep, WaitDone, WaitAllDone, WaitFail, WaitCancelled, LoopReturn, LoopFail,
       LoopCancelled, ThreadLoopCancelled, EventLoopCancelled, GrpcLoopCancelled,
       StopDone, StopFail, LosesCancel, CallVars, EndCall
  <2>2. c \in coros /\ ~Cancelling(c) /\ call[c] \in {"wait", "waitAll"}
    BY <2>1 DEF WaitDone, WaitAllDone, Tasks
  <2>3. phase = "running" \/ c \in Lossy
    BY <1>1, <2>2 DEF LoopRuns, Phases, Live
  <2>4. Serving' = Serving \cup {c}
    BY <1>3, <1>7 DEF Serving
  <2> QED  BY <1>2, <1>8, <2>3, <2>4 DEF Lifecycle!Enter, Stage
<1> QED  BY <1>4, <1>5, <1>6, <1>7

LEMMA NextRefines ==
    IInv /\ Boot /\ Boot' /\ [Next]_vars => [Lifecycle!Next]_<<Stage, Serving, Outcome>>
<1> SUFFICES ASSUME IInv, Boot, Boot', [Next]_vars
             PROVE  Lifecycle!Next \/ UNCHANGED <<Stage, Serving, Outcome>>
  OBVIOUS
<1> USE DEF IInv, TypeOK
<1>1. CASE UNCHANGED vars
  BY <1>1 DEF vars, Stage, Serving, Outcome, BootAborted
<1>2. CASE MainStep
  <2>1. Serving' = Serving
    BY <1>2 DEF MainStep, CreateSetups, SetupsAborted, SetupsConcluded, Shutdown, Collect,
       Timeout, Return, Exit, Serving, Phases
  <2>2. CASE CreateSetups
    BY <2>1, <2>2 DEF CreateSetups, Stage, Outcome, BootAborted,
       Lifecycle!Next, Lifecycle!BootFailed
  <2>3. CASE SetupsAborted
    BY <2>1, <2>3 DEF SetupsAborted, Stage, Outcome, BootAborted,
       Lifecycle!Next, Lifecycle!BootFailed
  <2>4. CASE SetupsConcluded
    BY <2>1, <2>4 DEF SetupsConcluded, Stage, Outcome, Lifecycle!Next, Lifecycle!Serve
  <2>5. CASE Shutdown
    BY <2>1, <2>5 DEF Shutdown, Stage, Outcome, BootAborted, Lifecycle!Next, Lifecycle!Close
  <2>6. CASE Collect \/ Timeout \/ Return
    BY <2>1, <2>6 DEF Collect, Timeout, Return, Stage, Outcome, BootAborted, Boot, Phases
  <2>7. CASE Exit
    <3>1. phase = "leaving" /\ phase' = "down" /\ UNCHANGED <<result, setup, coros, timedOut>>
      BY <2>7 DEF Exit
    <3>2. BootAborted' <=> BootAborted
      BY <3>1 DEF BootAborted
    <3>3. CASE BootAborted
      BY <2>1, <3>1, <3>2, <3>3 DEF Stage, Outcome
    <3>4. CASE ~BootAborted
      <4>1. result \in {"returned", "cancelled"}
        BY <3>1, <3>4 DEF BootAborted, Phases
      <4>2. result = "returned" /\ ~timedOut => Serving = {}
        BY DEF Phases, Tasks, Serving
      <4>3. Stage = "stop" /\ Stage' = "down"
        BY <3>1, <3>2, <3>4 DEF Stage
      <4>4. /\ Outcome' \in {"orderly", "timeout", "aborted"}
            /\ Outcome' = "orderly" => result = "returned" /\ ~timedOut
        BY <3>1, <3>2, <3>4, <4>1, <4>3 DEF Outcome
      <4> QED  BY <2>1, <4>2, <4>3, <4>4 DEF Lifecycle!Next, Lifecycle!GoDown
    <3> QED  BY <3>3, <3>4
  <2> QED  BY <1>2, <2>2, <2>3, <2>4, <2>5, <2>6, <2>7 DEF MainStep
<1>3. CASE Stop \/ Down
  BY <1>3 DEF Stop, Down, vars, Stage, Serving, Outcome, BootAborted
<1>4. ASSUME NEW s \in Coro \cup Parents, SetupStep(s)
      PROVE  UNCHANGED <<Stage, Serving, Outcome>>
  <2>1. UNCHANGED <<phase, result, coros, call, timedOut>>
    BY <1>4 DEF SetupStep, SetupDone, SetupFail, SetupCancelled
  <2>2. phase = "leaving" => (BootAborted <=> BootAborted')
    BY <1>4, <2>1 DEF SetupStep, SetupDone, SetupFail, SetupCancelled, BootAborted
  <2>3. phase \in {"setup", "leaving"}
    BY <1>4 DEF SetupStep, SetupDone, SetupFail, SetupCancelled
  <2> QED  BY <2>1, <2>2, <2>3 DEF Stage, Serving, Outcome, BootAborted
<1>5. ASSUME NEW c \in Coro, Register(c) \/ StartStep(c)
      PROVE  UNCHANGED <<Stage, Serving, Outcome>>
  <2>1. UNCHANGED <<phase, result, setup, call, timedOut>> /\ (coros' = coros \/ phase = "init")
    BY <1>5 DEF Register, StartStep, StartDone, StartFail, StartCancelled, MainVars, CallVars
  <2> QED  BY <2>1 DEF Stage, Serving, Outcome, BootAborted
<1>6. ASSUME NEW c \in Coro, CallStep(c)
      PROVE  Lifecycle!Next \/ UNCHANGED <<Stage, Serving, Outcome>>
  BY <1>6, CallRefines DEF Lifecycle!Next
<1> QED  BY <1>1, <1>2, <1>3, <1>4, <1>5, <1>6 DEF Next

\* Every behaviour of main is, seen from outside, one of the agent life cycle.
THEOREM Implements == Spec => ImplementsLifecycle
<1>1. Init => Lifecycle!Init
  BY DEF Init, Lifecycle!Init, Stage, Serving, Outcome
<1> QED
  BY <1>1, NextRefines, InductiveInvariant, BootInvariant, PTL
  DEF Spec, ImplementsLifecycle, Lifecycle!Spec, Lifecycle!lifecycleVars

-----------------------------------------------------------------------------
(* The loop of an event coroutine (EventCoroutine).                        *)

USE EventAssumption

(***************************************************************************)
(* The event stands for an unserved call: one is set for every call that   *)
(* no main followed, and is set by nothing else as long as nobody stops.   *)
(***************************************************************************)
Pending ==
    /\ pc # "ended" /\ asked => event
    /\ pc # "ended" /\ event /\ ~stopped => due

EventInv == EventTypeOK /\ Pending

LEMMA EventInvInit == EventInit => EventInv
  BY DEF EventInit, EventInv, EventTypeOK, Pending

LEMMA EventInvStep == EventInv /\ [EventNext]_eventVars => EventInv'
<1> SUFFICES ASSUME EventInv, [EventNext]_eventVars PROVE EventInv'
  OBVIOUS
<1> USE DEF EventInv, EventTypeOK, Pending, ghosts
<1>1. CASE UNCHANGED eventVars \/ LoopEnded
  BY <1>1 DEF eventVars, LoopEnded
<1>2. CASE Start
  BY <1>2 DEF Start
<1>3. CASE Run
  BY <1>3 DEF Run
<1>4. CASE StopCalled
  BY <1>4 DEF StopCalled
<1>5. CASE Cancel
  BY <1>5 DEF Cancel
<1>6. ASSUME Leave, cancelled' => cancelled, cancelled' \in BOOLEAN PROVE EventInv'
  BY <1>6 DEF Leave
<1>7. ASSUME Continue(TRUE, event), cancelled' = cancelled, pc # "ended" PROVE EventInv'
  <2>1. CASE Leave
    BY <1>7, <1>6, <2>1
  <2>2. CASE ~Leave
    <3>1. /\ ~stopped /\ pc' = "main" /\ event' = event /\ periodic' = TRUE /\ asked' = FALSE
          /\ turn' = ~turn /\ due' = due /\ timer' = FALSE /\ UNCHANGED <<stopped, cancels, legacy>>
      BY <1>7, <2>2 DEF Continue
    <3>2. turn' \in BOOLEAN
      BY <3>1, Zenon
    <3> QED  BY <1>7, <3>1, <3>2
  <2> QED  BY <2>1, <2>2
<1>8. ASSUME Continue(FALSE, FALSE), ~cancelled', cancelled' \in BOOLEAN PROVE EventInv'
  <2>1. CASE Leave
    BY <1>8, <1>6, <2>1
  <2>2. CASE ~Leave
    <3>1. /\ ~stopped /\ pc' = "main" /\ event' = FALSE /\ periodic' = FALSE /\ asked' = FALSE
          /\ turn' = ~turn /\ due' = FALSE /\ timer' = FALSE
          /\ UNCHANGED <<stopped, cancels, legacy>>
      BY <1>8, <2>2 DEF Continue
    <3>2. turn' \in BOOLEAN
      BY <3>1, Zenon
    <3> QED  BY <1>8, <3>1, <3>2
  <2> QED  BY <2>1, <2>2
<1>9. CASE LoopStarts \/ MainTimesOut \/ TimerExpires
  BY <1>7, <1>9 DEF LoopStarts, MainTimesOut, TimerExpires
<1>10. CASE Woken \/ CancelLost
  BY <1>8, <1>10 DEF Woken, CancelLost
<1>11. CASE CancelledBeforeLoop
  BY <1>11 DEF CancelledBeforeLoop
<1>12. CASE MainReturns
  BY <1>12 DEF MainReturns
<1>13. CASE MainFails \/ CancelledInLoop
  BY <1>6, <1>13 DEF MainFails, CancelledInLoop
<1> QED
  BY <1>1, <1>2, <1>3, <1>4, <1>5, <1>9, <1>10, <1>11, <1>12, <1>13 DEF EventNext, LoopStep

\* The inductive invariant holds in every reachable state.
THEOREM EventInvariance == EventSpec => []EventInv
  BY EventInvInit, EventInvStep, PTL DEF EventSpec

\* The variables of the event coroutine keep their types.
THEOREM EventTypeCorrect == EventSpec => []EventTypeOK
<1>1. EventInv => EventTypeOK
  BY DEF EventInv
<1> QED  BY <1>1, EventInvariance, PTL

\* No call of run is lost.
THEOREM NoLostWakeupHolds == EventSpec => []NoLostWakeup
<1>1. EventInv => NoLostWakeup
  BY DEF EventInv, Pending, NoLostWakeup
<1> QED  BY <1>1, EventInvariance, PTL

\* main is called with periodic=False only for a call of run.
THEOREM CoalescedHolds == EventSpec => Coalesced
<1>1. EventInv /\ [EventNext]_eventVars => [turn' # turn /\ ~periodic' => due]_eventVars
  <2> SUFFICES ASSUME EventInv, EventNext, turn' # turn, ~periodic' PROVE due
    OBVIOUS
  <2>1. CASE Woken \/ CancelLost
    BY <2>1 DEF EventInv, EventTypeOK, Pending, Woken, CancelLost, Continue, Leave
  <2>2. CASE ~(Woken \/ CancelLost)
    BY <2>2 DEF EventNext, LoopStep, Start, Run, StopCalled, Cancel, LoopEnded, eventVars, ghosts,
       LoopStarts, CancelledBeforeLoop, MainReturns, MainTimesOut, MainFails, TimerExpires,
       CancelledInLoop, Continue, Leave
  <2> QED  BY <2>1, <2>2
<1> QED  BY <1>1, EventInvariance, PTL DEF EventSpec, Coalesced

\* No main begins once stop was called.
THEOREM NoMainAfterStopHolds == EventSpec => NoMainAfterStop
<1>1. [EventNext]_eventVars => [stopped => turn' = turn]_eventVars
  BY DEF EventNext, LoopStep, Start, Run, StopCalled, Cancel, LoopEnded, eventVars, ghosts,
     LoopStarts, CancelledBeforeLoop, MainReturns, MainTimesOut, MainFails, Woken, TimerExpires,
     CancelledInLoop, CancelLost, Continue, Leave
<1> QED  BY <1>1, PTL DEF EventSpec, NoMainAfterStop
=============================================================================
