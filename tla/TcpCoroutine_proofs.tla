------------------------- MODULE TcpCoroutine_proofs -------------------------
(* Proofs about TcpCoroutine for every interval of the heartbeat. *)
EXTENDS TcpCoroutine, TLAPS

USE TcpAssumption

(***************************************************************************)
(* The sleep of the heartbeat ends no later than an interval after what    *)
(* was written last; _last is as old as that.                              *)
(***************************************************************************)
Timer ==
    /\ last \in 0 .. Interval /\ left \in 0 .. Interval
    /\ age = last
    /\ hb = "created" => Interval > 0
    /\ hb = "sleep" => age + left <= Interval

LEMMA InitTimer == Init => Timer
  BY DEF Init, Timer

LEMMA StepTimer == Timer /\ [Next]_vars => Timer'
<1> SUFFICES ASSUME Timer, [Next]_vars PROVE Timer'
  OBVIOUS
<1> USE DEF Timer
<1>0. ASSUME UNCHANGED <<hb_, last, age>> PROVE Timer'
  BY <1>0 DEF hb_
<1>1. CASE UNCHANGED vars
  BY <1>0, <1>1 DEF vars
<1>2. CASE Started
  BY <1>2 DEF Started
<1>3. CASE \/ Connects \/ Refused \/ Retry \/ StartFails
           \/ NextRead \/ ReadReturns \/ ReadEnds \/ ReadFails \/ ProcessEnds \/ Cancelled \/ CancelLost
  BY <1>0, <1>3, Zenon
      DEF Connects, Refused, Retry, StartFails, NextRead, ReadReturns,
          ReadEnds, ReadFails, ProcessEnds, Cancelled, CancelLost
<1>4. CASE Stop \/ Cancel \/ PeerChanges
  BY <1>0, <1>4, Zenon DEF Stop, Cancel, PeerChanges
<1>5. ASSUME NEW since \in 0 .. Interval, Beat(since), age' = since PROVE Timer'
  BY <1>5 DEF Beat
<1>6. CASE HeartbeatBegins \/ HeartbeatWakes \/ HeartbeatReturns
  <2>1. PICK since \in {0, last} : Beat(since) /\ age' = since
    BY <1>6 DEF HeartbeatBegins, HeartbeatWakes, HeartbeatReturns
  <2> QED  BY <1>5, <2>1
<1>7. CASE HeartbeatFails
  BY <1>7 DEF HeartbeatFails
<1>8. CASE HeartbeatCancelled
  BY <1>8 DEF HeartbeatCancelled
<1>9. CASE HeartbeatCancelLost
  BY <1>0, <1>9, Zenon DEF HeartbeatCancelLost
<1>10. CASE Write
  BY <1>10 DEF Write, hb_
<1>11. CASE Tick
  BY <1>11 DEF Tick, Shorter
<1> QED  BY <1>1, <1>2, <1>3, <1>4, <1>6, <1>7, <1>8, <1>9, <1>10, <1>11
    DEF Next, CallStep, HeartbeatStep

\* The waits to connect grow up to the longest one.
LEMMA Waits ==
    /\ 0 \in 0 .. MaxWait
    /\ \A n \in 0 .. MaxWait : Shorter(MaxWait, n + 1) \in 0 .. MaxWait
  BY DEF Shorter

\* All variables have their types: the timers stay within an interval and a sleep that is
\* over is not slept on.
THEOREM TypeCorrect == Spec => []TypeOK
<1>1. Init => TypeOK
  <2> SUFFICES ASSUME Init PROVE TypeOK
    OBVIOUS
  <2>1. call \in Starting /\ wait \in 0 .. MaxWait
    BY Waits DEF Init, Starting
  <2>2. last \in 0 .. Interval /\ left \in 0 .. Interval /\ age \in 0 .. Interval
    BY DEF Init
  <2>3. /\ peer \in {"refuses", "accepts"} /\ stop = "none" /\ hb = "none"
        /\ cancelled = FALSE /\ cancels = FALSE /\ hbCancel = FALSE /\ legacy \in BOOLEAN
    BY Zenon DEF Init
  <2> QED
    BY <2>1, <2>2, <2>3, Zenon DEF TypeOK
<1>2. TypeOK /\ Timer' /\ [Next]_vars => TypeOK'
  <2> SUFFICES ASSUME TypeOK, Timer', [Next]_vars PROVE TypeOK'
    OBVIOUS
  <2>0. /\ last' \in 0 .. Interval /\ left' \in 0 .. Interval /\ age' \in 0 .. Interval
    BY DEF Timer
  <2> USE <2>0 DEF TypeOK, Starting, Looping, Ended, call_, hb_
  <2>1. CASE UNCHANGED vars
    BY <2>1 DEF vars
  <2>2. CASE Refused
    BY <2>2, Waits DEF Refused
  <2>3. CASE Connects \/ Retry \/ StartFails \/ Started
    BY <2>3 DEF Connects, Retry, StartFails, Started, Go
  <2>4. CASE NextRead \/ ReadReturns \/ ReadEnds \/ ReadFails \/ ProcessEnds
    BY <2>4 DEF NextRead, ReadReturns, ReadEnds, ReadFails, ProcessEnds, Go
  <2>5. CASE Cancelled
    BY <2>5 DEF Cancelled, Stops
  <2>6. CASE CancelLost
    <3>1. wait' \in 0 .. MaxWait
      BY <2>6, Waits DEF CancelLost
    <3>2. /\ call' \in {"connected", "sleep", "process", "ended", "failed"}
          /\ peer' \in {peer, "open"}
      BY <2>6 DEF CancelLost
    <3> QED  BY <2>6, <3>1, <3>2 DEF CancelLost
  <2>7. ASSUME NEW since, Beat(since) PROVE TypeOK'
    BY <2>7 DEF Beat
  <2>8. CASE HeartbeatBegins \/ HeartbeatWakes \/ HeartbeatReturns
    BY <2>7, <2>8 DEF HeartbeatBegins, HeartbeatWakes, HeartbeatReturns
  <2>9. CASE HeartbeatFails \/ HeartbeatCancelled \/ HeartbeatCancelLost
    BY <2>9 DEF HeartbeatFails, HeartbeatCancelled, HeartbeatCancelLost
  <2>10. CASE Stop
    BY <2>10 DEF Stop, Stops
  <2>11. CASE Cancel
    BY <2>11 DEF Cancel
  <2>12. CASE Write \/ Tick
    BY <2>12 DEF Write, Tick
  <2>13. CASE PeerChanges
    BY <2>13 DEF PeerChanges
  <2> HIDE DEF TypeOK
  <2> QED
    BY <2>1, <2>2, <2>3, <2>4, <2>5, <2>8, <2>9, <2>10, <2>11,
       <2>12, <2>13, <2>6
       DEF Next, CallStep, HeartbeatStep
<1> QED
  BY <1>1, <1>2, InitTimer, StepTimer, PTL DEF Spec

\* Only the top of the heartbeat's loop calls tcp_heartbeat.
LEMMA Calls == Next /\ hb # "callback" /\ hb' = "callback" =>
                 \/ HeartbeatBegins \/ HeartbeatWakes
<1> SUFFICES ASSUME Next, hb # "callback", ~HeartbeatBegins, ~HeartbeatWakes
             PROVE  hb' # "callback"
  OBVIOUS
<1>1. CASE CallStep
  BY <1>1, Zenon
      DEF CallStep, hb_, Started, Connects, Refused, Retry, StartFails,
          NextRead, ReadReturns, ReadEnds, ReadFails, ProcessEnds,
          Cancelled, CancelLost
<1>2. CASE Stop \/ Cancel \/ PeerChanges \/ Write \/ Tick
  BY <1>2, Zenon DEF Stop, Cancel, PeerChanges, Write, Tick, hb_
<1>3. CASE HeartbeatStep
  BY <1>3, Zenon
      DEF HeartbeatStep, HeartbeatReturns, HeartbeatFails, HeartbeatCancelled,
          HeartbeatCancelLost, hb_
<1> QED  BY <1>1, <1>2, <1>3 DEF Next

\* The heartbeat neither calls too early nor sleeps on too long, for every interval and
\* however writes fall into its sleeps.
THEOREM HeartbeatInTimeHolds == Spec => HeartbeatInTime
<1>1. Timer /\ Timer' /\ [Next]_vars =>
        [/\ hb # "callback" /\ hb' = "callback" => age = Interval
         /\ hb' = "sleep" => age' + left' <= Interval]_vars
  <2> SUFFICES ASSUME Timer, Timer', Next
               PROVE  /\ hb # "callback" /\ hb' = "callback" => age = Interval
                      /\ hb' = "sleep" => age' + left' <= Interval
    OBVIOUS
  <2>1. hb' = "sleep" => age' + left' <= Interval
    BY Zenon DEF Timer
  <2>2. ASSUME hb # "callback", hb' = "callback" PROVE age = Interval
    <3>1. CASE HeartbeatBegins
      BY <2>2, <3>1 DEF HeartbeatBegins, Beat, Timer
    <3>2. CASE HeartbeatWakes
      BY <2>2, <3>2 DEF HeartbeatWakes, Beat, Timer
    <3> QED  BY <2>2, <3>1, <3>2, Calls
  <2> QED  BY <2>1, <2>2
<1> QED  BY <1>1, InitTimer, StepTimer, PTL DEF Spec, HeartbeatInTime

\* No call of tcp_heartbeat begins once the coroutine was stopped.
THEOREM NoHeartbeatAfterStopHolds == Spec => NoHeartbeatAfterStop
<1>1. [Next]_vars => [stop = "done" /\ hb # "callback" => hb' # "callback"]_vars
  <2> SUFFICES ASSUME Next, stop = "done", hb # "callback" PROVE hb' # "callback"
    OBVIOUS
  <2> QED  BY Calls DEF HeartbeatBegins, HeartbeatWakes, Beat
<1> QED  BY <1>1, PTL DEF Spec, NoHeartbeatAfterStop
=============================================================================
