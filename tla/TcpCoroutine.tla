---------------------------- MODULE TcpCoroutine ----------------------------
(***************************************************************************)
(* TCPCoroutine (iams/aio/tcp.py) on its own: the start and the call task  *)
(* that the manager keeps for it, which never run at the same time, the    *)
(* heartbeat task, and an agent that writes and may call stop.             *)
(*                                                                         *)
(* An action is what happens between two awaits.  Time matters for the     *)
(* heartbeat only and is counted there in ticks; a timer that has expired  *)
(* is served before the next tick.                                         *)
(***************************************************************************)
EXTENDS Integers

CONSTANTS
    Interval,       \* the heartbeat in ticks; 0: there is none
    ReadTimeout,    \* is there a timeout for reads?
    MaxWait         \* longest wait between two attempts to connect, 60 in the code

ASSUME TcpAssumption ==
    Interval \in Nat /\ ReadTimeout \in BOOLEAN /\ MaxWait \in Nat \ {0}

VARIABLES
    call,       \* where the start task or, after it, the call task is
    wait,       \* seconds until the next attempt to connect
    peer,       \* the other end
    stop,       \* the future _stop: not created, pending or done
    cancelled,  \* the manager has cancelled the coroutine, which has not noticed yet
    hb,         \* where the heartbeat task is
    hbCancel,   \* the heartbeat task was cancelled and has not noticed yet
    last,       \* ticks since _last
    left,       \* ticks until the heartbeat's sleep is over
    legacy,     \* asyncio.wait_for before Python 3.12: it may lose a cancel
    \* History.
    age,        \* ticks since the peer was last sent something, or the heartbeat began
    cancels     \* was the coroutine ever cancelled?

call_ == <<call, wait, cancelled, cancels>>
hb_ == <<hb, left>>
vars == <<call_, hb_, peer, stop, hbCancel, last, legacy, age>>

Starting == {"connect", "sleep", "connected"}
Looping == {"loop", "read", "process"}
Ended == {"ended", "failed"}

Shorter(a, b) == IF a < b THEN a ELSE b

Init ==
    /\ call = "connect" /\ wait = 0
    /\ peer \in {"refuses", "accepts"}
    /\ stop = "none"
    /\ cancelled = FALSE /\ cancels = FALSE
    /\ hb = "none" /\ hbCancel = FALSE
    /\ last = 0 /\ left = 0 /\ age = 0
    /\ legacy \in BOOLEAN

-----------------------------------------------------------------------------
(* start.                                                                  *)

Go(from, to) ==
    /\ call = from
    /\ call' = to
    /\ UNCHANGED <<wait, cancelled, cancels>>

\* The connection is open; the agent's tcp_connected is awaited.
Connects ==
    /\ peer = "accepts"
    /\ Go("connect", "connected")
    /\ peer' = "open"
    /\ UNCHANGED <<hb_, stop, hbCancel, last, age, legacy>>

\* The connection is refused, or is not there in time.
Refused ==
    /\ call = "connect"
    /\ peer = "refuses" \/ ReadTimeout
    /\ call' = "sleep"
    /\ wait' = Shorter(MaxWait, wait + 1)
    /\ UNCHANGED <<hb_, peer, stop, cancelled, cancels, hbCancel, last, age, legacy>>

Retry ==
    /\ Go("sleep", "connect")
    /\ UNCHANGED <<hb_, peer, stop, hbCancel, last, age, legacy>>

\* Any other error of the connection, or one of tcp_connected, ends the start.
StartFails ==
    /\ Go("connect", "failed") \/ Go("connected", "failed")
    /\ UNCHANGED <<hb_, peer, stop, hbCancel, last, age, legacy>>

\* tcp_connected returns: the future and the heartbeat task are created.
Started ==
    /\ Go("connected", "loop")
    /\ stop' = "pending"
    /\ hb' = IF Interval > 0 THEN "created" ELSE "none"
    /\ UNCHANGED <<left, peer, hbCancel, last, age, legacy>>

-----------------------------------------------------------------------------
(* stop.                                                                   *)

\* Faulty variant: the heartbeat task is not cancelled.
Stops_Uncancelled == stop' = "done" /\ UNCHANGED hbCancel

\* The heartbeat task is cancelled, whoever stops.
Stops ==
    /\ stop' = "done"
    /\ hbCancel' = (hb \notin {"none", "done"})

\* The agent calls stop.  (Before the future is created this raises.)
Stop ==
    /\ stop # "none"
    /\ Stops
    /\ UNCHANGED <<call_, hb_, peer, last, age, legacy>>

-----------------------------------------------------------------------------
(* loop.                                                                   *)

NextRead ==
    /\ Go("loop", IF stop = "done" THEN "ended" ELSE "read")
    /\ UNCHANGED <<hb_, peer, stop, hbCancel, last, age, legacy>>

\* Data for tcp_process_data; what was on its way arrives after a close, too.
ReadReturns ==
    /\ peer \in {"open", "closed"}
    /\ Go("read", "process")
    /\ UNCHANGED <<hb_, peer, stop, hbCancel, last, age, legacy>>

\* The loop is left at the end of the stream or after a timeout; stop is not called.
ReadEnds ==
    /\ peer = "closed" \/ ReadTimeout
    /\ Go("read", "ended")
    /\ UNCHANGED <<hb_, peer, stop, hbCancel, last, age, legacy>>

\* A connection that is reset raises out of loop.
ReadFails ==
    /\ Go("read", "failed")
    /\ UNCHANGED <<hb_, peer, stop, hbCancel, last, age, legacy>>

\* tcp_process_data returns or raises; self.stop() without an await does nothing.
ProcessEnds ==
    /\ Go("process", "loop")
    /\ UNCHANGED <<hb_, peer, stop, hbCancel, last, age, legacy>>

\* The cancel arrives: a coroutine that has not started ends without stop.
Cancelled ==
    /\ cancelled /\ call \in Starting \cup Looping
    /\ call' = IF call \in Starting THEN "failed" ELSE "ended"
    /\ cancelled' = FALSE
    /\ IF call \in Looping THEN Stops ELSE UNCHANGED <<stop, hbCancel>>
    /\ UNCHANGED <<wait, cancels, hb_, peer, last, age, legacy>>

\* The cancel is lost in a wait_for, of start or of loop, whose future has just been done:
\* the coroutine goes on with its result or its exception.
CancelLost ==
    /\ cancelled /\ legacy /\ ReadTimeout
    /\ cancelled' = FALSE
    /\ \/ /\ call = "connect" /\ peer = "accepts"
          /\ call' = "connected" /\ peer' = "open" /\ wait' = wait
       \/ /\ call = "connect" /\ peer = "refuses"
          /\ call' = "sleep" /\ wait' = Shorter(MaxWait, wait + 1) /\ peer' = peer
       \/ /\ call = "read" /\ peer \in {"open", "closed"}
          /\ call' = "process" \/ (peer = "closed" /\ call' = "ended")
          /\ UNCHANGED <<peer, wait>>
       \/ /\ call \in {"connect", "read"}
          /\ call' = "failed" /\ UNCHANGED <<peer, wait>>
    /\ UNCHANGED <<cancels, hb_, stop, hbCancel, last, age, legacy>>

-----------------------------------------------------------------------------
(* heartbeat.                                                              *)

\* Faulty variant: the whole interval is slept anew.
Beat_Whole(since) ==
    /\ last' = since
    /\ hb' = IF stop = "done" THEN "done" ELSE IF since < Interval THEN "sleep" ELSE "callback"
    /\ left' = IF hb' = "sleep" THEN Interval ELSE 0
    /\ UNCHANGED <<call_, peer, stop, hbCancel, legacy>>

\* Faulty variant: whether the coroutine was stopped is not looked at.
Beat_Forever(since) ==
    /\ last' = since
    /\ hb' = IF since < Interval THEN "sleep" ELSE "callback"
    /\ left' = IF hb' = "sleep" THEN Interval - since ELSE 0
    /\ UNCHANGED <<call_, peer, stop, hbCancel, legacy>>

\* The top of the loop: the task ends, sleeps for what is left of the interval, or calls
\* tcp_heartbeat.
Beat(since) ==
    /\ last' = since
    /\ hb' = IF stop = "done" THEN "done" ELSE IF since < Interval THEN "sleep" ELSE "callback"
    /\ left' = IF hb' = "sleep" THEN Interval - since ELSE 0
    /\ UNCHANGED <<call_, peer, stop, hbCancel, legacy>>

HeartbeatBegins == hb = "created" /\ ~hbCancel /\ Beat(0) /\ age' = 0

HeartbeatWakes == hb = "sleep" /\ left = 0 /\ ~hbCancel /\ Beat(last) /\ UNCHANGED age

\* tcp_heartbeat returns None or True, which counts as a sign of life, or something else.
HeartbeatReturns ==
    /\ hb = "callback" /\ ~hbCancel
    /\ \/ Beat(0) /\ age' = 0
       \/ Beat(last) /\ UNCHANGED age

\* tcp_heartbeat raises: the call of logger.exception raises again, and stop is not reached.
HeartbeatFails ==
    /\ hb = "callback"
    /\ hb' = "done" /\ hbCancel' = FALSE
    /\ UNCHANGED <<call_, left, peer, stop, last, age, legacy>>

HeartbeatCancelled ==
    /\ hbCancel
    /\ hb' = "done" /\ hbCancel' = FALSE /\ left' = 0
    /\ UNCHANGED <<call_, peer, stop, last, age, legacy>>

\* The cancel is lost in the wait_for of a write by tcp_heartbeat.
HeartbeatCancelLost ==
    /\ hbCancel /\ legacy /\ hb = "callback"
    /\ hbCancel' = FALSE
    /\ UNCHANGED <<call_, hb_, peer, stop, last, age, legacy>>

-----------------------------------------------------------------------------
(* The agent, the manager, the other end and time.                         *)

\* write returns True.  After a timeout it returns False and, as self.stop() is not
\* awaited, changes nothing.
Write ==
    /\ peer \in {"open", "closed", "silent"}
    /\ last' = 0 /\ age' = 0
    /\ UNCHANGED <<call_, hb_, peer, stop, hbCancel, legacy>>

Cancel ==
    /\ ~cancels /\ call \notin Ended
    /\ cancelled' = TRUE /\ cancels' = TRUE
    /\ UNCHANGED <<call, wait, hb_, peer, stop, hbCancel, last, age, legacy>>

\* A server comes and goes; an open connection is closed, or the other end falls silent.
PeerChanges ==
    /\ \/ peer = "refuses" /\ peer' = "accepts"
       \/ peer = "accepts" /\ peer' = "refuses"
       \/ peer = "open" /\ peer' \in {"closed", "silent"}
    /\ UNCHANGED <<call_, hb_, stop, hbCancel, last, age, legacy>>

Tick ==
    /\ ~(hb = "sleep" /\ left = 0)
    /\ last' = Shorter(last + 1, Interval) /\ age' = Shorter(age + 1, Interval)
    /\ left' = IF hb = "sleep" THEN left - 1 ELSE 0
    /\ UNCHANGED <<call_, hb, peer, stop, hbCancel, legacy>>

-----------------------------------------------------------------------------
CallStep ==
    \/ Connects \/ Refused \/ Retry \/ StartFails \/ Started
    \/ NextRead \/ ReadReturns \/ ReadEnds \/ ReadFails \/ ProcessEnds
    \/ Cancelled \/ CancelLost

HeartbeatStep ==
    \/ HeartbeatBegins \/ HeartbeatWakes \/ HeartbeatReturns \/ HeartbeatFails
    \/ HeartbeatCancelled \/ HeartbeatCancelLost

Next == CallStep \/ HeartbeatStep \/ Stop \/ Write \/ Cancel \/ PeerChanges \/ Tick

Spec == Init /\ [][Next]_vars

\* The event loop resumes tasks that can go on, the agent's callbacks return and what has
\* arrived from a peer that is gone is read some time.
FairSpec ==
    /\ Spec
    /\ WF_vars(CallStep) /\ WF_vars(Cancelled) /\ WF_vars(HeartbeatCancelled)
    /\ SF_vars(peer = "closed" /\ ReadEnds)

-----------------------------------------------------------------------------
(* Properties.                                                             *)

TypeOK ==
    /\ call \in Starting \cup Looping \cup Ended
    /\ wait \in 0 .. MaxWait
    /\ peer \in {"refuses", "accepts", "open", "closed", "silent"}
    /\ stop \in {"none", "pending", "done"}
    /\ hb \in {"none", "created", "sleep", "callback", "done"}
    /\ cancelled \in BOOLEAN /\ cancels \in BOOLEAN /\ hbCancel \in BOOLEAN /\ legacy \in BOOLEAN
    /\ last \in 0 .. Interval /\ left \in 0 .. Interval /\ age \in 0 .. Interval

\* The heartbeat neither calls before the peer was sent nothing for an interval, whatever
\* is written while it sleeps, nor sleeps on when an interval has passed.
HeartbeatInTime ==
    [][/\ hb # "callback" /\ hb' = "callback" => age = Interval
       /\ hb' = "sleep" => age' + left' <= Interval]_vars

\* Once the coroutine was stopped, by the manager or by the agent, no call of
\* tcp_heartbeat begins, even if the cancel of its task gets lost.
NoHeartbeatAfterStop ==
    [][stop = "done" /\ hb # "callback" => hb' # "callback"]_vars

\* A cancelled coroutine ends, and its heartbeat with it.
CancelEnds ==
    cancels /\ ~legacy ~> call \in Ended /\ (stop = "done" => hb \in {"none", "done"})

\* When the peer has closed the connection, or is silent and there is a timeout, the loop ends.
PeerGoneEnds ==
    peer = "closed" \/ (peer = "silent" /\ ReadTimeout) ~> call \in Ended

\* An error of tcp_process_data stops the coroutine.
ErrorStops == [][ProcessEnds => stop' = "done"]_vars

\* No heartbeat outlives the loop.
HeartbeatEnds == call \in Ended /\ ~legacy ~> hb \in {"none", "done"}
=============================================================================
