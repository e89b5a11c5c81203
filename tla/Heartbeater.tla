----------------------------- MODULE Heartbeater -----------------------------
(***************************************************************************)
(* The heartbeats of a channel (heartbeater.go): the transformer, which    *)
(* every txer and rxer of the channel runs on its messages; the pulse      *)
(* goroutine, which owns the ticker and handles the transformer's events;  *)
(* the timers that look for unanswered heartbeats; and UpdateIntervals.    *)
(*                                                                         *)
(* Time is abstracted to `due`: more than the send interval has passed     *)
(* since lastHeartbeatTx.  The peer's heartbeats are numbered as they      *)
(* arrive; 0 stands for none.                                              *)
(***************************************************************************)
EXTENDS Naturals, Sequences, FiniteSets

CONSTANTS
    Txer,            \* the txers of the channel, one for each underlay
    EventQueueSize,  \* capacity of events (4)
    OutQueueSize,    \* capacity of the channel's out queue
    MaxInputs,       \* bound: heartbeats of the peer and calls of UpdateIntervals together
    Interval,        \* check intervals asked for, 0 standing for an invalid one
    None

ASSUME HeartbeaterAssumption ==
    /\ EventQueueSize \in Nat \ {0} /\ OutQueueSize \in Nat \ {0}
    /\ MaxInputs \in Nat
    /\ Interval \subseteq Nat /\ None \notin Interval

VARIABLES
    slow,          \* whether the out queue can be slower than the timeouts of pulse
    due,           \* now - lastHeartbeatTx > heartBeatIntervalNs
    unresponded,   \* unrespondedHeartbeat
    events,        \* the channel of events
    timers,        \* AfterFuncs that have yet to run
    pulse,         \* where the pulse goroutine is
    queue,         \* the out queue of the channel
    tx,            \* where each txer is, its message, and the heartbeat it answers
    closed,        \* the channel is closed
    received,      \* heartbeats received from the peer
    handled,       \* the last heartbeat that pulse has handled
    answers,       \* how often each heartbeat was answered on the wire
    reconfigC,     \* the channel of one check interval, None when empty
    updater,       \* the interval UpdateIntervals has yet to put, None outside of it
    requested,     \* the check interval last asked for
    interval,      \* the ticker's interval
    updates        \* calls of UpdateIntervals so far

txVars == <<tx, queue>>
peerVars == <<received, answers>>
updateVars == <<reconfigC, updater, requested, interval, updates>>
vars == <<slow, due, unresponded, events, timers, pulse, txVars, closed, handled, peerVars, updateVars>>

Heartbeat == 1..MaxInputs

\* Application messages, raw ones, the one sendHeartbeat waits for, one it no longer waits
\* for, and that of sendHeartbeatIfQueueFree.
Message == {"app", "raw", "pulse", "expired", "answer"}

\* heartbeatRxEvent, handleUnresponded and the events that only reach the callback.
Event == [kind : {"rx"}, ts : Heartbeat] \cup [kind : {"unresponded", "callback"}, ts : {0}]

TypeOK ==
    /\ slow \in BOOLEAN /\ due \in BOOLEAN /\ closed \in BOOLEAN
    /\ unresponded \in 0..MaxInputs
    /\ events \in Seq(Event) /\ Len(events) <= EventQueueSize
    /\ timers \in 0..MaxInputs
    /\ pulse \in {"head", "select", "send", "wire", "answer", "ended"}
    /\ queue \in Seq(Message) /\ Len(queue) <= OutQueueSize
    /\ tx \in [Txer -> [at : {"source", "due", "stamp", "load", "clear", "write", "exit"},
                        msg : Message \cup {None}, answer : 0..MaxInputs]]
    /\ received \in 0..MaxInputs /\ handled \in 0..received
    /\ answers \in [Heartbeat -> Nat]
    /\ reconfigC \in Interval \cup {None}
    /\ updater \in Interval \cup {None}
    /\ requested \in Interval \cup {None} /\ interval \in (Interval \ {0}) \cup {None}
    /\ updates \in 0..MaxInputs

-----------------------------------------------------------------------------
(* The events *)

Callback == [kind |-> "callback", ts |-> 0]

\* queueEvent drops the event when the channel of events is full.
QueueEventBlocking(e) ==
    /\ Len(events) < EventQueueSize
    /\ events' = Append(events, e)
QueueEvent(e) ==
    events' = IF Len(events) < EventQueueSize THEN Append(events, e) ELSE events

\* Rx of a message with the heartbeat header.
RxHeartbeat ==
    /\ ~closed
    /\ received + updates < MaxInputs
    /\ received' = received + 1
    /\ QueueEvent([kind |-> "rx", ts |-> received + 1])
    /\ UNCHANGED <<slow, due, unresponded, timers, pulse, txVars, closed, handled, answers, updateVars>>

\* Rx of a message with the heartbeat response header.
RxResponse ==
    /\ ~closed
    /\ QueueEvent(Callback)
    /\ UNCHANGED <<slow, due, unresponded, timers, pulse, txVars, closed, handled, peerVars, updateVars>>

\* Two milliseconds after a heartbeat was handled.
TimerFires ==
    /\ timers > 0
    /\ timers' = timers - 1
    /\ QueueEvent([kind |-> "unresponded", ts |-> 0])
    /\ UNCHANGED <<slow, due, unresponded, pulse, txVars, closed, handled, peerVars, updateVars>>

-----------------------------------------------------------------------------
(* Tx, in the txers *)

SetTx(t, at, m, h) == tx' = [tx EXCEPT ![t] = [at |-> at, msg |-> m, answer |-> h]]

TakeMessage(t) ==
    /\ tx[t].at = "source"
    /\ queue # <<>> /\ Head(queue) # "expired"
    /\ SetTx(t, IF Head(queue) = "raw" THEN "write" ELSE "due", Head(queue), 0)
    /\ queue' = Tail(queue)
    /\ UNCHANGED <<slow, due, unresponded, events, timers, pulse, closed, handled, peerVars, updateVars>>

\* The message's timeout passed while it was in the queue: whoever waits for it is told.
DropMessage(t) ==
    /\ tx[t].at = "source"
    /\ queue # <<>>
    /\ Head(queue) \in {"expired"} \cup IF slow THEN {"pulse", "answer"} ELSE {}
    /\ queue' = Tail(queue)
    /\ pulse' = IF Head(queue) = "pulse" THEN "head" ELSE pulse
    /\ UNCHANGED <<slow, due, unresponded, events, timers, tx, closed, handled, peerVars, updateVars>>

\* A heartbeat is due: its header goes on the message, ...
HeartbeatDueNever == FALSE
HeartbeatDue == due

TxLoadsLast(t) ==
    /\ tx[t].at = "due"
    /\ SetTx(t, IF HeartbeatDue THEN "stamp" ELSE "load", tx[t].msg, 0)
    /\ UNCHANGED <<slow, due, unresponded, events, timers, pulse, queue, closed, handled, peerVars, updateVars>>

\* ... and then its time into lastHeartbeatTx.
TxStoresLast(t) ==
    /\ tx[t].at = "stamp"
    /\ due' = FALSE
    /\ QueueEvent(Callback)
    /\ SetTx(t, "load", tx[t].msg, 0)
    /\ UNCHANGED <<slow, unresponded, timers, pulse, queue, closed, handled, peerVars, updateVars>>

TxLoadsUnresponded(t) ==
    /\ tx[t].at = "load"
    /\ SetTx(t, IF unresponded # 0 THEN "clear" ELSE "write", tx[t].msg, unresponded)
    /\ UNCHANGED <<slow, due, unresponded, events, timers, pulse, queue, closed, handled, peerVars, updateVars>>

\* Store(0), whatever was stored since the load.
LeftUnresponded(h) == h
AfterAnswer(h) == 0

TxClearsUnresponded(t) ==
    /\ tx[t].at = "clear"
    /\ unresponded' = AfterAnswer(unresponded)
    /\ QueueEvent(Callback)
    /\ SetTx(t, "write", tx[t].msg, tx[t].answer)
    /\ UNCHANGED <<slow, due, timers, pulse, queue, closed, handled, peerVars, updateVars>>

\* A written heartbeat of sendHeartbeat releases pulse.
Write(t) ==
    /\ tx[t].at = "write"
    /\ answers' = [h \in Heartbeat |-> answers[h] + IF tx[t].answer = h THEN 1 ELSE 0]
    /\ pulse' = IF tx[t].msg = "pulse" THEN "head" ELSE pulse
    /\ SetTx(t, "source", None, 0)
    /\ UNCHANGED <<slow, due, unresponded, events, timers, queue, closed, handled, received, updateVars>>

-----------------------------------------------------------------------------
(* The pulse goroutine *)

LoopEnds == closed

PulseLoops ==
    /\ pulse = "head"
    /\ pulse' = IF LoopEnds THEN "ended" ELSE "select"
    /\ UNCHANGED <<slow, due, unresponded, events, timers, txVars, closed, handled, peerVars, updateVars>>

\* A tick: a heartbeat of its own when one is due, and the callback's check.
PulseTicks ==
    /\ pulse = "select"
    /\ pulse' = IF HeartbeatDue THEN "send" ELSE "head"
    /\ UNCHANGED <<slow, due, unresponded, events, timers, txVars, closed, handled, peerVars, updateVars>>

\* sendHeartbeat waits for the wire, sendHeartbeatIfQueueFree only for the queue.
PulseQueues ==
    /\ pulse \in {"send", "answer"}
    /\ Len(queue) < OutQueueSize
    /\ queue' = Append(queue, IF pulse = "send" THEN "pulse" ELSE "answer")
    /\ pulse' = IF pulse = "send" THEN "wire" ELSE "head"
    /\ UNCHANGED <<slow, due, unresponded, events, timers, tx, closed, handled, peerVars, updateVars>>

\* The timeout of a second, or of ten milliseconds, or the channel's close.  It ends the
\* context of the message: a txer that has yet to take it will drop it.
PulseGivesUp ==
    /\ pulse \in {"send", "wire", "answer"}
    /\ slow \/ closed
    /\ pulse' = "head"
    /\ queue' = [i \in DOMAIN queue |-> IF queue[i] = "pulse" THEN "expired" ELSE queue[i]]
    /\ tx' = [t \in Txer |-> [tx[t] EXCEPT !.msg = IF @ = "pulse" THEN "expired" ELSE @]]
    /\ UNCHANGED <<slow, due, unresponded, events, timers, closed, handled, peerVars, updateVars>>

\* heartbeatRxEvent
PulseHandlesRx ==
    /\ pulse = "select"
    /\ events # <<>> /\ Head(events).kind = "rx"
    /\ events' = Tail(events)
    /\ unresponded' = Head(events).ts
    /\ handled' = Head(events).ts
    /\ timers' = timers + 1
    /\ pulse' = "head"
    /\ UNCHANGED <<slow, due, txVars, closed, peerVars, updateVars>>

\* handleUnresponded and the callback's events.
PulseHandlesOther ==
    /\ pulse = "select"
    /\ events # <<>> /\ Head(events).kind # "rx"
    /\ events' = Tail(events)
    /\ pulse' = IF Head(events).kind = "unresponded" /\ unresponded # 0 THEN "answer" ELSE "head"
    /\ UNCHANGED <<slow, due, unresponded, timers, txVars, closed, handled, peerVars, updateVars>>

\* ticker.Reset, for a valid interval.
ValidInterval(i) == IF i > 0 THEN i ELSE interval

PulseReconfigures ==
    /\ pulse = "select"
    /\ reconfigC # None
    /\ reconfigC' = None
    /\ interval' = ValidInterval(reconfigC)
    /\ pulse' = "head"
    /\ UNCHANGED <<slow, due, unresponded, events, timers, txVars, closed, handled, peerVars,
                   updater, requested, updates>>

-----------------------------------------------------------------------------
(* UpdateIntervals, and the surroundings *)

\* The new send interval may make a heartbeat due or no longer due.  A check interval that
\* pulse has not taken is drained, ...
NothingDrained(c) == c
Drained(c) == None

UpdateIntervals(i) ==
    /\ updater = None
    /\ received + updates < MaxInputs
    /\ updates' = updates + 1
    /\ due' \in BOOLEAN
    /\ reconfigC' = Drained(reconfigC)
    /\ requested' = i
    /\ updater' = i
    /\ UNCHANGED <<slow, unresponded, events, timers, pulse, txVars, closed, handled, peerVars, interval>>

\* ... and the new one put, if there is room.
PutInterval ==
    /\ updater # None
    /\ reconfigC' = IF reconfigC = None THEN updater ELSE reconfigC
    /\ updater' = None
    /\ UNCHANGED <<slow, due, unresponded, events, timers, pulse, txVars, closed, handled, peerVars,
                   requested, interval, updates>>

TimePasses ==
    /\ ~due
    /\ due' = TRUE
    /\ UNCHANGED <<slow, unresponded, events, timers, pulse, txVars, closed, handled, peerVars, updateVars>>

AppSends(m) ==
    /\ ~closed
    /\ Len(queue) < OutQueueSize
    /\ queue' = Append(queue, m)
    /\ UNCHANGED <<slow, due, unresponded, events, timers, pulse, tx, closed, handled, peerVars, updateVars>>

\* A txer ends when the channel closes, and its message with it.
TxerExits(t) ==
    /\ closed
    /\ tx[t].at \in {"source", "write"}
    /\ SetTx(t, "exit", None, 0)
    /\ UNCHANGED <<slow, due, unresponded, events, timers, pulse, queue, closed, handled, peerVars, updateVars>>

Close ==
    /\ ~closed
    /\ closed' = TRUE
    /\ UNCHANGED <<slow, due, unresponded, events, timers, pulse, txVars, handled, peerVars, updateVars>>

-----------------------------------------------------------------------------
(* Specification *)

Init ==
    /\ slow \in BOOLEAN
    /\ due = TRUE /\ closed = FALSE
    /\ unresponded = 0 /\ received = 0 /\ handled = 0
    /\ events = <<>> /\ timers = 0
    /\ pulse = "head"
    /\ queue = <<>>
    /\ tx = [t \in Txer |-> [at |-> "source", msg |-> None, answer |-> 0]]
    /\ answers = [h \in Heartbeat |-> 0]
    /\ reconfigC = None /\ updater = None
    /\ requested = None /\ interval = None /\ updates = 0

TxStep(t) ==
    \/ TxLoadsLast(t) \/ TxStoresLast(t) \/ TxLoadsUnresponded(t) \/ TxClearsUnresponded(t)
    \/ Write(t)

Pulse ==
    \/ PulseLoops \/ PulseTicks \/ PulseQueues \/ PulseGivesUp
    \/ PulseHandlesRx \/ PulseHandlesOther \/ PulseReconfigures

Next ==
    \/ RxHeartbeat \/ RxResponse \/ TimerFires
    \/ \E t \in Txer : TakeMessage(t) \/ DropMessage(t) \/ TxStep(t) \/ TxerExits(t)
    \/ Pulse
    \/ \E i \in Interval : UpdateIntervals(i)
    \/ PutInterval \/ TimePasses \/ Close
    \/ \E m \in {"app", "raw"} : AppSends(m)

Spec == Init /\ [][Next]_vars

\* Goroutines that can run do run, time passes, the select of pulse takes a tick again and
\* again, and pulse gets its turn on the out queue.
Fairness ==
    /\ \A t \in Txer :
        /\ WF_vars(TxStep(t)) /\ WF_vars(TxerExits(t))
        /\ WF_vars(TakeMessage(t) \/ DropMessage(t))
    /\ WF_vars(PulseLoops) /\ WF_vars(closed /\ PulseGivesUp) /\ SF_vars(PulseTicks) /\ SF_vars(PulseQueues)
    /\ WF_vars(TimePasses)

FairSpec == Spec /\ Fairness

-----------------------------------------------------------------------------
(* Properties *)

\* heartbeater.go:203-207.  On a channel with one underlay a heartbeat is answered at most
\* once, by the next message or by a standalone one, never by both.
AnsweredOnce == \A h \in Heartbeat : answers[h] <= 1

\* heartbeater.go:147-150.  The latest check interval wins: once UpdateIntervals has
\* returned and pulse has taken what it put, the ticker runs at the last valid request.
LatestIntervalWins ==
    updater = None /\ reconfigC = None /\ requested \notin {None, 0} => interval = requested

\* heartbeater.go:120-122, that a received heartbeat gets its response: the last one that
\* was handled is waiting for a message, on its way in a txer, or answered.
NoHeartbeatForgotten ==
    handled # 0 /\ ~closed =>
        \/ unresponded = handled
        \/ answers[handled] > 0
        \/ \E t \in Txer : tx[t].answer = handled

\* A heartbeat that waits for its response does not wait for ever, unless the queue is too
\* slow: it leaves with some message, even when the event that would have sent a standalone
\* response was dropped.
ResponseLeaves == unresponded # 0 /\ ~slow ~> unresponded = 0 \/ closed

\* Pulse, waiting for its heartbeat to be written, is released by the txer without the help
\* of its timeout: the txer never waits for pulse to take an event.
PulseNotBlocked == pulse = "wire" ~> pulse # "wire"

=============================================================================
