-------------------------- MODULE HeartbeaterProofs --------------------------
(***************************************************************************)
(* Proofs about Heartbeater, for any capacities, intervals and numbers of  *)
(* heartbeats and updates.                                                 *)
(***************************************************************************)
EXTENDS Heartbeater, TLAPS

-----------------------------------------------------------------------------
(* The inductive invariants *)

\* A received heartbeat passes through the events in order, each once, before it is handled;
\* a timer runs for a heartbeat that was handled.
InputInv == timers <= handled /\ received + updates <= MaxInputs
EventInv ==
    /\ \A i \in 1..Len(events) :
        events[i].kind = "rx" => handled < events[i].ts /\ events[i].ts <= received
    /\ \A i, j \in 1..Len(events) :
        i < j /\ events[i].kind = "rx" /\ events[j].kind = "rx" => events[i].ts < events[j].ts

\* What UpdateIntervals has asked for last is in its hands, in reconfigC or, unless it was
\* invalid, in the ticker.
IntervalInv ==
    /\ updater # None => updater = requested /\ reconfigC = None
    /\ reconfigC # None => reconfigC = requested
    /\ LatestIntervalWins

\* With one txer, a heartbeat that was handled is unresponded, in the txer or answered, and
\* never in two of these places once the txer has cleared unrespondedHeartbeat.
AnswerInv ==
    /\ unresponded <= handled
    /\ unresponded # 0 => answers[unresponded] = 0
    /\ \A t \in Txer :
        /\ tx[t].answer <= handled
        /\ tx[t].answer # 0 => tx[t].at \in {"clear", "write"} /\ answers[tx[t].answer] = 0
        /\ tx[t].at = "write" /\ tx[t].answer # 0 => unresponded # tx[t].answer
    /\ \A h \in Heartbeat : h > handled => answers[h] = 0
    /\ AnsweredOnce

HeartbeaterInv == TypeOK /\ InputInv /\ EventInv

-----------------------------------------------------------------------------
(* The latest interval *)

\* The steps that are not about the check interval leave it alone.
LEMMA OthersKeepIntervals ==
    ASSUME Next, ~PulseReconfigures, ~PutInterval, \A i \in Interval : ~UpdateIntervals(i)
    PROVE  UNCHANGED updateVars
  BY DEF Next, RxHeartbeat, RxResponse, TimerFires, TakeMessage, DropMessage, TxStep, TxLoadsLast,
         TxStoresLast, TxLoadsUnresponded, TxClearsUnresponded, Write, TxerExits, Pulse, PulseLoops,
         PulseTicks, PulseQueues, PulseGivesUp, PulseHandlesRx, PulseHandlesOther, TimePasses, Close,
         AppSends

\* The check intervals that were asked for.
IntervalTypes ==
    /\ reconfigC \in Interval \cup {None} /\ updater \in Interval \cup {None}
    /\ requested \in Interval \cup {None}

\* heartbeater.go:147-150.  Once UpdateIntervals has returned and pulse has taken what it put
\* into reconfigC, the ticker runs at the last valid interval that was asked for, whichever of
\* several updates pulse has seen.
THEOREM LatestIntervalAlwaysWins == Spec => []LatestIntervalWins
<1>1. Init => IntervalTypes /\ IntervalInv
  BY DEF Init, IntervalTypes, IntervalInv, LatestIntervalWins
<1>2. IntervalTypes /\ IntervalInv /\ [Next]_vars => IntervalTypes' /\ IntervalInv'
  <2> SUFFICES ASSUME IntervalTypes, IntervalInv, [Next]_vars
               PROVE  IntervalTypes' /\ IntervalInv'
    OBVIOUS
  <2>1. CASE UNCHANGED updateVars
    BY <2>1 DEF updateVars, IntervalTypes, IntervalInv, LatestIntervalWins
  <2>2. ASSUME NEW i \in Interval, UpdateIntervals(i)
        PROVE  IntervalTypes' /\ IntervalInv'
    BY <2>2, HeartbeaterAssumption DEF UpdateIntervals, Drained, IntervalTypes, IntervalInv, LatestIntervalWins
  <2>3. CASE PutInterval
    BY <2>3 DEF PutInterval, IntervalTypes, IntervalInv, LatestIntervalWins
  <2>4. CASE PulseReconfigures
    <3>1. /\ updater = None /\ reconfigC = requested /\ requested \in Interval
          /\ UNCHANGED <<updater, requested>> /\ reconfigC' = None /\ interval' = ValidInterval(requested)
      BY <2>4 DEF PulseReconfigures, IntervalTypes, IntervalInv
    <3>2. requested # 0 => interval' = requested
      BY <3>1, HeartbeaterAssumption DEF ValidInterval
    <3>3. QED
      BY <3>1, <3>2 DEF IntervalTypes, IntervalInv, LatestIntervalWins
  <2>5. QED
    BY <2>1, <2>2, <2>3, <2>4, OthersKeepIntervals DEF vars
<1>3. QED
  BY <1>1, <1>2, PTL DEF Spec, IntervalInv

-----------------------------------------------------------------------------
(* Types, and the events *)

\* queueEvent appends the event or drops it.
LEMMA QueueEventEffect ==
    ASSUME events \in Seq(Event), Len(events) <= EventQueueSize, NEW e \in Event, QueueEvent(e)
    PROVE  /\ events' \in Seq(Event) /\ Len(events') <= EventQueueSize
           /\ \A i \in 1..Len(events') :
                \/ i \in 1..Len(events) /\ events'[i] = events[i]
                \/ i = Len(events) + 1 /\ events'[i] = e
  BY HeartbeaterAssumption DEF QueueEvent

\* pulse takes the first event.
LEMMA TakeEventEffect ==
    ASSUME events \in Seq(Event), Len(events) <= EventQueueSize, events # <<>>, events' = Tail(events)
    PROVE  /\ events' \in Seq(Event) /\ Len(events') <= EventQueueSize
           /\ 1 \in 1..Len(events) /\ Head(events) = events[1] /\ events[1] \in Event
           /\ \A i \in 1..Len(events') : i + 1 \in 2..Len(events) /\ events'[i] = events[i + 1]
  BY HeartbeaterAssumption

\* The events themselves.
LEMMA EventTypes ==
    /\ Callback \in Event /\ [kind |-> "unresponded", ts |-> 0] \in Event
    /\ \A h \in Heartbeat : [kind |-> "rx", ts |-> h] \in Event
    /\ \A e \in Event : e.kind = "rx" => e.ts \in Heartbeat
  BY DEF Event, Callback

\* Each step queues an event, takes one, or leaves the events alone.
LEMMA EventSteps ==
    ASSUME Next
    PROVE  \/ RxHeartbeat \/ TimerFires
           \/ /\ QueueEvent(Callback) \/ events' = events
              /\ UNCHANGED <<timers, handled, received>>
              /\ updates' = updates \/ (updates' = updates + 1 /\ received + updates < MaxInputs)
           \/ PulseHandlesRx \/ PulseHandlesOther
  BY DEF Next, peerVars, updateVars, RxHeartbeat, RxResponse, TimerFires, TakeMessage, DropMessage, TxStep, TxLoadsLast, TxStoresLast,
     TxLoadsUnresponded, TxClearsUnresponded, Write, TxerExits, Pulse, PulseLoops, PulseTicks, PulseQueues,
     PulseGivesUp, PulseHandlesRx, PulseHandlesOther, PulseReconfigures, UpdateIntervals, PutInterval,
     TimePasses, Close, AppSends

\* The heartbeats among the events are numbered.
LEMMA EventTimes ==
    ASSUME events \in Seq(Event)
    PROVE  \A i \in 1..Len(events) : events[i].kind = "rx" => events[i].ts \in Nat
  BY EventTypes DEF Heartbeat

\* The events and the timers.
LEMMA NextKeepsEvents ==
    ASSUME HeartbeaterInv, Next
    PROVE  /\ InputInv' /\ EventInv'
           /\ events' \in Seq(Event) /\ Len(events') <= EventQueueSize
           /\ timers' \in Nat /\ handled' \in Nat /\ received' \in Nat /\ updates' \in Nat
           /\ handled' <= received'
<1>1. /\ events \in Seq(Event) /\ Len(events) <= EventQueueSize /\ Len(events) \in Nat
      /\ timers \in Nat /\ handled \in Nat /\ received \in Nat /\ updates \in Nat
      /\ handled <= received /\ MaxInputs \in Nat
  BY HeartbeaterAssumption DEF HeartbeaterInv, TypeOK
<1>2. /\ timers <= handled /\ received + updates <= MaxInputs /\ EventInv
      /\ \A i \in 1..Len(events) : events[i].kind = "rx" => events[i].ts \in Nat
  BY <1>1, EventTimes DEF HeartbeaterInv, InputInv
<1>3. CASE RxHeartbeat
  <2>1. /\ received' = received + 1 /\ received + updates < MaxInputs
        /\ timers' = timers /\ handled' = handled /\ updates' = updates
        /\ QueueEvent([kind |-> "rx", ts |-> received + 1])
    BY <1>3 DEF RxHeartbeat, updateVars
  <2>2. PICK e \in Event : e = [kind |-> "rx", ts |-> received + 1] /\ QueueEvent(e)
    BY <1>1, <2>1, EventTypes DEF Heartbeat
  <2>3. /\ events' \in Seq(Event) /\ Len(events') <= EventQueueSize /\ Len(events') \in Nat
        /\ \A i \in 1..Len(events') :
             \/ i \in 1..Len(events) /\ events'[i] = events[i]
             \/ i = Len(events) + 1 /\ events'[i].ts = received + 1
    BY <1>1, <2>2, QueueEventEffect
  <2>4. \A i \in 1..Len(events') : events'[i].kind = "rx" => handled' < events'[i].ts /\ events'[i].ts <= received'
    BY <1>1, <1>2, <2>1, <2>3 DEF EventInv
  <2>5. ASSUME NEW i \in 1..Len(events'), NEW j \in 1..Len(events'), i < j,
               events'[i].kind = "rx", events'[j].kind = "rx"
        PROVE  events'[i].ts < events'[j].ts
    <3>0. i \in 1..Len(events) /\ events'[i] = events[i]
      <4>1. j <= Len(events) + 1
        BY <1>1, <2>3
      <4>2. QED
        BY <1>1, <2>3, <2>5, <4>1
    <3>1. i \in 1..Len(events) /\ events'[i] = events[i] /\ events[i].ts \in Nat /\ events[i].ts <= received
      BY <1>2, <2>5, <3>0 DEF EventInv
    <3>2. CASE j \in 1..Len(events) /\ events'[j] = events[j]
      BY <1>2, <2>5, <3>1, <3>2 DEF EventInv
    <3>3. CASE events'[j].ts = received + 1
      BY <1>1, <3>1, <3>3
    <3>4. QED
      BY <2>3, <3>2, <3>3
  <2>6. EventInv'
    BY <2>4, <2>5 DEF EventInv
  <2>7. QED
    BY <1>1, <1>2, <2>1, <2>3, <2>6 DEF InputInv
<1>4. ASSUME NEW e \in Event, e.kind # "rx", QueueEvent(e) \/ events' = events, handled' = handled, received' = received
      PROVE  events' \in Seq(Event) /\ Len(events') <= EventQueueSize /\ EventInv'
  <2>1. /\ events' \in Seq(Event) /\ Len(events') <= EventQueueSize
        /\ \A i \in 1..Len(events') : events'[i].kind = "rx" => i \in 1..Len(events) /\ events'[i] = events[i]
    BY <1>1, <1>4, QueueEventEffect
  <2>2. EventInv'
    BY <1>2, <1>4, <2>1 DEF EventInv
  <2>3. QED
    BY <2>1, <2>2
<1>5. CASE TimerFires
  <2>1. /\ timers' = timers - 1 /\ timers > 0 /\ UNCHANGED <<handled, received, updates>>
        /\ QueueEvent([kind |-> "unresponded", ts |-> 0])
    BY <1>5 DEF TimerFires, peerVars, updateVars
  <2>2. events' \in Seq(Event) /\ Len(events') <= EventQueueSize /\ EventInv'
    BY <1>4, <2>1, EventTypes
  <2>3. QED
    BY <1>1, <1>2, <2>1, <2>2 DEF InputInv
<1>6. CASE /\ QueueEvent(Callback) \/ events' = events
           /\ UNCHANGED <<timers, handled, received>>
           /\ updates' = updates \/ (updates' = updates + 1 /\ received + updates < MaxInputs)
  <2>1. events' \in Seq(Event) /\ Len(events') <= EventQueueSize /\ EventInv'
    BY <1>4, <1>6, EventTypes DEF Callback
  <2>2. QED
    BY <1>1, <1>2, <1>6, <2>1 DEF InputInv
<1>7. CASE PulseHandlesRx \/ PulseHandlesOther
  <2>1. /\ events # <<>> /\ events' = Tail(events) /\ UNCHANGED <<received, updates>>
        /\ \/ timers' = timers /\ handled' = handled
           \/ timers' = timers + 1 /\ handled' = Head(events).ts /\ Head(events).kind = "rx"
    BY <1>7 DEF PulseHandlesRx, PulseHandlesOther, peerVars, updateVars
  <2>2. /\ events' \in Seq(Event) /\ Len(events') <= EventQueueSize /\ Len(events') \in Nat
        /\ 1 \in 1..Len(events) /\ Head(events) = events[1]
        /\ \A i \in 1..Len(events') : i + 1 \in 2..Len(events) /\ events'[i] = events[i + 1]
    BY <1>1, <2>1, TakeEventEffect
  <2>3. CASE timers' = timers /\ handled' = handled
    <3>1. EventInv'
      BY <1>1, <1>2, <2>1, <2>2, <2>3 DEF EventInv
    <3>2. QED
      BY <1>1, <1>2, <2>1, <2>2, <2>3, <3>1 DEF InputInv
  <2>4. CASE timers' = timers + 1 /\ handled' = Head(events).ts /\ Head(events).kind = "rx"
    <3>1. handled' \in Nat /\ handled < handled' /\ handled' <= received /\ handled' = events[1].ts
      BY <1>2, <2>2, <2>4 DEF EventInv
    <3>2. EventInv'
      BY <1>1, <1>2, <2>1, <2>2, <2>4, <3>1 DEF EventInv
    <3>3. QED
      BY <1>1, <1>2, <2>1, <2>2, <2>4, <3>1, <3>2 DEF InputInv
  <2>5. QED
    BY <2>1, <2>3, <2>4
<1>8. QED
  BY <1>3, <1>5, <1>6, <1>7, EventSteps

\* The messages in the out queue.
LEMMA NextKeepsQueue ==
    ASSUME TypeOK, Next
    PROVE  queue' \in Seq(Message) /\ Len(queue') <= OutQueueSize
<1>1. queue \in Seq(Message) /\ Len(queue) <= OutQueueSize /\ Len(queue) \in Nat /\ OutQueueSize \in Nat
  BY HeartbeaterAssumption DEF TypeOK
<1>2. CASE queue' = queue
  BY <1>1, <1>2
<1>3. CASE queue # <<>> /\ queue' = Tail(queue)
  BY <1>1, <1>3
<1>4. ASSUME NEW m \in Message, Len(queue) < OutQueueSize, queue' = Append(queue, m)
      PROVE  queue' \in Seq(Message) /\ Len(queue') <= OutQueueSize
  BY <1>1, <1>4
<1>5. CASE queue' = [i \in DOMAIN queue |-> IF queue[i] = "pulse" THEN "expired" ELSE queue[i]]
  <2>1. DOMAIN queue = 1..Len(queue) /\ \A i \in 1..Len(queue) : queue[i] \in Message
    BY <1>1
  <2>2. queue' \in [1..Len(queue) -> Message]
    BY <1>5, <2>1 DEF Message
  <2>3. QED
    BY <1>1, <2>2
<1>6. \/ queue' = queue
      \/ queue # <<>> /\ queue' = Tail(queue)
      \/ \E m \in Message : Len(queue) < OutQueueSize /\ queue' = Append(queue, m)
      \/ queue' = [i \in DOMAIN queue |-> IF queue[i] = "pulse" THEN "expired" ELSE queue[i]]
  BY DEF Message, txVars, Next, RxHeartbeat, RxResponse, TimerFires, TakeMessage, DropMessage, TxStep,
     TxLoadsLast, TxStoresLast, TxLoadsUnresponded, TxClearsUnresponded, Write, TxerExits, Pulse,
     PulseLoops, PulseTicks, PulseQueues, PulseGivesUp, PulseHandlesRx, PulseHandlesOther,
     PulseReconfigures, UpdateIntervals, PutInterval, TimePasses, Close, AppSends
<1>7. QED
  BY <1>2, <1>3, <1>4, <1>5, <1>6

\* The records of the txers.
TxRecord == [at : {"source", "due", "stamp", "load", "clear", "write", "exit"},
             msg : Message \cup {None}, answer : 0..MaxInputs]

\* Each step leaves the txers alone, moves one of them on, or gives up a message of pulse.
LEMMA TxSteps ==
    ASSUME Next
    PROVE  \/ tx' = tx
           \/ PulseGivesUp
           \/ \E t \in Txer : TakeMessage(t) \/ TxStep(t) \/ TxerExits(t)
  BY DEF txVars, Next, RxHeartbeat, RxResponse, TimerFires, DropMessage, Pulse, PulseLoops, PulseTicks,
     PulseQueues, PulseHandlesRx, PulseHandlesOther, PulseReconfigures, UpdateIntervals, PutInterval,
     TimePasses, Close, AppSends

LEMMA NextKeepsTx ==
    ASSUME TypeOK, Next
    PROVE  tx' \in [Txer -> TxRecord]
<1>1. tx \in [Txer -> TxRecord] /\ unresponded \in 0..MaxInputs /\ queue \in Seq(Message) /\ MaxInputs \in Nat
  BY HeartbeaterAssumption DEF TypeOK, TxRecord
<1>2. CASE PulseGivesUp
  BY <1>1, <1>2 DEF PulseGivesUp, TxRecord, Message
<1>3. ASSUME NEW t \in Txer, TakeMessage(t) \/ TxStep(t) \/ TxerExits(t)
      PROVE  tx' \in [Txer -> TxRecord]
  <2>1. PICK at \in {"source", "due", "stamp", "load", "clear", "write", "exit"},
             m \in Message \cup {None}, h \in 0..MaxInputs : SetTx(t, at, m, h)
    <3>1. 0 \in 0..MaxInputs /\ tx[t].answer \in 0..MaxInputs /\ tx[t].msg \in Message \cup {None}
      BY <1>1, <1>3 DEF TxRecord
    <3>2. queue # <<>> => Head(queue) \in Message
      BY <1>1
    <3>3. QED
      BY <1>1, <1>3, <3>1, <3>2 DEF TakeMessage, TxStep, TxerExits, TxLoadsLast, TxStoresLast, TxLoadsUnresponded,
         TxClearsUnresponded, Write
  <2>2. [at |-> at, msg |-> m, answer |-> h] \in TxRecord
    BY <2>1 DEF TxRecord
  <2>3. QED
    BY <1>1, <2>1, <2>2 DEF SetTx
<1>4. QED
  BY <1>1, <1>2, <1>3, TxSteps

\* What is left of the types.
LEMMA NextKeepsRest ==
    ASSUME HeartbeaterInv, Next
    PROVE  /\ slow' \in BOOLEAN /\ due' \in BOOLEAN /\ closed' \in BOOLEAN
           /\ unresponded' \in 0..MaxInputs
           /\ pulse' \in {"head", "select", "send", "wire", "answer", "ended"}
           /\ answers' \in [Heartbeat -> Nat]
           /\ reconfigC' \in Interval \cup {None} /\ updater' \in Interval \cup {None}
           /\ requested' \in Interval \cup {None} /\ interval' \in (Interval \ {0}) \cup {None}
<1>0. TypeOK
  BY DEF HeartbeaterInv
<1>1. slow' \in BOOLEAN /\ due' \in BOOLEAN /\ closed' \in BOOLEAN
  BY <1>0, Zenon DEF TypeOK, Next, RxHeartbeat, RxResponse, TimerFires, TakeMessage, DropMessage, TxStep,
     TxLoadsLast, TxStoresLast, TxLoadsUnresponded, TxClearsUnresponded, Write, TxerExits, Pulse,
     PulseLoops, PulseTicks, PulseQueues, PulseGivesUp, PulseHandlesRx, PulseHandlesOther,
     PulseReconfigures, UpdateIntervals, PutInterval, TimePasses, Close, AppSends
<1>2. unresponded' \in 0..MaxInputs
  <2>1. unresponded' = unresponded \/ unresponded' = 0 \/ PulseHandlesRx
    BY DEF AfterAnswer, Next, RxHeartbeat, RxResponse, TimerFires, TakeMessage, DropMessage, TxStep,
     TxLoadsLast, TxStoresLast, TxLoadsUnresponded, TxClearsUnresponded, Write, TxerExits, Pulse,
     PulseLoops, PulseTicks, PulseQueues, PulseGivesUp, PulseHandlesRx, PulseHandlesOther,
     PulseReconfigures, UpdateIntervals, PutInterval, TimePasses, Close, AppSends
  <2>2. ASSUME PulseHandlesRx
        PROVE  Head(events).ts \in Heartbeat
    BY <1>0, <2>2, TakeEventEffect, EventTypes DEF PulseHandlesRx, TypeOK
  <2>3. 0 \in 0..MaxInputs /\ Heartbeat \subseteq 0..MaxInputs /\ unresponded \in 0..MaxInputs
    BY <1>0, HeartbeaterAssumption DEF TypeOK, Heartbeat
  <2>4. QED
    BY <2>1, <2>2, <2>3 DEF PulseHandlesRx
<1>3. pulse' \in {"head", "select", "send", "wire", "answer", "ended"}
  BY <1>0 DEF TypeOK, Next, RxHeartbeat, RxResponse, TimerFires, TakeMessage, DropMessage, TxStep,
     TxLoadsLast, TxStoresLast, TxLoadsUnresponded, TxClearsUnresponded, Write, TxerExits, Pulse,
     PulseLoops, PulseTicks, PulseQueues, PulseGivesUp, PulseHandlesRx, PulseHandlesOther,
     PulseReconfigures, UpdateIntervals, PutInterval, TimePasses, Close, AppSends
<1>4. answers' \in [Heartbeat -> Nat]
  <2>1. answers' = answers \/ \E t \in Txer : Write(t)
    BY DEF peerVars, Next, RxHeartbeat, RxResponse, TimerFires, TakeMessage, DropMessage, TxStep,
     TxLoadsLast, TxStoresLast, TxLoadsUnresponded, TxClearsUnresponded, TxerExits, Pulse,
     PulseLoops, PulseTicks, PulseQueues, PulseGivesUp, PulseHandlesRx, PulseHandlesOther,
     PulseReconfigures, UpdateIntervals, PutInterval, TimePasses, Close, AppSends
  <2>2. \A h \in Heartbeat : answers[h] \in Nat /\ answers[h] + 1 \in Nat /\ answers[h] + 0 \in Nat
    BY <1>0 DEF TypeOK
  <2>3. QED
    BY <1>0, <2>1, <2>2 DEF TypeOK, Write
<1>5. /\ reconfigC' \in Interval \cup {None} /\ updater' \in Interval \cup {None}
      /\ requested' \in Interval \cup {None} /\ interval' \in (Interval \ {0}) \cup {None}
  <2>1. CASE UNCHANGED updateVars
    BY <1>0, <2>1 DEF TypeOK, updateVars
  <2>2. CASE PulseReconfigures \/ PutInterval \/ \E i \in Interval : UpdateIntervals(i)
    BY <1>0, <2>2, HeartbeaterAssumption DEF TypeOK, PulseReconfigures, ValidInterval, PutInterval, UpdateIntervals, Drained
  <2>3. QED
    BY <2>1, <2>2, OthersKeepIntervals
<1>6. QED
  BY <1>1, <1>2, <1>3, <1>4, <1>5

\* The types, with what they need of the events.
THEOREM HeartbeaterInvariant == Spec => []HeartbeaterInv
<1>1. Init => HeartbeaterInv
  <2> SUFFICES ASSUME Init
               PROVE  HeartbeaterInv
    OBVIOUS
  <2>1. 0 \in 0..MaxInputs /\ 0 \in 0..0 /\ 0 + 0 <= MaxInputs /\ MaxInputs \in Nat /\ 0 <= EventQueueSize /\ 0 <= OutQueueSize
    BY HeartbeaterAssumption
  <2>2. tx \in [Txer -> TxRecord]
    BY <2>1 DEF Init, TxRecord
  <2>3. answers \in [Heartbeat -> Nat]
    BY DEF Init
  <2>4. events \in Seq(Event) /\ queue \in Seq(Message) /\ Len(events) = 0 /\ Len(queue) = 0
    BY DEF Init
  <2>5. TypeOK
    BY <2>1, <2>2, <2>3, <2>4 DEF Init, TypeOK, TxRecord
  <2>6. InputInv /\ EventInv
    BY <2>1, <2>4 DEF Init, InputInv, EventInv
  <2>7. QED
    BY <2>5, <2>6 DEF HeartbeaterInv
<1>2. HeartbeaterInv /\ [Next]_vars => HeartbeaterInv'
  <2> SUFFICES ASSUME HeartbeaterInv, [Next]_vars
               PROVE  HeartbeaterInv'
    OBVIOUS
  <2>1. CASE UNCHANGED vars
    BY <2>1 DEF vars, txVars, peerVars, updateVars, HeartbeaterInv, TypeOK, InputInv, EventInv
  <2>2. CASE Next
    <3>1. TypeOK /\ MaxInputs \in Nat
      BY HeartbeaterAssumption DEF HeartbeaterInv
    <3>2. /\ InputInv' /\ EventInv'
          /\ events' \in Seq(Event) /\ Len(events') <= EventQueueSize
          /\ timers' \in Nat /\ handled' \in Nat /\ received' \in Nat /\ updates' \in Nat
          /\ handled' <= received'
      BY <2>2, NextKeepsEvents
    <3>3. /\ timers' \in 0..MaxInputs /\ received' \in 0..MaxInputs /\ handled' \in 0..received'
          /\ updates' \in 0..MaxInputs
      <4>1. timers' <= handled' /\ received' + updates' <= MaxInputs
        BY <3>2 DEF InputInv
      <4>2. received' <= MaxInputs /\ updates' <= MaxInputs
        <5>1. \A a, b, c \in Nat : a + b <= c => a <= c /\ b <= c
          OBVIOUS
        <5>2. received' \in Nat /\ updates' \in Nat /\ MaxInputs \in Nat
          BY <3>1, <3>2
        <5>3. QED
          BY <4>1, <5>1, <5>2, Zenon
      <4>3. timers' <= MaxInputs
        BY <3>1, <3>2, <4>1, <4>2
      <4>4. QED
        BY <3>1, <3>2, <4>2, <4>3
    <3>4. QED
      BY <2>2, <3>1, <3>2, <3>3, NextKeepsQueue, NextKeepsTx, NextKeepsRest, Zenon DEF HeartbeaterInv, TypeOK, TxRecord
  <2>3. QED
    BY <2>1, <2>2
<1>3. QED
  BY <1>1, <1>2, PTL DEF Spec

\* Every variable keeps its type: the number of timers and of heartbeats is bounded by the
\* heartbeats that were received.
THEOREM TypeCorrect == Spec => []TypeOK
  BY HeartbeaterInvariant, PTL DEF HeartbeaterInv

-----------------------------------------------------------------------------
(* Answers *)

\* The steps that matter to the answers.
LEMMA AnswerSteps ==
    ASSUME Next
    PROVE  \/ UNCHANGED <<unresponded, handled, answers, tx>>
           \/ PulseHandlesRx \/ PulseGivesUp
           \/ \E t \in Txer : TakeMessage(t) \/ TxStep(t) \/ TxerExits(t)
  BY DEF txVars, peerVars, Next, RxHeartbeat, RxResponse, TimerFires, DropMessage, Pulse, PulseLoops,
     PulseTicks, PulseQueues, PulseHandlesOther, PulseReconfigures, UpdateIntervals, PutInterval,
     TimePasses, Close, AppSends

\* A step of the only txer that writes nothing and takes up at most the unresponded heartbeat.
LEMMA TxerKeepsAnswers ==
    ASSUME HeartbeaterInv, AnswerInv, NEW t \in Txer, \A s \in Txer : s = t,
           NEW at, NEW m, NEW h \in {0, tx[t].answer, unresponded}, SetTx(t, at, m, h),
           h # 0 => at \in {"clear", "write"},
           h # 0 /\ at = "write" => unresponded' # h,
           unresponded' \in {0, unresponded}, UNCHANGED <<handled, answers>>
    PROVE  AnswerInv'
<1>1. tx'[t] = [at |-> at, msg |-> m, answer |-> h]
  BY DEF SetTx, HeartbeaterInv, TypeOK
<1>2. handled \in Nat /\ h <= handled /\ (h # 0 => answers[h] = 0)
  BY DEF HeartbeaterInv, TypeOK, AnswerInv
<1>3. QED
  BY <1>1, <1>2 DEF AnswerInv, AnsweredOnce

LEMMA NextKeepsAnswers ==
    ASSUME \A s, t \in Txer : s = t, HeartbeaterInv, AnswerInv, Next
    PROVE  AnswerInv'
<1>1. /\ unresponded \in Nat /\ handled \in Nat /\ handled <= MaxInputs /\ MaxInputs \in Nat
      /\ answers \in [Heartbeat -> Nat] /\ tx \in [Txer -> TxRecord]
  BY HeartbeaterAssumption DEF HeartbeaterInv, TypeOK, TxRecord
<1>2. CASE UNCHANGED <<unresponded, handled, answers, tx>>
  BY <1>2 DEF AnswerInv, AnsweredOnce
<1>3. CASE PulseHandlesRx
  <2>1. /\ unresponded' = Head(events).ts /\ handled' = Head(events).ts
        /\ answers' = answers /\ tx' = tx /\ events # <<>> /\ Head(events).kind = "rx" /\ events' = Tail(events)
    BY <1>3 DEF PulseHandlesRx, peerVars, txVars
  <2>2. 1 \in 1..Len(events) /\ Head(events) = events[1] /\ events[1] \in Event
    BY <2>1, TakeEventEffect DEF HeartbeaterInv, TypeOK
  <2>3. Head(events).ts \in Heartbeat /\ handled < Head(events).ts
    BY <2>1, <2>2, EventTypes DEF HeartbeaterInv, EventInv
  <2>4. \A t \in Txer : tx[t].answer \in Nat
    BY <1>1 DEF TxRecord
  <2>5. QED
    BY <1>1, <2>1, <2>3, <2>4 DEF AnswerInv, AnsweredOnce, Heartbeat
<1>4. CASE PulseGivesUp
  <2>1. UNCHANGED <<unresponded, handled, answers>>
    BY <1>4 DEF PulseGivesUp, peerVars
  <2>2. \A t \in Txer : tx'[t].at = tx[t].at /\ tx'[t].answer = tx[t].answer
    BY <1>1, <1>4 DEF PulseGivesUp, TxRecord
  <2>3. QED
    BY <2>1, <2>2 DEF AnswerInv, AnsweredOnce
<1>5. ASSUME NEW t \in Txer, TakeMessage(t) \/ TxStep(t) \/ TxerExits(t)
      PROVE  AnswerInv'
  <2>1. \A s \in Txer : s = t
    OBVIOUS
  <2>2. CASE TakeMessage(t) \/ TxLoadsLast(t) \/ TxStoresLast(t) \/ TxerExits(t)
    <3>1. UNCHANGED <<unresponded, handled, answers>>
      BY <2>2 DEF TakeMessage, TxLoadsLast, TxStoresLast, TxerExits, peerVars
    <3>2. PICK at, m : SetTx(t, at, m, 0)
      BY <2>2 DEF TakeMessage, TxLoadsLast, TxStoresLast, TxerExits
    <3>3. QED
      BY <2>1, <3>1, <3>2, TxerKeepsAnswers
  <2>3. CASE TxLoadsUnresponded(t)
    <3>1. UNCHANGED <<unresponded, handled, answers>>
      BY <2>3 DEF TxLoadsUnresponded, peerVars
    <3>2. PICK at, m : SetTx(t, at, m, unresponded) /\ (unresponded # 0 => at = "clear")
      BY <2>3 DEF TxLoadsUnresponded
    <3>3. QED
      BY <2>1, <3>1, <3>2, TxerKeepsAnswers
  <2>4. CASE TxClearsUnresponded(t)
    <3>1. unresponded' = 0 /\ UNCHANGED <<handled, answers>>
      BY <2>4 DEF TxClearsUnresponded, AfterAnswer, peerVars
    <3>2. PICK m : SetTx(t, "write", m, tx[t].answer)
      BY <2>4 DEF TxClearsUnresponded
    <3>3. QED
      BY <2>1, <3>1, <3>2, TxerKeepsAnswers
  <2>5. CASE Write(t)
    <3>1. /\ UNCHANGED <<unresponded, handled>>
          /\ tx[t].at = "write"
          /\ \A h \in Heartbeat : answers'[h] = answers[h] + IF tx[t].answer = h THEN 1 ELSE 0
          /\ tx'[t] = [at |-> "source", msg |-> None, answer |-> 0]
      BY <1>1, <2>5 DEF Write, SetTx, updateVars
    <3>2. /\ tx[t].answer \in Nat /\ tx[t].answer <= handled
          /\ tx[t].answer # 0 => answers[tx[t].answer] = 0 /\ unresponded # tx[t].answer
      BY <1>1, <3>1 DEF AnswerInv, TxRecord
    <3>3. \A h \in Heartbeat : h \in Nat /\ h # 0 /\ answers[h] \in Nat
      BY <1>1 DEF Heartbeat
    <3>4. /\ \A h \in Heartbeat : answers'[h] <= 1
          /\ \A h \in Heartbeat : h > handled => answers'[h] = 0
      BY <1>1, <3>1, <3>2, <3>3 DEF AnswerInv, AnsweredOnce
    <3>5. unresponded # 0 => answers'[unresponded] = 0
      BY <1>1, <3>1, <3>2, <3>3 DEF AnswerInv, Heartbeat
    <3>6. QED
      BY <1>1, <2>1, <3>1, <3>4, <3>5 DEF AnswerInv, AnsweredOnce
  <2>6. QED
    BY <1>5, <2>2, <2>3, <2>4, <2>5 DEF TxStep
<1>6. QED
  BY <1>2, <1>3, <1>4, <1>5, AnswerSteps

\* heartbeater.go:203-207.  On a channel with one underlay, so with one txer, no heartbeat is
\* answered twice: the txer stores 0 into unrespondedHeartbeat before it takes another
\* message, and pulse handles the heartbeats in the order in which they came.
THEOREM HeartbeatsAnsweredOnce ==
    ASSUME \A s, t \in Txer : s = t
    PROVE  Spec => []AnsweredOnce
<1>1. Init => AnswerInv
  BY HeartbeaterAssumption DEF Init, AnswerInv, AnsweredOnce, Heartbeat
<1>2. HeartbeaterInv /\ AnswerInv /\ [Next]_vars => AnswerInv'
  <2>1. AnswerInv /\ UNCHANGED vars => AnswerInv'
    BY DEF vars, txVars, peerVars, AnswerInv, AnsweredOnce
  <2>2. QED
    BY <2>1, NextKeepsAnswers
<1>3. QED
  BY <1>1, <1>2, HeartbeaterInvariant, PTL DEF Spec, AnswerInv

=============================================================================
