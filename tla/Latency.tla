------------------------------- MODULE Latency -------------------------------
(***************************************************************************)
(* The latency probes of a channel (latency/latency.go): what answers the  *)
(* peer's probes, LatencyHandler or Responder, called by the rxer of every *)
(* underlay; latencyProbe, which a timer runs; and the loop of             *)
(* ProbeLatencyConfigurable.  All send over the channel's out queue, which *)
(* the peer may stop draining at any time.                                 *)
(***************************************************************************)
EXTENDS Naturals, FiniteSets

CONSTANTS
    Rxer,            \* the rxers of the channel, one for each underlay
    QueueSize,       \* capacity of the out queue
    RoundTripFreq,   \* roundTripFreq
    CountModulus     \* 256: latencyProbe.count is a uint8

ASSUME LatencyAssumption ==
    /\ QueueSize \in Nat \ {0}
    /\ CountModulus \in Nat \ {0}
    /\ RoundTripFreq \in 0..(CountModulus - 1)
    /\ IsFiniteSet(Rxer)

VARIABLES
    answerer,         \* which of the two was bound to ContentTypeLatencyType
    rx,               \* where each rxer is
    responses,        \* LatencyHandler.responses
    sending,          \* goroutines of LatencyHandler inside Send ...
    sent,             \* ... and those that have yet to take themselves off responses
    responseChannel,  \* messages in Responder.responseChannel
    responder,        \* where responseSender is
    probe,            \* where latencyProbe is, "timer" between its runs
    count,            \* latencyProbe.count
    trackers,         \* SendTimeTrackers since the last RoundTripLatency
    prober,           \* where the loop of ProbeLatencyConfigurable is
    queued,           \* messages in the out queue
    closed            \* the channel is closed

answerVars == <<answerer, rx, responses, sending, sent, responseChannel>>
probeVars == <<probe, count, trackers>>
vars == <<answerVars, responder, probeVars, prober, queued, closed>>

TypeOK ==
    /\ answerer \in {"handler", "responder"}
    /\ rx \in [Rxer -> {"idle", "handle", "over"}]
    /\ responses \in Nat /\ sending \in Nat /\ sent \in Nat
    /\ responseChannel \in 0..1
    /\ responder \in {"select", "send", "ended"}
    /\ probe \in {"timer", "send", "ended"}
    /\ count \in 0..(CountModulus - 1)
    /\ trackers \in Nat
    /\ prober \in {"sleep", "ask", "ended"}
    /\ queued \in 0..QueueSize
    /\ closed \in BOOLEAN

-----------------------------------------------------------------------------
(* Send: it waits for room in the queue or the channel's close. *)

Enqueue == queued < QueueSize /\ queued' = queued + 1
ClosedError == closed /\ UNCHANGED queued

-----------------------------------------------------------------------------
(* Answering: an rxer has read a probe and calls HandleReceive. *)

Receive(r) ==
    /\ ~closed
    /\ rx[r] = "idle"
    /\ rx' = [rx EXCEPT ![r] = "handle"]
    /\ UNCHANGED <<answerer, responses, sending, sent, responseChannel, responder, probeVars, prober, queued, closed>>

MayRespondTwice(n) == n < 3
MayRespond(n) == n < 2

\* LatencyHandler counts itself, and answers in a goroutine of its own ...
HandleProbe(r) ==
    /\ rx[r] = "handle" /\ answerer = "handler"
    /\ responses' = responses + 1
    /\ IF MayRespond(responses + 1)
       THEN sending' = sending + 1 /\ rx' = [rx EXCEPT ![r] = "idle"]
       ELSE rx' = [rx EXCEPT ![r] = "over"] /\ UNCHANGED sending
    /\ UNCHANGED <<answerer, sent, responseChannel, responder, probeVars, prober, queued, closed>>

\* ... unless there is one.
DropProbe(r) ==
    /\ rx[r] = "over"
    /\ rx' = [rx EXCEPT ![r] = "idle"]
    /\ responses' = responses - 1
    /\ UNCHANGED <<answerer, sending, sent, responseChannel, responder, probeVars, prober, queued, closed>>

SendResult ==
    /\ sending > 0
    /\ Enqueue \/ ClosedError
    /\ sending' = sending - 1 /\ sent' = sent + 1
    /\ UNCHANGED <<answerer, rx, responses, responseChannel, responder, probeVars, prober, closed>>

ResultSent ==
    /\ sent > 0
    /\ sent' = sent - 1
    /\ responses' = responses - 1
    /\ UNCHANGED <<answerer, rx, sending, responseChannel, responder, probeVars, prober, queued, closed>>

\* Responder leaves the answer to responseSender, and drops it when one is waiting there.
OfferBlocking == responseChannel = 0 /\ responseChannel' = 1
Offer == responseChannel' = 1

OfferResponse(r) ==
    /\ rx[r] = "handle" /\ answerer = "responder"
    /\ Offer
    /\ rx' = [rx EXCEPT ![r] = "idle"]
    /\ UNCHANGED <<answerer, responses, sending, sent, responder, probeVars, prober, queued, closed>>

ResponderTakes ==
    /\ responder = "select"
    /\ responseChannel = 1
    /\ responseChannel' = 0
    /\ responder' = "send"
    /\ UNCHANGED <<answerer, rx, responses, sending, sent, probeVars, prober, queued, closed>>

ResponderSends ==
    /\ responder = "send"
    /\ \/ Enqueue /\ responder' = "select"
       \/ ClosedError /\ responder' = "ended"
    /\ UNCHANGED <<answerVars, probeVars, prober, closed>>

\* The ticker of ten seconds.
AfterTick == IF closed THEN "ended" ELSE responder

ResponderTicks ==
    /\ responder = "select"
    /\ responder' = AfterTick
    /\ UNCHANGED <<answerVars, probeVars, prober, queued, closed>>

-----------------------------------------------------------------------------
(* Probing *)

CountAfterRoundTripKept == count
CountAfterRoundTrip == 0

\* latencyProbe.run, up to its Send: a round trip, or only the time to the write.
ProbeRuns ==
    /\ probe = "timer"
    /\ ~closed
    /\ IF count = RoundTripFreq
       THEN count' = CountAfterRoundTrip /\ trackers' = 0
       ELSE trackers' = trackers + 1 /\ UNCHANGED count
    /\ probe' = "send"
    /\ UNCHANGED <<answerVars, responder, prober, queued, closed>>

ProbeStops ==
    /\ probe = "timer"
    /\ closed
    /\ probe' = "ended"
    /\ UNCHANGED <<answerVars, responder, count, trackers, prober, queued, closed>>

ProbeSends ==
    /\ probe = "send"
    /\ \/ Enqueue /\ probe' = "timer" /\ count' = (count + 1) % CountModulus
       \/ ClosedError /\ probe' = "ended" /\ UNCHANGED count
    /\ UNCHANGED <<answerVars, responder, trackers, prober, closed>>

\* ProbeLatencyConfigurable: the interval has passed.
ProberWakes ==
    /\ prober = "sleep"
    /\ prober' = IF closed THEN "ended" ELSE "ask"
    /\ UNCHANGED <<answerVars, responder, probeVars, queued, closed>>

\* SendForReply returns the reply, or an error, a timeout's perhaps.  The request may have
\* gone into the queue.
ProberReturns ==
    /\ prober = "ask"
    /\ \/ prober' = "sleep"
       \/ closed /\ prober' = "ended"
    /\ Enqueue \/ UNCHANGED queued
    /\ UNCHANGED <<answerVars, responder, probeVars, closed>>

-----------------------------------------------------------------------------
(* The channel *)

\* A txer takes a message.
Drain ==
    /\ ~closed
    /\ queued > 0
    /\ queued' = queued - 1
    /\ UNCHANGED <<answerVars, responder, probeVars, prober, closed>>

Close ==
    /\ ~closed
    /\ closed' = TRUE
    /\ UNCHANGED <<answerVars, responder, probeVars, prober, queued>>

-----------------------------------------------------------------------------
(* Specification *)

Init ==
    /\ answerer \in {"handler", "responder"}
    /\ rx = [r \in Rxer |-> "idle"]
    /\ responses = 0 /\ sending = 0 /\ sent = 0
    /\ responseChannel = 0 /\ responder = "select"
    /\ probe = "timer" /\ count = 0 /\ trackers = 0
    /\ prober = "sleep"
    /\ queued = 0
    /\ closed = FALSE

Handle(r) == HandleProbe(r) \/ DropProbe(r) \/ OfferResponse(r)
Answer == SendResult \/ ResultSent
Respond == ResponderTakes \/ ResponderSends
Probe == ProbeRuns \/ ProbeStops \/ ProbeSends
Ask == ProberWakes \/ ProberReturns

Next ==
    \/ \E r \in Rxer : Receive(r) \/ Handle(r)
    \/ Answer \/ Respond \/ ResponderTicks \/ Probe \/ Ask
    \/ Drain \/ Close

Spec == Init /\ [][Next]_vars

\* Goroutines run and timers fire; whether the queue drains is up to the peer.
Fairness ==
    /\ \A r \in Rxer : WF_vars(Handle(r))
    /\ WF_vars(Answer) /\ WF_vars(Respond) /\ WF_vars(ResponderTicks) /\ WF_vars(Probe)
    /\ WF_vars(Ask)

FairSpec == Spec /\ Fairness

-----------------------------------------------------------------------------
(* Properties *)

\* latency.go:41.  However many rxers hand it probes, LatencyHandler has at most one
\* goroutine that may be stuck in Send.
OneResponse == sending <= 1

\* latency.go:160-164.  Never more than roundTripFreq probes in a row that measure only the
\* time to the write, the wrap of count included.
RoundTripsRegular == RoundTripFreq > 0 => trackers <= RoundTripFreq

\* latency.go:40.  A queue that never drains does not hold up receiving: every rxer returns
\* from HandleReceive.
ReceiverNotHeldUp == \A r \in Rxer : rx[r] = "handle" ~> rx[r] = "idle"

=============================================================================
