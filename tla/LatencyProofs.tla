--------------------------- MODULE LatencyProofs ---------------------------
(***************************************************************************)
(* Proofs about Latency, for any number of rxers, any size of the out      *)
(* queue and any roundTripFreq.                                            *)
(***************************************************************************)
EXTENDS Latency, FiniteSetTheorems, TLAPS

-----------------------------------------------------------------------------
(* The inductive invariants *)

\* The rxers that are about to take themselves off LatencyHandler.responses.
Over == {r \in Rxer : rx[r] = "over"}

\* responses counts the goroutines, and the rxers that have found one.
ResponsesCounted ==
    /\ responses = sending + sent + Cardinality(Over)
    /\ sending + sent <= 1

\* Between two round trips count never falls behind the probes that were only timed.
TrackersCounted ==
    RoundTripFreq > 0 =>
        /\ probe = "timer" => count <= RoundTripFreq /\ trackers <= count
        /\ probe = "send" => count < RoundTripFreq /\ trackers <= count + 1
        /\ trackers <= RoundTripFreq

LatencyInv == TypeOK /\ ResponsesCounted /\ TrackersCounted

-----------------------------------------------------------------------------
(* Counting the rxers *)

\* There are finitely many rxers, so those over the limit can be counted.
LEMMA OverIsFinite == IsFiniteSet(Over) /\ Cardinality(Over) \in Nat
<1>1. Over \in SUBSET Rxer
  BY DEF Over
<1>2. IsFiniteSet(Over)
  BY <1>1, FS_Subset, LatencyAssumption
<1>3. QED
  BY <1>2, FS_CardinalityType

\* An rxer that finds a goroutine (latency.go:41) is one more.
LEMMA OverGrows ==
    ASSUME TypeOK, NEW r \in Rxer, rx[r] # "over", rx' = [rx EXCEPT ![r] = "over"]
    PROVE  Cardinality(Over') = Cardinality(Over) + 1
<1>1. Over' = Over \cup {r} /\ r \notin Over
  BY DEF TypeOK, Over
<1>2. QED
  BY <1>1, OverIsFinite, FS_AddElement

\* An rxer that drops its probe is one less, and was one.
LEMMA OverShrinks ==
    ASSUME TypeOK, NEW r \in Rxer, rx[r] = "over", rx' = [rx EXCEPT ![r] = "idle"]
    PROVE  Cardinality(Over') = Cardinality(Over) - 1 /\ Cardinality(Over) > 0
<1>1. Over' = Over \ {r} /\ r \in Over
  BY DEF TypeOK, Over
<1>2. Cardinality(Over) # 0
  BY <1>1, OverIsFinite, FS_EmptySet
<1>3. QED
  BY <1>1, <1>2, OverIsFinite, FS_RemoveElement

\* Any other step of an rxer leaves the number as it is.
LEMMA OverStays ==
    ASSUME TypeOK, NEW r \in Rxer, NEW at \in {"idle", "handle"}, rx[r] # "over",
           rx' = [rx EXCEPT ![r] = at]
    PROVE  Over' = Over
  BY DEF TypeOK, Over

-----------------------------------------------------------------------------
(* The invariants hold *)

\* The channel begins with no probe in hand.
LEMMA InitLatency == Init => LatencyInv
<1> SUFFICES ASSUME Init
             PROVE  LatencyInv
  OBVIOUS
<1>1. TypeOK
  <2>1. 0 \in 0..(CountModulus - 1) /\ 0 \in 0..QueueSize /\ 0 \in 0..1
    BY LatencyAssumption
  <2>2. QED
    BY <2>1, Zenon DEF Init, TypeOK
<1>2. Over = {}
  BY DEF Init, Over
<1>3. ResponsesCounted
  BY <1>2, FS_EmptySet DEF Init, ResponsesCounted
<1>4. TrackersCounted
  BY LatencyAssumption DEF Init, TrackersCounted
<1>5. QED
  BY <1>1, <1>3, <1>4 DEF LatencyInv

\* Answering probes keeps responses in step with the goroutines and the rxers it counts.
LEMMA NextCountsResponses == LatencyInv /\ [Next]_vars => ResponsesCounted'
<1> SUFFICES ASSUME TypeOK, ResponsesCounted, [Next]_vars
             PROVE  ResponsesCounted'
  BY DEF LatencyInv
<1> USE OverIsFinite DEF TypeOK, ResponsesCounted
<1>1. ASSUME NEW r \in Rxer, Receive(r)
      PROVE  ResponsesCounted'
  BY <1>1, OverStays DEF Receive
<1>2. ASSUME NEW r \in Rxer, HandleProbe(r)
      PROVE  ResponsesCounted'
  <2>1. CASE MayRespond(responses + 1)
    BY <1>2, <2>1, OverStays DEF HandleProbe, MayRespond
  <2>2. CASE ~MayRespond(responses + 1)
    BY <1>2, <2>2, OverGrows DEF HandleProbe
  <2>3. QED
    BY <2>1, <2>2
<1>3. ASSUME NEW r \in Rxer, DropProbe(r)
      PROVE  ResponsesCounted'
  <2>1. Cardinality(Over') = Cardinality(Over) - 1
    BY <1>3, OverShrinks DEF DropProbe
  <2>2. QED
    BY <1>3, <2>1 DEF DropProbe
<1>4. ASSUME NEW r \in Rxer, OfferResponse(r)
      PROVE  ResponsesCounted'
  BY <1>4, OverStays DEF OfferResponse
<1>5. CASE SendResult
  <2>1. Over' = Over
    BY <1>5 DEF SendResult, Over
  <2>2. QED
    BY <1>5, <2>1 DEF SendResult
<1>6. CASE ResultSent
  <2>1. Over' = Over
    BY <1>6 DEF ResultSent, Over
  <2>2. QED
    BY <1>6, <2>1 DEF ResultSent
<1>7. CASE UNCHANGED <<rx, responses, sending, sent>>
  BY <1>7 DEF Over
<1>8. QED
  BY <1>1, <1>2, <1>3, <1>4, <1>5, <1>6, <1>7
     DEF Next, Handle, Answer, Respond, Probe, Ask, ResponderTakes, ResponderSends,
         ResponderTicks, ProbeRuns, ProbeStops, ProbeSends, ProberWakes, ProberReturns,
         Drain, Close, vars, answerVars

\* Probing keeps count ahead of the probes that were only timed; it does not wrap on the way.
LEMMA NextCountsTrackers == LatencyInv /\ [Next]_vars => TrackersCounted'
<1> SUFFICES ASSUME TypeOK, TrackersCounted, [Next]_vars
             PROVE  TrackersCounted'
  BY DEF LatencyInv
<1> USE LatencyAssumption DEF TypeOK, TrackersCounted
<1>1. CASE ProbeRuns
  BY <1>1 DEF ProbeRuns, CountAfterRoundTrip
<1>2. CASE ProbeStops
  BY <1>2 DEF ProbeStops
<1>3. CASE ProbeSends
  <2>1. CASE probe' = "ended" /\ UNCHANGED count
    BY <1>3, <2>1 DEF ProbeSends
  <2>2. CASE probe' = "timer" /\ count' = (count + 1) % CountModulus
    <3>1. RoundTripFreq > 0 => count + 1 < CountModulus
      BY <1>3 DEF ProbeSends
    <3>2. RoundTripFreq > 0 => count' = count + 1
      BY <2>2, <3>1
    <3>3. QED
      BY <1>3, <2>2, <3>2 DEF ProbeSends
  <2>3. QED
    BY <1>3, <2>1, <2>2 DEF ProbeSends
<1>4. CASE UNCHANGED probeVars
  BY <1>4 DEF probeVars
<1>5. QED
  BY <1>1, <1>2, <1>3, <1>4
     DEF Next, Receive, Handle, HandleProbe, DropProbe, OfferResponse, Answer, SendResult,
         ResultSent, Respond, Probe, Ask, ResponderTakes, ResponderSends, ResponderTicks,
         ProberWakes, ProberReturns, Drain, Close, vars

\* Every step keeps the types; that responses does not go below zero needs the counting.
LEMMA NextKeepsType == LatencyInv /\ [Next]_vars => TypeOK'
<1> SUFFICES ASSUME TypeOK, ResponsesCounted, [Next]_vars
             PROVE  TypeOK'
  BY DEF LatencyInv
<1> USE LatencyAssumption DEF TypeOK, answerVars, probeVars, Enqueue, ClosedError
<1>1. ASSUME NEW r \in Rxer, Receive(r)
      PROVE  TypeOK'
  BY <1>1 DEF Receive
<1>2. ASSUME NEW r \in Rxer, HandleProbe(r)
      PROVE  TypeOK'
  BY <1>2 DEF HandleProbe
<1>3. ASSUME NEW r \in Rxer, DropProbe(r)
      PROVE  TypeOK'
  <2>1. Cardinality(Over) > 0
    BY <1>3, OverShrinks DEF DropProbe
  <2>2. responses > 0
    BY <2>1, OverIsFinite DEF ResponsesCounted
  <2>3. QED
    BY <1>3, <2>2 DEF DropProbe
<1>4. ASSUME NEW r \in Rxer, OfferResponse(r)
      PROVE  TypeOK'
  BY <1>4 DEF OfferResponse, Offer
<1>5. CASE SendResult
  BY <1>5 DEF SendResult
<1>6. CASE ResultSent
  <2>1. responses > 0
    BY <1>6, OverIsFinite DEF ResultSent, ResponsesCounted
  <2>2. QED
    BY <1>6, <2>1 DEF ResultSent
<1>7. CASE Respond \/ ResponderTicks
  BY <1>7 DEF Respond, ResponderTakes, ResponderSends, ResponderTicks, AfterTick
<1>8. CASE Probe
  <2>1. (count + 1) % CountModulus \in 0..(CountModulus - 1)
    OBVIOUS
  <2>2. QED
    BY <1>8, <2>1 DEF Probe, ProbeRuns, ProbeStops, ProbeSends, CountAfterRoundTrip
<1>9. CASE Ask \/ Drain
  BY <1>9 DEF Ask, ProberWakes, ProberReturns, Drain
<1>10. CASE Close
  BY <1>10, Zenon DEF Close
<1>11. CASE UNCHANGED vars
  BY <1>11 DEF vars
<1>12. QED
  BY <1>1, <1>2, <1>3, <1>4, <1>5, <1>6, <1>7, <1>8, <1>9, <1>10, <1>11 DEF Next, Handle, Answer

\* The counts are in step in every reachable state.
LEMMA LatencyInvariant == Spec => []LatencyInv
<1>1. LatencyInv /\ [Next]_vars => LatencyInv'
  BY NextKeepsType, NextCountsResponses, NextCountsTrackers DEF LatencyInv
<1>2. QED
  BY <1>1, InitLatency, PTL DEF Spec

-----------------------------------------------------------------------------
(* What follows *)

\* The variables of the probes and of what answers them have their types; LatencyHandler's
\* atomic count of responses never goes below zero.
THEOREM TypeCorrect == Spec => []TypeOK
<1>1. LatencyInv => TypeOK
  BY DEF LatencyInv
<1>2. QED
  BY <1>1, LatencyInvariant, PTL

\* latency.go:41.  Whatever number of underlays hand probes to LatencyHandler, at most one of
\* its goroutines is in Send.
THEOREM OneResponseHolds == Spec => []OneResponse
<1>1. LatencyInv => OneResponse
  BY DEF LatencyInv, TypeOK, ResponsesCounted, OneResponse
<1>2. QED
  BY <1>1, LatencyInvariant, PTL

\* latency.go:160-164.  For every roundTripFreq of a uint8 but 0, a round trip is measured
\* after at most roundTripFreq probes.
THEOREM RoundTripsAreRegular == Spec => []RoundTripsRegular
<1>1. LatencyInv => RoundTripsRegular
  BY DEF LatencyInv, TrackersCounted, RoundTripsRegular
<1>2. QED
  BY <1>1, LatencyInvariant, PTL

=============================================================================
