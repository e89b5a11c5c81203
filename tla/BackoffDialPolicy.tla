-------------------------- MODULE BackoffDialPolicy --------------------------
(***************************************************************************)
(* BackoffDialPolicy of dial_policy.go, driven by a channel: one           *)
(* applyConstraints at a time calls Dial (dialUnderlay of impl.go), and    *)
(* UnderlayClosed comes at any time from the txers and rxers.              *)
(*                                                                         *)
(* Times are kept as ages, in ticks.  Two events are never at the same     *)
(* time, so "After" is the order in which they happened.                   *)
(***************************************************************************)
EXTENDS Integers

CONSTANTS
    Underlay,
    BaseDelay, MaxDelay, MinStableDuration, MinDialInterval,
    JitterPercent,   \* Backoff.Jitter, 0..100
    ShiftCap,        \* 30: the largest exponent
    IntModulus,      \* time.Duration is an integer modulo this
    MaxFailures,     \* bound on consecutiveFailures
    MaxIteration,    \* bound on iteration
    None

ASSUME BackoffAssumption ==
    /\ {MaxDelay, MinStableDuration, MinDialInterval, ShiftCap} \subseteq Nat
    /\ {BaseDelay, IntModulus, MaxFailures, MaxIteration} \subseteq Nat \ {0}
    /\ JitterPercent \in 0..100
    /\ None \notin Nat

VARIABLES
    consecutiveFailures,
    successAge,    \* age of lastDialSuccess, None when it is zero
    successLast,   \* lastDialSuccess.After(lastNegativeEvent)
    dialAge,       \* age of lastDialTime
    iteration,
    pc,            \* where Dial is: "idle", "interval", "backoff", "cancelled"
    isFirst,       \* its argument
    wait,          \* what is left of its wait
    delay,         \* the backoff delay it computed ...
    delayFor,      \* ... and the failures it computed it for
    age,           \* time since CreatedAt of each underlay of the channel, None when not in it
    group          \* the iteration each underlay was dialed with

policyVars == <<consecutiveFailures, successAge, successLast, dialAge, iteration>>
dialVars == <<pc, isFirst, wait, delay, delayFor>>
vars == <<policyVars, dialVars, age, group>>

Lesser(a, b) == IF a < b THEN a ELSE b

\* An age beyond which no comparison distinguishes it.
Old == MinStableDuration + MinDialInterval

Open == {u \in Underlay : age[u] # None}

TypeOK ==
    /\ consecutiveFailures \in 0..MaxFailures
    /\ successAge \in 0..Old \cup {None}
    /\ successLast \in BOOLEAN
    /\ dialAge \in 0..Old
    /\ iteration \in 0..MaxIteration
    /\ pc \in {"idle", "interval", "backoff", "cancelled"}
    /\ isFirst \in BOOLEAN
    /\ wait \in Nat
    /\ delay \in Int
    /\ delayFor \in 0..MaxFailures
    /\ age \in [Underlay -> 0..Old \cup {None}]
    /\ group \in [Underlay -> 0..MaxIteration]

\* The channel begins with an underlay dialed by its owner under the base id.
Init ==
    /\ consecutiveFailures = 0
    /\ successAge = None
    /\ successLast = FALSE
    /\ dialAge = Old
    /\ iteration = 0
    /\ pc = "idle" /\ isFirst = FALSE /\ wait = 0 /\ delay = 0 /\ delayFor = 0
    /\ \E u \in Underlay : age = [v \in Underlay |-> IF v = u THEN 0 ELSE None]
    /\ group = [u \in Underlay |-> 0]

-----------------------------------------------------------------------------
Older(a) == IF a = None THEN None ELSE Lesser(a + 1, Old)

Tick ==
    /\ successAge' = Older(successAge)
    /\ dialAge' = Older(dialAge)
    /\ age' = [u \in Underlay |-> Older(age[u])]
    /\ wait' = IF wait > 0 THEN wait - 1 ELSE 0
    /\ UNCHANGED <<consecutiveFailures, successLast, iteration, pc, isFirst, delay, delayFor, group>>

\* UnderlayRemoved measures the lifetime from CreatedAt.
StableLifetime(u) == age[u] >= MinStableDuration

\* A negative event is now the latest event.
NegativeRecorded == FALSE

UnderlayClosed(u) ==
    /\ u \in Open
    /\ IF StableLifetime(u)
       THEN /\ consecutiveFailures' = 0
            /\ UNCHANGED successLast
       ELSE /\ consecutiveFailures < MaxFailures
            /\ consecutiveFailures' = consecutiveFailures + 1
            /\ successLast' = NegativeRecorded
    /\ age' = [age EXCEPT ![u] = None]
    /\ UNCHANGED <<successAge, dialAge, iteration, dialVars, group>>

-----------------------------------------------------------------------------
\* resetStaleFailures
AfterIgnored == successAge # None /\ successAge >= MinStableDuration
ProvenStable == successAge # None /\ successLast /\ successAge >= MinStableDuration

\* groupConnectionId
AdvanceAlways(first) == iteration + 1
Advance(first) == IF first THEN iteration + 1 ELSE iteration

IntervalLeft == IF dialAge < MinDialInterval THEN MinDialInterval - dialAge ELSE 0

\* dialUnderlay finds out whether it is to dial the first underlay; Dial chooses the group id,
\* forgets stale failures and paces itself by MinDialInterval.
DialBegin ==
    /\ pc = "idle"
    /\ Open # Underlay
    /\ isFirst' = (Open = {})
    /\ iteration' = Advance(isFirst')
    /\ iteration' <= MaxIteration
    /\ consecutiveFailures' = IF ProvenStable THEN 0 ELSE consecutiveFailures
    /\ wait' = IntervalLeft
    /\ pc' = "interval"
    /\ UNCHANGED <<successAge, successLast, dialAge, delay, delayFor, age, group>>

\* Integer overflow of a time.Duration.
Wrap(x) == LET r == x % IntModulus IN IF 2 * r < IntModulus THEN r ELSE r - IntModulus

\* getBackoffDelay before jitter.
BackoffUnshifted(n) == IF n = 0 THEN 0 ELSE Lesser(Wrap(BaseDelay * 2^Lesser(n, ShiftCap)), MaxDelay)
Backoff(n) == IF n = 0 THEN 0 ELSE Lesser(Wrap(BaseDelay * 2^Lesser(n - 1, ShiftCap)), MaxDelay)

Jittered(d) == IF d > 0 THEN (d - (d * JitterPercent) \div 100)..d ELSE {d}

DialPaced ==
    /\ pc = "interval" /\ wait = 0
    /\ dialAge' = 0
    /\ delay' \in Jittered(Backoff(consecutiveFailures))
    /\ delayFor' = consecutiveFailures
    /\ wait' = IF delay' > 0 THEN delay' ELSE 0
    /\ pc' = "backoff"
    /\ UNCHANGED <<consecutiveFailures, successAge, successLast, iteration, isFirst, age, group>>

\* CreateWithHeaders gives an underlay, which the channel accepts ...
DialSucceeds(u) ==
    /\ pc = "backoff" /\ wait = 0
    /\ u \notin Open
    /\ successAge' = 0
    /\ successLast' = TRUE
    /\ age' = [age EXCEPT ![u] = 0]
    /\ group' = [group EXCEPT ![u] = iteration]
    /\ pc' = "idle"
    /\ UNCHANGED <<consecutiveFailures, dialAge, iteration, isFirst, wait, delay, delayFor>>

\* ... or fails.
DialFails ==
    /\ pc = "backoff" /\ wait = 0
    /\ consecutiveFailures < MaxFailures
    /\ consecutiveFailures' = consecutiveFailures + 1
    /\ successLast' = NegativeRecorded
    /\ pc' = "idle"
    /\ UNCHANGED <<successAge, dialAge, iteration, isFirst, wait, delay, delayFor, age, group>>

\* The channel has closed: Dial returns ClosedError from its waits, or before it dials, and
\* the channel does not call it again.
DialCancelled ==
    /\ pc \in {"interval", "backoff"}
    /\ pc' = "cancelled"
    /\ UNCHANGED <<policyVars, isFirst, wait, delay, delayFor, age, group>>

Next ==
    \/ Tick
    \/ \E u \in Underlay : UnderlayClosed(u) \/ DialSucceeds(u)
    \/ DialBegin
    \/ DialPaced
    \/ DialFails
    \/ DialCancelled

Spec == Init /\ [][Next]_vars

-----------------------------------------------------------------------------
(* Properties *)

\* dial_policy.go:74-76.  The failure count is forgotten only when an underlay of the channel
\* has lived for MinStableDuration, even when the last successful dial is all the policy
\* looks at and other underlays come and go.
ResetNeedsStability ==
    [][consecutiveFailures > 0 /\ consecutiveFailures' = 0 =>
        \E u \in Open : age[u] >= MinStableDuration]_vars

\* "baseDelay * 2^(failures-1), capped at MaxDelay", in unbounded arithmetic.
Documented(failures) == Lesser(MaxDelay, BaseDelay * 2^(failures - 1))

\* dial_policy.go:144-148.  The delay is the documented one, less the jitter.
DelayAsDocumented ==
    pc = "backoff" /\ delayFor > 0 =>
        LET d == Documented(delayFor) IN delay \in (d - (d * JitterPercent) \div 100)..d

\* All the underlays of the channel at one time were dialed under one group id, the current
\* one, so that the peer puts them into one channel.
OneGroup == \A u \in Open : group[u] = iteration

=============================================================================
