---------------------- MODULE BackoffDialPolicyProofs ----------------------
(***************************************************************************)
(* Proofs about BackoffDialPolicy, for any set of underlays, any           *)
(* BackoffConfig and any width of a time.Duration.                         *)
(***************************************************************************)
EXTENDS BackoffDialPolicy, FiniteSetTheorems, TLAPS

-----------------------------------------------------------------------------
(* The inductive invariant *)

\* While there are failures to forget, a lastDialSuccess that no negative event has followed
\* is that of an underlay which is still open: had it closed early, that was a negative
\* event, and had it closed late, the failures were forgotten then.
SuccessIsOpen ==
    successLast /\ consecutiveFailures > 0 =>
        successAge # None /\ \E u \in Underlay : age[u] = successAge

PolicyInv == TypeOK /\ SuccessIsOpen

-----------------------------------------------------------------------------
(* The arithmetic of the delays *)

\* A power of two is the number of subsets of a finite set, so a number.
LEMMA PowerOfTwo == \A n \in Nat : 2^n \in Nat
<1> SUFFICES ASSUME NEW n \in Nat
             PROVE  2^n \in Nat
  OBVIOUS
<1>1. IsFiniteSet(1..n) /\ Cardinality(1..n) = n
  BY FS_Interval
<1>2. IsFiniteSet(SUBSET (1..n)) /\ Cardinality(SUBSET (1..n)) = 2^n
  BY <1>1, FS_SUBSET
<1>3. QED
  BY <1>2, FS_CardinalityType

\* A larger exponent gives a larger power: a set has the subsets of its subsets.
LEMMA PowerGrows ==
    ASSUME NEW m \in Nat, NEW n \in Nat, m <= n
    PROVE  2^m <= 2^n
<1>1. /\ IsFiniteSet(1..m) /\ Cardinality(1..m) = m
      /\ IsFiniteSet(1..n) /\ Cardinality(1..n) = n
  BY FS_Interval
<1>2. /\ Cardinality(SUBSET (1..m)) = 2^m
      /\ IsFiniteSet(SUBSET (1..n)) /\ Cardinality(SUBSET (1..n)) = 2^n
  BY <1>1, FS_SUBSET
<1>3. SUBSET (1..m) \in SUBSET SUBSET (1..n)
  <2>1. 1..m \subseteq 1..n
    OBVIOUS
  <2>2. QED
    BY <2>1, Zenon
<1>4. Cardinality(SUBSET (1..m)) <= Cardinality(SUBSET (1..n))
  BY <1>2, <1>3, FS_Subset
<1>5. QED
  BY <1>2, <1>4

\* So does a larger factor.
LEMMA ProductGrows ==
    ASSUME NEW k \in Nat, NEW p \in Nat, NEW q \in Nat, p <= q
    PROVE  k * p \in Nat /\ k * q \in Nat /\ k * p <= k * q
<1>1. PICK r \in Nat : q = p + r
  <2>1. q - p \in Nat /\ q = p + (q - p)
    OBVIOUS
  <2>2. QED
    BY <2>1
<1>2. k * q = k * p + k * r /\ k * p \in Nat /\ k * r \in Nat
  BY <1>1
<1>3. QED
  BY <1>2

\* min gives one of its arguments, and no more than either.
LEMMA LesserOfTwo ==
    ASSUME NEW a \in Int, NEW b \in Int
    PROVE  /\ Lesser(a, b) = IF a <= b THEN a ELSE b
           /\ Lesser(a, b) \in Int /\ Lesser(a, b) <= a /\ Lesser(a, b) <= b
BY DEF Lesser

\* getBackoffDelay gives a time.Duration whatever the multiplication does, and so does the
\* jitter (dial_policy.go:144-160).
LEMMA DelayIsInt ==
    ASSUME NEW n \in Nat, NEW d \in Jittered(Backoff(n))
    PROVE  d \in Int
<1>1. ASSUME NEW x \in Int
      PROVE  Wrap(x) \in Int
  BY BackoffAssumption DEF Wrap
<1>2. Backoff(n) \in Int
  <2>1. CASE n = 0
    BY <2>1 DEF Backoff
  <2>2. CASE n # 0
    <3>1. Lesser(n - 1, ShiftCap) \in Nat
      BY <2>2, BackoffAssumption DEF Lesser
    <3>2. 2^Lesser(n - 1, ShiftCap) \in Nat
      BY <3>1, PowerOfTwo
    <3>3. BaseDelay * 2^Lesser(n - 1, ShiftCap) \in Int
      BY <3>2, BackoffAssumption
    <3>4. Wrap(BaseDelay * 2^Lesser(n - 1, ShiftCap)) \in Int
      BY <3>3, <1>1
    <3>5. QED
      BY <2>2, <3>4, BackoffAssumption DEF Backoff, Lesser
  <2>3. QED
    BY <2>1, <2>2
<1>3. QED
  BY <1>2 DEF Jittered

-----------------------------------------------------------------------------
(* The invariant holds *)

\* A clock that goes on keeps every age in its range.
LEMMA OlderType ==
    ASSUME NEW a \in 0..Old \cup {None}
    PROVE  /\ Older(a) \in 0..Old \cup {None}
           /\ Older(a) = None <=> a = None
  BY BackoffAssumption DEF Older, Lesser, Old

\* Every step keeps the types.
LEMMA NextKeepsType == TypeOK /\ [Next]_vars => TypeOK'
<1> SUFFICES ASSUME TypeOK, [Next]_vars
             PROVE  TypeOK'
  OBVIOUS
<1> USE BackoffAssumption DEF TypeOK, policyVars, dialVars
<1>1. CASE Tick
  <2>1. successAge' \in 0..Old \cup {None} /\ age' \in [Underlay -> 0..Old \cup {None}]
    BY <1>1, OlderType DEF Tick
  <2>2. dialAge' \in 0..Old
    BY <1>1, OlderType DEF Tick
  <2>3. wait' \in Nat
    BY <1>1 DEF Tick
  <2>4. QED
    BY <1>1, <2>1, <2>2, <2>3, Zenon DEF Tick
<1>2. ASSUME NEW u \in Underlay, UnderlayClosed(u)
      PROVE  TypeOK'
  <2>1. consecutiveFailures' \in 0..MaxFailures
    BY <1>2 DEF UnderlayClosed
  <2>2. age' \in [Underlay -> 0..Old \cup {None}]
    BY <1>2 DEF UnderlayClosed
  <2>3. successLast' \in BOOLEAN
    BY <1>2, Zenon DEF UnderlayClosed, NegativeRecorded
  <2>4. QED
    BY <1>2, <2>1, <2>2, <2>3, Zenon DEF UnderlayClosed
<1>3. CASE DialBegin
  <2>1. iteration' \in 0..MaxIteration
    BY <1>3 DEF DialBegin, Advance
  <2>2. consecutiveFailures' \in 0..MaxFailures /\ wait' \in Nat
    BY <1>3 DEF DialBegin, IntervalLeft, Old
  <2>3. isFirst' \in BOOLEAN
    BY <1>3, Zenon DEF DialBegin
  <2>4. QED
    BY <1>3, <2>1, <2>2, <2>3, Zenon DEF DialBegin
<1>4. CASE DialPaced
  <2>1. delay' \in Int
    BY <1>4, DelayIsInt DEF DialPaced
  <2>2. wait' \in Nat /\ dialAge' \in 0..Old
    BY <1>4, <2>1 DEF DialPaced, Old
  <2>3. QED
    BY <1>4, <2>1, <2>2, Zenon DEF DialPaced
<1>5. ASSUME NEW u \in Underlay, DialSucceeds(u)
      PROVE  TypeOK'
  <2>1. 0 \in 0..Old
    BY DEF Old
  <2>2. age' \in [Underlay -> 0..Old \cup {None}] /\ successAge' \in 0..Old \cup {None}
    BY <1>5, <2>1 DEF DialSucceeds
  <2>3. group' \in [Underlay -> 0..MaxIteration]
    BY <1>5 DEF DialSucceeds
  <2>4. QED
    BY <1>5, <2>2, <2>3, Zenon DEF DialSucceeds
<1>6. CASE DialFails
  <2>1. consecutiveFailures' \in 0..MaxFailures
    BY <1>6 DEF DialFails
  <2>2. QED
    BY <1>6, <2>1, Zenon DEF DialFails, NegativeRecorded
<1>7. CASE DialCancelled
  BY <1>7, Zenon DEF DialCancelled
<1>8. CASE UNCHANGED vars
  BY <1>8, Zenon DEF vars
<1>9. QED
  BY <1>1, <1>2, <1>3, <1>4, <1>5, <1>6, <1>7, <1>8 DEF Next

\* The underlay of the last successful dial stays open, or the failures or the success are
\* forgotten with it.
LEMMA NextKeepsSuccess == PolicyInv /\ [Next]_vars => SuccessIsOpen'
<1> SUFFICES ASSUME TypeOK, SuccessIsOpen, [Next]_vars, successLast', consecutiveFailures' > 0
             PROVE  successAge' # None /\ \E u \in Underlay : age'[u] = successAge'
  BY DEF PolicyInv, SuccessIsOpen
<1> USE BackoffAssumption DEF TypeOK, SuccessIsOpen, policyVars, dialVars
<1>1. CASE Tick
  <2>1. PICK u \in Underlay : age[u] = successAge /\ successAge # None
    BY <1>1 DEF Tick
  <2>2. age'[u] = successAge' /\ successAge' # None
    BY <1>1, <2>1, OlderType DEF Tick
  <2>3. QED
    BY <2>2
<1>2. ASSUME NEW u \in Underlay, UnderlayClosed(u)
      PROVE  successAge' # None /\ \E v \in Underlay : age'[v] = successAge'
  <2>1. consecutiveFailures' = 0 \/ ~successLast'
    BY <1>2, Zenon DEF UnderlayClosed, NegativeRecorded
  <2>2. QED
    BY <2>1
<1>3. CASE DialBegin
  BY <1>3 DEF DialBegin
<1>4. CASE DialPaced
  BY <1>4 DEF DialPaced
<1>5. ASSUME NEW u \in Underlay, DialSucceeds(u)
      PROVE  successAge' # None /\ \E v \in Underlay : age'[v] = successAge'
  BY <1>5 DEF DialSucceeds
<1>6. CASE DialFails
  BY <1>6 DEF DialFails, NegativeRecorded
<1>7. CASE DialCancelled
  BY <1>7 DEF DialCancelled
<1>8. CASE UNCHANGED vars
  BY <1>8 DEF vars
<1>9. QED
  BY <1>1, <1>2, <1>3, <1>4, <1>5, <1>6, <1>7, <1>8 DEF Next

\* A channel begins with no failures, and with one underlay.
LEMMA InitPolicy == Init => PolicyInv /\ OneGroup
<1> SUFFICES ASSUME Init
             PROVE  PolicyInv /\ OneGroup
  OBVIOUS
<1>1. 0 \in 0..MaxFailures /\ 0 \in 0..MaxIteration /\ 0 \in 0..Old /\ Old \in 0..Old
  BY BackoffAssumption DEF Old
<1>2. age \in [Underlay -> 0..Old \cup {None}]
  BY <1>1 DEF Init
<1>3. TypeOK
  <2>1. delay \in Int /\ wait \in Nat
    BY DEF Init
  <2>2. QED
    BY <1>1, <1>2, <2>1, Zenon DEF Init, TypeOK
<1>4. QED
  BY <1>3 DEF Init, PolicyInv, SuccessIsOpen, OneGroup, Open

\* The invariant holds in every reachable state.
LEMMA PolicyInvariant == Spec => []PolicyInv
<1>1. Init => PolicyInv
  BY InitPolicy
<1>2. PolicyInv /\ [Next]_vars => PolicyInv'
  BY NextKeepsType, NextKeepsSuccess DEF PolicyInv
<1>3. QED
  BY <1>1, <1>2, PTL DEF Spec

-----------------------------------------------------------------------------
(* What follows *)

\* The fields of the policy and the local variables of Dial have their types, with whatever
\* the multiplication of getBackoffDelay overflows to.
THEOREM TypeCorrect == Spec => []TypeOK
<1>1. PolicyInv => TypeOK
  BY DEF PolicyInv
<1>2. QED
  BY <1>1, PolicyInvariant, PTL

\* dial_policy.go:74-76.  Whatever the order in which underlays are dialed and closed, the
\* policy forgets its failures only when an underlay of the channel has proven stable.
THEOREM ResetOnlyWhenStable == Spec => ResetNeedsStability
<1>1. ASSUME PolicyInv, [Next]_vars, consecutiveFailures > 0, consecutiveFailures' = 0
      PROVE  \E u \in Open : age[u] >= MinStableDuration
  <2> USE <1>1, BackoffAssumption DEF PolicyInv, TypeOK, policyVars, dialVars
  <2>1. CASE DialBegin
    <3>1. successLast /\ successAge # None /\ successAge >= MinStableDuration
      BY <2>1 DEF DialBegin, ProvenStable
    <3>2. QED
      BY <3>1 DEF SuccessIsOpen, Open
  <2>2. ASSUME NEW u \in Underlay, UnderlayClosed(u)
        PROVE  u \in Open /\ age[u] >= MinStableDuration
    BY <2>2 DEF UnderlayClosed, StableLifetime
  <2>3. CASE UNCHANGED consecutiveFailures \/ consecutiveFailures' = consecutiveFailures + 1
    BY <2>3
  <2>4. QED
    BY <2>1, <2>2, <2>3 DEF Next, Tick, DialPaced, DialSucceeds, DialFails, DialCancelled, vars
<1>2. PolicyInv /\ [Next]_vars =>
        [consecutiveFailures > 0 /\ consecutiveFailures' = 0 =>
            \E u \in Open : age[u] >= MinStableDuration]_vars
  BY <1>1
<1>3. QED
  BY <1>2, PolicyInvariant, PTL DEF Spec, ResetNeedsStability

\* The multiplication of getBackoffDelay does not leave a time.Duration for the largest
\* exponent it comes to.
NoOverflow == 2 * (BaseDelay * 2^Lesser(MaxFailures - 1, ShiftCap)) < IntModulus

\* The cap on the exponent is not seen: it is not come to, or the delay is MaxDelay by then.
CapUnseen == MaxFailures - 1 <= ShiftCap \/ MaxDelay <= BaseDelay * 2^ShiftCap

\* dial_policy.go:144-148.  Without overflow the capped shift and the min of getBackoffDelay
\* compute the documented delay.
LEMMA BackoffIsDocumented ==
    ASSUME NoOverflow, CapUnseen, NEW n \in 1..MaxFailures
    PROVE  Backoff(n) = Documented(n) /\ Documented(n) \in Nat
<1> DEFINE e == Lesser(n - 1, ShiftCap)
           top == Lesser(MaxFailures - 1, ShiftCap)
<1>1. e \in Nat /\ top \in Nat /\ n - 1 \in Nat /\ e <= top /\ e <= n - 1
  <2>1. ShiftCap \in Nat /\ MaxFailures - 1 \in Nat /\ n - 1 \in Nat /\ n - 1 <= MaxFailures - 1
    BY BackoffAssumption
  <2>2. ShiftCap \in Int /\ MaxFailures - 1 \in Int /\ n - 1 \in Int
    BY <2>1
  <2>3. e = IF n - 1 <= ShiftCap THEN n - 1 ELSE ShiftCap
    BY <2>2, LesserOfTwo, Zenon
  <2>4. top = IF MaxFailures - 1 <= ShiftCap THEN MaxFailures - 1 ELSE ShiftCap
    BY <2>2, LesserOfTwo, Zenon
  <2> HIDE DEF e, top
  <2>5. QED
    BY <2>1, <2>3, <2>4
<1>2. /\ 2^e \in Nat /\ 2^top \in Nat /\ 2^(n - 1) \in Nat
      /\ 2^e <= 2^top /\ 2^e <= 2^(n - 1)
  BY <1>1, PowerOfTwo, PowerGrows
<1>3. /\ BaseDelay * 2^e \in Nat /\ BaseDelay * 2^top \in Nat /\ BaseDelay * 2^(n - 1) \in Nat
      /\ BaseDelay * 2^e <= BaseDelay * 2^top
      /\ BaseDelay * 2^e <= BaseDelay * 2^(n - 1)
  <2>1. BaseDelay \in Nat
    BY BackoffAssumption
  <2>2. QED
    BY <1>2, <2>1, ProductGrows
<1>4. Wrap(BaseDelay * 2^e) = BaseDelay * 2^e
  <2>1. ASSUME NEW x \in Nat, NEW y \in Nat, x <= y, 2 * y < IntModulus
        PROVE  Wrap(x) = x
    BY <2>1, BackoffAssumption DEF Wrap
  <2>2. 2 * (BaseDelay * 2^top) < IntModulus
    BY DEF NoOverflow
  <2>3. QED
    BY <1>3, <2>1, <2>2
<1>5. Backoff(n) = Lesser(BaseDelay * 2^e, MaxDelay)
  BY <1>4 DEF Backoff
<1>6. e = n - 1 \/ MaxDelay <= BaseDelay * 2^e
  <2>1. CASE n - 1 <= ShiftCap
    <3>1. e = n - 1
      BY <2>1, BackoffAssumption, LesserOfTwo
    <3>2. QED
      BY <3>1
  <2>2. CASE n - 1 > ShiftCap
    <3>1. e = ShiftCap
      BY <2>2, BackoffAssumption, LesserOfTwo
    <3>2. MaxFailures - 1 > ShiftCap
      BY <2>2, BackoffAssumption
    <3>3. MaxDelay <= BaseDelay * 2^ShiftCap
      BY <3>2, BackoffAssumption DEF CapUnseen
    <3>4. QED
      BY <3>1, <3>3
  <2>3. QED
    BY <2>1, <2>2, BackoffAssumption
<1> HIDE DEF e
<1>7. ASSUME NEW x \in Nat, NEW y \in Nat, x = y \/ MaxDelay <= x, x <= y
      PROVE  Lesser(x, MaxDelay) = Lesser(MaxDelay, y) /\ Lesser(MaxDelay, y) \in Nat
  BY <1>7, BackoffAssumption DEF Lesser
<1>8. QED
  BY <1>3, <1>5, <1>6, <1>7 DEF Documented

\* dial_policy.go:144-160.  For a BackoffConfig whose largest delay is a time.Duration, Dial
\* waits the documented delay less the jitter, whatever the failures, successes and closes
\* that come between the dials.
THEOREM DelaysAsDocumented ==
    ASSUME NoOverflow, CapUnseen
    PROVE  Spec => []DelayAsDocumented
<1> DEFINE Computed == pc = "backoff" =>
             delayFor \in 0..MaxFailures /\ delay \in Jittered(Backoff(delayFor))
<1>1. Init => Computed
  BY DEF Init
<1>2. TypeOK /\ Computed /\ [Next]_vars => Computed'
  <2> SUFFICES ASSUME TypeOK, Computed, [Next]_vars, pc' = "backoff"
               PROVE  delayFor' \in 0..MaxFailures /\ delay' \in Jittered(Backoff(delayFor'))
    OBVIOUS
  <2>1. CASE DialPaced
    BY <2>1, Zenon DEF DialPaced, TypeOK
  <2>2. CASE UNCHANGED <<pc, delay, delayFor>>
    BY <2>2, Zenon
  <2>3. QED
    BY <2>1, <2>2 DEF Next, Tick, UnderlayClosed, DialBegin, DialSucceeds, DialFails,
       DialCancelled, vars, policyVars, dialVars
<1>3. Computed => DelayAsDocumented
  <2> SUFFICES ASSUME Computed, pc = "backoff", delayFor > 0
               PROVE  LET d == Documented(delayFor)
                      IN  delay \in (d - (d * JitterPercent) \div 100)..d
    BY DEF DelayAsDocumented
  <2>1. delayFor \in 1..MaxFailures
    BY BackoffAssumption
  <2>2. Backoff(delayFor) = Documented(delayFor) /\ Documented(delayFor) \in Nat
    BY <2>1, BackoffIsDocumented
  <2>3. delay \in Jittered(Documented(delayFor))
    BY <2>2
  <2>4. ASSUME NEW d \in Nat, NEW w \in Jittered(d)
        PROVE  w \in (d - (d * JitterPercent) \div 100)..d
    BY BackoffAssumption DEF Jittered
  <2>5. QED
    BY <2>2, <2>3, <2>4
<1>4. QED
  BY <1>1, <1>2, <1>3, TypeCorrect, PTL DEF Spec

\* The underlays of a channel at one time were dialed under the current group id, because
\* groupConnectionId moves on only for the first of a new group.
THEOREM OneGroupHolds == Spec => []OneGroup
<1>1. Init => OneGroup
  BY InitPolicy
<1>2. TypeOK /\ OneGroup /\ [Next]_vars => OneGroup'
  <2> SUFFICES ASSUME TypeOK, OneGroup, [Next]_vars
               PROVE  OneGroup'
    OBVIOUS
  <2> USE BackoffAssumption DEF TypeOK, OneGroup, Open, policyVars, dialVars
  <2>1. CASE Tick
    BY <2>1, OlderType DEF Tick
  <2>2. ASSUME NEW u \in Underlay, UnderlayClosed(u)
        PROVE  OneGroup'
    BY <2>2 DEF UnderlayClosed
  <2>3. CASE DialBegin
    BY <2>3 DEF DialBegin, Advance
  <2>4. ASSUME NEW u \in Underlay, DialSucceeds(u)
        PROVE  OneGroup'
    BY <2>4 DEF DialSucceeds
  <2>5. CASE UNCHANGED <<age, group, iteration>>
    BY <2>5
  <2>6. QED
    BY <2>1, <2>2, <2>3, <2>4, <2>5 DEF Next, DialPaced, DialFails, DialCancelled, vars
<1>3. QED
  BY <1>1, <1>2, TypeCorrect, PTL DEF Spec

=============================================================================
