-------------------------- MODULE ChannelLifecycle --------------------------
(***************************************************************************)
(* The life of a channel and its underlays (impl.go, underlays.go):        *)
(* NewChannel, AcceptUnderlay, the rxer and txer goroutine of every        *)
(* underlay, closeUnderlay, Close, and the applyConstraints goroutines     *)
(* that dial what the constraints desire and close the channel when it     *)
(* falls below what they require.                                          *)
(***************************************************************************)
EXTENDS Naturals, FiniteSets

CONSTANTS
    Underlay,       \* the underlays the channel may ever get
    First,          \* Config.Underlay
    Type,           \* underlay types
    Configs,        \* the channels considered: see ConfigAssumption
    None            \* nil

\* What a Config and the surroundings of the channel fix:
\*   Desired, Min   the values of Config.Constraints, for the types it has
\*   MinTotal       Config.MinTotalUnderlays
\*   HasDialPolicy  Config.DialPolicy # nil
\*   Incoming       whether a listener hands underlays to AcceptUnderlay
\*   UserCloses     whether the application calls Close
\*   Supply         the underlays that dials and the listener can come up with
ASSUME ConfigAssumption ==
    /\ First \in Underlay
    /\ None \notin Underlay
    /\ \A c \in Configs :
        /\ c.Constrained \subseteq Type
        /\ c.Desired \in [c.Constrained -> Nat]
        /\ c.Min \in [c.Constrained -> Nat]
        /\ c.MinTotal \in Nat
        /\ {c.HasDialPolicy, c.Incoming, c.UserCloses} \subseteq BOOLEAN
        /\ c.Supply \subseteq Underlay \ {First}

\* Goroutines.  <<"apply", None>> is the applyConstraints of NewChannel, <<"apply", u>>
\* the one the removal of u starts; one that an ending applyConstraints starts takes its name.
Worker == {"rx", "tx"} \X Underlay
Applier == {"apply"} \X (Underlay \cup {None})
User == <<"user", None>>
New == <<"new", None>>
Actor == Worker \cup Applier \cup {User, New}

ASSUME NoneAssumption == None \notin Actor

VARIABLES
    config,           \* the channel's Config, which never changes
    pc,               \* where each goroutine is
    closed,           \* flagClosed, and closeNotify closed
    lock,             \* the goroutine inside Close, which holds channelImpl.lock across steps
    entries,          \* Underlays.entries
    fallback,         \* fallbackUnderlay
    typ,              \* the type of each underlay
    conn,             \* the connection of each underlay
    notified,         \* the underlays whose CloseNotifier is closed
    announced,        \* how often UnderlayRemoved was called for each underlay
    applyInProgress,
    todo,             \* the types an applyConstraints has still to dial in this round
    dialed            \* the underlay its dial has returned

closeVars == <<closed, lock>>
underlayVars == <<entries, fallback, typ, conn, notified, announced>>
applyVars == <<applyInProgress, todo, dialed>>
vars == <<config, pc, closeVars, underlayVars, applyVars>>

-----------------------------------------------------------------------------
(* State *)

PC == {"none", "bind", "bindFailed", "closeFirst", "add", "spawn", "failed", "done",
       "userMayClose",
       "run", "lastGone", "fallback",
       "start", "invalid", "cas", "loop", "loopInvalid", "dial", "accept",
       "defer", "recheck", "exit"}

Constrained == config.Constrained
Desired == config.Desired
Min == config.Min
MinTotal == config.MinTotal
HasDialPolicy == config.HasDialPolicy

isMultiUnderlayCapable == HasDialPolicy \/ Constrained # {} \/ MinTotal > 0

CountsByType(t) == Cardinality({u \in entries : typ[u] = t})

countsShowValidState ==
    /\ \A t \in Constrained : Min[t] <= CountsByType(t)
    /\ MinTotal <= Cardinality(entries)

DesiresMore == {t \in Constrained : Desired[t] > CountsByType(t)}

areConstraintDesiresSatisfied == DesiresMore = {}

TypeOK ==
    /\ config \in Configs
    /\ pc \in [Actor -> PC]
    /\ closed \in BOOLEAN
    /\ lock \in Actor \cup {None}
    /\ entries \in SUBSET Underlay
    /\ fallback \in Underlay
    /\ typ \in [Underlay -> Type]
    /\ conn \in [Underlay -> {"idle", "open", "closed"}]
    /\ notified \in SUBSET Underlay
    /\ announced \in [Underlay -> 0..2]
    /\ applyInProgress \in BOOLEAN
    /\ todo \in [Applier -> SUBSET Constrained]
    /\ dialed \in [Applier -> Underlay \cup {None}]
    /\ \A a \in Applier :
        /\ pc[a] = "dial" => todo[a] # {}
        /\ pc[a] = "accept" => dialed[a] # None

Goto(a, l) == pc' = [pc EXCEPT ![a] = l]

\* Goroutine a continues at l, and the goroutines of bs start at m.
GotoAndStart(a, l, bs, m) ==
    pc' = [b \in Actor |-> IF b = a THEN l ELSE IF b \in bs THEN m ELSE pc[b]]

Multiplex(u) == {<<"rx", u>>, <<"tx", u>>}

-----------------------------------------------------------------------------
(* Channel.Close.  WantsClose lists the places that call it.  The flag is set and *)
(* the underlays are closed under the lock, with the close handlers in between.   *)

WantsClose(a) == pc[a] \in {"userMayClose", "bindFailed", "invalid", "loopInvalid", "lastGone"}

AfterClose(a) ==
    CASE pc[a] = "userMayClose" -> "done"
      [] pc[a] = "bindFailed"   -> "closeFirst"
      [] pc[a] = "invalid"      -> "exit"
      [] pc[a] = "loopInvalid"  -> "defer"
      [] pc[a] = "lastGone"     -> "fallback"

CloseBegin(a) ==
    /\ WantsClose(a)
    /\ lock = None
    /\ ~closed
    /\ closed' = TRUE
    /\ lock' = a
    /\ UNCHANGED <<config, pc, underlayVars, applyVars>>

CloseEnd(a) ==
    /\ lock = a
    /\ conn' = [u \in Underlay |-> IF u \in entries THEN "closed" ELSE conn[u]]
    /\ lock' = None
    /\ Goto(a, AfterClose(a))
    /\ UNCHANGED <<config, closed, entries, fallback, typ, notified, announced, applyVars>>

CloseAgain(a) ==
    /\ WantsClose(a)
    /\ lock = None
    /\ closed
    /\ Goto(a, AfterClose(a))
    /\ UNCHANGED <<config, closeVars, underlayVars, applyVars>>

-----------------------------------------------------------------------------
(* AcceptUnderlay, under the lock *)

Accepts == isMultiUnderlayCapable /\ ~closed

\* Goroutine a continues at l.  The group secrets may differ.
AcceptUnderlay(u, a, l) ==
    /\ lock = None
    /\ \/ /\ Accepts
          /\ fallback' = u
          /\ entries' = entries \cup {u}
          /\ conn' = [conn EXCEPT ![u] = "open"]
          /\ GotoAndStart(a, l, Multiplex(u), "run")
       \/ /\ conn' = [conn EXCEPT ![u] = "closed"]
          /\ Goto(a, l)
          /\ UNCHANGED <<fallback, entries>>

\* A MultiListener hands over an underlay of any type.
IncomingUnderlay(u) ==
    /\ config.Incoming
    /\ u \in config.Supply
    /\ pc[New] = "done"
    /\ conn[u] = "idle"
    /\ \E t \in Type : typ' = [typ EXCEPT ![u] = t]
    /\ AcceptUnderlay(u, New, "done")
    /\ UNCHANGED <<config, closeVars, notified, announced, applyVars>>

-----------------------------------------------------------------------------
(* NewChannel *)

\* The bind handlers succeed or fail; they know the channel and may let others close it.
Bind ==
    /\ pc[New] = "bind"
    /\ Goto(New, "add") \/ Goto(New, "bindFailed")
    /\ UNCHANGED <<config, closeVars, underlayVars, applyVars>>

CloseFirst ==
    /\ pc[New] = "closeFirst"
    /\ conn' = [conn EXCEPT ![First] = "closed"]
    /\ Goto(New, "failed")
    /\ UNCHANGED <<config, closeVars, entries, fallback, typ, notified, announced, applyVars>>

\* Not under the lock, and whether or not the channel has been closed.
AddFirst ==
    /\ pc[New] = "add"
    /\ entries' = entries \cup {First}
    /\ GotoAndStart(New, "spawn", Multiplex(First), "run")
    /\ UNCHANGED <<config, closeVars, fallback, typ, conn, notified, announced, applyVars>>

StartConstraints ==
    /\ pc[New] = "spawn"
    /\ GotoAndStart(New, "done", {<<"apply", None>>}, "start")
    /\ UNCHANGED <<config, closeVars, underlayVars, applyVars>>

-----------------------------------------------------------------------------
(* rxer, txer and closeUnderlay *)

\* What makes a worker leave its loop for certain: a closed connection for the rxer,
\* the channel's or the underlay's close notification for the txer.
MustStop(w) == IF w[1] = "rx" THEN conn[w[2]] = "closed" ELSE closed \/ w[2] \in notified

ConnLeftOpen(u) == conn
ConnClosed(u) == [conn EXCEPT ![u] = "closed"]

\* Underlays.Remove: the listeners hear of it only if the underlay was found.
FoundAlways(u) == TRUE
Found(u) == u \in entries

\* A simple channel closes with its last underlay.
AfterSimpleLoss(left) == IF left = {} THEN "lastGone" ELSE "fallback"

\* Rx or Tx may fail at any time.  closeUnderlay closes the connection and the notifier,
\* which only hastens the end of the other worker, and removes the entry.  UnderlayRemoved
\* tells the dial policy, and starts applyConstraints or, on a simple channel that has no
\* underlay left, closes the channel.
Stop(w) ==
    /\ pc[w] = "run"
    /\ conn' = ConnClosed(w[2])
    /\ notified' = notified \cup {w[2]}
    /\ entries' = entries \ {w[2]}
    /\ IF Found(w[2])
       THEN /\ announced' = [announced EXCEPT ![w[2]] = @ + 1]
            /\ IF isMultiUnderlayCapable
               THEN GotoAndStart(w, "fallback", {<<"apply", w[2]>>}, "start")
               ELSE Goto(w, AfterSimpleLoss(entries'))
       ELSE Goto(w, "fallback") /\ UNCHANGED announced
    /\ UNCHANGED <<config, closeVars, fallback, typ, applyVars>>

\* The code takes the entry added last; any entry stands for it.
FallbackAfter(u) == IF fallback = u /\ entries # {} THEN entries ELSE {fallback}

ReplaceFallback(w) ==
    /\ pc[w] = "fallback"
    /\ lock = None
    /\ fallback' \in FallbackAfter(w[2])
    /\ Goto(w, "exit")
    /\ UNCHANGED <<config, closeVars, entries, typ, conn, notified, announced, applyVars>>

-----------------------------------------------------------------------------
(* applyConstraints *)

NothingToApply == Constrained = {} /\ MinTotal = 0

AfterStartUnchecked(a) == IF NothingToApply \/ closed THEN "exit" ELSE "cas"
AfterStart(a) ==
    IF NothingToApply \/ closed THEN "exit"
    ELSE IF countsShowValidState THEN "cas" ELSE "invalid"

CheckConstraints(a) ==
    /\ pc[a] = "start"
    /\ Goto(a, AfterStart(a))
    /\ UNCHANGED <<config, closeVars, underlayVars, applyVars>>

ApplyNeverBusy == FALSE
ApplyBusy == applyInProgress

TakeApply(a) ==
    /\ pc[a] = "cas"
    /\ IF ApplyBusy
       THEN Goto(a, "exit") /\ UNCHANGED applyInProgress
       ELSE /\ applyInProgress' = TRUE
            /\ Goto(a, IF HasDialPolicy THEN "loop" ELSE "defer")
    /\ UNCHANGED <<config, closeVars, underlayVars, todo, dialed>>

\* One round: the counts are read once, and each type that is short is dialed once.
BeginRound(a) ==
    /\ pc[a] = "loop"
    /\ todo' = [todo EXCEPT ![a] =
                    IF ~closed /\ countsShowValidState THEN DesiresMore ELSE {}]
    /\ Goto(a, CASE closed -> "defer"
                 [] ~closed /\ ~countsShowValidState -> "loopInvalid"
                 [] OTHER -> IF areConstraintDesiresSatisfied THEN "defer" ELSE "dial")
    /\ UNCHANGED <<config, closeVars, underlayVars, applyInProgress, dialed>>

DialNext(a) == IF todo[a] = {} THEN "loop" ELSE "dial"

\* dialUnderlay calls the dial policy, which returns an error or an underlay ...
DialFails(a) ==
    /\ pc[a] = "dial"
    /\ \E t \in todo[a] :
        /\ todo' = [todo EXCEPT ![a] = @ \ {t}]
        /\ Goto(a, IF todo[a] = {t} THEN "loop" ELSE "dial")
    /\ UNCHANGED <<config, closeVars, underlayVars, applyInProgress, dialed>>

DialSucceeds(a) ==
    /\ pc[a] = "dial"
    /\ \E t \in todo[a], u \in config.Supply :
        /\ conn[u] = "idle"
        /\ conn' = [conn EXCEPT ![u] = "open"]
        /\ typ' = [typ EXCEPT ![u] = t]
        /\ todo' = [todo EXCEPT ![a] = @ \ {t}]
        /\ dialed' = [dialed EXCEPT ![a] = u]
    /\ Goto(a, "accept")
    /\ UNCHANGED <<config, closeVars, entries, fallback, notified, announced, applyInProgress>>

\* ... which the channel accepts or closes.
AcceptDialed(a) ==
    /\ pc[a] = "accept"
    /\ AcceptUnderlay(dialed[a], a, DialNext(a))
    /\ dialed' = [dialed EXCEPT ![a] = None]
    /\ UNCHANGED <<config, closeVars, typ, notified, announced, applyInProgress, todo>>

ReleaseApply(a) ==
    /\ pc[a] = "defer"
    /\ applyInProgress' = FALSE
    /\ Goto(a, "recheck")
    /\ UNCHANGED <<config, closeVars, underlayVars, todo, dialed>>

MustReapplyNever == FALSE
MustReapply == HasDialPolicy /\ ~closed /\ ~areConstraintDesiresSatisfied

Recheck(a) ==
    /\ pc[a] = "recheck"
    /\ Goto(a, IF MustReapply THEN "start" ELSE "exit")
    /\ UNCHANGED <<config, closeVars, underlayVars, applyVars>>

-----------------------------------------------------------------------------
(* Specification *)

Init ==
    /\ config \in Configs
    /\ pc = [a \in Actor |-> CASE a = User /\ config.UserCloses -> "userMayClose" [] a = New -> "bind" [] OTHER -> "none"]
    /\ closed = FALSE
    /\ lock = None
    /\ entries = {}
    /\ fallback = First
    /\ typ \in {[u \in Underlay |-> t] : t \in Type}
    /\ conn = [u \in Underlay |-> IF u = First THEN "open" ELSE "idle"]
    /\ notified = {}
    /\ announced = [u \in Underlay |-> 0]
    /\ applyInProgress = FALSE
    /\ todo = [a \in Applier |-> {}]
    /\ dialed = [a \in Applier |-> None]

Closing(a) == CloseBegin(a) \/ CloseEnd(a) \/ CloseAgain(a)

Creating == Bind \/ CloseFirst \/ AddFirst \/ StartConstraints

ApplySteps(a) ==
    \/ CheckConstraints(a) \/ TakeApply(a) \/ BeginRound(a) \/ AcceptDialed(a)
    \/ ReleaseApply(a) \/ Recheck(a)

\* The channel is closed, or was never made, and every goroutine has ended.
Ended ==
    /\ closed
    /\ \A a \in Actor : pc[a] \in {"none", "done", "failed", "exit"}
    /\ UNCHANGED vars

Next ==
    \/ \E a \in Actor : Closing(a)
    \/ Creating
    \/ \E u \in Underlay : IncomingUnderlay(u)
    \/ \E w \in Worker : Stop(w) \/ ReplaceFallback(w)
    \/ \E a \in Applier : ApplySteps(a) \/ DialFails(a) \/ DialSucceeds(a)
    \/ Ended

Spec == Init /\ [][Next]_vars

\* Goroutines that can go on do.  The application need not close the channel, a worker need
\* not leave its loop unless it must, and a dial may take for ever unless the channel closes,
\* which cancels it.
Fairness ==
    /\ \A a \in Actor : WF_vars((a # User \/ lock = a) /\ Closing(a))
    /\ WF_vars(Creating)
    /\ \A w \in Worker : WF_vars(MustStop(w) /\ Stop(w)) /\ WF_vars(ReplaceFallback(w))
    /\ \A a \in Applier : WF_vars(ApplySteps(a)) /\ WF_vars(closed /\ DialFails(a))

FairSpec == Spec /\ Fairness

-----------------------------------------------------------------------------
(* Properties *)

\* A channel whose underlays are all its own dials never gets more of a type than desired,
\* counting the one just dialed: no two rounds act on the same shortage.
DesiredNotExceeded ==
    ~config.Incoming =>
        \A t \in Constrained :
            CountsByType(t) + Cardinality({a \in Applier : dialed[a] # None /\ typ[dialed[a]] = t})
                <= IF typ[First] = t /\ Desired[t] = 0 THEN 1 ELSE Desired[t]

\* impl.go:784-786.  No shortage is forgotten: while an open channel with a dial policy
\* has fewer underlays than desired, some applyConstraints is running or about to run.
NoLostShortage ==
    pc[New] = "done" /\ HasDialPolicy /\ ~closed /\ ~areConstraintDesiresSatisfied =>
        \E a \in Applier : pc[a] \notin {"none", "exit"}

\* The rxer and the txer both run closeUnderlay, but the removal of their underlay is
\* announced once: the dial policy counts it once, and one applyConstraints starts.
RemovalAnnouncedOnce == \A u \in Underlay : announced[u] <= 1

\* A closed channel comes to rest: every connection it ever had is closed and every
\* goroutine has ended, whatever was being accepted, dialed or removed meanwhile.
ClosedChannelDrains ==
    closed ~> /\ \A u \in Underlay : conn[u] # "open"
              /\ \A a \in Worker \cup Applier : pc[a] \in {"none", "exit"}

\* impl.go:73-78 and 765-769.  A channel that is below its minimum closes, even if a dial
\* is in progress that never returns, unless it has recovered by then.
Required == IF isMultiUnderlayCapable THEN countsShowValidState ELSE entries # {}

BelowMinimumCloses == pc[New] = "done" /\ ~Required ~> closed \/ Required

=============================================================================
