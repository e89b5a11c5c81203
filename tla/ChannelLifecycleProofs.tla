----------------------- MODULE ChannelLifecycleProofs -----------------------
(***************************************************************************)
(* Proofs about ChannelLifecycle, for any underlays, types and channel     *)
(* configurations.                                                         *)
(***************************************************************************)
EXTENDS ChannelLifecycle, FiniteSetTheorems, TLAPS

-----------------------------------------------------------------------------
(* The inductive invariants *)

\* NewChannel has not added its underlay, and may never do so.
Unmade == pc[New] \in {"bind", "bindFailed", "closeFirst", "add", "failed"}

\* Where each kind of goroutine can be.
ProgramInv ==
    /\ \A w \in Worker : pc[w] \in {"none", "run", "lastGone", "fallback", "exit"}
    /\ \A a \in Applier : pc[a] \in {"none", "start", "invalid", "cas", "loop", "loopInvalid",
                                     "dial", "accept", "defer", "recheck", "exit"}
    /\ pc[User] \in {"none", "userMayClose", "done"}
    /\ pc[New] \in {"bind", "bindFailed", "closeFirst", "add", "failed", "spawn", "done"}
    /\ lock # None => WantsClose(lock) /\ closed

\* An underlay that has yet to become one of the channel's.
Fresh(u) == conn[u] = "idle" \/ (u = First /\ Unmade) \/ \E a \in Applier : dialed[a] = u

\* An underlay enters entries once and leaves it once, and only then are there goroutines
\* for it.
UnderlayInv ==
    /\ conn[First] # "idle"
    /\ Unmade => entries = {} /\ \A u \in Underlay : announced[u] = 0
    /\ \A u \in Underlay :
        /\ Fresh(u) => /\ u \notin entries /\ announced[u] = 0
                       /\ pc[<<"rx", u>>] = "none" /\ pc[<<"tx", u>>] = "none"
        /\ u \in entries => announced[u] = 0
        /\ announced[u] = 0 => pc[<<"apply", u>>] = "none"
        /\ announced[u] <= 1
    /\ pc[New] # "done" => pc[<<"apply", None>>] = "none"
    /\ \A a \in Applier :
        /\ pc[a] = "accept" <=> dialed[a] # None
        /\ dialed[a] # None => dialed[a] # First /\ conn[dialed[a]] # "idle"

\* The part of applyConstraints that applyInProgress guards.
Applying(a) == pc[a] \in {"loop", "loopInvalid", "dial", "accept", "defer"}

\* One applyConstraints at a time is there, and the flag says so.
ApplyInv ==
    /\ applyInProgress <=> \E a \in Applier : Applying(a)
    /\ \A a, b \in Applier : Applying(a) /\ Applying(b) => a = b

\* An applyConstraints is about to add an underlay of type t.
ToAdd(a, t) ==
    \/ pc[a] \in {"dial", "accept"} /\ t \in todo[a]
    \/ pc[a] = "accept" /\ typ[dialed[a]] = t

Bounded(t) == CountsByType(t) <= IF typ[First] = t /\ Desired[t] = 0 THEN 1 ELSE Desired[t]

\* While nobody else adds underlays, each type that is still to be dialed is short, and so
\* is that of the underlay that has been dialed, which is not dialed again in this round.
DesiredInv ==
    ~config.Incoming =>
        /\ \A t \in Constrained : Bounded(t)
        /\ \A t \in Constrained, a \in Applier : ToAdd(a, t) => CountsByType(t) < Desired[t]
        /\ \A a \in Applier : pc[a] = "accept" => typ[dialed[a]] \in Constrained \ todo[a]

LifecycleInv == TypeOK /\ IsFiniteSet(entries) /\ ProgramInv /\ UnderlayInv /\ ApplyInv

-----------------------------------------------------------------------------
(* Constants *)

\* What the assumption says of the channel's own Config.
LEMMA ConfigFacts ==
    ASSUME config \in Configs
    PROVE  /\ Constrained \subseteq Type
           /\ Desired \in [Constrained -> Nat]
           /\ Min \in [Constrained -> Nat]
           /\ MinTotal \in Nat
           /\ HasDialPolicy \in BOOLEAN
           /\ config.Supply \subseteq Underlay \ {First}
  BY ConfigAssumption, Zenon DEF Constrained, Desired, Min, MinTotal, HasDialPolicy

\* The goroutines of an underlay.
LEMMA UnderlayNames ==
    \A u \in Underlay : <<"rx", u>> \in Worker /\ <<"tx", u>> \in Worker /\ <<"apply", u>> \in Applier
  BY Zenon DEF Worker, Applier

\* The underlay of a goroutine.
LEMMA NamedUnderlay ==
    \A w \in Worker : w[2] \in Underlay /\ (w = <<"rx", w[2]>> \/ w = <<"tx", w[2]>>)
  BY DEF Worker

\* The names of the applyConstraints.
LEMMA ApplierNames ==
    /\ <<"apply", None>> \in Applier
    /\ \A a \in Applier : a[2] \in Underlay \cup {None} /\ a = <<"apply", a[2]>>
  BY DEF Applier

\* The kinds of goroutines are told apart by their names.
LEMMA Apart ==
    /\ \A w \in Worker : w \notin Applier /\ w # User /\ w # New
    /\ \A a \in Applier : a # User /\ a # New
    /\ User # New
  BY DEF Worker, Applier, User, New

\* Each of them is a goroutine.
LEMMA Actors == Worker \subseteq Actor /\ Applier \subseteq Actor /\ User \in Actor /\ New \in Actor
  BY Zenon DEF Actor

\* A rxer or a txer is none of the goroutines that accept underlays.
LEMMA WorkersDoNotAccept ==
    ASSUME NEW w \in Worker, NEW a \in Applier \cup {New}
    PROVE  w \in Actor \ {a}
  BY Apart, Actors, Zenon

\* Two underlays have different goroutines.
LEMMA NamesDiffer ==
    \A u, v \in Underlay \cup {None} : u # v =>
        /\ <<"rx", u>> # <<"rx", v>> /\ <<"tx", u>> # <<"tx", v>> /\ <<"apply", u>> # <<"apply", v>>
  BY Zenon

\* AcceptUnderlay starts the goroutines of its underlay, and no other's.
LEMMA MultiplexNames ==
    ASSUME NEW u \in Underlay
    PROVE  /\ Multiplex(u) \subseteq Worker
           /\ \A b \in Applier : b \notin Multiplex(u)
           /\ New \notin Multiplex(u)
           /\ \A v \in Underlay : v # u => <<"rx", v>> \notin Multiplex(u) /\ <<"tx", v>> \notin Multiplex(u)
<1>1. Multiplex(u) \subseteq Worker
  BY UnderlayNames, Zenon DEF Multiplex
<1>2. \A v \in Underlay : v # u => <<"rx", v>> \notin Multiplex(u) /\ <<"tx", v>> \notin Multiplex(u)
  BY Zenon DEF Multiplex
<1>3. QED
  BY <1>1, <1>2, ApplierNames, Apart, Actors, Zenon

\* A goroutine goes on; the others stay where they are.
LEMMA GotoEffect ==
    ASSUME pc \in [Actor -> PC], NEW a \in Actor, NEW l \in PC, Goto(a, l)
    PROVE  /\ pc' \in [Actor -> PC]
           /\ pc'[a] = l
           /\ \A b \in Actor : b # a => pc'[b] = pc[b]
  BY Zenon DEF Goto

\* A goroutine goes on, and others start.
LEMMA StartEffect ==
    ASSUME pc \in [Actor -> PC], NEW a \in Actor, NEW l \in PC, NEW bs, NEW m \in PC,
           GotoAndStart(a, l, bs, m)
    PROVE  /\ pc' \in [Actor -> PC]
           /\ pc'[a] = l
           /\ \A b \in Actor : b # a => pc'[b] = IF b \in bs THEN m ELSE pc[b]
  BY Zenon DEF GotoAndStart

-----------------------------------------------------------------------------
(* Types, and where the goroutines are *)

BaseInv == TypeOK /\ IsFiniteSet(entries) /\ ProgramInv

\* Close leads every goroutine that calls it on.
LEMMA AfterCloseEffect ==
    ASSUME TypeOK, ProgramInv, NEW a \in Actor, WantsClose(a)
    PROVE  /\ AfterClose(a) \in PC
           /\ a \in Worker => AfterClose(a) = "fallback"
           /\ a \in Applier => AfterClose(a) \in {"exit", "defer"}
           /\ a \in Applier => (AfterClose(a) = "defer" <=> pc[a] = "loopInvalid")
           /\ a = User => AfterClose(a) = "done"
           /\ a = New => AfterClose(a) = "closeFirst" /\ pc[a] = "bindFailed"
  BY Zenon DEF AfterClose, WantsClose, PC, ProgramInv, TypeOK

\* The steps of Close.
LEMMA ClosingKeepsBase ==
    ASSUME BaseInv, NEW a \in Actor, Closing(a)
    PROVE  BaseInv'
<1>1. CASE CloseBegin(a)
  <2>1. TypeOK'
    BY <1>1, Zenon, ApplierNames, Apart, Actors, NoneAssumption DEF CloseBegin, TypeOK,
       underlayVars, applyVars, Constrained, BaseInv
  <2>2. ProgramInv'
    BY <1>1, Zenon DEF CloseBegin, ProgramInv, WantsClose, BaseInv
  <2>3. QED
    BY <1>1, <2>1, <2>2, Zenon DEF CloseBegin, underlayVars, BaseInv
<1>2. CASE CloseEnd(a) \/ CloseAgain(a)
  <2>1. WantsClose(a) /\ Goto(a, AfterClose(a)) /\ lock' = None
    BY <1>2, NoneAssumption, Zenon DEF CloseEnd, CloseAgain, ProgramInv, closeVars, BaseInv
  <2>2. /\ pc' \in [Actor -> PC] /\ pc'[a] = AfterClose(a)
        /\ \A b \in Actor : b # a => pc'[b] = pc[b]
    BY <2>1, AfterCloseEffect, GotoEffect, Apart, Zenon DEF TypeOK, BaseInv
  <2>3. ProgramInv'
    BY <2>1, <2>2, AfterCloseEffect, Actors, Zenon DEF ProgramInv, BaseInv
  <2>4. \A b \in Applier : pc'[b] \in {"dial", "accept"} => pc[b] = pc'[b]
    BY <2>1, <2>2, AfterCloseEffect, Actors, Zenon DEF BaseInv
  <2>5. conn' \in [Underlay -> {"idle", "open", "closed"}]
    BY <1>2, Zenon DEF CloseEnd, CloseAgain, TypeOK, underlayVars, BaseInv
  <2>6. UNCHANGED <<config, closed, entries, fallback, typ, notified, announced, applyVars>>
    BY <1>2, Zenon DEF CloseEnd, CloseAgain, underlayVars, closeVars
  <2>7. TypeOK'
    BY <2>1, <2>2, <2>4, <2>5, <2>6, Zenon, NamedUnderlay, ApplierNames, Apart, Actors,
       NoneAssumption DEF TypeOK, applyVars, Constrained, BaseInv
  <2>8. QED
    BY <2>3, <2>6, <2>7, ApplierNames, Apart, Actors, Zenon DEF BaseInv
<1>3. QED
  BY <1>1, <1>2, Zenon DEF Closing

\* What is not a call of Close leaves a goroutine that is inside Close where it is.
LEMMA LockKept ==
    ASSUME TypeOK, ProgramInv, UNCHANGED closeVars,
           \A b \in Actor : pc'[b] = pc[b] \/ ~WantsClose(b)
    PROVE  lock' # None => WantsClose(lock)' /\ closed'
  BY NoneAssumption, Zenon DEF ProgramInv, WantsClose, closeVars, TypeOK

\* AcceptUnderlay adds the underlay and starts its goroutines, or closes it.
LEMMA AcceptEffect ==
    ASSUME BaseInv, NEW u \in Underlay, NEW a \in Applier \cup {New}, NEW l \in PC,
           AcceptUnderlay(u, a, l)
    PROVE  /\ lock = None
           /\ fallback' \in Underlay
           /\ conn' \in [Underlay -> {"idle", "open", "closed"}]
           /\ conn'[u] # "idle" /\ \A v \in Underlay : v # u => conn'[v] = conn[v]
           /\ pc' \in [Actor -> PC] /\ pc'[a] = l
           /\ \/ /\ entries' = entries
                 /\ \A b \in Actor : b # a => pc'[b] = pc[b]
              \/ /\ entries' = entries \cup {u}
                 /\ \A b \in Actor : b # a => pc'[b] = IF b \in Multiplex(u) THEN "run" ELSE pc[b]
           /\ IsFiniteSet(entries')
<1>1. IsFiniteSet(entries \cup {u})
  BY FS_AddElement, Zenon DEF BaseInv
<1>2. CASE GotoAndStart(a, l, Multiplex(u), "run") /\ fallback' = u /\ entries' = entries \cup {u}
           /\ conn' = [conn EXCEPT ![u] = "open"]
  <2>1. "run" \in PC
    BY Zenon DEF PC
  <2>2. /\ pc' \in [Actor -> PC] /\ pc'[a] = l
        /\ \A b \in Actor : b # a => pc'[b] = IF b \in Multiplex(u) THEN "run" ELSE pc[b]
    BY <1>2, <2>1, StartEffect, Actors DEF BaseInv, TypeOK
  <2>3. QED
    BY <1>1, <1>2, <2>2, Zenon DEF BaseInv, TypeOK, AcceptUnderlay
<1>3. CASE Goto(a, l) /\ UNCHANGED <<fallback, entries>> /\ conn' = [conn EXCEPT ![u] = "closed"]
  <2>1. /\ pc' \in [Actor -> PC] /\ pc'[a] = l
        /\ \A b \in Actor : b # a => pc'[b] = pc[b]
    BY <1>3, GotoEffect, Actors, ZenonT(40) DEF BaseInv, TypeOK
  <2>2. QED
    BY <1>3, <2>1, Zenon DEF BaseInv, TypeOK, AcceptUnderlay
<1>4. QED
  BY <1>2, <1>3, Zenon DEF AcceptUnderlay

\* The steps of NewChannel, and an underlay that comes in.
LEMMA CreatingKeepsBase ==
    ASSUME LifecycleInv, Creating \/ \E u \in Underlay : IncomingUnderlay(u)
    PROVE  BaseInv'
<1>1. CASE Bind \/ CloseFirst
  <2>1. PICK l \in {"add", "bindFailed", "failed"} : Goto(New, l) /\ pc[New] \in {"bind", "closeFirst"}
    BY <1>1, Zenon DEF Bind, CloseFirst
  <2>2. /\ pc' \in [Actor -> PC] /\ pc'[New] = l
        /\ \A b \in Actor : b # New => pc'[b] = pc[b]
    BY <2>1, GotoEffect, ApplierNames, Apart, Actors, NoneAssumption, ConfigAssumption DEF TypeOK,
       PC, BaseInv, LifecycleInv
  <2>3. UNCHANGED <<config, closeVars, entries, fallback, typ, notified, announced, applyVars>>
    BY <1>1, Zenon DEF Bind, CloseFirst, underlayVars
  <2>4. conn' \in [Underlay -> {"idle", "open", "closed"}]
    BY <1>1, Zenon DEF Bind, CloseFirst, TypeOK, underlayVars, LifecycleInv
  <2>5. ProgramInv'
    BY <2>1, <2>2, <2>3, Apart, Actors, Zenon DEF ProgramInv, WantsClose, closeVars, TypeOK,
       LifecycleInv
  <2>6. TypeOK'
    BY <2>2, <2>3, <2>4, Zenon, ApplierNames, Apart, Actors, NoneAssumption, ConfigAssumption DEF
       TypeOK, closeVars, applyVars, Constrained, BaseInv, LifecycleInv
  <2>7. QED
    BY <2>3, <2>5, <2>6, Zenon DEF BaseInv, LifecycleInv
<1>2. CASE AddFirst
  <2>1. "spawn" \in PC /\ "run" \in PC
    BY Zenon DEF PC
  <2>2. /\ pc' \in [Actor -> PC] /\ pc'[New] = "spawn"
        /\ \A b \in Actor : b # New => pc'[b] = IF b \in Multiplex(First) THEN "run" ELSE pc[b]
    BY <1>2, <2>1, StartEffect, Actors DEF AddFirst, TypeOK, LifecycleInv
  <2>3. Multiplex(First) \subseteq Worker
    BY UnderlayNames, ConfigAssumption, Zenon DEF Multiplex, BaseInv, LifecycleInv
  <2>4. IsFiniteSet(entries') /\ entries' \in SUBSET Underlay
    BY <1>2, FS_AddElement, UnderlayNames, NamedUnderlay, Apart, NoneAssumption, ConfigAssumption,
       Zenon DEF AddFirst, TypeOK, BaseInv, LifecycleInv
  <2>5. pc[New] = "add" /\ UNCHANGED <<config, closeVars, fallback, typ, conn, notified, announced, applyVars>>
    BY <1>2, Zenon DEF AddFirst
  <2>6. \A w \in Multiplex(First) : pc[w] = "none"
    <3>1. Fresh(First)
      BY <2>5, Zenon DEF Fresh, Unmade
    <3>2. pc[<<"rx", First>>] = "none" /\ pc[<<"tx", First>>] = "none"
      BY <3>1, ConfigAssumption, Zenon DEF UnderlayInv, BaseInv, LifecycleInv
    <3>3. QED
      BY <3>2, Zenon DEF Multiplex
  <2>7. ProgramInv'
    <3>1. \A b \in Actor : pc'[b] = pc[b] \/ ~WantsClose(b)
      BY <2>2, <2>5, <2>6, Zenon DEF WantsClose
    <3>2. QED
      BY <2>2, <2>3, <2>5, <3>1, LockKept, Apart, Actors, Zenon DEF ProgramInv, LifecycleInv
  <2>8. \A b \in Applier : pc'[b] = pc[b]
    BY <2>2, <2>3, NamedUnderlay, Apart, Actors, Zenon
  <2>9. TypeOK'
    BY <2>2, <2>4, <2>5, <2>8, Zenon, NoneAssumption DEF TypeOK, closeVars, applyVars, Constrained,
       LifecycleInv
  <2>10. QED
    BY <2>4, <2>7, <2>9, Actors, NoneAssumption, Zenon DEF BaseInv, LifecycleInv
<1>3. CASE StartConstraints
  <2>1. "done" \in PC /\ "start" \in PC
    BY Zenon DEF PC
  <2>2. /\ pc' \in [Actor -> PC] /\ pc'[New] = "done"
        /\ \A b \in Actor : b # New => pc'[b] = IF b = <<"apply", None>> THEN "start" ELSE pc[b]
    BY <1>3, <2>1, StartEffect, UnderlayNames, ApplierNames, Apart, Actors, NoneAssumption,
       ConfigAssumption DEF StartConstraints, TypeOK, LifecycleInv
  <2>3. pc[New] = "spawn" /\ UNCHANGED <<config, closeVars, underlayVars, applyVars>>
    BY <1>3, Zenon DEF StartConstraints
  <2>4. pc[<<"apply", None>>] = "none"
    BY <2>3, NoneAssumption, Zenon DEF UnderlayInv, LifecycleInv
  <2>5. ProgramInv'
    <3>1. \A b \in Actor : pc'[b] = pc[b] \/ ~WantsClose(b)
      BY <2>2, <2>3, <2>4, Zenon DEF WantsClose
    <3>2. QED
      BY <2>2, <2>3, <3>1, LockKept, ApplierNames, Apart, Actors, Zenon DEF ProgramInv, LifecycleInv
  <2>6. \A b \in Applier : pc'[b] \in {"dial", "accept"} => pc'[b] = pc[b]
    BY <2>2, Actors, Zenon DEF LifecycleInv
  <2>7. TypeOK'
    BY <2>2, <2>3, <2>6, Zenon, UnderlayNames, NamedUnderlay, Actors, NoneAssumption,
       ConfigAssumption DEF TypeOK, closeVars, underlayVars, applyVars, Constrained, BaseInv,
       LifecycleInv
  <2>8. QED
    BY <2>3, <2>5, <2>7, Zenon DEF underlayVars, BaseInv, LifecycleInv
<1>4. ASSUME NEW u \in Underlay, IncomingUnderlay(u)
      PROVE  BaseInv'
  <2>1. "done" \in PC
    BY Zenon DEF PC
  <2>2. AcceptUnderlay(u, New, "done") /\ UNCHANGED <<config, closeVars, notified, announced, applyVars>>
    BY <1>4, Zenon DEF IncomingUnderlay
  <2>3. typ' \in [Underlay -> Type]
    BY <1>4, UnderlayNames, NamedUnderlay, ApplierNames, Apart, Actors, NoneAssumption,
       ConfigAssumption DEF IncomingUnderlay, TypeOK, BaseInv, LifecycleInv
  <2>4. /\ lock = None /\ IsFiniteSet(entries') /\ entries' \in SUBSET Underlay
        /\ fallback' \in Underlay /\ conn' \in [Underlay -> {"idle", "open", "closed"}]
        /\ pc' \in [Actor -> PC] /\ pc'[New] = "done"
    <3>1. /\ lock = None /\ IsFiniteSet(entries')
          /\ fallback' \in Underlay /\ conn' \in [Underlay -> {"idle", "open", "closed"}]
          /\ pc' \in [Actor -> PC] /\ pc'[New] = "done"
      BY <2>1, <2>2, AcceptEffect, NoneAssumption, ConfigAssumption DEF BaseInv, LifecycleInv
    <3>2. entries' = entries \/ entries' = entries \cup {u}
      BY <2>1, <2>2, AcceptEffect, Zenon DEF BaseInv, LifecycleInv
    <3>3. QED
      BY <3>1, <3>2, Zenon DEF TypeOK, LifecycleInv
  <2>5. \A b \in Actor : b # New => pc'[b] = pc[b] \/ (b \in Multiplex(u) /\ pc'[b] = "run")
    BY <2>1, <2>2, AcceptEffect, NamedUnderlay, Apart, ConfigAssumption DEF BaseInv, LifecycleInv
  <2>6. Multiplex(u) \subseteq Worker
    BY UnderlayNames, NamedUnderlay, Zenon DEF Multiplex, BaseInv
  <2>7. ProgramInv'
    BY <2>2, <2>4, <2>5, <2>6, Apart, Actors, Zenon DEF ProgramInv, closeVars, BaseInv, LifecycleInv
  <2>8. \A b \in Applier : pc'[b] = pc[b]
    BY <2>5, <2>6, Apart, Actors, Zenon DEF BaseInv, LifecycleInv
  <2>9. TypeOK'
    BY <2>2, <2>3, <2>4, <2>8, Zenon, Apart DEF TypeOK, closeVars, applyVars, Constrained, BaseInv,
       LifecycleInv
  <2>10. QED
    BY <2>4, <2>7, <2>9, Zenon DEF BaseInv
<1>5. QED
  BY <1>1, <1>2, <1>3, <1>4, Zenon DEF Creating

\* The end of a rxer or a txer.
LEMMA WorkingKeepsBase ==
    ASSUME LifecycleInv, NEW w \in Worker, Stop(w) \/ ReplaceFallback(w)
    PROVE  BaseInv'
<1>1. CASE Stop(w)
  <2>1. /\ pc[w] = "run" /\ conn' = ConnClosed(w[2]) /\ entries' = entries \ {w[2]}
        /\ notified' = notified \cup {w[2]}
        /\ UNCHANGED <<config, closeVars, fallback, typ, applyVars>>
    BY <1>1, Zenon DEF Stop
  <2>2. /\ conn' \in [Underlay -> {"idle", "open", "closed"}]
        /\ notified' \in SUBSET Underlay /\ entries' \in SUBSET Underlay
    BY <2>1, UnderlayNames, NamedUnderlay, Zenon DEF ConnClosed, TypeOK, LifecycleInv
  <2>3. IsFiniteSet(entries')
    BY <2>1, FS_RemoveElement, Zenon DEF LifecycleInv
  <2>4. announced' \in [Underlay -> 0..2]
    <3>1. CASE w[2] \in entries
      <4>1. announced[w[2]] = 0 /\ announced' = [announced EXCEPT ![w[2]] = @ + 1]
        BY <1>1, <3>1, NamedUnderlay, ApplierNames, Zenon DEF Stop, Found, UnderlayInv, BaseInv,
           LifecycleInv
      <4>2. QED
        BY <4>1, NamedUnderlay DEF TypeOK, LifecycleInv
    <3>2. CASE w[2] \notin entries
      BY <1>1, <3>2, Zenon DEF Stop, Found, TypeOK, LifecycleInv
    <3>3. QED
      BY <3>1, <3>2, Zenon
  <2>5. PICK l \in {"fallback", "lastGone"} :
          Goto(w, l) \/ (w[2] \in entries /\ GotoAndStart(w, l, {<<"apply", w[2]>>}, "start"))
    BY <1>1, Zenon DEF Stop, Found, AfterSimpleLoss
  <2>6. l \in PC /\ "start" \in PC
    BY Zenon DEF PC
  <2>7. /\ pc' \in [Actor -> PC] /\ pc'[w] = l
        /\ \A b \in Actor : b # w => \/ pc'[b] = pc[b]
                                     \/ b = <<"apply", w[2]>> /\ w[2] \in entries /\ pc'[b] = "start"
    <3>1. CASE Goto(w, l)
      BY <2>6, <3>1, GotoEffect, UnderlayNames, Actors DEF TypeOK, LifecycleInv
    <3>2. CASE w[2] \in entries /\ GotoAndStart(w, l, {<<"apply", w[2]>>}, "start")
      BY <2>6, <3>2, StartEffect, NamedUnderlay, Actors DEF TypeOK, LifecycleInv
    <3>3. QED
      BY <2>5, <3>1, <3>2, Zenon
  <2>8. w[2] \in entries => pc[<<"apply", w[2]>>] = "none"
    BY NamedUnderlay, Zenon DEF UnderlayInv, LifecycleInv
  <2>9. ProgramInv'
    <3>1. \A b \in Actor : pc'[b] = pc[b] \/ ~WantsClose(b)
      BY <2>1, <2>7, <2>8, Zenon DEF WantsClose
    <3>2. lock' # None => WantsClose(lock)' /\ closed'
      BY <2>1, <3>1, LockKept, Zenon DEF LifecycleInv
    <3>3. \A b \in Worker \cup {User, New} : b # w => pc'[b] = pc[b]
      <4>1. <<"apply", w[2]>> \in Applier
        BY UnderlayNames, NamedUnderlay, Zenon
      <4>2. \A b \in Worker \cup {User, New} : b # <<"apply", w[2]>>
        BY <4>1, Apart, Zenon DEF BaseInv, LifecycleInv
      <4>3. QED
        BY <2>7, <4>2, Actors, Zenon
    <3>4. \A b \in Applier : pc'[b] = pc[b] \/ pc'[b] = "start"
      BY <2>7, ApplierNames, Apart, Actors, NoneAssumption, Zenon
    <3>5. QED
      BY <2>7, <3>2, <3>3, NamedUnderlay, ApplierNames, Apart, Actors, NoneAssumption,
         ConfigAssumption, Zenon DEF ProgramInv, BaseInv, LifecycleInv
  <2>10. \A b \in Applier : pc'[b] \in {"dial", "accept"} => pc'[b] = pc[b]
    BY <2>7, UnderlayNames, NamedUnderlay, ApplierNames, Apart, Actors, NoneAssumption,
       ConfigAssumption, Zenon DEF BaseInv, LifecycleInv
  <2>11. TypeOK'
    BY <2>1, <2>2, <2>4, <2>7, <2>10, Zenon, Apart DEF TypeOK, closeVars, applyVars, Constrained,
       LifecycleInv
  <2>12. QED
    BY <2>3, <2>9, <2>11, NoneAssumption, ConfigAssumption, Zenon DEF BaseInv, LifecycleInv
<1>2. CASE ReplaceFallback(w)
  <2>1. /\ lock = None /\ UNCHANGED <<config, closeVars, entries, typ, conn, notified, announced, applyVars>>
        /\ Goto(w, "exit")
    BY <1>2, Zenon DEF ReplaceFallback
  <2>2. fallback' \in Underlay
    BY <1>2, UnderlayNames, NamedUnderlay, ApplierNames, Apart, Actors, NoneAssumption,
       ConfigAssumption DEF ReplaceFallback, FallbackAfter, TypeOK, BaseInv, LifecycleInv
  <2>3. "exit" \in PC
    BY Zenon DEF PC
  <2>4. pc' \in [Actor -> PC] /\ pc'[w] = "exit" /\ \A b \in Actor : b # w => pc'[b] = pc[b]
    BY <2>1, <2>3, GotoEffect, NamedUnderlay, ApplierNames, Apart, Actors, NoneAssumption,
       ConfigAssumption DEF TypeOK, LifecycleInv
  <2>5. ProgramInv'
    BY <2>1, <2>4, Apart, Actors, NoneAssumption, ConfigAssumption, Zenon DEF ProgramInv, closeVars,
       LifecycleInv
  <2>6. \A b \in Applier : pc'[b] = pc[b]
    BY <2>4, Apart, Actors, Zenon
  <2>7. TypeOK'
    BY <2>1, <2>2, <2>4, <2>6, Zenon, NoneAssumption DEF TypeOK, closeVars, applyVars, Constrained,
       BaseInv, LifecycleInv
  <2>8. QED
    BY <2>1, <2>5, <2>7, ApplierNames, Apart, Zenon DEF BaseInv, LifecycleInv
<1>3. QED
  BY <1>1, <1>2, Zenon

\* A step of applyConstraints between its dials.
LEMMA ApplyStepEffect ==
    ASSUME BaseInv, NEW a \in Applier,
           CheckConstraints(a) \/ TakeApply(a) \/ BeginRound(a) \/ DialFails(a)
               \/ DialSucceeds(a) \/ ReleaseApply(a) \/ Recheck(a)
    PROVE  /\ pc' \in [Actor -> PC]
           /\ \A b \in Actor : b # a => pc'[b] = pc[b]
           /\ pc'[a] \in {"start", "invalid", "cas", "loop", "loopInvalid", "dial", "accept",
                          "defer", "recheck", "exit"}
           /\ ~WantsClose(a)
           /\ todo' \in [Applier -> SUBSET Constrained]
           /\ \A b \in Applier : b # a => todo'[b] = todo[b]
           /\ pc'[a] = "dial" => todo'[a] # {}
           /\ pc'[a] = "accept" => dialed'[a] # None
           /\ UNCHANGED <<config, closeVars, entries, fallback, notified, announced>>
<1>1. PICK l \in PC : Goto(a, l)
  BY Zenon DEF CheckConstraints, TakeApply, BeginRound, DialFails, DialSucceeds, ReleaseApply,
     Recheck, AfterStart, PC
<1>2. pc' \in [Actor -> PC] /\ pc'[a] = l /\ \A b \in Actor : b # a => pc'[b] = pc[b]
  BY <1>1, GotoEffect, UnderlayNames, NamedUnderlay, ApplierNames, Actors DEF TypeOK, BaseInv
<1>3. UNCHANGED <<config, closeVars, entries, fallback, notified, announced>>
  BY Zenon DEF CheckConstraints, TakeApply, BeginRound, DialFails, DialSucceeds, ReleaseApply,
     Recheck, underlayVars, applyVars
<1>4. ~WantsClose(a)
  BY Zenon DEF CheckConstraints, TakeApply, BeginRound, DialFails, DialSucceeds, ReleaseApply,
     Recheck, WantsClose
<1>5. CASE CheckConstraints(a) \/ TakeApply(a) \/ ReleaseApply(a) \/ Recheck(a)
  <2>1. l \in {"start", "invalid", "cas", "loop", "defer", "recheck", "exit"}
    BY <1>1, <1>2, <1>5 DEF CheckConstraints, TakeApply, ReleaseApply, Recheck, AfterStart, Goto
  <2>2. UNCHANGED <<todo, dialed>>
    BY <1>5, Zenon DEF CheckConstraints, TakeApply, ReleaseApply, Recheck, applyVars
  <2>3. QED
    BY <1>2, <1>3, <1>4, <2>1, <2>2, UnderlayNames, NamedUnderlay, ApplierNames, Actors, Zenon DEF
       TypeOK, BaseInv
<1>6. CASE BeginRound(a)
  <2>1. l \in {"defer", "loopInvalid", "dial"}
    BY <1>2, <1>6, GotoEffect DEF BeginRound, Goto, TypeOK
  <2>2. todo' \in [Applier -> SUBSET Constrained] /\ \A b \in Applier : b # a => todo'[b] = todo[b]
    BY <1>6, Zenon DEF BeginRound, DesiresMore, TypeOK, BaseInv
  <2>3. l = "dial" => todo'[a] # {}
    BY <1>2, <1>6 DEF BeginRound, areConstraintDesiresSatisfied, Goto, TypeOK, BaseInv
  <2>4. QED
    BY <1>2, <1>3, <1>4, <2>1, <2>2, <2>3, Zenon
<1>7. CASE DialFails(a)
  <2>1. PICK t \in todo[a] : /\ todo' = [todo EXCEPT ![a] = @ \ {t}]
                             /\ Goto(a, IF todo[a] = {t} THEN "loop" ELSE "dial")
    BY <1>7, Zenon DEF DialFails
  <2>2. l \in {"loop", "dial"} /\ (l = "dial" => todo[a] # {t})
    BY <1>2, <2>1 DEF Goto, TypeOK
  <2>3. QED
    BY <1>2, <1>3, <1>4, <2>1, <2>2, NamedUnderlay, ApplierNames, Zenon DEF TypeOK, BaseInv
<1>8. CASE DialSucceeds(a)
  <2>1. PICK t \in todo[a], u \in config.Supply :
          todo' = [todo EXCEPT ![a] = @ \ {t}] /\ dialed' = [dialed EXCEPT ![a] = u] /\ Goto(a, "accept")
    BY <1>8, Zenon DEF DialSucceeds
  <2>2. u # None
    BY ConfigFacts, ConfigAssumption, Zenon DEF TypeOK, BaseInv
  <2>3. l = "accept"
    BY <1>2, <2>1 DEF Goto
  <2>4. QED
    BY <1>2, <1>3, <1>4, <2>1, <2>2, <2>3, UnderlayNames, NamedUnderlay, Apart, Actors DEF TypeOK,
       BaseInv
<1>9. QED
  BY <1>5, <1>6, <1>7, <1>8, Zenon

\* The steps of applyConstraints.
LEMMA ApplyingKeepsBase ==
    ASSUME LifecycleInv, NEW a \in Applier, ApplySteps(a) \/ DialFails(a) \/ DialSucceeds(a)
    PROVE  BaseInv'
<1>1. CASE AcceptDialed(a)
  <2> DEFINE u == dialed[a]
             l == DialNext(a)
  <2>1. /\ AcceptUnderlay(u, a, l) /\ dialed' = [dialed EXCEPT ![a] = None] /\ pc[a] = "accept"
        /\ UNCHANGED <<config, closeVars, typ, notified, announced, applyInProgress, todo>>
    BY <1>1, Zenon DEF AcceptDialed
  <2>2. u \in Underlay /\ l \in PC /\ l \in {"loop", "dial"} /\ (l = "dial" => todo[a] # {})
    BY <2>1, UnderlayNames, Zenon DEF TypeOK, DialNext, PC, LifecycleInv
  <2> HIDE DEF u, l
  <2>3. /\ lock = None /\ IsFiniteSet(entries')
        /\ fallback' \in Underlay /\ conn' \in [Underlay -> {"idle", "open", "closed"}]
        /\ pc' \in [Actor -> PC] /\ pc'[a] = l
    BY <2>1, <2>2, AcceptEffect, ConfigAssumption DEF BaseInv, LifecycleInv
  <2>4. entries' \in SUBSET Underlay
    <3>1. entries' = entries \/ entries' = entries \cup {u}
      BY <2>1, <2>2, AcceptEffect, UnderlayNames, Apart, NoneAssumption, Zenon DEF BaseInv,
         LifecycleInv
    <3>2. QED
      BY <2>2, <3>1, NamedUnderlay, Zenon DEF TypeOK, LifecycleInv
  <2>5. \A b \in Actor : b # a => pc'[b] = pc[b] \/ (b \in Multiplex(u) /\ pc'[b] = "run")
    BY <2>1, <2>2, AcceptEffect, UnderlayNames, NamedUnderlay, ApplierNames, Apart, Actors,
       NoneAssumption, ConfigAssumption DEF BaseInv, LifecycleInv
  <2>6. Multiplex(u) \subseteq Worker
    BY <2>2, MultiplexNames, Zenon
  <2>7. ProgramInv'
    BY <2>1, <2>2, <2>3, <2>5, <2>6, Apart, Actors, NoneAssumption, ConfigAssumption, Zenon DEF
       ProgramInv, closeVars, BaseInv, LifecycleInv
  <2>8. \A b \in Applier : b # a => pc'[b] = pc[b]
    BY <2>5, <2>6, Apart, Actors, Zenon
  <2>9. dialed' \in [Applier -> Underlay \cup {None}] /\ \A b \in Applier : b # a => dialed'[b] = dialed[b]
    BY <2>1, Zenon DEF TypeOK, LifecycleInv
  <2>10. \A b \in Applier : /\ pc'[b] = "dial" => todo[b] # {}
                            /\ pc'[b] = "accept" => dialed'[b] # None
    BY <2>2, <2>3, <2>8, <2>9, NamedUnderlay, ApplierNames, Apart, Actors, NoneAssumption,
       ConfigAssumption, Zenon DEF TypeOK, BaseInv, LifecycleInv
  <2>11. TypeOK'
    BY <2>1, <2>3, <2>4, <2>10, Zenon DEF TypeOK, closeVars, Constrained, LifecycleInv
  <2>12. QED
    BY <2>3, <2>7, <2>11, UnderlayNames, ApplierNames, Apart, ConfigAssumption, Zenon DEF BaseInv
<1>2. CASE CheckConstraints(a) \/ TakeApply(a) \/ BeginRound(a) \/ DialFails(a)
               \/ DialSucceeds(a) \/ ReleaseApply(a) \/ Recheck(a)
  <2>1. ProgramInv'
    <3>1. \A b \in Actor : b # a => pc'[b] = pc[b]
      BY <1>2, ApplyStepEffect, Zenon DEF BaseInv, LifecycleInv
    <3>2. \A b \in Actor : pc'[b] = pc[b] \/ ~WantsClose(b)
      BY <1>2, <3>1, ApplyStepEffect, NamedUnderlay, ApplierNames, Zenon DEF BaseInv, LifecycleInv
    <3>3. UNCHANGED closeVars
      BY <1>2, ApplyStepEffect, Zenon DEF BaseInv, LifecycleInv
    <3>4. lock' # None => WantsClose(lock)' /\ closed'
      BY <3>2, <3>3, LockKept, ApplierNames, Apart, Actors, NoneAssumption, ConfigAssumption, Zenon
         DEF BaseInv, LifecycleInv
    <3>5. pc'[a] \in {"start", "invalid", "cas", "loop", "loopInvalid", "dial", "accept",
                      "defer", "recheck", "exit"}
      BY <1>2, ApplyStepEffect, ApplierNames, Apart, Zenon DEF BaseInv, LifecycleInv
    <3>6. QED
      BY <3>1, <3>4, <3>5, Apart, Actors, Zenon DEF ProgramInv, LifecycleInv
  <2>2. typ' \in [Underlay -> Type] /\ conn' \in [Underlay -> {"idle", "open", "closed"}]
        /\ dialed' \in [Applier -> Underlay \cup {None}]
        /\ \A b \in Applier : b # a => dialed'[b] = dialed[b]
    <3>1. CASE DialSucceeds(a)
      BY <3>1, ConfigFacts, ApplierNames DEF DialSucceeds, TypeOK, BaseInv, LifecycleInv
    <3>2. CASE UNCHANGED <<typ, conn, dialed>>
      BY <3>2, Actors, NoneAssumption, ConfigAssumption, Zenon DEF TypeOK, BaseInv, LifecycleInv
    <3>3. QED
      BY <1>2, <3>1, <3>2, Zenon DEF CheckConstraints, TakeApply, BeginRound, DialFails,
         ReleaseApply, Recheck, underlayVars, applyVars
  <2>3. applyInProgress' \in BOOLEAN
    BY <1>2, Zenon DEF CheckConstraints, TakeApply, BeginRound, DialFails, DialSucceeds,
       ReleaseApply, Recheck, applyVars, TypeOK, LifecycleInv
  <2>4. \A b \in Applier : b # a => pc'[b] = pc[b] /\ todo'[b] = todo[b]
    BY <1>2, ApplyStepEffect, UnderlayNames, NamedUnderlay, ApplierNames, Apart, Actors,
       NoneAssumption, ConfigAssumption DEF BaseInv, LifecycleInv
  <2>5. \A b \in Applier : /\ pc'[b] = "dial" => todo'[b] # {}
                           /\ pc'[b] = "accept" => dialed'[b] # None
    <3>1. /\ pc'[a] = "dial" => todo'[a] # {}
          /\ pc'[a] = "accept" => dialed'[a] # None
      BY <1>2, ApplyStepEffect, Actors, NoneAssumption, ConfigAssumption, Zenon DEF BaseInv,
         LifecycleInv
    <3>2. QED
      BY <2>2, <2>4, <3>1, Zenon DEF TypeOK, LifecycleInv
  <2>6. /\ todo' \in [Applier -> SUBSET Constrained] /\ pc' \in [Actor -> PC]
        /\ UNCHANGED <<config, closeVars, entries, fallback, notified, announced>>
    BY <1>2, ApplyStepEffect, Zenon DEF BaseInv, LifecycleInv
  <2>7. TypeOK'
    BY <2>2, <2>3, <2>5, <2>6, Zenon, Apart, Actors DEF TypeOK, closeVars, Constrained, LifecycleInv
  <2>8. QED
    BY <2>1, <2>6, <2>7, ConfigAssumption, Zenon DEF BaseInv, LifecycleInv
<1>3. QED
  BY <1>1, <1>2, Zenon DEF ApplySteps

\* Every step keeps the types and the goroutines where they belong.
LEMMA NextKeepsBase == LifecycleInv /\ [Next]_vars => BaseInv'
<1> SUFFICES ASSUME LifecycleInv, [Next]_vars
             PROVE  BaseInv'
  BY Zenon
<1>1. BaseInv
  BY Zenon DEF LifecycleInv, BaseInv
<1>2. CASE UNCHANGED vars
  <2>1. TypeOK'
    BY <1>1, <1>2, Zenon DEF BaseInv, TypeOK, vars, closeVars, underlayVars, applyVars, Constrained
  <2>2. QED
    BY <1>1, <1>2, <2>1, Zenon DEF BaseInv, ProgramInv, WantsClose, vars, closeVars, underlayVars
<1>3. QED
  BY <1>1, <1>2, ClosingKeepsBase, CreatingKeepsBase, WorkingKeepsBase, ApplyingKeepsBase, Zenon DEF
     Next, Ended

-----------------------------------------------------------------------------
(* The life of an underlay *)

\* A step that neither adds nor removes an underlay, and starts nothing.
LEMMA QuietKeepsUnderlays ==
    ASSUME LifecycleInv, UNCHANGED <<entries, announced, dialed>>,
           \A u \in Underlay : conn'[u] = "idle" <=> conn[u] = "idle",
           \A b \in Worker \cup Applier : pc[b] = "none" => pc'[b] = "none",
           \A a \in Applier : pc'[a] = "accept" <=> pc[a] = "accept",
           Unmade' => Unmade,
           pc[New] = "done" => pc'[New] = "done"
    PROVE  UnderlayInv'
<1>1. \A u \in Underlay : Fresh(u)' => Fresh(u)
  BY Zenon DEF Fresh
<1>2. QED
  BY <1>1, UnderlayNames, ApplierNames, ConfigAssumption DEF LifecycleInv, UnderlayInv, TypeOK

\* The steps of Close add no underlay and remove none.
LEMMA ClosingKeepsUnderlays ==
    ASSUME LifecycleInv, NEW a \in Actor, Closing(a)
    PROVE  UnderlayInv'
<1>1. CASE CloseBegin(a)
  BY <1>1, QuietKeepsUnderlays, Zenon DEF CloseBegin, underlayVars, applyVars, Unmade
<1>2. CASE CloseEnd(a) \/ CloseAgain(a)
  <2>1. WantsClose(a) /\ Goto(a, AfterClose(a)) /\ UNCHANGED <<entries, announced, dialed>>
    BY <1>2, NoneAssumption, Zenon DEF CloseEnd, CloseAgain, ProgramInv, underlayVars, applyVars,
       LifecycleInv
  <2>2. pc'[a] = AfterClose(a) /\ \A b \in Actor : b # a => pc'[b] = pc[b]
    BY <2>1, AfterCloseEffect, GotoEffect, Zenon DEF TypeOK, LifecycleInv
  <2>3. \A u \in Underlay : conn'[u] = "idle" <=> conn[u] = "idle"
    <3>1. \A u \in entries : conn[u] # "idle"
      BY Zenon DEF UnderlayInv, Fresh, TypeOK, LifecycleInv
    <3>2. QED
      BY <1>2, <3>1, Zenon DEF CloseEnd, CloseAgain, underlayVars
  <2>4. pc[a] # "none" /\ pc[a] # "accept" /\ pc[a] # "done"
    BY <2>1, Zenon DEF WantsClose
  <2>5. a \in Applier => pc'[a] # "accept"
    BY <2>1, <2>2, AfterCloseEffect, Zenon DEF LifecycleInv
  <2>6. a = New => Unmade
    BY <2>1, AfterCloseEffect, Zenon DEF Unmade, LifecycleInv
  <2>7. Unmade' => Unmade
    BY <2>2, <2>6, UnderlayNames, NamedUnderlay, ApplierNames, Actors, Zenon DEF Unmade
  <2>8. QED
    BY <2>1, <2>2, <2>3, <2>4, <2>5, <2>7, QuietKeepsUnderlays, ApplierNames, Actors,
       NoneAssumption, Zenon
<1>3. QED
  BY <1>1, <1>2, Zenon DEF Closing

\* NewChannel adds its underlay once.
LEMMA CreatingKeepsUnderlays ==
    ASSUME LifecycleInv, Creating
    PROVE  UnderlayInv'
<1>1. CASE Bind \/ CloseFirst
  <2>1. PICK l \in {"add", "bindFailed", "failed"} : Goto(New, l) /\ pc[New] \in {"bind", "closeFirst"}
    BY <1>1, Zenon DEF Bind, CloseFirst
  <2>2. pc'[New] = l /\ \A b \in Actor : b # New => pc'[b] = pc[b]
    BY <2>1, GotoEffect, Actors, Zenon DEF TypeOK, PC, LifecycleInv
  <2>3. UNCHANGED <<entries, announced, dialed>>
    BY <1>1, Zenon DEF Bind, CloseFirst, underlayVars, applyVars
  <2>4. \A u \in Underlay : conn'[u] = "idle" <=> conn[u] = "idle"
    BY <1>1, UnderlayNames, NamedUnderlay DEF Bind, CloseFirst, TypeOK, underlayVars, UnderlayInv,
       LifecycleInv
  <2>5. Unmade
    BY <2>1, Zenon DEF Unmade
  <2>6. QED
    BY <2>1, <2>2, <2>3, <2>4, <2>5, QuietKeepsUnderlays, Actors, Zenon
<1>2. CASE AddFirst
  <2>1. "spawn" \in PC /\ "run" \in PC
    BY Zenon DEF PC
  <2>2. /\ pc'[New] = "spawn"
        /\ \A b \in Actor : b # New => pc'[b] = IF b \in Multiplex(First) THEN "run" ELSE pc[b]
    BY <1>2, <2>1, StartEffect, Apart, Actors, NoneAssumption, ConfigAssumption DEF AddFirst,
       TypeOK, LifecycleInv
  <2>3. entries' = entries \cup {First} /\ pc[New] = "add" /\ UNCHANGED <<conn, announced, dialed>>
    BY <1>2, Zenon DEF AddFirst, applyVars
  <2>4. Fresh(First) /\ Unmade /\ ~Unmade'
    BY <2>2, <2>3, Zenon DEF Fresh, Unmade
  <2>5. \A u \in Underlay : Fresh(u)' => Fresh(u) /\ u # First
    BY <2>3, <2>4, ConfigAssumption DEF Fresh, UnderlayInv, LifecycleInv
  <2>6. \A b \in Applier : pc'[b] = pc[b]
    BY <2>2, MultiplexNames, Apart, Actors, ConfigAssumption, Zenon
  <2>7. \A u \in Underlay : u # First =>
          pc'[<<"rx", u>>] = pc[<<"rx", u>>] /\ pc'[<<"tx", u>>] = pc[<<"tx", u>>]
    BY <2>2, MultiplexNames, UnderlayNames, NamedUnderlay, Apart, Actors, ConfigAssumption, Zenon
       DEF LifecycleInv
  <2>8. QED
    BY <2>3, <2>4, <2>5, <2>6, <2>7, UnderlayNames, ApplierNames, Apart, NoneAssumption,
       ConfigAssumption DEF UnderlayInv, LifecycleInv
<1>3. CASE StartConstraints
  <2>1. "done" \in PC /\ "start" \in PC
    BY Zenon DEF PC
  <2>2. /\ pc'[New] = "done"
        /\ \A b \in Actor : b # New => pc'[b] = IF b = <<"apply", None>> THEN "start" ELSE pc[b]
    BY <1>3, <2>1, StartEffect, NamedUnderlay, ApplierNames, Apart, Actors, NoneAssumption,
       ConfigAssumption DEF StartConstraints, TypeOK, LifecycleInv
  <2>3. pc[New] = "spawn" /\ UNCHANGED <<entries, conn, announced, dialed>>
    BY <1>3, Zenon DEF StartConstraints, underlayVars, applyVars
  <2>4. \A b \in Worker : pc'[b] = pc[b]
    BY <2>2, ApplierNames, Apart, Actors, NoneAssumption, ConfigAssumption, Zenon DEF LifecycleInv
  <2>5. \A u \in Underlay : Fresh(u)' => Fresh(u)
    BY <2>2, <2>3, Zenon DEF Fresh, Unmade
  <2>6. pc[<<"apply", None>>] = "none"
    BY <2>3, NamedUnderlay, Apart, ConfigAssumption, Zenon DEF UnderlayInv, LifecycleInv
  <2>7. \A u \in Underlay : pc'[<<"apply", u>>] = pc[<<"apply", u>>]
    BY <2>2, NamesDiffer, UnderlayNames, ApplierNames, Apart, Actors, NoneAssumption,
       ConfigAssumption, Zenon DEF LifecycleInv
  <2>8. \A b \in Applier : pc'[b] = "accept" <=> pc[b] = "accept"
    BY <2>2, <2>6, UnderlayNames, ApplierNames, Apart, Actors, NoneAssumption, ConfigAssumption,
       Zenon
  <2>9. ~Unmade'
    BY <2>2, Zenon DEF Unmade
  <2>10. QED
    BY <2>2, <2>3, <2>4, <2>5, <2>7, <2>8, <2>9, UnderlayNames DEF UnderlayInv, LifecycleInv
<1>4. QED
  BY <1>1, <1>2, <1>3, Zenon DEF Creating

\* An underlay that gets into entries is new to the channel.  AcceptUnderlay takes one that
\* was dialed or came in.
LEMMA AcceptKeepsUnderlays ==
    ASSUME LifecycleInv, NEW u \in Underlay, NEW a \in Applier \cup {New}, NEW l \in PC,
           AcceptUnderlay(u, a, l), Fresh(u), u # First, ~Unmade, UNCHANGED announced,
           a = New => l = "done" /\ pc[New] = "done" /\ UNCHANGED dialed,
           a \in Applier => l \in {"loop", "dial"} /\ pc[a] = "accept" /\ dialed[a] = u
                            /\ dialed' = [dialed EXCEPT ![a] = None],
           \A b \in Applier : dialed[b] = u => b = a
    PROVE  UnderlayInv'
<1>1. /\ conn'[u] # "idle" /\ \A v \in Underlay : v # u => conn'[v] = conn[v]
      /\ pc'[a] = l
      /\ entries' = entries \/ entries' = entries \cup {u}
      /\ \A b \in Actor : b # a => pc'[b] = pc[b] \/ b \in Multiplex(u)
  BY AcceptEffect DEF BaseInv, LifecycleInv
<1>2. \A b \in Applier : b # a => pc'[b] = pc[b]
  BY <1>1, MultiplexNames, ApplierNames, Actors, Zenon DEF LifecycleInv
<1>3. pc'[New] = pc[New]
  BY <1>1, MultiplexNames, Actors, ConfigAssumption, Zenon DEF LifecycleInv, TypeOK
<1>4. ~Unmade'
  BY <1>3, Zenon DEF Unmade
<1>5. \A v \in Underlay : v # u =>
          pc'[<<"rx", v>>] = pc[<<"rx", v>>] /\ pc'[<<"tx", v>>] = pc[<<"tx", v>>]
  <2> SUFFICES ASSUME NEW v \in Underlay, v # u
               PROVE  pc'[<<"rx", v>>] = pc[<<"rx", v>>] /\ pc'[<<"tx", v>>] = pc[<<"tx", v>>]
    BY Zenon
  <2>1. <<"rx", v>> \in Worker /\ <<"tx", v>> \in Worker
    BY UnderlayNames, Zenon
  <2>2. <<"rx", v>> \in Actor \ {a} /\ <<"tx", v>> \in Actor \ {a}
    BY <2>1, WorkersDoNotAccept, Zenon
  <2>3. <<"rx", v>> \notin Multiplex(u) /\ <<"tx", v>> \notin Multiplex(u)
    BY MultiplexNames, Zenon
  <2>4. QED
    BY <1>1, <2>2, <2>3, Zenon
<1>6. \A b \in Applier : dialed'[b] # None => dialed'[b] = dialed[b] /\ dialed[b] # u
  BY NamedUnderlay, ApplierNames, Apart, Zenon DEF LifecycleInv, TypeOK
<1>7. \A v \in Underlay : Fresh(v)' => v # u /\ Fresh(v)
  BY <1>1, <1>4, <1>6, ConfigAssumption, Zenon DEF Fresh
<1>8. \A b \in Applier : pc'[b] = "accept" <=> dialed'[b] # None
  <2>1. CASE a = New
    BY <1>2, <2>1, Zenon DEF UnderlayInv, LifecycleInv
  <2>2. CASE a \in Applier
    BY <1>1, <1>2, <2>2, NamedUnderlay, Actors DEF UnderlayInv, LifecycleInv, TypeOK
  <2>3. QED
    BY <2>1, <2>2, Zenon
<1>9. \A b \in Applier : pc[b] = "none" => pc'[b] = "none"
  BY <1>2, Zenon
<1>10. QED
  BY <1>1, <1>3, <1>4, <1>5, <1>6, <1>7, <1>8, <1>9, UnderlayNames, NamedUnderlay, ApplierNames,
     Actors, ConfigAssumption, SMTT(30) DEF UnderlayInv, LifecycleInv, TypeOK

\* Underlays.Remove finds an underlay once (underlays.go), and a removal starts the one
\* applyConstraints of its underlay.
LEMMA WorkingKeepsUnderlays ==
    ASSUME LifecycleInv, NEW w \in Worker, Stop(w) \/ ReplaceFallback(w)
    PROVE  UnderlayInv'
<1>1. CASE Stop(w)
  <2> DEFINE v == w[2]
  <2>1. /\ pc[w] = "run" /\ conn' = [conn EXCEPT ![v] = "closed"] /\ entries' = entries \ {v}
        /\ UNCHANGED dialed
    BY <1>1, Zenon DEF Stop, ConnClosed, applyVars
  <2>2. PICK l \in {"fallback", "lastGone"} :
          Goto(w, l) \/ (v \in entries /\ GotoAndStart(w, l, {<<"apply", v>>}, "start"))
    BY <1>1, Zenon DEF Stop, Found, AfterSimpleLoss
  <2>3. l \in PC /\ "start" \in PC
    BY Zenon DEF PC
  <2>4. /\ pc'[w] = l
        /\ \A b \in Actor : b # w => \/ pc'[b] = pc[b]
                                     \/ b = <<"apply", v>> /\ v \in entries /\ pc'[b] = "start"
    <3>1. CASE Goto(w, l)
      BY <2>3, <3>1, GotoEffect, Actors DEF TypeOK, LifecycleInv
    <3>2. CASE v \in entries /\ GotoAndStart(w, l, {<<"apply", v>>}, "start")
      BY <2>3, <3>2, StartEffect, Actors DEF TypeOK, LifecycleInv
    <3>3. QED
      BY <2>2, <3>1, <3>2, Zenon
  <2>5. /\ v \in entries => announced[v] = 0 /\ announced'[v] = 1
        /\ v \notin entries => announced' = announced
        /\ \A u \in Underlay : u # v => announced'[u] = announced[u]
    <3>1. CASE v \in entries
      <4>1. announced[v] = 0 /\ announced' = [announced EXCEPT ![v] = @ + 1]
        BY <1>1, <3>1, NamedUnderlay, Actors, ConfigAssumption, Zenon DEF Stop, Found, UnderlayInv,
           LifecycleInv
      <4>2. QED
        BY <3>1, <4>1, UnderlayNames DEF TypeOK, LifecycleInv
    <3>2. CASE v \notin entries
      BY <1>1, <3>2, Zenon DEF Stop, Found
    <3>3. QED
      BY <3>1, <3>2, Zenon
  <2>6. v \in Underlay /\ ~Fresh(v)
    <3>1. v \in Underlay /\ (w = <<"rx", v>> \/ w = <<"tx", v>>)
      BY NamedUnderlay, ApplierNames, Zenon
    <3>2. Fresh(v) => pc[<<"rx", v>>] = "none" /\ pc[<<"tx", v>>] = "none"
      BY NamedUnderlay, Apart, Zenon DEF UnderlayInv, LifecycleInv
    <3>3. QED
      BY <2>1, <3>1, <3>2, Zenon
  <2> HIDE DEF v
  <2>7. <<"apply", v>> \in Applier /\ \A b \in Worker \cup {New} : b # <<"apply", v>>
    <3>1. <<"apply", v>> \in Applier
      BY <2>6, UnderlayNames, ApplierNames, Apart, Actors, NoneAssumption, ConfigAssumption, Zenon
    <3>2. QED
      BY <3>1, NamedUnderlay, ApplierNames, Apart, NoneAssumption, ConfigAssumption, Zenon DEF
         LifecycleInv
  <2>8. pc'[New] = pc[New]
    BY <2>4, <2>7, NamedUnderlay, Apart, Actors, Zenon
  <2>9. \A u \in Underlay : Fresh(u)' => Fresh(u) /\ u # v
    BY <2>1, <2>6, <2>8 DEF Fresh, Unmade
  <2>10. \A b \in Worker : pc[b] = "none" => pc'[b] = "none"
    BY <2>1, <2>4, <2>7, Actors, Zenon
  <2>11. \A u \in Underlay \cup {None} : u # v => pc'[<<"apply", u>>] = pc[<<"apply", u>>]
    <3>1. \A u \in Underlay \cup {None} : <<"apply", u>> \in Applier
      BY Zenon DEF Applier
    <3>2. \A u \in Underlay \cup {None} : u # v => <<"apply", u>> # <<"apply", v>>
      BY <2>6, Zenon
    <3>3. QED
      BY <2>4, <3>1, Apart, Actors, ConfigAssumption, Zenon
  <2>12. v \notin entries => pc'[<<"apply", v>>] = pc[<<"apply", v>>]
    BY <2>4, <2>7, Actors, Zenon DEF LifecycleInv
  <2>13. \A b \in Applier : pc'[b] = "accept" <=> pc[b] = "accept"
    <3>1. v \in entries => pc[<<"apply", v>>] = "none"
      BY <2>5, <2>6, ApplierNames, Zenon DEF UnderlayInv, LifecycleInv
    <3>2. \A b \in Applier : b \in Actor /\ b # w
      BY Apart, Actors, Zenon
    <3>3. QED
      BY <2>4, <3>1, <3>2, Zenon
  <2>14. ASSUME NEW u \in Underlay
         PROVE  /\ Fresh(u)' => /\ u \notin entries' /\ announced'[u] = 0
                                /\ pc'[<<"rx", u>>] = "none" /\ pc'[<<"tx", u>>] = "none"
                /\ u \in entries' => announced'[u] = 0
    <3>1. <<"rx", u>> \in Worker /\ <<"tx", u>> \in Worker
      BY UnderlayNames, ApplierNames, Zenon
    <3>2. ASSUME Fresh(u)
          PROVE  u \notin entries /\ announced[u] = 0 /\ pc[<<"rx", u>>] = "none" /\ pc[<<"tx", u>>] = "none"
      BY <3>2, UnderlayNames, NamedUnderlay, ApplierNames, NoneAssumption, Zenon DEF UnderlayInv,
         LifecycleInv
    <3>3. u \in entries => announced[u] = 0
      BY Zenon DEF UnderlayInv, LifecycleInv
    <3>4. QED
      BY <2>1, <2>5, <2>9, <2>10, <3>1, <3>2, <3>3, Zenon
  <2>15. ASSUME NEW u \in Underlay
         PROVE  /\ announced'[u] = 0 => pc'[<<"apply", u>>] = "none"
                /\ announced'[u] <= 1
    <3>1. (announced[u] = 0 => pc[<<"apply", u>>] = "none") /\ announced[u] <= 1
      BY Zenon DEF UnderlayInv, LifecycleInv
    <3>2. QED
      BY <2>5, <2>11, <2>12, <3>1
  <2>16. conn'[First] # "idle" /\ \A b \in Applier : dialed[b] # None => conn'[dialed[b]] # "idle"
    BY <2>1, SMTT(30) DEF UnderlayInv, LifecycleInv
  <2>17. (Unmade' => entries' = {} /\ \A u \in Underlay : announced'[u] = 0) /\ (pc'[New] # "done" => pc'[<<"apply", None>>] = "none")
    BY <2>1, <2>5, <2>6, <2>8, <2>11, ConfigAssumption, SMTT(30) DEF UnderlayInv, Unmade, LifecycleInv
  <2>18. QED
    BY <2>1, <2>13, <2>14, <2>15, <2>16, <2>17, NoneAssumption, ConfigAssumption DEF UnderlayInv,
       LifecycleInv
<1>2. CASE ReplaceFallback(w)
  <2>1. UNCHANGED <<entries, conn, announced, dialed>> /\ Goto(w, "exit") /\ pc[w] = "fallback"
    BY <1>2, Zenon DEF ReplaceFallback, applyVars
  <2>2. "exit" \in PC
    BY Zenon DEF PC
  <2>3. pc'[w] = "exit" /\ \A b \in Actor : b # w => pc'[b] = pc[b]
    BY <2>1, <2>2, GotoEffect, UnderlayNames, NamedUnderlay, ApplierNames, Actors, ConfigAssumption,
       Zenon DEF TypeOK, LifecycleInv
  <2>4. Unmade' => Unmade
    BY <2>3, UnderlayNames, Actors, Zenon DEF Unmade
  <2>5. QED
    BY <2>1, <2>3, <2>4, QuietKeepsUnderlays, ApplierNames, Actors, NoneAssumption,
       ConfigAssumption, Zenon DEF LifecycleInv
<1>3. QED
  BY <1>1, <1>2, Zenon

\* An underlay that comes in or is dialed has not been seen before.
LEMMA ApplyingKeepsUnderlays ==
    ASSUME LifecycleInv, NEW a \in Applier, ApplySteps(a) \/ DialFails(a) \/ DialSucceeds(a)
    PROVE  UnderlayInv'
<1>0. BaseInv
  BY NamedUnderlay, Zenon DEF BaseInv, LifecycleInv
<1>1. CASE AcceptDialed(a)
  <2>1. /\ AcceptUnderlay(dialed[a], a, DialNext(a)) /\ dialed' = [dialed EXCEPT ![a] = None]
        /\ pc[a] = "accept" /\ UNCHANGED announced
    BY <1>1, Zenon DEF AcceptDialed
  <2>2. DialNext(a) \in PC /\ DialNext(a) \in {"loop", "dial"} /\ dialed[a] \in Underlay
    BY <2>1, Actors, Zenon DEF DialNext, PC, TypeOK, LifecycleInv
  <2>3. Fresh(dialed[a]) /\ dialed[a] # First
    BY ConfigAssumption, Zenon DEF Fresh, UnderlayInv, LifecycleInv
  <2>4. \A b \in Applier : dialed[b] = dialed[a] => b = a
    <3>1. \A b \in Applier : dialed[b] = dialed[a] => pc[b] = "accept"
      BY <2>2, ConfigAssumption, Zenon DEF UnderlayInv, LifecycleInv
    <3>2. QED
      BY <3>1, Zenon DEF ApplyInv, Applying, LifecycleInv
  <2>5. ~Unmade
    <3>1. PICK u \in Underlay \cup {None} : a = <<"apply", u>>
      BY ApplierNames, Zenon
    <3>2. Unmade => pc[New] # "done" /\ \A v \in Underlay : announced[v] = 0
      BY Zenon DEF Unmade, UnderlayInv, LifecycleInv
    <3>3. Unmade => pc[<<"apply", None>>] = "none" /\ \A v \in Underlay : pc[<<"apply", v>>] = "none"
      BY <3>2, Zenon DEF UnderlayInv, LifecycleInv
    <3>4. QED
      BY <2>1, <3>1, <3>3, Zenon
  <2>6. a # New
    BY Apart, Zenon
  <2>7. a = New => DialNext(a) = "done" /\ pc[New] = "done" /\ UNCHANGED dialed
    BY <2>6, Zenon
  <2>8. a \in Applier \cup {New}
    BY Zenon
  <2>9. LifecycleInv
    BY Zenon DEF LifecycleInv
  <2> HIDE DEF LifecycleInv
  <2>10. QED
    BY <2>1, <2>2, <2>3, <2>4, <2>5, <2>7, <2>8, AcceptKeepsUnderlays, Zenon
<1>2. CASE DialSucceeds(a)
  <2>1. PICK u \in config.Supply :
          /\ conn[u] = "idle" /\ conn' = [conn EXCEPT ![u] = "open"]
          /\ dialed' = [dialed EXCEPT ![a] = u] /\ pc[a] = "dial" /\ Goto(a, "accept")
          /\ UNCHANGED <<entries, announced>>
    BY <1>2, Zenon DEF DialSucceeds
  <2>2. u \in Underlay /\ u # First /\ u # None
    BY ConfigAssumption, Zenon DEF TypeOK, LifecycleInv
  <2>3. "accept" \in PC
    BY Zenon DEF PC
  <2>4. pc'[a] = "accept" /\ \A b \in Actor : b # a => pc'[b] = pc[b]
    BY <2>1, <2>3, GotoEffect, UnderlayNames, NamedUnderlay, ApplierNames, Apart, Actors,
       NoneAssumption, Zenon DEF TypeOK, LifecycleInv
  <2>5. /\ dialed'[a] = u /\ \A b \in Applier : b # a => dialed'[b] = dialed[b]
        /\ conn'[u] = "open" /\ \A v \in Underlay : v # u => conn'[v] = conn[v]
    BY <2>1, <2>2, Zenon DEF TypeOK, LifecycleInv
  <2>6. pc'[New] = pc[New] /\ \A w \in Worker : pc'[w] = pc[w]
    BY <2>4, Apart, Actors, Zenon DEF LifecycleInv
  <2>7. \A v \in Underlay : Fresh(v)' => Fresh(v)
    BY <2>1, <2>5, <2>6 DEF Fresh, Unmade
  <2>8. \A b \in Applier : pc[b] = "none" => pc'[b] = "none"
    BY <2>1, <2>4, Actors, Zenon
  <2>9. \A b \in Applier :
          /\ pc'[b] = "accept" <=> dialed'[b] # None
          /\ dialed'[b] # None => dialed'[b] # First /\ conn'[dialed'[b]] # "idle"
    BY <2>4, <2>5, Actors, ConfigAssumption DEF UnderlayInv, TypeOK, LifecycleInv
  <2>10. QED
    BY <2>1, <2>2, <2>5, <2>6, <2>7, <2>8, <2>9, UnderlayNames, ApplierNames, Actors,
       NoneAssumption, ConfigAssumption, SMTT(30) DEF UnderlayInv, Unmade, LifecycleInv
<1>3. CASE CheckConstraints(a) \/ TakeApply(a) \/ BeginRound(a) \/ DialFails(a)
               \/ ReleaseApply(a) \/ Recheck(a)
  <2>1. UNCHANGED <<entries, announced, conn, dialed>>
    BY <1>3, Zenon DEF CheckConstraints, TakeApply, BeginRound, DialFails, ReleaseApply, Recheck,
       underlayVars, applyVars
  <2>2. \A b \in Actor : b # a => pc'[b] = pc[b]
    BY <1>0, <1>3, ApplyStepEffect, Zenon
  <2>3. pc[a] # "none" /\ pc[a] # "accept"
    BY <1>3, Zenon DEF CheckConstraints, TakeApply, BeginRound, DialFails, ReleaseApply, Recheck
  <2>4. pc'[a] # "accept"
    BY <1>3 DEF CheckConstraints, TakeApply, BeginRound, DialFails, ReleaseApply, Recheck, Goto,
       AfterStart, TypeOK, LifecycleInv
  <2>5. (Unmade' => Unmade) /\ pc'[New] = pc[New]
    BY <2>2, UnderlayNames, NamedUnderlay, ApplierNames, Apart, Actors, NoneAssumption,
       ConfigAssumption, Zenon DEF Unmade, LifecycleInv
  <2>6. QED
    BY <2>1, <2>2, <2>3, <2>4, <2>5, QuietKeepsUnderlays, NamedUnderlay, ApplierNames, Actors,
       ConfigAssumption, Zenon
<1>4. QED
  BY <1>1, <1>2, <1>3, Zenon DEF ApplySteps

\* So is one that a listener hands over.
LEMMA IncomingKeepsUnderlays ==
    ASSUME LifecycleInv, NEW u \in Underlay, IncomingUnderlay(u)
    PROVE  UnderlayInv'
<1>1. /\ AcceptUnderlay(u, New, "done") /\ conn[u] = "idle" /\ pc[New] = "done"
      /\ UNCHANGED <<announced, dialed>>
  BY Zenon DEF IncomingUnderlay, applyVars
<1>2. "done" \in PC
  BY Zenon DEF PC
<1>3. Fresh(u) /\ u # First /\ ~Unmade
  BY <1>1, ZenonT(40) DEF Fresh, UnderlayInv, Unmade, LifecycleInv
<1>4. \A b \in Applier : dialed[b] # u
  BY <1>1, ConfigAssumption DEF UnderlayInv, LifecycleInv
<1>5. New \notin Applier
  BY Apart, Zenon
<1>6. QED
  BY <1>1, <1>2, <1>3, <1>4, <1>5, AcceptKeepsUnderlays, Zenon

\* Every step keeps the invariant of the underlays.
LEMMA NextKeepsUnderlays == LifecycleInv /\ [Next]_vars => UnderlayInv'
<1> SUFFICES ASSUME LifecycleInv, [Next]_vars
             PROVE  UnderlayInv'
  BY Zenon
<1>1. CASE UNCHANGED vars
  <2>1. UNCHANGED <<entries, announced, dialed, conn, pc>> /\ (Unmade' => Unmade)
    BY <1>1, Zenon DEF vars, underlayVars, applyVars, Unmade
  <2>2. QED
    BY <2>1, QuietKeepsUnderlays, Zenon
<1>2. QED
  BY <1>1, ClosingKeepsUnderlays, CreatingKeepsUnderlays, WorkingKeepsUnderlays,
     ApplyingKeepsUnderlays, IncomingKeepsUnderlays, Zenon DEF Next, Ended

-----------------------------------------------------------------------------
(* One applyConstraints at a time *)

\* What other goroutines, and Close, do to an applyConstraints.
Moved(b) ==
    \/ pc'[b] = pc[b]
    \/ pc[b] = "none" /\ pc'[b] = "start"
    \/ pc[b] = "invalid" /\ pc'[b] = "exit" /\ closed'
    \/ pc[b] = "loopInvalid" /\ pc'[b] = "defer"

\* The removal of an underlay and NewChannel start an applyConstraints that was not there;
\* Close lets the one that called it go on.
LEMMA OthersMoveAppliers ==
    ASSUME LifecycleInv,
           \/ \E a \in Actor : Closing(a)
           \/ Creating
           \/ \E u \in Underlay : IncomingUnderlay(u)
           \/ \E w \in Worker : Stop(w) \/ ReplaceFallback(w)
    PROVE  /\ UNCHANGED <<config, applyVars>>
           /\ \A b \in Applier : Moved(b)
<1>1. UNCHANGED <<config, applyVars>>
  BY Zenon DEF Closing, CloseBegin, CloseEnd, CloseAgain, Creating, Bind, CloseFirst, AddFirst,
     StartConstraints, IncomingUnderlay, Stop, ReplaceFallback
<1>2. ASSUME NEW a \in Actor, Closing(a), NEW b \in Applier
      PROVE  Moved(b)
  <2>1. CASE CloseBegin(a)
    BY <2>1, Zenon DEF CloseBegin, Moved
  <2>2. CASE CloseEnd(a) \/ CloseAgain(a)
    <3>1. WantsClose(a) /\ Goto(a, AfterClose(a)) /\ closed'
      BY <2>2, NamedUnderlay, NoneAssumption, Zenon DEF CloseEnd, CloseAgain, ProgramInv, closeVars,
         LifecycleInv
    <3>2. pc'[a] = AfterClose(a) /\ \A c \in Actor : c # a => pc'[c] = pc[c]
      BY <3>1, AfterCloseEffect, GotoEffect, Zenon DEF TypeOK, LifecycleInv
    <3>3. a = b => pc[a] \in {"invalid", "loopInvalid"}
      BY <3>1, UnderlayNames, Zenon DEF WantsClose, ProgramInv, LifecycleInv
    <3>4. a = b => AfterClose(a) = IF pc[a] = "invalid" THEN "exit" ELSE "defer"
      BY <3>3, Zenon DEF AfterClose
    <3>5. QED
      BY <3>1, <3>2, <3>3, <3>4, Apart, Actors, Zenon DEF Moved
  <2>3. QED
    BY <1>2, <2>1, <2>2, Zenon DEF Closing
<1>3. ASSUME Creating, NEW b \in Applier
      PROVE  Moved(b)
  <2>1. b \in Actor /\ b # New
    BY Apart, Actors, Zenon
  <2>2. CASE Bind \/ CloseFirst
    BY <2>2, Apart, Actors, Zenon DEF Bind, CloseFirst, Goto, TypeOK, Moved, LifecycleInv
  <2>3. CASE AddFirst
    <3>1. b \notin Multiplex(First)
      BY MultiplexNames, ConfigAssumption, Zenon
    <3>2. QED
      BY <2>1, <2>3, <3>1, Zenon DEF AddFirst, GotoAndStart, Moved
  <2>4. CASE StartConstraints
    <3>1. pc[<<"apply", None>>] = "none"
      BY <2>4, Zenon DEF StartConstraints, UnderlayInv, LifecycleInv
    <3>2. QED
      BY <2>1, <2>4, <3>1, Zenon DEF StartConstraints, GotoAndStart, Moved
  <2>5. QED
    BY <1>3, <2>2, <2>3, <2>4, Zenon DEF Creating
<1>4. ASSUME NEW u \in Underlay, IncomingUnderlay(u), NEW b \in Applier
      PROVE  Moved(b)
  <2>1. b \in Actor /\ b # New /\ b \notin Multiplex(u)
    BY MultiplexNames, UnderlayNames, Apart, Actors, Zenon
  <2>2. QED
    BY <1>4, <2>1, NamedUnderlay, ApplierNames DEF IncomingUnderlay, AcceptUnderlay, Goto,
       GotoAndStart, Moved, TypeOK, LifecycleInv
<1>5. ASSUME NEW w \in Worker, Stop(w), NEW b \in Applier
      PROVE  Moved(b)
  <2>1. b \in Actor /\ b # w
    BY Apart, Actors, Zenon
  <2>2. w[2] \in entries => pc[<<"apply", w[2]>>] = "none"
    BY UnderlayNames, NamedUnderlay, Apart, Actors, NoneAssumption, ConfigAssumption, Zenon DEF
       UnderlayInv, LifecycleInv
  <2>3. \/ \E l : Goto(w, l)
        \/ w[2] \in entries /\ GotoAndStart(w, "fallback", {<<"apply", w[2]>>}, "start")
    BY <1>5, Zenon DEF Stop, Found
  <2>4. pc \in [Actor -> PC]
    BY Zenon DEF TypeOK, LifecycleInv
  <2>5. CASE \E l : Goto(w, l)
    BY <2>1, <2>4, <2>5, Zenon DEF Goto, Moved
  <2>6. CASE w[2] \in entries /\ GotoAndStart(w, "fallback", {<<"apply", w[2]>>}, "start")
    BY <2>1, <2>2, <2>6, Zenon DEF GotoAndStart, Moved
  <2>7. QED
    BY <2>3, <2>5, <2>6, Zenon
<1>6. ASSUME NEW w \in Worker, ReplaceFallback(w), NEW b \in Applier
      PROVE  Moved(b)
  BY <1>6, Apart DEF ReplaceFallback, Goto, Moved
<1>7. QED
  BY <1>1, <1>2, <1>3, <1>4, <1>5, <1>6, Zenon

\* What a step of one applyConstraints does to the others: nothing.
LEMMA AppliersKeepApart ==
    ASSUME LifecycleInv, NEW a \in Applier, ApplySteps(a) \/ DialFails(a) \/ DialSucceeds(a)
    PROVE  /\ config' = config
           /\ \A b \in Applier : b # a => /\ pc'[b] = pc[b]
                                          /\ todo'[b] = todo[b]
                                          /\ dialed'[b] = dialed[b]
<1>1. CASE AcceptDialed(a)
  <2>1. dialed[a] \in Underlay
    BY <1>1, Zenon DEF AcceptDialed, TypeOK, LifecycleInv
  <2>2. \A b \in Applier : b \in Actor /\ b \notin Multiplex(dialed[a])
    BY <2>1, MultiplexNames, Actors, Zenon
  <2>3. \A b \in Applier : b # a => pc'[b] = pc[b]
    BY <1>1, <2>2, NamedUnderlay, NoneAssumption, Zenon DEF AcceptDialed, AcceptUnderlay, Goto,
       GotoAndStart, TypeOK, LifecycleInv
  <2>4. QED
    BY <1>1, <2>3 DEF AcceptDialed
<1>2. CASE DialSucceeds(a)
  BY <1>2 DEF DialSucceeds, Goto, TypeOK
<1>3. CASE CheckConstraints(a) \/ TakeApply(a) \/ BeginRound(a) \/ DialFails(a)
               \/ ReleaseApply(a) \/ Recheck(a)
  <2>1. dialed' = dialed
    BY <1>3, Zenon DEF CheckConstraints, TakeApply, BeginRound, DialFails, ReleaseApply, Recheck,
       applyVars
  <2>2. config' = config /\ \A b \in Applier : b # a => pc'[b] = pc[b] /\ todo'[b] = todo[b]
    BY <1>3, ApplyStepEffect, ApplierNames, Actors DEF BaseInv, LifecycleInv
  <2>3. QED
    BY <2>1, <2>2, Zenon
<1>4. QED
  BY <1>1, <1>2, <1>3, Zenon DEF ApplySteps

\* applyInProgress lets one applyConstraints at a time in (impl.go:774-791).
LEMMA NextKeepsApply == LifecycleInv /\ [Next]_vars => ApplyInv'
<1> SUFFICES ASSUME LifecycleInv, [Next]_vars
             PROVE  ApplyInv'
  BY Zenon
<1>1. ASSUME applyInProgress' = applyInProgress, \A b \in Applier : Applying(b)' <=> Applying(b)
      PROVE  ApplyInv'
  BY <1>1, UnderlayNames, NamedUnderlay, Zenon DEF ApplyInv, LifecycleInv
<1>2. ASSUME UNCHANGED <<config, applyVars>>, \A b \in Applier : Moved(b)
      PROVE  ApplyInv'
  BY <1>1, <1>2, Zenon DEF Moved, Applying, applyVars
<1>3. ASSUME NEW a \in Applier, ApplySteps(a) \/ DialFails(a) \/ DialSucceeds(a)
      PROVE  ApplyInv'
  <2>1. \A b \in Applier : b # a => (Applying(b)' <=> Applying(b))
    BY <1>3, AppliersKeepApart, Zenon DEF Applying
  <2>2. CASE TakeApply(a)
    <3>1. CASE applyInProgress
      <4>1. applyInProgress' = applyInProgress /\ (Applying(a)' <=> Applying(a))
        BY <2>2, <3>1, Zenon DEF TakeApply, ApplyBusy, Goto, TypeOK, Applying, LifecycleInv
      <4>2. QED
        BY <1>1, <2>1, <4>1, Zenon
    <3>2. CASE ~applyInProgress
      <4>1. applyInProgress' /\ Applying(a)'
        BY <2>2, <3>2, Actors, Zenon DEF TakeApply, ApplyBusy, Goto, TypeOK, Applying, LifecycleInv
      <4>2. QED
        BY <2>1, <3>2, <4>1, Zenon DEF ApplyInv, LifecycleInv
    <3>3. QED
      BY <3>1, <3>2, Zenon
  <2>3. CASE ReleaseApply(a)
    <3>1. Applying(a) /\ ~Applying(a)' /\ ~applyInProgress'
      BY <2>3, Actors, Zenon DEF ReleaseApply, Goto, TypeOK, Applying, LifecycleInv
    <3>2. QED
      BY <2>1, <3>1, NamedUnderlay, Actors, Zenon DEF ApplyInv, LifecycleInv
  <2>4. CASE CheckConstraints(a) \/ Recheck(a)
    <3>1. applyInProgress' = applyInProgress /\ (Applying(a)' <=> Applying(a))
      BY <2>4 DEF CheckConstraints, AfterStart, Recheck, Goto, TypeOK, Applying, applyVars,
         LifecycleInv
    <3>2. QED
      BY <1>1, <2>1, <3>1, Zenon
  <2>5. CASE BeginRound(a) \/ DialFails(a) \/ DialSucceeds(a)
    <3>1. applyInProgress' = applyInProgress /\ Applying(a)
      BY <2>5, Zenon DEF BeginRound, DialFails, DialSucceeds, Applying
    <3>2. Applying(a)'
      BY <2>5 DEF BeginRound, DialFails, DialSucceeds, Goto, TypeOK, Applying, LifecycleInv
    <3>3. QED
      BY <1>1, <2>1, <3>1, <3>2, Zenon
  <2>6. CASE AcceptDialed(a)
    <3>1. applyInProgress' = applyInProgress /\ Applying(a)
      BY <2>6, Zenon DEF AcceptDialed, Applying
    <3>2. Applying(a)'
      BY <2>6, Actors, Zenon DEF AcceptDialed, AcceptUnderlay, DialNext, Goto, GotoAndStart, TypeOK,
         Applying, LifecycleInv
    <3>3. QED
      BY <1>1, <2>1, <3>1, <3>2, Zenon
  <2>7. QED
    BY <1>3, <2>2, <2>3, <2>4, <2>5, <2>6, Zenon DEF ApplySteps
<1>4. CASE UNCHANGED vars
  BY <1>1, <1>4, Zenon DEF vars, applyVars, Applying
<1>5. QED
  BY <1>2, <1>3, <1>4, OthersMoveAppliers, Zenon DEF Next, Ended

-----------------------------------------------------------------------------
(* The invariant *)

\* A channel that NewChannel begins to make.
LEMMA InitLifecycle == Init => LifecycleInv
<1> SUFFICES ASSUME Init PROVE LifecycleInv
  BY Zenon
<1>1. /\ pc[New] = "bind"
      /\ pc[User] \in {"none", "userMayClose"}
      /\ \A a \in Worker \cup Applier : a \in Actor /\ pc[a] = "none"
  BY UnderlayNames, Apart, Actors, Zenon DEF Init
<1>2. pc \in [Actor -> PC]
  BY UnderlayNames, Zenon DEF PC, Init
<1>3. TypeOK
  <2>1. typ \in [Underlay -> Type] /\ conn \in [Underlay -> {"idle", "open", "closed"}]
    BY Zenon DEF Init
  <2>2. announced \in [Underlay -> 0..2]
    BY UnderlayNames DEF Init
  <2>3. todo \in [Applier -> SUBSET Constrained] /\ dialed \in [Applier -> Underlay \cup {None}]
    BY Apart, Zenon DEF Init
  <2>4. \A a \in Applier : pc[a] # "dial" /\ pc[a] # "accept"
    BY <1>1, Zenon
  <2>5. closed \in BOOLEAN /\ applyInProgress \in BOOLEAN
    BY Zenon, UnderlayNames DEF Init
  <2>6. lock \in Actor \cup {None} /\ entries \in SUBSET Underlay /\ notified \in SUBSET Underlay
           /\ fallback \in Underlay /\ config \in Configs
    BY ConfigAssumption, Zenon DEF Init
  <2>7. QED
    BY <1>2, <2>1, <2>2, <2>3, <2>4, <2>5, <2>6, Zenon DEF TypeOK
<1>4. IsFiniteSet(entries)
  BY FS_EmptySet, ApplierNames, Zenon DEF Init
<1>5. ProgramInv
  BY <1>1, Apart, Zenon DEF ProgramInv, Init
<1>6. UnderlayInv
  <2>1. conn[First] = "open" /\ entries = {} /\ \A a \in Applier : dialed[a] = None
    BY ConfigAssumption, Zenon DEF Init
  <2>2. \A u \in Underlay : announced[u] = 0 /\ announced[u] <= 1
    BY DEF Init
  <2>3. /\ pc[<<"apply", None>>] = "none"
        /\ \A u \in Underlay :
              pc[<<"rx", u>>] = "none" /\ pc[<<"tx", u>>] = "none" /\ pc[<<"apply", u>>] = "none"
    BY <1>1, UnderlayNames, ApplierNames, Zenon
  <2>4. QED
    BY <1>1, <2>1, <2>2, <2>3, Zenon DEF UnderlayInv
<1>7. ApplyInv
  BY <1>1, Zenon DEF ApplyInv, Applying, Init
<1>8. QED
  BY <1>3, <1>4, <1>5, <1>6, <1>7, Zenon DEF LifecycleInv

\* A step of any goroutine.
LEMMA NextLifecycle == LifecycleInv /\ [Next]_vars => LifecycleInv'
  BY NextKeepsBase, NextKeepsUnderlays, NextKeepsApply, Zenon DEF LifecycleInv, BaseInv

\* The channel's goroutines keep to their places, underlays come and go once, and one
\* applyConstraints at a time applies, in every reachable state.
THEOREM LifecycleInvariant == Spec => []LifecycleInv
  BY InitLifecycle, NextLifecycle, PTL DEF Spec

\* Type correctness: among others, no goroutine of a channel is ever at a place of another's,
\* a dial is only made for a type the round found short, and an underlay is only accepted
\* after a dial has returned one (impl.go:73-835).
THEOREM TypeCorrect == Spec => []TypeOK
  BY LifecycleInvariant, PTL DEF LifecycleInv

\* The rxer and the txer of an underlay both run closeUnderlay (impl.go:632-652), and its
\* removal is announced to the dial policy and applyConstraints once.
THEOREM RemovalsAnnouncedOnce == Spec => []RemovalAnnouncedOnce
<1>1. LifecycleInv => RemovalAnnouncedOnce
  BY Zenon DEF LifecycleInv, UnderlayInv, RemovalAnnouncedOnce
<1>2. QED
  BY <1>1, LifecycleInvariant, PTL

\* applyInProgress (impl.go:774-791): two applyConstraints are never both in the loop that
\* dials, whichever of them close the channel or start again.
OneApplies == \A a, b \in Applier : Applying(a) /\ Applying(b) => a = b

THEOREM OneAppliesAtATime == Spec => []OneApplies
<1>1. LifecycleInv => OneApplies
  BY Zenon DEF LifecycleInv, ApplyInv, OneApplies
<1>2. QED
  BY <1>1, LifecycleInvariant, PTL

-----------------------------------------------------------------------------
(* Counting the underlays of a type *)

\* A count is a number.
LEMMA CountType ==
    ASSUME IsFiniteSet(entries), NEW t
    PROVE  CountsByType(t) \in Nat /\ IsFiniteSet({u \in entries : typ[u] = t})
<1>1. IsFiniteSet({u \in entries : typ[u] = t})
  BY FS_Subset, Zenon
<1>2. QED
  BY <1>1, FS_CardinalityType, Zenon DEF CountsByType

\* The loss of entries raises no count.
LEMMA CountShrinks ==
    ASSUME IsFiniteSet(entries), entries' \subseteq entries, \A u \in entries' : typ'[u] = typ[u], NEW t
    PROVE  CountsByType(t)' \in Nat /\ CountsByType(t)' <= CountsByType(t)
<1>1. {u \in entries' : typ'[u] = t} \subseteq {u \in entries : typ[u] = t}
  BY Zenon
<1>2. IsFiniteSet({u \in entries : typ[u] = t})
  BY CountType, Zenon
<1>3. QED
  BY FS_Subset, FS_CardinalityType, Zenon DEF CountsByType

\* A new entry raises the count of its type by one.
LEMMA CountGrows ==
    ASSUME IsFiniteSet(entries), NEW u, u \notin entries, entries' = entries \cup {u},
           \A v \in entries : typ'[v] = typ[v], NEW t
    PROVE  CountsByType(t)' = IF typ'[u] = t THEN CountsByType(t) + 1 ELSE CountsByType(t)
<1> DEFINE S == {v \in entries : typ[v] = t}
           T == {v \in entries' : typ'[v] = t}
<1>1. IsFiniteSet(S) /\ Cardinality(S) \in Nat
  BY CountType, Zenon DEF CountsByType
<1>2. u \notin S
  BY Zenon
<1>4. Cardinality(S \cup {u}) = Cardinality(S) + 1
  BY <1>1, <1>2, FS_AddElement, Zenon
<1>5. CASE typ'[u] = t
  <2>1. T = S \cup {u}
    BY <1>5, Zenon
  <2>2. QED
    BY <1>4, <1>5, Zenon DEF CountsByType
<1>6. CASE typ'[u] # t
  <2>1. T = S
    BY <1>6, Zenon
  <2>2. QED
    BY <2>1, Zenon DEF CountsByType
<1>7. QED
  BY <1>5, <1>6, Zenon

-----------------------------------------------------------------------------
(* No shortage is forgotten *)

\* Close is for ever.
LEMMA ClosedStays == ASSUME LifecycleInv, Next PROVE closed => closed'
  BY Zenon DEF Next, Closing, CloseBegin, CloseEnd, CloseAgain, Creating, Bind, CloseFirst,
     AddFirst, StartConstraints, IncomingUnderlay, Stop, ReplaceFallback, ApplySteps, CheckConstraints,
     TakeApply, BeginRound, AcceptDialed, ReleaseApply, Recheck, DialFails, DialSucceeds, Ended, vars,
     closeVars

\* A listener's underlay makes no type short.
LEMMA IncomingShortensNothing ==
    ASSUME LifecycleInv, NEW u \in Underlay, IncomingUnderlay(u), areConstraintDesiresSatisfied
    PROVE  areConstraintDesiresSatisfied'
<1>1. u \notin entries
  BY Zenon DEF IncomingUnderlay, UnderlayInv, Fresh, LifecycleInv
<1>2. /\ config' = config
      /\ \A v \in entries : typ'[v] = typ[v]
      /\ entries' = entries \/ entries' = entries \cup {u}
  BY <1>1 DEF IncomingUnderlay, AcceptUnderlay, TypeOK
<1>3. ASSUME NEW t \in Constrained
      PROVE  ~(Desired[t] > CountsByType(t)')
  <2>1. ~(Desired[t] > CountsByType(t)) /\ Desired[t] \in Nat /\ CountsByType(t) \in Nat
    BY ConfigFacts, CountType, Zenon DEF areConstraintDesiresSatisfied, DesiresMore, TypeOK,
       LifecycleInv
  <2>2. CountsByType(t)' = CountsByType(t) \/ CountsByType(t)' = CountsByType(t) + 1
    <3>1. CASE entries' = entries
      <4>1. {v \in entries' : typ'[v] = t} = {v \in entries : typ[v] = t}
        BY <1>2, <3>1, Zenon
      <4>2. QED
        BY <4>1, Zenon DEF CountsByType
    <3>2. CASE entries' = entries \cup {u}
      BY <1>1, <1>2, <3>2, CountGrows, Zenon DEF LifecycleInv
    <3>3. QED
      BY <1>2, <3>1, <3>2, Zenon DEF LifecycleInv
  <2>3. QED
    BY <2>1, <2>2
<1>4. QED
  BY <1>2, <1>3, Zenon DEF areConstraintDesiresSatisfied, DesiresMore, Constrained, Desired

\* A step that leaves the entries alone leaves the counts alone.
LEMMA SameEntriesSameDesires ==
    ASSUME UNCHANGED <<config, entries, typ>>
    PROVE  /\ areConstraintDesiresSatisfied' <=> areConstraintDesiresSatisfied
           /\ HasDialPolicy' = HasDialPolicy
  BY Zenon DEF areConstraintDesiresSatisfied, DesiresMore, Constrained, Desired, CountsByType,
     HasDialPolicy

Running(a) == pc[a] \notin {"none", "exit"}

\* The end of an applyConstraints: only when it is not needed.
LEMMA AppliersKeepShortage ==
    ASSUME LifecycleInv, NEW a \in Applier, ApplySteps(a) \/ DialFails(a) \/ DialSucceeds(a)
    PROVE  NoLostShortage'
<1> SUFFICES ASSUME HasDialPolicy', ~closed', ~areConstraintDesiresSatisfied'
             PROVE  \E b \in Applier : Running(b)'
  BY Zenon DEF NoLostShortage, Running
<1>1. CASE CheckConstraints(a)
  <2>1. UNCHANGED <<config, entries, typ>> /\ closed' = closed
    BY <1>1, Zenon DEF CheckConstraints, underlayVars, closeVars
  <2>2. ~NothingToApply
    BY <2>1, SameEntriesSameDesires, Zenon DEF NothingToApply, areConstraintDesiresSatisfied,
       DesiresMore
  <2>3. pc'[a] \in {"cas", "invalid"}
    BY <1>1, <2>1, <2>2, Actors, Zenon DEF CheckConstraints, AfterStart, Goto, TypeOK, LifecycleInv
  <2>4. QED
    BY <2>3, Zenon DEF Running
<1>2. CASE TakeApply(a)
  <2>1. CASE applyInProgress
    <3>1. PICK b \in Applier : Applying(b)
      BY <2>1, Zenon DEF ApplyInv, LifecycleInv
    <3>2. b # a
      BY <1>2, <3>1, Zenon DEF TakeApply, Applying
    <3>3. pc'[b] = pc[b]
      BY <3>2, AppliersKeepApart, Zenon
    <3>4. QED
      BY <3>1, <3>3, Zenon DEF Applying, Running
  <2>2. CASE ~applyInProgress
    <3>1. pc'[a] \in {"loop", "defer"}
      BY <1>2, <2>2, Actors, Zenon DEF TakeApply, ApplyBusy, Goto, TypeOK, LifecycleInv
    <3>2. QED
      BY <3>1, Zenon DEF Running
  <2>3. QED
    BY <2>1, <2>2, Zenon
<1>3. CASE BeginRound(a) \/ DialFails(a) \/ DialSucceeds(a)
  <2>1. pc'[a] \in {"loopInvalid", "defer", "dial", "loop", "accept"}
    BY <1>3, UnderlayNames DEF BeginRound, DialFails, DialSucceeds, Goto, TypeOK, LifecycleInv
  <2>2. QED
    BY <2>1, Zenon DEF Running
<1>4. CASE AcceptDialed(a)
  <2>1. pc'[a] \in {"dial", "loop"}
    BY <1>4, Actors, Zenon DEF AcceptDialed, AcceptUnderlay, DialNext, Goto, GotoAndStart, TypeOK,
       LifecycleInv
  <2>2. QED
    BY <2>1, Zenon DEF Running
<1>5. CASE ReleaseApply(a)
  BY <1>5 DEF ReleaseApply, Goto, TypeOK, Running
<1>6. CASE Recheck(a)
  <2>1. UNCHANGED <<config, entries, typ>> /\ closed' = closed
    BY <1>6, Zenon DEF Recheck, underlayVars, closeVars
  <2>2. MustReapply
    BY <2>1, SameEntriesSameDesires, Zenon DEF MustReapply
  <2>3. pc'[a] = "start"
    BY <1>6, <2>2, Actors, Zenon DEF Recheck, Goto, TypeOK, LifecycleInv
  <2>4. QED
    BY <2>3, Zenon DEF Running
<1>7. QED
  BY <1>1, <1>2, <1>3, <1>4, <1>5, <1>6, Zenon DEF ApplySteps

\* The other steps: what makes a type short starts an applyConstraints.
LEMMA OthersKeepShortage ==
    ASSUME LifecycleInv, NoLostShortage, Next,
           \/ \E a \in Actor : Closing(a)
           \/ Creating
           \/ \E u \in Underlay : IncomingUnderlay(u)
           \/ \E w \in Worker : Stop(w) \/ ReplaceFallback(w)
    PROVE  NoLostShortage'
<1> SUFFICES ASSUME pc'[New] = "done", HasDialPolicy', ~closed', ~areConstraintDesiresSatisfied'
             PROVE  \E b \in Applier : Running(b)'
  BY Zenon DEF NoLostShortage, Running
<1>1. ~closed
  BY ClosedStays, Zenon
<1>2. config' = config /\ \A b \in Applier : Moved(b)
  BY OthersMoveAppliers, Zenon
<1>3. ASSUME NEW b \in Applier, Running(b)
      PROVE  Running(b)'
  BY <1>2, <1>3, Zenon DEF Moved, Running
<1>4. ASSUME pc[New] = "done", ~areConstraintDesiresSatisfied
      PROVE  \E b \in Applier : Running(b)'
  <2>1. HasDialPolicy
    BY <1>2, Zenon DEF HasDialPolicy
  <2>2. PICK b \in Applier : Running(b)
    BY <1>1, <1>4, <2>1, Zenon DEF NoLostShortage, Running
  <2>3. QED
    BY <1>3, <2>2, Zenon
<1>5. ASSUME NEW a \in Actor, Closing(a)
      PROVE  \E b \in Applier : Running(b)'
  <2>1. UNCHANGED <<config, entries, typ>>
    BY <1>5, Zenon DEF Closing, CloseBegin, CloseEnd, CloseAgain, underlayVars
  <2>2. pc[New] = "done"
    <3>1. CASE CloseBegin(a)
      BY <3>1, Zenon DEF CloseBegin
    <3>2. CASE CloseEnd(a) \/ CloseAgain(a)
      <4>1. WantsClose(a) /\ Goto(a, AfterClose(a))
        BY <3>2, NoneAssumption, Apart, Actors, Zenon DEF CloseEnd, CloseAgain, ProgramInv,
           LifecycleInv
      <4>2. AfterClose(a) \in PC /\ (a = New => AfterClose(a) = "closeFirst")
        BY <4>1, AfterCloseEffect, Zenon DEF LifecycleInv
      <4>3. QED
        BY <4>1, <4>2, GotoEffect, NamedUnderlay, ApplierNames, Actors, Zenon DEF TypeOK,
           LifecycleInv
    <3>3. QED
      BY <1>5, <3>1, <3>2, Zenon DEF Closing
  <2>3. QED
    BY <1>4, <2>1, <2>2, SameEntriesSameDesires, Zenon
<1>6. ASSUME Creating
      PROVE  \E b \in Applier : Running(b)'
  <2>1. StartConstraints
    BY <1>6, Actors, Zenon DEF Creating, Bind, CloseFirst, AddFirst, Goto, GotoAndStart, TypeOK,
       LifecycleInv
  <2>2. pc'[<<"apply", None>>] = "start"
    BY <2>1, ApplierNames, Apart, Actors, Zenon DEF StartConstraints, GotoAndStart, LifecycleInv
  <2>3. QED
    BY <2>2, ApplierNames, Zenon DEF Running, LifecycleInv
<1>7. ASSUME NEW u \in Underlay, IncomingUnderlay(u)
      PROVE  \E b \in Applier : Running(b)'
  BY <1>4, <1>7, IncomingShortensNothing, Zenon DEF IncomingUnderlay
<1>8. ASSUME NEW w \in Worker, Stop(w)
      PROVE  \E b \in Applier : Running(b)'
  <2>1. isMultiUnderlayCapable
    BY <1>2, Zenon DEF isMultiUnderlayCapable, HasDialPolicy
  <2>2. CASE Found(w[2])
    <3>1. <<"apply", w[2]>> \in Applier /\ <<"apply", w[2]>> # w
      BY UnderlayNames, NamedUnderlay, Apart, Zenon
    <3>2. pc'[<<"apply", w[2]>>] = "start"
      BY <1>8, <2>1, <2>2, <3>1, ApplierNames, Actors, SMTT(30) DEF Stop, GotoAndStart
    <3>3. QED
      BY <3>1, <3>2, Zenon DEF Running
  <2>3. CASE ~Found(w[2])
    <3>1. UNCHANGED <<config, entries, typ>>
      BY <1>8, <2>3, Zenon DEF Stop, Found
    <3>2. pc[New] = "done"
      BY <1>8, <2>3, Actors, Zenon DEF Stop, Goto, TypeOK, LifecycleInv
    <3>3. QED
      BY <1>4, <3>1, <3>2, SameEntriesSameDesires, Zenon
  <2>4. QED
    BY <2>2, <2>3, Zenon
<1>9. ASSUME NEW w \in Worker, ReplaceFallback(w)
      PROVE  \E b \in Applier : Running(b)'
  <2>1. UNCHANGED <<config, entries, typ>> /\ pc[New] = "done"
    BY <1>9 DEF ReplaceFallback, Goto, TypeOK
  <2>2. QED
    BY <1>4, <2>1, SameEntriesSameDesires, Zenon
<1>10. QED
  BY <1>5, <1>6, <1>7, <1>8, <1>9, Zenon

\* impl.go:753-835.  While an open channel with a dial policy has fewer underlays than its
\* constraints desire, some applyConstraints is running or about to run: the one that finds
\* applyInProgress set leaves the work to the one that set it, which looks again when it is
\* done.
THEOREM ShortageNeverLost == Spec => []NoLostShortage
<1>1. Init => NoLostShortage
  BY Actors, Zenon DEF Init, NoLostShortage
<1>2. LifecycleInv /\ NoLostShortage /\ [Next]_vars => NoLostShortage'
  <2> SUFFICES ASSUME LifecycleInv, NoLostShortage, [Next]_vars
               PROVE  NoLostShortage'
    BY Zenon
  <2>1. CASE UNCHANGED vars
    <3>1. UNCHANGED <<config, entries, typ>> /\ UNCHANGED <<pc, closed>>
      BY <2>1, Zenon DEF vars, underlayVars, closeVars
    <3>2. QED
      BY <3>1, SameEntriesSameDesires, Zenon DEF NoLostShortage
  <2>2. QED
    BY <2>1, AppliersKeepShortage, OthersKeepShortage, Zenon DEF Next, Ended
<1>3. QED
  BY <1>1, <1>2, LifecycleInvariant, PTL DEF Spec

-----------------------------------------------------------------------------
(* Not more than desired *)

\* What a step preserves that adds no underlay, and after which no more is still to be dialed.
LEMMA ShrinkingKeepsDesired ==
    ASSUME LifecycleInv, DesiredInv, config' = config, typ' = typ, entries' \subseteq entries,
           \A b \in Applier :
               /\ pc'[b] \in {"dial", "accept"} => pc[b] \in {"dial", "accept"} /\ todo'[b] \subseteq todo[b]
               /\ pc'[b] = "accept" => pc[b] = "accept" /\ dialed'[b] = dialed[b]
    PROVE  DesiredInv'
<1> SUFFICES ASSUME ~config.Incoming
             PROVE  /\ \A t \in Constrained : Bounded(t)'
                    /\ \A t \in Constrained, a \in Applier : ToAdd(a, t)' => CountsByType(t)' < Desired[t]
                    /\ \A a \in Applier : pc'[a] = "accept" => typ'[dialed'[a]] \in Constrained \ todo'[a]
  BY Zenon DEF DesiredInv, Constrained, Desired
<1>1. ASSUME NEW t \in Constrained
      PROVE  /\ CountsByType(t)' \in Nat /\ CountsByType(t) \in Nat /\ Desired[t] \in Nat
             /\ CountsByType(t)' <= CountsByType(t)
  <2>1. IsFiniteSet(entries) /\ config \in Configs
    BY Zenon DEF LifecycleInv, TypeOK
  <2>2. QED
    BY <2>1, CountShrinks, CountType, ConfigFacts, Zenon
<1>2. ASSUME NEW t \in Constrained
      PROVE  Bounded(t)'
  <2>1. Bounded(t)
    BY Zenon DEF DesiredInv
  <2>2. QED
    BY <1>1, <2>1 DEF Bounded, Desired
<1>3. ASSUME NEW t \in Constrained, NEW a \in Applier, ToAdd(a, t)'
      PROVE  CountsByType(t)' < Desired[t]
  <2>1. ToAdd(a, t)
    BY <1>3, Zenon DEF ToAdd
  <2>2. QED
    BY <1>1, <2>1 DEF DesiredInv
<1>4. ASSUME NEW a \in Applier, pc'[a] = "accept"
      PROVE  typ'[dialed'[a]] \in Constrained \ todo'[a]
  BY <1>4, Zenon DEF DesiredInv
<1>5. QED
  BY <1>2, <1>3, <1>4, Zenon

\* Steps of goroutines other than the applyConstraints.
LEMMA OthersKeepDesired ==
    ASSUME LifecycleInv, DesiredInv,
           \/ \E a \in Actor : Closing(a)
           \/ Creating
           \/ \E u \in Underlay : IncomingUnderlay(u)
           \/ \E w \in Worker : Stop(w) \/ ReplaceFallback(w)
    PROVE  DesiredInv'
<1>1. UNCHANGED <<config, applyVars>> /\ \A b \in Applier : Moved(b)
  BY OthersMoveAppliers, Zenon
<1>2. ASSUME typ' = typ, entries' \subseteq entries
      PROVE  DesiredInv'
  BY <1>1, <1>2, ShrinkingKeepsDesired, Zenon DEF Moved, applyVars
<1>3. CASE \E a \in Actor : Closing(a)
  BY <1>2, <1>3, Zenon DEF Closing, CloseBegin, CloseEnd, CloseAgain, underlayVars
<1>4. CASE Creating
  <2>1. CASE Bind \/ CloseFirst \/ StartConstraints
    BY <1>2, <2>1, Zenon DEF Bind, CloseFirst, StartConstraints, underlayVars
  <2>2. CASE AddFirst
    <3>1. Unmade /\ entries = {} /\ \A a \in Applier : pc[a] = "none"
      <4>1. Unmade /\ entries = {} /\ pc[New] # "done"
        BY <2>2, Zenon DEF AddFirst, Unmade, LifecycleInv, UnderlayInv
      <4>2. pc[<<"apply", None>>] = "none" /\ \A u \in Underlay : pc[<<"apply", u>>] = "none"
        BY <4>1, Zenon DEF LifecycleInv, UnderlayInv
      <4>3. ASSUME NEW a \in Applier PROVE pc[a] = "none"
        <5>1. a[2] \in Underlay \cup {None} /\ a = <<"apply", a[2]>>
          BY ApplierNames, Zenon
        <5>2. QED
          BY <4>2, <5>1, Zenon
      <4>4. QED
        BY <4>1, <4>3, Zenon
    <3>2. \A a \in Applier : pc'[a] \in {"none", "start"}
      BY <1>1, <3>1, Zenon DEF Moved
    <3>3. typ' = typ /\ entries' = {First} /\ config' = config
      BY <2>2, <3>1, Zenon DEF AddFirst
    <3>4. ASSUME NEW t \in Constrained
          PROVE  Bounded(t)'
      <4>1. Desired[t] \in Nat
        BY ConfigFacts, Zenon DEF LifecycleInv, TypeOK
      <4>2. CASE typ[First] = t
        <5>1. {u \in entries' : typ'[u] = t} = {First}
          BY <3>3, <4>2, Zenon
        <5>2. CountsByType(t)' = 1
          BY <5>1, FS_Singleton, Zenon DEF CountsByType
        <5>3. QED
          BY <3>3, <4>1, <4>2, <5>2 DEF Bounded, Desired
      <4>3. CASE typ[First] # t
        <5>1. {u \in entries' : typ'[u] = t} = {}
          BY <3>3, <4>3, Zenon
        <5>2. CountsByType(t)' = 0
          BY <5>1, FS_EmptySet, Zenon DEF CountsByType
        <5>3. QED
          BY <3>3, <4>1, <5>2 DEF Bounded, Desired
      <4>4. QED
        BY <4>2, <4>3, Zenon
    <3>5. QED
      BY <3>2, <3>3, <3>4, Zenon DEF DesiredInv, ToAdd, Constrained
  <2>3. QED
    BY <1>4, <2>1, <2>2, Zenon DEF Creating
<1>5. CASE \E u \in Underlay : IncomingUnderlay(u)
  BY <1>1, <1>5, Zenon DEF IncomingUnderlay, DesiredInv
<1>6. CASE \E w \in Worker : Stop(w) \/ ReplaceFallback(w)
  BY <1>2, <1>6, Zenon DEF Stop, ReplaceFallback
<1>7. QED
  BY <1>3, <1>4, <1>5, <1>6, Zenon

\* Steps of an applyConstraints.  It adds an underlay only of a type that was short when it
\* last counted, and nobody else has added one since.
LEMMA AppliersKeepDesired ==
    ASSUME LifecycleInv, DesiredInv, NEW a \in Applier,
           ApplySteps(a) \/ DialFails(a) \/ DialSucceeds(a)
    PROVE  DesiredInv'
<1>1. /\ config' = config
      /\ \A b \in Applier : b # a => pc'[b] = pc[b] /\ todo'[b] = todo[b] /\ dialed'[b] = dialed[b]
  BY AppliersKeepApart, Zenon
<1>2. \A b \in Applier : Applying(a) /\ b # a => pc[b] \notin {"dial", "accept"}
  BY Zenon DEF LifecycleInv, ApplyInv, Applying
<1>3. /\ IsFiniteSet(entries) /\ config \in Configs /\ pc \in [Actor -> PC] /\ a \in Actor
      /\ typ \in [Underlay -> Type] /\ todo \in [Applier -> SUBSET Constrained]
      /\ dialed \in [Applier -> Underlay \cup {None}]
  BY Actors, Zenon DEF LifecycleInv, TypeOK
<1>4. \A t \in Constrained : CountsByType(t) \in Nat /\ Desired[t] \in Nat
  BY <1>3, CountType, ConfigFacts, Zenon
<1>5. CASE CheckConstraints(a) \/ TakeApply(a) \/ ReleaseApply(a) \/ Recheck(a)
  <2>1. typ' = typ /\ entries' = entries /\ todo' = todo /\ dialed' = dialed
    BY <1>5, Zenon DEF CheckConstraints, TakeApply, ReleaseApply, Recheck, underlayVars, applyVars
  <2>2. pc'[a] \notin {"dial", "accept"}
    BY <1>3, <1>5, Zenon DEF CheckConstraints, AfterStart, TakeApply, ReleaseApply, Recheck, Goto
  <2>3. QED
    BY <1>1, <2>1, <2>2, ShrinkingKeepsDesired, Zenon
<1>6. CASE DialFails(a)
  <2>1. typ' = typ /\ entries' = entries /\ pc[a] = "dial"
    BY <1>6, Zenon DEF DialFails, underlayVars
  <2>2. pc'[a] \in {"dial", "loop"} /\ todo'[a] \subseteq todo[a]
    BY <1>3, <1>6, Zenon DEF DialFails, Goto
  <2>3. QED
    BY <1>1, <2>1, <2>2, ShrinkingKeepsDesired, Zenon
<1>7. CASE BeginRound(a)
  <2>1. typ' = typ /\ entries' = entries /\ Applying(a)
    BY <1>7, Zenon DEF BeginRound, underlayVars, Applying
  <2>2. pc'[a] \in {"defer", "loopInvalid", "dial"} /\ todo'[a] \subseteq DesiresMore
    BY <1>3, <1>7, Zenon DEF BeginRound, Goto
  <2>3. \A t \in Constrained : CountsByType(t)' = CountsByType(t)
    BY <2>1, Zenon DEF CountsByType
  <2>4. \A b \in Applier : pc'[b] # "accept"
    BY <1>1, <1>2, <2>1, <2>2, Zenon
  <2>5. ASSUME NEW t \in Constrained, NEW b \in Applier, ToAdd(b, t)'
        PROVE  CountsByType(t)' < Desired[t]
    <3>1. b = a
      BY <1>1, <1>2, <2>1, <2>5, Zenon DEF ToAdd
    <3>2. t \in DesiresMore
      BY <2>2, <2>4, <2>5, <3>1, Zenon DEF ToAdd
    <3>3. QED
      BY <2>3, <3>2, Zenon DEF DesiresMore
  <2>6. ASSUME ~config.Incoming, NEW t \in Constrained
        PROVE  Bounded(t)'
    BY <1>1, <2>1, <2>3, <2>6, Zenon DEF DesiredInv, Bounded, Desired
  <2>7. QED
    BY <1>1, <2>4, <2>5, <2>6, Zenon DEF DesiredInv, Constrained, Desired
<1>8. CASE DialSucceeds(a)
  <2>1. PICK t0 \in todo[a], u \in config.Supply :
            /\ conn[u] = "idle"
            /\ typ' = [typ EXCEPT ![u] = t0]
            /\ todo' = [todo EXCEPT ![a] = @ \ {t0}]
            /\ dialed' = [dialed EXCEPT ![a] = u]
    BY <1>8, Zenon DEF DialSucceeds
  <2>2. pc[a] = "dial" /\ pc'[a] = "accept" /\ entries' = entries /\ Applying(a)
    BY <1>3, <1>8, Zenon DEF DialSucceeds, Goto, Applying
  <2>3. u \in Underlay /\ u # First /\ First \in Underlay
    BY <1>3, ConfigAssumption, Zenon
  <2>4. u \notin entries
    BY <2>1, <2>3, Zenon DEF LifecycleInv, UnderlayInv, Fresh
  <2>5. /\ \A v \in Underlay : v # u => typ'[v] = typ[v]
        /\ typ'[dialed'[a]] = t0 /\ t0 \in Constrained /\ t0 \in todo[a] /\ t0 \notin todo'[a]
        /\ todo'[a] \subseteq todo[a]
    BY <1>3, <2>1, <2>3, Zenon
  <2>6. ASSUME NEW t \in Constrained
        PROVE  CountsByType(t)' = CountsByType(t)
    <3>1. \A v \in entries : typ'[v] = typ[v]
      BY <2>4, <2>5, Zenon DEF LifecycleInv, TypeOK
    <3>2. {v \in entries' : typ'[v] = t} = {v \in entries : typ[v] = t}
      BY <2>2, <3>1, Zenon
    <3>3. QED
      BY <3>2, Zenon DEF CountsByType
  <2>7. ASSUME ~config.Incoming, NEW t \in Constrained
        PROVE  Bounded(t)'
    <3>1. typ'[First] = typ[First]
      BY <2>3, <2>5, Zenon
    <3>2. QED
      BY <1>1, <2>6, <2>7, <3>1, Zenon DEF DesiredInv, Bounded, Desired
  <2>8. ASSUME ~config.Incoming, NEW t \in Constrained, NEW b \in Applier, ToAdd(b, t)'
        PROVE  CountsByType(t)' < Desired[t]
    <3>1. b = a
      BY <1>1, <1>2, <2>2, <2>8, Zenon DEF ToAdd
    <3>2. t \in todo[a]
      BY <2>5, <2>8, <3>1, Zenon DEF ToAdd
    <3>3. ToAdd(a, t)
      BY <2>2, <3>2, Zenon DEF ToAdd
    <3>4. QED
      BY <2>6, <2>8, <3>3, Zenon DEF DesiredInv
  <2>9. ASSUME NEW b \in Applier, pc'[b] = "accept"
        PROVE  typ'[dialed'[b]] \in Constrained \ todo'[b]
    <3>1. b = a
      BY <1>1, <1>2, <2>2, <2>9, Zenon
    <3>2. QED
      BY <2>5, <3>1, Zenon
  <2>10. QED
    BY <1>1, <2>7, <2>8, <2>9, Zenon DEF DesiredInv, Constrained, Desired
<1>9. CASE AcceptDialed(a)
  <2>1. pc[a] = "accept" /\ typ' = typ /\ todo' = todo /\ Applying(a)
    BY <1>9, Zenon DEF AcceptDialed, Applying
  <2>2. pc'[a] \in {"dial", "loop"}
    BY <1>3, <1>9, Zenon DEF AcceptDialed, AcceptUnderlay, DialNext, Goto, GotoAndStart
  <2>3. CASE entries' = entries
    BY <1>1, <2>1, <2>2, <2>3, ShrinkingKeepsDesired, Zenon
  <2>4. CASE entries' = entries \cup {dialed[a]}
    <3>1. dialed[a] \in Underlay /\ dialed[a] \notin entries
      BY <1>3, <2>1, UnderlayNames, NamedUnderlay, ApplierNames, Apart, Actors, ZenonT(40) DEF LifecycleInv,
         TypeOK, UnderlayInv, Fresh
    <3>2. PICK u : u = dialed[a]
      BY Zenon
    <3>3. \A t \in Constrained :
              CountsByType(t)' = IF typ[u] = t THEN CountsByType(t) + 1 ELSE CountsByType(t)
      BY <1>3, <2>1, <2>4, <3>1, <3>2, CountGrows
    <3>4. ASSUME ~config.Incoming
          PROVE  /\ typ[u] \in Constrained \ todo[a]
                 /\ \A t \in Constrained : typ[u] = t => CountsByType(t) < Desired[t]
      BY <2>1, <3>2, <3>4, Zenon DEF DesiredInv, ToAdd
    <3>5. ASSUME ~config.Incoming, NEW t \in Constrained
          PROVE  Bounded(t)'
      <4>1. Bounded(t)
        BY <3>5, Zenon DEF DesiredInv
      <4>2. CASE typ[u] = t
        <5>1. CountsByType(t) < Desired[t] /\ CountsByType(t)' = CountsByType(t) + 1
          BY <3>3, <3>4, <3>5, <4>2, Zenon
        <5>2. Desired'[t] = Desired[t] /\ typ'[First] = typ[First]
          BY <1>1, <2>1, Zenon DEF Desired
        <5>3. QED
          BY <1>4, <5>1, <5>2 DEF Bounded
      <4>3. CASE typ[u] # t
        <5>1. CountsByType(t)' = CountsByType(t)
          BY <3>3, <4>3, Zenon
        <5>2. QED
          BY <1>1, <2>1, <4>1, <5>1, Zenon DEF Bounded, Desired
      <4>4. QED
        BY <4>2, <4>3, Zenon
    <3>6. \A b \in Applier : pc'[b] # "accept"
      BY <1>1, <1>2, <2>1, <2>2, Zenon
    <3>7. ASSUME ~config.Incoming, NEW t \in Constrained, NEW b \in Applier, ToAdd(b, t)'
          PROVE  CountsByType(t)' < Desired[t]
      <4>1. b = a
        BY <1>1, <1>2, <2>1, <3>7, Zenon DEF ToAdd
      <4>2. t \in todo[a]
        BY <2>1, <3>6, <3>7, <4>1, Zenon DEF ToAdd
      <4>3. ToAdd(a, t) /\ typ[u] # t
        BY <2>1, <3>4, <3>7, <4>2, Zenon DEF ToAdd
      <4>4. QED
        BY <3>3, <3>7, <4>3, Zenon DEF DesiredInv
    <3>8. QED
      BY <1>1, <3>5, <3>6, <3>7, Zenon DEF DesiredInv, Constrained, Desired
  <2>5. QED
    BY <1>9, <2>3, <2>4, Zenon DEF AcceptDialed, AcceptUnderlay
<1>10. QED
  BY <1>5, <1>6, <1>7, <1>8, <1>9, Zenon DEF ApplySteps

\* impl.go:753-835.  A channel all of whose underlays are its own dials never has, or has
\* dialed, more underlays of a type than its constraints desire: DesiredInv is inductive
\* because applyInProgress lets one round act on a shortage at a time.
THEOREM DesiredNeverExceeded == Spec => []DesiredNotExceeded
<1>1. Init => DesiredInv
  <2> SUFFICES ASSUME Init PROVE DesiredInv
    BY Zenon
  <2>1. \A a \in Applier : pc[a] = "none"
    BY Apart, Actors, Zenon DEF Init
  <2>2. ASSUME NEW t \in Constrained
        PROVE  Bounded(t)
    <3>1. CountsByType(t) = 0
      <4>1. {u \in entries : typ[u] = t} = {}
        BY Zenon DEF Init
      <4>2. QED
        BY <4>1, FS_EmptySet, Zenon DEF CountsByType
    <3>2. Desired[t] \in Nat
      BY ConfigFacts, Zenon DEF Init
    <3>3. QED
      BY <3>1, <3>2 DEF Bounded
  <2>3. QED
    BY <2>1, <2>2, Zenon DEF DesiredInv, ToAdd
<1>2. LifecycleInv /\ DesiredInv /\ [Next]_vars => DesiredInv'
  <2> SUFFICES ASSUME LifecycleInv, DesiredInv, [Next]_vars
               PROVE  DesiredInv'
    BY Zenon
  <2>1. CASE UNCHANGED vars
    BY <2>1, ShrinkingKeepsDesired, Zenon DEF vars, underlayVars, applyVars
  <2>2. QED
    BY <2>1, AppliersKeepDesired, OthersKeepDesired, Zenon DEF Next, Ended
<1>3. LifecycleInv /\ DesiredInv => DesiredNotExceeded
  <2> SUFFICES ASSUME LifecycleInv, DesiredInv, ~config.Incoming, NEW t \in Constrained
               PROVE  CountsByType(t) + Cardinality({a \in Applier : dialed[a] # None /\ typ[dialed[a]] = t})
                          <= IF typ[First] = t /\ Desired[t] = 0 THEN 1 ELSE Desired[t]
    BY Zenon DEF DesiredNotExceeded
  <2> DEFINE D == {a \in Applier : dialed[a] # None /\ typ[dialed[a]] = t}
  <2>1. CountsByType(t) \in Nat /\ Desired[t] \in Nat /\ Bounded(t)
    BY CountType, ConfigFacts, Zenon DEF LifecycleInv, TypeOK, DesiredInv
  <2>2. \A a \in D : pc[a] = "accept" /\ Applying(a)
    BY Zenon DEF LifecycleInv, UnderlayInv, Applying
  <2>3. CASE D = {}
    <3>1. Cardinality(D) = 0
      BY <2>3, FS_EmptySet, Zenon
    <3> HIDE DEF D
    <3>2. CountsByType(t) + Cardinality(D) <= IF typ[First] = t /\ Desired[t] = 0 THEN 1 ELSE Desired[t]
      BY <2>1, <3>1 DEF Bounded
    <3>3. QED
      BY <3>2, Zenon DEF D
  <2>4. ASSUME NEW a \in D
        PROVE  CountsByType(t) + Cardinality(D) <= IF typ[First] = t /\ Desired[t] = 0 THEN 1 ELSE Desired[t]
    <3>1. D = {a}
      BY <2>2, Zenon DEF LifecycleInv, ApplyInv
    <3>2. CountsByType(t) < Desired[t]
      BY <2>2, Zenon DEF DesiredInv, ToAdd
    <3>3. Cardinality(D) = 1
      BY <3>1, FS_Singleton, Zenon
    <3> HIDE DEF D
    <3>4. QED
      BY <2>1, <3>2, <3>3
  <2>5. QED
    BY <2>3, <2>4, Zenon
<1>4. QED
  BY <1>1, <1>2, <1>3, LifecycleInvariant, PTL DEF Spec

=============================================================================
