------------------------ MODULE MultiListenerProofs ------------------------
(***************************************************************************)
(* Proofs about MultiListener, for any set of underlays and of groups.     *)
(***************************************************************************)
EXTENDS MultiListener, TLAPS

-----------------------------------------------------------------------------
(* Type correctness *)

\* A step of a handler keeps the types, the local variables it relies on included.
LEMMA HandleKeepsType ==
    ASSUME TypeOK, NEW u \in Underlay, Handle(u)
    PROVE  TypeOK'
<1> USE NoneAssumption DEF TypeOK, Hello, PC, Chan, Conn, Group, Goto, CloseUnderlay
<1>1. CASE AckUngrouped(u)
  <2> UNCHANGED <<hello, ch, waitFor, listenerVars, channelVars>>
    BY <1>1 DEF AckUngrouped
  <2>1. CASE ack' = [ack EXCEPT ![u] = "acked"] /\ Goto(u, "fallback") /\ UNCHANGED conn
    BY <2>1 DEF listenerVars, channelVars
  <2>2. CASE CloseUnderlay(u) /\ Goto(u, "done") /\ UNCHANGED ack
    BY <2>2 DEF listenerVars, channelVars
  <2>3. QED
    BY <1>1, <2>1, <2>2 DEF AckUngrouped
<1>2. CASE UngroupedFallback(u)
  BY <1>2 DEF UngroupedFallback, listenerVars, channelVars
<1>3. CASE FindChannel(u)
  BY <1>3 DEF FindChannel, Usable, listenerVars, channelVars
<1>4. CASE FindNothing(u)
  BY <1>4 DEF FindNothing, EvictStale, channelVars
<1>5. CASE ReserveId(u)
  BY <1>5 DEF ReserveId, EvictStale, channelVars
<1>6. CASE FindCreateInProgress(u)
  BY <1>6 DEF FindCreateInProgress, EvictStale, CreateInProgress, channelVars
<1>7. CASE WaitNotified(u)
  BY <1>7 DEF WaitNotified, listenerVars, channelVars
<1>8. CASE Admit(u)
  BY <1>8 DEF Admit, listenerVars, channelVars
<1>9. CASE AckHello(u)
  BY <1>9 DEF AckHello, ChannelExists, listenerVars, channelVars
<1>10. CASE AckHelloFails(u)
  BY <1>10 DEF AckHelloFails, ChannelExists, listenerVars, channelVars
<1>11. CASE ReleaseReservation(u)
  BY <1>11 DEF ReleaseReservation, WakeWaiters, channelVars
<1>12. CASE RejectHello(u)
  BY <1>12 DEF RejectHello, listenerVars, channelVars
<1>13. CASE CloseUnacked(u)
  BY <1>13 DEF CloseUnacked, listenerVars, channelVars
<1>14. CASE AttachToChannel(u)
  <2> UNCHANGED <<hello, ch, waitFor, ack, listenerVars, chan>> /\ Goto(u, "done")
    BY <1>14 DEF AttachToChannel
  <2>1. member' \in [Underlay -> Underlay \cup {None}]
    BY <1>14 DEF AttachToChannel
  <2>2. conn' \in [Underlay -> Conn]
    BY <1>14 DEF AttachToChannel
  <2>3. QED
    BY <2>1, <2>2, Zenon DEF listenerVars
<1>15. CASE FactoryCreates(u)
  BY <1>15 DEF FactoryCreates, listenerVars
<1>16. CASE FactoryFails(u)
  BY <1>16 DEF FactoryFails, listenerVars, channelVars
<1>17. CASE RegisterChannel(u)
  BY <1>17 DEF RegisterChannel, channelVars
<1>18. QED
  BY <1>1, <1>2, <1>3, <1>4, <1>5, <1>6, <1>7, <1>8, <1>9, <1>10, <1>11, <1>12, <1>13,
     <1>14, <1>15, <1>16, <1>17, Zenon DEF Handle

\* Every step keeps the types.
LEMMA NextKeepsType == TypeOK /\ [Next]_vars => TypeOK'
<1> SUFFICES ASSUME TypeOK, [Next]_vars
             PROVE  TypeOK'
  OBVIOUS
<1> USE NoneAssumption DEF TypeOK, Hello, PC, Chan, Conn, Group, Goto, CloseUnderlay
<1>1. ASSUME NEW u \in Underlay, AcceptUnderlay(u)
      PROVE  TypeOK'
  BY <1>1 DEF AcceptUnderlay, listenerVars, channelVars
<1>2. ASSUME NEW u \in Underlay, Handle(u)
      PROVE  TypeOK'
  BY <1>2, HandleKeepsType
<1>3. ASSUME NEW u \in Underlay, WaitTimeout(u)
      PROVE  TypeOK'
  BY <1>3 DEF WaitTimeout, listenerVars, channelVars
<1>4. ASSUME NEW c \in Underlay, CloseChannel(c)
      PROVE  TypeOK'
  BY <1>4 DEF CloseChannel, handlerVars, listenerVars
<1>5. ASSUME NEW c \in Underlay, FinishClose(c)
      PROVE  TypeOK'
  <2>1. CASE MarkRegistration(c)
    BY <2>1 DEF MarkRegistration, handlerVars, listenerVars
  <2>2. CASE UnregisterChannel(c)
    BY <2>2, Zenon DEF UnregisterChannel, handlerVars
  <2>3. CASE CloseMembers(c)
    BY <2>3 DEF CloseMembers, listenerVars
  <2>4. QED
    BY <1>5, <2>1, <2>2, <2>3 DEF FinishClose
<1>6. CASE UNCHANGED vars
  BY <1>6 DEF vars, handlerVars, listenerVars, channelVars
<1>7. QED
  BY <1>1, <1>2, <1>3, <1>4, <1>5, <1>6 DEF Next, AllHandled

\* The initial values have their types.
LEMMA InitType == Init => TypeOK
  BY NoneAssumption DEF Init, TypeOK, Hello, PC, Chan, Conn, Group

\* In every reachable state the variables have their types, and a handler that waits or
\* attaches has something to wait for or to attach to.
THEOREM TypeCorrect == Spec => []TypeOK
  BY InitType, NextKeepsType, PTL DEF Spec

-----------------------------------------------------------------------------
(* Groups are not split *)

\* The eviction of a stale registration takes no open channel out of the map, and puts
\* nothing in.
LEMMA EvictionIsHarmless ==
    ASSUME TypeOK, GroupInv, NEW u \in Underlay, EvictStale(u)
    PROVE  /\ Group(u) \in Id /\ pc[u] = "lookup"
           /\ \A i \in Id : channels'[i] \in {channels[i], None}
           /\ \A i \in Id : channels[i] # None /\ chan[channels[i]] = "open"
                              => channels'[i] = channels[i]
<1>1. Group(u) \in Id /\ pc[u] = "lookup"
  BY DEF TypeOK, EvictStale
<1>2. channels' = [channels EXCEPT ![Group(u)] = None] /\ channels \in [Id -> Underlay \cup {None}]
  BY DEF TypeOK, EvictStale
<1>3. channels[Group(u)] # None => chan[channels[Group(u)]] # "open"
  <2>1. ~Usable(Group(u))
    BY DEF EvictStale
  <2>2. QED
    BY <1>1, <1>2, <2>1 DEF Usable, RegClosed, IsClosed
<1>4. QED
  BY <1>1, <1>2, <1>3

\* A handler's step that takes and gives up no reservation, and that makes and registers no
\* channel, keeps GroupInv.
LEMMA GotoKeepsGroupInv ==
    ASSUME TypeOK, GroupInv, NEW u \in Underlay, NEW l \in PC, Goto(u, l),
           UNCHANGED <<hello, ch, channels, createNotifiers, chan>>,
           pc[u] \notin {"idle", "release", "done"}, l \notin {"idle", "created"},
           HoldsReservation(u) <=> \/ l \in {"admit", "refused", "abort", "factory", "release"}
                                   \/ l = "ack" /\ ch[u] = None,
           l \in {"lookup", "wait", "admit"} => ch[u] = None,
           pc[u] = "created" => l = "release" /\ chan[u] = "closed"
    PROVE  GroupInv'
<1>1. /\ pc'[u] = l
      /\ \A v \in Underlay : v # u => pc'[v] = pc[v]
      /\ \A v \in Underlay : Group(v)' = Group(v) /\ ch'[v] = ch[v] /\ chan'[v] = chan[v]
  BY DEF TypeOK, Goto, Group
<1>2. /\ chan[u] \in {"none", "closed"}
      /\ chan[u] = "closed" => l = "release"
  BY DEF GroupInv
<1>3. \A v \in Underlay : HoldsReservation(v)' <=> HoldsReservation(v)
  BY <1>1 DEF HoldsReservation
<1>4. \A v \in Underlay : HoldsReservation(v)' =>
        /\ createNotifiers'[Group(v)'] = v
        /\ pc'[v] # "release" => channels'[Group(v)'] = None
  BY <1>1, <1>3 DEF GroupInv
<1>5. \A i \in Id, v \in Underlay : createNotifiers'[i] = v => Group(v)' = i /\ HoldsReservation(v)'
  BY <1>1, <1>3 DEF GroupInv
<1>6. \A v \in Underlay : pc'[v] \in {"idle", "lookup", "wait", "admit"} => ch'[v] = None
  BY <1>1 DEF GroupInv
<1>7. ASSUME NEW c \in Underlay
      PROVE  /\ chan'[c] # "none" => Group(c)' \in Id /\ pc'[c] \in {"created", "release", "done"}
             /\ chan'[c] = "open" => pc'[c] = "created" \/ channels'[Group(c)'] = c
             /\ pc'[c] = "created" => chan'[c] # "none"
  <2>1. CASE c = u
    BY <2>1, <1>1, <1>2 DEF GroupInv
  <2>2. CASE c # u
    BY <2>2, <1>1 DEF GroupInv
  <2>3. QED
    BY <2>1, <2>2
<1>8. ASSUME NEW i \in Id, NEW c \in Underlay, channels'[i] = c
      PROVE  /\ Group(c)' = i
             /\ pc'[c] \in {"release", "done"}
             /\ chan'[c] \in {"open", "flagged", "marked"}
  <2>1. c # u
    BY <1>2, <1>8 DEF GroupInv
  <2>2. QED
    BY <2>1, <1>1, <1>8 DEF GroupInv
<1>9. QED
  BY <1>4, <1>5, <1>6, <1>7, <1>8 DEF GroupInv

\* A step of a channel's Close keeps GroupInv when it takes out of the map at most that
\* channel, and takes it out at the latest with the close callback.
LEMMA CloseKeepsGroupInv ==
    ASSUME TypeOK, GroupInv, NEW c \in Underlay,
           NEW s \in {"flagged", "marked", "unregistered", "closed"},
           chan[c] # "none", chan' = [chan EXCEPT ![c] = s],
           UNCHANGED <<hello, pc, ch, createNotifiers>>,
           \A i \in Id : channels'[i] = channels[i] \/ (channels[i] = c /\ channels'[i] = None),
           \A i \in Id : channels'[i] = c => s \in {"flagged", "marked"}
    PROVE  GroupInv'
<1>1. /\ chan'[c] = s
      /\ \A d \in Underlay : d # c => chan'[d] = chan[d]
      /\ \A v \in Underlay : Group(v)' = Group(v) /\ (HoldsReservation(v)' <=> HoldsReservation(v))
  BY DEF TypeOK, Group, HoldsReservation
<1>2. \A v \in Underlay : HoldsReservation(v) => Group(v) \in Id
  BY DEF TypeOK, GroupInv, HoldsReservation
<1>3. \A v \in Underlay : HoldsReservation(v)' =>
        /\ createNotifiers'[Group(v)'] = v
        /\ pc'[v] # "release" => channels'[Group(v)'] = None
  BY <1>1, <1>2 DEF GroupInv
<1>4. \A i \in Id, v \in Underlay : createNotifiers'[i] = v => Group(v)' = i /\ HoldsReservation(v)'
  BY <1>1 DEF GroupInv
<1>5. \A v \in Underlay : pc'[v] \in {"idle", "lookup", "wait", "admit"} => ch'[v] = None
  BY DEF GroupInv
<1>6. ASSUME NEW d \in Underlay
      PROVE  /\ chan'[d] # "none" => Group(d)' \in Id /\ pc'[d] \in {"created", "release", "done"}
             /\ chan'[d] = "open" => pc'[d] = "created" \/ channels'[Group(d)'] = d
             /\ pc'[d] = "created" => chan'[d] # "none"
  BY <1>1 DEF GroupInv
<1>7. ASSUME NEW i \in Id, NEW d \in Underlay, channels'[i] = d
      PROVE  /\ Group(d)' = i
             /\ pc'[d] \in {"release", "done"}
             /\ chan'[d] \in {"open", "flagged", "marked"}
  <2>1. channels[i] = d
    BY <1>7, NoneAssumption
  <2>2. QED
    BY <2>1, <1>1, <1>7 DEF GroupInv
<1>8. QED
  BY <1>3, <1>4, <1>5, <1>6, <1>7 DEF GroupInv

\* What a handler that finds no channel leaves of GroupInv: it holds no reservation when it
\* looks, so that everybody else's state is as before.
LEMMA LookupKeepsGroupInv ==
    ASSUME TypeOK, GroupInv, NEW u \in Underlay, EvictStale(u),
           NEW l \in {"done", "wait", "admit"}, Goto(u, l),
           UNCHANGED <<hello, ch, chan>>,
           l # "admit" => UNCHANGED createNotifiers,
           l = "admit" => /\ createNotifiers[Group(u)] = None
                          /\ createNotifiers' = [createNotifiers EXCEPT ![Group(u)] = u]
    PROVE  GroupInv'
<1>1. /\ Group(u) \in Id /\ pc[u] = "lookup"
      /\ \A i \in Id : channels'[i] \in {channels[i], None}
      /\ \A i \in Id : channels[i] # None /\ chan[channels[i]] = "open" => channels'[i] = channels[i]
  BY EvictionIsHarmless
<1>2. channels'[Group(u)] = None
  BY <1>1 DEF TypeOK, EvictStale
<1>3. /\ pc'[u] = l
      /\ \A v \in Underlay : v # u => pc'[v] = pc[v]
      /\ \A v \in Underlay : Group(v)' = Group(v) /\ ch'[v] = ch[v] /\ chan'[v] = chan[v]
  BY DEF TypeOK, Goto, Group
<1>4. /\ ~HoldsReservation(u) /\ ch[u] = None /\ chan[u] = "none"
      /\ HoldsReservation(u)' <=> l = "admit"
      /\ \A v \in Underlay : v # u => (HoldsReservation(v)' <=> HoldsReservation(v))
  BY <1>1, <1>3 DEF GroupInv, HoldsReservation
<1>5. \A v \in Underlay : HoldsReservation(v) => Group(v) \in Id
  BY DEF TypeOK, GroupInv, HoldsReservation
<1>6. /\ l = "admit" => createNotifiers'[Group(u)] = u
      /\ \A i \in Id : l # "admit" \/ i # Group(u) => createNotifiers'[i] = createNotifiers[i]
  BY <1>1 DEF TypeOK
<1>7. \A v \in Underlay : HoldsReservation(v)' =>
        /\ createNotifiers'[Group(v)'] = v
        /\ pc'[v] # "release" => channels'[Group(v)'] = None
  <2>1. HoldsReservation(u)' => createNotifiers'[Group(u)] = u /\ channels'[Group(u)] = None
    BY <1>2, <1>4, <1>6
  <2>2. ASSUME NEW v \in Underlay, v # u, HoldsReservation(v)
        PROVE  /\ createNotifiers'[Group(v)] = v
               /\ pc[v] # "release" => channels'[Group(v)] = None
    <3>1. /\ Group(v) \in Id /\ createNotifiers[Group(v)] = v
          /\ pc[v] # "release" => channels[Group(v)] = None
      BY <2>2, <1>5 DEF GroupInv
    <3>2. l # "admit" \/ Group(v) # Group(u)
      BY <3>1, NoneAssumption
    <3>3. QED
      BY <3>1, <3>2, <1>1, <1>6
  <2>3. \A v \in Underlay : v # u /\ HoldsReservation(v) =>
          /\ createNotifiers'[Group(v)'] = v
          /\ pc'[v] # "release" => channels'[Group(v)'] = None
    BY <2>2, <1>3
  <2>4. QED
    BY <2>1, <2>3, <1>3, <1>4
<1>8. \A i \in Id, v \in Underlay : createNotifiers'[i] = v => Group(v)' = i /\ HoldsReservation(v)'
  <2> SUFFICES ASSUME NEW i \in Id, NEW v \in Underlay, createNotifiers'[i] = v
               PROVE  Group(v) = i /\ HoldsReservation(v)'
    BY <1>3
  <2>1. CASE l = "admit" /\ i = Group(u)
    BY <2>1, <1>4, <1>6
  <2>2. CASE createNotifiers[i] = v
    BY <2>2, <1>4 DEF GroupInv
  <2>3. QED
    BY <2>1, <2>2, <1>6
<1>9. \A v \in Underlay : pc'[v] \in {"idle", "lookup", "wait", "admit"} => ch'[v] = None
  BY <1>3, <1>4 DEF GroupInv
<1>10. ASSUME NEW c \in Underlay
       PROVE  /\ chan'[c] # "none" => Group(c)' \in Id /\ pc'[c] \in {"created", "release", "done"}
              /\ chan'[c] = "open" => pc'[c] = "created" \/ channels'[Group(c)'] = c
              /\ pc'[c] = "created" => chan'[c] # "none"
  <2>1. CASE c = u
    BY <2>1, <1>3, <1>4
  <2>2. CASE c # u
    <3>1. pc'[c] = pc[c] /\ chan'[c] = chan[c] /\ Group(c)' = Group(c)
      BY <2>2, <1>3
    <3>2. chan[c] = "open" /\ channels[Group(c)] = c => channels'[Group(c)] = c
      BY <1>1, NoneAssumption DEF GroupInv
    <3>3. QED
      BY <3>1, <3>2 DEF GroupInv
  <2>3. QED
    BY <2>1, <2>2
<1>11. ASSUME NEW i \in Id, NEW c \in Underlay, channels'[i] = c
       PROVE  /\ Group(c)' = i
              /\ pc'[c] \in {"release", "done"}
              /\ chan'[c] \in {"open", "flagged", "marked"}
  <2>1. channels[i] = c
    BY <1>1, <1>11, NoneAssumption
  <2>2. QED
    BY <2>1, <1>1, <1>3 DEF GroupInv
<1>12. QED
  BY <1>7, <1>8, <1>9, <1>10, <1>11 DEF GroupInv

\* A step of a handler preserves GroupInv.
LEMMA HandleKeepsGroupInv ==
    ASSUME TypeOK, GroupInv, NEW u \in Underlay, Handle(u)
    PROVE  GroupInv'
<1>4. CASE FindNothing(u)
  BY <1>4, LookupKeepsGroupInv DEF FindNothing, channelVars
<1>5. CASE ReserveId(u)
  BY <1>5, LookupKeepsGroupInv, Zenon DEF ReserveId, CreateInProgress, channelVars
<1>6. CASE FindCreateInProgress(u)
  BY <1>6, LookupKeepsGroupInv DEF FindCreateInProgress, channelVars
<1>1. CASE AckUngrouped(u)
  BY <1>1, GotoKeepsGroupInv DEF AckUngrouped, HoldsReservation, PC, listenerVars, channelVars
<1>2. CASE UngroupedFallback(u)
  BY <1>2, GotoKeepsGroupInv DEF UngroupedFallback, HoldsReservation, PC, listenerVars, channelVars
<1>7. CASE WaitNotified(u)
  <2>1. ch[u] = None
    BY <1>7 DEF WaitNotified, GroupInv
  <2>2. QED
    BY <1>7, <2>1, GotoKeepsGroupInv DEF WaitNotified, HoldsReservation, PC, listenerVars, channelVars
<1>8. CASE Admit(u)
  <2>1. ch[u] = None
    BY <1>8 DEF Admit, GroupInv
  <2>2. QED
    BY <1>8, <2>1, GotoKeepsGroupInv DEF Admit, HoldsReservation, PC, listenerVars, channelVars
<1>9. CASE AckHello(u)
  BY <1>9, GotoKeepsGroupInv
     DEF AckHello, ChannelExists, HoldsReservation, PC, listenerVars, channelVars
<1>10. CASE AckHelloFails(u)
  BY <1>10, GotoKeepsGroupInv
     DEF AckHelloFails, ChannelExists, HoldsReservation, PC, listenerVars, channelVars
<1>12. CASE RejectHello(u)
  BY <1>12, GotoKeepsGroupInv DEF RejectHello, HoldsReservation, PC, listenerVars, channelVars
<1>13. CASE CloseUnacked(u)
  BY <1>13, GotoKeepsGroupInv DEF CloseUnacked, HoldsReservation, PC, listenerVars, channelVars
<1>14. CASE AttachToChannel(u)
  BY <1>14, GotoKeepsGroupInv DEF AttachToChannel, HoldsReservation, PC, listenerVars
<1>16. CASE FactoryFails(u)
  BY <1>16, GotoKeepsGroupInv DEF FactoryFails, HoldsReservation, PC, listenerVars, channelVars
<1> USE NoneAssumption DEF TypeOK, GroupInv, HoldsReservation, Hello, PC, Chan, Group, Goto, CloseUnderlay
<1>3. CASE FindChannel(u)
  BY <1>3 DEF FindChannel, Usable, listenerVars, channelVars
<1>11. CASE ReleaseReservation(u)
  BY <1>11 DEF ReleaseReservation, WakeWaiters, channelVars
<1>15. CASE FactoryCreates(u)
  BY <1>15 DEF FactoryCreates, listenerVars
<1>17. CASE RegisterChannel(u)
  BY <1>17 DEF RegisterChannel, ClosedDuringCreate, RegClosed, IsClosed, channelVars
<1>18. QED
  BY <1>1, <1>2, <1>3, <1>4, <1>5, <1>6, <1>7, <1>8,
     <1>9, <1>10, <1>11, <1>12, <1>13, <1>14, <1>15, <1>16, <1>17, Zenon DEF Handle

\* Every step preserves GroupInv.
LEMMA NextKeepsGroupInv == TypeOK /\ GroupInv /\ [Next]_vars => GroupInv'
<1> SUFFICES ASSUME TypeOK, GroupInv, [Next]_vars
             PROVE  GroupInv'
  OBVIOUS
<1>2. ASSUME NEW u \in Underlay, Handle(u)
      PROVE  GroupInv'
  BY <1>2, HandleKeepsGroupInv
<1>3. ASSUME NEW u \in Underlay, WaitTimeout(u)
      PROVE  GroupInv'
  BY <1>3, GotoKeepsGroupInv DEF WaitTimeout, HoldsReservation, PC, listenerVars, channelVars
<1>4. ASSUME NEW c \in Underlay, CloseChannel(c)
      PROVE  GroupInv'
  BY <1>4, CloseKeepsGroupInv, Zenon DEF CloseChannel, handlerVars, listenerVars
<1>5. ASSUME NEW c \in Underlay, FinishClose(c)
      PROVE  GroupInv'
  <2>1. CASE MarkRegistration(c)
    BY <2>1, CloseKeepsGroupInv, Zenon DEF MarkRegistration, handlerVars, listenerVars
  <2>2. CASE UnregisterChannel(c)
    <3>1. Group(c) \in Id /\ channels \in [Id -> Underlay \cup {None}]
      BY <2>2 DEF UnregisterChannel, TypeOK, GroupInv
    <3>2. \A i \in Id : channels'[i] = channels[i] \/ (channels[i] = c /\ channels'[i] = None)
      BY <2>2, <3>1 DEF UnregisterChannel, StillRegistered
    <3>3. \A i \in Id : channels'[i] # c
      <4>1. \A i \in Id : channels[i] = c => i = Group(c)
        BY DEF GroupInv
      <4>2. QED
        BY <2>2, <3>1, <4>1, NoneAssumption DEF UnregisterChannel, StillRegistered
    <3>4. /\ chan[c] # "none" /\ chan' = [chan EXCEPT ![c] = "unregistered"]
          /\ UNCHANGED <<hello, pc, ch, createNotifiers>>
      BY <2>2 DEF UnregisterChannel, handlerVars
    <3>5. QED
      BY <3>2, <3>3, <3>4, CloseKeepsGroupInv, Zenon
  <2>3. CASE CloseMembers(c)
    <3>1. \A i \in Id : channels[i] # c
      BY <2>3 DEF CloseMembers, GroupInv
    <3>2. QED
      BY <2>3, <3>1, CloseKeepsGroupInv, Zenon DEF CloseMembers, listenerVars
  <2>4. QED
    BY <1>5, <2>1, <2>2, <2>3 DEF FinishClose
<1>6. CASE UNCHANGED vars
  BY <1>6 DEF vars, handlerVars, listenerVars, channelVars, GroupInv, HoldsReservation, Group
<1>1. ASSUME NEW u \in Underlay, AcceptUnderlay(u)
      PROVE  GroupInv'
  BY <1>1, NoneAssumption DEF TypeOK, GroupInv, HoldsReservation, Hello, PC, Chan, Group, Goto,
     AcceptUnderlay, listenerVars, channelVars
<1>7. QED
  BY <1>1, <1>2, <1>3, <1>4, <1>5, <1>6 DEF Next, AllHandled

\* Initially there are neither channels nor reservations.
LEMMA InitGroupInv == Init => GroupInv
  BY NoneAssumption DEF Init, GroupInv, HoldsReservation, Group

\* GroupInv holds of every reachable state.
THEOREM GroupInvariant == Spec => [](TypeOK /\ GroupInv)
  BY InitType, NextKeepsType, InitGroupInv, NextKeepsGroupInv, PTL DEF Spec

\* An open channel is always registered or announced by its creator's reservation.
THEOREM FoundTheorem == Spec => []OpenChannelIsFound
<1>1. TypeOK /\ GroupInv => OpenChannelIsFound
  BY DEF TypeOK, GroupInv, HoldsReservation, OpenChannelIsFound
<1>2. QED
  BY <1>1, GroupInvariant, PTL

\* A group never has two open channels.
THEOREM OneChannelTheorem == Spec => []OneOpenChannelPerGroup
<1>1. TypeOK /\ GroupInv => OneOpenChannelPerGroup
  BY NoneAssumption DEF TypeOK, GroupInv, HoldsReservation, OneOpenChannelPerGroup
<1>2. QED
  BY <1>1, GroupInvariant, PTL

\* No registration outlives the close callback of its channel.
THEOREM NoDeadRegistrationTheorem == Spec => []NoDeadRegistration
<1>1. TypeOK /\ GroupInv => NoDeadRegistration
  BY DEF TypeOK, GroupInv, NoDeadRegistration
<1>2. QED
  BY <1>1, GroupInvariant, PTL

\* An admitter never refuses the first underlay of a group that has an open channel.
THEOREM RefusalTheorem == Spec => []RefusalCostsNoChannel
<1>1. TypeOK /\ GroupInv => RefusalCostsNoChannel
  BY NoneAssumption DEF TypeOK, GroupInv, HoldsReservation, RefusalCostsNoChannel
<1>2. QED
  BY <1>1, GroupInvariant, PTL

\* No step takes an open channel out of the map: not the close callback of an earlier
\* channel of the id, and not the eviction of a stale registration.
THEOREM OpenRegistrationKeptTheorem == Spec => OpenRegistrationKept
<1> DEFINE Kept == \A i \in Id : channels[i] # None /\ chan[channels[i]] = "open"
                        => channels'[i] = channels[i]
<1>1. TypeOK /\ GroupInv /\ [Next]_vars => [Kept]_vars
  <2> SUFFICES ASSUME TypeOK, GroupInv, [Next]_vars,
                      NEW i \in Id, channels[i] # None, chan[channels[i]] = "open"
               PROVE  channels'[i] = channels[i]
    OBVIOUS
  <2>1. ASSUME NEW u \in Underlay, EvictStale(u)
        PROVE  channels'[i] = channels[i]
    BY <2>1, EvictionIsHarmless
  <2>2. ASSUME NEW u \in Underlay, RegisterChannel(u)
        PROVE  channels'[i] = channels[i]
    <3>1. HoldsReservation(u) /\ pc[u] = "created"
      BY <2>2 DEF RegisterChannel, HoldsReservation
    <3>2. i # Group(u)
      BY <3>1 DEF GroupInv
    <3>3. QED
      BY <2>2, <3>2 DEF TypeOK, RegisterChannel
  <2>3. ASSUME NEW c \in Underlay, UnregisterChannel(c)
        PROVE  channels'[i] = channels[i]
    <3>1. CASE channels' = channels
      BY <3>1
    <3>2. CASE channels[Group(c)] = c /\ channels' = [channels EXCEPT ![Group(c)] = None]
      <4>1. i # Group(c)
        BY <2>3, <3>2 DEF UnregisterChannel
      <4>2. QED
        BY <3>2, <4>1 DEF TypeOK
    <3>3. QED
      BY <2>3, <3>1, <3>2 DEF UnregisterChannel, StillRegistered
  <2>4. ASSUME UNCHANGED channels
        PROVE  channels'[i] = channels[i]
    BY <2>4
  <2>5. ASSUME NEW u \in Underlay, Handle(u)
        PROVE  (\E v \in Underlay : EvictStale(v) \/ RegisterChannel(v)) \/ UNCHANGED channels
    BY <2>5 DEF Handle, AckUngrouped, UngroupedFallback, FindChannel, FindNothing, ReserveId,
        FindCreateInProgress, WaitNotified, Admit, AckHello, AckHelloFails, ReleaseReservation,
        RejectHello, CloseUnacked, AttachToChannel, FactoryCreates, FactoryFails, listenerVars
  <2>6. ASSUME NEW u \in Underlay,
               AcceptUnderlay(u) \/ WaitTimeout(u) \/ CloseChannel(u) \/ FinishClose(u)
        PROVE  UnregisterChannel(u) \/ UNCHANGED channels
    BY <2>6 DEF AcceptUnderlay, WaitTimeout, CloseChannel, FinishClose, MarkRegistration,
        CloseMembers, listenerVars
  <2>7. QED
    BY <2>1, <2>2, <2>3, <2>4, <2>5, <2>6 DEF Next, AllHandled, vars, listenerVars
<1>2. QED
  BY <1>1, GroupInvariant, PTL DEF Spec, OpenRegistrationKept

-----------------------------------------------------------------------------
(* No underlay is leaked *)

\* A step of a handler preserves OwnerInv.
LEMMA HandleKeepsOwnerInv ==
    ASSUME TypeOK, GroupInv, OwnerInv, NEW u \in Underlay, Handle(u)
    PROVE  OwnerInv'
<1> USE NoneAssumption DEF TypeOK, OwnerInv, PC, Chan, Conn, Goto, CloseUnderlay
<1>1. CASE AckUngrouped(u)
  BY <1>1 DEF AckUngrouped, listenerVars, channelVars
<1>2. CASE UngroupedFallback(u)
  BY <1>2 DEF UngroupedFallback, listenerVars, channelVars
<1>3. CASE FindChannel(u)
  <2>1. Group(u) \in Id /\ channels[Group(u)] # None
    BY <1>3 DEF FindChannel, Usable
  <2>2. chan[channels[Group(u)]] # "none"
    BY <2>1 DEF GroupInv
  <2>3. QED
    BY <1>3, <2>2 DEF FindChannel, listenerVars, channelVars
<1>4. CASE FindNothing(u)
  BY <1>4 DEF FindNothing, EvictStale, channelVars
<1>5. CASE ReserveId(u)
  BY <1>5 DEF ReserveId, EvictStale, channelVars
<1>6. CASE FindCreateInProgress(u)
  BY <1>6 DEF FindCreateInProgress, EvictStale, channelVars
<1>7. CASE WaitNotified(u)
  BY <1>7 DEF WaitNotified, listenerVars, channelVars
<1>8. CASE Admit(u)
  BY <1>8 DEF Admit, listenerVars, channelVars
<1>9. CASE AckHello(u)
  BY <1>9 DEF AckHello, listenerVars, channelVars
<1>10. CASE AckHelloFails(u)
  BY <1>10 DEF AckHelloFails, listenerVars, channelVars
<1>11. CASE ReleaseReservation(u)
  BY <1>11 DEF ReleaseReservation, channelVars
<1>12. CASE RejectHello(u)
  BY <1>12 DEF RejectHello, listenerVars, channelVars
<1>13. CASE CloseUnacked(u)
  BY <1>13 DEF CloseUnacked, listenerVars, channelVars
<1>14. CASE AttachToChannel(u)
  BY <1>14 DEF AttachToChannel, Accepts, IsClosed, listenerVars
<1>15. CASE FactoryCreates(u)
  BY <1>15 DEF FactoryCreates, listenerVars
<1>16. CASE FactoryFails(u)
  BY <1>16 DEF FactoryFails, listenerVars, channelVars
<1>17. CASE RegisterChannel(u)
  BY <1>17 DEF RegisterChannel, channelVars
<1>18. QED
  BY <1>1, <1>2, <1>3, <1>4, <1>5, <1>6, <1>7, <1>8,
     <1>9, <1>10, <1>11, <1>12, <1>13, <1>14, <1>15, <1>16, <1>17 DEF Handle

\* Every step preserves OwnerInv.
LEMMA NextKeepsOwnerInv == TypeOK /\ GroupInv /\ OwnerInv /\ [Next]_vars => OwnerInv'
<1> SUFFICES ASSUME TypeOK, GroupInv, OwnerInv, [Next]_vars
             PROVE  OwnerInv'
  OBVIOUS
<1> USE NoneAssumption DEF TypeOK, OwnerInv, PC, Chan, Conn, Goto, CloseUnderlay
<1>1. ASSUME NEW u \in Underlay, AcceptUnderlay(u)
      PROVE  OwnerInv'
  <2>1. /\ \A v \in Underlay : v # u => pc'[v] = pc[v] /\ conn'[v] = conn[v]
        /\ pc[u] = "idle" /\ pc'[u] \in {"ackUngrouped", "lookup"}
    BY <1>1 DEF AcceptUnderlay
  <2>2. UNCHANGED <<ch, chan, member>>
    BY <1>1 DEF AcceptUnderlay, channelVars
  <2>3. \A c \in Underlay : member[u] # c
    BY <2>1
  <2>4. \A v \in Underlay :
          pc'[v] \in {"created", "release", "done"} => conn'[v] \in {"owned", "closed"}
    BY <2>1
  <2>5. \A v, c \in Underlay : member'[v] = c =>
          /\ pc'[v] \in {"created", "release", "done"}
          /\ chan'[c] # "none"
          /\ chan'[c] = "closed" => conn'[v] = "closed"
    BY <2>1, <2>2, <2>3
  <2>6. \A v, c \in Underlay : ch'[v] = c => chan'[c] # "none"
    BY <2>2
  <2>7. QED
    BY <2>4, <2>5, <2>6
<1>2. ASSUME NEW u \in Underlay, Handle(u)
      PROVE  OwnerInv'
  BY <1>2, HandleKeepsOwnerInv
<1>3. ASSUME NEW u \in Underlay, WaitTimeout(u)
      PROVE  OwnerInv'
  BY <1>3 DEF WaitTimeout, listenerVars, channelVars
<1>4. ASSUME NEW c \in Underlay, CloseChannel(c)
      PROVE  OwnerInv'
  BY <1>4 DEF CloseChannel, handlerVars, listenerVars
<1>5. ASSUME NEW c \in Underlay, FinishClose(c)
      PROVE  OwnerInv'
  <2>1. CASE MarkRegistration(c)
    BY <2>1 DEF MarkRegistration, handlerVars, listenerVars
  <2>2. CASE UnregisterChannel(c)
    BY <2>2 DEF UnregisterChannel, handlerVars
  <2>3. CASE CloseMembers(c)
    BY <2>3 DEF CloseMembers, listenerVars
  <2>4. QED
    BY <1>5, <2>1, <2>2, <2>3 DEF FinishClose
<1>6. CASE UNCHANGED vars
  BY <1>6 DEF vars, handlerVars, listenerVars, channelVars
<1>7. QED
  BY <1>1, <1>2, <1>3, <1>4, <1>5, <1>6 DEF Next, AllHandled

\* Initially no underlay has an owner.
LEMMA InitOwnerInv == Init => OwnerInv
<1> SUFFICES ASSUME Init, NEW u \in Underlay
             PROVE  /\ member[u] = None /\ ch[u] = None /\ pc[u] = "idle"
  BY NoneAssumption DEF OwnerInv
<1> QED
  BY DEF Init

\* The invariants hold together.
THEOREM OwnerInvariant == Spec => [](TypeOK /\ GroupInv /\ OwnerInv)
  BY InitOwnerInv, NextKeepsOwnerInv, GroupInvariant, PTL DEF Spec

\* A handler that returns leaves its underlay closed or owned, and a channel that has closed
\* leaves none of its underlays open.
THEOREM NoLeakTheorem == Spec => []NoUnderlayLeaked
<1>1. ASSUME TypeOK, OwnerInv
      PROVE  NoUnderlayLeaked
  <2>1. \A u \in Underlay : member[u] \in Underlay \cup {None}
    BY <1>1, Zenon DEF TypeOK
  <2>2. QED
    BY <1>1, <2>1, Zenon DEF OwnerInv, NoUnderlayLeaked
<1>2. QED
  BY <1>1, OwnerInvariant, PTL

-----------------------------------------------------------------------------
(* The listener implements ChannelGroups *)

\* The open channels of each group: the refinement mapping of Groups.
Open == [i \in Id |-> {c \in Underlay : chan[c] = "open" /\ Group(c) = i}]

\* A group with an open channel has no other.
LEMMA OpenIsSingleton ==
    ASSUME TypeOK, GroupInv, NEW c \in Underlay, chan[c] = "open"
    PROVE  Group(c) \in Id /\ Open[Group(c)] = {c}
<1>1. Group(c) \in Id
  BY DEF GroupInv
<1>2. ASSUME NEW d \in Underlay, chan[d] = "open", Group(d) = Group(c)
      PROVE  d = c
  <2>1. \A e \in {c, d} : pc[e] = "created" =>
          createNotifiers[Group(c)] = e /\ channels[Group(c)] = None
    BY <1>2 DEF GroupInv, HoldsReservation
  <2>2. \A e \in {c, d} : pc[e] = "created" \/ channels[Group(c)] = e
    BY <1>2 DEF GroupInv
  <2>3. QED
    BY <2>1, <2>2, NoneAssumption
<1>3. QED
  BY <1>1, <1>2 DEF Open

\* The steps that leave the open channels, their groups and the members alone.
LEMMA OpenUnchanged ==
    ASSUME \A c \in Underlay : chan'[c] = "open" <=> chan[c] = "open",
           \A c \in Underlay : chan[c] = "open" => hello'[c] = hello[c]
    PROVE  Open' = Open
  BY DEF Open, Group

\* A channel comes to run only in a group without an open channel.
LEMMA FactoryCreatesMaps ==
    ASSUME TypeOK, GroupInv, OwnerInv, NEW u \in Underlay, FactoryCreates(u)
    PROVE  \E i \in Id : Groups!Create(i, u)
<1>1. Group(u) \in Id /\ pc[u] = "factory"
  BY DEF TypeOK, FactoryCreates
<1>2. Open[Group(u)] = {}
  <2>1. ASSUME NEW c \in Underlay, chan[c] = "open", Group(c) = Group(u)
        PROVE  FALSE
    <3>1. HoldsReservation(u)
      BY <1>1 DEF HoldsReservation
    <3>2. createNotifiers[Group(u)] = u /\ channels[Group(u)] = None
      BY <1>1, <3>1 DEF GroupInv
    <3>3. pc[c] = "created" \/ channels[Group(u)] = c
      BY <2>1 DEF GroupInv
    <3>4. pc[c] = "created" => createNotifiers[Group(u)] = c
      BY <2>1 DEF GroupInv, HoldsReservation
    <3>5. QED
      BY <1>1, <3>2, <3>3, <3>4, NoneAssumption
  <2>2. QED
    BY <1>1, <2>1 DEF Open
<1>3. member[u] = None
  BY <1>1 DEF TypeOK, OwnerInv
<1>4. Open' = [Open EXCEPT ![Group(u)] = {u}]
  <2>1. chan' = [chan EXCEPT ![u] = "open"] /\ hello' = hello
    BY DEF FactoryCreates
  <2>2. ASSUME NEW i \in Id
        PROVE  Open'[i] = IF i = Group(u) THEN {u} ELSE Open[i]
    <3>1. \A d \in Underlay : chan'[d] = "open" <=> d = u \/ chan[d] = "open"
      BY <2>1 DEF TypeOK
    <3>2. \A d \in Underlay : Group(d)' = Group(d)
      BY <2>1 DEF Group
    <3>3. \A d \in Underlay : chan[d] = "open" => Group(d) # Group(u)
      BY <1>1, <1>2 DEF Open
    <3>4. QED
      BY <3>1, <3>2, <3>3 DEF Open
  <2>3. QED
    BY <2>2, Zenon DEF Open
<1>5. member' = [member EXCEPT ![u] = u]
  BY DEF FactoryCreates
<1>6. QED
  BY <1>1, <1>2, <1>3, <1>4, <1>5, Zenon DEF Groups!Create, Open

\* An underlay joins an open channel only, or none.
LEMMA AttachMaps ==
    ASSUME TypeOK, GroupInv, OwnerInv, NEW u \in Underlay, AttachToChannel(u)
    PROVE  \/ \E i \in Id : Groups!Join(i, u)
           \/ UNCHANGED <<Open, member>>
<1>1. Open' = Open
  BY OpenUnchanged DEF AttachToChannel
<1>2. ch[u] \in Underlay /\ pc[u] = "attach"
  BY DEF TypeOK, AttachToChannel
<1>3. CASE Accepts(ch[u]) /\ member' = [member EXCEPT ![u] = ch[u]]
  <2>1. chan[ch[u]] = "open"
    BY <1>2, <1>3, NoneAssumption DEF Accepts, IsClosed, OwnerInv
  <2>2. Group(ch[u]) \in Id /\ Open[Group(ch[u])] = {ch[u]}
    BY <1>2, <2>1, OpenIsSingleton
  <2>3. member[u] = None
    BY <1>2 DEF TypeOK, OwnerInv
  <2>4. Groups!Join(Group(ch[u]), u)
    BY <1>1, <1>3, <2>2, <2>3, Zenon DEF Groups!Join, Open
  <2>5. QED
    BY <2>2, <2>4
<1>4. CASE UNCHANGED member
  BY <1>1, <1>4
<1>5. QED
  BY <1>3, <1>4 DEF AttachToChannel

\* A group loses its one open channel when that channel starts to close.
LEMMA CloseMaps ==
    ASSUME TypeOK, GroupInv, NEW c \in Underlay, CloseChannel(c)
    PROVE  \E i \in Id : Groups!Close(i)
<1>1. Group(c) \in Id /\ Open[Group(c)] = {c}
  BY OpenIsSingleton DEF CloseChannel
<1>2. chan' = [chan EXCEPT ![c] = "flagged"] /\ hello' = hello /\ member' = member
  BY DEF CloseChannel, handlerVars
<1>3. ASSUME NEW i \in Id
      PROVE  Open'[i] = IF i = Group(c) THEN {} ELSE Open[i]
  <2>1. \A d \in Underlay : chan'[d] = "open" <=> d # c /\ chan[d] = "open"
    BY <1>2 DEF TypeOK
  <2>2. \A d \in Underlay : Group(d)' = Group(d)
    BY <1>2 DEF Group
  <2>3. \A d \in Underlay : chan[d] = "open" /\ Group(d) = Group(c) => d = c
    BY <1>1 DEF Open
  <2>4. QED
    BY <2>1, <2>2, <2>3 DEF Open
<1>4. Open' = [Open EXCEPT ![Group(c)] = {}]
  BY <1>3, Zenon DEF Open
<1>5. QED
  BY <1>1, <1>2, <1>4, Zenon DEF Groups!Close, Open

\* Every step of the listener is a step of ChannelGroups or leaves the groups alone.
LEMMA NextMaps ==
    ASSUME TypeOK, GroupInv, OwnerInv, [Next]_vars
    PROVE  Groups!Next \/ UNCHANGED <<Open, member>>
<1>1. ASSUME NEW u \in Underlay, AcceptUnderlay(u)
      PROVE  UNCHANGED <<Open, member>>
  <2>1. chan' = chan /\ member' = member /\ \A c \in Underlay : c # u => hello'[c] = hello[c]
    BY <1>1 DEF AcceptUnderlay, channelVars, TypeOK
  <2>2. chan[u] # "open"
    BY <1>1 DEF AcceptUnderlay, GroupInv
  <2>3. QED
    BY <2>1, <2>2, OpenUnchanged
<1>2. ASSUME NEW u \in Underlay, Handle(u)
      PROVE  Groups!Next \/ UNCHANGED <<Open, member>>
  <2>1. CASE FactoryCreates(u)
    BY <2>1, FactoryCreatesMaps DEF Groups!Next
  <2>2. CASE AttachToChannel(u)
    BY <2>2, AttachMaps DEF Groups!Next
  <2>3. CASE ~FactoryCreates(u) /\ ~AttachToChannel(u)
    <3>1. UNCHANGED <<hello, channelVars>>
      BY <1>2, <2>3
         DEF Handle, AckUngrouped, UngroupedFallback, FindChannel, FindNothing, ReserveId,
             FindCreateInProgress, WaitNotified, Admit, AckHello, AckHelloFails,
             ReleaseReservation, RejectHello, CloseUnacked, FactoryFails, RegisterChannel
    <3>2. QED
      BY <3>1, OpenUnchanged DEF channelVars
  <2>4. QED
    BY <2>1, <2>2, <2>3
<1>3. ASSUME NEW u \in Underlay, WaitTimeout(u)
      PROVE  UNCHANGED <<Open, member>>
  BY <1>3, OpenUnchanged DEF WaitTimeout, channelVars
<1>4. ASSUME NEW c \in Underlay, CloseChannel(c)
      PROVE  Groups!Next
  BY <1>4, CloseMaps DEF Groups!Next
<1>5. ASSUME NEW c \in Underlay, FinishClose(c)
      PROVE  UNCHANGED <<Open, member>>
  <2>1. hello' = hello /\ member' = member
    BY <1>5 DEF FinishClose, MarkRegistration, UnregisterChannel, CloseMembers, handlerVars
  <2>2. PICK s \in Chan \ {"none", "open"} : chan' = [chan EXCEPT ![c] = s]
    BY <1>5 DEF FinishClose, MarkRegistration, UnregisterChannel, CloseMembers, Chan
  <2>3. chan[c] # "open"
    BY <1>5 DEF FinishClose, MarkRegistration, UnregisterChannel, CloseMembers
  <2>4. QED
    BY <2>1, <2>2, <2>3, OpenUnchanged DEF TypeOK
<1>6. CASE UNCHANGED vars
  <2>1. hello' = hello /\ chan' = chan /\ member' = member
    BY <1>6 DEF vars, handlerVars, channelVars
  <2>2. QED
    BY <2>1, OpenUnchanged
<1>7. QED
  BY <1>1, <1>2, <1>3, <1>4, <1>5, <1>6 DEF Next, AllHandled

\* The listener implements ChannelGroups: whatever the interleaving, groups gain and lose
\* their one open channel, and underlays join it, only in the ways that module allows.
THEOREM GroupsTheorem == Spec => ImplementsGroups
<1>1. Init => Groups!Init
  BY DEF Init, Groups!Init, Group
<1>2. TypeOK /\ GroupInv /\ OwnerInv /\ [Next]_vars => [Groups!Next]_(Groups!vars)
  BY NextMaps DEF Groups!vars, Open
<1>3. QED
  BY <1>1, <1>2, OwnerInvariant, PTL DEF Spec, ImplementsGroups, Groups!Spec

=============================================================================
