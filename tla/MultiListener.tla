--------------------------- MODULE MultiListener ---------------------------
(***************************************************************************)
(* MultiListener.AcceptUnderlay (multi_listener.go): every incoming        *)
(* underlay is handled by a goroutine of its own, which attaches it to the *)
(* channel registered for its connection id, or reserves the id and        *)
(* creates that channel.  Channels close at any time and unregister        *)
(* themselves through the close callback.                                  *)
(*                                                                         *)
(* A handler is named by its underlay.  The channel, the registration and  *)
(* the create notifier that a handler makes are named by it too: each      *)
(* handler makes at most one of each.                                      *)
(***************************************************************************)
CONSTANTS
    Underlay,   \* incoming underlays
    Id,         \* connection ids of groups
    None        \* nil

ASSUME NoneAssumption == None \notin Underlay \cup Id

VARIABLES
    hello,            \* headers of each underlay: its group and IsFirstGroupConnection
    pc,               \* where the handler of each underlay is
    ch,               \* the local `ch` of each handler: the existing channel found
    waitFor,          \* the local `waitFor` of each handler
    channels,         \* the map of registrations, None where an id has none
    createNotifiers,  \* the map of reservations, None where an id has none
    released,         \* the create notifiers that are closed
    chan,             \* the life of each channel
    member,           \* the channel each underlay belongs to
    conn,             \* each underlay's connection
    ack               \* what the dialer was told

listenerVars == <<channels, createNotifiers, released>>
handlerVars == <<hello, pc, ch, waitFor, conn, ack>>
channelVars == <<chan, member>>
vars == <<handlerVars, listenerVars, channelVars>>

-----------------------------------------------------------------------------
(* State *)

\* group None is an underlay without IsGroupedHeader.
Hello == [group : Id \cup {None}, first : BOOLEAN]

PC == {"idle", "ackUngrouped", "fallback", "lookup", "wait", "admit", "refused",
       "reject", "ack", "abort", "close", "attach", "factory", "created",
       "release", "done"}

\* "flagged": Close has set flagClosed and holds the channel's lock; "marked": the
\* close callback has stored reg.closed; "unregistered": it has left the listener.
Chan == {"none", "open", "flagged", "marked", "unregistered", "closed"}

\* "open": the handler is responsible for it; "owned": a channel or the application is.
Conn == {"idle", "open", "owned", "closed"}

Group(u) == hello[u].group

IsClosed(c) == chan[c] \notin {"none", "open"}

\* registration.closed
RegClosed(c) == chan[c] \in {"marked", "unregistered", "closed"}

\* Channel.Close runs to its end under the lock that Channel.AcceptUnderlay takes.
ChannelLocked(c) == chan[c] \in {"flagged", "marked", "unregistered"}

\* The registration a lookup may use.
Usable(id) ==
    /\ channels[id] # None
    /\ ~RegClosed(channels[id])
    /\ ~IsClosed(channels[id])

\* A create of the group is in progress.
CreateInProgressUnseen(id) == FALSE
CreateInProgress(id) == createNotifiers[id] # None

\* What Channel.AcceptUnderlay checks under the channel's lock.
AcceptsWhenClosed(c) == TRUE
Accepts(c) == ~IsClosed(c)

ClosedDuringCreateUnchecked(c) == FALSE
ClosedDuringCreate(c) == RegClosed(c) \/ IsClosed(c)

\* closeRegistration compares the registrations, not the ids.
StillRegisteredById(c) == channels[Group(c)] # None
StillRegistered(c) == channels[Group(c)] = c

TypeOK ==
    /\ hello \in [Underlay -> Hello]
    /\ pc \in [Underlay -> PC]
    /\ ch \in [Underlay -> Underlay \cup {None}]
    /\ waitFor \in [Underlay -> Underlay \cup {None}]
    /\ channels \in [Id -> Underlay \cup {None}]
    /\ createNotifiers \in [Id -> Underlay \cup {None}]
    /\ released \in SUBSET Underlay
    /\ chan \in [Underlay -> Chan]
    /\ member \in [Underlay -> Underlay \cup {None}]
    /\ conn \in [Underlay -> Conn]
    /\ ack \in [Underlay -> {"none", "acked", "rejected"}]
    /\ \A u \in Underlay :
        /\ pc[u] = "wait" => waitFor[u] # None
        /\ pc[u] = "attach" => ch[u] # None
        /\ pc[u] \notin {"idle", "ackUngrouped", "fallback", "done"} => Group(u) \in Id

-----------------------------------------------------------------------------
(* Steps of a handler *)

Goto(u, l) == pc' = [pc EXCEPT ![u] = l]

CloseUnderlay(u) == conn' = [conn EXCEPT ![u] = "closed"]

\* A new connection has sent its hello.
AcceptUnderlay(u) ==
    /\ pc[u] = "idle"
    /\ \E h \in Hello :
        /\ hello' = [hello EXCEPT ![u] = h]
        /\ Goto(u, IF h.group = None THEN "ackUngrouped" ELSE "lookup")
    /\ conn' = [conn EXCEPT ![u] = "open"]
    /\ UNCHANGED <<ch, waitFor, ack, listenerVars, channelVars>>

AckUngrouped(u) ==
    /\ pc[u] = "ackUngrouped"
    /\ \/ /\ ack' = [ack EXCEPT ![u] = "acked"]
          /\ Goto(u, "fallback")
          /\ UNCHANGED conn
       \/ /\ CloseUnderlay(u)
          /\ Goto(u, "done")
          /\ UNCHANGED ack
    /\ UNCHANGED <<hello, ch, waitFor, listenerVars, channelVars>>

\* The fallback takes the underlay over or returns an error.
UngroupedFallback(u) ==
    /\ pc[u] = "fallback"
    /\ \/ conn' = [conn EXCEPT ![u] = "owned"]
       \/ CloseUnderlay(u)
    /\ Goto(u, "done")
    /\ UNCHANGED <<hello, ch, waitFor, ack, listenerVars, channelVars>>

\* The critical section of the lookup loop, first outcome: a live channel.
FindChannel(u) ==
    /\ pc[u] = "lookup"
    /\ Usable(Group(u))
    /\ ch' = [ch EXCEPT ![u] = channels[Group(u)]]
    /\ Goto(u, "ack")
    /\ UNCHANGED <<hello, waitFor, conn, ack, listenerVars, channelVars>>

\* The other outcomes evict a registration whose channel has closed.
EvictStale(u) ==
    /\ pc[u] = "lookup"
    /\ ~Usable(Group(u))
    /\ channels' = [channels EXCEPT ![Group(u)] = None]

\* No channel, no create in progress, not a first connection: closed without an ack.
FindNothing(u) ==
    /\ EvictStale(u)
    /\ ~CreateInProgress(Group(u))
    /\ ~hello[u].first
    /\ CloseUnderlay(u)
    /\ Goto(u, "done")
    /\ UNCHANGED <<hello, ch, waitFor, ack, createNotifiers, released, channelVars>>

ReserveId(u) ==
    /\ EvictStale(u)
    /\ ~CreateInProgress(Group(u))
    /\ hello[u].first
    /\ createNotifiers' = [createNotifiers EXCEPT ![Group(u)] = u]
    /\ Goto(u, "admit")
    /\ UNCHANGED <<hello, ch, waitFor, conn, ack, released, channelVars>>

FindCreateInProgress(u) ==
    /\ EvictStale(u)
    /\ CreateInProgress(Group(u))
    /\ waitFor' = [waitFor EXCEPT ![u] = createNotifiers[Group(u)]]
    /\ Goto(u, "wait")
    /\ UNCHANGED <<hello, ch, conn, ack, createNotifiers, released, channelVars>>

WaitNotified(u) ==
    /\ pc[u] = "wait"
    /\ waitFor[u] \in released
    /\ Goto(u, "lookup")
    /\ waitFor' = [waitFor EXCEPT ![u] = None]
    /\ UNCHANGED <<hello, ch, conn, ack, listenerVars, channelVars>>

\* The create on the same id took longer than a second.
WaitTimeout(u) ==
    /\ pc[u] = "wait"
    /\ CloseUnderlay(u)
    /\ Goto(u, "done")
    /\ UNCHANGED <<hello, ch, waitFor, ack, listenerVars, channelVars>>

\* Only the handler that holds the reservation asks the admitter.
Admit(u) ==
    /\ pc[u] = "admit"
    /\ Goto(u, "ack") \/ Goto(u, "refused")
    /\ UNCHANGED <<hello, ch, waitFor, conn, ack, listenerVars, channelVars>>

\* The code's channelExists.
ChannelExists(u) == ch[u] # None

AckHello(u) ==
    /\ pc[u] = "ack"
    /\ ack' = [ack EXCEPT ![u] = "acked"]
    /\ Goto(u, IF ChannelExists(u) THEN "attach" ELSE "factory")
    /\ UNCHANGED <<hello, ch, waitFor, conn, listenerVars, channelVars>>

\* A handler with a reservation releases it before it closes the underlay.
AckHelloFails(u) ==
    /\ pc[u] = "ack"
    /\ Goto(u, IF ChannelExists(u) THEN "close" ELSE "abort")
    /\ UNCHANGED <<hello, ch, waitFor, conn, ack, listenerVars, channelVars>>

\* close(notifier)
WakeNobody(u) == released' = released
WakeWaiters(u) == released' = released \cup {u}

ReleaseReservation(u) ==
    /\ pc[u] \in {"refused", "abort", "release"}
    /\ createNotifiers' = [createNotifiers EXCEPT ![Group(u)] = None]
    /\ WakeWaiters(u)
    /\ Goto(u, CASE pc[u] = "refused" -> "reject"
                 [] pc[u] = "abort"   -> "close"
                 [] pc[u] = "release" -> "done")
    /\ UNCHANGED <<hello, ch, waitFor, conn, ack, channels, channelVars>>

\* RejectHello: the underlay is closed whether or not the negative result could be sent.
RejectHello(u) ==
    /\ pc[u] = "reject"
    /\ ack' \in {[ack EXCEPT ![u] = "rejected"], ack}
    /\ CloseUnderlay(u)
    /\ Goto(u, "done")
    /\ UNCHANGED <<hello, ch, waitFor, listenerVars, channelVars>>

CloseUnacked(u) ==
    /\ pc[u] = "close"
    /\ CloseUnderlay(u)
    /\ Goto(u, "done")
    /\ UNCHANGED <<hello, ch, waitFor, ack, listenerVars, channelVars>>

\* Channel.AcceptUnderlay, under the channel's lock: refused, and the underlay closed,
\* when the group secret differs or the channel has closed since the lookup.
AttachToChannel(u) ==
    /\ pc[u] = "attach"
    /\ ~ChannelLocked(ch[u])
    /\ \/ /\ Accepts(ch[u])
          /\ member' = [member EXCEPT ![u] = ch[u]]
          /\ conn' = [conn EXCEPT ![u] = "owned"]
       \/ /\ CloseUnderlay(u)
          /\ UNCHANGED member
    /\ Goto(u, "done")
    /\ UNCHANGED <<hello, ch, waitFor, ack, listenerVars, chan>>

\* Inside the factory the channel starts to run, before the factory returns.
FactoryCreates(u) ==
    /\ pc[u] = "factory"
    /\ chan' = [chan EXCEPT ![u] = "open"]
    /\ member' = [member EXCEPT ![u] = u]
    /\ conn' = [conn EXCEPT ![u] = "owned"]
    /\ Goto(u, "created")
    /\ UNCHANGED <<hello, ch, waitFor, ack, listenerVars>>

\* The factory returns an error: it made no channel, or has closed it again.
FactoryFails(u) ==
    /\ \/ pc[u] = "factory"
       \/ pc[u] = "created" /\ chan[u] = "closed"
    /\ CloseUnderlay(u)
    /\ Goto(u, "release")
    /\ UNCHANGED <<hello, ch, waitFor, ack, listenerVars, channelVars>>

\* The factory has returned a channel: register it, unless it has closed meanwhile.
RegisterChannel(u) ==
    /\ pc[u] = "created"
    /\ channels' = IF ClosedDuringCreate(u)
                   THEN channels
                   ELSE [channels EXCEPT ![Group(u)] = u]
    /\ Goto(u, "release")
    /\ UNCHANGED <<hello, ch, waitFor, conn, ack, createNotifiers, released, channelVars>>

-----------------------------------------------------------------------------
(* Steps of a channel's Close, taken by any goroutine *)

CloseChannel(c) ==
    /\ chan[c] = "open"
    /\ chan' = [chan EXCEPT ![c] = "flagged"]
    /\ UNCHANGED <<handlerVars, listenerVars, member>>

\* closeRegistration, before the listener's lock.
MarkRegistration(c) ==
    /\ chan[c] = "flagged"
    /\ chan' = [chan EXCEPT ![c] = "marked"]
    /\ UNCHANGED <<handlerVars, listenerVars, member>>

\* closeRegistration, under the listener's lock.
UnregisterChannel(c) ==
    /\ chan[c] = "marked"
    /\ chan' = [chan EXCEPT ![c] = "unregistered"]
    /\ channels' = IF StillRegistered(c)
                   THEN [channels EXCEPT ![Group(c)] = None]
                   ELSE channels
    /\ UNCHANGED <<handlerVars, createNotifiers, released, member>>

CloseMembers(c) ==
    /\ chan[c] = "unregistered"
    /\ chan' = [chan EXCEPT ![c] = "closed"]
    /\ conn' = [u \in Underlay |-> IF member[u] = c THEN "closed" ELSE conn[u]]
    /\ UNCHANGED <<hello, pc, ch, waitFor, ack, listenerVars, member>>

-----------------------------------------------------------------------------
(* Specification *)

Init ==
    /\ hello = [u \in Underlay |-> [group |-> None, first |-> FALSE]]
    /\ pc = [u \in Underlay |-> "idle"]
    /\ ch = [u \in Underlay |-> None]
    /\ waitFor = [u \in Underlay |-> None]
    /\ channels = [i \in Id |-> None]
    /\ createNotifiers = [i \in Id |-> None]
    /\ released = {}
    /\ chan = [u \in Underlay |-> "none"]
    /\ member = [u \in Underlay |-> None]
    /\ conn = [u \in Underlay |-> "idle"]
    /\ ack = [u \in Underlay |-> "none"]

\* The steps the Go scheduler is bound to take once they are possible.
Handle(u) ==
    \/ AckUngrouped(u) \/ UngroupedFallback(u)
    \/ FindChannel(u) \/ FindNothing(u) \/ ReserveId(u) \/ FindCreateInProgress(u)
    \/ WaitNotified(u)
    \/ Admit(u) \/ AckHello(u) \/ AckHelloFails(u) \/ ReleaseReservation(u)
    \/ RejectHello(u) \/ CloseUnacked(u) \/ AttachToChannel(u)
    \/ FactoryCreates(u) \/ FactoryFails(u) \/ RegisterChannel(u)

FinishClose(c) == MarkRegistration(c) \/ UnregisterChannel(c) \/ CloseMembers(c)

\* Every underlay has been handled and every channel has closed.
AllHandled ==
    /\ \A u \in Underlay : pc[u] = "done" /\ chan[u] \in {"none", "closed"}
    /\ UNCHANGED vars

Next ==
    \/ \E u \in Underlay :
        AcceptUnderlay(u) \/ Handle(u) \/ WaitTimeout(u) \/ CloseChannel(u) \/ FinishClose(u)
    \/ AllHandled

Spec == Init /\ [][Next]_vars

\* The timeout is left out: handlers must not need it to finish.
Fairness == \A u \in Underlay : WF_vars(Handle(u)) /\ WF_vars(FinishClose(u))

FairSpec == Spec /\ Fairness

-----------------------------------------------------------------------------
(* Properties *)

\* multi_listener.go:91-96.  An open channel of a group can be found by the group's
\* later underlays, from the moment it runs inside the factory: it is registered, or its
\* creator's reservation makes them wait until it is.
OpenChannelIsFound ==
    \A c \in Underlay : chan[c] = "open" =>
        channels[Group(c)] = c \/ createNotifiers[Group(c)] = c

\* A group never has two open channels, whatever the interleaving of creates, closes and
\* evictions: its underlays are never split between two.
OneOpenChannelPerGroup ==
    \A c, d \in Underlay :
        chan[c] = "open" /\ chan[d] = "open" /\ Group(c) = Group(d) => c = d

\* multi_listener.go:266-270.  No registration is left behind by a channel whose close
\* callback has run: nothing would ever remove it.
NoDeadRegistration ==
    \A i \in Id : channels[i] # None => chan[channels[i]] \in {"open", "flagged", "marked"}

\* Every underlay ends up with an owner or closed: when its handler returns it is closed
\* or owned, and a channel that has finished closing has no underlay left open.
NoUnderlayLeaked ==
    \A u \in Underlay :
        /\ pc[u] = "done" => conn[u] \in {"owned", "closed"}
        /\ member[u] # None /\ chan[member[u]] = "closed" => conn[u] = "closed"

\* multi_listener.go:54-56.  A refusal by the admitter never costs an open channel one
\* of its underlays: a refused underlay's group has no open channel.
RefusalCostsNoChannel ==
    \A u, c \in Underlay :
        pc[u] = "refused" /\ chan[c] = "open" => Group(u) # Group(c)

\* multi_listener.go:290-292.  No step, in particular no close callback of an earlier
\* channel of the id and no eviction, takes an open channel out of the map or replaces it.
OpenRegistrationKept ==
    [][\A i \in Id : channels[i] # None /\ chan[channels[i]] = "open"
            => channels'[i] = channels[i]]_vars

\* The handlers between their reservation of the id and its release.
HoldsReservation(u) ==
    \/ pc[u] \in {"admit", "refused", "abort", "factory", "created", "release"}
    \/ pc[u] = "ack" /\ ch[u] = None

\* Why groups are not split.  The reservations in the map are those of the handlers that
\* hold one, and keep the id free of registrations until their channel takes it; a channel
\* that runs is registered unless its factory has yet to return; and what is registered is
\* a channel of that id whose close callback has not run.
GroupInv ==
    /\ \A u \in Underlay : HoldsReservation(u) =>
        /\ createNotifiers[Group(u)] = u
        /\ pc[u] # "release" => channels[Group(u)] = None
    /\ \A i \in Id, u \in Underlay : createNotifiers[i] = u =>
        Group(u) = i /\ HoldsReservation(u)
    /\ \A u \in Underlay : pc[u] \in {"idle", "lookup", "wait", "admit"} => ch[u] = None
    /\ \A c \in Underlay :
        /\ chan[c] # "none" => Group(c) \in Id /\ pc[c] \in {"created", "release", "done"}
        /\ chan[c] = "open" => pc[c] = "created" \/ channels[Group(c)] = c
        /\ pc[c] = "created" => chan[c] # "none"
    /\ \A i \in Id, c \in Underlay : channels[i] = c =>
        /\ Group(c) = i
        /\ pc[c] \in {"release", "done"}
        /\ chan[c] \in {"open", "flagged", "marked"}

\* Who owns an underlay.  It has a channel only after the factory or AcceptUnderlay of one,
\* its handler answers for it until then, and a handler looks only at real channels.
OwnerInv ==
    /\ \A u \in Underlay :
        pc[u] \in {"created", "release", "done"} => conn[u] \in {"owned", "closed"}
    /\ \A u, c \in Underlay : member[u] = c =>
        /\ pc[u] \in {"created", "release", "done"}
        /\ chan[c] # "none"
        /\ chan[c] = "closed" => conn[u] = "closed"
    /\ \A u, c \in Underlay : ch[u] = c => chan[c] # "none"

\* What the listener does to groups is what ChannelGroups allows: the open channels of a
\* group come and go one at a time, and underlays join open channels only.
Groups == INSTANCE ChannelGroups
            WITH open <- [i \in Id |-> {c \in Underlay : chan[c] = "open" /\ Group(c) = i}]

ImplementsGroups == Groups!Spec

\* Every handler returns, without help of the one second timeout: a waiting handler is
\* always woken, and no handler waits for a lock for ever.
EveryUnderlayHandled == \A u \in Underlay : pc[u] = "lookup" ~> pc[u] = "done"

=============================================================================
