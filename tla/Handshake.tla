------------------------------ MODULE Handshake ------------------------------
(***************************************************************************)
(* The hello exchange that turns a connection into an underlay: the        *)
(* classic dialer (classic_dialer.go), the classic listener with its pool  *)
(* of workers (classic_listener.go), the acceptors that acknowledge or     *)
(* refuse the hello (hello_acceptor.go, hello_reject.go), and the          *)
(* dispatcher that takes underlays from Create (accept_dispatcher.go).     *)
(*                                                                         *)
(* A dialer makes one call of CreateWithHeaders and in it at most two      *)
(* connections.  Values of headers are None, the dialer for a value it     *)
(* gave, or the connection for one the listener made up for it.            *)
(*                                                                         *)
(* The pool is a library.  Its queue and its workers are given the         *)
(* listener's own close channel (classic_listener.go:88): once that is     *)
(* closed a connection may still be queued or refused, and one that is     *)
(* queued may be taken up by a worker or by none.                          *)
(***************************************************************************)
EXTENDS Naturals, FiniteSets

CONSTANTS
    Dialer,      \* calls of CreateWithHeaders
    Hellos,      \* what the dialers may say: a set of functions from Dialer to Hello
    QueueSize,   \* MaxQueuedConnects
    Workers,     \* MaxOutstandingConnects
    None

\* "create": that of NewClassicListener, which hands the underlay to Create; "legacy": an
\* UnderlayAcceptor behind AsHelloAcceptor; "refuse": one that calls RejectHello;
\* "unrouted": TypeRoutingAcceptor finds none.
Acceptor == {"create", "legacy", "refuse", "unrouted"}

\* Whether the hello is of a group, and which of the group's headers it has.
Grouping == [grouped : BOOLEAN, id : BOOLEAN, secret : BOOLEAN]

\* speaks: FALSE when the dialer's MessageStrategy marshals what the listener cannot read.
Hello == [to : Acceptor, group : Grouping, speaks : BOOLEAN]

Conn == Dialer \X {1, 2}

ASSUME HandshakeAssumption ==
    /\ Hellos \subseteq [Dialer -> Hello]
    /\ QueueSize \in Nat \ {0} /\ Workers \in Nat \ {0}
    /\ None \notin Dialer \cup Conn

VARIABLES
    hello,       \* what each dialer puts in its hello
    dial,        \* where its call is, in the end what it returned
    tries,       \* connections it has made
    dView,       \* the id and secret of the underlay it returned
    dEnd,        \* its end of each connection
    lEnd,        \* the listener's end of each connection; "left": open, and given up by the listener
    toListener,  \* what is on its way to the listener
    toDialer,    \* what is on its way to the dialer
    at,          \* where the listener is with each connection
    lView,       \* the id and secret of the listener's underlay
    acks,        \* acknowledgements of each hello
    run,         \* where the dispatcher is
    taken,       \* the underlay it dispatches
    closed       \* the listener is closed

dialVars == <<hello, dial, tries, dView, dEnd>>
listenVars == <<lEnd, at, lView, acks>>
runVars == <<run, taken>>
vars == <<dialVars, listenVars, toListener, toDialer, runVars, closed>>

\* The connection of the current try.
Current(d) == <<d, tries[d]>>

Value == {None} \cup Dialer \cup Conn
View == [id : Value, secret : Value]
NoView == [id |-> None, secret |-> None]

\* The dialer's connection id and group secret headers.
Given(d) ==
    [id |-> IF hello[d].group.id THEN d ELSE None,
     secret |-> IF hello[d].group.secret THEN d ELSE None]

Result == {"ok", "refused", "error"}

\* The connections the pool's workers are busy with.
Busy == {"receive", "accept", "handoff", "app", "clear"}

TypeOK ==
    /\ hello \in Hellos
    /\ dial \in [Dialer -> {"dial", "hello", "result"} \cup Result]
    /\ tries \in [Dialer -> 0..2]
    /\ \A d \in Dialer : dial[d] \in {"hello", "result", "ok"} => tries[d] > 0
    /\ dView \in [Dialer -> View] /\ lView \in [Conn -> View]
    /\ dEnd \in [Conn -> {"none", "open", "closed"}]
    /\ lEnd \in [Conn -> {"none", "open", "owned", "left", "closed"}]
    /\ toListener \in [Conn -> {"none", "hello", "unknown"}]
    /\ toDialer \in [Conn -> [kind : {"none", "ack", "refusal", "versions"}, view : View]]
    /\ at \in [Conn -> {"none", "arriving", "queued", "done"} \cup Busy]
    /\ acks \in [Conn -> 0..1]
    /\ run \in {"create", "dispatch", "ended"}
    /\ taken \in Conn \cup {None} /\ (taken # None <=> run = "dispatch")
    /\ closed \in BOOLEAN

-----------------------------------------------------------------------------
(* The dialer *)

CloseDialEnd(d) == dEnd' = [dEnd EXCEPT ![Current(d)] = "closed"]

\* Any failure of sendHello closes the underlay.
CloseOnFailure(d) == CloseDialEnd(d)

\* The loop of CreateWithHeaders: the deadline has passed, the dial failed, ...
DialFails(d) ==
    /\ dial[d] = "dial"
    /\ dial' = [dial EXCEPT ![d] = "error"]
    /\ UNCHANGED <<hello, tries, dView, dEnd, listenVars, toListener, toDialer, runVars, closed>>

\* ... or the transport has connected to the listener.
Connect(d) ==
    /\ dial[d] = "dial"
    /\ ~closed
    /\ tries' = [tries EXCEPT ![d] = @ + 1]
    /\ dEnd' = [dEnd EXCEPT ![<<d, tries[d] + 1>>] = "open"]
    /\ lEnd' = [lEnd EXCEPT ![<<d, tries[d] + 1>>] = "open"]
    /\ at' = [at EXCEPT ![<<d, tries[d] + 1>>] = "arriving"]
    /\ dial' = [dial EXCEPT ![d] = "hello"]
    /\ UNCHANGED <<hello, dView, lView, acks, toListener, toDialer, runVars, closed>>

SendHello(d) ==
    /\ dial[d] = "hello"
    /\ toListener' = [toListener EXCEPT ![Current(d)] = IF hello[d].speaks THEN "hello" ELSE "unknown"]
    /\ dial' = [dial EXCEPT ![d] = "result"]
    /\ UNCHANGED <<hello, tries, dView, dEnd, listenVars, toDialer, runVars, closed>>

\* SetDeadline, the header provider, the write or the read failed, the read at the
\* deadline at the latest.
SendHelloFails(d) ==
    /\ dial[d] \in {"hello", "result"}
    /\ CloseOnFailure(d)
    /\ dial' = [dial EXCEPT ![d] = "error"]
    /\ UNCHANGED <<hello, tries, dView, listenVars, toListener, toDialer, runVars, closed>>

Response(d) == toDialer[Current(d)]

\* result.Success
Success(r) == r.kind = "ack"

\* The id the dialer sent, else the listener's; the secret is among the response's headers.
DialView(d) ==
    [id |-> IF Given(d).id # None THEN Given(d).id ELSE Response(d).view.id,
     secret |-> Response(d).view.secret]

ReadAck(d) ==
    /\ dial[d] = "result"
    /\ Success(Response(d))
    /\ dView' = [dView EXCEPT ![d] = DialView(d)]
    /\ dial' = [dial EXCEPT ![d] = "ok"]
    /\ UNCHANGED <<hello, tries, dEnd, listenVars, toListener, toDialer, runVars, closed>>

\* A refusal is not retried; a peer that named the versions it speaks is, once.
Retries(d, r) == tries[d] < 2 /\ r.kind = "versions"

ReadFailure(d) ==
    /\ dial[d] = "result"
    /\ Response(d).kind # "none" /\ ~Success(Response(d))
    /\ CloseOnFailure(d)
    /\ dial' = [dial EXCEPT ![d] = IF Retries(d, Response(d)) THEN "dial"
                                   ELSE IF Response(d).kind = "refusal" THEN "refused" ELSE "error"]
    /\ UNCHANGED <<hello, tries, dView, listenVars, toListener, toDialer, runVars, closed>>

-----------------------------------------------------------------------------
(* The listener *)

Queued == {c \in Conn : at[c] = "queued"}
Running == {c \in Conn : at[c] \in Busy}

Goto(c, l) == at' = [at EXCEPT ![c] = l]

CloseListenEnd(c) == lEnd' = [lEnd EXCEPT ![c] = "closed"]
LeaveListenEnd(c) == lEnd' = [lEnd EXCEPT ![c] = "left"]

\* acceptConnection queues the connection with the pool, when there is room, ...
QueueConnection(c) ==
    /\ at[c] = "arriving"
    /\ Cardinality(Queued) < QueueSize
    /\ Goto(c, "queued")
    /\ UNCHANGED <<dialVars, lEnd, lView, acks, toListener, toDialer, runVars, closed>>

\* ... or the pool of a closed listener refuses it: the error is logged and the peer left open.
QueueFails(c) ==
    /\ at[c] = "arriving"
    /\ closed
    /\ LeaveListenEnd(c)
    /\ Goto(c, "done")
    /\ UNCHANGED <<dialVars, lView, acks, toListener, toDialer, runVars, closed>>

\* A worker of the pool takes up a queued connection.
StartWork(c) ==
    /\ at[c] = "queued"
    /\ Cardinality(Running) < Workers
    /\ Goto(c, "receive")
    /\ UNCHANGED <<dialVars, lEnd, lView, acks, toListener, toDialer, runVars, closed>>

\* SetDeadline or the read failed, at the deadline at the latest, the message was no hello,
\* or a connection handler refused the peer.
ReceiveFails(c) ==
    /\ at[c] = "receive"
    /\ CloseListenEnd(c)
    /\ Goto(c, "done")
    /\ UNCHANGED <<dialVars, lView, acks, toListener, toDialer, runVars, closed>>

\* readHello knows the hello by its magic number.
BadMagic(c) == toListener[c] = "unknown"

\* BadMagicNumberError: the versions the listener speaks are sent before the close.
ReceiveUnknown(c) ==
    /\ at[c] = "receive"
    /\ BadMagic(c)
    /\ toDialer' = [toDialer EXCEPT ![c] = [kind |-> "versions", view |-> NoView]]
    /\ CloseListenEnd(c)
    /\ Goto(c, "done")
    /\ UNCHANGED <<dialVars, lView, acks, toListener, runVars, closed>>

\* The id of an underlay is the group's or a new one; a group without a secret gets one.
ListenView(c) ==
    LET g == hello[c[1]].group IN
    [id |-> IF g.grouped /\ g.id THEN c[1] ELSE c,
     secret |-> IF g.grouped /\ ~g.secret THEN c ELSE Given(c[1]).secret]

ReceiveHello(c) ==
    /\ at[c] = "receive"
    /\ toListener[c] = "hello"
    /\ lView' = [lView EXCEPT ![c] = ListenView(c)]
    /\ Goto(c, "accept")
    /\ UNCHANGED <<dialVars, lEnd, acks, toListener, toDialer, runVars, closed>>

\* ackHello sends the underlay's id, and the secret among the request's headers: the hello
\* shares their map, so that a new secret is among them.
AckGivenSecret(c) == [lView[c] EXCEPT !.secret = Given(c[1]).secret]
AckView(c) == lView[c]

AckHello(c) ==
    /\ at[c] = "accept"
    /\ hello[c[1]].to \in {"create", "legacy"}
    /\ toDialer' = [toDialer EXCEPT ![c] = [kind |-> "ack", view |-> AckView(c)]]
    /\ acks' = [acks EXCEPT ![c] = @ + 1]
    /\ Goto(c, IF hello[c[1]].to = "create" THEN "handoff" ELSE "app")
    /\ UNCHANGED <<dialVars, lEnd, lView, toListener, runVars, closed>>

\* HelloAcceptorF closes the underlay when the ack fails.
AckFailureIgnored(c) == UNCHANGED lEnd
CloseUnacked(c) == CloseListenEnd(c)

AckFails(c) ==
    /\ at[c] = "accept"
    /\ hello[c[1]].to \in {"create", "legacy"}
    /\ CloseUnacked(c)
    /\ Goto(c, "clear")
    /\ UNCHANGED <<dialVars, lView, acks, toListener, toDialer, runVars, closed>>

\* RejectHello: the underlay is closed whether or not the refusal could be sent.
RejectHello(c) ==
    /\ at[c] = "accept"
    /\ hello[c[1]].to = "refuse"
    /\ \/ toDialer' = [toDialer EXCEPT ![c] = [kind |-> "refusal", view |-> NoView]]
       \/ UNCHANGED toDialer
    /\ CloseListenEnd(c)
    /\ Goto(c, "clear")
    /\ UNCHANGED <<dialVars, lView, acks, toListener, runVars, closed>>

Unrouted(c) ==
    /\ at[c] = "accept"
    /\ hello[c[1]].to = "unrouted"
    /\ CloseListenEnd(c)
    /\ Goto(c, "clear")
    /\ UNCHANGED <<dialVars, lView, acks, toListener, toDialer, runVars, closed>>

\* The UnderlayAcceptor behind AsHelloAcceptor takes the underlay or it is closed.
AcceptLegacy(c) ==
    /\ at[c] = "app"
    /\ \/ lEnd' = [lEnd EXCEPT ![c] = "owned"]
       \/ CloseListenEnd(c)
    /\ Goto(c, "clear")
    /\ UNCHANGED <<dialVars, lView, acks, toListener, toDialer, runVars, closed>>

\* created <- underlay, against listener.close: the acceptor returns and the underlay is left open.
HandoffIgnoresClose(c) == FALSE
HandoffFails(c) ==
    /\ at[c] = "handoff"
    /\ closed
    /\ LeaveListenEnd(c)
    /\ Goto(c, "clear")
    /\ UNCHANGED <<dialVars, lView, acks, toListener, toDialer, runVars, closed>>

\* The deadline is cleared when the acceptor has returned, or the connection closed.
ClearDeadline(c) ==
    /\ at[c] = "clear"
    /\ \/ UNCHANGED lEnd
       \/ CloseListenEnd(c)
    /\ Goto(c, "done")
    /\ UNCHANGED <<dialVars, lView, acks, toListener, toDialer, runVars, closed>>

CloseListener ==
    /\ ~closed
    /\ closed' = TRUE
    /\ UNCHANGED <<dialVars, listenVars, toListener, toDialer, runVars>>

-----------------------------------------------------------------------------
(* The dispatcher *)

\* Create returns an underlay, ...
Create(c) ==
    /\ run = "create"
    /\ at[c] = "handoff"
    /\ run' = "dispatch" /\ taken' = c
    /\ Goto(c, "clear")
    /\ UNCHANGED <<dialVars, lEnd, lView, acks, toListener, toDialer, closed>>

\* ... or ListenerClosedError, whose text ends the loop.
AfterClosedError == "ended"

CreateFails ==
    /\ run = "create"
    /\ closed
    /\ run' = AfterClosedError
    /\ UNCHANGED <<taken, dialVars, listenVars, toListener, toDialer, closed>>

\* The acceptor for the type takes the underlay; without one, or when it fails, the
\* underlay is closed.
Dispatch ==
    /\ run = "dispatch"
    /\ \/ lEnd[taken] # "closed" /\ lEnd' = [lEnd EXCEPT ![taken] = "owned"]
       \/ CloseListenEnd(taken)
    /\ run' = "create" /\ taken' = None
    /\ UNCHANGED <<dialVars, at, lView, acks, toListener, toDialer, closed>>

-----------------------------------------------------------------------------
(* Specification *)

Init ==
    /\ hello \in Hellos
    /\ dial = [d \in Dialer |-> "dial"]
    /\ tries = [d \in Dialer |-> 0]
    /\ dView = [d \in Dialer |-> NoView] /\ lView = [c \in Conn |-> NoView]
    /\ dEnd = [c \in Conn |-> "none"] /\ lEnd = [c \in Conn |-> "none"]
    /\ toListener = [c \in Conn |-> "none"]
    /\ toDialer = [c \in Conn |-> [kind |-> "none", view |-> NoView]]
    /\ at = [c \in Conn |-> "none"]
    /\ acks = [c \in Conn |-> 0]
    /\ run = "create" /\ taken = None
    /\ closed = FALSE

Dial(d) ==
    \/ DialFails(d) \/ Connect(d) \/ SendHello(d) \/ SendHelloFails(d) \/ ReadAck(d) \/ ReadFailure(d)

\* What acceptConnection and a worker do with a connection.
Serve(c) ==
    \/ QueueConnection(c) \/ QueueFails(c)
    \/ ReceiveFails(c) \/ ReceiveUnknown(c) \/ ReceiveHello(c)
    \/ AckHello(c) \/ AckFails(c) \/ RejectHello(c) \/ Unrouted(c)
    \/ AcceptLegacy(c) \/ HandoffFails(c) \/ ClearDeadline(c)

Listen(c) == Serve(c) \/ StartWork(c)

Dispatcher == (\E c \in Conn : Create(c)) \/ CreateFails \/ Dispatch

Next ==
    \/ \E d \in Dialer : Dial(d)
    \/ \E c \in Conn : Listen(c)
    \/ Dispatcher
    \/ CloseListener

Spec == Init /\ [][Next]_vars

\* Every goroutine that can run does: the deadlines end the reads.  The workers take up queued
\* connections while the listener is open; nothing says they still do after that.
Fairness ==
    /\ \A d \in Dialer : WF_vars(Dial(d))
    /\ \A c \in Conn : WF_vars(Serve(c)) /\ WF_vars(~closed /\ StartWork(c))
    /\ WF_vars(Dispatcher)

FairSpec == Spec /\ Fairness

-----------------------------------------------------------------------------
(* Properties *)

\* Both ends of an underlay of a group agree on the group's id and secret, whichever of
\* them the dialer left to the listener: the dialer's next underlay reaches the channel.
EndsAgree ==
    \A d \in Dialer : dial[d] = "ok" /\ hello[d].group.grouped => dView[d] = lView[Current(d)]

\* A connection that the listener is done with and has left open, though nobody owns it: the pool
\* refused it (classic_listener.go:255-257), or the acceptor of NewClassicListener had acknowledged
\* its hello and could not hand it over (classic_listener.go:145).
LeftByClose(c) ==
    /\ closed /\ lEnd[c] = "left"
    /\ \/ lView[c] = NoView /\ acks[c] = 0
       \/ hello[c[1]].to = "create" /\ acks[c] = 1

\* Only a listener that closes leaves a connection open that nobody owns, and only in two places.
\* A dial that returns an error has closed its ends, however its tries failed
\* (classic_dialer.go:165-172).  A connection that the listener is done with is closed, or owned by
\* the application after one acknowledgement (hello_acceptor.go:20-22), or one of LeftByClose.  A
\* connection that is still queued when the listener closes is not done with: ConnectionsHandled.
LeftOpenOnlyByClose ==
    /\ \A d \in Dialer : dial[d] \in {"refused", "error"} =>
          \A n \in {1, 2} : dEnd[<<d, n>>] # "open"
    /\ \A c \in Conn : at[c] = "done" /\ taken # c =>
          \/ lEnd[c] = "closed"
          \/ lEnd[c] = "owned" /\ acks[c] = 1
          \/ LeftByClose(c)

\* A connection that reaches the listener is dealt with, unless the listener closes while it is in
\* the pool's queue, where it may then stay, open (classic_listener.go:88).  One that a worker has
\* taken up is dealt with in any case, and frees its worker: no acceptor waits for ever, not even
\* that of NewClassicListener when the listener closes before Create is called.
ConnectionsHandled ==
    \A c \in Conn : at[c] \in {"arriving"} \cup Busy ~> at[c] = "done" \/ (closed /\ at[c] = "queued")

=============================================================================
