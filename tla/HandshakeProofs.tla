--------------------------- MODULE HandshakeProofs ---------------------------
(***************************************************************************)
(* Proofs about Handshake, for any dialers, hellos, queue and pool sizes.  *)
(***************************************************************************)
EXTENDS Handshake, TLAPS

-----------------------------------------------------------------------------
(* The inductive invariant *)

\* A call of CreateWithHeaders has at most the connection of its current try open, and only
\* while it is under way or after it succeeded; what it returned is what the listener
\* acknowledged.
DialerInv(d) ==
    /\ dial[d] = "dial" => tries[d] < 2
    /\ \A n \in {1, 2} :
        /\ dEnd[<<d, n>>] = "open" => n = tries[d] /\ dial[d] \in {"hello", "result", "ok"}
        /\ n > tries[d] => at[<<d, n>>] = "none"
    /\ dial[d] = "ok" => Success(Response(d)) /\ dView[d] = DialView(d)

\* The listener has not answered the hello.
Unanswered(c) == at[c] \in {"none", "arriving", "queued", "receive", "accept"}

\* The listener has refused the connection or its acceptor has returned, and no dispatcher has
\* the underlay.
Settled(c) == at[c] \in {"clear", "done"} /\ taken # c

\* A connection is acknowledged at most once, with the view that the listener keeps, and in the
\* end somebody owns its underlay, or it is closed, or the closing of the listener left it open.
ConnInv(c) ==
    /\ Unanswered(c) => acks[c] = 0 /\ ~Success(toDialer[c])
    /\ Unanswered(c) /\ at[c] # "accept" => lView[c] = NoView
    /\ at[c] \in {"accept", "handoff", "app"} => lView[c] = ListenView(c)
    /\ Success(toDialer[c]) => lView[c] = ListenView(c) /\ toDialer[c].view = lView[c]
    /\ at[c] \in {"handoff", "app"} \/ taken = c => acks[c] = 1
    /\ at[c] = "handoff" => hello[c[1]].to = "create"
    /\ taken = c => at[c] \in {"clear", "done"}
    /\ Settled(c) => \/ lEnd[c] = "closed"
                     \/ lEnd[c] = "owned" /\ acks[c] = 1
                     \/ LeftByClose(c)

HandshakeInv ==
    /\ TypeOK
    /\ \A d \in Dialer : DialerInv(d)
    /\ \A c \in Conn : ConnInv(c)

-----------------------------------------------------------------------------
(* Views *)

\* A dialer's connections.
LEMMA ConnNames ==
    /\ \A d \in Dialer, n \in {1, 2} : <<d, n>> \in Conn
    /\ \A c \in Conn : c[1] \in Dialer /\ c[2] \in {1, 2} /\ c = <<c[1], c[2]>>
  BY DEF Conn

\* The dialer sends its headers, the listener the views that newly made values complete.
LEMMA ViewTypes ==
    ASSUME TypeOK
    PROVE  /\ NoView \in View
           /\ \A c \in Conn : ListenView(c) \in View
           /\ \A d \in Dialer : Response(d).view \in View => DialView(d) \in View
<1>1. \A d \in Dialer : Given(d).id \in Value /\ Given(d).secret \in Value
  BY Zenon DEF Given, Value
<1>2. ASSUME NEW c \in Conn
      PROVE  ListenView(c) \in View
  BY <1>1, ConnNames, Zenon DEF ListenView, View, Value
<1>3. ASSUME NEW d \in Dialer, Response(d).view \in View
      PROVE  DialView(d) \in View
  BY <1>1, <1>3, Zenon DEF DialView, View
<1>4. NoView \in View
  BY Zenon DEF NoView, View, Value
<1>5. QED
  BY <1>2, <1>3, <1>4, Zenon

\* What a hello says does not change, nor then what is made of it.
LEMMA SameViews ==
    ASSUME hello' = hello
    PROVE  /\ \A c \in Conn : ListenView(c)' = ListenView(c)
           /\ \A d \in Dialer : Given(d)' = Given(d)
  BY Zenon DEF ListenView, Given

\* The connection of a call that has made one.
LEMMA CurrentIsConn ==
    ASSUME TypeOK, NEW d \in Dialer, dial[d] \in {"hello", "result", "ok"}
    PROVE  tries[d] \in {1, 2} /\ Current(d) \in Conn
<1>1. tries[d] \in 0..2 /\ tries[d] > 0
  BY Zenon DEF TypeOK
<1>2. tries[d] \in {1, 2}
  BY <1>1
<1>3. QED
  BY <1>2, ConnNames, Zenon DEF Current

-----------------------------------------------------------------------------
(* The dialer's steps *)

\* A connection that no step has touched.
LEMMA SameConn ==
    ASSUME NEW c \in Conn, ConnInv(c), hello' = hello, taken' = taken, closed' = closed,
           at'[c] = at[c], lEnd'[c] = lEnd[c], lView'[c] = lView[c], acks'[c] = acks[c],
           toDialer'[c] = toDialer[c]
    PROVE  ConnInv(c)'
<1>1. ListenView(c)' = ListenView(c)
  BY SameViews, Zenon
<1>2. QED
  BY <1>1, Zenon DEF ConnInv, Unanswered, Settled, LeftByClose, Success, NoView

\* Each step of a call leaves the listener's side alone, but for the connection that Connect makes.
LEMMA DialKeepsConns ==
    ASSUME HandshakeInv, NEW d \in Dialer, Dial(d), NEW c \in Conn
    PROVE  ConnInv(c)'
<1>1. ConnInv(c) /\ hello' = hello /\ taken' = taken /\ closed' = closed
      /\ lView' = lView /\ acks' = acks /\ toDialer' = toDialer
  BY Zenon DEF HandshakeInv, Dial, DialFails, Connect, SendHello, SendHelloFails, ReadAck,
     ReadFailure, listenVars, runVars
<1>2. CASE at'[c] = at[c] /\ lEnd'[c] = lEnd[c]
  BY <1>1, <1>2, SameConn, Zenon
<1>3. CASE Connect(d) /\ c = <<d, tries[d] + 1>>
  <2>1. tries[d] \in 0..2 /\ tries[d] < 2
    <3>1. TypeOK /\ DialerInv(d) /\ dial[d] = "dial"
      BY <1>3, Zenon DEF Connect, HandshakeInv
    <3>2. QED
      BY <3>1, Zenon DEF TypeOK, DialerInv
  <2>2. tries[d] + 1 \in {1, 2} /\ tries[d] + 1 > tries[d]
    BY <2>1
  <2>3. at[c] = "none"
    BY <1>3, <2>2, Zenon DEF HandshakeInv, DialerInv
  <2>4. at'[c] = "arriving"
    BY <1>3, Zenon DEF Connect, HandshakeInv, TypeOK
  <2>5. ListenView(c)' = ListenView(c)
    BY <1>1, SameViews, Zenon
  <2>6. QED
    BY <1>1, <2>3, <2>4, <2>5, Zenon DEF ConnInv, Unanswered, Settled, LeftByClose, Success, NoView
<1>4. CASE Connect(d) /\ c # <<d, tries[d] + 1>>
  BY <1>2, <1>4, Zenon DEF Connect, HandshakeInv, TypeOK
<1>5. CASE ~Connect(d)
  BY <1>2, <1>5, Zenon DEF Dial, DialFails, SendHello, SendHelloFails, ReadAck, ReadFailure,
     listenVars
<1>6. QED
  BY <1>3, <1>4, <1>5, Zenon

\* A call that no step has touched.
LEMMA SameDialer ==
    ASSUME NEW d \in Dialer, TypeOK, DialerInv(d), hello' = hello, dial'[d] = dial[d], tries'[d] = tries[d],
           dView'[d] = dView[d], \A n \in {1, 2} : dEnd'[<<d, n>>] = dEnd[<<d, n>>],
           \A n \in {1, 2} : at'[<<d, n>>] = "none" <=> at[<<d, n>>] = "none",
           \A c \in Conn : Success(toDialer[c]) => toDialer'[c] = toDialer[c]
    PROVE  DialerInv(d)'
<1>1. CASE dial[d] = "ok"
  <2>1. Current(d)' = Current(d) /\ Response(d)' = Response(d)
    BY <1>1, CurrentIsConn, Zenon DEF Response, DialerInv, Current
  <2>2. DialView(d)' = DialView(d)
    BY <2>1, SameViews, Zenon DEF DialView
  <2>3. QED
    BY <2>1, <2>2, Zenon DEF DialerInv, Success
<1>2. CASE dial[d] # "ok"
  BY <1>2, Zenon DEF DialerInv
<1>3. QED
  BY <1>1, <1>2, Zenon

\* The steps of a call.
LEMMA DialKeepsDialers ==
    ASSUME HandshakeInv, NEW d \in Dialer, Dial(d), NEW e \in Dialer
    PROVE  DialerInv(e)'
<1>1. TypeOK /\ DialerInv(d) /\ DialerInv(e)
  BY Zenon DEF HandshakeInv
<1>2. CASE e # d
  <2>1. /\ hello' = hello /\ toDialer' = toDialer
        /\ dial'[e] = dial[e] /\ tries'[e] = tries[e] /\ dView'[e] = dView[e]
    BY <1>1, <1>2, Zenon DEF Dial, DialFails, Connect, SendHello, SendHelloFails, ReadAck,
       ReadFailure, TypeOK
  <2>2. \A m : \A n \in {1, 2} : <<e, n>> \in Conn /\ <<e, n>> # <<d, m>>
    BY <1>2, ConnNames, Zenon
  <2>3. \/ UNCHANGED dEnd
        \/ \E m, v : dEnd' = [dEnd EXCEPT ![<<d, m>>] = v]
    BY Zenon DEF Dial, DialFails, Connect, SendHello, SendHelloFails, ReadAck, ReadFailure,
       CloseOnFailure, CloseDialEnd, Current
  <2>4. \A n \in {1, 2} : dEnd'[<<e, n>>] = dEnd[<<e, n>>]
    BY <1>1, <2>2, <2>3, Zenon DEF TypeOK
  <2>5. UNCHANGED at \/ \E m, v : at' = [at EXCEPT ![<<d, m>>] = v]
    BY Zenon DEF Dial, DialFails, Connect, SendHello, SendHelloFails, ReadAck, ReadFailure, listenVars
  <2>6. \A n \in {1, 2} : at'[<<e, n>>] = at[<<e, n>>]
    BY <1>1, <2>2, <2>5, Zenon DEF TypeOK
  <2>7. QED
    BY <1>1, <2>1, <2>4, <2>6, SameDialer, Zenon
<1>3. CASE DialFails(d) /\ e = d
  <2>1. dial[d] = "dial" /\ dial'[d] = "error" /\ UNCHANGED <<tries, dEnd, at>>
    BY <1>1, <1>3, Zenon DEF DialFails, TypeOK, listenVars
  <2>2. QED
    BY <1>1, <1>3, <2>1, Zenon DEF DialerInv
<1>4. CASE Connect(d) /\ e = d
  <2>1. /\ dial[d] = "dial" /\ dial'[d] = "hello"
        /\ tries[d] \in {0, 1} /\ tries'[d] = tries[d] + 1
    BY <1>1, <1>4 DEF Connect, TypeOK, DialerInv
  <2>2. \A n \in {1, 2} : n # tries[d] + 1 =>
            dEnd'[<<d, n>>] = dEnd[<<d, n>>] /\ at'[<<d, n>>] = at[<<d, n>>]
    BY <1>1, <1>4, ConnNames, Zenon DEF Connect, TypeOK
  <2>3. QED
    BY <1>1, <1>4, <2>1, <2>2 DEF DialerInv
<1>5. CASE SendHello(d) /\ e = d
  <2>1. dial[d] = "hello" /\ dial'[d] = "result" /\ UNCHANGED <<tries, dEnd, at>>
    BY <1>1, <1>5, Zenon DEF SendHello, TypeOK, listenVars
  <2>2. QED
    BY <1>1, <1>5, <2>1, Zenon DEF DialerInv
<1>6. CASE ReadAck(d) /\ e = d
  <2>1. dial[d] = "result" /\ dial'[d] = "ok" /\ UNCHANGED <<hello, tries, dEnd, at, toDialer>>
    BY <1>1, <1>6, Zenon DEF ReadAck, TypeOK, listenVars
  <2>2. Success(Response(d)) /\ dView'[d] = DialView(d)
    BY <1>1, <1>6, Zenon DEF ReadAck, TypeOK
  <2>3. Response(d)' = Response(d) /\ DialView(d)' = DialView(d)
    BY <2>1, SameViews, Zenon DEF Response, Current, DialView
  <2>4. QED
    BY <1>1, <1>6, <2>1, <2>2, <2>3, Zenon DEF DialerInv, Success
<1>7. CASE (SendHelloFails(d) \/ ReadFailure(d)) /\ e = d
  <2>1. /\ dial[d] \in {"hello", "result"} /\ UNCHANGED <<tries, at>>
        /\ dEnd' = [dEnd EXCEPT ![Current(d)] = "closed"]
    BY <1>7, Zenon DEF SendHelloFails, ReadFailure, CloseOnFailure, CloseDialEnd, listenVars
  <2>2. /\ dial'[d] \in {"dial", "refused", "error"}
        /\ dial'[d] = "dial" => tries[d] < 2
    BY <1>1, <1>7, Zenon DEF SendHelloFails, ReadFailure, Retries, TypeOK
  <2>3. Current(d) \in Conn
    BY <1>1, <2>1, CurrentIsConn, Zenon
  <2>4. \A n \in {1, 2} : dEnd'[<<d, n>>] # "open"
    BY <1>1, <2>1, <2>3, ConnNames, Zenon DEF DialerInv, TypeOK, Current
  <2>5. QED
    BY <1>1, <1>7, <2>1, <2>2, <2>4, Zenon DEF DialerInv
<1>8. QED
  BY <1>2, <1>3, <1>4, <1>5, <1>6, <1>7, Zenon DEF Dial

\* Types, in the steps of a call.
LEMMA DialKeepsType ==
    ASSUME HandshakeInv, NEW d \in Dialer, Dial(d)
    PROVE  TypeOK'
<1>1. TypeOK /\ DialerInv(d)
  BY Zenon DEF HandshakeInv
<1>2. /\ hello' = hello /\ lView' = lView /\ acks' = acks /\ toDialer' = toDialer
      /\ run' = run /\ taken' = taken /\ closed' = closed
  BY Zenon DEF Dial, DialFails, Connect, SendHello, SendHelloFails, ReadAck, ReadFailure,
     listenVars, runVars
<1>3. /\ dial' \in [Dialer -> {"dial", "hello", "result"} \cup Result]
      /\ dial' = [dial EXCEPT ![d] = dial'[d]]
  BY <1>1, Zenon DEF Dial, DialFails, Connect, SendHello, SendHelloFails, ReadAck, ReadFailure,
     TypeOK, Result
<1>4. tries' \in [Dialer -> 0..2] /\ \A e \in Dialer : dial'[e] \in {"hello", "result", "ok"} => tries'[e] > 0
  <2>1. CASE Connect(d)
    BY <1>1, <2>1, SMTT(30) DEF Connect, TypeOK, DialerInv
  <2>2. CASE ~Connect(d)
    <3>1. tries' = tries /\ (dial'[d] \in {"hello", "result", "ok"} => dial[d] \in {"hello", "result"})
      BY <1>1, <2>2, Zenon DEF Dial, DialFails, SendHello, SendHelloFails, ReadAck, ReadFailure,
         TypeOK
    <3>2. QED
      BY <1>1, <1>3, <3>1, Zenon DEF TypeOK
  <2>3. QED
    BY <2>1, <2>2, Zenon
<1>5. dView' \in [Dialer -> View]
  <2>1. CASE ReadAck(d)
    <3>1. Current(d) \in Conn
      BY <1>1, <2>1, CurrentIsConn, Zenon DEF ReadAck
    <3>2. Response(d).view \in View
      BY <1>1, <3>1, Zenon DEF Response, TypeOK
    <3>3. DialView(d) \in View
      BY <1>1, <3>2, ViewTypes, Zenon
    <3>4. QED
      BY <1>1, <2>1, <3>3, Zenon DEF ReadAck, TypeOK
  <2>2. CASE ~ReadAck(d)
    BY <1>1, <2>2, Zenon DEF Dial, DialFails, Connect, SendHello, SendHelloFails, ReadFailure,
       TypeOK
  <2>3. QED
    BY <2>1, <2>2, Zenon
<1>6. /\ dEnd' \in [Conn -> {"none", "open", "closed"}]
      /\ toListener' \in [Conn -> {"none", "hello", "unknown"}]
  BY <1>1, Zenon DEF Dial, DialFails, Connect, SendHello, SendHelloFails, ReadAck, ReadFailure,
     TypeOK, CloseOnFailure, CloseDialEnd
<1>7. /\ lEnd' \in [Conn -> {"none", "open", "owned", "left", "closed"}]
      /\ at' \in [Conn -> {"none", "arriving", "queued", "done"} \cup Busy]
  BY <1>1, Zenon DEF Dial, DialFails, Connect, SendHello, SendHelloFails, ReadAck, ReadFailure,
     TypeOK, listenVars
<1>8. QED
  BY <1>1, <1>2, <1>3, <1>4, <1>5, <1>6, <1>7, Zenon DEF TypeOK

-----------------------------------------------------------------------------
(* The listener's steps *)

\* A step with one connection touches no other, and neither the dialers nor the dispatcher.
LEMMA ListenEffect ==
    ASSUME TypeOK, NEW c \in Conn, Listen(c)
    PROVE  /\ UNCHANGED <<hello, dial, tries, dView, dEnd, toListener, run, taken, closed>>
           /\ at[c] # "none" /\ at'[c] # "none"
           /\ \A b \in Conn \ {c} : /\ at'[b] = at[b] /\ lEnd'[b] = lEnd[b] /\ lView'[b] = lView[b]
                                    /\ acks'[b] = acks[b] /\ toDialer'[b] = toDialer[b]
<1>1. UNCHANGED <<hello, dial, tries, dView, dEnd, toListener, run, taken, closed>>
  BY Zenon DEF Listen, Serve, QueueConnection, QueueFails, StartWork, ReceiveFails, ReceiveUnknown,
     ReceiveHello, AckHello, AckFails, RejectHello, Unrouted, AcceptLegacy, HandoffFails,
     ClearDeadline, dialVars, runVars
<1>2. at[c] # "none" /\ \E l \in {"queued", "done", "receive", "accept", "handoff", "app", "clear"} : Goto(c, l)
  BY Zenon DEF Listen, Serve, QueueConnection, QueueFails, StartWork, ReceiveFails, ReceiveUnknown,
     ReceiveHello, AckHello, AckFails, RejectHello, Unrouted, AcceptLegacy, HandoffFails, ClearDeadline
<1>3. at'[c] # "none" /\ \A b \in Conn \ {c} : at'[b] = at[b]
  BY <1>2, Zenon DEF Goto, TypeOK
<1>4. \A b \in Conn \ {c} : lEnd'[b] = lEnd[b]
  BY Zenon DEF Listen, Serve, QueueConnection, QueueFails, StartWork, ReceiveFails, ReceiveUnknown,
     ReceiveHello, AckHello, AckFails, RejectHello, Unrouted, AcceptLegacy, HandoffFails,
     ClearDeadline, CloseListenEnd, LeaveListenEnd, CloseUnacked, TypeOK
<1>5. \A b \in Conn \ {c} : lView'[b] = lView[b] /\ acks'[b] = acks[b]
  BY Zenon DEF Listen, Serve, QueueConnection, QueueFails, StartWork, ReceiveFails, ReceiveUnknown,
     ReceiveHello, AckHello, AckFails, RejectHello, Unrouted, AcceptLegacy, HandoffFails,
     ClearDeadline, TypeOK
<1>6. \A b \in Conn \ {c} : toDialer'[b] = toDialer[b]
  BY Zenon DEF Listen, Serve, QueueConnection, QueueFails, StartWork, ReceiveFails, ReceiveUnknown,
     ReceiveHello, AckHello, AckFails, RejectHello, Unrouted, AcceptLegacy, HandoffFails,
     ClearDeadline, TypeOK
<1>7. QED
  BY <1>1, <1>2, <1>3, <1>4, <1>5, <1>6, Zenon

\* The steps with a connection.
LEMMA ListenKeepsConns ==
    ASSUME HandshakeInv, NEW c \in Conn, Listen(c), NEW b \in Conn
    PROVE  ConnInv(b)'
<1>1. TypeOK /\ ConnInv(c) /\ ConnInv(b)
  BY Zenon DEF HandshakeInv
<1>2. CASE b # c
  BY <1>1, <1>2, ListenEffect, SameConn, Zenon
<1>3. ASSUME b = c
      PROVE  ConnInv(c)'
  <2>1. hello' = hello /\ taken' = taken /\ closed' = closed /\ ListenView(c)' = ListenView(c)
    BY <1>1, ListenEffect, SameViews, Zenon
  <2>2. CASE QueueConnection(c) \/ QueueFails(c) \/ StartWork(c)
    <3>1. /\ at[c] \in {"arriving", "queued"} /\ at'[c] \in {"queued", "receive", "done"}
          /\ UNCHANGED <<lView, acks, toDialer>>
          /\ at'[c] = "done" => closed /\ lEnd'[c] = "left"
      BY <1>1, <2>2, Zenon DEF QueueConnection, QueueFails, StartWork, LeaveListenEnd, Goto, TypeOK
    <3>2. QED
      BY <1>1, <2>1, <3>1, Zenon DEF ConnInv, Unanswered, Settled, LeftByClose, Success, NoView
  <2>3. CASE ReceiveFails(c) \/ ReceiveUnknown(c)
    <3>1. /\ at[c] = "receive" /\ at'[c] = "done" /\ UNCHANGED <<lView, acks>>
          /\ lEnd'[c] = "closed"
      BY <1>1, <2>3, Zenon DEF ReceiveFails, ReceiveUnknown, CloseListenEnd, Goto, TypeOK
    <3>2. ~Success(toDialer[c])'
      BY <1>1, <2>3, <3>1 DEF ReceiveFails, ReceiveUnknown, ConnInv, Unanswered, Success, TypeOK
    <3>3. QED
      BY <1>1, <2>1, <3>1, <3>2, Zenon DEF ConnInv, Unanswered, Settled, LeftByClose, NoView
  <2>4. CASE ReceiveHello(c)
    <3>1. /\ at[c] = "receive" /\ at'[c] = "accept" /\ UNCHANGED <<acks, toDialer>>
          /\ lView'[c] = ListenView(c)
      BY <1>1, <2>4, Zenon DEF ReceiveHello, Goto, TypeOK
    <3>2. QED
      BY <1>1, <2>1, <3>1, Zenon DEF ConnInv, Unanswered, Settled, LeftByClose, Success, NoView
  <2>5. CASE AckHello(c)
    <3>1. at[c] = "accept" /\ at'[c] = IF hello[c[1]].to = "create" THEN "handoff" ELSE "app"
      BY <1>1, <2>5, Zenon DEF AckHello, Goto, TypeOK
    <3>2. acks'[c] = 1 /\ lView' = lView /\ lView[c] = ListenView(c) /\ toDialer'[c].view = lView[c]
      BY <1>1, <2>5, <3>1 DEF AckHello, AckView, ConnInv, Unanswered, TypeOK
    <3>3. QED
      BY <1>1, <2>1, <3>1, <3>2, Zenon DEF ConnInv, Unanswered, Settled, LeftByClose
  <2>6. CASE AckFails(c) \/ RejectHello(c) \/ Unrouted(c)
    <3>1. /\ at[c] = "accept" /\ at'[c] = "clear" /\ UNCHANGED <<lView, acks>>
          /\ lEnd'[c] = "closed"
      BY <1>1, <2>6, Zenon DEF AckFails, RejectHello, Unrouted, CloseUnacked, CloseListenEnd, Goto,
         TypeOK
    <3>2. ~Success(toDialer[c])'
      BY <1>1, <2>6, <3>1 DEF AckFails, RejectHello, Unrouted, ConnInv, Unanswered, Success, TypeOK
    <3>3. QED
      BY <1>1, <2>1, <3>1, <3>2, Zenon DEF ConnInv, Unanswered, Settled, LeftByClose
  <2>7. CASE AcceptLegacy(c)
    <3>1. /\ at[c] = "app" /\ at'[c] = "clear" /\ UNCHANGED <<lView, acks, toDialer>>
          /\ lEnd'[c] \in {"owned", "closed"}
      BY <1>1, <2>7, Zenon DEF AcceptLegacy, CloseListenEnd, Goto, TypeOK
    <3>2. QED
      BY <1>1, <2>1, <3>1, Zenon DEF ConnInv, Unanswered, Settled, LeftByClose, Success
  <2>8. CASE HandoffFails(c)
    <3>1. /\ at[c] = "handoff" /\ at'[c] = "clear" /\ UNCHANGED <<lView, acks, toDialer>>
          /\ closed /\ lEnd'[c] = "left"
      BY <1>1, <2>8, Zenon DEF HandoffFails, LeaveListenEnd, Goto, TypeOK
    <3>2. QED
      BY <1>1, <2>1, <3>1, Zenon DEF ConnInv, Unanswered, Settled, LeftByClose, Success
  <2>9. CASE ClearDeadline(c)
    <3>1. /\ at[c] = "clear" /\ at'[c] = "done" /\ UNCHANGED <<lView, acks, toDialer>>
          /\ lEnd'[c] \in {lEnd[c], "closed"}
      BY <1>1, <2>9, Zenon DEF ClearDeadline, CloseListenEnd, Goto, TypeOK
    <3>2. QED
      BY <1>1, <2>1, <3>1, Zenon DEF ConnInv, Unanswered, Settled, LeftByClose, Success, NoView
  <2>10. QED
    BY <2>2, <2>3, <2>4, <2>5, <2>6, <2>7, <2>8, <2>9, Zenon DEF Listen, Serve
<1>4. QED
  BY <1>2, <1>3, Zenon

\* The listener answers a hello once: a dialer that has its answer keeps it.
LEMMA ListenKeepsDialers ==
    ASSUME HandshakeInv, NEW c \in Conn, Listen(c), NEW d \in Dialer
    PROVE  DialerInv(d)'
<1>1. TypeOK /\ DialerInv(d) /\ ConnInv(c)
  BY Zenon DEF HandshakeInv
<1>2. Success(toDialer[c]) => toDialer'[c] = toDialer[c]
  <2>1. CASE ReceiveUnknown(c) \/ AckHello(c) \/ RejectHello(c)
    BY <1>1, <2>1, Zenon DEF ReceiveUnknown, AckHello, RejectHello, ConnInv, Unanswered
  <2>2. CASE ~(ReceiveUnknown(c) \/ AckHello(c) \/ RejectHello(c))
    BY <2>2, Zenon DEF Listen, Serve, QueueConnection, QueueFails, StartWork, ReceiveFails, ReceiveHello,
       AckFails, Unrouted, AcceptLegacy, HandoffFails, ClearDeadline
  <2>3. QED
    BY <2>1, <2>2, Zenon
<1>3. /\ UNCHANGED <<hello, dial, tries, dView, dEnd>>
      /\ at[c] # "none" /\ at'[c] # "none"
      /\ \A b \in Conn \ {c} : at'[b] = at[b] /\ toDialer'[b] = toDialer[b]
  BY <1>1, ListenEffect, Zenon
<1>4. \A n \in {1, 2} : at'[<<d, n>>] = "none" <=> at[<<d, n>>] = "none"
  BY <1>3, ConnNames, Zenon
<1>5. \A b \in Conn : Success(toDialer[b]) => toDialer'[b] = toDialer[b]
  BY <1>2, <1>3, Zenon
<1>6. QED
  BY <1>1, <1>3, <1>4, <1>5, SameDialer, Zenon

\* Types, in the steps with a connection.
LEMMA ListenKeepsType ==
    ASSUME HandshakeInv, NEW c \in Conn, Listen(c)
    PROVE  TypeOK'
<1>1. TypeOK /\ ConnInv(c)
  BY Zenon DEF HandshakeInv
<1>2. UNCHANGED <<hello, dial, tries, dView, dEnd, toListener, run, taken, closed>>
  BY <1>1, ListenEffect, Zenon
<1>3. \E l \in {"queued", "done", "receive", "accept", "handoff", "app", "clear"} : Goto(c, l)
  BY Zenon DEF Listen, Serve, QueueConnection, QueueFails, StartWork, ReceiveFails, ReceiveUnknown,
     ReceiveHello, AckHello, AckFails, RejectHello, Unrouted, AcceptLegacy, HandoffFails, ClearDeadline
<1>4. at' \in [Conn -> {"none", "arriving", "queued", "done"} \cup Busy]
  BY <1>1, <1>3, Zenon DEF TypeOK, Goto, Busy
<1>5. lEnd' \in [Conn -> {"none", "open", "owned", "left", "closed"}]
  BY <1>1, Zenon DEF Listen, Serve, QueueConnection, QueueFails, StartWork, ReceiveFails, ReceiveUnknown,
     ReceiveHello, AckHello, AckFails, RejectHello, Unrouted, AcceptLegacy, HandoffFails,
     ClearDeadline, CloseListenEnd, LeaveListenEnd, CloseUnacked, TypeOK
<1>6. lView' \in [Conn -> View]
  <2>1. ListenView(c) \in View
    BY <1>1, ViewTypes, Zenon
  <2>2. QED
    BY <1>1, <2>1, Zenon DEF Listen, Serve, QueueConnection, QueueFails, StartWork, ReceiveFails,
       ReceiveUnknown, ReceiveHello, AckHello, AckFails, RejectHello, Unrouted, AcceptLegacy,
       HandoffFails, ClearDeadline, TypeOK
<1>7. acks' \in [Conn -> 0..1]
  <2>1. CASE AckHello(c)
    <3>1. acks[c] = 0 /\ acks' = [acks EXCEPT ![c] = acks[c] + 1]
      BY <1>1, <2>1, Zenon DEF AckHello, ConnInv, Unanswered
    <3>2. acks[c] + 1 \in 0..1
      BY <3>1
    <3>3. QED
      BY <1>1, <3>1, <3>2, Zenon DEF TypeOK
  <2>2. CASE ~AckHello(c)
    BY <1>1, <2>2, Zenon DEF Listen, Serve, QueueConnection, QueueFails, StartWork, ReceiveFails,
       ReceiveUnknown, ReceiveHello, AckFails, RejectHello, Unrouted, AcceptLegacy, HandoffFails,
       ClearDeadline, TypeOK
  <2>3. QED
    BY <2>1, <2>2, Zenon
<1>8. toDialer' \in [Conn -> [kind : {"none", "ack", "refusal", "versions"}, view : View]]
  <2>1. NoView \in View /\ lView[c] \in View
    BY <1>1, ViewTypes, Zenon DEF TypeOK
  <2>2. \/ UNCHANGED toDialer
        \/ \E k \in {"versions", "ack", "refusal"}, v \in {NoView, lView[c]} :
              toDialer' = [toDialer EXCEPT ![c] = [kind |-> k, view |-> v]]
    BY Zenon DEF Listen, Serve, QueueConnection, QueueFails, StartWork, ReceiveFails, ReceiveUnknown,
       ReceiveHello, AckHello, AckView, AckFails, RejectHello, Unrouted, AcceptLegacy, HandoffFails,
       ClearDeadline
  <2>3. CASE UNCHANGED toDialer
    BY <1>1, <2>3, Zenon DEF TypeOK
  <2>4. ASSUME NEW k \in {"versions", "ack", "refusal"}, NEW v \in {NoView, lView[c]},
               toDialer' = [toDialer EXCEPT ![c] = [kind |-> k, view |-> v]]
        PROVE  toDialer' \in [Conn -> [kind : {"none", "ack", "refusal", "versions"}, view : View]]
    <3>1. [kind |-> k, view |-> v] \in [kind : {"none", "ack", "refusal", "versions"}, view : View]
      BY <2>1, Zenon
    <3>2. QED
      BY <1>1, <2>4, <3>1, Zenon DEF TypeOK
  <2>5. QED
    BY <2>2, <2>3, <2>4, Zenon
<1>9. QED
  BY <1>1, <1>2, <1>4, <1>5, <1>6, <1>7, <1>8, Zenon DEF TypeOK

-----------------------------------------------------------------------------
(* The dispatcher's steps, and the close of the listener *)

\* Create takes an underlay from the worker that offers it, acknowledged; Dispatch passes it on.
LEMMA DispatcherKeepsConns ==
    ASSUME HandshakeInv, Dispatcher \/ CloseListener, NEW b \in Conn
    PROVE  ConnInv(b)'
<1>1. TypeOK /\ ConnInv(b)
  BY Zenon DEF HandshakeInv
<1>2. UNCHANGED <<hello, lView, acks, toDialer>> /\ ListenView(b)' = ListenView(b)
  <2>1. UNCHANGED <<hello, lView, acks, toDialer>>
    BY Zenon DEF Dispatcher, Create, CreateFails, Dispatch, CloseListener, dialVars, listenVars
  <2>2. QED
    BY <2>1, SameViews, Zenon
<1>3. ASSUME NEW c \in Conn, Create(c)
      PROVE  ConnInv(b)'
  <2>1. /\ taken = None /\ taken # b /\ taken' = c
        /\ at[c] = "handoff" /\ at' = [at EXCEPT ![c] = "clear"] /\ UNCHANGED <<lEnd, closed>>
    BY <1>1, <1>3, HandshakeAssumption, Zenon DEF Create, Goto, TypeOK
  <2>2. CASE b = c
    BY <1>1, <1>2, <2>1, <2>2, Zenon DEF ConnInv, Unanswered, Settled, LeftByClose, Success, TypeOK
  <2>3. CASE b # c
    <3>1. at'[b] = at[b]
      BY <1>1, <2>1, <2>3, Zenon DEF TypeOK
    <3>2. QED
      BY <1>1, <1>2, <2>1, <2>3, <3>1, Zenon DEF ConnInv, Unanswered, Settled, LeftByClose, Success, NoView
  <2>4. QED
    BY <2>2, <2>3, Zenon
<1>4. CASE CreateFails
  BY <1>1, <1>4, SameConn, Zenon DEF CreateFails, dialVars, listenVars
<1>5. CASE Dispatch
  <2>1. taken' = None /\ taken' # b /\ UNCHANGED <<at, closed>>
    BY <1>5, HandshakeAssumption, Zenon DEF Dispatch
  <2>2. CASE b = taken
    <3>1. lEnd'[b] \in {"owned", "closed"} /\ acks[b] = 1
      BY <1>1, <1>5, <2>2, Zenon DEF Dispatch, CloseListenEnd, TypeOK, ConnInv
    <3>2. QED
      BY <1>1, <1>2, <2>1, <2>2, <3>1, Zenon DEF ConnInv, Unanswered, Settled, LeftByClose, Success
  <2>3. CASE b # taken
    <3>1. lEnd'[b] = lEnd[b]
      BY <1>1, <1>5, <2>3, Zenon DEF Dispatch, CloseListenEnd, TypeOK
    <3>2. QED
      BY <1>1, <1>2, <2>1, <2>3, <3>1, Zenon DEF ConnInv, Unanswered, Settled, LeftByClose, Success, NoView
  <2>4. QED
    BY <2>2, <2>3, Zenon
<1>6. CASE CloseListener
  <2>1. closed' /\ ~closed /\ UNCHANGED <<at, lEnd, taken>>
    BY <1>6, Zenon DEF CloseListener, listenVars, runVars
  <2>2. QED
    BY <1>1, <1>2, <2>1, Zenon DEF ConnInv, Unanswered, Settled, LeftByClose, Success, NoView
<1>7. QED
  BY <1>3, <1>4, <1>5, <1>6, Zenon DEF Dispatcher

\* Neither does anything to a dialer.
LEMMA DispatcherKeepsDialers ==
    ASSUME HandshakeInv, Dispatcher \/ CloseListener, NEW d \in Dialer
    PROVE  DialerInv(d)'
<1>1. TypeOK /\ DialerInv(d)
  BY Zenon DEF HandshakeInv
<1>2. UNCHANGED <<hello, dial, tries, dView, dEnd, toDialer>>
  BY Zenon DEF Dispatcher, Create, CreateFails, Dispatch, CloseListener, dialVars
<1>3. \A b \in Conn : at'[b] = "none" <=> at[b] = "none"
  BY <1>1 DEF Dispatcher, Create, CreateFails, Dispatch, CloseListener, Goto, listenVars, TypeOK
<1>4. QED
  BY <1>1, <1>2, <1>3, ConnNames, SameDialer, Zenon

\* Types, in these steps.
LEMMA DispatcherKeepsType ==
    ASSUME HandshakeInv, Dispatcher \/ CloseListener
    PROVE  TypeOK'
<1>1. TypeOK
  BY Zenon DEF HandshakeInv
<1>2. UNCHANGED <<hello, dial, tries, dView, dEnd, toDialer, toListener, lView, acks>>
  BY Zenon DEF Dispatcher, Create, CreateFails, Dispatch, CloseListener, dialVars, listenVars
<1>3. at' \in [Conn -> {"none", "arriving", "queued", "done"} \cup Busy]
  BY <1>1, SMTT(30) DEF Dispatcher, Create, CreateFails, Dispatch, CloseListener, Goto, listenVars, TypeOK, Busy
<1>4. lEnd' \in [Conn -> {"none", "open", "owned", "left", "closed"}]
  BY <1>1, Zenon DEF Dispatcher, Create, CreateFails, Dispatch, CloseListener, CloseListenEnd,
     listenVars, TypeOK
<1>5. /\ run' \in {"create", "dispatch", "ended"}
      /\ taken' \in Conn \cup {None} /\ (taken' # None <=> run' = "dispatch")
  BY <1>1, HandshakeAssumption DEF Dispatcher, Create, CreateFails, AfterClosedError, Dispatch,
     CloseListener, runVars, TypeOK
<1>6. closed' \in BOOLEAN
  BY <1>1, Zenon DEF Dispatcher, Create, CreateFails, Dispatch, CloseListener, TypeOK
<1>7. QED
  BY <1>1, <1>2, <1>3, <1>4, <1>5, <1>6, Zenon DEF TypeOK

-----------------------------------------------------------------------------
(* The theorems *)

\* Before the first dial.
LEMMA InitHandshake == Init => HandshakeInv
<1> SUFFICES ASSUME Init PROVE HandshakeInv
  BY Zenon
<1>1. NoView \in View
  BY Zenon DEF NoView, View, Value
<1>2. TypeOK
  <2>1. /\ dial \in [Dialer -> {"dial", "hello", "result"} \cup Result] /\ tries \in [Dialer -> 0..2]
        /\ \A d \in Dialer : dial[d] = "dial"
    BY DEF Init
  <2>2. dView \in [Dialer -> View] /\ lView \in [Conn -> View]
    BY <1>1, Zenon DEF Init
  <2>3. /\ dEnd \in [Conn -> {"none", "open", "closed"}]
        /\ lEnd \in [Conn -> {"none", "open", "owned", "left", "closed"}]
        /\ toListener \in [Conn -> {"none", "hello", "unknown"}]
        /\ at \in [Conn -> {"none", "arriving", "queued", "done"} \cup Busy]
        /\ acks \in [Conn -> 0..1]
    BY DEF Init
  <2>4. toDialer \in [Conn -> [kind : {"none", "ack", "refusal", "versions"}, view : View]]
    BY <1>1, Zenon DEF Init
  <2>5. hello \in Hellos /\ run = "create" /\ taken = None
    BY Zenon DEF Init
  <2>6. closed \in BOOLEAN
    BY Zenon DEF Init
  <2>7. QED
    BY <2>1, <2>2, <2>3, <2>4, <2>5, <2>6, Zenon DEF TypeOK
<1>3. ASSUME NEW d \in Dialer PROVE DialerInv(d)
  BY ConnNames DEF Init, DialerInv
<1>4. ASSUME NEW c \in Conn PROVE ConnInv(c)
  BY HandshakeAssumption, Zenon DEF Init, ConnInv, Unanswered, Settled, LeftByClose, Success
<1>5. QED
  BY <1>2, <1>3, <1>4, Zenon DEF HandshakeInv

\* The invariant of the handshake, in every reachable state.
THEOREM HandshakeInvariant == Spec => []HandshakeInv
<1>1. HandshakeInv /\ [Next]_vars => HandshakeInv'
  <2> SUFFICES ASSUME HandshakeInv, [Next]_vars
               PROVE  HandshakeInv'
    BY Zenon
  <2>1. ASSUME NEW d \in Dialer, Dial(d)
        PROVE  HandshakeInv'
    BY <2>1, DialKeepsType, DialKeepsDialers, DialKeepsConns, Zenon DEF HandshakeInv
  <2>2. ASSUME NEW c \in Conn, Listen(c)
        PROVE  HandshakeInv'
    BY <2>2, ListenKeepsType, ListenKeepsDialers, ListenKeepsConns, Zenon DEF HandshakeInv
  <2>3. CASE Dispatcher \/ CloseListener
    BY <2>3, DispatcherKeepsType, DispatcherKeepsDialers, DispatcherKeepsConns, Zenon DEF
       HandshakeInv
  <2>4. CASE UNCHANGED vars
    <3>1. UNCHANGED <<hello, dial, tries, dView, dEnd>> /\ UNCHANGED <<lEnd, at, lView, acks>>
          /\ UNCHANGED <<toListener, toDialer, run, taken, closed>>
      BY <2>4, Zenon DEF vars, dialVars, listenVars, runVars
    <3>2. TypeOK'
      BY <3>1, Zenon DEF HandshakeInv, TypeOK
    <3>3. ASSUME NEW d \in Dialer PROVE DialerInv(d)'
      BY <3>1, SameDialer, Zenon DEF HandshakeInv
    <3>4. ASSUME NEW c \in Conn PROVE ConnInv(c)'
      BY <3>1, SameConn, Zenon DEF HandshakeInv
    <3>5. QED
      BY <3>2, <3>3, <3>4, Zenon DEF HandshakeInv
  <2>5. QED
    BY <2>1, <2>2, <2>3, <2>4, Zenon DEF Next
<1>2. QED
  BY <1>1, InitHandshake, PTL DEF Spec

\* Type correctness: among others, a call makes at most two connections (classic_dialer.go:120-163),
\* a hello is acknowledged at most once, and the dispatcher holds an underlay exactly while it
\* dispatches it.
THEOREM TypeCorrect == Spec => []TypeOK
  BY HandshakeInvariant, PTL DEF HandshakeInv

\* Both ends of an underlay of a group agree on the group's id and secret, whichever of the
\* headers the dialer left to the listener (classic_listener.go, hello_acceptor.go).
THEOREM GroupEndsAgree == Spec => []EndsAgree
<1>1. HandshakeInv => EndsAgree
  <2> SUFFICES ASSUME HandshakeInv, NEW d \in Dialer, dial[d] = "ok", hello[d].group.grouped
               PROVE  dView[d] = lView[Current(d)]
    BY Zenon DEF EndsAgree
  <2>1. PICK c \in Conn : c = Current(d) /\ c[1] = d
    BY CurrentIsConn, Zenon DEF HandshakeInv, Current
  <2>2. Success(toDialer[c]) /\ dView[d] = DialView(d) /\ Response(d) = toDialer[c]
    BY <2>1, Zenon DEF HandshakeInv, DialerInv, Response
  <2>3. lView[c] = ListenView(c) /\ toDialer[c].view = lView[c]
    BY <2>2, Zenon DEF HandshakeInv, ConnInv
  <2>4. DialView(d) = ListenView(c)
    <3>1. DialView(d).secret = ListenView(c).secret
      BY <2>2, <2>3, Zenon DEF DialView
    <3>2. DialView(d).id = ListenView(c).id
      BY <2>1, <2>2, <2>3, HandshakeAssumption, Zenon DEF DialView, ListenView, Given
    <3>3. QED
      BY <3>1, <3>2, Zenon DEF DialView, ListenView
  <2>5. QED
    BY <2>1, <2>2, <2>3, <2>4, Zenon
<1>2. QED
  BY <1>1, HandshakeInvariant, PTL

\* Only a listener that closes leaves a connection open that nobody owns: a dial that fails closes
\* its ends (classic_dialer.go:165-172), and a connection that the listener is done with is owned
\* after one acknowledgement or closed (hello_acceptor.go:20-22), but for those that the pool of the
\* closed listener refused (classic_listener.go:255-257) and those that the acceptor of
\* NewClassicListener could not hand over (classic_listener.go:145).
THEOREM ConnectionsLeftOnlyByClose == Spec => []LeftOpenOnlyByClose
<1>1. HandshakeInv => LeftOpenOnlyByClose
  <2> SUFFICES ASSUME HandshakeInv PROVE LeftOpenOnlyByClose
    BY Zenon
  <2>1. \A d \in Dialer : dial[d] \in {"refused", "error"} => \A n \in {1, 2} : dEnd[<<d, n>>] # "open"
    BY Zenon DEF HandshakeInv, DialerInv
  <2>2. ASSUME NEW c \in Conn, at[c] = "done" /\ taken # c
        PROVE  lEnd[c] = "closed" \/ (lEnd[c] = "owned" /\ acks[c] = 1) \/ LeftByClose(c)
    BY <2>2, Zenon DEF HandshakeInv, ConnInv, Settled
  <2>3. QED
    BY <2>1, <2>2, Zenon DEF LeftOpenOnlyByClose
<1>2. QED
  BY <1>1, HandshakeInvariant, PTL

=============================================================================
