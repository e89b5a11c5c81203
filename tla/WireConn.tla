------------------------------ MODULE WireConn ------------------------------
(***************************************************************************)
(* The two ends of an underlay: how existing_conn_dialer.go and            *)
(* existing_conn_listener.go turn a connection into a pair of underlays    *)
(* with a hello and its answer, and how messages go over such a pair       *)
(* (existing_conn_impl.go, ws_impl.go), over datagrams                     *)
(* (datagram_underlay.go) and over websocket messages (websockets/).  A    *)
(* stream gives a reader any part of the bytes that were written, its      *)
(* deadlines pass, and bytes are lost when an end closes.                  *)
(***************************************************************************)
EXTENDS MessageFormat, FiniteSetsExt

CONSTANTS
    Token,         \* the dialer's identity
    ConnectionId,  \* what NextConnectionId gives the listener
    Attributes,    \* pairs of headers the two ends may have been created with
    Responses,     \* what a peer of another version answers a hello with
    Payload,       \* Payload[kind][e]: what end e may send over an underlay of this kind
    MaxSent,       \* bound: MaxSent[kind][e] messages are sent by end e
    MaxPacket      \* 2000: the buffer a datagram is read into

Dialer == "dialer"
Listener == "listener"
End == {Dialer, Listener}
Other(e) == IF e = Dialer THEN Listener ELSE Dialer

VARIABLES
    kind,      \* existing, ws, datagram or websocket
    timed,     \* timeout > 0
    attrs,     \* attrs[e]: the headers each end was created with
    st,        \* st[e]: where Create is; then up, and down once closed again
    wire,      \* wire[e]: the bytes, or the packets, that e has yet to read
    buf,       \* buf[e]: the bytes the running read of e has
    closed,    \* closed[e]: e closed its end of the connection
    deadline,  \* deadline[e]: none, set or passed
    underlay,  \* underlay[e]: what Create put into the underlay, with the sequence of the hello
    sent, got  \* what each end sent with success and received

vars == <<kind, timed, attrs, st, wire, buf, closed, deadline, underlay, sent, got>>
setup == <<kind, timed, attrs>>

Stream == kind \in {"existing", "ws"}

-----------------------------------------------------------------------------
(* What the applications exchange: a value put into a header of a message, and read there. *)

TypeKey == [bool |-> ResultSuccessHeader, u64 |-> 3, u32 |-> 4, u16 |-> 5, byte |-> 6,
            string |-> 7, strings |-> 8, u32map |-> 9, stringmap |-> 10]

\* What the Put methods may store; the order of a map's keys is open.
Encodings(type, v) ==
    CASE type = "bool" -> {PutBoolHeader(<<>>, 0, v)[0]}
      [] type = "u64" -> {PutUint(v, 2 * IntLen)}
      [] type = "u32" -> {PutUint32(v)}
      [] type = "u16" -> {PutUint(v, IntLen \div 2)}
      [] type = "byte" -> {<<v>>}
      [] type = "string" -> {v}
      [] type = "strings" -> {EncodeStringSlice(v)}
      [] type = "u32map" -> {EncodeU32ToBytesMap(v, keys) : keys \in SetToSeqs(DOMAIN v)}
      [] type = "stringmap" -> {EncodeStringToStringMap(v, keys) : keys \in SetToSeqs(DOMAIN v)}

\* What the Get methods return.
Decoded(type, h) ==
    LET k == TypeKey[type] IN
    CASE type = "bool" -> GetBoolHeader(h, k)[1]
      [] type = "u64" -> GetUint64Header(h, k)[1]
      [] type = "u32" -> GetUint32Header(h, k)[1]
      [] type = "u16" -> GetUint16Header(h, k)[1]
      [] type = "byte" -> GetByteHeader(h, k)[1]
      [] type = "string" -> GetStringHeader(h, k)[1]
      [] type = "strings" -> DecodeStringSlice(h[k])
      [] type = "u32map" -> DecodeU32ToBytesMap(h[k])
      [] type = "stringmap" -> DecodeStringToStringMap(h[k])

\* The messages an application may make of what it sends: a request or a reply to one.
Messages(item) ==
    {LET m == [NewMessage(item.ct, item.body)
                  EXCEPT !.seq = item.seq, !.headers = With(@, TypeKey[item.type], b)]
     IN IF item.replyTo = None THEN m ELSE ReplyTo(m, item.replyTo) :
        b \in Encodings(item.type, item.value)}

\* What the receiving application finds in a message.
Found(m) ==
    LET type == CHOOSE t \in DOMAIN TypeKey : TypeKey[t] \in DOMAIN m.headers IN
    [ct |-> m.ct, seq |-> m.seq, replyFor |-> ReplyFor(m), body |-> m.body,
     reflected |-> GetStringHeader(m.headers, ReflectedHeader),
     type |-> type, value |-> Decoded(type, m.headers)]

-----------------------------------------------------------------------------
(* The connection (external) *)

\* Closing an end with unread input, or writing to a closed one, resets the connection: what
\* the other end, or the writer, has not read yet may be lost.
MayLose(e, w) == {w, [w EXCEPT ![e] = <<>>]}

\* e closes its end, the connection holding w.
CloseConn(e, w) ==
    /\ closed' = [closed EXCEPT ![e] = TRUE]
    /\ wire' \in (IF w[e] = <<>> THEN {w} ELSE MayLose(Other(e), [w EXCEPT ![e] = <<>>]))

CanWrite(e) == ~closed[e] /\ deadline[e] # "passed"

\* The connection after e wrote data.
Written(e, data) ==
    IF closed[Other(e)] THEN MayLose(e, wire)
    ELSE {[wire EXCEPT ![Other(e)] = @ \o data]}

\* A write fails after writing a part.
WriteFails(e) == closed[e] \/ closed[Other(e)] \/ deadline[e] = "passed"
PartWritten(e, data) ==
    IF closed[e] \/ closed[Other(e)] THEN {wire}
    ELSE {[wire EXCEPT ![Other(e)] = @ \o SubSeq(data, 1, n)] : n \in 0..(Len(data) - 1)}

DeadlinePasses(e) ==
    /\ deadline[e] = "set"
    /\ deadline' = [deadline EXCEPT ![e] = "passed"]
    /\ UNCHANGED <<setup, underlay, st, wire, buf, closed, sent, got>>

-----------------------------------------------------------------------------
(* existing_conn_dialer.go *)

\* The deferred SetDeadline of Create.
KeepDeadline(e) == deadline
ClearDeadline(e) == [deadline EXCEPT ![e] = "none"]

Failed(e) ==
    /\ st' = [st EXCEPT ![e] = "failed"]
    /\ deadline' = ClearDeadline(e)

\* The version Create starts with, and the one an underlay of a listener has.
Version == 2

\* What Create does when sendHello returned err.  It would make a second attempt with another
\* version, but GetRetryVersion knows only the one that Create started with.
HelloFailed(err) == GetRetryVersion(err) = Version /\ Failed(Dialer)

\* newExistingImpl: the version decides how a message is written; ReadV2 reads in any case.
Marshal(m, ver) == Marshalled(m, magicOf(ver))

\* SetDeadline fails on a closed connection.
SetDeadlineFails ==
    /\ st[Dialer] = "hello" /\ timed /\ closed[Dialer]
    /\ Failed(Dialer)
    /\ UNCHANGED <<setup, underlay, wire, buf, closed, sent, got>>

helloRequest == [NewHello(Token, attrs[Dialer]) EXCEPT !.seq = HelloSequence]

sendHello ==
    /\ st[Dialer] = "hello" /\ ~closed[Dialer]
    /\ \E data \in Marshal(helloRequest, Version) : wire' \in Written(Dialer, data)
    /\ st' = [st EXCEPT ![Dialer] = "answer"]
    /\ deadline' = [deadline EXCEPT ![Dialer] = IF timed THEN "set" ELSE "none"]
    /\ buf' = [buf EXCEPT ![Dialer] = <<>>]
    /\ UNCHANGED <<setup, underlay, closed, sent, got>>

\* The deadline may pass, and the other end close, while the hello is written.
sendHelloFails ==
    /\ st[Dialer] = "hello" /\ ~(timed /\ closed[Dialer])
    /\ timed \/ closed[Dialer] \/ closed[Listener]
    /\ \E data \in Marshal(helloRequest, Version) :
          \E w \in PartWritten(Dialer, data) : CloseConn(Dialer, w)
    /\ HelloFailed(Failure)
    /\ UNCHANGED <<setup, underlay, buf, sent, got>>

\* sendHello with what Rx returned.
HelloAnswered(r) ==
    LET response == r.msg
        ok == /\ r.kind = "message"
              /\ ReplyFor(response) = HelloSequence
              /\ response.ct = ContentTypeResultType
              /\ UnmarshalResult(response).success
    IN /\ IF ok
          THEN /\ st' = [st EXCEPT ![Dialer] = "up"]
               /\ deadline' = ClearDeadline(Dialer)
               /\ underlay' = [underlay EXCEPT ![Dialer] =
                     [id |-> Token, seq |-> HelloSequence, headers |-> response.headers,
                      connectionId |-> GetStringHeader(response.headers, ConnectionIdHeader)[1]]]
          ELSE HelloFailed(r) /\ UNCHANGED underlay
       /\ UNCHANGED <<wire, closed, got>>

-----------------------------------------------------------------------------
(* existing_conn_listener.go *)

\* receiveHello with what rxHello returned.
receiveHello(r) ==
    LET answer == IF r = BadMagicNumberError /\ CanWrite(Listener)
                  THEN Written(Listener, UnknownVersionResponse) ELSE {wire}
    IN /\ IF r.kind = "message" /\ r.msg.ct = ContentTypeHelloType
          THEN /\ underlay' = [underlay EXCEPT ![Listener] =
                     [id |-> r.msg.body, seq |-> r.msg.seq, headers |-> r.msg.headers,
                      connectionId |-> ConnectionId]]
               /\ st' = [st EXCEPT ![Listener] = "ack"]
               /\ UNCHANGED <<wire, closed, deadline>>
          ELSE /\ \E w \in answer : CloseConn(Listener, w)
               /\ Failed(Listener)
               /\ UNCHANGED underlay
       /\ UNCHANGED got

\* underlay[Listener] has what the response takes from the request.
ackResponseUnrelated ==
    LET headers == [k \in DOMAIN attrs[Listener] \cup {ResultSuccessHeader} |->
                       IF k = ResultSuccessHeader THEN <<1>> ELSE attrs[Listener][k]]
    IN [NewResult(TRUE, <<>>) EXCEPT !.seq = HelloSequence,
                                     !.headers = With(headers, ConnectionIdHeader, ConnectionId)]

ackResponse ==
    LET result == NewResult(TRUE, <<>>)
        headers == [k \in DOMAIN attrs[Listener] \cup DOMAIN result.headers |->
                       IF k \in DOMAIN attrs[Listener] THEN attrs[Listener][k]
                       ELSE result.headers[k]]
    IN ReplyTo([result EXCEPT !.seq = HelloSequence,
                              !.headers = With(headers, ConnectionIdHeader, ConnectionId)],
               underlay[Listener])

ackHello ==
    /\ st[Listener] = "ack" /\ CanWrite(Listener)
    /\ \E data \in Marshal(ackResponse, Version) : wire' \in Written(Listener, data)
    /\ st' = [st EXCEPT ![Listener] = "up"]
    /\ deadline' = ClearDeadline(Listener)
    /\ UNCHANGED <<setup, underlay, buf, closed, sent, got>>

\* Nothing closes the connection: its owner has the error.
ackHelloFails ==
    /\ st[Listener] = "ack" /\ WriteFails(Listener)
    /\ \E data \in Marshal(ackResponse, Version) : wire' \in PartWritten(Listener, data)
    /\ Failed(Listener)
    /\ UNCHANGED <<setup, underlay, buf, closed, sent, got>>

\* A peer of another version in place of the dialer: its hello has a magic of its own (external).
ForeignHello ==
    /\ st[Dialer] = "foreign" /\ ~closed[Listener]
    /\ \E data \in Marshal(helloRequest, 3) : wire' \in Written(Dialer, data)
    /\ st' = [st EXCEPT ![Dialer] = "failed"]
    /\ UNCHANGED <<setup, underlay, buf, closed, deadline, sent, got>>

\* One in place of the listener reads the hello, answers and keeps the connection (external).
ForeignAnswer ==
    /\ st[Listener] = "foreign" /\ wire[Listener] # <<>>
    /\ \E versions \in Responses :
          wire' = [wire EXCEPT ![Listener] = <<>>,
                               ![Dialer] = FoldLeft(LAMBDA b, v : b \o PutUint32(v),
                                  @ \o magicUnknownVersion \o PutUint32(Len(versions)), versions)]
    /\ UNCHANGED <<setup, underlay, st, buf, closed, deadline, sent, got>>

-----------------------------------------------------------------------------
(* Messages over an underlay.  The channel's loops close it when Rx or Tx fails. *)

Down(e, w) ==
    /\ st' = [st EXCEPT ![e] = "down"]
    /\ CloseConn(e, w)

\* The rxer with what Rx returned.
Received(e, r) ==
    /\ IF r.kind = "message"
       THEN /\ got' = [got EXCEPT ![e] = Append(@, Found(r.msg))]
            /\ UNCHANGED <<st, wire, closed>>
       ELSE Down(e, wire) /\ UNCHANGED got
    /\ UNCHANGED <<underlay, deadline>>

Rx(e) == IF st[e] = "hello" THEN "hello" ELSE "v2"
Reading(e) ==
    /\ Stream
    /\ st[e] = "up" \/ (e = Dialer /\ st[e] = "answer") \/ (e = Listener /\ st[e] = "hello")

Return(e, r) ==
    /\ CASE st[e] = "up" -> Received(e, r)
         [] st[e] = "answer" -> HelloAnswered(r)
         [] st[e] = "hello" -> receiveHello(r)
    /\ buf' = [buf EXCEPT ![e] = <<>>]
    /\ UNCHANGED <<setup, sent>>

ReadSome(e) ==
    /\ Reading(e) /\ ~closed[e] /\ deadline[e] # "passed"
    /\ \E n \in 1..Min({Len(wire[e]), Target(Rx(e), buf[e]) - Len(buf[e])}) :
          /\ buf' = [buf EXCEPT ![e] = @ \o SubSeq(wire[e], 1, n)]
          /\ wire' = [wire EXCEPT ![e] = SubSeq(@, n + 1, Len(@))]
    /\ UNCHANGED <<setup, underlay, st, closed, deadline, sent, got>>

ReadReturns(e) ==
    /\ Reading(e) /\ Target(Rx(e), buf[e]) = 0
    /\ \E r \in {Result(Rx(e), buf[e])} : Return(e, r)

ReadFails(e) ==
    /\ Reading(e) /\ Target(Rx(e), buf[e]) > 0
    /\ \/ closed[e] \/ deadline[e] = "passed"
       \/ closed[Other(e)] /\ wire[e] = <<>>
    /\ Return(e, Failure)

\* DatagramUnderlay.Rx: what does not fit into the buffer is cut off.
RxDatagram(packet) ==
    ReadPacket(SubSeq(packet, 1, Min({Len(packet), MaxPacket})))

\* Rx of websockets.Underlay.
RxMessage(packet) == ReadPacket(packet)

\* Datagrams come in any order, some never and some twice.
RxPacket(e) ==
    /\ ~Stream /\ st[e] = "up"
    /\ \E i \in DOMAIN wire[e] :
          /\ kind = "websocket" => i = 1
          /\ \E r \in {IF kind = "datagram" THEN RxDatagram(wire[e][i]) ELSE RxMessage(wire[e][i])},
                rest \in {[wire EXCEPT ![e] = RemoveAt(@, i)]} :
                IF r.kind = "message"
                THEN /\ got' = [got EXCEPT ![e] = Append(@, Found(r.msg))]
                     /\ wire' \in {rest} \cup
                           (IF kind = "datagram" /\ Len(got[e]) < MaxSent[kind][Other(e)] THEN {wire} ELSE {})
                     /\ UNCHANGED <<st, closed>>
                ELSE Down(e, rest) /\ UNCHANGED got
    /\ UNCHANGED <<setup, underlay, buf, deadline, sent>>

RxPacketFails(e) ==
    /\ ~Stream /\ st[e] = "up" /\ closed[Other(e)] /\ wire[e] = <<>>
    /\ Down(e, wire)
    /\ UNCHANGED <<setup, underlay, buf, deadline, sent, got>>

LosePacket(e) ==
    /\ kind = "datagram"
    /\ \E i \in DOMAIN wire[e] : wire' = [wire EXCEPT ![e] = RemoveAt(@, i)]
    /\ UNCHANGED <<setup, underlay, st, buf, closed, deadline, sent, got>>

\* What a message is on the wire.
Tx(m) == {IF Stream THEN data ELSE <<data>> : data \in Marshal(m, Version)}

Send(e) ==
    /\ st[e] = "up" /\ CanWrite(e) /\ Len(sent[e]) < MaxSent[kind][e]
    /\ \E item \in Payload[kind][e] : \E m \in Messages(item) : \E data \in Tx(m) :
          /\ wire' \in Written(e, data)
          /\ sent' = [sent EXCEPT ![e] = Append(@, item)]
    /\ UNCHANGED <<setup, underlay, st, buf, closed, deadline, got>>

\* The write timeout passes, or the other end has closed: the txer closes the underlay.
SendFailsUnclosed(e) ==
    /\ st[e] = "up" /\ ~closed[e] /\ Len(sent[e]) < MaxSent[kind][e]
    /\ \E item \in Payload[kind][e] : \E m \in Messages(item) : \E data \in Tx(m) :
          wire' \in PartWritten(e, data)
    /\ UNCHANGED <<setup, underlay, st, buf, closed, deadline, sent, got>>

SendFails(e) ==
    /\ st[e] = "up" /\ ~closed[e] /\ Len(sent[e]) < MaxSent[kind][e]
    /\ \E item \in Payload[kind][e] : \E m \in Messages(item) : \E data \in Tx(m) :
          \E w \in PartWritten(e, data) : Down(e, w)
    /\ UNCHANGED <<setup, underlay, buf, deadline, sent, got>>

\* wsListener.Respond to a request that was received.
Respond(e) ==
    /\ kind = "ws" /\ e = Listener /\ st[e] = "up" /\ CanWrite(e) /\ Len(sent[e]) < MaxSent[kind][e]
    /\ \E request \in ToSet(got[e]), success \in BOOLEAN :
          LET item == [ct |-> ContentTypeResultType, seq |-> request.seq, body |-> <<>>,
                       replyTo |-> [seq |-> request.seq,
                                    headers |-> IF request.reflected[2]
                                       THEN With(<<>>, ReflectedHeader, request.reflected[1])
                                       ELSE <<>>],
                       type |-> "bool", value |-> success]
          IN /\ \E m \in Messages(item) : \E data \in Tx(m) : wire' \in Written(e, data)
             /\ sent' = [sent EXCEPT ![e] = Append(@, item)]
    /\ UNCHANGED <<setup, underlay, st, buf, closed, deadline, got>>

\* The channel closes the underlay, or the owner of the connection closes that, before, while or
\* after Create runs.
Close(e) ==
    /\ st[e] # "foreign" /\ ~closed[e]
    /\ IF st[e] = "up" THEN Down(e, wire) ELSE CloseConn(e, wire) /\ UNCHANGED st
    /\ UNCHANGED <<setup, underlay, buf, deadline, sent, got>>

-----------------------------------------------------------------------------
Init ==
    /\ kind \in DOMAIN Payload
    /\ IF kind = "existing"
       THEN /\ timed \in BOOLEAN
            /\ attrs \in Attributes
            /\ st \in {s \in [End -> {"hello", "foreign"}] : \E e \in End : s[e] = "hello"}
       ELSE /\ timed = FALSE
            /\ attrs = [e \in End |-> <<>>]
            /\ st = [e \in End |-> "up"]
    /\ wire = [e \in End |-> <<>>]
    /\ buf = [e \in End |-> <<>>]
    /\ closed = [e \in End |-> FALSE]
    /\ deadline = [e \in End |-> IF timed /\ st[e] = "hello" THEN "set" ELSE "none"]
    /\ underlay = [e \in End |-> None]
    /\ sent = [e \in End |-> <<>>]
    /\ got = [e \in End |-> <<>>]

Create(e) ==
    \/ e = Dialer /\ (SetDeadlineFails \/ sendHello \/ sendHelloFails)
    \/ e = Listener /\ (ackHello \/ ackHelloFails)
Receive(e) == ReadSome(e) \/ ReadReturns(e) \/ ReadFails(e) \/ RxPacket(e) \/ RxPacketFails(e)

Next ==
    \/ ForeignHello \/ ForeignAnswer
    \/ \E e \in End :
          \/ Create(e) \/ Receive(e) \/ LosePacket(e) \/ DeadlinePasses(e)
          \/ Send(e) \/ SendFails(e) \/ Respond(e) \/ Close(e)

\* When Create(e) \/ Receive(e) is enabled.
CanRun(e) ==
    \/ e = Dialer /\ st[e] = "hello"
    \/ e = Listener /\ st[e] = "ack"
    \/ /\ Reading(e) \/ (~Stream /\ st[e] = "up")
       /\ \/ wire[e] # <<>> \/ closed[e] \/ closed[Other(e)] \/ deadline[e] = "passed"
          \/ Stream /\ Target(Rx(e), buf[e]) = 0

\* Weak fairness of the goroutine that is in Create and then in the loop around Rx, with CanRun
\* for ENABLED.  Nobody has to send, to answer or to close, and no deadline has to pass.
Spec ==
    /\ Init /\ [][Next]_vars
    /\ \A e \in End : ([]<>(~CanRun(e))) \/ ([]<><<Create(e) \/ Receive(e)>>_vars)

-----------------------------------------------------------------------------
\* What the receiver of an item should find: what was put into the message, unless the value is
\* one that the decoders refuse.
Expected(item) ==
    LET Short(s) == Len(s) <= MaxString
        fits == CASE item.type = "strings" ->
                         Len(item.value) <= MaxEntries /\ \A s \in ToSet(item.value) : Short(s)
                  [] item.type = "u32map" ->
                         /\ Cardinality(DOMAIN item.value) <= MaxEntries
                         /\ \A k \in DOMAIN item.value : Short(item.value[k])
                  [] item.type = "stringmap" ->
                         /\ Cardinality(DOMAIN item.value) <= MaxEntries
                         /\ \A k \in DOMAIN item.value : Short(k) /\ Short(item.value[k])
                  [] OTHER -> TRUE
        request == item.replyTo
    IN [ct |-> item.ct, seq |-> item.seq, body |-> item.body,
        replyFor |-> IF request = None THEN -1 ELSE request.seq,
        reflected |-> IF request # None /\ ReflectedHeader \in DOMAIN request.headers
                      THEN <<request.headers[ReflectedHeader], TRUE>> ELSE <<<<>>, FALSE>>,
        type |-> item.type, value |-> IF fits THEN item.value ELSE Err]

Pipe == INSTANCE MessagePipe
    WITH sent <- [e \in End |-> [i \in DOMAIN sent[e] |-> Expected(sent[e][i])]],
         ordered <- kind # "datagram"

\* Rx gives each end what the other end's Tx took, with the content type, sequence, replyFor,
\* reflected header, body and typed header it had, whatever parts the bytes come in and whatever
\* order a map was written in; in order and at most once over a stream or a websocket, and never
\* a message from the remains of a write that failed.
ImplementsPipe == Pipe!Spec

\* The two Create calls agree: a dialer that got its underlay has the listener's connection id,
\* the headers of the listener but for those under the two keys that the answer sets itself, and
\* the header it asked to be reflected; and the listener has the identity and the headers of the
\* dialer.
CreateAgrees ==
    LET d == underlay[Dialer]
        l == underlay[Listener]
    IN st[Dialer] = "up" /\ kind = "existing" =>
          /\ l # None
          /\ d.connectionId = l.connectionId
          /\ l.id = Token /\ l.headers = attrs[Dialer]
          /\ \A k \in DOMAIN attrs[Listener] \ {ConnectionIdHeader, ReplyForHeader} :
                GetStringHeader(d.headers, k) = <<attrs[Listener][k], TRUE>>
          /\ ReflectedHeader \in DOMAIN attrs[Dialer] =>
                GetStringHeader(d.headers, ReflectedHeader)
                    = GetStringHeader(attrs[Dialer], ReflectedHeader)

\* An underlay that is up goes down only for a reason: a deadline of Create that is still set, or
\* bytes left over from the hello, do not end it.  Rx fails only when an end has closed, or
\* on a datagram that is larger than the buffer.
DownForAReason ==
    [][\A e \in End : (ReadReturns(e) \/ ReadFails(e) \/ RxPacket(e)) /\ st[e] = "up" /\ st'[e] = "down" =>
          \/ closed[e] \/ closed[Other(e)]
          \/ \E i \in DOMAIN wire[e] : kind = "datagram" /\ Len(wire[e][i]) > MaxPacket]_vars

\* A dialer whose hello was answered returns from its read, with the underlay or an error: also
\* when the listener refused the hello by closing, and when a peer of another version answers
\* with less than a frame and then keeps the connection open and silent.
AnsweredDialerReturns ==
    /\ st[Dialer] = "answer"
    /\ \/ st[Listener] = "up" \/ closed[Listener]
       \/ st[Listener] = "foreign" /\ wire[Listener] = <<>>
    ~> st[Dialer] # "answer"
=============================================================================
