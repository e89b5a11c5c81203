----------------------------- MODULE MCWireConn -----------------------------
(* Bytes below 8 and int32 of two of them: numbers up to 63, the largest int32 is 31. *)
EXTENDS WireConn

MCToken == <<5>>
MCConnectionId == <<1, 4>>

From(d, l) == Dialer :> d @@ Listener :> l

\* A value under the key of replyFor and one to reflect; headers that are too long; a header of
\* the listener; and two of its headers under keys that the answer sets itself.
MCAttributes ==
    {From(ReplyForHeader :> <<6>> @@ ReflectedHeader :> <<7, 0>>, <<>>),
     From(3 :> [i \in 1..17 |-> 0], <<>>),
     From(<<>>, 3 :> <<2>>),
     From(<<>>, ConnectionIdHeader :> <<2>> @@ ReplyForHeader :> <<2>>)}

MCResponses == {<<3>>, <<1, 2>>, <<3, 3, 3>>}

Request(type, v) ==
    [ct |-> 7, seq |-> 1, body |-> <<6>>, replyTo |-> None, type |-> type, value |-> v]
Reply(type, v) ==
    [Request(type, v) EXCEPT !.replyTo = [seq |-> 9, headers |-> ReflectedHeader :> <<2>>]]

\* A body that looks like the start of a frame.
Plain == [Request("byte", 3) EXCEPT !.body = magicV2]

Strings == {<<>>, <<4>>, <<1, 2>>, <<1, 2, 3>>}
Typed ==
    [bool |-> BOOLEAN, u64 |-> {0, 63, 64, 4095}, u32 |-> {0, 8, 63}, u16 |-> {0, 7},
     byte |-> {0, 7}, string |-> Strings, strings |-> BoundedSeq(Strings, 2) \cup {<<<<>>, <<4>>, <<>>>>},
     u32map |-> UNION {[D -> Strings] : D \in {{}, {0}, {9, 63}}} \cup {[i \in {1, 2, 3} |-> <<>>]},
     stringmap |-> UNION {[D -> Strings] : D \in {{}, {<<1, 2, 3>>}, {<<>>, <<3>>}}}]
Values == {Request(t[1], t[2]) : t \in UNION {{<<type, v>> : v \in Typed[type]} : type \in DOMAIN Typed}}

\* The values are tried over websockets.
MCPayload ==
    [existing |-> From({Plain}, {}), ws |-> From({Plain}, {}),
     datagram |-> From({Plain, Reply("bool", TRUE), Request("u64", 4095)}, {}),
     websocket |-> From(Values \cup {Reply("u16", 7)}, {Plain})]
MCMaxSent ==
    [existing |-> From(1, 0), ws |-> From(2, 1), datagram |-> From(2, 0), websocket |-> From(1, 1)]
=============================================================================
