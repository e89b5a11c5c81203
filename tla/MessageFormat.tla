---------------------------- MODULE MessageFormat ----------------------------
(***************************************************************************)
(* Messages and their encoding (message.go, messages.go): the frame of the *)
(* V2 wire format, the headers in it, the typed values put into headers,   *)
(* and the answer to a peer of another version.  A byte is a number below  *)
(* Base and an int32 has IntLen of them, so that the limits of both are    *)
(* within reach of small instances; the code has 256 and 4.                *)
(***************************************************************************)
EXTENDS Integers, Sequences, FiniteSets, SequencesExt

CONSTANTS
    Base,          \* values of a byte
    IntLen,        \* bytes of an int32, of a version and of the magic number
    MaxHelloHeaders, MaxHelloBody,   \* 16384 and 4192
    MaxVersions,   \* maxSupportedVersionCount
    MaxEntries,    \* 128: entries of an encoded slice or map
    MaxString,     \* 8192: bytes of a string or entry in one
    None,          \* no replyFor
    Err            \* an error returned in place of a value

ASSUME FormatAssumption ==
    /\ Base \in Nat \ {0, 1, 2, 3} /\ IntLen \in Nat \ {0, 1}
    /\ {MaxHelloHeaders, MaxHelloBody, MaxVersions, MaxEntries, MaxString} \subseteq Nat
    /\ None # Err

Slice(b, from, n) == SubSeq(b, from + 1, from + n)

\* binary.LittleEndian, of any width.
PutUint(n, width) == [i \in 1..width |-> (n \div Base^(i - 1)) % Base]
Uint(b) == FoldLeft(LAMBDA sum, i : sum + b[i] * Base^(i - 1), 0, [i \in 1..Len(b) |-> i])

PutUint32(n) == PutUint(n, IntLen)
readUint32(b) == Uint(Slice(b, 0, IntLen))
readInt32(b) ==
    LET n == readUint32(b) IN IF 2 * n < Base^IntLen THEN n ELSE n - Base^IntLen
MaxInt32 == Base^IntLen \div 2 - 1

ConnectionIdHeader == 0
ReplyForHeader == 1
ResultSuccessHeader == 2
ReflectedHeader == MaxInt32   \* 128

ContentTypeHelloType == 0
ContentTypeResultType == 2
HelloSequence == -1

\* All start alike.
magicUnknownVersion == [i \in 1..IntLen |-> IF i < IntLen THEN 3 ELSE 0]
magicV2 == [magicUnknownVersion EXCEPT ![IntLen] = 2]
magicV3 == [magicUnknownVersion EXCEPT ![IntLen] = 3]
magicOf(version) == IF version = 3 THEN magicV3 ELSE magicV2

-----------------------------------------------------------------------------
(* Messages *)

With(headers, k, v) ==
    [j \in DOMAIN headers \cup {k} |-> IF j = k THEN v ELSE headers[j]]

PutBoolHeader(h, k, value) == With(h, k, <<IF value THEN 1 ELSE 0>>)

NewMessage(contentType, body) ==
    [ct |-> contentType, seq |-> -1, replyFor |-> None, headers |-> <<>>, body |-> body]

NewHello(token, attributes) == [NewMessage(ContentTypeHelloType, token) EXCEPT !.headers = attributes]

NewResult(success, text) ==
    [NewMessage(ContentTypeResultType, text)
        EXCEPT !.headers = PutBoolHeader(@, ResultSuccessHeader, success)]

\* replyFor is a pointer: what ReplyTo set, or what the header said when it was first asked for.
ReplyFor(m) ==
    IF m.replyFor # None THEN m.replyFor
    ELSE IF ReplyForHeader \in DOMAIN m.headers /\ Len(m.headers[ReplyForHeader]) = IntLen
         THEN readInt32(m.headers[ReplyForHeader])
         ELSE -1

ReplyTo(m, o) ==
    [m EXCEPT !.replyFor = o.seq,
              !.headers = IF ReflectedHeader \in DOMAIN o.headers
                          THEN With(@, ReflectedHeader, o.headers[ReflectedHeader]) ELSE @]

-----------------------------------------------------------------------------
(* Frames *)

\* The headers a marshalled message has.
WireHeaders(m) ==
    IF m.replyFor = None THEN m.headers
    ELSE With(m.headers, ReplyForHeader, PutUint32(m.replyFor))

\* keys: the headers in the order in which range shows them.
marshalHeaders(headers, keys) ==
    FoldLeft(LAMBDA data, k : data \o PutUint32(k) \o PutUint32(Len(headers[k])) \o headers[k],
             <<>>, keys)

marshalWithVersion(m, magic, keys) ==
    LET data == marshalHeaders(WireHeaders(m), keys) IN
    magic \o PutUint32(m.ct) \o PutUint32(m.seq)
          \o PutUint32(Len(data)) \o PutUint32(Len(m.body)) \o data \o m.body

\* Every result range may give.
Marshalled(m, magic) ==
    {marshalWithVersion(m, magic, keys) : keys \in SetToSeqs(DOMAIN WireHeaders(m))}

\* A key that comes twice has its later value.
unmarshalHeaders(data) ==
    LET from[i \in 0..Len(data)] ==
            LET end == i + 2 * IntLen + readUint32(Slice(data, i + IntLen, IntLen)) IN
            IF i = Len(data) THEN <<>>
            ELSE IF i + 2 * IntLen > Len(data) \/ end > Len(data) \/ from[end] = Err THEN Err
            ELSE LET k == readInt32(Slice(data, i, IntLen)) IN
                 IF k \in DOMAIN from[end] THEN from[end]
                 ELSE With(from[end], k, SubSeq(data, i + 2 * IntLen + 1, end))
    IN from[0]

dataSectionV2 == 5 * IntLen
headersLength(section) == readUint32(Slice(section, 3 * IntLen, IntLen))
bodyLength(section) == readUint32(Slice(section, 4 * IntLen, IntLen))

\* The lengths are added as uint64.
dataSectionLen(section) == headersLength(section) + bodyLength(section)

unmarshalV2(section, data) ==
    LET headers == unmarshalHeaders(Slice(data, 0, headersLength(section))) IN
    IF headers = Err THEN Err
    ELSE [ct |-> readInt32(Slice(section, IntLen, IntLen)),
          seq |-> readInt32(Slice(section, 2 * IntLen, IntLen)),
          replyFor |-> None,
          headers |-> headers,
          body |-> SubSeq(data, headersLength(section) + 1, Len(data))]

-----------------------------------------------------------------------------
(* Reading.  buf is what a call has read so far. *)

\* What the calls return when they do not return a message.
Failure == [kind |-> "error"]
BadMagicNumberError == [kind |-> "magic"]
UnsupportedVersionError(versions) == [kind |-> "versions", versions |-> versions]
Read(m) == IF m = Err THEN Failure ELSE [kind |-> "message", msg |-> m]

HasMagic(buf, magic) == Len(buf) >= IntLen /\ Slice(buf, 0, IntLen) = magic

TooBig(how, section) ==
    IF how = "hello" THEN \/ headersLength(section) > MaxHelloHeaders
                          \/ bodyLength(section) > MaxHelloBody
                     ELSE dataSectionLen(section) > MaxInt32

\* What the call, readHello or ReadV2, has to have before it looks at it: the magic, although
\* ReadV2 asks for the whole section.
AtLeastASection(how) == IF how = "hello" THEN IntLen ELSE dataSectionV2
AtLeast(how) == IntLen

\* The size to which the call fills its buffer; 0 when it has seen enough to return.
Target(how, buf) ==
    LET versions == (2 + readUint32(Slice(buf, IntLen, IntLen))) * IntLen
        frame == dataSectionV2 + dataSectionLen(buf)
        Until(n) == IF Len(buf) < n THEN n ELSE 0
    IN IF Len(buf) < AtLeast(how) THEN IF how = "hello" THEN IntLen ELSE dataSectionV2
       ELSE IF HasMagic(buf, magicV2)
            THEN IF Len(buf) < dataSectionV2 THEN dataSectionV2
                 ELSE IF TooBig(how, buf) THEN 0 ELSE Until(frame)
       ELSE IF how = "v2" /\ HasMagic(buf, magicUnknownVersion)
            THEN IF Len(buf) < 2 * IntLen THEN 2 * IntLen
                 ELSE IF versions > (2 + MaxVersions) * IntLen THEN 0 ELSE Until(versions)
       ELSE 0

readUnknownVersionResponse(buf) ==
    LET count == readUint32(Slice(buf, IntLen, IntLen)) IN
    IF count > MaxVersions THEN Failure
    ELSE UnsupportedVersionError([i \in 1..count |-> Uint(Slice(buf, (i + 1) * IntLen, IntLen))])

\* What the call returns once Target is 0.
Result(how, buf) ==
    IF HasMagic(buf, magicV2)
    THEN IF TooBig(how, buf) THEN Failure
         ELSE Read(unmarshalV2(buf, SubSeq(buf, dataSectionV2 + 1, Len(buf))))
    ELSE IF how = "v2" /\ HasMagic(buf, magicUnknownVersion)
         THEN readUnknownVersionResponse(buf)
    ELSE BadMagicNumberError

\* ReadV2 of a buffer: its first Read takes a section if there is one.
ReadPacket(packet) ==
    LET section == SubSeq(packet, 1, dataSectionV2)
        start == IF Len(packet) < dataSectionV2 THEN packet ELSE section
        size == Target("v2", start)
    IN IF size > Len(packet) THEN Failure
       ELSE Result("v2", IF size = 0 THEN start ELSE SubSeq(packet, 1, size))

\* The versions are 1 and 2.
UnknownVersionResponse ==
    magicUnknownVersion \o PutUint32(2) \o PutUint32(1) \o PutUint32(2)

getRetryVersionFor(err, defaultVersion, localVersions) ==
    LET common == IF err.kind = "versions"
                  THEN SelectSeq(localVersions, LAMBDA v : v \in ToSet(err.versions)) ELSE <<>>
    IN IF common = <<>> THEN defaultVersion ELSE Head(common)

GetRetryVersion(err) == getRetryVersionFor(err, 2, <<2>>)

-----------------------------------------------------------------------------
(* Typed headers.  A getter returns the value and whether it found one.  nil and an empty   *)
(* slice, string or map are one value.                                                      *)

GetUint64Header(h, k) ==
    IF k \notin DOMAIN h \/ Len(h[k]) # 2 * IntLen THEN <<0, k \in DOMAIN h>>
    ELSE <<Uint(h[k]), TRUE>>

GetUint32Header(h, k) ==
    IF k \notin DOMAIN h \/ Len(h[k]) # IntLen THEN <<0, FALSE>> ELSE <<Uint(h[k]), TRUE>>

GetUint16Header(h, k) ==
    IF k \notin DOMAIN h \/ 2 * Len(h[k]) # IntLen THEN <<0, FALSE>> ELSE <<Uint(h[k]), TRUE>>

GetByteHeader(h, k) ==
    IF k \notin DOMAIN h \/ Len(h[k]) < 1 THEN <<0, k \in DOMAIN h>> ELSE <<h[k][1], TRUE>>

GetBoolHeader(h, k) ==
    IF k \notin DOMAIN h THEN <<FALSE, FALSE>> ELSE <<Len(h[k]) > 0 /\ h[k][1] = 1, TRUE>>

GetStringHeader(h, k) == IF k \in DOMAIN h THEN <<h[k], TRUE>> ELSE <<<<>>, FALSE>>

EncodeString(s) == PutUint32(Len(s)) \o s

\* The string at the start of b and the bytes after it.
DecodeString(b) ==
    LET sl == readUint32(b) IN
    IF Len(b) < IntLen \/ sl > MaxString \/ sl > Len(b) - IntLen THEN Err
    ELSE [val |-> Slice(b, IntLen, sl), rest |-> SubSeq(b, IntLen + sl + 1, Len(b))]

\* A count and then that many entries, each added to what was decoded before.
DecodeCounted(b, Entry(_), Add(_, _)) ==
    LET l == readUint32(b)
        decoded[i \in 0..l] ==
            IF i = 0 THEN [val |-> <<>>, rest |-> SubSeq(b, IntLen + 1, Len(b))]
            ELSE LET before == decoded[i - 1]
                     entry == IF before = Err THEN Err ELSE Entry(before.rest)
                 IN IF entry = Err THEN Err
                    ELSE [val |-> Add(before.val, entry.val), rest |-> entry.rest]
    IN IF b = <<>> THEN <<>>
       ELSE IF Len(b) < IntLen \/ l > MaxEntries \/ decoded[l] = Err THEN Err
       ELSE decoded[l].val

EncodeStringSlice(strSlice) ==
    IF strSlice = <<>> THEN <<>>
    ELSE FoldLeft(LAMBDA b, s : b \o EncodeString(s), PutUint32(Len(strSlice)), strSlice)

DecodeStringSlice(b) == DecodeCounted(b, DecodeString, Append)

\* keys: the map's keys in the order in which range shows them.
EncodeU32ToBytesMap(m, keys) ==
    IF keys = <<>> THEN <<>>
    ELSE FoldLeft(LAMBDA b, k : b \o PutUint32(k) \o EncodeString(m[k]),
                  PutUint32(Len(keys)), keys)

DecodeU32ToBytesMap(b) ==
    LET Entry(e) ==
            LET v == DecodeString(SubSeq(e, IntLen + 1, Len(e))) IN
            IF Len(e) < IntLen \/ v = Err THEN Err
            ELSE [val |-> <<readUint32(e), v.val>>, rest |-> v.rest]
    IN DecodeCounted(b, Entry, LAMBDA m, e : With(m, e[1], e[2]))

EncodeStringToStringMap(m, keys) ==
    IF keys = <<>> THEN <<>>
    ELSE FoldLeft(LAMBDA b, k : b \o EncodeString(k) \o EncodeString(m[k]),
                  PutUint32(Len(keys)), keys)

DecodeStringToStringMap(b) ==
    LET Entry(e) ==
            LET k == DecodeString(e)
                v == IF k = Err THEN Err ELSE DecodeString(k.rest)
            IN IF v = Err THEN Err ELSE [val |-> <<k.val, v.val>>, rest |-> v.rest]
    IN DecodeCounted(b, Entry, LAMBDA m, e : With(m, e[1], e[2]))

UnmarshalResult(m) == [success |-> GetBoolHeader(m.headers, ResultSuccessHeader)[1], message |-> m.body]
=============================================================================
