------------------------------- MODULE Codec -------------------------------
(***************************************************************************)
(* CoAP messages and the bytes they become: the option list of a message   *)
(* (options.go), Serialize, Deserialize and the checksum (message.go), and *)
(* the proxy's rewriting of a request (server.go).  A string is the        *)
(* sequence of its bytes.  Secured messages are Session's; these are       *)
(* plain.                                                                  *)
(***************************************************************************)
EXTENDS Encoding, FiniteSets, SequencesExt

(* Option codes (constants.go:211-258).                                    *)
IfMatch         == 1
URIHost         == 3
Etag            == 4
IfNoneMatch     == 5
Observe         == 6
URIPort         == 7
LocationPath    == 8
URIPath         == 11
ContentFormat   == 12
MaxAge          == 14
URIQuery        == 15
Accept          == 17
LocationQuery   == 20
Block2          == 23
Block1          == 27
Size2           == 28
ProxyURI        == 35
ProxyScheme     == 39
Size1           == 60
URIScheme       == 2111
WindowSize      == 3001
ProxySecurityID == 3004
HandshakeType   == 3999
SessionNotFound == 4001
SessionExpired  == 4003
CoapsUri        == 4005
Checksum        == 4006

COAP_SCHEME  == 0
COAPS_SCHEME == 1

(* The options a receiver decodes, by the type it gives their value        *)
(* (message.go:192-206).                                                   *)
IntOptions ==
    {URIScheme, ProxyScheme, URIPort, ContentFormat, MaxAge, Accept, Size1, Size2, Block1, Block2,
     HandshakeType, Observe, SessionNotFound, SessionExpired, WindowSize, ProxySecurityID}
StringOptions ==
    {URIHost, Etag, LocationPath, URIPath, URIQuery, LocationQuery, ProxyURI, CoapsUri, Checksum}
DecodedOptions == IntOptions \cup StringOptions

(* options.go:149-156 *)
RepeatableOptions == {IfMatch, Etag, LocationPath, URIPath, URIQuery, LocationQuery}

critical(code) == code % 2 = 1

-----------------------------------------------------------------------------
(* An option value is an integer or a string.                              *)
int(n)    == [kind |-> "int", n |-> n, s |-> <<>>]
string(s) == [kind |-> "string", n |-> 0, s |-> s]
nil       == [kind |-> "nil", n |-> 0, s |-> <<>>]

NewOption(code, value) == [code |-> code, value |-> value]

NewMessage(id) ==
    [type |-> 0, code |-> 2, id |-> id, token |-> <<>>, options |-> <<>>, payload |-> <<>>]

codesOf(options) == {options[i].code : i \in DOMAIN options}

(* A loop over the options that appends those with one of the codes.       *)
withCodes(options, codes) ==
    FlattenSeq([i \in DOMAIN options |->
                   IF options[i].code \in codes THEN <<options[i]>> ELSE <<>>])

(* options.go:175-193 and 262-270                                          *)
GetOptions(options, code)    == withCodes(options, {code})
HasOption(options, code)     == code \in codesOf(options)
RemoveOptions(options, code) == withCodes(options, codesOf(options) \ {code})

AddOption(options, code, value) ==
    Append(IF code \in RepeatableOptions THEN options ELSE RemoveOptions(options, code),
           NewOption(code, value))

Slash == 47

(* strings.Split(path, "/")                                                *)
parts(path) ==
    LET split[k \in 0 .. Len(path)] ==
            IF k = 0 THEN <<<<>>>>
            ELSE IF path[k] = Slash THEN Append(split[k - 1], <<>>)
            ELSE [split[k - 1] EXCEPT ![Len(split[k - 1])] = Append(@, path[k])]
    IN  split[Len(path)]

(* The empty parts of a path are left out (message.go:518-526).            *)
SetURIPath(options, path) ==
    LET part == parts(path)
        added[k \in 0 .. Len(part)] ==
            IF k = 0 THEN options
            ELSE IF part[k] = <<>> THEN added[k - 1]
            ELSE AddOption(added[k - 1], URIPath, string(part[k]))
    IN  added[Len(part)]

-----------------------------------------------------------------------------
(* Mutant: a sort that does not keep the order of equal options.           *)
place_BeforeEquals(options, o) ==
    CHOOSE p \in 0 .. Len(options) :
        /\ p > 0 => options[p].code < o.code
        /\ \A i \in (p + 1) .. Len(options) : options[i].code >= o.code

(* sort.Sort sorts up to twelve options by insertion, and Swap, called for *)
(* neighbours only, does nothing but swap them (common.go:29-49): an       *)
(* option moves left past those that it is Less than, and no further.      *)
MaxSorted == 12

place(options, o) ==
    CHOOSE p \in 0 .. Len(options) :
        /\ p > 0 => options[p].code <= o.code
        /\ \A i \in (p + 1) .. Len(options) : options[i].code > o.code

insert(options, o) ==
    LET p == place(options, o)
    IN  SubSeq(options, 1, p) \o <<o>> \o SubSeq(options, p + 1, Len(options))

sorted(options) ==
    LET insertionSort[k \in 0 .. Len(options)] ==
            IF k = 0 THEN <<>> ELSE insert(insertionSort[k - 1], options[k])
    IN  insertionSort[Len(options)]

(* Serialize writes the scheme of a plain message as COAP_SCHEME           *)
(* (message.go:222-226).                                                   *)
schemeWritten(options) ==
    IF HasOption(options, URIScheme) /\ GetOptions(options, URIScheme)[1].value.n # COAPS_SCHEME
    THEN AddOption(options, URIScheme, int(COAP_SCHEME))
    ELSE options

(* common.go:91-115 *)
valueToBytes(value) ==
    IF value.kind = "string" THEN value.s ELSE encodeInt(value.n)

(* message.go:241-276 *)
optionBytes(delta, bytes) ==
    LET len == Len(bytes)
    IN  <<16 * getOptionHeaderValue(delta) + getOptionHeaderValue(len)>>
            \o extendedBytes(delta) \o extendedBytes(len) \o bytes

PayloadMarker == 255

(* message.go:221-286 *)
Serialize(msg) ==
    LET options == sorted(schemeWritten(msg.options))
        previous(i) == IF i = 1 THEN 0 ELSE options[i - 1].code
    IN  <<64 + 16 * msg.type + (Len(msg.token) % 16), msg.code>> \o Be2(msg.id) \o msg.token
          \o FlattenSeq([i \in DOMAIN options |->
                 optionBytes(options[i].code - previous(i), valueToBytes(options[i].value))])
          \o (IF msg.payload = <<>> THEN <<>> ELSE <<PayloadMarker>> \o msg.payload)

-----------------------------------------------------------------------------
(* What Deserialize returns: a message or an error.                        *)
accepted(msg)  == [err |-> "none", msg |-> msg]
refused(error) == [err |-> error, msg |-> NewMessage(0)]

(* The loop over the options that follow the header (message.go:140-211):  *)
(* what is left of the bytes, the number of the last option and what was   *)
(* read; it ends with the bytes, with the payload or with an error.        *)
finished(loop) == loop.rest = <<>> \/ loop.read.err # "none"

refuse(loop, error) == [loop EXCEPT !.read = refused(error)]

(* One turn.  A reserved header value and an index past the end (a panic   *)
(* that deserialize recovers from) are both "malformed".  A value longer   *)
(* than what is left adds an option without a value and consumes nothing.  *)
turn(loop) ==
    LET tmp   == loop.rest
        d     == tmp[1] \div 16
        l     == tmp[1] % 16
        ed    == extendedLength(d)
        start == 1 + ed + extendedLength(l)
        code  == (loop.last + extendedValue(d, SubSeq(tmp, 2, 1 + ed))) % (Max16 + 1)
        len   == extendedValue(l, SubSeq(tmp, 2 + ed, start))
        bytes == SubSeq(tmp, start + 1, start + len)
        after(end, options) == [rest |-> SubSeq(tmp, end + 1, Len(tmp)), last |-> code,
                                read |-> [loop.read EXCEPT !.msg.options = @ \o options]]
        option(value) == <<NewOption(code, value)>>
    IN  IF finished(loop) THEN loop
        ELSE IF tmp[1] = PayloadMarker
             THEN [loop EXCEPT !.rest = <<>>, !.read.msg.payload = SubSeq(tmp, 2, Len(tmp))]
        ELSE IF d = 15 \/ l = 15 \/ start > Len(tmp) THEN refuse(loop, "malformed")
        ELSE IF start + len > Len(tmp) THEN after(start, option(nil))
        ELSE IF code \in IntOptions /\ len > 4 THEN refuse(loop, "data outside of type")
        ELSE IF code \in IntOptions THEN after(start + len, option(int(decodeInt(bytes))))
        ELSE IF code \in StringOptions THEN after(start + len, option(string(bytes)))
        ELSE IF critical(code) THEN refuse(loop, "ErrUnknownCriticalOption")
        ELSE after(start + len, <<>>)

readOptions(tmp, msg) ==
    LET turns[k \in 0 .. Len(tmp)] ==
            IF k = 0 THEN [rest |-> tmp, last |-> 0, read |-> accepted(msg)] ELSE turn(turns[k - 1])
    IN  turns[CHOOSE k \in 0 .. Len(tmp) : finished(turns[k])].read

(* common.go:66-89 *)
validateMessage(msg) ==
    /\ Len(msg.token) <= 8
    /\ \A i, j \in DOMAIN msg.options :
          /\ i # j
          /\ msg.options[i].code = msg.options[j].code
          /\ critical(msg.options[i].code)
          => msg.options[i].code \in RepeatableOptions

(* message.go:86-218 *)
deserialize(data) ==
    LET header   == data[1] % 64
        tokenEnd == 4 + (header % 16)
        msg == [NewMessage(FromBe2(SubSeq(data, 3, 4))) EXCEPT
                   !.type = header \div 16, !.code = data[2], !.token = SubSeq(data, 5, tokenEnd)]
    IN  IF Len(data) < 4 THEN refused("ErrPacketLengthLessThan4")
        ELSE IF data[1] \div 64 # 1 THEN refused("ErrInvalidCoapVersion")
        ELSE IF Len(data) < tokenEnd THEN refused("malformed")
        ELSE LET read == readOptions(SubSeq(data, tokenEnd + 1, Len(data)), msg)
             IN  IF read.err = "none" /\ ~validateMessage(read.msg) THEN refused("invalid") ELSE read

-----------------------------------------------------------------------------
(* The eight hexadecimal digits of the CRC32 of some bytes.  It is taken   *)
(* to tell any two messages apart: a digit is a value that holds them.     *)
crc32(bytes) == [digit \in 1..8 |-> bytes]

(* Mutant: the copy keeps the checksum.                                    *)
cloneForChecksum_All(msg) == msg

(* message.go:311-337; the copy shares no option list with the message.    *)
cloneForChecksum(msg) == [msg EXCEPT !.options = RemoveOptions(@, Checksum)]

calculateChecksum(msg) == crc32(Serialize(cloneForChecksum(msg)))

(* message.go:288-298 *)
applyChecksum(msg) ==
    LET bare == [msg EXCEPT !.options = RemoveOptions(@, Checksum)]
    IN  [bare EXCEPT !.options = AddOption(@, Checksum, string(calculateChecksum(bare)))]

(* message.go:339-356 *)
verifyChecksum(msg) ==
    HasOption(msg.options, Checksum) =>
        GetOptions(msg.options, Checksum)[1].value.s = calculateChecksum(msg)

(* message.go:70-84 *)
Deserialize(data) ==
    LET read == deserialize(data)
    IN  IF read.err = "none" /\ ~verifyChecksum(read.msg) THEN refused("ErrChecksumMismatch") ELSE read

(* What a proxy sends on: the request without its proxy options, encoded   *)
(* again (server.go:182-185 and 599-602, 306).                             *)
relayed(msg) ==
    Serialize([msg EXCEPT !.options = RemoveOptions(RemoveOptions(@, ProxyScheme), ProxyURI)])
=============================================================================
