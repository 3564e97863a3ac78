------------------------------ MODULE Encoding ------------------------------
(***************************************************************************)
(* How numbers are put into bytes: option deltas and lengths and integer   *)
(* option values (common.go, message.go), block options (block.go) and     *)
(* the length prefix of a frame on a TCP stream (connections_tcp.go).      *)
(* A byte is a number below 256, and bytes are a sequence.                 *)
(***************************************************************************)
EXTENDS Integers, Sequences

Byte   == 0..255
Max16  == 256 * 256 - 1

(* Big endian, two and four bytes.                                         *)
Be2(n) == <<(n \div 256) % 256, n % 256>>
Be4(n) ==
    LET high == (n \div 256) \div 256
    IN  <<(high \div 256) % 256, high % 256, (n \div 256) % 256, n % 256>>

FromBe2(b) == 256 * b[1] + b[2]
FromBe4(b) == 256 * (256 * (256 * b[1] + b[2]) + b[3]) + b[4]

-----------------------------------------------------------------------------
(* The header of an option: a delta and a length of four bits each, both   *)
(* extended by one or two bytes when they do not fit.                      *)
MaxExtended == Max16 + 269

(* common.go:51-63; its error is ignored by the caller and the 0 is used.  *)
getOptionHeaderValue(v) ==
    IF v <= 12 THEN v ELSE IF v <= 268 THEN 13 ELSE IF v <= MaxExtended THEN 14 ELSE 0

(* message.go:254-272 *)
extendedBytes(v) ==
    LET h == getOptionHeaderValue(v)
    IN  IF h = 13 THEN <<(v - 13) % 256>> ELSE IF h = 14 THEN Be2((v - 269) % (Max16 + 1)) ELSE <<>>

(* How many bytes extend a header value, and the number they stand for;    *)
(* a uint16, so it wraps (message.go:153-185).                             *)
extendedLength(h) == IF h = 13 THEN 1 ELSE IF h = 14 THEN 2 ELSE 0

extendedValue(h, b) ==
    IF h = 13 THEN b[1] + 13 ELSE IF h = 14 THEN (FromBe2(b) + 269) % (Max16 + 1) ELSE h

-----------------------------------------------------------------------------
(* An integer option takes as few bytes as it needs, and none for zero;    *)
(* three bytes are never used (common.go:127-146).                         *)
encodeInt(v) ==
    IF v = 0 THEN <<>> ELSE IF v <= 255 THEN <<v>> ELSE IF v <= Max16 THEN Be2(v) ELSE Be4(v)

(* Missing high bytes are zero; the caller checked that there are at most  *)
(* four (common.go:117-125).                                               *)
decodeInt(b) ==
    LET padded == [i \in 1..4 |-> IF i > 4 - Len(b) THEN b[i - (4 - Len(b))] ELSE 0]
    IN  FromBe4(padded)

-----------------------------------------------------------------------------
(* A Block1 or Block2 value (block.go:30-71).  computeSZX takes the        *)
(* logarithm of the size; sizes here are the powers of two it is made for. *)
BlockSizes == {16, 32, 64, 128, 256, 512, 1024}

computeSZX(size) == CHOOSE szx \in 0..6 : 2 ^ (szx + 4) = size

blockToInt(block) ==
    16 * block.num + (IF block.more THEN 8 ELSE 0) + computeSZX(block.size)

blockFromInt(v) ==
    [num |-> v \div 16, more |-> (v \div 8) % 2 = 1, size |-> 2 ^ ((v % 8) + 4)]

-----------------------------------------------------------------------------
(* Mutant: a boundary that is off by one.                                  *)
encodeLength_OffByOne(n) == IF n <= 12 THEN <<n>> ELSE <<13, (n - 13) % 256>>

(* The length of a frame on a TCP stream: RFC 8323's four bits and up to   *)
(* four more bytes (connections_tcp.go:59-114).                            *)
encodeLength(n) ==
    IF n <= 12    THEN <<n>>
    ELSE IF n <= 268   THEN <<13, n - 13>>
    ELSE IF n <= MaxExtended THEN LET b == Be2(n - 269) IN <<14, b[1], b[2]>>
    ELSE LET b == Be4(n - (MaxExtended + 1)) IN <<15, b[1], b[2], b[3], b[4]>>

(* The length field is the low half of the first byte; b holds that byte   *)
(* and the ones it asks for.                                               *)
extendedBy(first) ==
    LET field == first % 16
    IN  IF field = 13 THEN 1 ELSE IF field = 14 THEN 2 ELSE IF field = 15 THEN 4 ELSE 0

decodeLength(b) ==
    LET rest == Tail(b)
    IN  IF extendedBy(b[1]) = 1 THEN rest[1] + 13
        ELSE IF extendedBy(b[1]) = 2 THEN FromBe2(rest) + 269
        ELSE IF extendedBy(b[1]) = 4 THEN FromBe4(rest) + MaxExtended + 1
        ELSE b[1] % 16
=============================================================================
