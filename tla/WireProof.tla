---------------------------- MODULE WireProof ------------------------------
(***************************************************************************)
(* What a message becomes on its way.  The codec: for every message, what  *)
(* Serialize writes is read back by deserialize with what it was built     *)
(* from, or refused; the numbers in it for all of their range.  Wire: so a *)
(* receiver's message agrees with the one an application built, over a     *)
(* proxy too, it refuses one for three reasons and no other, and a request *)
(* reaches the resource registered for its method and path.                *)
(* TcpStream: the frames of a connection come out as they went in, for any *)
(* number of frames, up to one that is longer than the reader's buffer.    *)
(* Proxy: its answers reach the askers they are meant for, for any askers, *)
(* targets, tokens and requests and any number of goroutines and mishaps.  *)
(***************************************************************************)
EXTENDS Wire, TcpStream, Proxy, FiniteSetTheorems, SequenceTheorems, TLAPS

(* The largest uint32.                                                     *)
Max32 == 256 * 256 * 256 * 256 - 1

(* Two and four bytes hold what they were made from.                       *)
LEMMA DivMod ==
    ASSUME NEW n \in Nat
    PROVE  /\ n \div 256 \in Nat
           /\ n % 256 \in Byte
           /\ n = 256 * (n \div 256) + (n % 256)
  BY SMT DEF Byte

(* Two bytes, as binary.BigEndian writes a uint16.                         *)
LEMMA Be2Inverse ==
    ASSUME NEW n \in Nat, n <= Max16
    PROVE  /\ Len(Be2(n)) = 2
           /\ Be2(n)[1] \in Byte /\ Be2(n)[2] \in Byte
           /\ FromBe2(Be2(n)) = n
  <1>1. PICK q \in Nat, r \in Byte : q = n \div 256 /\ r = n % 256 /\ n = 256 * q + r
    BY DivMod, SMT DEF Max16
  <1>2. q \in Byte /\ q % 256 = q
    BY <1>1, SMT DEF Byte, Max16
  <1>3. Be2(n) = <<q, r>>
    BY <1>1, <1>2 DEF Be2
  <1> QED
    BY <1>1, <1>2, <1>3, SMT DEF FromBe2, Byte

(* Four bytes, as it writes a uint32.                                      *)
LEMMA Be4Inverse ==
    ASSUME NEW n \in Nat, n <= Max32
    PROVE  /\ Len(Be4(n)) = 4
           /\ \A i \in 1..4 : Be4(n)[i] \in Byte
           /\ FromBe4(Be4(n)) = n
  <1>1. PICK p \in Nat, r0 \in Byte : p = n \div 256 /\ r0 = n % 256 /\ n = 256 * p + r0
    BY DivMod, SMT DEF Max32
  <1>2. PICK q \in Nat, r1 \in Byte : q = p \div 256 /\ r1 = p % 256 /\ p = 256 * q + r1
    BY DivMod, SMT
  <1>3. PICK t \in Nat, r2 \in Byte : t = q \div 256 /\ r2 = q % 256 /\ q = 256 * t + r2
    BY DivMod, SMT
  <1>4. t \in Byte /\ t % 256 = t
    BY <1>1, <1>2, <1>3, SMT DEF Byte, Max32
  <1>5. Be4(n) = <<t, r2, r1, r0>>
    BY <1>1, <1>2, <1>3, <1>4 DEF Be4
  <1>6. Len(Be4(n)) = 4 /\ \A i \in 1..4 : Be4(n)[i] \in Byte
    BY <1>4, <1>5
  <1>7. FromBe4(Be4(n)) = 256 * (256 * (256 * t + r2) + r1) + r0
    BY <1>5 DEF FromBe4
  <1> QED
    BY <1>1, <1>2, <1>3, <1>6, <1>7

(* An option delta or an option length up to 65804 comes back from its     *)
(* header value and its extended bytes (message.go:241-272 against         *)
(* message.go:150-185): no boundary is off by one, the header value says   *)
(* how many bytes extend it, and only a value a uint16 cannot hold wraps.  *)
THEOREM OptionHeaderRoundTrip ==
    ASSUME NEW v \in Nat, v <= MaxExtended
    PROVE  /\ getOptionHeaderValue(v) \in 0..14
           /\ Len(extendedBytes(v)) = extendedLength(getOptionHeaderValue(v))
           /\ v <= Max16 => extendedValue(getOptionHeaderValue(v), extendedBytes(v)) = v
  <1>1. CASE v <= 12
    <2>1. getOptionHeaderValue(v) = v /\ extendedBytes(v) = <<>>
      BY <1>1, SMT DEF getOptionHeaderValue, extendedBytes, MaxExtended, Max16
    <2> QED
      BY <1>1, <2>1, SMT DEF extendedLength, extendedValue, MaxExtended, Max16
  <1>2. CASE v \in 13..268
    <2>1. getOptionHeaderValue(v) = 13 /\ extendedBytes(v) = <<v - 13>>
      BY <1>2, SMT DEF getOptionHeaderValue, extendedBytes
    <2> QED
      BY <1>2, <2>1, SMT DEF extendedLength, extendedValue
  <1>3. CASE v >= 269 /\ v <= MaxExtended
    <2>1. PICK k \in Nat : k <= Max16 /\ k = v - 269 /\ v = k + 269
      BY <1>3, SMT DEF MaxExtended, Max16
    <2>2. getOptionHeaderValue(v) = 14 /\ k % (Max16 + 1) = k
      BY <1>3, <2>1, SMT DEF getOptionHeaderValue, MaxExtended, Max16
    <2>3. extendedBytes(v) = Be2(k)
      BY <2>1, <2>2 DEF extendedBytes
    <2>4. Len(Be2(k)) = 2 /\ FromBe2(Be2(k)) = k
      BY <2>1, Be2Inverse
    <2>5. v <= Max16 => v % (Max16 + 1) = v
      BY SMT DEF MaxExtended, Max16
    <2> QED
      BY <2>1, <2>2, <2>3, <2>4, <2>5, SMT DEF extendedLength, extendedValue
  <1> QED
    BY <1>1, <1>2, <1>3, SMT DEF MaxExtended, Max16

(* An integer option comes back, up to what a uint32 holds                 *)
(* (common.go:117-146).                                                    *)
THEOREM IntRoundTrip ==
    ASSUME NEW v \in Nat, v <= Max32
    PROVE  Len(encodeInt(v)) <= 4 /\ decodeInt(encodeInt(v)) = v
  <1>1. CASE v = 0
    <2>1. encodeInt(v) = <<>>
      BY <1>1, SMT DEF encodeInt
    <2> QED
      BY <1>1, <2>1, SMT DEF decodeInt, FromBe4
  <1>2. CASE v \in 1..255
    <2>1. encodeInt(v) = <<v>>
      BY <1>2, SMT DEF encodeInt
    <2> QED
      BY <1>2, <2>1, SMT DEF decodeInt, FromBe4
  <1>3. CASE v >= 256 /\ v <= Max16
    <2> DEFINE b == Be2(v)
    <2>1. encodeInt(v) = b
      BY <1>3, SMT DEF encodeInt
    <2>2. v <= Max16
      BY <1>3, SMT DEF Max16
    <2>3. Len(b) = 2 /\ b[1] \in Byte /\ b[2] \in Byte /\ FromBe2(b) = v
      BY <2>2, Be2Inverse
    <2> HIDE DEF b
    <2> QED
      BY <2>1, <2>3, SMT DEF decodeInt, FromBe2, FromBe4, Byte
  <1>4. CASE v > Max16
    <2> DEFINE b == Be4(v)
    <2>1. encodeInt(v) = b
      BY <1>4, SMT DEF encodeInt, Max16, Max32
    <2>2. Len(b) = 4 /\ (\A i \in 1..4 : b[i] \in Byte) /\ FromBe4(b) = v
      BY Be4Inverse
    <2> HIDE DEF b
    <2> QED
      BY <2>1, <2>2, SMT DEF decodeInt, FromBe4, Byte
  <1> QED
    BY <1>1, <1>2, <1>3, <1>4, SMT DEF Max16, Max32

(* The length of a frame comes back from its prefix, and the first byte    *)
(* says how long the prefix is (connections_tcp.go:59-114): a reader that  *)
(* starts at a frame ends at the next one.                                 *)
THEOREM FrameLengthRoundTrip ==
    ASSUME NEW n \in Nat, n <= Max32
    PROVE  /\ Len(encodeLength(n)) = 1 + extendedBy(encodeLength(n)[1])
           /\ decodeLength(encodeLength(n)) = n
  <1>1. CASE n <= 12
    <2>1. encodeLength(n) = <<n>>
      BY <1>1, SMT DEF encodeLength
    <2>2. n \in 0..12
      BY <1>1, SMT DEF Max32
    <2>3. extendedBy(n) = 0 /\ n % 16 = n
      BY <2>2, SMT DEF extendedBy
    <2> QED
      BY <2>1, <2>3, SMT DEF decodeLength
  <1>2. CASE n \in 13..268
    <2>1. encodeLength(n) = <<13, n - 13>>
      BY <1>2, SMT DEF encodeLength
    <2>2. extendedBy(13) = 1
      BY SMT DEF extendedBy
    <2> QED
      BY <1>2, <2>1, <2>2, SMT DEF decodeLength
  <1>3. CASE n >= 269 /\ n <= MaxExtended
    <2>1. PICK k \in Nat : k <= Max16 /\ k = n - 269 /\ n = k + 269
      BY <1>3, SMT DEF MaxExtended, Max16
    <2>2. PICK b1 \in Byte, b2 \in Byte : b1 = Be2(k)[1] /\ b2 = Be2(k)[2] /\ 256 * b1 + b2 = k
      BY <2>1, Be2Inverse DEF FromBe2
    <2>3. encodeLength(n) = <<14, b1, b2>>
      BY <1>3, <2>1, <2>2, SMT DEF encodeLength
    <2>4. extendedBy(14) = 2
      BY SMT DEF extendedBy
    <2>5. Tail(<<14, b1, b2>>) = <<b1, b2>>
      BY SMT
    <2>6. FromBe2(<<b1, b2>>) = k
      BY <2>2, SMT DEF FromBe2
    <2>7. Len(<<14, b1, b2>>) = 3 /\ <<14, b1, b2>>[1] = 14
      BY SMT
    <2>8. decodeLength(<<14, b1, b2>>) = FromBe2(<<b1, b2>>) + 269
      BY <2>4, <2>5, <2>7 DEF decodeLength
    <2> QED
      BY <2>1, <2>3, <2>4, <2>6, <2>7, <2>8, SMT
  <1>4. CASE n > MaxExtended
    <2>1. PICK k \in Nat : k <= Max32 /\ k = n - (MaxExtended + 1) /\ n = k + MaxExtended + 1
      BY <1>4, SMT DEF MaxExtended, Max16, Max32
    <2>2. PICK b1 \in Byte, b2 \in Byte, b3 \in Byte, b4 \in Byte :
            /\ Be4(k)[1] = b1 /\ Be4(k)[2] = b2 /\ Be4(k)[3] = b3 /\ Be4(k)[4] = b4
            /\ 256 * (256 * (256 * b1 + b2) + b3) + b4 = k
      <3>1. 1 \in 1..4 /\ 2 \in 1..4 /\ 3 \in 1..4 /\ 4 \in 1..4
        BY SMT
      <3> QED
        BY <2>1, <3>1, Be4Inverse DEF FromBe4
    <2>3. encodeLength(n) = <<15, b1, b2, b3, b4>>
      BY <1>4, <2>1, <2>2, SMT DEF encodeLength, MaxExtended, Max16
    <2>4. extendedBy(15) = 4
      BY SMT DEF extendedBy
    <2>5. Tail(<<15, b1, b2, b3, b4>>) = <<b1, b2, b3, b4>>
      BY SMT
    <2>6. FromBe4(<<b1, b2, b3, b4>>) = k
      BY <2>2, SMT DEF FromBe4
    <2>7. Len(<<15, b1, b2, b3, b4>>) = 5 /\ <<15, b1, b2, b3, b4>>[1] = 15
      BY SMT
    <2>8. decodeLength(<<15, b1, b2, b3, b4>>) = FromBe4(<<b1, b2, b3, b4>>) + MaxExtended + 1
      BY <2>4, <2>5, <2>7 DEF decodeLength
    <2> QED
      BY <2>1, <2>3, <2>4, <2>6, <2>7, <2>8, SMT DEF MaxExtended, Max16
  <1> QED
    BY <1>1, <1>2, <1>3, <1>4, SMT DEF MaxExtended, Max16

(* The exponent of a block size.                                           *)
LEMMA SizeExponent ==
    ASSUME NEW size \in BlockSizes
    PROVE  computeSZX(size) \in 0..6 /\ 2 ^ (computeSZX(size) + 4) = size
  <1>1. \E s \in 0..6 : 2 ^ (s + 4) = size
    <2>1. 2^4 = 16 /\ 2^5 = 32 /\ 2^6 = 64 /\ 2^7 = 128 /\ 2^8 = 256 /\ 2^9 = 512 /\ 2^10 = 1024
      BY SMT
    <2> QED
      BY <2>1, SMT DEF BlockSizes
  <1> QED
    BY <1>1 DEF computeSZX

(* A block option comes back whatever the number of the block and the size *)
(* of the transfer (block.go:30-71).                                       *)
THEOREM BlockRoundTrip ==
    ASSUME NEW num \in Nat, NEW more \in BOOLEAN, NEW size \in BlockSizes
    PROVE  blockFromInt(blockToInt([num |-> num, more |-> more, size |-> size]))
             = [num |-> num, more |-> more, size |-> size]
  <1> DEFINE szx == computeSZX(size)
             m == IF more THEN 1 ELSE 0
             v == 16 * num + 8 * m + szx
  <1>2. szx \in 0..6 /\ 2 ^ (szx + 4) = size
    BY SizeExponent
  <1>3. blockToInt([num |-> num, more |-> more, size |-> size]) = v
    BY SMT DEF blockToInt
  <1> HIDE DEF szx
  <1>4. v \div 16 = num /\ v % 8 = szx /\ ((v \div 8) % 2 = 1 <=> more)
    BY <1>2, SMT
  <1> HIDE DEF v
  <1> QED
    BY <1>2, <1>3, <1>4 DEF blockFromInt

-----------------------------------------------------------------------------
(* Induction, and FlattenSeq.  The library's induction takes a predicate   *)
(* as a parameter; here it takes the set of the numbers (of the sequences) *)
(* for which the claim holds.                                              *)

(* A set with 0 and with the successor of each of its numbers has them     *)
(* all: otherwise the successor would send the ones up to n, of which      *)
(* there are finitely many, into fewer.                                    *)
LEMMA SetInduction ==
    ASSUME NEW S, 0 \in S, \A n \in Nat : n \in S => n + 1 \in S
    PROVE  \A n \in Nat : n \in S
<1> SUFFICES ASSUME NEW n \in Nat, n \notin S PROVE FALSE
  OBVIOUS
<1> DEFINE T == S \cap (0 .. n)
           f == [i \in T |-> i + 1]
<1>1. IsFiniteSet(T)
  <2>1. IsFiniteSet(0 .. n)
    BY FS_Interval
  <2> QED
    BY <2>1, FS_Subset
<1>2. 0 \in T
  OBVIOUS
<1>3. f \in [T -> T \ {0}]
  <2>1. ASSUME NEW i \in T PROVE i + 1 \in T \ {0}
    OBVIOUS
  <2> QED
    BY <2>1
<1>4. /\ Cardinality(T \ {0}) = Cardinality(T) - 1
      /\ IsFiniteSet(T \ {0})
      /\ Cardinality(T) \in Nat
  BY <1>1, <1>2, FS_RemoveElement, FS_CardinalityType
<1>5. \A x, y \in T : x # y => f[x] # f[y]
  OBVIOUS
<1> HIDE DEF T, f
<1>6. \E x, y \in T : x # y /\ f[x] = f[y]
  BY <1>1, <1>3, <1>4, FS_PigeonHole
<1> QED
  BY <1>5, <1>6

(* The same up to n.                                                       *)
LEMMA BoundedInduction ==
    ASSUME NEW n \in Nat, NEW S, 0 \in S, \A k \in 0 .. (n - 1) : k \in S => k + 1 \in S
    PROVE  \A k \in 0 .. n : k \in S
<1> DEFINE T == {k \in Nat : k <= n => k \in S}
<1>1. 0 \in T
  OBVIOUS
<1>2. \A k \in Nat : k \in T => k + 1 \in T
  OBVIOUS
<1>3. \A k \in Nat : k \in T
  <2> HIDE DEF T
  <2> QED
    BY <1>1, <1>2, SetInduction
<1> QED
  BY <1>3

(* Sequences, by the last element.                                         *)
LEMMA SeqInduction ==
    ASSUME NEW A, NEW T, <<>> \in T,
           \A s \in Seq(A), e \in A : s \in T => Append(s, e) \in T
    PROVE  \A s \in Seq(A) : s \in T
<1> DEFINE N == {n \in Nat : \A s \in Seq(A) : Len(s) = n => s \in T}
<1>1. 0 \in N
  BY EmptySeq
<1>2. ASSUME NEW n \in Nat, n \in N PROVE n + 1 \in N
  <2> SUFFICES ASSUME NEW s \in Seq(A), Len(s) = n + 1 PROVE s \in T
    OBVIOUS
  <2>1. PICK s0 \in Seq(A), e \in A : s = Append(s0, e)
    BY SequenceEmptyOrAppend, EmptySeq
  <2>2. Len(s0) \in Nat /\ Len(s0) = n
    BY <2>1, AppendProperties, LenProperties
  <2> QED
    BY <1>2, <2>1, <2>2
<1>3. \A n \in Nat : n \in N
  <2> HIDE DEF N
  <2> QED
    BY <1>1, <1>2, SetInduction
<1> QED
  BY <1>3, LenProperties

-----------------------------------------------------------------------------
(* What FlattenSeq computes: the first n of ss, joined.                    *)
Flattens(f, ss, n) ==
    f = [i \in 1 .. n |-> IF i = 1 THEN ss[i] ELSE f[i - 1] \o ss[i]]

(* There is such a function for every n.                                   *)
LEMMA FlatteningExists ==
    ASSUME NEW ss, NEW n \in Nat
    PROVE  \E f : Flattens(f, ss, n)
<1> DEFINE N == {k \in Nat : \E f : Flattens(f, ss, k)}
<1>1. 0 \in N
  <2>1. Flattens([i \in 1 .. 0 |-> ss[i]], ss, 0)
    BY DEF Flattens
  <2> QED
    BY <2>1
<1>2. ASSUME NEW k \in Nat, k \in N PROVE k + 1 \in N
  <2>1. PICK f : Flattens(f, ss, k)
    BY <1>2
  <2> DEFINE g == [i \in 1 .. (k + 1) |-> IF i = 1 THEN ss[i] ELSE f[i - 1] \o ss[i]]
  <2>2. ASSUME NEW i \in 1 .. k PROVE g[i] = f[i]
    <3>1. f[i] = IF i = 1 THEN ss[i] ELSE f[i - 1] \o ss[i]
      BY <2>1, Zenon DEF Flattens
    <3> QED
      BY <3>1
  <2>3. \A i \in 1 .. (k + 1) : i # 1 => i - 1 \in 1 .. k
    OBVIOUS
  <2>4. \A i \in 1 .. (k + 1) : g[i] = IF i = 1 THEN ss[i] ELSE g[i - 1] \o ss[i]
    BY <2>2, <2>3
  <2>5. Flattens(g, ss, k + 1)
    BY <2>4 DEF Flattens
  <2> QED
    BY <2>5
<1>3. \A k \in Nat : k \in N
  <2> HIDE DEF N
  <2> QED
    BY <1>1, <1>2, SetInduction
<1> QED
  BY <1>3

(* FlattenSeq is the last value of one.                                    *)
LEMMA FlattenSeqIs ==
    ASSUME NEW ss, Len(ss) \in Nat \ {0}
    PROVE  \E f : Flattens(f, ss, Len(ss)) /\ FlattenSeq(ss) = f[Len(ss)]
<1> DEFINE g == CHOOSE f : Flattens(f, ss, Len(ss))
<1>1. Flattens(g, ss, Len(ss))
  BY FlatteningExists
<1>2. FlattenSeq(ss) = g[Len(ss)]
  BY DEF FlattenSeq, Flattens
<1> QED
  BY <1>1, <1>2

(* One more part, at the end.                                              *)
LEMMA FlattenAppend ==
    ASSUME NEW A, NEW ss \in Seq(Seq(A)), NEW x \in Seq(A)
    PROVE  FlattenSeq(Append(ss, x)) = IF ss = <<>> THEN x ELSE FlattenSeq(ss) \o x
<1> DEFINE n == Len(ss)
           tt == Append(ss, x)
<1>1. /\ n \in Nat /\ Len(tt) = n + 1 /\ Len(tt) \in Nat \ {0}
      /\ \A i \in 1 .. n : tt[i] = ss[i]
      /\ tt[n + 1] = x
  BY AppendProperties, LenProperties
<1>2. PICK g : Flattens(g, tt, n + 1) /\ FlattenSeq(tt) = g[n + 1]
  BY <1>1, FlattenSeqIs
<1> HIDE DEF tt
<1>3. \A i \in 1 .. (n + 1) : g[i] = IF i = 1 THEN tt[i] ELSE g[i - 1] \o tt[i]
  BY <1>2, Zenon DEF Flattens
<1>4. CASE ss = <<>>
  <2>1. n = 0
    BY <1>4
  <2> QED
    BY <1>1, <1>2, <1>3, <1>4, <2>1 DEF tt
<1>5. CASE ss # <<>>
  <2>1. n \in Nat \ {0}
    BY <1>5, EmptySeq
  <2>2. PICK f : Flattens(f, ss, n) /\ FlattenSeq(ss) = f[n]
    BY <2>1, FlattenSeqIs
  <2>3. \A i \in 1 .. n : f[i] = IF i = 1 THEN ss[i] ELSE f[i - 1] \o ss[i]
    BY <2>2, Zenon DEF Flattens
  <2> HIDE DEF n
  <2> DEFINE S == {k \in 0 .. (n - 1) : g[k + 1] = f[k + 1]}
  <2>4. 0 \in S
    BY <1>1, <1>3, <2>1, <2>3
  <2>5. \A k \in 0 .. (n - 1 - 1) : k \in S => k + 1 \in S
    BY <1>1, <1>3, <2>1, <2>3
  <2>6. \A k \in 0 .. (n - 1) : k \in S
    <3> HIDE DEF S
    <3>1. n - 1 \in Nat
      BY <2>1
    <3> QED
      BY <2>4, <2>5, <3>1, BoundedInduction
  <2>7. g[n] = f[n]
    <3>1. n - 1 \in 0 .. (n - 1) /\ (n - 1) + 1 = n
      BY <2>1
    <3> QED
      BY <2>6, <3>1
  <2>8. g[n + 1] = g[n] \o x
    <3>1. n + 1 \in 1 .. (n + 1) /\ n + 1 # 1 /\ (n + 1) - 1 = n
      BY <2>1
    <3>2. g[n + 1] = g[(n + 1) - 1] \o tt[n + 1]
      BY <1>3, <3>1, Zenon
    <3> QED
      BY <1>1, <3>1, <3>2
  <2> QED
    BY <1>2, <1>5, <2>2, <2>7, <2>8 DEF tt
<1> QED
  BY <1>4, <1>5

(* No parts.                                                               *)
LEMMA FlattenEmpty == FlattenSeq(<<>>) = <<>>
  BY DEF FlattenSeq

(* Parts over A are joined to a sequence over A.                           *)
LEMMA FlattenType ==
    ASSUME NEW A, NEW ss \in Seq(Seq(A))
    PROVE  FlattenSeq(ss) \in Seq(A)
<1> DEFINE T == {s \in Seq(Seq(A)) : FlattenSeq(s) \in Seq(A)}
<1>1. <<>> \in T
  BY FlattenEmpty, EmptySeq
<1>2. ASSUME NEW s \in Seq(Seq(A)), NEW x \in Seq(A), s \in T PROVE Append(s, x) \in T
  <2>1. Append(s, x) \in Seq(Seq(A))
    BY AppendProperties
  <2>2. FlattenSeq(s) \o x \in Seq(A)
    BY <1>2, ConcatProperties
  <2> QED
    BY <2>1, <2>2, FlattenAppend
<1> HIDE DEF T
<1>3. \A s \in Seq(Seq(A)) : s \in T
  BY <1>1, <1>2, SeqInduction
<1> QED
  BY <1>3 DEF T

(* Both facts, without the case of no parts.                               *)
LEMMA FlattenGrows ==
    ASSUME NEW A, NEW ss \in Seq(Seq(A)), NEW x \in Seq(A)
    PROVE  /\ FlattenSeq(ss) \in Seq(A)
           /\ FlattenSeq(Append(ss, x)) = FlattenSeq(ss) \o x
<1>1. FlattenSeq(ss) \in Seq(A)
  BY FlattenType
<1>2. <<>> \o x = x
  BY ConcatEmptySeq
<1> QED
  BY <1>1, <1>2, FlattenAppend, FlattenEmpty

(* Joining associates,                                                     *)
LEMMA Associates ==
    ASSUME NEW A, NEW u \in Seq(A), NEW v \in Seq(A), NEW w \in Seq(A)
    PROVE  (u \o v) \o w = u \o (v \o w)
  BY ConcatAssociative

(* that of bytes too.                                                      *)
LEMMA BytesAssociate ==
    \A a, b, c \in Seq(Byte) : (a \o b) \o c = a \o (b \o c)
  BY ConcatAssociative

(* and so it does with appending.                                          *)
LEMMA ConcatAppend ==
    ASSUME NEW A, NEW u \in Seq(A), NEW v \in Seq(A), NEW e \in A
    PROVE  u \o Append(v, e) = Append(u \o v, e)
<1> DEFINE one == <<e>>
           uv == u \o v
<1>1. one \in Seq(A)
  OBVIOUS
<1>2. uv \in Seq(A)
  BY ConcatProperties
<1>3. Append(v, e) = v \o one
  BY AppendIsConcat
<1> HIDE DEF one
<1>4. uv \o one = u \o (v \o one)
  BY <1>1, Associates
<1> HIDE DEF uv
<1>5. Append(uv, e) = uv \o one
  BY <1>2, AppendIsConcat DEF one
<1> QED
  BY <1>3, <1>4, <1>5 DEF uv

(* The parts of ss and then those of tt.                                   *)
LEMMA FlattenConcat ==
    ASSUME NEW A, NEW ss \in Seq(Seq(A)), NEW tt \in Seq(Seq(A))
    PROVE  FlattenSeq(ss \o tt) = FlattenSeq(ss) \o FlattenSeq(tt)
<1> DEFINE T == {s \in Seq(Seq(A)) : FlattenSeq(ss \o s) = FlattenSeq(ss) \o FlattenSeq(s)}
<1>1. <<>> \in T
  BY FlattenEmpty, FlattenType, EmptySeq, ConcatEmptySeq
<1>2. ASSUME NEW s \in Seq(Seq(A)), NEW x \in Seq(A), s \in T PROVE Append(s, x) \in T
  <2>1. Append(s, x) \in Seq(Seq(A)) /\ ss \o s \in Seq(Seq(A))
    BY AppendProperties, ConcatProperties
  <2>2. ss \o Append(s, x) = Append(ss \o s, x)
    <3>1. Append(s, x) = s \o <<x>> /\ Append(ss \o s, x) = (ss \o s) \o <<x>>
      BY <2>1, AppendIsConcat
    <3>2. <<x>> \in Seq(Seq(A))
      OBVIOUS
    <3> QED
      BY <3>1, <3>2, ConcatAssociative
  <2>3. FlattenSeq(Append(ss \o s, x)) = FlattenSeq(ss \o s) \o x
    BY <2>1, FlattenGrows
  <2>4. FlattenSeq(Append(s, x)) = FlattenSeq(s) \o x
    BY FlattenGrows
  <2>5. (FlattenSeq(ss) \o FlattenSeq(s)) \o x = FlattenSeq(ss) \o (FlattenSeq(s) \o x)
    <3> DEFINE u == FlattenSeq(ss)
               v == FlattenSeq(s)
    <3>1. u \in Seq(A) /\ v \in Seq(A)
      BY FlattenType
    <3> HIDE DEF u, v
    <3>2. (u \o v) \o x = u \o (v \o x)
      BY <3>1, Associates, SMTT(30)
    <3> QED
      BY <3>2 DEF u, v
  <2> QED
    BY <1>2, <2>1, <2>2, <2>3, <2>4, <2>5
<1> HIDE DEF T
<1>3. \A s \in Seq(Seq(A)) : s \in T
  BY <1>1, <1>2, SeqInduction
<1> QED
  BY <1>3 DEF T

-----------------------------------------------------------------------------
(* The options of a message (options.go): which codes there are, the       *)
(* options of a code, and what appending, joining, adding and removing do  *)
(* to them.                                                                *)

(* Each option, or nothing where its code is not in C.                     *)
picks(s, C) == [i \in DOMAIN s |-> IF s[i].code \in C THEN <<s[i]>> ELSE <<>>]

(* withCodes joins the picks.                                              *)
LEMMA WithCodesIsFlat == \A s, C : withCodes(s, C) = FlattenSeq(picks(s, C))
  BY DEF withCodes, picks

(* The picks are sequences of options,                                     *)
LEMMA PicksType ==
    ASSUME NEW O, NEW s \in Seq(O), NEW C
    PROVE  picks(s, C) \in Seq(Seq(O))
<1>1. Len(s) \in Nat /\ DOMAIN s = 1 .. Len(s) /\ \A i \in 1 .. Len(s) : s[i] \in O
  BY LenProperties, ElementOfSeq
<1>2. \A i \in 1 .. Len(s) : (IF s[i].code \in C THEN <<s[i]>> ELSE <<>>) \in Seq(O)
  BY <1>1
<1>3. picks(s, C) \in [1 .. Len(s) -> Seq(O)]
  BY <1>1, <1>2 DEF picks
<1> QED
  BY <1>1, <1>3, SeqDef

(* and so is what they are joined to.                                      *)
LEMMA WithCodesType ==
    ASSUME NEW O, NEW s \in Seq(O), NEW C
    PROVE  withCodes(s, C) \in Seq(O)
  BY PicksType, FlattenType, WithCodesIsFlat

(* A message without options has none of any code.                         *)
LEMMA WithCodesEmpty == \A C : withCodes(<<>>, C) = <<>>
<1>1. \A C : picks(<<>>, C) = <<>>
  BY DEF picks
<1> QED
  BY <1>1, WithCodesIsFlat, FlattenEmpty

(* The pick of one more option.                                            *)
LEMMA PicksAppend ==
    ASSUME NEW O, NEW s \in Seq(O), NEW o \in O, NEW C
    PROVE  picks(Append(s, o), C) = Append(picks(s, C), IF o.code \in C THEN <<o>> ELSE <<>>)
<1> DEFINE x == IF o.code \in C THEN <<o>> ELSE <<>>
           n == Len(s)
           t == Append(s, o)
           l == picks(t, C)
           p == picks(s, C)
           r == Append(p, x)
<1>1. /\ n \in Nat /\ DOMAIN s = 1 .. n /\ t \in Seq(O)
      /\ DOMAIN t = 1 .. (n + 1) /\ Len(t) = n + 1
      /\ \A i \in 1 .. n : t[i] = s[i]
      /\ t[n + 1] = o
  BY AppendProperties, LenProperties
<1>2. x \in Seq(O)
  OBVIOUS
<1>3. l \in Seq(Seq(O)) /\ p \in Seq(Seq(O))
  BY <1>1, PicksType
<1>4. DOMAIN l = 1 .. (n + 1) /\ DOMAIN p = 1 .. n
  BY <1>1 DEF picks
<1>5. Len(l) = n + 1 /\ Len(p) = n
  BY <1>1, <1>3, <1>4, LenProperties
<1>6. /\ \A i \in 1 .. n : p[i] = IF s[i].code \in C THEN <<s[i]>> ELSE <<>>
      /\ \A i \in 1 .. (n + 1) : l[i] = IF t[i].code \in C THEN <<t[i]>> ELSE <<>>
  BY <1>1 DEF picks
<1> HIDE DEF x, l, p, t, n
<1>7. /\ r \in Seq(Seq(O)) /\ Len(r) = n + 1
      /\ \A i \in 1 .. n : r[i] = p[i]
      /\ r[n + 1] = x
  BY <1>1, <1>2, <1>3, <1>5, AppendProperties
<1>8. \A i \in 1 .. (n + 1) : l[i] = r[i]
  <2>1. ASSUME NEW i \in 1 .. n PROVE l[i] = r[i]
    <3>1. i \in 1 .. (n + 1)
      BY <1>1
    <3> QED
      BY <1>1, <1>6, <1>7, <3>1
  <2>2. l[n + 1] = r[n + 1]
    <3>1. n + 1 \in 1 .. (n + 1)
      BY <1>1
    <3> QED
      BY <1>1, <1>6, <1>7, <3>1 DEF x
  <2> HIDE DEF r
  <2> QED
    BY <1>1, <2>1, <2>2
<1> HIDE DEF r
<1>9. l = r
  BY <1>3, <1>5, <1>7, <1>8, SeqEqual
<1> QED
  BY <1>9 DEF l, r, p, x, t

(* One more option stays behind the others of its codes.                   *)
LEMMA WithCodesAppend ==
    ASSUME NEW O, NEW s \in Seq(O), NEW o \in O, NEW C
    PROVE  /\ withCodes(s, C) \in Seq(O)
           /\ withCodes(Append(s, o), C) = IF o.code \in C THEN Append(withCodes(s, C), o)
                                                           ELSE withCodes(s, C)
<1> DEFINE x == IF o.code \in C THEN <<o>> ELSE <<>>
           w == withCodes(s, C)
           p == picks(s, C)
<1>1. w \in Seq(O) /\ p \in Seq(Seq(O)) /\ x \in Seq(O)
  BY WithCodesType, PicksType
<1>2. withCodes(Append(s, o), C) = FlattenSeq(Append(p, x))
  <2>1. picks(Append(s, o), C) = Append(p, x)
    BY PicksAppend
  <2>2. withCodes(Append(s, o), C) = FlattenSeq(picks(Append(s, o), C))
    BY WithCodesIsFlat
  <2> QED
    BY <2>1, <2>2, Zenon
<1>3. w = FlattenSeq(p)
  BY WithCodesIsFlat
<1> HIDE DEF x, w, p
<1>4. FlattenSeq(Append(p, x)) = w \o x
  BY <1>1, <1>3, FlattenGrows
<1>5. w \o <<o>> = Append(w, o) /\ w \o <<>> = w
  BY <1>1, AppendIsConcat, ConcatEmptySeq
<1> QED
  BY <1>1, <1>2, <1>4, <1>5 DEF x, w

(* GetOptions, of one more option,                                         *)
LEMMA GetAppend ==
    ASSUME NEW O, NEW s \in Seq(O), NEW o \in O, NEW c
    PROVE  /\ GetOptions(s, c) \in Seq(O)
           /\ GetOptions(Append(s, o), c) = IF o.code = c THEN Append(GetOptions(s, c), o)
                                                          ELSE GetOptions(s, c)
<1> DEFINE C == {c}
<1>1. o.code \in C <=> o.code = c
  OBVIOUS
<1> HIDE DEF C
<1>2. /\ withCodes(s, C) \in Seq(O)
      /\ withCodes(Append(s, o), C) = IF o.code \in C THEN Append(withCodes(s, C), o) ELSE withCodes(s, C)
  BY WithCodesAppend
<1> QED
  BY <1>1, <1>2, Zenon DEF C, GetOptions

(* The options of codes in C, of joined options,                           *)
LEMMA WithCodesConcat ==
    ASSUME NEW O, NEW s \in Seq(O), NEW t \in Seq(O), NEW C
    PROVE  withCodes(s \o t, C) = withCodes(s, C) \o withCodes(t, C)
<1> DEFINE T == {u \in Seq(O) : withCodes(s \o u, C) = withCodes(s, C) \o withCodes(u, C)}
<1>1. <<>> \in T
  BY EmptySeq, ConcatEmptySeq, WithCodesEmpty, WithCodesType
<1>2. ASSUME NEW u \in Seq(O), NEW o \in O, u \in T PROVE Append(u, o) \in T
  <2> DEFINE v == withCodes(s, C)
             w == withCodes(u, C)
             su == s \o u
  <2>1. v \in Seq(O) /\ w \in Seq(O) /\ su \in Seq(O) /\ Append(u, o) \in Seq(O)
    BY WithCodesType, ConcatProperties, AppendProperties
  <2>2. s \o Append(u, o) = Append(su, o)
    BY ConcatAppend
  <2>3. withCodes(su, C) = v \o w
    BY <1>2
  <2>4. withCodes(Append(u, o), C) = IF o.code \in C THEN Append(w, o) ELSE w
    BY WithCodesAppend
  <2> HIDE DEF v, w, su
  <2>4a. withCodes(Append(su, o), C) = IF o.code \in C THEN Append(v \o w, o) ELSE v \o w
    <3>1. withCodes(Append(su, o), C) = IF o.code \in C THEN Append(withCodes(su, C), o) ELSE withCodes(su, C)
      BY <2>1, WithCodesAppend
    <3> QED
      BY <2>3, <3>1, Zenon
  <2>5. v \o Append(w, o) = Append(v \o w, o)
    BY <2>1, ConcatAppend
  <2>6. withCodes(s \o Append(u, o), C) = v \o withCodes(Append(u, o), C)
    BY <2>2, <2>4, <2>4a, <2>5
  <2> QED
    BY <2>1, <2>6 DEF v
<1> HIDE DEF T
<1>3. \A u \in Seq(O) : u \in T
  BY <1>1, <1>2, SeqInduction
<1> QED
  BY <1>3 DEF T

(* and those of one code.                                                  *)
LEMMA GetConcat ==
    ASSUME NEW O, NEW s \in Seq(O), NEW t \in Seq(O), NEW c
    PROVE  GetOptions(s \o t, c) = GetOptions(s, c) \o GetOptions(t, c)
  BY WithCodesConcat DEF GetOptions

(* Picking twice is picking once, the codes of both.                       *)
LEMMA WithCodesTwice ==
    ASSUME NEW O, NEW s \in Seq(O), NEW C, NEW D
    PROVE  withCodes(withCodes(s, C), D) = withCodes(s, C \cap D)
<1> DEFINE T == {u \in Seq(O) : withCodes(withCodes(u, C), D) = withCodes(u, C \cap D)}
<1>1. <<>> \in T
  BY EmptySeq, WithCodesEmpty
<1>2. ASSUME NEW u \in Seq(O), NEW o \in O, u \in T PROVE Append(u, o) \in T
  <2> DEFINE w == withCodes(u, C)
             x == withCodes(u, C \cap D)
  <2>1. w \in Seq(O) /\ Append(u, o) \in Seq(O)
    BY WithCodesType, AppendProperties
  <2>2. withCodes(w, D) = x
    BY <1>2
  <2>3. withCodes(Append(u, o), C) = IF o.code \in C THEN Append(w, o) ELSE w
    BY WithCodesAppend
  <2>3a. withCodes(Append(u, o), C \cap D) = IF o.code \in C \cap D THEN Append(x, o) ELSE x
    <3> DEFINE CD == C \cap D
    <3> HIDE DEF CD
    <3>1. withCodes(Append(u, o), CD) = IF o.code \in CD THEN Append(withCodes(u, CD), o) ELSE withCodes(u, CD)
      BY WithCodesAppend
    <3> QED
      BY <3>1 DEF CD
  <2> HIDE DEF w, x
  <2>4. withCodes(Append(w, o), D) = IF o.code \in D THEN Append(x, o) ELSE x
    <3>1. withCodes(Append(w, o), D) = IF o.code \in D THEN Append(withCodes(w, D), o) ELSE withCodes(w, D)
      BY <2>1, WithCodesAppend
    <3> QED
      BY <2>2, <3>1
  <2> QED
    BY <2>1, <2>2, <2>3, <2>3a, <2>4
<1> HIDE DEF T
<1>3. \A u \in Seq(O) : u \in T
  BY <1>1, <1>2, SeqInduction
<1> QED
  BY <1>3 DEF T

(* Only the codes that there are matter.                                   *)
LEMMA WithCodesSame ==
    ASSUME NEW s, NEW C, NEW D, C \cap codesOf(s) = D \cap codesOf(s)
    PROVE  withCodes(s, C) = withCodes(s, D)
<1>1. \A i \in DOMAIN s : s[i].code \in C <=> s[i].code \in D
  BY DEF codesOf
<1>2. picks(s, C) = picks(s, D)
  BY <1>1 DEF picks
<1> QED
  BY <1>2, WithCodesIsFlat

(* The codes of no option, of one more and of joined options.              *)
LEMMA CodesOfParts ==
    ASSUME NEW O, NEW s \in Seq(O)
    PROVE  /\ codesOf(<<>>) = {}
           /\ \A o \in O : codesOf(Append(s, o)) = codesOf(s) \cup {o.code}
           /\ \A t \in Seq(O) : codesOf(s \o t) = codesOf(s) \cup codesOf(t)
<1>0. Len(s) \in Nat /\ DOMAIN s = 1 .. Len(s)
  BY LenProperties
<1>1. codesOf(<<>>) = {}
  BY DEF codesOf
<1>2. ASSUME NEW o \in O PROVE codesOf(Append(s, o)) = codesOf(s) \cup {o.code}
  <2> DEFINE u == Append(s, o)
             n == Len(s)
  <2>1. /\ n \in Nat
        /\ DOMAIN u = 1 .. (n + 1)
        /\ \A i \in 1 .. n : u[i] = s[i]
        /\ u[n + 1] = o
    BY AppendProperties, LenProperties
  <2> HIDE DEF u, n
  <2>2. codesOf(u) = {u[i].code : i \in 1 .. n} \cup {u[n + 1].code}
    BY <2>1 DEF codesOf
  <2>3. codesOf(s) = {u[i].code : i \in 1 .. n}
    BY <1>0, <2>1 DEF codesOf, n
  <2> QED
    BY <2>1, <2>2, <2>3 DEF u
<1>3. ASSUME NEW t \in Seq(O) PROVE codesOf(s \o t) = codesOf(s) \cup codesOf(t)
  <2> DEFINE u == s \o t
             n == Len(s)
             m == Len(t)
  <2>1. /\ n \in Nat /\ m \in Nat /\ DOMAIN t = 1 .. m
        /\ DOMAIN u = 1 .. (n + m)
        /\ \A i \in 1 .. (n + m) : u[i] = IF i <= n THEN s[i] ELSE t[i - n]
    BY ConcatProperties, LenProperties
  <2> HIDE DEF u, n, m
  <2>2. \A i \in 1 .. n : i \in 1 .. (n + m) /\ u[i] = s[i]
    BY <2>1
  <2>3. ASSUME NEW i \in 1 .. m PROVE i + n \in 1 .. (n + m) /\ u[i + n] = t[i]
    <3>1. i + n \in 1 .. (n + m) /\ ~(i + n <= n) /\ (i + n) - n = i
      BY <2>1
    <3> QED
      BY <2>1, <3>1
  <2>4. \A i \in 1 .. (n + m) : \/ i \in 1 .. n /\ u[i] = s[i]
                                \/ i - n \in 1 .. m /\ u[i] = t[i - n]
    BY <2>1
  <2>5. DOMAIN s = 1 .. n
    BY <1>0 DEF n
  <2>6. codesOf(s) \cup codesOf(t) \subseteq codesOf(u)
    <3>1. ASSUME NEW i \in 1 .. n PROVE s[i].code \in codesOf(u)
      BY <2>1, <2>2 DEF codesOf
    <3>2. ASSUME NEW i \in 1 .. m PROVE t[i].code \in codesOf(u)
      <4>1. i + n \in DOMAIN u /\ u[i + n] = t[i]
        BY <2>1, <2>3
      <4> QED
        BY <4>1, Zenon DEF codesOf
    <3> QED
      BY <2>1, <2>5, <3>1, <3>2, Zenon DEF codesOf
  <2>7. codesOf(u) \subseteq codesOf(s) \cup codesOf(t)
    BY <2>1, <2>4, <2>5 DEF codesOf
  <2> QED
    BY <2>6, <2>7 DEF u
<1> QED
  BY <1>1, <1>2, <1>3

(* What is left of the codes,                                              *)
LEMMA CodesOfWith ==
    ASSUME NEW O, NEW s \in Seq(O), NEW C
    PROVE  codesOf(withCodes(s, C)) = codesOf(s) \cap C
<1> DEFINE T == {u \in Seq(O) : codesOf(withCodes(u, C)) = codesOf(u) \cap C}
<1>1. <<>> \in T
  BY EmptySeq, WithCodesEmpty, CodesOfParts
<1>2. ASSUME NEW u \in Seq(O), NEW o \in O, u \in T PROVE Append(u, o) \in T
  <2> DEFINE w == withCodes(u, C)
  <2>1. w \in Seq(O) /\ Append(u, o) \in Seq(O)
    BY WithCodesType, AppendProperties
  <2>2. withCodes(Append(u, o), C) = IF o.code \in C THEN Append(w, o) ELSE w
    BY WithCodesAppend
  <2>3. codesOf(w) = codesOf(u) \cap C
    BY <1>2
  <2> HIDE DEF w
  <2>4. codesOf(Append(w, o)) = codesOf(w) \cup {o.code}
    BY <2>1, CodesOfParts
  <2>5. codesOf(Append(u, o)) = codesOf(u) \cup {o.code}
    BY CodesOfParts
  <2>6. codesOf(withCodes(Append(u, o), C)) = codesOf(Append(u, o)) \cap C
    BY <2>2, <2>3, <2>4, <2>5
  <2> QED
    BY <2>1, <2>6
<1> HIDE DEF T
<1>3. \A u \in Seq(O) : u \in T
  BY <1>1, <1>2, SeqInduction
<1> QED
  BY <1>3 DEF T

(* and when GetOptions finds nothing.                                      *)
LEMMA NoneWithCode ==
    ASSUME NEW O, NEW s \in Seq(O), NEW c
    PROVE  GetOptions(s, c) = <<>> <=> c \notin codesOf(s)
<1>1. CASE c \notin codesOf(s)
  <2>1. withCodes(s, {c}) = withCodes(s, {})
    BY <1>1, WithCodesSame
  <2>2. withCodes(s, {}) = <<>>
    <3> DEFINE T == {u \in Seq(O) : withCodes(u, {}) = <<>>}
    <3>1. <<>> \in T
      BY EmptySeq, WithCodesEmpty
    <3>2. ASSUME NEW u \in Seq(O), NEW o \in O, u \in T PROVE Append(u, o) \in T
      BY <3>2, WithCodesAppend, AppendProperties
    <3> HIDE DEF T
    <3>3. \A u \in Seq(O) : u \in T
      BY <3>1, <3>2, SeqInduction
    <3> QED
      BY <3>3 DEF T
  <2> QED
    BY <1>1, <2>1, <2>2 DEF GetOptions
<1>2. CASE c \in codesOf(s)
  <2>1. codesOf(GetOptions(s, c)) = {c}
    BY <1>2, CodesOfWith DEF GetOptions
  <2> QED
    BY <1>2, <2>1, CodesOfParts
<1> QED
  BY <1>1, <1>2

(* The options of each code, when others are removed.                      *)
LEMMA GetAfterRemove ==
    ASSUME NEW O, NEW s \in Seq(O), NEW c
    PROVE  /\ RemoveOptions(s, c) \in Seq(O)
           /\ codesOf(RemoveOptions(s, c)) = codesOf(s) \ {c}
           /\ GetOptions(RemoveOptions(s, c), c) = <<>>
           /\ \A d : d # c => GetOptions(RemoveOptions(s, c), d) = GetOptions(s, d)
<1> DEFINE r == RemoveOptions(s, c)
<1>1. r \in Seq(O) /\ codesOf(r) = codesOf(s) \ {c}
  BY WithCodesType, CodesOfWith DEF RemoveOptions
<1>2. GetOptions(r, c) = <<>>
  BY <1>1, NoneWithCode
<1>3. ASSUME NEW d, d # c PROVE GetOptions(r, d) = GetOptions(s, d)
  <2>1. GetOptions(r, d) = withCodes(s, (codesOf(s) \ {c}) \cap {d})
    BY WithCodesTwice DEF RemoveOptions, GetOptions
  <2>2. ((codesOf(s) \ {c}) \cap {d}) \cap codesOf(s) = {d} \cap codesOf(s)
    BY <1>3
  <2> QED
    BY <2>1, <2>2, WithCodesSame DEF GetOptions
<1> QED
  BY <1>1, <1>2, <1>3

-----------------------------------------------------------------------------
(* The sorting of the options before they are written (common.go): an      *)
(* option goes behind the last one whose code is not larger.               *)

(* What sorted computes: the first n options, inserted one after the       *)
(* other.                                                                  *)
Sorts(f, s, n) == f = [k \in 0 .. n |-> IF k = 0 THEN <<>> ELSE insert(f[k - 1], s[k])]

(* There is such a function for every n.                                   *)
LEMMA SortingExists ==
    ASSUME NEW s, NEW n \in Nat
    PROVE  \E f : Sorts(f, s, n)
<1> DEFINE N == {k \in Nat : \E f : Sorts(f, s, k)}
<1>1. 0 \in N
  <2>1. Sorts([i \in 0 .. 0 |-> <<>>], s, 0)
    BY DEF Sorts
  <2> QED
    BY <2>1
<1>2. ASSUME NEW k \in Nat, k \in N PROVE k + 1 \in N
  <2>1. PICK f : Sorts(f, s, k)
    BY <1>2
  <2> DEFINE g == [i \in 0 .. (k + 1) |-> IF i = 0 THEN <<>> ELSE insert(f[i - 1], s[i])]
  <2>2. ASSUME NEW i \in 0 .. k PROVE g[i] = f[i]
    <3>1. f[i] = IF i = 0 THEN <<>> ELSE insert(f[i - 1], s[i])
      BY <2>1, Zenon DEF Sorts
    <3> QED
      BY <3>1
  <2>3. \A i \in 0 .. (k + 1) : i # 0 => i - 1 \in 0 .. k
    OBVIOUS
  <2>4. \A i \in 0 .. (k + 1) : g[i] = IF i = 0 THEN <<>> ELSE insert(g[i - 1], s[i])
    BY <2>2, <2>3
  <2>5. Sorts(g, s, k + 1)
    BY <2>4 DEF Sorts
  <2> QED
    BY <2>5
<1>3. \A k \in Nat : k \in N
  <2> HIDE DEF N
  <2> QED
    BY <1>1, <1>2, SetInduction
<1> QED
  BY <1>3

(* sorted is the last value of one.                                        *)
LEMMA SortedIs ==
    ASSUME NEW O, NEW s \in Seq(O)
    PROVE  \E f : /\ sorted(s) = f[Len(s)]
                  /\ f[0] = <<>>
                  /\ \A k \in 1 .. Len(s) : f[k] = insert(f[k - 1], s[k])
<1> DEFINE g == CHOOSE f : Sorts(f, s, Len(s))
<1>0. Len(s) \in Nat
  BY LenProperties
<1>1. Sorts(g, s, Len(s))
  BY <1>0, SortingExists
<1>2. sorted(s) = g[Len(s)]
  BY DEF sorted, Sorts
<1> HIDE DEF g
<1>3. \A k \in 0 .. Len(s) : g[k] = IF k = 0 THEN <<>> ELSE insert(g[k - 1], s[k])
  BY <1>1, Zenon DEF Sorts
<1>4. g[0] = <<>> /\ \A k \in 1 .. Len(s) : g[k] = insert(g[k - 1], s[k])
  BY <1>0, <1>3
<1> QED
  BY <1>2, <1>4

-----------------------------------------------------------------------------
(* place is behind an option that is not larger and before larger ones     *)
(* only.                                                                   *)
LEMMA PlaceExists ==
    ASSUME NEW O, NEW s \in Seq(O), NEW o, o.code \in Nat, \A e \in O : e.code \in Nat
    PROVE  /\ place(s, o) \in 0 .. Len(s)
           /\ place(s, o) > 0 => s[place(s, o)].code <= o.code
           /\ \A i \in (place(s, o) + 1) .. Len(s) : s[i].code > o.code
<1> DEFINE P(u, p) == /\ p > 0 => u[p].code <= o.code
                      /\ \A i \in (p + 1) .. Len(u) : u[i].code > o.code
           T == {u \in Seq(O) : \E p \in 0 .. Len(u) : P(u, p)}
<1>1. <<>> \in T
  BY EmptySeq
<1>2. ASSUME NEW u \in Seq(O), NEW e \in O, u \in T PROVE Append(u, e) \in T
  <2> DEFINE v == Append(u, e)
             n == Len(u)
  <2>1. /\ n \in Nat /\ v \in Seq(O) /\ Len(v) = n + 1
        /\ \A i \in 1 .. n : v[i] = u[i]
        /\ v[n + 1] = e
    BY AppendProperties, LenProperties
  <2>2. PICK p \in 0 .. n : P(u, p)
    BY <1>2
  <2> HIDE DEF v, n
  <2>3. CASE e.code <= o.code
    <3>1. P(v, n + 1)
      BY <2>1, <2>3
    <3>2. n + 1 \in 0 .. Len(v)
      BY <2>1
    <3> QED
      BY <2>1, <3>1, <3>2 DEF v
  <2>4. CASE ~(e.code <= o.code)
    <3>1. p > 0 => v[p].code <= o.code
      BY <2>1, <2>2
    <3>2. ASSUME NEW i \in (p + 1) .. Len(v) PROVE v[i].code > o.code
      <4>1. CASE i = n + 1
        BY <2>1, <2>4, <4>1
      <4>2. CASE i # n + 1
        <5>1. i \in (p + 1) .. n /\ i \in 1 .. n
          BY <2>1, <4>2
        <5> QED
          BY <2>1, <2>2, <5>1 DEF n
      <4> QED
        BY <4>1, <4>2
    <3>3. p \in 0 .. Len(v)
      BY <2>1
    <3> QED
      BY <2>1, <3>1, <3>2, <3>3 DEF v
  <2> QED
    BY <2>3, <2>4
<1>3. \A u \in Seq(O) : u \in T
  <2> HIDE DEF T
  <2> QED
    BY <1>1, <1>2, SeqInduction
<1>4. \E p \in 0 .. Len(s) : P(s, p)
  BY <1>3
<1> QED
  BY <1>4, Zenon DEF place

(* A sequence is what is before a place and what is behind it.             *)
LEMMA SplitAt ==
    ASSUME NEW O, NEW s \in Seq(O), NEW p \in 0 .. Len(s)
    PROVE  /\ SubSeq(s, 1, p) \in Seq(O) /\ Len(SubSeq(s, 1, p)) = p
           /\ SubSeq(s, p + 1, Len(s)) \in Seq(O) /\ Len(SubSeq(s, p + 1, Len(s))) = Len(s) - p
           /\ \A i \in 1 .. p : SubSeq(s, 1, p)[i] = s[i]
           /\ \A i \in 1 .. (Len(s) - p) : SubSeq(s, p + 1, Len(s))[i] = s[p + i]
           /\ s = SubSeq(s, 1, p) \o SubSeq(s, p + 1, Len(s))
<1>0. Len(s) \in Nat /\ p \in Nat /\ p <= Len(s)
  BY LenProperties
<1> DEFINE u == SubSeq(s, 1, p)
           v == SubSeq(s, p + 1, Len(s))
           n == Len(s)
<1>1. u \in Seq(O) /\ Len(u) = p /\ \A i \in 1 .. p : u[i] = s[i]
  BY <1>0, SubSeqProperties
<1>2. v \in Seq(O) /\ Len(v) = n - p /\ \A i \in 1 .. (n - p) : v[i] = s[p + i]
  BY <1>0, SubSeqProperties
<1> HIDE DEF u, v
<1> DEFINE w == u \o v
<1>3. /\ w \in Seq(O) /\ Len(w) = n
      /\ \A i \in 1 .. n : w[i] = IF i <= p THEN u[i] ELSE v[i - p]
  BY <1>0, <1>1, <1>2, ConcatProperties
<1> HIDE DEF w
<1>4. ASSUME NEW i \in 1 .. n PROVE w[i] = s[i]
  <2>1. CASE i <= p
    BY <1>0, <1>1, <1>3, <2>1
  <2>2. CASE i > p
    <3>1. i - p \in 1 .. (n - p) /\ p + (i - p) = i /\ ~(i <= p)
      BY <1>0, <2>2
    <3> QED
      BY <1>2, <1>3, <3>1
  <2> QED
    BY <1>0, <2>1, <2>2
<1>5. w = s
  BY <1>0, <1>3, <1>4, SeqEqual
<1> QED
  BY <1>1, <1>2, <1>5 DEF u, v, w

-----------------------------------------------------------------------------
(* Codes never go down: what an option's delta relies on.                  *)
ascending(s) == \A i, j \in 1 .. Len(s) : i < j => s[i].code <= s[j].code

(* insert keeps the order, loses nothing, and puts an option behind those  *)
(* with its code.                                                          *)
LEMMA InsertKeeps ==
    ASSUME NEW O, NEW s \in Seq(O), NEW o \in O, \A e \in O : e.code \in Nat
    PROVE  /\ insert(s, o) \in Seq(O)
           /\ Len(insert(s, o)) = Len(s) + 1
           /\ codesOf(insert(s, o)) = codesOf(s) \cup {o.code}
           /\ \A c : GetOptions(insert(s, o), c) = GetOptions(Append(s, o), c)
           /\ ascending(s) => ascending(insert(s, o))
<1> DEFINE p == place(s, o)
           n == Len(s)
           u == SubSeq(s, 1, p)
           v == SubSeq(s, p + 1, n)
           one == <<o>>
           uo == u \o one
           r == uo \o v
<1>1. /\ p \in 0 .. n
      /\ p > 0 => s[p].code <= o.code
      /\ \A i \in (p + 1) .. n : s[i].code > o.code
  BY PlaceExists
<1>2. insert(s, o) = r
  BY DEF insert
<1> HIDE DEF p
<1>0. n \in Nat /\ p \in Nat /\ p <= n
  <2>1. n \in Nat
    BY LenProperties
  <2> QED
    BY <1>1, <2>1
<1>3. /\ u \in Seq(O) /\ Len(u) = p
      /\ v \in Seq(O) /\ Len(v) = n - p
      /\ \A i \in 1 .. p : u[i] = s[i]
      /\ \A i \in 1 .. (n - p) : v[i] = s[p + i]
      /\ s = u \o v
  <2>1. p \in 0 .. Len(s)
    BY <1>1
  <2> QED
    BY <2>1, SplitAt, Zenon
<1>4. one \in Seq(O) /\ Len(one) = 1 /\ one[1] = o
  OBVIOUS
<1> HIDE DEF u, v, n
<1>5a. uo = Append(u, o)
  BY <1>3, AppendIsConcat
<1> HIDE DEF uo, one
<1>5. /\ uo \in Seq(O) /\ Len(uo) = p + 1
      /\ \A i \in 1 .. (p + 1) : uo[i] = IF i <= p THEN u[i] ELSE o
  <2>1. /\ uo \in Seq(O) /\ Len(uo) = Len(u) + 1
        /\ \A i \in 1 .. Len(u) : uo[i] = u[i]
        /\ uo[Len(u) + 1] = o
    <3>1. /\ Append(u, o) \in Seq(O) /\ Len(Append(u, o)) = Len(u) + 1
          /\ \A i \in 1 .. Len(u) : Append(u, o)[i] = u[i]
          /\ Append(u, o)[Len(u) + 1] = o
      BY <1>3, AppendProperties
    <3> QED
      BY <1>5a, <3>1, Zenon
  <2>2. /\ uo \in Seq(O) /\ Len(uo) = p + 1
        /\ \A i \in 1 .. p : uo[i] = u[i]
        /\ uo[p + 1] = o
    BY <1>3, <2>1
  <2> QED
    BY <1>0, <2>2
<1>6. codesOf(uo) = codesOf(u) \cup {o.code}
  BY <1>3, <1>5a, CodesOfParts
<1>7. \A c : GetOptions(uo, c) = IF o.code = c THEN Append(GetOptions(u, c), o) ELSE GetOptions(u, c)
  BY <1>3, <1>5a, GetAppend
<1>8. /\ r \in Seq(O) /\ Len(r) = n + 1
      /\ \A i \in 1 .. (n + 1) : r[i] = IF i <= p + 1 THEN uo[i] ELSE v[i - (p + 1)]
  BY <1>0, <1>3, <1>5, ConcatProperties
<1>9. codesOf(r) = codesOf(s) \cup {o.code}
  <2>1. codesOf(r) = codesOf(uo) \cup codesOf(v)
    BY <1>3, <1>5, CodesOfParts
  <2>2. codesOf(s) = codesOf(u) \cup codesOf(v)
    BY <1>3, CodesOfParts
  <2> QED
    BY <1>6, <2>1, <2>2
<1>10. ASSUME NEW c PROVE GetOptions(r, c) = GetOptions(Append(s, o), c)
  <2> DEFINE wu == GetOptions(u, c)
             wv == GetOptions(v, c)
  <2>1. GetOptions(r, c) = GetOptions(uo, c) \o wv
    BY <1>3, <1>5, GetConcat
  <2>2. GetOptions(s, c) = wu \o wv
    BY <1>3, GetConcat
  <2>3. GetOptions(Append(s, o), c) = IF o.code = c THEN Append(GetOptions(s, c), o) ELSE GetOptions(s, c)
    BY GetAppend
  <2>4. wu \in Seq(O)
    BY <1>3, GetAppend
  <2>5. CASE o.code = c
    <3>1. c \notin codesOf(v)
      <4>1. DOMAIN v = 1 .. (n - p)
        BY <1>3, LenProperties
      <4>2. ASSUME NEW i \in 1 .. (n - p) PROVE v[i].code # c
        <5>1. p + i \in (p + 1) .. n /\ v[i] = s[p + i]
          BY <1>0, <1>3
        <5>2. v[i].code > o.code
          BY <1>1, <5>1
        <5> QED
          BY <2>5, <5>2
      <4> QED
        BY <4>1, <4>2 DEF codesOf
    <3>2. wv = <<>>
      BY <1>3, <3>1, NoneWithCode
    <3>3. GetOptions(uo, c) = Append(wu, o)
      BY <1>7, <2>5
    <3> HIDE DEF wu, wv
    <3>4. Append(wu, o) \in Seq(O)
      BY <2>4, AppendProperties
    <3>5. Append(wu, o) \o <<>> = Append(wu, o) /\ wu \o <<>> = wu
      BY <2>4, <3>4, ConcatEmptySeq
    <3> QED
      BY <2>1, <2>2, <2>3, <2>5, <3>2, <3>3, <3>5
  <2>6. CASE o.code # c
    BY <1>7, <2>1, <2>2, <2>3, <2>6
  <2> QED
    BY <2>5, <2>6
<1>11. ASSUME ascending(s) PROVE ascending(r)
  <2>1. \A i, j \in 1 .. n : i < j => s[i].code <= s[j].code
    BY <1>11 DEF ascending, n
  <2>2. \A i \in 1 .. n : s[i].code \in Nat
    BY ElementOfSeq DEF n
  <2>3. \A i \in 1 .. p : s[i].code <= o.code
    <3> SUFFICES ASSUME NEW i \in 1 .. p PROVE s[i].code <= o.code
      OBVIOUS
    <3>1. i \in 1 .. n /\ p \in 1 .. n /\ s[p].code <= o.code
      BY <1>0, <1>1
    <3>2. i = p \/ s[i].code <= s[p].code
      BY <1>0, <2>1, <3>1
    <3> QED
      BY <2>2, <3>1, <3>2
  <2>4. /\ \A i \in 1 .. p : r[i] = s[i]
        /\ r[p + 1] = o
        /\ \A i \in (p + 2) .. (n + 1) : r[i] = s[i - 1]
    <3>1. \A i \in 1 .. p : r[i] = s[i]
      BY <1>0, <1>3, <1>5, <1>8
    <3>2. r[p + 1] = o
      BY <1>0, <1>5, <1>8
    <3>3. ASSUME NEW i \in (p + 2) .. (n + 1) PROVE r[i] = s[i - 1]
      <4>1. i \in 1 .. (n + 1) /\ ~(i <= p + 1) /\ i - (p + 1) \in 1 .. (n - p) /\ p + (i - (p + 1)) = i - 1
        BY <1>0
      <4> QED
        BY <1>3, <1>8, <4>1
    <3> QED
      BY <3>1, <3>2, <3>3
  <2>5. SUFFICES ASSUME NEW i \in 1 .. (n + 1), NEW j \in 1 .. (n + 1), i < j
                 PROVE  r[i].code <= r[j].code
    BY <1>8 DEF ascending
  <2> HIDE DEF r
  <2>6. CASE j <= p
    <3>1. i \in 1 .. p /\ j \in 1 .. p /\ i \in 1 .. n /\ j \in 1 .. n
      BY <1>0, <2>5, <2>6
    <3> QED
      BY <2>1, <2>4, <2>5, <3>1
  <2>7. CASE j = p + 1
    <3>1. i \in 1 .. p
      BY <1>0, <2>5, <2>7
    <3> QED
      BY <2>3, <2>4, <2>7, <3>1
  <2>8. CASE j > p + 1
    <3>1. j - 1 \in 1 .. n /\ j - 1 \in (p + 1) .. n /\ r[j] = s[j - 1]
      BY <1>0, <2>4, <2>8
    <3>2. CASE i <= p
      <4>1. i \in 1 .. p /\ i \in 1 .. n /\ i < j - 1
        BY <1>0, <2>5, <2>8, <3>2
      <4> QED
        BY <2>1, <2>4, <3>1, <4>1
    <3>3. CASE i = p + 1
      <4>1. r[i] = o /\ s[j - 1].code > o.code
        BY <1>1, <2>4, <3>1, <3>3
      <4>2. s[j - 1].code \in Nat /\ o.code \in Nat
        BY <2>2, <3>1
      <4> QED
        BY <3>1, <4>1, <4>2
    <3>4. CASE i > p + 1
      <4>1. i - 1 \in 1 .. n /\ r[i] = s[i - 1] /\ i - 1 < j - 1
        <5>1. i \in (p + 2) .. (n + 1) /\ i - 1 \in 1 .. n /\ i - 1 < j - 1
          BY <1>0, <2>5, <3>4
        <5> QED
          BY <2>4, <5>1
      <4> QED
        BY <2>1, <3>1, <4>1
    <3> QED
      BY <1>0, <3>2, <3>3, <3>4
  <2> QED
    BY <1>0, <2>6, <2>7, <2>8
<1> HIDE DEF r
<1> QED
  BY <1>2, <1>8, <1>9, <1>10, <1>11 DEF n

(* The prefixes of a sequence, each one element longer.                    *)
LEMMA PrefixSteps ==
    ASSUME NEW A, NEW s \in Seq(A)
    PROVE  /\ SubSeq(s, 1, 0) = <<>>
           /\ SubSeq(s, 1, Len(s)) = s
           /\ \A k \in 0 .. (Len(s) - 1) :
                 /\ SubSeq(s, 1, k) \in Seq(A)
                 /\ s[k + 1] \in A
                 /\ SubSeq(s, 1, k + 1) = Append(SubSeq(s, 1, k), s[k + 1])
<1>1. SubSeq(s, 1, 0) = <<>>
  BY SubSeqEmpty
<1>2. SubSeq(s, 1, Len(s)) = s
  BY SubSeqFull
<1>3. ASSUME NEW k \in 0 .. (Len(s) - 1)
      PROVE  /\ SubSeq(s, 1, k) \in Seq(A)
             /\ s[k + 1] \in A
             /\ SubSeq(s, 1, k + 1) = Append(SubSeq(s, 1, k), s[k + 1])
  <2> DEFINE u == SubSeq(s, 1, k)
             e == s[k + 1]
  <2>1. Len(s) \in Nat /\ k \in 0 .. Len(s) /\ k + 1 \in 1 .. Len(s) /\ k \in Nat
    BY LenProperties
  <2>2. u \in Seq(A)
    BY <2>1, SplitAt
  <2>3. e \in A
    BY <2>1, ElementOfSeq
  <2>4. SubSeq(s, 1, k + 1) = u \o <<e>>
    <3>1. 1 \in 1 .. Len(s) /\ k + 1 \in 1 .. Len(s) /\ (k + 1) - 1 = k
      BY <2>1
    <3>2. SubSeq(s, 1, k + 1) = SubSeq(s, 1, (k + 1) - 1) \o <<s[k + 1]>>
      BY <3>1, SubSeqRecursiveSecond
    <3> QED
      BY <3>1, <3>2
  <2> HIDE DEF u, e
  <2>5. Append(u, e) = u \o <<e>>
    BY <2>2, <2>3, AppendIsConcat
  <2>6. SubSeq(s, 1, k + 1) = Append(u, e)
    BY <2>4, <2>5
  <2> QED
    BY <2>2, <2>3, <2>6 DEF u, e
<1> QED
  BY <1>1, <1>2, <1>3

(* The same options, those of one code in the same order.                  *)
sameOptions(s, t) == /\ codesOf(s) = codesOf(t)
                     /\ \A c : GetOptions(s, c) = GetOptions(t, c)

(* Sorting makes the codes ascend and keeps the options, those of one code *)
(* in their order: a path or a query is not shuffled.                      *)
LEMMA SortedKeeps ==
    ASSUME NEW O, NEW s \in Seq(O), \A e \in O : e.code \in Nat
    PROVE  /\ sorted(s) \in Seq(O)
           /\ sameOptions(sorted(s), s)
           /\ ascending(sorted(s))
<1>1. PICK f : /\ sorted(s) = f[Len(s)]
               /\ f[0] = <<>>
               /\ \A k \in 1 .. Len(s) : f[k] = insert(f[k - 1], s[k])
  BY SortedIs
<1>0. Len(s) \in Nat
  BY LenProperties
<1> DEFINE S == {k \in 0 .. Len(s) : /\ f[k] \in Seq(O)
                                     /\ sameOptions(f[k], SubSeq(s, 1, k))
                                     /\ ascending(f[k])}
<1>2. 0 \in S
  <2>1. SubSeq(s, 1, 0) = <<>>
    BY PrefixSteps
  <2>2. sameOptions(<<>>, <<>>) /\ ascending(<<>>) /\ <<>> \in Seq(O)
    BY EmptySeq DEF sameOptions, ascending
  <2> QED
    <3>1. 0 \in 0 .. Len(s)
      BY <1>0
    <3> QED
      BY <1>1, <2>1, <2>2, <3>1, Zenon
<1>3. ASSUME NEW k \in 0 .. (Len(s) - 1), k \in S PROVE k + 1 \in S
  <2> DEFINE a == f[k]
             u == SubSeq(s, 1, k)
             e == s[k + 1]
             ue == Append(u, e)
             ae == Append(a, e)
             b == insert(a, e)
  <2>1. u \in Seq(O) /\ e \in O /\ SubSeq(s, 1, k + 1) = ue
    BY PrefixSteps
  <2>2. f[k + 1] = b
    <3>1. k + 1 \in 1 .. Len(s) /\ (k + 1) - 1 = k
      BY <1>0
    <3>2. f[k + 1] = insert(f[(k + 1) - 1], s[k + 1])
      BY <1>1, <3>1, Zenon
    <3> QED
      BY <3>1, <3>2
  <2>3. a \in Seq(O) /\ sameOptions(a, u) /\ ascending(a)
    BY <1>3
  <2>4. k + 1 \in 0 .. Len(s)
    BY <1>0
  <2> HIDE DEF a, u, e
  <2>5. /\ b \in Seq(O)
        /\ codesOf(b) = codesOf(a) \cup {e.code}
        /\ \A c : GetOptions(b, c) = GetOptions(ae, c)
        /\ ascending(b)
    <3> HIDE DEF b, ae
    <3>1. /\ insert(a, e) \in Seq(O)
          /\ codesOf(insert(a, e)) = codesOf(a) \cup {e.code}
          /\ ascending(a) => ascending(insert(a, e))
      BY <2>1, <2>3, InsertKeeps
    <3>2. \A c : GetOptions(insert(a, e), c) = GetOptions(Append(a, e), c)
      BY <2>1, <2>3, InsertKeeps
    <3> QED
      BY <2>3, <3>1, <3>2, Zenon DEF b, ae
  <2>6. codesOf(ue) = codesOf(u) \cup {e.code}
    BY <2>1, CodesOfParts
  <2>7. ASSUME NEW c PROVE GetOptions(ae, c) = GetOptions(ue, c)
    <3>1. GetOptions(a, c) = GetOptions(u, c)
      BY <2>3 DEF sameOptions
    <3>2. GetOptions(ae, c) = IF e.code = c THEN Append(GetOptions(a, c), e) ELSE GetOptions(a, c)
      BY <2>1, <2>3, GetAppend
    <3>3. GetOptions(ue, c) = IF e.code = c THEN Append(GetOptions(u, c), e) ELSE GetOptions(u, c)
      BY <2>1, GetAppend
    <3> QED
      BY <3>1, <3>2, <3>3
  <2>8. codesOf(a) = codesOf(u)
    BY <2>3 DEF sameOptions
  <2> HIDE DEF ae, ue, b
  <2>9. sameOptions(b, ue)
    BY <2>5, <2>6, <2>7, <2>8 DEF sameOptions
  <2> QED
    BY <2>1, <2>2, <2>4, <2>5, <2>9
<1> HIDE DEF S
<1>4. \A k \in 0 .. Len(s) : k \in S
  BY <1>0, <1>2, <1>3, BoundedInduction
<1>5. Len(s) \in S
  BY <1>0, <1>4
<1>6. SubSeq(s, 1, Len(s)) = s
  BY PrefixSteps
<1> QED
  BY <1>1, <1>5, <1>6 DEF S

-----------------------------------------------------------------------------
(* AddOption: the options of other codes stay, and an option that is not   *)
(* repeatable is then the only one of its code.                            *)
LEMMA AddKeeps ==
    ASSUME NEW O, NEW s \in Seq(O), NEW code, NEW value, NewOption(code, value) \in O
    PROVE  /\ AddOption(s, code, value) \in Seq(O)
           /\ codesOf(AddOption(s, code, value)) = codesOf(s) \cup {code}
           /\ \A c : c # code => GetOptions(AddOption(s, code, value), c) = GetOptions(s, c)
           /\ code \notin RepeatableOptions
                 => GetOptions(AddOption(s, code, value), code) = <<NewOption(code, value)>>
<1> DEFINE o == NewOption(code, value)
           t == IF code \in RepeatableOptions THEN s ELSE RemoveOptions(s, code)
<1>1. o.code = code
  BY DEF NewOption
<1>2. AddOption(s, code, value) = Append(t, o)
  BY DEF AddOption
<1>3. /\ t \in Seq(O)
      /\ codesOf(t) \cup {code} = codesOf(s) \cup {code}
      /\ \A c : c # code => GetOptions(t, c) = GetOptions(s, c)
      /\ code \notin RepeatableOptions => code \notin codesOf(t)
  <2>1. CASE code \in RepeatableOptions
    BY <2>1
  <2>2. CASE code \notin RepeatableOptions
    <3>1. t = RemoveOptions(s, code)
      BY <2>2
    <3>2. t \in Seq(O) /\ codesOf(t) = codesOf(s) \ {code}
      BY <3>1, GetAfterRemove
    <3>3. \A c : c # code => GetOptions(t, c) = GetOptions(s, c)
      BY <3>1, GetAfterRemove
    <3> HIDE DEF t
    <3> QED
      BY <2>2, <3>2, <3>3
  <2> QED
    BY <2>1, <2>2
<1> HIDE DEF t, o
<1>4. o \in O
  BY DEF o
<1>5. /\ Append(t, o) \in Seq(O)
      /\ codesOf(Append(t, o)) = codesOf(s) \cup {code}
  BY <1>1, <1>3, <1>4, CodesOfParts, AppendProperties
<1>6. \A c : GetOptions(Append(t, o), c) = IF o.code = c THEN Append(GetOptions(t, c), o) ELSE GetOptions(t, c)
  BY <1>3, <1>4, GetAppend
<1>7. \A c : c # code => GetOptions(Append(t, o), c) = GetOptions(s, c)
  BY <1>1, <1>3, <1>6
<1>8. ASSUME code \notin RepeatableOptions PROVE GetOptions(Append(t, o), code) = <<o>>
  <2>1. GetOptions(t, code) = <<>>
    BY <1>3, <1>8, NoneWithCode
  <2>2. Append(<<>>, o) = <<o>>
    OBVIOUS
  <2> QED
    BY <1>1, <1>6, <2>1, <2>2
<1> QED
  BY <1>2, <1>5, <1>7, <1>8 DEF o

(* Two options of one code are two that GetOptions finds.                  *)
LEMMA TwoOfOne ==
    ASSUME NEW O, NEW s \in Seq(O), NEW i \in 1 .. Len(s), NEW j \in 1 .. Len(s), i # j,
           s[i].code = s[j].code
    PROVE  Len(GetOptions(s, s[i].code)) >= 2
<1> DEFINE twice(u) == \A k, l \in 1 .. Len(u) :
                          k < l /\ u[k].code = u[l].code => Len(GetOptions(u, u[k].code)) >= 2
           T == {u \in Seq(O) : twice(u)}
<1>1. <<>> \in T
  BY EmptySeq
<1>2. ASSUME NEW u \in Seq(O), NEW o \in O, u \in T PROVE Append(u, o) \in T
  <2> DEFINE v == Append(u, o)
             n == Len(u)
  <2>1. /\ v \in Seq(O) /\ Len(v) = n + 1 /\ n \in Nat
        /\ \A k \in 1 .. n : v[k] = u[k]
        /\ v[n + 1] = o
    BY AppendProperties, LenProperties
  <2>2. \A c : /\ GetOptions(u, c) \in Seq(O)
               /\ GetOptions(v, c) = IF o.code = c THEN Append(GetOptions(u, c), o) ELSE GetOptions(u, c)
    BY GetAppend
  <2> HIDE DEF v
  <2>3. ASSUME NEW k \in 1 .. (n + 1), NEW l \in 1 .. (n + 1), k < l, v[k].code = v[l].code
        PROVE  Len(GetOptions(v, v[k].code)) >= 2
    <3> DEFINE c == v[k].code
               g == GetOptions(u, c)
    <3>1. k \in 1 .. n /\ v[k] = u[k]
      BY <2>1, <2>3
    <3>2. g \in Seq(O) /\ Len(g) \in Nat
      BY <2>2, LenProperties
    <3>3. CASE l \in 1 .. n
      <4>1. v[l] = u[l]
        BY <2>1, <3>3
      <4>2. Len(g) >= 2
        BY <1>2, <2>3, <3>1, <3>3, <4>1
      <4> HIDE DEF g, c
      <4>3. GetOptions(v, c) = IF o.code = c THEN Append(g, o) ELSE g
        BY <2>2 DEF g
      <4>4. Len(Append(g, o)) = Len(g) + 1
        BY <3>2, AppendProperties
      <4>5. Len(GetOptions(v, c)) >= 2
        BY <3>2, <4>2, <4>3, <4>4
      <4> QED
        BY <4>5 DEF c
    <3>4. CASE l = n + 1
      <4>1. o.code = c
        BY <2>1, <2>3, <3>4
      <4>2. c \in codesOf(u)
        <5>1. DOMAIN u = 1 .. n
          BY LenProperties
        <5> QED
          BY <3>1, <5>1 DEF codesOf
      <4> HIDE DEF c
      <4>3. g # <<>>
        BY <4>2, NoneWithCode
      <4>4. GetOptions(v, c) = Append(g, o)
        BY <2>2, <4>1
      <4> HIDE DEF g
      <4>5. Len(g) # 0
        BY <3>2, <4>3, EmptySeq
      <4>6. Len(Append(g, o)) = Len(g) + 1
        BY <3>2, AppendProperties
      <4>7. Len(GetOptions(v, c)) >= 2
        BY <3>2, <4>4, <4>5, <4>6
      <4> QED
        BY <4>7 DEF c
    <3>5. l \in 1 .. n \/ l = n + 1
      BY <2>1
    <3> QED
      BY <3>3, <3>4, <3>5
  <2>4. twice(v)
    BY <2>1, <2>3
  <2> HIDE DEF twice
  <2> QED
    BY <2>1, <2>4 DEF v
<1>3. s \in T
  <2> HIDE DEF T
  <2> QED
    BY <1>1, <1>2, SeqInduction
<1>4. twice(s)
  BY <1>3
<1>5. i < j \/ j < i
  OBVIOUS
<1> QED
  BY <1>4, <1>5

(* An ascending list is known by its options of each code.                 *)
LEMMA AscendingUnique ==
    ASSUME NEW O, \A e \in O : e.code \in Nat,
           NEW s \in Seq(O), NEW t \in Seq(O), ascending(s), ascending(t), sameOptions(s, t)
    PROVE  s = t
<1> DEFINE T == {u \in Seq(O) : \A v \in Seq(O) : ascending(u) /\ ascending(v) /\ sameOptions(u, v) => u = v}
<1>1. <<>> \in T
  <2>1. ASSUME NEW v \in Seq(O), sameOptions(<<>>, v) PROVE <<>> = v
    <3>1. codesOf(v) = {}
      <4>1. codesOf(<<>>) = codesOf(v)
        BY <2>1 DEF sameOptions
      <4>2. codesOf(<<>>) = {}
        BY DEF codesOf
      <4> QED
        BY <4>1, <4>2
    <3>2. DOMAIN v = {}
      BY <3>1 DEF codesOf
    <3>3. DOMAIN v = 1 .. Len(v) /\ Len(v) \in Nat
      BY LenProperties
    <3>4. Len(v) = 0
      <4>1. 1 \notin 1 .. Len(v)
        BY <3>2, <3>3
      <4> QED
        BY <3>3, <4>1
    <3> QED
      BY <3>4, EmptySeq
  <2> QED
    BY <2>1, EmptySeq
<1>2. ASSUME NEW u0 \in Seq(O), NEW e \in O, u0 \in T PROVE Append(u0, e) \in T
  <2> DEFINE u == Append(u0, e)
  <2>1. u \in Seq(O) /\ codesOf(u) = codesOf(u0) \cup {e.code}
    BY CodesOfParts, AppendProperties
  <2>2. ASSUME NEW v \in Seq(O), ascending(u), ascending(v), sameOptions(u, v) PROVE u = v
    <3>1. codesOf(u) = codesOf(v)
      BY <2>2, Zenon DEF sameOptions
    <3>2. v # <<>>
      <4>1. codesOf(<<>>) = {}
        BY DEF codesOf
      <4> HIDE DEF u
      <4> QED
        BY <2>1, <3>1, <4>1
    <3>3. PICK v0 \in Seq(O), f \in O : v = Append(v0, f)
      BY <3>2, SequenceEmptyOrAppend
    <3>4. codesOf(v) = codesOf(v0) \cup {f.code}
      BY <3>3, CodesOfParts
    <3>5. \A x \in Seq(O), o \in O : ascending(Append(x, o)) =>
             ascending(x) /\ \A c \in codesOf(x) : c <= o.code
      <4> SUFFICES ASSUME NEW x \in Seq(O), NEW o \in O, ascending(Append(x, o))
                   PROVE  ascending(x) /\ \A c \in codesOf(x) : c <= o.code
        OBVIOUS
      <4> DEFINE y == Append(x, o)
                 n == Len(x)
      <4>1. /\ Len(y) = n + 1 /\ n \in Nat /\ DOMAIN x = 1 .. n
            /\ \A k \in 1 .. n : y[k] = x[k]
            /\ y[n + 1] = o
        BY AppendProperties, LenProperties
      <4>2. ascending(y)
        OBVIOUS
      <4> HIDE DEF y
      <4>3. ascending(x)
        BY <4>1, <4>2 DEF ascending
      <4>4. ASSUME NEW k \in 1 .. n PROVE x[k].code <= o.code
        <5>1. k \in 1 .. Len(y) /\ n + 1 \in 1 .. Len(y) /\ k < n + 1
          BY <4>1
        <5> QED
          BY <4>1, <4>2, <5>1 DEF ascending
      <4>5. \A c \in codesOf(x) : c <= o.code
        BY <4>1, <4>4 DEF codesOf
      <4> QED
        BY <4>3, <4>5
    <3>6. /\ ascending(u0) /\ \A c \in codesOf(u0) : c <= e.code
          /\ ascending(v0) /\ \A c \in codesOf(v0) : c <= f.code
      BY <2>2, <3>3, <3>5
    <3>7. e.code = f.code
      <4>1. e.code \in Nat /\ f.code \in Nat
        OBVIOUS
      <4>2. e.code \in codesOf(v0) \cup {f.code} /\ f.code \in codesOf(u0) \cup {e.code}
        BY <2>1, <3>1, <3>4
      <4>3. e.code <= f.code /\ f.code <= e.code
        BY <3>6, <4>1, <4>2
      <4> QED
        BY <4>1, <4>3
    <3>8. \A c : GetOptions(u, c) = GetOptions(v, c)
      BY <2>2, Zenon DEF sameOptions
    <3>9. \A c : /\ GetOptions(u0, c) \in Seq(O) /\ GetOptions(v0, c) \in Seq(O)
                 /\ GetOptions(u, c) = IF e.code = c THEN Append(GetOptions(u0, c), e) ELSE GetOptions(u0, c)
                 /\ GetOptions(v, c) = IF f.code = c THEN Append(GetOptions(v0, c), f) ELSE GetOptions(v0, c)
      BY <3>3, GetAppend
    <3> HIDE DEF u
    <3>10. e = f /\ \A c : GetOptions(u0, c) = GetOptions(v0, c)
      <4> DEFINE gu == GetOptions(u0, e.code)
                 gv == GetOptions(v0, e.code)
      <4>1. gu \in Seq(O) /\ gv \in Seq(O) /\ Append(gu, e) = Append(gv, f)
        BY <3>7, <3>8, <3>9
      <4> HIDE DEF gu, gv
      <4>2. gu = gv /\ e = f
        BY <4>1, AppendInjective
      <4>3. \A c : c # e.code => GetOptions(u0, c) = GetOptions(v0, c)
        BY <3>7, <3>8, <3>9
      <4> QED
        BY <4>2, <4>3 DEF gu, gv
    <3>11. sameOptions(u0, v0)
      <4>1. \A c : c \in codesOf(u0) <=> c \in codesOf(v0)
        BY <3>10, NoneWithCode
      <4> QED
        BY <3>10, <4>1 DEF sameOptions
    <3>12. u0 = v0
      BY <1>2, <3>6, <3>11
    <3> QED
      BY <3>3, <3>10, <3>12 DEF u
  <2> QED
    BY <2>1, <2>2
<1>3. s \in T
  <2> HIDE DEF T
  <2> QED
    BY <1>1, <1>2, SeqInduction
<1> QED
  BY <1>3

-----------------------------------------------------------------------------
(* Cutting a sequence that was joined from parts, as the reader of a       *)
(* datagram does with the lengths it reads.                                *)

(* Where v is found in s, place by place, SubSeq cuts it out.              *)
LEMMA Slice ==
    ASSUME NEW A, NEW s \in Seq(A), NEW v \in Seq(A), NEW m \in Nat,
           m + Len(v) <= Len(s), \A i \in 1 .. Len(v) : s[m + i] = v[i]
    PROVE  SubSeq(s, m + 1, m + Len(v)) = v
<1> DEFINE n == Len(v)
           u == SubSeq(s, m + 1, m + n)
<1>1. n \in Nat /\ Len(s) \in Nat
  BY LenProperties
<1>2. \A i \in (m + 1) .. (m + n) : s[i] \in A
  <2> SUFFICES ASSUME NEW i \in (m + 1) .. (m + n) PROVE s[i] \in A
    OBVIOUS
  <2>1. i \in 1 .. Len(s)
    BY <1>1
  <2> QED
    BY <2>1, ElementOfSeq
<1> HIDE DEF n
<1>3. /\ u \in Seq(A)
      /\ Len(u) = IF m + 1 <= m + n THEN (m + n) - (m + 1) + 1 ELSE 0
      /\ \A i \in 1 .. ((m + n) - (m + 1) + 1) : u[i] = s[(m + 1) + i - 1]
  <2>1. m + 1 \in Int /\ m + n \in Int
    BY <1>1
  <2> QED
    BY <1>2, <2>1, SubSeqProperties
<1> HIDE DEF u
<1>4. Len(u) = n
  BY <1>1, <1>3
<1>5. ASSUME NEW i \in 1 .. n PROVE u[i] = v[i]
  <2>1. i \in 1 .. ((m + n) - (m + 1) + 1) /\ (m + 1) + i - 1 = m + i
    BY <1>1
  <2>2. u[i] = s[m + i]
    BY <1>3, <2>1
  <2> QED
    BY <2>2 DEF n
<1>6. u = v
  BY <1>3, <1>4, <1>5, SeqEqual DEF n
<1> QED
  BY <1>6 DEF u, n

(* r is u and then v; follows says it place by place.                      *)
joins(r, u, v) == r = u \o v

follows(r, u, v) == /\ Len(r) = Len(u) + Len(v)
                    /\ \A i \in 1 .. Len(u) : r[i] = u[i]
                    /\ \A i \in 1 .. Len(v) : r[Len(u) + i] = v[i]

(* The one follows from the other.                                         *)
LEMMA TwoParts ==
    ASSUME NEW A, NEW u \in Seq(A), NEW v \in Seq(A), NEW r, joins(r, u, v)
    PROVE  r \in Seq(A) /\ follows(r, u, v)
<1> DEFINE w == u \o v
           m == Len(u)
           n == Len(v)
<1>1. /\ m \in Nat /\ n \in Nat
      /\ w \in Seq(A) /\ Len(w) = m + n
      /\ \A i \in 1 .. (m + n) : w[i] = IF i <= m THEN u[i] ELSE v[i - m]
  BY LenProperties, ConcatProperties
<1> HIDE DEF w, m, n
<1>2. ASSUME NEW i \in 1 .. m PROVE w[i] = u[i]
  BY <1>1
<1>3. ASSUME NEW i \in 1 .. n PROVE w[m + i] = v[i]
  <2>1. m + i \in 1 .. (m + n) /\ ~(m + i <= m) /\ (m + i) - m = i
    BY <1>1
  <2> QED
    BY <1>1, <2>1
<1> QED
  BY <1>1, <1>2, <1>3 DEF w, m, n, joins, follows

(* The shape that an option and a whole datagram have: an element, two     *)
(* parts whose lengths it tells, a body and the rest,                      *)
optionThen(A, s, h, p, q, b, t) ==
    /\ h \in A /\ p \in Seq(A) /\ q \in Seq(A) /\ b \in Seq(A) /\ t \in Seq(A)
    /\ s = <<h>> \o p \o q \o b \o t

(* and what the reader cuts out of it.                                     *)
hasParts(A, s, h, p, q, b, t) ==
    /\ s \in Seq(A)
    /\ Len(s) = 1 + Len(p) + Len(q) + Len(b) + Len(t)
    /\ s[1] = h
    /\ SubSeq(s, 2, 1 + Len(p)) = p
    /\ SubSeq(s, 2 + Len(p), 1 + Len(p) + Len(q)) = q
    /\ SubSeq(s, 1 + Len(p) + Len(q) + 1, 1 + Len(p) + Len(q) + Len(b)) = b
    /\ SubSeq(s, 1 + Len(p) + Len(q) + Len(b) + 1, Len(s)) = t

(* It cuts out what was written.                                           *)
LEMMA Slices ==
    ASSUME NEW A, NEW s, NEW h, NEW p, NEW q, NEW b, NEW t, optionThen(A, s, h, p, q, b, t)
    PROVE  hasParts(A, s, h, p, q, b, t)
<1> DEFINE s1 == <<h>>
           s2 == s1 \o p
           s3 == s2 \o q
           s4 == s3 \o b
           lp == Len(p)
           lq == Len(q)
           lb == Len(b)
           lt == Len(t)
<1>a. h \in A /\ p \in Seq(A) /\ q \in Seq(A) /\ b \in Seq(A) /\ t \in Seq(A)
  BY Zenon DEF optionThen
<1>0. lp \in Nat /\ lq \in Nat /\ lb \in Nat /\ lt \in Nat
  BY <1>a, LenProperties
<1>1. s1 \in Seq(A) /\ Len(s1) = 1 /\ s1[1] = h
  BY <1>a
<1>00. s = s4 \o t
  BY Zenon DEF optionThen
<1> HIDE DEF s1
<1>2. /\ s2 \in Seq(A) /\ Len(s2) = 1 + lp /\ s2[1] = h
      /\ \A i \in 1 .. lp : s2[1 + i] = p[i]
  <2>0. joins(s2, s1, p)
    BY DEF joins
  <2> HIDE DEF s2
  <2>1. s2 \in Seq(A) /\ follows(s2, s1, p)
    BY <1>a, <1>1, <2>0, TwoParts
  <2> QED
    BY <1>0, <1>1, <2>1 DEF follows, lp
<1> HIDE DEF s2
<1>3. /\ s3 \in Seq(A) /\ Len(s3) = 1 + lp + lq
      /\ \A i \in 1 .. (1 + lp) : s3[i] = s2[i]
      /\ \A i \in 1 .. lq : s3[(1 + lp) + i] = q[i]
  <2>0. joins(s3, s2, q)
    BY DEF joins
  <2> HIDE DEF s3
  <2>1. s3 \in Seq(A) /\ follows(s3, s2, q)
    BY <1>a, <1>2, <2>0, TwoParts
  <2> QED
    BY <1>0, <1>2, <2>1 DEF follows, lq
<1> HIDE DEF s3
<1>4. /\ s4 \in Seq(A) /\ Len(s4) = 1 + lp + lq + lb
      /\ \A i \in 1 .. (1 + lp + lq) : s4[i] = s3[i]
      /\ \A i \in 1 .. lb : s4[(1 + lp + lq) + i] = b[i]
  <2>0. joins(s4, s3, b)
    BY DEF joins
  <2> HIDE DEF s4
  <2>1. s4 \in Seq(A) /\ follows(s4, s3, b)
    BY <1>a, <1>3, <2>0, TwoParts
  <2> QED
    BY <1>0, <1>3, <2>1 DEF follows, lb
<1> HIDE DEF s4
<1>5. /\ s \in Seq(A) /\ Len(s) = 1 + lp + lq + lb + lt
      /\ \A i \in 1 .. (1 + lp + lq + lb) : s[i] = s4[i]
      /\ \A i \in 1 .. lt : s[(1 + lp + lq + lb) + i] = t[i]
  <2> DEFINE s5 == s4 \o t
  <2>2. s = s5
    BY <1>00
  <2>0. joins(s5, s4, t)
    BY DEF joins
  <2> HIDE DEF s5
  <2>1. s5 \in Seq(A) /\ follows(s5, s4, t)
    BY <1>a, <1>4, <2>0, TwoParts
  <2> QED
    BY <1>0, <1>4, <2>1, <2>2 DEF follows, lt
<1> HIDE DEF lp, lq, lb, lt
<1>6. s[1] = h
  <2>1. 1 \in 1 .. (1 + lp) /\ 1 \in 1 .. (1 + lp + lq) /\ 1 \in 1 .. (1 + lp + lq + lb)
    BY <1>0
  <2> QED
    BY <1>2, <1>3, <1>4, <1>5, <2>1
<1>7. \A i \in 1 .. lp : s[1 + i] = p[i]
  <2> SUFFICES ASSUME NEW i \in 1 .. lp PROVE s[1 + i] = p[i]
    OBVIOUS
  <2>1. 1 + i \in 1 .. (1 + lp) /\ 1 + i \in 1 .. (1 + lp + lq) /\ 1 + i \in 1 .. (1 + lp + lq + lb)
    BY <1>0
  <2> QED
    BY <1>2, <1>3, <1>4, <1>5, <2>1
<1>8. \A i \in 1 .. lq : s[(1 + lp) + i] = q[i]
  <2> SUFFICES ASSUME NEW i \in 1 .. lq PROVE s[(1 + lp) + i] = q[i]
    OBVIOUS
  <2>1. (1 + lp) + i \in 1 .. (1 + lp + lq) /\ (1 + lp) + i \in 1 .. (1 + lp + lq + lb)
    BY <1>0
  <2> QED
    BY <1>3, <1>4, <1>5, <2>1
<1>9. \A i \in 1 .. lb : s[(1 + lp + lq) + i] = b[i]
  <2> SUFFICES ASSUME NEW i \in 1 .. lb PROVE s[(1 + lp + lq) + i] = b[i]
    OBVIOUS
  <2>1. (1 + lp + lq) + i \in 1 .. (1 + lp + lq + lb)
    BY <1>0
  <2> QED
    BY <1>4, <1>5, <2>1
<1>10. SubSeq(s, 1 + 1, 1 + lp) = p
  <2>1. 1 \in Nat /\ 1 + Len(p) <= Len(s)
    BY <1>0, <1>5 DEF lp
  <2> QED
    BY <1>a, <1>5, <1>7, <2>1, Slice DEF lp
<1>11. SubSeq(s, (1 + lp) + 1, (1 + lp) + lq) = q
  <2> DEFINE m == 1 + lp
  <2>1. m \in Nat /\ m + Len(q) <= Len(s)
    BY <1>0, <1>5 DEF lq
  <2>2. \A i \in 1 .. Len(q) : s[m + i] = q[i]
    BY <1>8 DEF lq
  <2> HIDE DEF m
  <2> QED
    BY <1>a, <1>5, <2>1, <2>2, Slice DEF lq, m
<1>12. SubSeq(s, (1 + lp + lq) + 1, (1 + lp + lq) + lb) = b
  <2> DEFINE m == 1 + lp + lq
  <2>1. m \in Nat /\ m + Len(b) <= Len(s)
    BY <1>0, <1>5 DEF lb
  <2>2. \A i \in 1 .. Len(b) : s[m + i] = b[i]
    BY <1>9 DEF lb
  <2> HIDE DEF m
  <2> QED
    BY <1>a, <1>5, <2>1, <2>2, Slice DEF lb, m
<1>13. SubSeq(s, (1 + lp + lq + lb) + 1, (1 + lp + lq + lb) + lt) = t
  <2> DEFINE m == 1 + lp + lq + lb
  <2>1. m \in Nat /\ m + Len(t) <= Len(s)
    BY <1>0, <1>5 DEF lt
  <2>2. \A i \in 1 .. Len(t) : s[m + i] = t[i]
    BY <1>5 DEF lt
  <2> HIDE DEF m
  <2> QED
    BY <1>a, <1>5, <2>1, <2>2, Slice DEF lt, m
<1>14. 1 + 1 = 2 /\ (1 + lp) + 1 = 2 + lp
  BY <1>0
<1>15. /\ Len(s) = 1 + lp + lq + lb + lt
       /\ SubSeq(s, 2, 1 + lp) = p
       /\ SubSeq(s, 2 + lp, 1 + lp + lq) = q
       /\ SubSeq(s, 1 + lp + lq + 1, 1 + lp + lq + lb) = b
       /\ SubSeq(s, 1 + lp + lq + lb + 1, Len(s)) = t
  BY <1>5, <1>10, <1>11, <1>12, <1>13, <1>14
<1> QED
  BY <1>5, <1>6, <1>15, Zenon DEF lp, lq, lb, lt, hasParts

-----------------------------------------------------------------------------
(* The bytes of numbers, option values and option headers, and the options *)
(* that a message may hold.                                                *)

LEMMA Largest == Max16 \in Nat /\ Max32 \in Nat
  BY SMT DEF Max16, Max32

(* Literal sequences are sequences over A.                                 *)
LEMMA ShortSequences ==
    ASSUME NEW A
    PROVE  /\ \A x, y \in A : <<x, y>> \in Seq(A)
           /\ \A x, y, z, w \in A : <<x, y, z, w>> \in Seq(A)
  OBVIOUS

(* Numbers are written as bytes:                                           *)
LEMMA Be2Type == ASSUME NEW v \in Nat, v <= Max16 PROVE Be2(v) \in Seq(Byte)
<1> DEFINE b == Be2(v)
           x == b[1]
           y == b[2]
<1>1. x \in Byte /\ y \in Byte
  BY Be2Inverse
<1>2. b = <<x, y>>
  BY DEF Be2
<1> HIDE DEF b, x, y
<1>3. b \in Seq(Byte)
  BY <1>1, <1>2, ShortSequences
<1> QED
  BY <1>3 DEF b

(* of two,                                                                 *)
LEMMA Be4Type == ASSUME NEW v \in Nat, v <= Max32 PROVE Be4(v) \in Seq(Byte)
<1> DEFINE b == Be4(v)
           x == b[1]
           y == b[2]
           z == b[3]
           w == b[4]
<1>1. x \in Byte /\ y \in Byte /\ z \in Byte /\ w \in Byte
  BY Be4Inverse
<1>2. b = <<x, y, z, w>>
  BY DEF Be4
<1> HIDE DEF b, x, y, z, w
<1>3. b \in Seq(Byte)
  BY <1>1, <1>2, ShortSequences
<1> QED
  BY <1>3 DEF b

(* of an option's header and of its integer value.                         *)
LEMMA EncodedTypes ==
    /\ \A v \in 0 .. MaxExtended : extendedBytes(v) \in Seq(Byte)
    /\ \A v \in 0 .. Max32 : encodeInt(v) \in Seq(Byte)
<1>1. ASSUME NEW v \in 0 .. MaxExtended PROVE extendedBytes(v) \in Seq(Byte)
  <2>0. v \in Nat /\ v <= MaxExtended
    BY Largest, SMT DEF MaxExtended
  <2>1. CASE v <= 12
    <3>1. getOptionHeaderValue(v) = v /\ v # 13 /\ v # 14
      BY <2>0, <2>1, SMT DEF getOptionHeaderValue
    <3>2. extendedBytes(v) = <<>>
      BY <3>1, Zenon DEF extendedBytes
    <3> QED
      BY <3>2, EmptySeq
  <2>2. CASE v \in 13 .. 268
    <3>1. extendedBytes(v) = <<v - 13>> /\ v - 13 \in Byte
      BY <2>2, SMT DEF getOptionHeaderValue, extendedBytes, Byte
    <3> QED
      BY <3>1
  <2>3. CASE v >= 269
    <3> DEFINE k == (v - 269) % (Max16 + 1)
    <3>1. getOptionHeaderValue(v) = 14
      BY <2>0, <2>3, SMT DEF getOptionHeaderValue
    <3>2. extendedBytes(v) = Be2(k)
      BY <3>1, SMT DEF extendedBytes
    <3>3. k \in Nat /\ k <= Max16
      BY <2>0, <2>3, Largest, SMT
    <3> QED
      BY <3>2, <3>3, Be2Type
  <2> QED
    BY <2>0, <2>1, <2>2, <2>3, SMT
<1>2. ASSUME NEW v \in 0 .. Max32 PROVE encodeInt(v) \in Seq(Byte)
  <2>0. v \in Nat /\ v <= Max32
    BY Largest
  <2>1. CASE v = 0
    BY <2>1, EmptySeq DEF encodeInt
  <2>2. CASE v \in 1 .. 255
    <3>1. encodeInt(v) = <<v>> /\ v \in Byte
      BY <2>2, SMT DEF encodeInt, Byte
    <3> QED
      BY <3>1
  <2>3. CASE v >= 256 /\ v <= Max16
    <3>1. encodeInt(v) = Be2(v)
      BY <2>3, SMT DEF encodeInt
    <3> QED
      BY <2>0, <2>3, <3>1, Be2Type
  <2>4. CASE v > Max16
    <3>1. encodeInt(v) = Be4(v)
      BY <2>0, <2>4, SMT DEF encodeInt, Max16
    <3> QED
      BY <2>0, <3>1, Be4Type
  <2> QED
    BY <2>0, <2>1, <2>2, <2>3, <2>4, SMT DEF Max16
<1> QED
  BY <1>1, <1>2

(* The options that the program makes: an option that is decoded as an     *)
(* integer holds one, of 32 bits, an option that is decoded as a string    *)
(* holds a string, no longer than its length can say.                      *)
optionOver(A) ==
    {o \in [code : 0 .. Max16, value : [kind : {"int", "string"}, n : 0 .. Max32, s : Seq(A)]] :
        \/ o.value = int(o.value.n) /\ o.code \notin StringOptions
        \/ /\ o.value = string(o.value.s) /\ o.code \notin IntOptions
           /\ Len(o.value.s) <= Max16}

(* The value of an option, written: its length fits a header, and an       *)
(* integer or a string that is decoded comes back as it was.               *)
LEMMA ValueBytes ==
    ASSUME NEW A, Byte \subseteq A, NEW o \in optionOver(A)
    PROVE  /\ valueToBytes(o.value) \in Seq(A)
           /\ Len(valueToBytes(o.value)) <= Max16
           /\ o.code \in IntOptions => /\ Len(valueToBytes(o.value)) <= 4
                                       /\ o = NewOption(o.code, int(decodeInt(valueToBytes(o.value))))
           /\ o.code \in StringOptions => o = NewOption(o.code, string(valueToBytes(o.value)))
<1>0. o = NewOption(o.code, o.value) /\ o.value.s \in Seq(A) /\ o.value.n \in 0 .. Max32
  BY DEF optionOver, NewOption
<1>1. CASE o.value = int(o.value.n) /\ o.code \notin StringOptions
  <2> DEFINE n == o.value.n
             b == encodeInt(n)
  <2>1. valueToBytes(o.value) = b
    BY <1>1 DEF valueToBytes, int
  <2>2. n \in Nat /\ n <= Max32
    BY <1>0, Largest
  <2>3. Len(b) <= 4 /\ decodeInt(b) = n
    BY <2>2, IntRoundTrip
  <2>4. b \in Seq(A)
    <3>1. b \in Seq(Byte)
      BY <1>0, EncodedTypes
    <3> HIDE DEF b
    <3> QED
      BY <3>1, SeqMonotonic
  <2> HIDE DEF b, n
  <2>5. Len(b) <= Max16
    BY <2>3, <2>4, LenProperties, SMT DEF Max16
  <2> QED
    BY <1>0, <1>1, <2>1, <2>3, <2>4, <2>5 DEF n
<1>2. CASE o.value = string(o.value.s) /\ o.code \notin IntOptions /\ Len(o.value.s) <= Max16
  <2>1. valueToBytes(o.value) = o.value.s
    BY <1>2 DEF valueToBytes, string
  <2> QED
    BY <1>0, <1>2, <2>1
<1> QED
  BY <1>1, <1>2 DEF optionOver

-----------------------------------------------------------------------------
(* One turn of the loop that reads the options (message.go:140-211).       *)

(* What a receiver keeps of an option.                                     *)
kept(o) == IF o.code \in DecodedOptions THEN <<o>> ELSE <<>>

(* The loop, with msg read so far.                                         *)
reading(rest, last, msg) == [rest |-> rest, last |-> last, read |-> accepted(msg)]

(* A message with more options.                                            *)
withKept(msg, options) == [msg EXCEPT !.options = @ \o options]

(* What nested updates of the loop's message come to.                      *)
LEMMA OptionsOfRead ==
    ASSUME NEW msg, NEW options
    PROVE  [accepted(msg) EXCEPT !.msg.options = @ \o options] = accepted(withKept(msg, options))
<1> DEFINE r == [err |-> "none", msg |-> msg]
           longer == [msg EXCEPT !.options = msg.options \o options]
<1>1. [r EXCEPT !.msg.options = @ \o options]
        = [r EXCEPT !.msg = [r.msg EXCEPT !.options = r.msg.options \o options]]
  <2> HIDE DEF r
  <2> QED
    OBVIOUS
<1>2. r.msg = msg
  OBVIOUS
<1>3. \A x : [r EXCEPT !.msg = x] = [err |-> "none", msg |-> x]
  OBVIOUS
<1>4. withKept(msg, options) = longer
  BY DEF withKept
<1> HIDE DEF r
<1>5. [r.msg EXCEPT !.options = r.msg.options \o options] = longer
  BY <1>2
<1> HIDE DEF longer
<1>6. [r EXCEPT !.msg = [r.msg EXCEPT !.options = r.msg.options \o options]]
        = [err |-> "none", msg |-> longer]
  BY <1>3, <1>5
<1> QED
  BY <1>1, <1>4, <1>6, Zenon DEF accepted, r

(* What a turn takes from the bytes when none of its checks fails.         *)
parsed(tmp, last, d, l, ed, begin, code, len, bytes) ==
    /\ tmp # <<>> /\ tmp[1] # PayloadMarker
    /\ d = tmp[1] \div 16 /\ d # 15
    /\ l = tmp[1] % 16 /\ l # 15
    /\ ed = extendedLength(d)
    /\ begin = 1 + ed + extendedLength(l) /\ ~(begin > Len(tmp))
    /\ code = (last + extendedValue(d, SubSeq(tmp, 2, 1 + ed))) % (Max16 + 1)
    /\ len = extendedValue(l, SubSeq(tmp, 2 + ed, begin)) /\ ~(begin + len > Len(tmp))
    /\ bytes = SubSeq(tmp, begin + 1, begin + len)

(* What the turn does with them.                                           *)
turned(tmp, last, msg, rest, code, len, bytes) ==
    IF code \in IntOptions /\ len > 4 THEN refuse(reading(tmp, last, msg), "data outside of type")
    ELSE IF code \in IntOptions
         THEN reading(rest, code, withKept(msg, <<NewOption(code, int(decodeInt(bytes)))>>))
    ELSE IF code \in StringOptions
         THEN reading(rest, code, withKept(msg, <<NewOption(code, string(bytes))>>))
    ELSE IF critical(code) THEN refuse(reading(tmp, last, msg), "ErrUnknownCriticalOption")
    ELSE reading(rest, code, withKept(msg, <<>>))

(* The one turn, with what it takes from the bytes given names.            *)
LEMMA TurnReads ==
    ASSUME NEW msg, NEW tmp, NEW last, NEW d, NEW l, NEW ed, NEW begin, NEW code, NEW len, NEW bytes,
           parsed(tmp, last, d, l, ed, begin, code, len, bytes)
    PROVE  turn(reading(tmp, last, msg))
             = turned(tmp, last, msg, SubSeq(tmp, begin + len + 1, Len(tmp)), code, len, bytes)
<1> DEFINE loop == reading(tmp, last, msg)
           after(end, options) == [rest |-> SubSeq(tmp, end + 1, Len(tmp)), last |-> code,
                                   read |-> [loop.read EXCEPT !.msg.options = @ \o options]]
<1>1. loop.rest = tmp /\ loop.last = last /\ ~finished(loop)
  BY DEF reading, finished, accepted, parsed
<1>2. turn(loop) =
        IF code \in IntOptions /\ len > 4 THEN refuse(loop, "data outside of type")
        ELSE IF code \in IntOptions THEN after(begin + len, <<NewOption(code, int(decodeInt(bytes)))>>)
        ELSE IF code \in StringOptions THEN after(begin + len, <<NewOption(code, string(bytes))>>)
        ELSE IF critical(code) THEN refuse(loop, "ErrUnknownCriticalOption")
        ELSE after(begin + len, <<>>)
  <2> HIDE DEF loop
  <2> QED
    BY <1>1, Zenon DEF turn, parsed
<1>3. \A options : [loop.read EXCEPT !.msg.options = @ \o options] = accepted(withKept(msg, options))
  <2> SUFFICES ASSUME NEW options
               PROVE  [loop.read EXCEPT !.msg.options = @ \o options] = accepted(withKept(msg, options))
    OBVIOUS
  <2>1. loop.read = accepted(msg)
    BY DEF reading
  <2> HIDE DEF loop
  <2> QED
    BY <2>1, OptionsOfRead, Zenon
<1>4. \A options : after(begin + len, options) =
                     reading(SubSeq(tmp, begin + len + 1, Len(tmp)), code, withKept(msg, options))
  BY <1>3, Zenon DEF reading
<1> HIDE DEF after
<1> DEFINE rest == SubSeq(tmp, begin + len + 1, Len(tmp))
           whole == <<NewOption(code, int(decodeInt(bytes)))>>
           text == <<NewOption(code, string(bytes))>>
<1>5. /\ after(begin + len, whole) = reading(rest, code, withKept(msg, whole))
      /\ after(begin + len, text) = reading(rest, code, withKept(msg, text))
      /\ after(begin + len, <<>>) = reading(rest, code, withKept(msg, <<>>))
  BY <1>4
<1> QED
  BY <1>2, <1>5, Zenon DEF turned

LEMMA HeaderByte ==
    ASSUME NEW hd \in 0 .. 14, NEW hl \in 0 .. 14
    PROVE  /\ 16 * hd + hl \in Byte /\ 16 * hd + hl # PayloadMarker
           /\ hd = (16 * hd + hl) \div 16 /\ hl = (16 * hd + hl) % 16
  BY SMT DEF Byte, PayloadMarker

(* The bytes of an option, written after an option with the number last,   *)
(* and of what follows it.                                                 *)
startsWith(A, tmp, o, last, t) ==
    /\ Byte \subseteq A /\ o \in optionOver(A) /\ last \in Nat /\ last <= o.code /\ t \in Seq(A)
    /\ tmp = optionBytes(o.code - last, valueToBytes(o.value)) \o t

(* An option that a receiver must understand and does not.                 *)
unread(o) == o.code \notin DecodedOptions /\ critical(o.code)

notUnderstood == refused("ErrUnknownCriticalOption")

(* A turn that meets option o leads to next, or refuses the message.       *)
turnsTo(loop, o, next) ==
    IF unread(o) THEN turn(loop).read = notUnderstood ELSE turn(loop) = next

(* A turn that meets an option reads it, with the delta to the one before, *)
(* and leaves what follows it; or it refuses the message, for this option. *)
LEMMA OneOption ==
    ASSUME NEW A, NEW o, NEW last, NEW t, NEW tmp, startsWith(A, tmp, o, last, t), NEW msg
    PROVE  /\ tmp \in Seq(A) /\ Len(tmp) > Len(t)
           /\ turnsTo(reading(tmp, last, msg), o, reading(t, o.code, withKept(msg, kept(o))))
<1> DEFINE delta == o.code - last
           bytes == valueToBytes(o.value)
           len == Len(bytes)
           d == getOptionHeaderValue(delta)
           l == getOptionHeaderValue(len)
           h == 16 * d + l
           p == extendedBytes(delta)
           q == extendedBytes(len)
           ed == Len(p)
           el == Len(q)
           begin == 1 + ed + el
<1>0. Byte \subseteq A /\ o \in optionOver(A) /\ last \in Nat /\ last <= o.code /\ t \in Seq(A)
  BY Zenon DEF startsWith
<1>1. o.code \in Nat /\ o.code <= Max16
  BY <1>0, Largest DEF optionOver
<1>2. /\ bytes \in Seq(A) /\ len \in Nat /\ len <= Max16
      /\ o.code \in IntOptions => len <= 4 /\ o = NewOption(o.code, int(decodeInt(bytes)))
      /\ o.code \in StringOptions => o = NewOption(o.code, string(bytes))
  BY <1>0, ValueBytes, LenProperties
<1>3. delta \in Nat /\ delta <= Max16 /\ last + delta = o.code
  BY <1>0, <1>1, Largest
<1>4. tmp = <<h>> \o p \o q \o bytes \o t
  BY Zenon DEF optionBytes, startsWith
<1> HIDE DEF delta, bytes, len
<1>5. Max16 <= MaxExtended /\ MaxExtended \in Nat
  BY SMT DEF Max16, MaxExtended
<1>6. /\ d \in 0 .. 14 /\ ed = extendedLength(d) /\ extendedValue(d, p) = delta
      /\ l \in 0 .. 14 /\ el = extendedLength(l) /\ extendedValue(l, q) = len
      /\ p \in Seq(Byte) /\ q \in Seq(Byte)
  <2>1. delta <= MaxExtended /\ len <= MaxExtended /\ delta \in 0 .. MaxExtended /\ len \in 0 .. MaxExtended
    BY <1>2, <1>3, <1>5, Largest
  <2> QED
    BY <1>2, <1>3, <2>1, OptionHeaderRoundTrip, EncodedTypes
<1> HIDE DEF d, l, p, q
<1>7. h \in A /\ h # PayloadMarker /\ d = h \div 16 /\ l = h % 16
  BY <1>0, <1>6, HeaderByte
<1>8. p \in Seq(A) /\ q \in Seq(A) /\ ed \in Nat /\ el \in Nat /\ Len(t) \in Nat
  BY <1>0, <1>6, SeqMonotonic, LenProperties
<1> HIDE DEF h
<1>9. /\ tmp \in Seq(A) /\ Len(tmp) = 1 + ed + el + len + Len(t) /\ tmp[1] = h
      /\ SubSeq(tmp, 2, 1 + ed) = p
      /\ SubSeq(tmp, 2 + ed, begin) = q
      /\ SubSeq(tmp, begin + 1, begin + len) = bytes
      /\ SubSeq(tmp, begin + len + 1, Len(tmp)) = t
  <2>1. /\ tmp \in Seq(A)
        /\ Len(tmp) = 1 + Len(p) + Len(q) + Len(bytes) + Len(t)
        /\ tmp[1] = h
        /\ SubSeq(tmp, 2, 1 + Len(p)) = p
        /\ SubSeq(tmp, 2 + Len(p), 1 + Len(p) + Len(q)) = q
        /\ SubSeq(tmp, 1 + Len(p) + Len(q) + 1, 1 + Len(p) + Len(q) + Len(bytes)) = bytes
        /\ SubSeq(tmp, 1 + Len(p) + Len(q) + Len(bytes) + 1, Len(tmp)) = t
    <3>1. h \in A /\ p \in Seq(A) /\ q \in Seq(A) /\ bytes \in Seq(A)
      BY <1>0, <1>2, <1>7, <1>8
    <3>2. optionThen(A, tmp, h, p, q, bytes, t)
      BY <1>0, <1>4, <3>1, Zenon DEF optionThen
    <3>3. hasParts(A, tmp, h, p, q, bytes, t)
      BY <3>2, Slices
    <3> QED
      BY <3>3, Zenon DEF hasParts
  <2> QED
    BY <2>1, Zenon DEF len
<1> HIDE DEF ed, el
<1>10. /\ tmp # <<>> /\ d # 15 /\ l # 15
       /\ begin \in Nat /\ ~(begin > Len(tmp)) /\ ~(begin + len > Len(tmp)) /\ Len(tmp) > Len(t)
  <2>1. tmp # <<>>
    BY <1>2, <1>8, <1>9, EmptySeq
  <2>2. d # 15 /\ l # 15
    BY <1>6
  <2> DEFINE n == Len(tmp)
             m == Len(t)
  <2>3. n = 1 + ed + el + len + m /\ m \in Nat
    BY <1>8, <1>9
  <2> HIDE DEF n, m
  <2>4. begin \in Nat /\ ~(begin > n) /\ ~(begin + len > n) /\ n > m
    BY <1>2, <1>8, <2>3
  <2> QED
    BY <2>1, <2>2, <2>4 DEF n, m
<1>11. o.code = (last + extendedValue(d, p)) % (Max16 + 1)
  <2>1. \A c, m \in Nat : c <= m => c = c % (m + 1)
    OBVIOUS
  <2> QED
    BY <1>0, <1>1, <1>3, <1>6, <2>1, Largest
<1> DEFINE code == o.code
           loop == reading(tmp, last, msg)
<1>12. turn(loop) = turned(tmp, last, msg, t, code, len, bytes)
  <2>1. begin = 1 + ed + extendedLength(l)
    BY <1>6
  <2> HIDE DEF begin
  <2> QED
    <3>1. d = tmp[1] \div 16 /\ l = tmp[1] % 16 /\ tmp[1] # PayloadMarker
      BY <1>7, <1>9
    <3>2. ed = extendedLength(d)
      BY <1>6
    <3>3. code = (last + extendedValue(d, SubSeq(tmp, 2, 1 + ed))) % (Max16 + 1)
      BY <1>9, <1>11
    <3>4. len = extendedValue(l, SubSeq(tmp, 2 + ed, begin))
      BY <1>6, <1>9
    <3>5. bytes = SubSeq(tmp, begin + 1, begin + len) /\ t = SubSeq(tmp, begin + len + 1, Len(tmp))
      BY <1>9
    <3>6. parsed(tmp, last, d, l, ed, begin, code, len, bytes)
      BY <1>10, <2>1, <3>1, <3>2, <3>3, <3>4, <3>5, Zenon DEF parsed
    <3>7. turn(reading(tmp, last, msg))
            = turned(tmp, last, msg, SubSeq(tmp, begin + len + 1, Len(tmp)), code, len, bytes)
      <4> HIDE DEF code, len, bytes, d, l, ed
      <4> QED
        BY <3>6, TurnReads
    <3> HIDE DEF code
    <3> QED
      BY <3>5, <3>7, Zenon
<1>13. CASE o.code \in IntOptions
  <2>1. ~(len > 4)
    BY <1>2, <1>13
  <2> QED
    BY <1>2, <1>9, <1>10, <1>12, <1>13, <2>1, Zenon DEF kept, DecodedOptions, turned, turnsTo, unread
<1>14. CASE o.code \in StringOptions /\ o.code \notin IntOptions
  BY <1>2, <1>9, <1>10, <1>12, <1>14, Zenon DEF kept, DecodedOptions, turned, turnsTo, unread
<1>15. CASE o.code \notin StringOptions /\ o.code \notin IntOptions
  <2>1. critical(code) => turn(loop).read = notUnderstood
    <3>1. refuse(loop, "ErrUnknownCriticalOption").read = notUnderstood
      BY DEF refuse, reading, notUnderstood
    <3> QED
      BY <1>12, <1>15, <3>1, Zenon DEF turned
  <2>2. ~critical(code) => turn(loop) = reading(t, code, withKept(msg, <<>>))
    BY <1>12, <1>15, Zenon DEF turned
  <2>3. kept(o) = <<>>
    BY <1>15 DEF kept, DecodedOptions
  <2>4. unread(o) <=> critical(code)
    BY <1>15 DEF unread, DecodedOptions
  <2> QED
    BY <1>9, <1>10, <2>1, <2>2, <2>3, <2>4, Zenon DEF turnsTo
<1> QED
  BY <1>13, <1>14, <1>15

-----------------------------------------------------------------------------
(* The loop itself: as many turns as it takes.                             *)

(* The first n turns.                                                      *)
Turns(f, tmp, msg, n) ==
    f = [k \in 0 .. n |-> IF k = 0 THEN [rest |-> tmp, last |-> 0, read |-> accepted(msg)]
                          ELSE turn(f[k - 1])]

(* There are such turns for every n.                                       *)
LEMMA TurnsExist ==
    ASSUME NEW tmp, NEW msg, NEW n \in Nat
    PROVE  \E f : Turns(f, tmp, msg, n)
<1> DEFINE N == {k \in Nat : \E f : Turns(f, tmp, msg, k)}
           begin == [rest |-> tmp, last |-> 0, read |-> accepted(msg)]
<1>1. 0 \in N
  <2>1. Turns([i \in 0 .. 0 |-> begin], tmp, msg, 0)
    <3> HIDE DEF begin
    <3> DEFINE g == [i \in 0 .. 0 |-> begin]
    <3>1. g = [i \in 0 .. 0 |-> IF i = 0 THEN begin ELSE turn(g[i - 1])]
      OBVIOUS
    <3> QED
      BY <3>1, Zenon DEF Turns, begin
  <2> QED
    BY <2>1
<1>2. ASSUME NEW k \in Nat, k \in N PROVE k + 1 \in N
  <2>1. PICK f : Turns(f, tmp, msg, k)
    BY <1>2
  <2> HIDE DEF begin
  <2> DEFINE g == [i \in 0 .. (k + 1) |-> IF i = 0 THEN begin ELSE turn(f[i - 1])]
  <2>2. ASSUME NEW i \in 0 .. k PROVE g[i] = f[i]
    <3>1. f[i] = IF i = 0 THEN begin ELSE turn(f[i - 1])
      BY <2>1, Zenon DEF Turns, begin
    <3> QED
      BY <3>1
  <2>3. \A i \in 0 .. (k + 1) : i # 0 => i - 1 \in 0 .. k
    OBVIOUS
  <2>4. \A i \in 0 .. (k + 1) : g[i] = IF i = 0 THEN begin ELSE turn(g[i - 1])
    BY <2>2, <2>3
  <2>5. g = [i \in 0 .. (k + 1) |-> IF i = 0 THEN begin ELSE turn(g[i - 1])]
    BY <2>4
  <2>6. Turns(g, tmp, msg, k + 1)
    BY <2>5, Zenon DEF Turns, begin
  <2> QED
    BY <2>6
<1>3. \A k \in Nat : k \in N
  <2> HIDE DEF N
  <2> QED
    BY <1>1, <1>2, SetInduction
<1> QED
  BY <1>3

(* The loop ends with the first of its turns that leaves nothing to read.  *)
LEMMA ReadOptionsIs ==
    ASSUME NEW tmp, NEW msg, Len(tmp) \in Nat
    PROVE  \E f : /\ readOptions(tmp, msg) = f[CHOOSE k \in 0 .. Len(tmp) : finished(f[k])].read
                  /\ f[0] = reading(tmp, 0, msg)
                  /\ \A k \in 0 .. (Len(tmp) - 1) : f[k + 1] = turn(f[k])
<1> DEFINE g == CHOOSE f : Turns(f, tmp, msg, Len(tmp))
<1>1. Turns(g, tmp, msg, Len(tmp))
  BY TurnsExist
<1>2. readOptions(tmp, msg) = g[CHOOSE k \in 0 .. Len(tmp) : finished(g[k])].read
  BY Zenon DEF readOptions, Turns
<1> HIDE DEF g
<1>3. \A k \in 0 .. Len(tmp) : g[k] = IF k = 0 THEN reading(tmp, 0, msg) ELSE turn(g[k - 1])
  BY <1>1, Zenon DEF Turns, reading
<1>4. g[0] = reading(tmp, 0, msg)
  BY <1>3
<1>5. ASSUME NEW k \in 0 .. (Len(tmp) - 1) PROVE g[k + 1] = turn(g[k])
  <2>1. k + 1 \in 0 .. Len(tmp) /\ k + 1 # 0 /\ (k + 1) - 1 = k
    OBVIOUS
  <2> QED
    BY <1>3, <2>1
<1> QED
  BY <1>2, <1>4, <1>5

(* An option is written as bytes of the alphabet.                          *)
LEMMA OptionBytesType ==
    ASSUME NEW A, Byte \subseteq A, NEW bytes \in Seq(A), Len(bytes) <= Max16,
           NEW delta \in Nat, delta <= Max16
    PROVE  optionBytes(delta, bytes) \in Seq(A)
<1> DEFINE d == getOptionHeaderValue(delta)
           l == getOptionHeaderValue(Len(bytes))
           h == 16 * d + l
           p == extendedBytes(delta)
           q == extendedBytes(Len(bytes))
           s1 == <<h>>
           s2 == s1 \o p
           s3 == s2 \o q
<1>1. Len(bytes) \in Nat
  BY LenProperties
<1>2. Max16 <= MaxExtended /\ MaxExtended \in Nat
  BY SMT DEF Max16, MaxExtended
<1>3. /\ delta <= MaxExtended /\ Len(bytes) <= MaxExtended
      /\ delta \in 0 .. MaxExtended /\ Len(bytes) \in 0 .. MaxExtended
  BY <1>1, <1>2, Largest
<1>4. d \in 0 .. 14 /\ l \in 0 .. 14 /\ p \in Seq(Byte) /\ q \in Seq(Byte)
  BY <1>1, <1>3, OptionHeaderRoundTrip, EncodedTypes
<1>5. optionBytes(delta, bytes) = s3 \o bytes
  BY Zenon DEF optionBytes
<1> HIDE DEF d, l, p, q
<1>6. h \in A /\ p \in Seq(A) /\ q \in Seq(A)
  BY <1>4, HeaderByte, SeqMonotonic
<1> HIDE DEF h
<1>7. s1 \in Seq(A)
  BY <1>6
<1> HIDE DEF s1
<1>8. s2 \in Seq(A)
  BY <1>6, <1>7, ConcatProperties
<1> HIDE DEF s2
<1>9. s3 \in Seq(A)
  BY <1>6, <1>8, ConcatProperties
<1> HIDE DEF s3
<1>10. s3 \o bytes \in Seq(A)
  BY <1>9, ConcatProperties
<1> QED
  BY <1>5, <1>10

-----------------------------------------------------------------------------
(* The options as they are written, one after the other, each with the     *)
(* distance of its code from the last one's.                               *)

(* The code of option k, 0 before the first one.                           *)
lastCode(os, k) == IF k = 0 THEN 0 ELSE os[k].code

(* Option i, as it is written,                                             *)
piece(os, i) == optionBytes(os[i].code - lastCode(os, i - 1), valueToBytes(os[i].value))

(* all of them,                                                            *)
pieces(os) == [i \in 1 .. Len(os) |-> piece(os, i)]

(* and the ones behind option k.                                           *)
afterOption(os, k) == FlattenSeq(SubSeq(pieces(os), k + 1, Len(os)))

(* Each is a sequence over the alphabet, and deltas are never negative.    *)
LEMMA PieceType ==
    ASSUME NEW A, Byte \subseteq A, NEW os \in Seq(optionOver(A)), ascending(os)
    PROVE  /\ pieces(os) \in Seq(Seq(A)) /\ Len(pieces(os)) = Len(os)
           /\ \A i \in 1 .. Len(os) : /\ pieces(os)[i] = piece(os, i) /\ piece(os, i) \in Seq(A)
                                      /\ lastCode(os, i - 1) \in Nat /\ lastCode(os, i - 1) <= os[i].code
<1>0. Len(os) \in Nat
  BY LenProperties
<1>1. \A o \in optionOver(A) : o.code \in Nat /\ o.code <= Max16
  BY Largest DEF optionOver
<1>2. ASSUME NEW i \in 1 .. Len(os)
      PROVE  /\ lastCode(os, i - 1) \in Nat /\ lastCode(os, i - 1) <= os[i].code
             /\ piece(os, i) \in Seq(A)
  <2>1. os[i] \in optionOver(A)
    BY ElementOfSeq
  <2>2. os[i].code \in Nat /\ os[i].code <= Max16
    BY <1>1, <2>1
  <2>3. lastCode(os, i - 1) \in Nat /\ lastCode(os, i - 1) <= os[i].code
    <3>1. CASE i = 1
      BY <2>2, <3>1 DEF lastCode
    <3>2. CASE i # 1
      <4>1. i - 1 \in 1 .. Len(os) /\ i - 1 < i /\ i - 1 # 0
        BY <1>0, <3>2
      <4>2. os[i - 1].code <= os[i].code
        BY <4>1 DEF ascending
      <4>3. os[i - 1].code \in Nat
        BY <1>1, <4>1, ElementOfSeq
      <4> QED
        BY <4>1, <4>2, <4>3 DEF lastCode
    <3> QED
      BY <3>1, <3>2
  <2> DEFINE delta == os[i].code - lastCode(os, i - 1)
             bytes == valueToBytes(os[i].value)
  <2>4. delta \in Nat /\ delta <= Max16
    BY <2>2, <2>3, Largest
  <2>5. bytes \in Seq(A) /\ Len(bytes) <= Max16
    BY <2>1, ValueBytes
  <2> HIDE DEF delta, bytes
  <2>6. optionBytes(delta, bytes) \in Seq(A)
    BY <2>4, <2>5, OptionBytesType
  <2> QED
    BY <2>3, <2>6 DEF piece, delta, bytes
<1>3. \A i \in 1 .. Len(os) : pieces(os)[i] = piece(os, i)
  BY DEF pieces
<1>4. pieces(os) \in Seq(Seq(A)) /\ Len(pieces(os)) = Len(os)
  BY <1>0, <1>2 DEF pieces
<1> QED
  BY <1>2, <1>3, <1>4

(* What is left after k parts begins with part k + 1.                      *)
LEMMA NextPiece ==
    ASSUME NEW A, NEW ss \in Seq(Seq(A))
    PROVE  /\ FlattenSeq(SubSeq(ss, 1, Len(ss))) = FlattenSeq(ss)
           /\ FlattenSeq(SubSeq(ss, Len(ss) + 1, Len(ss))) = <<>>
           /\ \A k \in 0 .. (Len(ss) - 1) :
                 /\ FlattenSeq(SubSeq(ss, (k + 1) + 1, Len(ss))) \in Seq(A)
                 /\ FlattenSeq(SubSeq(ss, k + 1, Len(ss)))
                      = ss[k + 1] \o FlattenSeq(SubSeq(ss, (k + 1) + 1, Len(ss)))
<1> DEFINE n == Len(ss)
<1>0. n \in Nat
  BY LenProperties
<1>1. SubSeq(ss, 1, n) = ss
  BY PrefixSteps
<1>2. SubSeq(ss, n + 1, n) = <<>>
  <2> DEFINE u == SubSeq(ss, n + 1, n)
  <2>1. n \in 0 .. n
    BY <1>0
  <2>2. u \in Seq(Seq(A)) /\ Len(u) = n - n
    BY <2>1, SplitAt
  <2> HIDE DEF u
  <2>3. u = <<>>
    BY <1>0, <2>2, EmptySeq
  <2> QED
    BY <2>3 DEF u
<1>3. ASSUME NEW k \in 0 .. (n - 1)
      PROVE  /\ FlattenSeq(SubSeq(ss, (k + 1) + 1, n)) \in Seq(A)
             /\ FlattenSeq(SubSeq(ss, k + 1, n)) = ss[k + 1] \o FlattenSeq(SubSeq(ss, (k + 1) + 1, n))
  <2> DEFINE u == SubSeq(ss, k + 1, n)
             v == SubSeq(ss, (k + 1) + 1, n)
             e == ss[k + 1]
             w == <<e>>
             r == w \o v
  <2>1. k \in 0 .. n /\ k + 1 \in 0 .. n /\ k + 1 \in 1 .. n
    BY <1>0
  <2>2. u \in Seq(Seq(A)) /\ Len(u) = n - k /\ \A i \in 1 .. (n - k) : u[i] = ss[k + i]
    BY <2>1, SplitAt
  <2>3. /\ v \in Seq(Seq(A)) /\ Len(v) = n - (k + 1)
        /\ \A i \in 1 .. (n - (k + 1)) : v[i] = ss[(k + 1) + i]
    BY <2>1, SplitAt
  <2>4. e \in Seq(A)
    BY <2>1, ElementOfSeq
  <2> HIDE DEF u, v
  <2>5. joins(r, w, v)
    BY DEF joins
  <2>6. w \in Seq(Seq(A)) /\ Len(w) = 1 /\ w[1] = e
    BY <2>4
  <2> HIDE DEF w, r
  <2>7. r \in Seq(Seq(A)) /\ follows(r, w, v)
    BY <2>3, <2>5, <2>6, TwoParts
  <2>8. /\ Len(r) = n - k /\ r[1] = e
        /\ \A i \in 1 .. (n - (k + 1)) : r[1 + i] = v[i]
    BY <1>0, <2>3, <2>6, <2>7, SMTT(30) DEF follows
  <2>9. ASSUME NEW i \in 1 .. (n - k) PROVE u[i] = r[i]
    <3>1. CASE i = 1
      BY <2>2, <2>8, <3>1 DEF e
    <3>2. CASE i # 1
      <4>1. i - 1 \in 1 .. (n - (k + 1)) /\ 1 + (i - 1) = i /\ (k + 1) + (i - 1) = k + i
        BY <1>0, <3>2
      <4>2. u[i] = ss[k + i]
        BY <2>2
      <4>3. v[i - 1] = ss[(k + 1) + (i - 1)]
        BY <2>3, <4>1
      <4>4. r[1 + (i - 1)] = v[i - 1]
        BY <2>8, <4>1
      <4> QED
        BY <4>1, <4>2, <4>3, <4>4
    <3> QED
      BY <3>1, <3>2
  <2>10. u = r
    BY <2>2, <2>7, <2>8, <2>9, SeqEqual
  <2>11. FlattenSeq(w \o v) = FlattenSeq(w) \o FlattenSeq(v)
    BY <2>3, <2>6, FlattenConcat
  <2>12. FlattenSeq(w) = e
    <3>1. w = Append(<<>>, e)
      BY <2>4 DEF w
    <3>2. <<>> \in Seq(Seq(A))
      BY EmptySeq
    <3>3. FlattenSeq(Append(<<>>, e)) = e
      BY <2>4, <3>2, FlattenAppend
    <3> QED
      BY <3>1, <3>3
  <2>13. FlattenSeq(v) \in Seq(A)
    BY <2>3, FlattenType
  <2>14. r = w \o v
    BY DEF r
  <2> QED
    BY <2>10, <2>11, <2>12, <2>13, <2>14 DEF u, v, e
<1>4. FlattenSeq(<<>>) = <<>>
  BY FlattenEmpty
<1> QED
  BY <1>1, <1>2, <1>3, <1>4, Zenon DEF n

-----------------------------------------------------------------------------
(* The payload behind the options, and the end of the loop.                *)

(* Message m with these options and this payload.                          *)
withParts(m, options, payload) ==
    [type |-> m.type, code |-> m.code, id |-> m.id, token |-> m.token,
     options |-> options, payload |-> payload]

(* The payload as it is written: behind its marker, or nothing.            *)
payloadBytes(payload) == IF payload = <<>> THEN <<>> ELSE <<PayloadMarker>> \o payload

(* Its updates.                                                            *)
LEMMA MessageParts ==
    ASSUME NEW m, NEW options, NEW payload
    PROVE  /\ \A more : withKept(withParts(m, options, payload), more) = withParts(m, options \o more, payload)
           /\ \A p : [withParts(m, options, payload) EXCEPT !.payload = p] = withParts(m, options, p)
<1> DEFINE msg == withParts(m, options, payload)
<1>1. msg.options = options
  BY DEF withParts
<1>2. \A x : [msg EXCEPT !.options = x] = withParts(m, x, payload)
  BY DEF withParts
<1>3. \A x : [msg EXCEPT !.payload = x] = withParts(m, options, x)
  BY DEF withParts
<1> HIDE DEF msg
<1>4. ASSUME NEW more PROVE withKept(msg, more) = withParts(m, options \o more, payload)
  <2>1. withKept(msg, more) = [msg EXCEPT !.options = msg.options \o more]
    BY DEF withKept
  <2>2. [msg EXCEPT !.options = msg.options \o more] = withParts(m, msg.options \o more, payload)
    BY <1>2
  <2> QED
    BY <1>1, <2>1, <2>2, Zenon
<1> QED
  BY <1>3, <1>4, Zenon DEF msg

(* A finished loop stays as it is.                                         *)
LEMMA TurnFinished == ASSUME NEW loop, finished(loop) PROVE turn(loop) = loop
  BY Zenon DEF turn

(* A turn that meets the marker takes the rest as the payload.             *)
LEMMA TurnPayload ==
    ASSUME NEW A, PayloadMarker \in A, NEW payload \in Seq(A), payload # <<>>, NEW last, NEW m, NEW options
    PROVE  turn(reading(payloadBytes(payload), last, withParts(m, options, <<>>)))
             = reading(<<>>, last, withParts(m, options, payload))
<1> DEFINE tmp == <<PayloadMarker>> \o payload
           w == <<PayloadMarker>>
           msg == withParts(m, options, <<>>)
           loop == reading(tmp, last, msg)
<1>1. w \in Seq(A) /\ Len(w) = 1 /\ w[1] = PayloadMarker
  OBVIOUS
<1>2. joins(tmp, w, payload)
  BY DEF joins
<1>3. payloadBytes(payload) = tmp
  BY DEF payloadBytes
<1>4. Len(payload) \in Nat
  BY LenProperties
<1> HIDE DEF w, tmp, msg
<1>5. tmp \in Seq(A) /\ follows(tmp, w, payload)
  BY <1>1, <1>2, TwoParts
<1>6. /\ Len(tmp) = 1 + Len(payload) /\ tmp[1] = PayloadMarker
      /\ \A i \in 1 .. Len(payload) : tmp[1 + i] = payload[i]
  BY <1>1, <1>5 DEF follows
<1>7. SubSeq(tmp, 2, Len(tmp)) = payload
  <2>1. 1 + Len(payload) <= Len(tmp) /\ 1 \in Nat
    BY <1>4, <1>6
  <2>2. SubSeq(tmp, 1 + 1, 1 + Len(payload)) = payload
    BY <1>5, <1>6, <2>1, Slice
  <2>3. 1 + 1 = 2
    OBVIOUS
  <2> QED
    BY <1>6, <2>2, <2>3
<1>8. tmp # <<>>
  BY <1>4, <1>5, <1>6, EmptySeq
<1>9. loop.rest = tmp /\ ~finished(loop)
  BY <1>8 DEF reading, finished, accepted
<1>10. turn(loop) = [loop EXCEPT !.rest = <<>>, !.read.msg.payload = payload]
  <2> HIDE DEF loop
  <2> QED
    BY <1>6, <1>7, <1>9, Zenon DEF turn
<1>11. [loop EXCEPT !.rest = <<>>, !.read.msg.payload = payload]
         = reading(<<>>, last, [msg EXCEPT !.payload = payload])
  <2> DEFINE r == [err |-> "none", msg |-> msg]
             s == [rest |-> tmp, last |-> last, read |-> r]
             longer == [msg EXCEPT !.payload = payload]
  <2>1. loop = s
    BY DEF reading, accepted
  <2>2. [r EXCEPT !.msg.payload = payload] = [r EXCEPT !.msg = [r.msg EXCEPT !.payload = payload]]
    <3> HIDE DEF r
    <3> QED
      OBVIOUS
  <2>3. r.msg = msg
    OBVIOUS
  <2>4. \A x : [r EXCEPT !.msg = x] = [err |-> "none", msg |-> x]
    OBVIOUS
  <2>5. [s EXCEPT !.rest = <<>>, !.read.msg.payload = payload]
          = [[s EXCEPT !.rest = <<>>] EXCEPT !.read = [s.read EXCEPT !.msg.payload = payload]]
    <3> DEFINE s1 == [s EXCEPT !.rest = <<>>]
    <3>1. s1 = [rest |-> <<>>, last |-> last, read |-> r]
      <4> HIDE DEF r
      <4> QED
        OBVIOUS
    <3>2. s1.read = s.read
      <4> HIDE DEF r, s1
      <4> QED
        BY <3>1
    <3>3. [s EXCEPT !.rest = <<>>, !.read.msg.payload = payload] = [s1 EXCEPT !.read.msg.payload = payload]
      <4> HIDE DEF s
      <4> QED
        OBVIOUS
    <3>4. [s1 EXCEPT !.read.msg.payload = payload]
            = [s1 EXCEPT !.read = [s1.read EXCEPT !.msg.payload = payload]]
      <4> HIDE DEF s1
      <4> QED
        OBVIOUS
    <3> HIDE DEF s
    <3>5. [s1.read EXCEPT !.msg.payload = payload] = [s.read EXCEPT !.msg.payload = payload]
      <4> HIDE DEF s1
      <4> QED
        BY <3>2
    <3> HIDE DEF s1
    <3>6. [s EXCEPT !.rest = <<>>, !.read.msg.payload = payload]
            = [s1 EXCEPT !.read = [s.read EXCEPT !.msg.payload = payload]]
      BY <3>3, <3>4, <3>5
    <3> QED
      BY <3>6, Zenon DEF s1
  <2>6. s.read = r
    OBVIOUS
  <2>7. \A x : [[s EXCEPT !.rest = <<>>] EXCEPT !.read = x] = [rest |-> <<>>, last |-> last, read |-> x]
    <3> HIDE DEF r
    <3>1. [s EXCEPT !.rest = <<>>] = [rest |-> <<>>, last |-> last, read |-> r]
      OBVIOUS
    <3>2. \A x : [[rest |-> <<>>, last |-> last, read |-> r] EXCEPT !.read = x]
                    = [rest |-> <<>>, last |-> last, read |-> x]
      OBVIOUS
    <3> HIDE DEF s
    <3> QED
      BY <3>1, <3>2
  <2> HIDE DEF r
  <2>8. [s.read EXCEPT !.msg.payload = payload] = [r EXCEPT !.msg.payload = payload]
    BY <2>6
  <2>9. [r.msg EXCEPT !.payload = payload] = longer
    BY <2>3
  <2> HIDE DEF s, longer
  <2>10. [r EXCEPT !.msg.payload = payload] = [err |-> "none", msg |-> longer]
    BY <2>2, <2>4, <2>9
  <2>11. [s EXCEPT !.rest = <<>>, !.read.msg.payload = payload]
           = [rest |-> <<>>, last |-> last, read |-> [err |-> "none", msg |-> longer]]
    BY <2>5, <2>7, <2>8, <2>10
  <2> HIDE DEF loop
  <2>12. [loop EXCEPT !.rest = <<>>, !.read.msg.payload = payload]
           = [rest |-> <<>>, last |-> last, read |-> [err |-> "none", msg |-> longer]]
    BY <2>1, <2>11, Zenon
  <2> QED
    BY <2>12, Zenon DEF reading, accepted, longer
<1>12. [msg EXCEPT !.payload = payload] = withParts(m, options, payload)
  BY MessageParts DEF msg
<1> QED
  BY <1>3, <1>10, <1>11, <1>12, Zenon DEF msg

(* The bytes that are left when k options are read,                        *)
restAt(os, payload, k) == afterOption(os, k) \o payloadBytes(payload)

(* and the loop then.                                                      *)
stateAt(os, payload, m, k) ==
    reading(restAt(os, payload, k), lastCode(os, k),
            withParts(m, withCodes(SubSeq(os, 1, k), DecodedOptions), <<>>))

(* One more option is kept when it is one that is decoded.                 *)
LEMMA KeptAppended ==
    ASSUME NEW O, NEW s \in Seq(O), NEW o \in O
    PROVE  withCodes(s, DecodedOptions) \o kept(o) = withCodes(Append(s, o), DecodedOptions)
<1> DEFINE u == withCodes(s, DecodedOptions)
<1>1. u \in Seq(O)
  BY WithCodesType
<1>2. withCodes(Append(s, o), DecodedOptions) = IF o.code \in DecodedOptions THEN Append(u, o) ELSE u
  BY WithCodesAppend
<1> HIDE DEF u
<1>3. u \o <<>> = u
  BY <1>1, ConcatEmptySeq
<1>4. u \o <<o>> = Append(u, o)
  BY <1>1, AppendIsConcat
<1>5. u \o kept(o) = IF o.code \in DecodedOptions THEN Append(u, o) ELSE u
  <2>1. CASE o.code \in DecodedOptions
    BY <1>4, <2>1, Zenon DEF kept
  <2>2. CASE o.code \notin DecodedOptions
    BY <1>3, <2>2, Zenon DEF kept
  <2> QED
    BY <2>1, <2>2
<1> QED
  BY <1>2, <1>5, Zenon DEF u

(* From k options read to k + 1, or to a refusal.                          *)
LEMMA OptionTurn ==
    ASSUME NEW A, Byte \subseteq A, NEW os \in Seq(optionOver(A)), ascending(os),
           NEW payload \in Seq(A), NEW m, NEW k \in 0 .. (Len(os) - 1)
    PROVE  /\ restAt(os, payload, k) \in Seq(A)
           /\ Len(restAt(os, payload, k)) > Len(restAt(os, payload, k + 1))
           /\ turnsTo(stateAt(os, payload, m, k), os[k + 1], stateAt(os, payload, m, k + 1))
<1> DEFINE n == Len(os)
           ps == pieces(os)
           o == os[k + 1]
           a == afterOption(os, k)
           b == afterOption(os, k + 1)
           tail == payloadBytes(payload)
           p == piece(os, k + 1)
           t == b \o tail
           tmp == a \o tail
           last == lastCode(os, k)
           pre == SubSeq(os, 1, k)
           msg == withParts(m, withCodes(pre, DecodedOptions), <<>>)
<1>1. n \in Nat /\ k + 1 \in 1 .. n /\ (k + 1) - 1 = k
  BY LenProperties
<1>2. /\ ps \in Seq(Seq(A)) /\ Len(ps) = n /\ ps[k + 1] = p /\ p \in Seq(A)
      /\ last \in Nat /\ last <= o.code
  BY <1>1, PieceType
<1>3. b \in Seq(A) /\ a = p \o b
  <2> HIDE DEF ps, p
  <2>1. k \in 0 .. (Len(ps) - 1)
    BY <1>2
  <2>2. /\ FlattenSeq(SubSeq(ps, (k + 1) + 1, Len(ps))) \in Seq(A)
        /\ FlattenSeq(SubSeq(ps, k + 1, Len(ps)))
             = ps[k + 1] \o FlattenSeq(SubSeq(ps, (k + 1) + 1, Len(ps)))
    BY <1>2, <2>1, NextPiece
  <2> QED
    BY <1>2, <2>2, Zenon DEF afterOption, ps
<1>4. tail \in Seq(A)
  <2>1. PayloadMarker \in A
    BY SMT DEF PayloadMarker, Byte
  <2>2. <<PayloadMarker>> \in Seq(A)
    BY <2>1
  <2>3. <<PayloadMarker>> \o payload \in Seq(A)
    BY <2>2, ConcatProperties
  <2> QED
    BY <2>3, EmptySeq, Zenon DEF payloadBytes
<1>5. o \in optionOver(A) /\ pre \in Seq(optionOver(A)) /\ SubSeq(os, 1, k + 1) = Append(pre, o)
  BY PrefixSteps
<1>6. lastCode(os, k + 1) = o.code
  BY <1>1 DEF lastCode
<1>7. p = optionBytes(o.code - last, valueToBytes(o.value))
  BY <1>1 DEF piece
<1> HIDE DEF ps, o, a, b, tail, p, last, pre
<1>8. t \in Seq(A) /\ tmp = p \o t
  <2>1. b \o tail \in Seq(A)
    BY <1>3, <1>4, ConcatProperties
  <2>2. (p \o b) \o tail = p \o (b \o tail)
    <3>1. p \in Seq(A) /\ b \in Seq(A) /\ tail \in Seq(A)
      BY <1>2, <1>3, <1>4
    <3> QED
      BY <3>1, Associates, SMTT(30)
  <2> QED
    BY <1>3, <2>1, <2>2, Zenon
<1> HIDE DEF t, tmp
<1>9. startsWith(A, tmp, o, last, t)
  BY <1>2, <1>5, <1>7, <1>8, Zenon DEF startsWith
<1> HIDE DEF msg
<1>10. /\ tmp \in Seq(A) /\ Len(tmp) > Len(t)
       /\ turnsTo(reading(tmp, last, msg), o, reading(t, o.code, withKept(msg, kept(o))))
  BY <1>9, OneOption
<1>11. withKept(msg, kept(o)) = withParts(m, withCodes(SubSeq(os, 1, k + 1), DecodedOptions), <<>>)
  <2>1. withKept(msg, kept(o)) = withParts(m, withCodes(pre, DecodedOptions) \o kept(o), <<>>)
    BY MessageParts DEF msg
  <2>2. withCodes(pre, DecodedOptions) \o kept(o) = withCodes(Append(pre, o), DecodedOptions)
    BY <1>5, KeptAppended
  <2> QED
    BY <1>5, <2>1, <2>2
<1>12. tmp = restAt(os, payload, k) /\ t = restAt(os, payload, k + 1)
  BY Zenon DEF restAt, tmp, t, a, b, tail
<1>13. stateAt(os, payload, m, k) = reading(tmp, last, msg)
  BY <1>12, Zenon DEF stateAt, last, msg, pre
<1>14. stateAt(os, payload, m, k + 1) = reading(t, o.code, withKept(msg, kept(o)))
  BY <1>6, <1>11, <1>12, Zenon DEF stateAt
<1> QED
  BY <1>10, <1>12, <1>13, <1>14, Zenon DEF o

(* What is left before the first option and behind the last one.           *)
LEMMA LastState ==
    ASSUME NEW A, Byte \subseteq A, NEW os \in Seq(optionOver(A)), ascending(os),
           NEW payload \in Seq(A), NEW m
    PROVE  /\ restAt(os, payload, Len(os)) = payloadBytes(payload)
           /\ restAt(os, payload, 0) = FlattenSeq(pieces(os)) \o payloadBytes(payload)
           /\ payloadBytes(payload) \in Seq(A)
           /\ payload # <<>> => Len(payloadBytes(payload)) > 0
           /\ SubSeq(os, 1, Len(os)) = os /\ SubSeq(os, 1, 0) = <<>>
<1> DEFINE ps == pieces(os)
           tail == payloadBytes(payload)
           w == <<PayloadMarker>>
<1>0. Len(os) \in Nat
  BY LenProperties
<1>1. ps \in Seq(Seq(A)) /\ Len(ps) = Len(os)
  BY PieceType
<1> HIDE DEF ps
<1>2. /\ FlattenSeq(SubSeq(ps, 1, Len(ps))) = FlattenSeq(ps)
      /\ FlattenSeq(SubSeq(ps, Len(ps) + 1, Len(ps))) = <<>>
  BY <1>1, NextPiece
<1>3. afterOption(os, Len(os)) = <<>>
  BY <1>1, <1>2, Zenon DEF afterOption, ps
<1>4. afterOption(os, 0) = FlattenSeq(ps)
  <2>1. 0 + 1 = 1
    OBVIOUS
  <2> QED
    BY <1>1, <1>2, <2>1, Zenon DEF afterOption, ps
<1>5. w \in Seq(A) /\ Len(w) = 1
  <2>1. PayloadMarker \in A
    BY SMT DEF PayloadMarker, Byte
  <2> QED
    BY <2>1
<1> HIDE DEF w
<1>6. w \o payload \in Seq(A) /\ Len(w \o payload) = 1 + Len(payload) /\ Len(payload) \in Nat
  <2>1. w \o payload \in Seq(A) /\ Len(w \o payload) = Len(w) + Len(payload)
    BY <1>5, ConcatProperties
  <2> QED
    BY <1>5, <2>1, LenProperties
<1>7. tail \in Seq(A) /\ (payload # <<>> => Len(tail) > 0)
  <2>1. CASE payload = <<>>
    BY <2>1, EmptySeq DEF payloadBytes
  <2>2. CASE payload # <<>>
    <3>1. tail = w \o payload
      BY <2>2, Zenon DEF payloadBytes, w
    <3> QED
      BY <1>6, <3>1
  <2> QED
    BY <2>1, <2>2
<1> HIDE DEF tail
<1>8. <<>> \o tail = tail
  BY <1>7, ConcatEmptySeq
<1>9. SubSeq(os, 1, Len(os)) = os /\ SubSeq(os, 1, 0) = <<>>
  BY PrefixSteps
<1> QED
  BY <1>3, <1>4, <1>7, <1>8, <1>9, Zenon DEF restAt, tail, ps

(* Each option takes at least a byte: the loop has turns enough.           *)
LEMMA RestShrinks ==
    ASSUME NEW A, Byte \subseteq A, NEW os \in Seq(optionOver(A)), ascending(os),
           NEW payload \in Seq(A)
    PROVE  /\ \A k \in 0 .. Len(os) : /\ restAt(os, payload, k) \in Seq(A)
                                      /\ Len(restAt(os, payload, k)) + k <= Len(restAt(os, payload, 0))
           /\ \A k \in 0 .. (Len(os) - 1) : restAt(os, payload, k) # <<>>
<1> DEFINE n == Len(os)
           r(k) == restAt(os, payload, k)
           len(k) == Len(r(k))
           S == {k \in 0 .. n : len(k) + k <= len(0)}
<1>0. n \in Nat
  BY LenProperties
<1>1. ASSUME NEW k \in 0 .. (n - 1) PROVE r(k) \in Seq(A) /\ len(k) > len(k + 1)
  BY OptionTurn
<1>2. r(n) \in Seq(A)
  <2>1. restAt(os, payload, Len(os)) = payloadBytes(payload) /\ payloadBytes(payload) \in Seq(A)
    BY LastState
  <2> QED
    BY <2>1
<1> HIDE DEF r
<1>3. ASSUME NEW k \in 0 .. n PROVE r(k) \in Seq(A) /\ len(k) \in Nat
  <2>1. r(k) \in Seq(A)
    <3>1. k \in 0 .. (n - 1) \/ k = n
      BY <1>0
    <3> QED
      BY <1>1, <1>2, <3>1
  <2> QED
    BY <2>1, LenProperties
<1> HIDE DEF len
<1>4. 0 \in S
  BY <1>0, <1>3
<1>5. ASSUME NEW k \in 0 .. (n - 1), k \in S PROVE k + 1 \in S
  <2>1. k \in 0 .. n /\ k + 1 \in 0 .. n /\ 0 \in 0 .. n
    BY <1>0
  <2>2. len(k) \in Nat /\ len(k + 1) \in Nat /\ len(0) \in Nat /\ len(k) > len(k + 1)
    BY <1>1, <1>3, <2>1
  <2> QED
    BY <1>5, <2>1, <2>2
<1>6. \A k \in 0 .. n : k \in S
  <2> HIDE DEF S
  <2> QED
    BY <1>0, <1>4, <1>5, BoundedInduction
<1>7. ASSUME NEW k \in 0 .. (n - 1) PROVE r(k) # <<>>
  <2>1. k \in 0 .. n /\ k + 1 \in 0 .. n
    BY <1>0
  <2>2. len(k) \in Nat /\ len(k + 1) \in Nat /\ len(k) > len(k + 1)
    BY <1>1, <1>3, <2>1
  <2> QED
    BY <2>2, EmptySeq DEF len
<1> QED
  BY <1>3, <1>6, <1>7 DEF r, len

-----------------------------------------------------------------------------
(* The options and the payload come back.                                  *)

(* What is read in the end.                                                *)
finalRead(os, payload, m) == accepted(withParts(m, withCodes(os, DecodedOptions), payload))

(* The turn behind the last option reads the payload and ends.             *)
LEMMA LastTurn ==
    ASSUME NEW A, Byte \subseteq A, NEW os \in Seq(optionOver(A)), ascending(os),
           NEW payload \in Seq(A), NEW m
    PROVE  /\ finished(turn(stateAt(os, payload, m, Len(os))))
           /\ turn(stateAt(os, payload, m, Len(os))).read = finalRead(os, payload, m)
           /\ payload = <<>> => /\ finished(stateAt(os, payload, m, Len(os)))
                                /\ stateAt(os, payload, m, Len(os)).read = finalRead(os, payload, m)
<1> DEFINE last == lastCode(os, Len(os))
           options == withCodes(os, DecodedOptions)
           state == stateAt(os, payload, m, Len(os))
<1>1. state = reading(payloadBytes(payload), last, withParts(m, options, <<>>))
  <2>1. restAt(os, payload, Len(os)) = payloadBytes(payload) /\ SubSeq(os, 1, Len(os)) = os
    BY LastState
  <2> QED
    BY <2>1, Zenon DEF stateAt
<1> HIDE DEF last, options, state
<1>2. CASE payload = <<>>
  <2>1. state = reading(<<>>, last, withParts(m, options, <<>>))
    BY <1>1, <1>2, Zenon DEF payloadBytes
  <2>2. finished(state) /\ state.read = accepted(withParts(m, options, <<>>))
    BY <2>1 DEF finished, reading
  <2>3. turn(state) = state
    BY <2>2, TurnFinished
  <2>4. finalRead(os, payload, m) = accepted(withParts(m, options, <<>>))
    BY <1>2, Zenon DEF finalRead, options
  <2> QED
    BY <1>2, <2>2, <2>3, <2>4, Zenon DEF state
<1>3. CASE payload # <<>>
  <2>1. PayloadMarker \in A
    BY SMT DEF PayloadMarker, Byte
  <2>2. turn(state) = reading(<<>>, last, withParts(m, options, payload))
    BY <1>1, <1>3, <2>1, TurnPayload
  <2>3. finished(turn(state)) /\ turn(state).read = accepted(withParts(m, options, payload))
    BY <2>2 DEF finished, reading
  <2> QED
    BY <1>3, <2>3, Zenon DEF finalRead, options, state
<1> QED
  BY <1>2, <1>3

(* The receiver understands all options, or it does not.                   *)
unreadable(os) == \E i \in 1 .. Len(os) : unread(os[i])

(* Whatever the options, in ascending order, and whatever the payload: the *)
(* loop of deserialize, given what Serialize writes of them, refuses the   *)
(* message if it does not understand one of them that is critical, and     *)
(* else has read exactly the options that it decodes, in their order, and  *)
(* the payload.                                                            *)
THEOREM OptionsRead ==
    ASSUME NEW A, Byte \subseteq A, NEW os \in Seq(optionOver(A)), ascending(os),
           NEW payload \in Seq(A), NEW m,
           NEW tmp, joins(tmp, FlattenSeq(pieces(os)), payloadBytes(payload))
    PROVE  readOptions(tmp, withParts(m, <<>>, <<>>))
             = IF unreadable(os) THEN notUnderstood ELSE finalRead(os, payload, m)
<1> DEFINE n == Len(os)
           msg == withParts(m, <<>>, <<>>)
           len == Len(tmp)
           state(k) == stateAt(os, payload, m, k)
           final == finalRead(os, payload, m)
<1>0. n \in Nat
  BY LenProperties
<1>1. tmp = restAt(os, payload, 0)
  <2>1. restAt(os, payload, 0) = FlattenSeq(pieces(os)) \o payloadBytes(payload)
    BY LastState
  <2> QED
    BY <2>1, Zenon DEF joins
<1>2. /\ tmp \in Seq(A)
      /\ \A k \in 0 .. n : restAt(os, payload, k) \in Seq(A) /\ Len(restAt(os, payload, k)) + k <= Len(tmp)
      /\ \A k \in 0 .. (n - 1) : restAt(os, payload, k) # <<>>
  <2>1. /\ \A k \in 0 .. n : /\ restAt(os, payload, k) \in Seq(A)
                             /\ Len(restAt(os, payload, k)) + k <= Len(restAt(os, payload, 0))
        /\ \A k \in 0 .. (n - 1) : restAt(os, payload, k) # <<>>
    BY RestShrinks
  <2>2. 0 \in 0 .. n
    BY <1>0
  <2> QED
    BY <1>1, <2>1, <2>2, Zenon
<1>3. len \in Nat
  BY <1>2, LenProperties
<1>4. PICK f : /\ readOptions(tmp, msg) = f[CHOOSE k \in 0 .. len : finished(f[k])].read
               /\ f[0] = reading(tmp, 0, msg)
               /\ \A k \in 0 .. (len - 1) : f[k + 1] = turn(f[k])
  <2> HIDE DEF msg
  <2>1. \E f : /\ readOptions(tmp, msg) = f[CHOOSE k \in 0 .. Len(tmp) : finished(f[k])].read
               /\ f[0] = reading(tmp, 0, msg)
               /\ \A k \in 0 .. (Len(tmp) - 1) : f[k + 1] = turn(f[k])
    <3>1. Len(tmp) \in Nat
      BY <1>3
    <3> HIDE DEF len
    <3> QED
      BY <3>1, ReadOptionsIs
  <2> QED
    BY <2>1, Zenon
<1>5. state(0) = reading(tmp, 0, msg)
  <2>1. lastCode(os, 0) = 0
    BY DEF lastCode
  <2>2. SubSeq(os, 1, 0) = <<>>
    BY PrefixSteps
  <2>3. withCodes(<<>>, DecodedOptions) = <<>>
    BY WithCodesEmpty
  <2> QED
    BY <1>1, <2>1, <2>2, <2>3, Zenon DEF stateAt
<1>6. /\ finished(turn(state(n))) /\ turn(state(n)).read = final
      /\ payload = <<>> => finished(state(n)) /\ state(n).read = final
  BY LastTurn
<1>7. ASSUME NEW k \in 0 .. (n - 1)
      PROVE  IF unread(os[k + 1]) THEN turn(state(k)).read = notUnderstood
             ELSE turn(state(k)) = state(k + 1)
  <2>1. turnsTo(stateAt(os, payload, m, k), os[k + 1], stateAt(os, payload, m, k + 1))
    <3>1. k \in 0 .. (Len(os) - 1)
      OBVIOUS
    <3> HIDE DEF n
    <3> QED
      BY <3>1, OptionTurn, Zenon
  <2> QED
    BY <2>1, Zenon DEF turnsTo
<1>8. \A k : state(k).rest = restAt(os, payload, k) /\ state(k).read.err = "none"
  BY Zenon DEF stateAt, reading, accepted
<1>9. restAt(os, payload, n) = payloadBytes(payload)
  BY LastState
<1> HIDE DEF state, final, msg, len
<1>16. notUnderstood.err # "none"
  BY DEF notUnderstood, refused
<1> DEFINE readSoFar(k) == \A i \in 1 .. k : ~unread(os[i])
<1>17. readSoFar(n) <=> ~unreadable(os)
  BY DEF unreadable
<1> HIDE DEF n
<1>18. /\ readSoFar(0)
       /\ \A k \in 0 .. (n - 1) : readSoFar(k) /\ ~unread(os[k + 1]) => readSoFar(k + 1)
       /\ \A k \in 0 .. (n - 1) : unread(os[k + 1]) => unreadable(os)
  <2>1. readSoFar(0)
    OBVIOUS
  <2>2. ASSUME NEW k \in 0 .. (n - 1), readSoFar(k), ~unread(os[k + 1]) PROVE readSoFar(k + 1)
    <3>1. \A i \in 1 .. (k + 1) : i \in 1 .. k \/ i = k + 1
      OBVIOUS
    <3> QED
      BY <2>2, <3>1
  <2>3. ASSUME NEW k \in 0 .. (n - 1), unread(os[k + 1]) PROVE unreadable(os)
    <3>1. k + 1 \in 1 .. n
      BY <1>0
    <3> QED
      BY <2>3, <3>1 DEF unreadable, n
  <2> HIDE DEF readSoFar
  <2> QED
    BY <2>1, <2>2, <2>3
<1> HIDE DEF readSoFar
<1> DEFINE S == {k \in 0 .. len : \/ unreadable(os) /\ f[k].read = notUnderstood
                                  \/ k <= n /\ f[k] = state(k) /\ readSoFar(k)
                                  \/ k > n /\ finished(f[k]) /\ f[k].read = final /\ ~unreadable(os)}
<1>10. 0 \in S
  BY <1>0, <1>3, <1>4, <1>5, <1>18
<1>11. ASSUME NEW k \in 0 .. (len - 1), k \in S PROVE k + 1 \in S
  <2>0. k + 1 \in 0 .. len /\ f[k + 1] = turn(f[k])
    BY <1>3, <1>4
  <2>1. CASE unreadable(os) /\ f[k].read = notUnderstood
    <3>1. turn(f[k]) = f[k]
      BY <1>16, <2>1, TurnFinished DEF finished
    <3> QED
      BY <2>0, <2>1, <3>1
  <2>2. CASE k < n /\ f[k] = state(k) /\ readSoFar(k)
    <3>1. k \in 0 .. (n - 1) /\ k + 1 <= n
      BY <1>0, <2>2
    <3>2. CASE unread(os[k + 1])
      <4>1. f[k + 1].read = notUnderstood /\ unreadable(os)
        BY <1>7, <1>18, <2>0, <2>2, <3>1, <3>2
      <4> QED
        BY <2>0, <4>1
    <3>3. CASE ~unread(os[k + 1])
      <4>1. f[k + 1] = state(k + 1) /\ readSoFar(k + 1)
        BY <1>7, <1>18, <2>0, <2>2, <3>1, <3>3
      <4> QED
        BY <2>0, <3>1, <4>1
    <3> QED
      BY <3>2, <3>3
  <2>3. CASE k = n /\ f[k] = state(k) /\ readSoFar(k)
    <3>1. finished(f[k + 1]) /\ f[k + 1].read = final /\ k + 1 > n /\ ~unreadable(os)
      BY <1>0, <1>6, <1>17, <2>0, <2>3
    <3> QED
      BY <2>0, <3>1
  <2>4. CASE k > n /\ finished(f[k]) /\ f[k].read = final /\ ~unreadable(os)
    <3>1. turn(f[k]) = f[k]
      BY <2>4, TurnFinished
    <3>2. k + 1 > n
      BY <1>0, <1>3, <2>4
    <3> QED
      BY <2>0, <2>4, <3>1, <3>2
  <2>5. k <= n => k < n \/ k = n
    BY <1>0, <1>3
  <2> QED
    BY <1>11, <2>1, <2>2, <2>3, <2>4, <2>5
<1>12. \A k \in 0 .. len : k \in S
  <2> HIDE DEF S
  <2> QED
    BY <1>3, <1>10, <1>11, BoundedInduction
<1>13. finished(f[len])
  <2>1. len \in 0 .. len
    BY <1>3
  <2>2. CASE f[len].read = notUnderstood
    BY <1>16, <2>2 DEF finished
  <2>3. CASE len <= n /\ f[len] = state(len)
    <3>1. n \in 0 .. n
      BY <1>0
    <3>2. restAt(os, payload, n) \in Seq(A) /\ Len(restAt(os, payload, n)) + n <= len
      BY <1>2, <3>1 DEF len
    <3>3. Len(restAt(os, payload, n)) \in Nat
      BY <3>2, LenProperties
    <3>4. len = n /\ Len(restAt(os, payload, n)) = 0
      BY <1>0, <1>3, <2>3, <3>2, <3>3
    <3>5. restAt(os, payload, n) = <<>>
      BY <3>2, <3>4, EmptySeq
    <3>6. state(n).rest = <<>>
      BY <1>8, <3>5
    <3> QED
      BY <2>3, <3>4, <3>6 DEF finished
  <2> QED
    BY <1>12, <2>1, <2>2, <2>3
<1>14. PICK k \in 0 .. len : finished(f[k]) /\ readOptions(tmp, msg) = f[k].read
  <2> DEFINE k == CHOOSE k \in 0 .. len : finished(f[k])
  <2>1. len \in 0 .. len
    BY <1>3
  <2>2. k \in 0 .. len /\ finished(f[k])
    BY <1>13, <2>1
  <2> QED
    BY <1>4, <2>2
<1>15. CASE k <= n /\ f[k] = state(k) /\ readSoFar(k)
  <2>1. restAt(os, payload, k) = <<>>
    BY <1>8, <1>14, <1>15 DEF finished
  <2>2. k = n
    BY <1>0, <1>2, <1>3, <1>15, <2>1
  <2>3. payload = <<>>
    <3>1. payloadBytes(payload) = <<>>
      BY <1>9, <2>1, <2>2
    <3>2. payload # <<>> => Len(payloadBytes(payload)) > 0
      BY LastState
    <3> QED
      BY <3>1, <3>2, EmptySeq
  <2>4. ~unreadable(os)
    BY <1>15, <1>17, <2>2
  <2> QED
    BY <1>6, <1>14, <1>15, <2>2, <2>3, <2>4, Zenon DEF final, msg
<1> QED
  BY <1>12, <1>14, <1>15 DEF final, msg

-----------------------------------------------------------------------------
(* A whole message: the header, the token, the options and the payload.    *)

(* Messages whose bytes are of the alphabet A.  A token of 16 bytes or     *)
(* more does not fit its length's four bits (Serialize does not check).    *)
messageOver(A) ==
    [type : 0 .. 3, code : Byte, id : 0 .. Max16, token : {t \in Seq(A) : Len(t) < 16},
     options : Seq(optionOver(A)), payload : Seq(A)]

(* coap:// is an option.                                                   *)
LEMMA SchemeOption ==
    ASSUME NEW A
    PROVE  NewOption(URIScheme, int(COAP_SCHEME)) \in optionOver(A)
<1>1. 0 \in 0 .. Max32 /\ URIScheme \in 0 .. Max16
  BY Largest, SMT DEF URIScheme, Max16
<1>2. <<>> \in Seq(A)
  BY EmptySeq
<1>3. URIScheme \notin StringOptions
  BY DEF URIScheme, StringOptions, URIHost, Etag, LocationPath, URIPath, URIQuery, LocationQuery,
         ProxyURI, CoapsUri, Checksum
<1> DEFINE o == NewOption(URIScheme, int(COAP_SCHEME))
<1>4. /\ o.code = URIScheme /\ o.value = int(o.value.n)
      /\ o \in [code : 0 .. Max16, value : [kind : {"int", "string"}, n : 0 .. Max32, s : Seq(A)]]
  BY <1>1, <1>2 DEF NewOption, int, COAP_SCHEME
<1> HIDE DEF o
<1>5. o \in optionOver(A)
  BY <1>3, <1>4, Zenon DEF optionOver
<1> QED
  BY <1>5 DEF o

(* Serialize writes the scheme; all other options stay.                    *)
LEMMA SchemeWrittenKeeps ==
    ASSUME NEW A, NEW os \in Seq(optionOver(A))
    PROVE  /\ schemeWritten(os) \in Seq(optionOver(A))
           /\ codesOf(schemeWritten(os)) = codesOf(os)
           /\ \A c : c # URIScheme => GetOptions(schemeWritten(os), c) = GetOptions(os, c)
<1> DEFINE O == optionOver(A)
           s == AddOption(os, URIScheme, int(COAP_SCHEME))
<1>1. NewOption(URIScheme, int(COAP_SCHEME)) \in O
  BY SchemeOption
<1> HIDE DEF O
<1>2. os \in Seq(O)
  BY DEF O
<1>3. /\ s \in Seq(O)
      /\ codesOf(s) = codesOf(os) \cup {URIScheme}
      /\ \A c : c # URIScheme => GetOptions(s, c) = GetOptions(os, c)
  BY <1>1, <1>2, AddKeeps
<1> HIDE DEF s
<1>4. CASE schemeWritten(os) = os
  BY <1>2, <1>4 DEF O
<1>5. CASE schemeWritten(os) = s /\ HasOption(os, URIScheme)
  <2>1. URIScheme \in codesOf(os)
    BY <1>5 DEF HasOption
  <2>2. codesOf(os) \cup {URIScheme} = codesOf(os)
    BY <2>1
  <2> QED
    BY <1>3, <1>5, <2>2 DEF O
<1> QED
  BY <1>4, <1>5, Zenon DEF schemeWritten, s

(* The first byte, and its parts.                                          *)
headerByte(type, n) == 64 + 16 * type + (n % 16)

headerFits(h, type, n) ==
    h \in Byte /\ h \div 64 = 1 /\ (h % 64) \div 16 = type /\ (h % 64) % 16 = n

LEMMA HeaderIs ==
    ASSUME NEW type \in 0 .. 3, NEW n \in 0 .. 15
    PROVE  headerFits(headerByte(type, n), type, n)
  BY SMT DEF Byte, headerByte, headerFits

(* A pair is two sequences of one.                                         *)
LEMMA TwoElements ==
    ASSUME NEW A, NEW x \in A, NEW y \in A
    PROVE  <<x, y>> = <<x>> \o <<y>>
<1> DEFINE u == <<x>>
           v == <<y>>
           r == u \o v
           p == <<x, y>>
<1>1. u \in Seq(A) /\ Len(u) = 1 /\ u[1] = x /\ v \in Seq(A) /\ Len(v) = 1 /\ v[1] = y
  OBVIOUS
<1>2. p \in Seq(A) /\ Len(p) = 2 /\ p[1] = x /\ p[2] = y
  OBVIOUS
<1>3. joins(r, u, v)
  BY DEF joins
<1> HIDE DEF u, v, r, p
<1>4. r \in Seq(A) /\ follows(r, u, v)
  BY <1>1, <1>3, TwoParts
<1>5. Len(r) = 2 /\ r[1] = x /\ r[2] = y
  <2>1. /\ Len(r) = 1 + 1
        /\ \A i \in 1 .. 1 : r[i] = u[i]
        /\ \A i \in 1 .. 1 : r[1 + i] = v[i]
    BY <1>1, <1>4 DEF follows
  <2>2. 1 \in 1 .. 1 /\ 1 + 1 = 2
    OBVIOUS
  <2> QED
    BY <1>1, <2>1, <2>2
<1>6. \A i \in 1 .. 2 : p[i] = r[i]
  <2>1. \A i \in 1 .. 2 : i = 1 \/ i = 2
    OBVIOUS
  <2> QED
    BY <1>2, <1>5, <2>1
<1>7. p = r
  BY <1>2, <1>4, <1>5, <1>6, SeqEqual
<1> QED
  BY <1>7 DEF p, r, u, v

(* What Serialize writes, in parts.                                        *)
LEMMA SerializeIs ==
    ASSUME NEW A, Byte \subseteq A, NEW msg \in messageOver(A)
    PROVE  \E os, h, tmp :
              /\ os = sorted(schemeWritten(msg.options))
              /\ os \in Seq(optionOver(A)) /\ ascending(os)
              /\ h = 64 + 16 * msg.type + (Len(msg.token) % 16)
              /\ joins(tmp, FlattenSeq(pieces(os)), payloadBytes(msg.payload))
              /\ optionThen(A, Serialize(msg), h, <<msg.code>>, Be2(msg.id), msg.token, tmp)
<1> DEFINE given == schemeWritten(msg.options)
           os == sorted(given)
           h == 64 + 16 * msg.type + (Len(msg.token) % 16)
           flat == FlattenSeq(pieces(os))
           tail == payloadBytes(msg.payload)
           tmp == flat \o tail
           id == Be2(msg.id)
           token == msg.token
           c == <<msg.code>>
           s1 == <<h>> \o c
           s2 == s1 \o id
           s3 == s2 \o token
<1>1. /\ msg.type \in 0 .. 3 /\ msg.code \in Byte /\ msg.id \in 0 .. Max16
      /\ token \in Seq(A) /\ Len(token) \in 0 .. 15
      /\ msg.options \in Seq(optionOver(A)) /\ msg.payload \in Seq(A)
  <2> DEFINE T == {t \in Seq(A) : Len(t) < 16}
  <2>1. ASSUME NEW t \in T PROVE t \in Seq(A) /\ Len(t) \in 0 .. 15
    <3>1. t \in Seq(A) /\ Len(t) < 16
      OBVIOUS
    <3> HIDE DEF T
    <3>2. Len(t) \in Nat
      BY <3>1, LenProperties
    <3>3. \A n \in Nat : n < 16 => n \in 0 .. 15
      OBVIOUS
    <3> QED
      BY <3>1, <3>2, <3>3, Zenon
  <2> HIDE DEF T
  <2>2. msg \in [type : 0 .. 3, code : Byte, id : 0 .. Max16, token : T,
                options : Seq(optionOver(A)), payload : Seq(A)]
    BY Zenon DEF messageOver, T
  <2> QED
    BY <2>1, <2>2
<1>2. given \in Seq(optionOver(A))
  BY <1>1, SchemeWrittenKeeps
<1>3. \A e \in optionOver(A) : e.code \in Nat
  BY Largest DEF optionOver
<1> HIDE DEF given
<1>4. os \in Seq(optionOver(A)) /\ ascending(os)
  BY <1>2, <1>3, SortedKeeps
<1>5. Serialize(msg) =
        <<h, msg.code>> \o id \o token
          \o FlattenSeq([i \in DOMAIN os |->
                 optionBytes(os[i].code - (IF i = 1 THEN 0 ELSE os[i - 1].code), valueToBytes(os[i].value))])
          \o tail
  BY Zenon DEF Serialize, given, payloadBytes
<1> HIDE DEF os
<1>6. [i \in DOMAIN os |->
         optionBytes(os[i].code - (IF i = 1 THEN 0 ELSE os[i - 1].code), valueToBytes(os[i].value))]
        = pieces(os)
  <2>1. DOMAIN os = 1 .. Len(os)
    BY <1>4, LenProperties
  <2>2. \A i \in 1 .. Len(os) : (IF i = 1 THEN 0 ELSE os[i - 1].code) = lastCode(os, i - 1)
    BY DEF lastCode
  <2>3. \A i \in 1 .. Len(os) :
           optionBytes(os[i].code - (IF i = 1 THEN 0 ELSE os[i - 1].code), valueToBytes(os[i].value))
              = piece(os, i)
    BY <2>2, Zenon DEF piece
  <2> QED
    BY <2>1, <2>3, Zenon DEF pieces
<1>8. h \in A /\ c \in Seq(A)
  <2>1. h \in Byte
    <3>1. msg.type \in 0 .. 3 /\ Len(msg.token) \in 0 .. 15
      BY <1>1
    <3>2. h = headerByte(msg.type, Len(msg.token))
      BY Zenon DEF headerByte
    <3>3. headerFits(headerByte(msg.type, Len(msg.token)), msg.type, Len(msg.token))
      BY <3>1, HeaderIs
    <3> QED
      BY <3>2, <3>3, Zenon DEF headerFits
  <2>2. msg.code \in A
    BY <1>1
  <2>3. \A x \in A : <<x>> \in Seq(A)
    OBVIOUS
  <2> QED
    BY <2>1, <2>2, <2>3, Zenon
<1>7. <<h, msg.code>> = s1
  <2>1. msg.code \in A
    BY <1>1
  <2> QED
    BY <1>8, <2>1, TwoElements, Zenon
<1>9. id \in Seq(A)
  <2>1. msg.id \in Nat /\ msg.id <= Max16
    BY <1>1, Largest
  <2>2. id \in Seq(Byte)
    BY <2>1, Be2Type
  <2> HIDE DEF id
  <2> QED
    BY <2>2, SeqMonotonic
<1>10. flat \in Seq(A)
  <2>1. pieces(os) \in Seq(Seq(A))
    BY <1>4, PieceType
  <2> QED
    BY <2>1, FlattenType
<1>11. tail \in Seq(A)
  <2>1. \A o \in Seq(optionOver(A)) : ascending(o) => payloadBytes(msg.payload) \in Seq(A)
    BY <1>1, LastState
  <2> QED
    BY <1>4, <2>1
<1>12. Serialize(msg) = s3 \o flat \o tail
  BY <1>5, <1>6, <1>7, Zenon
<1> HIDE DEF flat, tail, id, c, h, token
<1>13. s3 \in Seq(A)
  <2>1. <<h>> \in Seq(A)
    BY <1>8
  <2>2. s1 \in Seq(A)
    BY <1>8, <2>1, ConcatProperties
  <2> HIDE DEF s1
  <2>3. s2 \in Seq(A)
    BY <1>9, <2>2, ConcatProperties
  <2> HIDE DEF s2
  <2> QED
    BY <1>1, <2>3, ConcatProperties
<1>14. (s3 \o flat) \o tail = s3 \o tmp
  <2> HIDE DEF s3
  <2> QED
    BY <1>10, <1>11, <1>13, Associates
<1>15. tmp \in Seq(A)
  BY <1>10, <1>11, ConcatProperties
<1>16. Serialize(msg) = <<h>> \o c \o id \o token \o tmp
  BY <1>12, <1>14, Zenon
<1>17. joins(tmp, flat, tail)
  BY DEF joins
<1> HIDE DEF tmp
<1>18. optionThen(A, Serialize(msg), h, c, id, token, tmp)
  BY <1>1, <1>8, <1>9, <1>15, <1>16, Zenon DEF optionThen
<1> QED
  BY <1>4, <1>17, <1>18, Zenon DEF os, given, h, flat, tail, c, id, token

(* What deserialize takes from the start of a datagram.                    *)
hasHeader(packet, h, c, id, token, tmp) ==
    /\ Len(packet) = 4 + Len(token) + Len(tmp) /\ packet[1] = h /\ packet[2] = c[1]
    /\ SubSeq(packet, 3, 4) = id
    /\ SubSeq(packet, 5, 4 + Len(token)) = token
    /\ SubSeq(packet, 4 + Len(token) + 1, Len(packet)) = tmp

(* It is what Serialize wrote there.                                       *)
LEMMA FixedHeader ==
    ASSUME NEW A, NEW packet, NEW h, NEW c, NEW id, NEW token, NEW tmp,
           optionThen(A, packet, h, c, id, token, tmp), Len(c) = 1, Len(id) = 2
    PROVE  hasHeader(packet, h, c, id, token, tmp)
<1>1. /\ packet \in Seq(A)
      /\ Len(packet) = 1 + Len(c) + Len(id) + Len(token) + Len(tmp)
      /\ packet[1] = h
      /\ SubSeq(packet, 2, 1 + Len(c)) = c
      /\ SubSeq(packet, 2 + Len(c), 1 + Len(c) + Len(id)) = id
      /\ SubSeq(packet, 1 + Len(c) + Len(id) + 1, 1 + Len(c) + Len(id) + Len(token)) = token
      /\ SubSeq(packet, 1 + Len(c) + Len(id) + Len(token) + 1, Len(packet)) = tmp
  <2>1. hasParts(A, packet, h, c, id, token, tmp)
    BY Slices
  <2> QED
    BY <2>1, Zenon DEF hasParts
<1>2. token \in Seq(A) /\ tmp \in Seq(A)
  BY Zenon DEF optionThen
<1>3. Len(token) \in Nat /\ Len(tmp) \in Nat
  BY <1>2, LenProperties
<1>4. 2 + 1 = 3 /\ 1 + 1 + 2 = 4 /\ 1 + 1 + 2 + 1 = 5 /\ 1 + 1 = 2
  OBVIOUS
<1>5. /\ Len(packet) = 4 + Len(token) + Len(tmp)
      /\ SubSeq(packet, 2, 2) = c
      /\ SubSeq(packet, 3, 4) = id
      /\ SubSeq(packet, 5, 4 + Len(token)) = token
      /\ SubSeq(packet, 4 + Len(token) + 1, Len(packet)) = tmp
  BY <1>1, <1>4
<1>6. packet[2] = c[1]
  <2>1. /\ 2 \in Int
        /\ \A i \in 2 .. 2 : packet[i] \in A
    <3>1. 2 \in 1 .. Len(packet)
      BY <1>3, <1>5
    <3>2. packet[2] \in A
      BY <1>1, <3>1, ElementOfSeq
    <3> QED
      BY <3>2
  <2>2. \A i \in 1 .. (2 - 2 + 1) : SubSeq(packet, 2, 2)[i] = packet[2 + i - 1]
    BY <1>1, <2>1, SubSeqProperties
  <2>3. 1 \in 1 .. (2 - 2 + 1) /\ 2 + 1 - 1 = 2
    OBVIOUS
  <2> QED
    BY <1>5, <2>2, <2>3
<1> QED
  BY <1>1, <1>5, <1>6, Zenon DEF hasHeader

(* The checks of the header pass, so the loop decides.                     *)
LEMMA HeaderRead ==
    ASSUME NEW A, Byte \subseteq A, NEW msg \in messageOver(A), NEW h, NEW tmp, NEW packet,
           h = 64 + 16 * msg.type + (Len(msg.token) % 16),
           optionThen(A, packet, h, <<msg.code>>, Be2(msg.id), msg.token, tmp)
    PROVE  LET read == readOptions(tmp, withParts(msg, <<>>, <<>>))
           IN  deserialize(packet) = IF read.err = "none" /\ ~validateMessage(read.msg)
                                     THEN refused("invalid") ELSE read
<1> DEFINE token == msg.token
           n == Len(token)
           c == <<msg.code>>
           id == Be2(msg.id)
           len == Len(tmp)
           header == packet[1] % 64
           tokenEnd == 4 + (header % 16)
           begin == [NewMessage(FromBe2(SubSeq(packet, 3, 4))) EXCEPT
                        !.type = header \div 16, !.code = packet[2], !.token = SubSeq(packet, 5, tokenEnd)]
           read == readOptions(SubSeq(packet, tokenEnd + 1, Len(packet)), begin)
<1>1. /\ msg.type \in 0 .. 3 /\ msg.code \in Byte /\ msg.id \in 0 .. Max16
      /\ token \in Seq(A) /\ n \in 0 .. 15
  <2> DEFINE T == {t \in Seq(A) : Len(t) < 16}
  <2>1. ASSUME NEW t \in T PROVE t \in Seq(A) /\ Len(t) \in 0 .. 15
    <3>1. t \in Seq(A) /\ Len(t) < 16
      OBVIOUS
    <3> HIDE DEF T
    <3>2. Len(t) \in Nat
      BY <3>1, LenProperties
    <3>3. \A k \in Nat : k < 16 => k \in 0 .. 15
      OBVIOUS
    <3> QED
      BY <3>1, <3>2, <3>3, Zenon
  <2> HIDE DEF T
  <2>2. msg \in [type : 0 .. 3, code : Byte, id : 0 .. Max16, token : T,
                options : Seq(optionOver(A)), payload : Seq(A)]
    BY Zenon DEF messageOver, T
  <2> QED
    BY <2>1, <2>2
<1>2. Len(id) = 2 /\ FromBe2(id) = msg.id
  <2>1. msg.id \in Nat /\ msg.id <= Max16
    BY <1>1, Largest
  <2> QED
    BY <2>1, Be2Inverse
<1>3. Len(c) = 1 /\ c[1] = msg.code
  OBVIOUS
<1>4. len \in Nat
  <2>1. tmp \in Seq(A)
    BY Zenon DEF optionThen
  <2> QED
    BY <2>1, LenProperties
<1>5. h \in Byte /\ h \div 64 = 1 /\ (h % 64) \div 16 = msg.type /\ (h % 64) % 16 = n
  <2>1. msg.type \in 0 .. 3 /\ n \in 0 .. 15
    BY <1>1
  <2>2. h = headerByte(msg.type, n)
    BY Zenon DEF headerByte
  <2>3. headerFits(headerByte(msg.type, n), msg.type, n)
    BY <2>1, HeaderIs
  <2> QED
    BY <2>2, <2>3, Zenon DEF headerFits
<1>6. optionThen(A, packet, h, c, id, token, tmp)
  OBVIOUS
<1> HIDE DEF id, c
<1>9. /\ Len(packet) = 4 + n + len /\ packet[1] = h /\ packet[2] = c[1]
      /\ SubSeq(packet, 3, 4) = id
      /\ SubSeq(packet, 5, 4 + n) = token
      /\ SubSeq(packet, 4 + n + 1, Len(packet)) = tmp
  <2>1. hasHeader(packet, h, c, id, token, tmp)
    <3> HIDE DEF token
    <3> QED
      BY <1>2, <1>3, <1>6, FixedHeader
  <2> QED
    BY <2>1, Zenon DEF hasHeader, n, len
<1>10. packet[2] = msg.code
  BY <1>3, <1>9
<1>11. header \div 16 = msg.type /\ tokenEnd = 4 + n
  BY <1>5, <1>9
<1>12. SubSeq(packet, 5, tokenEnd) = token /\ SubSeq(packet, tokenEnd + 1, Len(packet)) = tmp
  BY <1>9, <1>11
<1> DEFINE fresh == NewMessage(msg.id)
<1>13. [fresh EXCEPT !.type = msg.type, !.code = msg.code, !.token = token] = withParts(msg, <<>>, <<>>)
  <2> DEFINE e0 == [type |-> 0, code |-> 2, id |-> msg.id, token |-> <<>>, options |-> <<>>, payload |-> <<>>]
             e1 == [e0 EXCEPT !.type = msg.type]
             e2 == [e1 EXCEPT !.code = msg.code]
             e3 == [e2 EXCEPT !.token = token]
  <2> HIDE DEF token
  <2>1. fresh = e0
    BY DEF NewMessage
  <2>2. e1 = [type |-> msg.type, code |-> 2, id |-> msg.id, token |-> <<>>, options |-> <<>>, payload |-> <<>>]
    OBVIOUS
  <2>3. [e0 EXCEPT !.type = msg.type, !.code = msg.code, !.token = token] = e3
    <3> HIDE DEF e0
    <3> QED
      OBVIOUS
  <2> HIDE DEF e0, e1
  <2>4. e2 = [type |-> msg.type, code |-> msg.code, id |-> msg.id, token |-> <<>>, options |-> <<>>,
              payload |-> <<>>]
    BY <2>2
  <2> HIDE DEF e2
  <2>5. e3 = [type |-> msg.type, code |-> msg.code, id |-> msg.id, token |-> token, options |-> <<>>,
              payload |-> <<>>]
    BY <2>4
  <2> HIDE DEF e3, fresh
  <2>6. [fresh EXCEPT !.type = msg.type, !.code = msg.code, !.token = token] = e3
    BY <2>1, <2>3, Zenon
  <2> QED
    BY <2>5, <2>6, Zenon DEF withParts, token
<1>14. begin = withParts(msg, <<>>, <<>>)
  <2> HIDE DEF header, tokenEnd, n, len, token
  <2>1. begin = [fresh EXCEPT !.type = msg.type, !.code = msg.code, !.token = token]
    BY <1>2, <1>9, <1>10, <1>11, <1>12
  <2> QED
    BY <1>13, <2>1
<1>15. /\ ~(Len(packet) < 4) /\ ~(packet[1] \div 64 # 1) /\ ~(Len(packet) < tokenEnd)
  <2>1. packet[1] \div 64 = 1
    BY <1>5, <1>9
  <2>2. ~(Len(packet) < 4) /\ ~(Len(packet) < 4 + n)
    <3> HIDE DEF n, len
    <3> QED
      BY <1>1, <1>4, <1>9
  <2> HIDE DEF tokenEnd
  <2> QED
    BY <1>11, <2>1, <2>2, Zenon
<1>16. deserialize(packet) =
         IF Len(packet) < 4 THEN refused("ErrPacketLengthLessThan4")
         ELSE IF packet[1] \div 64 # 1 THEN refused("ErrInvalidCoapVersion")
         ELSE IF Len(packet) < tokenEnd THEN refused("malformed")
         ELSE IF read.err = "none" /\ ~validateMessage(read.msg) THEN refused("invalid") ELSE read
  BY Zenon DEF deserialize, tokenEnd, header
<1>17. read = readOptions(tmp, withParts(msg, <<>>, <<>>))
  BY <1>12, <1>14
<1> HIDE DEF read
<1> QED
  BY <1>15, <1>16, <1>17, Zenon

(* What a receiver gets of a message.                                      *)
carried(msg) ==
    withParts(msg, withCodes(sorted(schemeWritten(msg.options)), DecodedOptions), msg.payload)

(* What deserialize makes of it: a critical option that is not understood  *)
(* is the first reason to refuse it, and a critical option that is there   *)
(* twice the second (validateMessage).                                     *)
outcome(msg) ==
    IF \E c \in codesOf(msg.options) : c \notin DecodedOptions /\ critical(c) THEN notUnderstood
    ELSE IF ~validateMessage(carried(msg)) THEN refused("invalid")
    ELSE accepted(carried(msg))

(* Serialize sorts the options and writes the scheme, and loses none.      *)
LEMMA OptionsWritten ==
    ASSUME NEW A, NEW os \in Seq(optionOver(A))
    PROVE  unreadable(sorted(schemeWritten(os)))
             <=> \E c \in codesOf(os) : c \notin DecodedOptions /\ critical(c)
<1> DEFINE O == optionOver(A)
           given == schemeWritten(os)
           s == sorted(given)
<1>1. given \in Seq(O) /\ codesOf(given) = codesOf(os)
  BY SchemeWrittenKeeps
<1>2. \A e \in O : e.code \in Nat
  BY Largest DEF optionOver
<1> HIDE DEF given, O
<1>3. s \in Seq(O) /\ codesOf(s) = codesOf(given)
  BY <1>1, <1>2, SortedKeeps DEF sameOptions
<1> HIDE DEF s
<1>4. DOMAIN s = 1 .. Len(s)
  BY <1>3, LenProperties
<1>5. unreadable(s) <=> \E c \in codesOf(s) : c \notin DecodedOptions /\ critical(c)
  BY <1>4, Zenon DEF unreadable, unread, codesOf
<1> QED
  BY <1>1, <1>3, <1>5 DEF s, given

(* For every message (any type, code, identifier, token of at most 15      *)
(* bytes, any options in any order, any payload): deserialize, given what  *)
(* Serialize writes, refuses it for one of the two reasons above, or       *)
(* returns it with the same type, code, identifier, token and payload and  *)
(* with all its options that are decoded, sorted, those of one code in     *)
(* their order (message.go:90-231, common.go:27-49, options.go).           *)
THEOREM RoundTrip ==
    ASSUME NEW A, Byte \subseteq A, NEW msg \in messageOver(A)
    PROVE  deserialize(Serialize(msg)) = outcome(msg)
<1>1. PICK os, h, tmp :
              /\ os = sorted(schemeWritten(msg.options))
              /\ os \in Seq(optionOver(A)) /\ ascending(os)
              /\ h = 64 + 16 * msg.type + (Len(msg.token) % 16)
              /\ joins(tmp, FlattenSeq(pieces(os)), payloadBytes(msg.payload))
              /\ optionThen(A, Serialize(msg), h, <<msg.code>>, Be2(msg.id), msg.token, tmp)
  BY SerializeIs
<1> DEFINE read == readOptions(tmp, withParts(msg, <<>>, <<>>))
           packet == Serialize(msg)
<1>2. deserialize(packet) = IF read.err = "none" /\ ~validateMessage(read.msg)
                            THEN refused("invalid") ELSE read
  BY <1>1, HeaderRead
<1>3. read = IF unreadable(os) THEN notUnderstood ELSE finalRead(os, msg.payload, msg)
  <2>1. msg.payload \in Seq(A)
    BY DEF messageOver
  <2> QED
    BY <1>1, <2>1, OptionsRead
<1>4. unreadable(os) <=> \E c \in codesOf(msg.options) : c \notin DecodedOptions /\ critical(c)
  <2>1. msg.options \in Seq(optionOver(A))
    BY DEF messageOver
  <2> QED
    BY <1>1, <2>1, OptionsWritten
<1>5. finalRead(os, msg.payload, msg) = accepted(carried(msg))
  BY <1>1, Zenon DEF finalRead, carried
<1>6. notUnderstood.err # "none"
  BY DEF notUnderstood, refused
<1>7. accepted(carried(msg)).err = "none" /\ accepted(carried(msg)).msg = carried(msg)
  BY DEF accepted
<1> HIDE DEF read, packet
<1>8. deserialize(packet) = outcome(msg)
  <2>1. CASE unreadable(os)
    BY <1>2, <1>3, <1>4, <1>6, <2>1, Zenon DEF outcome
  <2>2. CASE ~unreadable(os)
    <3>1. read = accepted(carried(msg))
      BY <1>3, <1>5, <2>2
    <3> QED
      BY <1>2, <1>4, <1>7, <2>2, <3>1, Zenon DEF outcome
  <2> QED
    BY <2>1, <2>2
<1> QED
  BY <1>8, Zenon DEF packet

-----------------------------------------------------------------------------
(* What the receiver's options are to the sender's.                        *)

(* The scheme of a plain message is written as COAP_SCHEME, so it arrives  *)
(* as it is when it is that one.                                           *)
plainScheme(os) == GetOptions(os, URIScheme) \in {<<>>, <<NewOption(URIScheme, int(COAP_SCHEME))>>}

(* The codes that the transport and a proxy treat specially.               *)
LEMMA CodeFacts ==
    /\ URIScheme \notin RepeatableOptions /\ URIScheme \in DecodedOptions
    /\ URIScheme \notin {ProxyURI, ProxyScheme, Checksum}
    /\ Checksum \notin IntOptions /\ ProxyURI \notin IntOptions /\ URIPath \notin IntOptions
    /\ Checksum # URIScheme /\ ProxyURI # URIScheme /\ URIPath # URIScheme
    /\ Checksum \in 0 .. Max16 /\ ProxyURI \in 0 .. Max16 /\ URIPath \in 0 .. Max16
<1>1. Checksum \in 0 .. Max16 /\ ProxyURI \in 0 .. Max16 /\ URIPath \in 0 .. Max16
  BY SMT DEF Checksum, ProxyURI, URIPath, Max16
<1>2. URIScheme \notin RepeatableOptions
  BY SMT DEF URIScheme, RepeatableOptions, IfMatch, Etag, LocationPath, URIPath, URIQuery, LocationQuery
<1>3. URIScheme \in DecodedOptions
  BY DEF DecodedOptions, IntOptions
<1>4. \A c \in {Checksum, ProxyURI, URIPath} : c \notin IntOptions
  BY SMT DEF Checksum, ProxyURI, URIPath, IntOptions, URIScheme, ProxyScheme, URIPort, ContentFormat, MaxAge,
             Accept, Size1, Size2, Block1, Block2, HandshakeType, Observe, SessionNotFound, SessionExpired,
             WindowSize, ProxySecurityID
<1>5. URIScheme \notin {ProxyURI, ProxyScheme, Checksum, URIPath}
  BY SMT DEF Checksum, ProxyURI, URIPath, ProxyScheme, URIScheme
<1> QED
  BY <1>1, <1>2, <1>3, <1>4, <1>5

(* Writing the scheme changes nothing of a plain message.                  *)
LEMMA SchemeWrittenSame ==
    ASSUME NEW A, NEW os \in Seq(optionOver(A)), plainScheme(os)
    PROVE  \A c : GetOptions(schemeWritten(os), c) = GetOptions(os, c)
<1> DEFINE O == optionOver(A)
           s == AddOption(os, URIScheme, int(COAP_SCHEME))
           given == schemeWritten(os)
<1>1. \A c : c # URIScheme => GetOptions(given, c) = GetOptions(os, c)
  BY SchemeWrittenKeeps
<1>2. GetOptions(given, URIScheme) = GetOptions(os, URIScheme)
  <2>1. given = os \/ (given = s /\ URIScheme \in codesOf(os))
    <3>1. schemeWritten(os) = os \/ (schemeWritten(os) = s /\ HasOption(os, URIScheme))
      <4> HIDE DEF s
      <4> QED
        BY Zenon DEF schemeWritten, s
    <3>2. HasOption(os, URIScheme) => URIScheme \in codesOf(os)
      BY DEF HasOption
    <3> QED
      BY <3>1, <3>2, Zenon DEF given
  <2>2. CASE given = os
    BY <2>2
  <2>3. CASE given = s /\ URIScheme \in codesOf(os)
    <3>1. GetOptions(os, URIScheme) # <<>>
      BY <2>3, NoneWithCode
    <3>2. GetOptions(os, URIScheme) = <<NewOption(URIScheme, int(COAP_SCHEME))>>
      BY <3>1 DEF plainScheme
    <3>3. GetOptions(s, URIScheme) = <<NewOption(URIScheme, int(COAP_SCHEME))>>
      <4>1. NewOption(URIScheme, int(COAP_SCHEME)) \in O
        BY SchemeOption
      <4> HIDE DEF O
      <4>2. os \in Seq(O)
        BY DEF O
      <4> QED
        BY <4>1, <4>2, CodeFacts, AddKeeps
    <3> QED
      BY <2>3, <3>2, <3>3, Zenon
  <2> QED
    BY <2>1, <2>2, <2>3
<1> QED
  BY <1>1, <1>2

(* A plain message arrives with the same options of each code that is      *)
(* decoded.                                                                *)
LEMMA CarriedKeeps ==
    ASSUME NEW A, Byte \subseteq A, NEW msg \in messageOver(A)
    PROVE  /\ carried(msg) \in messageOver(A)
           /\ plainScheme(msg.options) =>
                 \A c \in DecodedOptions : GetOptions(carried(msg).options, c) = GetOptions(msg.options, c)
<1> DEFINE O == optionOver(A)
           os == msg.options
           given == schemeWritten(os)
           s == sorted(given)
           w == withCodes(s, DecodedOptions)
<1>1. msg \in [type : 0 .. 3, code : Byte, id : 0 .. Max16, token : {t \in Seq(A) : Len(t) < 16},
               options : Seq(O), payload : Seq(A)]
  BY Zenon DEF messageOver
<1>2. \A e \in O : e.code \in Nat
  BY Largest DEF optionOver
<1>3. os \in Seq(O)
  BY <1>1
<1>4. given \in Seq(O)
  BY <1>3, SchemeWrittenKeeps
<1> HIDE DEF given, O
<1>5. s \in Seq(O) /\ sameOptions(s, given)
  BY <1>2, <1>4, SortedKeeps
<1> HIDE DEF s
<1>6. w \in Seq(O)
  BY <1>5, WithCodesType
<1>7. carried(msg) = withParts(msg, w, msg.payload)
  BY Zenon DEF carried, w, s, given
<1>8. carried(msg) \in messageOver(A) /\ carried(msg).options = w
  <2> HIDE DEF w
  <2> DEFINE T == {t \in Seq(A) : Len(t) < 16}
  <2> HIDE DEF T
  <2>1. msg \in [type : 0 .. 3, code : Byte, id : 0 .. Max16, token : T, options : Seq(O), payload : Seq(A)]
    BY <1>1 DEF T
  <2>2. withParts(msg, w, msg.payload)
          \in [type : 0 .. 3, code : Byte, id : 0 .. Max16, token : T, options : Seq(O), payload : Seq(A)]
    BY <1>6, <2>1 DEF withParts
  <2>3. withParts(msg, w, msg.payload).options = w
    BY DEF withParts
  <2> QED
    BY <1>7, <2>2, <2>3, Zenon DEF messageOver, T, O
<1>9. ASSUME NEW c \in DecodedOptions, plainScheme(os) PROVE GetOptions(w, c) = GetOptions(os, c)
  <2> DEFINE C == {c}
  <2>1. GetOptions(w, c) = withCodes(s, DecodedOptions \cap C)
    BY <1>5, WithCodesTwice DEF GetOptions
  <2>2. DecodedOptions \cap C = C
    OBVIOUS
  <2>3. GetOptions(w, c) = GetOptions(s, c)
    BY <2>1, <2>2, Zenon DEF GetOptions
  <2>4. GetOptions(s, c) = GetOptions(given, c)
    BY <1>5, Zenon DEF sameOptions
  <2>5. GetOptions(given, c) = GetOptions(os, c)
    BY <1>3, <1>9, SchemeWrittenSame DEF given, O
  <2> QED
    BY <2>3, <2>4, <2>5
<1> QED
  BY <1>8, <1>9, Zenon

-----------------------------------------------------------------------------
(* The parts of a path (SetURIPath).                                       *)

(* What parts computes: path split at its slashes, up to n.                *)
Splits(f, path, n) ==
    f = [k \in 0 .. n |->
            IF k = 0 THEN <<<<>>>>
            ELSE IF path[k] = Slash THEN Append(f[k - 1], <<>>)
            ELSE [f[k - 1] EXCEPT ![Len(f[k - 1])] = Append(@, path[k])]]

(* There is such a function for every n.                                   *)
LEMMA SplittingExists ==
    ASSUME NEW path, NEW n \in Nat
    PROVE  \E f : Splits(f, path, n)
<1> DEFINE N == {k \in Nat : \E f : Splits(f, path, k)}
           next(x, k) == IF path[k] = Slash THEN Append(x, <<>>) ELSE [x EXCEPT ![Len(x)] = Append(@, path[k])]
           begin == <<<<>>>>
<1>0. \A f, m : Splits(f, path, m) <=> f = [k \in 0 .. m |-> IF k = 0 THEN begin ELSE next(f[k - 1], k)]
  BY Zenon DEF Splits
<1> HIDE DEF next, begin
<1>1. 0 \in N
  <2> DEFINE g == [i \in 0 .. 0 |-> begin]
  <2>1. g = [i \in 0 .. 0 |-> IF i = 0 THEN begin ELSE next(g[i - 1], i)]
    OBVIOUS
  <2> HIDE DEF g
  <2> QED
    BY <1>0, <2>1
<1>2. ASSUME NEW k \in Nat, k \in N PROVE k + 1 \in N
  <2>1. PICK f : Splits(f, path, k)
    BY <1>2
  <2> DEFINE g == [i \in 0 .. (k + 1) |-> IF i = 0 THEN begin ELSE next(f[i - 1], i)]
  <2>2. ASSUME NEW i \in 0 .. k PROVE g[i] = f[i]
    <3>1. f = [j \in 0 .. k |-> IF j = 0 THEN begin ELSE next(f[j - 1], j)]
      BY <1>0, <2>1
    <3>2. f[i] = IF i = 0 THEN begin ELSE next(f[i - 1], i)
      BY <3>1, Zenon
    <3> QED
      BY <3>2
  <2>3. \A i \in 0 .. (k + 1) : i # 0 => i - 1 \in 0 .. k
    OBVIOUS
  <2>4. \A i \in 0 .. (k + 1) : g[i] = IF i = 0 THEN begin ELSE next(g[i - 1], i)
    BY <2>2, <2>3
  <2>5. g = [i \in 0 .. (k + 1) |-> IF i = 0 THEN begin ELSE next(g[i - 1], i)]
    BY <2>4
  <2> HIDE DEF g
  <2>6. Splits(g, path, k + 1)
    BY <1>0, <2>5, Zenon
  <2> QED
    BY <2>6
<1>3. \A k \in Nat : k \in N
  <2> HIDE DEF N
  <2> QED
    BY <1>1, <1>2, SetInduction
<1> QED
  BY <1>3

(* The parts of a path are strings no longer than the path.                *)
LEMMA PartsType ==
    ASSUME NEW A, NEW path \in Seq(A)
    PROVE  parts(path) \in Seq({t \in Seq(A) : Len(t) <= Len(path)}) /\ Len(parts(path)) >= 1
<1> DEFINE n == Len(path)
           g == CHOOSE f : Splits(f, path, n)
           P(k) == {t \in Seq(A) : Len(t) <= k}
           S == {k \in 0 .. n : g[k] \in Seq(P(k)) /\ Len(g[k]) >= 1}
<1>0. n \in Nat
  BY LenProperties
<1>1. Splits(g, path, n)
  BY <1>0, SplittingExists
<1>2. parts(path) = g[n]
  BY Zenon DEF parts, Splits
<1> HIDE DEF g
<1>3. ASSUME NEW k \in 0 .. n
      PROVE  g[k] = IF k = 0 THEN <<<<>>>>
                    ELSE IF path[k] = Slash THEN Append(g[k - 1], <<>>)
                    ELSE [g[k - 1] EXCEPT ![Len(g[k - 1])] = Append(@, path[k])]
  BY <1>1, Zenon DEF Splits
<1>4. \A t, k : t \in P(k) <=> t \in Seq(A) /\ Len(t) <= k
  OBVIOUS
<1> HIDE DEF P
<1>5. 0 \in S
  <2>0. 0 \in 0 .. n
    BY <1>0
  <2>1. g[0] = <<<<>>>>
    BY <1>3, <2>0, Zenon
  <2>2. <<>> \in P(0)
    <3>1. <<>> \in Seq(A) /\ Len(<<>>) <= 0
      BY EmptySeq
    <3> QED
      BY <1>4, <3>1
  <2>3. <<<<>>>> \in Seq(P(0)) /\ Len(<<<<>>>>) = 1
    BY <2>2
  <2>4. g[0] \in Seq(P(0)) /\ Len(g[0]) >= 1
    <3> DEFINE z == <<<<>>>>
    <3>1. z \in Seq(P(0)) /\ Len(z) >= 1
      BY <2>3
    <3> HIDE DEF z
    <3> QED
      BY <2>1, <3>1 DEF z
  <2> QED
    BY <2>0, <2>4
<1>6. ASSUME NEW k \in 0 .. (n - 1), k \in S PROVE k + 1 \in S
  <2> DEFINE x == g[k]
             m == Len(x)
             e == path[k + 1]
             last == x[m]
             longer == Append(last, e)
             y == [x EXCEPT ![m] = longer]
  <2>1. k + 1 \in 0 .. n /\ k + 1 # 0 /\ (k + 1) - 1 = k /\ k + 1 \in 1 .. n /\ k \in Nat
    BY <1>0
  <2>2. g[k + 1] = IF e = Slash THEN Append(x, <<>>) ELSE y
    BY <1>3, <2>1
  <2>3. x \in Seq(P(k)) /\ m >= 1
    BY <1>6
  <2>4. e \in A
    BY <2>1, ElementOfSeq
  <2> HIDE DEF x, e, S
  <2>5. P(k) \subseteq P(k + 1)
    <3> SUFFICES ASSUME NEW t \in P(k) PROVE t \in P(k + 1)
      OBVIOUS
    <3>1. t \in Seq(A) /\ Len(t) <= k
      BY <1>4
    <3>2. Len(t) \in Nat
      BY <3>1, LenProperties
    <3>3. Len(t) <= k + 1
      BY <2>1, <3>1, <3>2
    <3> QED
      BY <1>4, <3>1, <3>3
  <2>6. x \in Seq(P(k + 1)) /\ m \in Nat
    BY <2>3, <2>5, SeqMonotonic, LenProperties
  <2>7. <<>> \in P(k + 1)
    <3>1. <<>> \in Seq(A) /\ Len(<<>>) = 0
      BY EmptySeq
    <3>2. 0 <= k + 1
      BY <2>1
    <3> QED
      BY <1>4, <3>1, <3>2
  <2>8. last \in P(k)
    <3>1. m \in 1 .. m
      BY <2>3, <2>6
    <3> QED
      BY <2>3, <3>1, ElementOfSeq
  <2>9. longer \in P(k + 1)
    <3>1. last \in Seq(A) /\ Len(last) <= k
      BY <1>4, <2>8
    <3> HIDE DEF last
    <3>2. longer \in Seq(A) /\ Len(longer) = Len(last) + 1 /\ Len(last) \in Nat
      BY <2>4, <3>1, AppendProperties, LenProperties
    <3>3. Len(longer) <= k + 1
      BY <2>1, <3>1, <3>2
    <3> QED
      BY <1>4, <3>2, <3>3
  <2>10. Append(x, <<>>) \in Seq(P(k + 1)) /\ Len(Append(x, <<>>)) = m + 1
    BY <2>6, <2>7, AppendProperties
  <2>11. y \in Seq(P(k + 1)) /\ Len(y) = m
    <3> HIDE DEF longer
    <3>1. m \in 1 .. m
      BY <2>3, <2>6
    <3> QED
      BY <2>6, <2>9, <3>1, ExceptSeq
  <2> HIDE DEF y, m
  <2>12. g[k + 1] \in Seq(P(k + 1)) /\ Len(g[k + 1]) >= 1
    <3>0. Len(y) >= 1 /\ Len(Append(x, <<>>)) >= 1
      BY <2>3, <2>6, <2>10, <2>11
    <3>1. CASE e = Slash
      BY <2>2, <2>10, <3>0, <3>1, Zenon
    <3>2. CASE e # Slash
      BY <2>2, <2>11, <3>0, <3>2, Zenon
    <3> QED
      BY <3>1, <3>2
  <2> QED
    BY <2>1, <2>12 DEF S
<1>7. \A k \in 0 .. n : k \in S
  <2> HIDE DEF S
  <2> QED
    BY <1>0, <1>5, <1>6, BoundedInduction
<1>8. g[n] \in Seq(P(n)) /\ Len(g[n]) >= 1
  BY <1>0, <1>7
<1> QED
  BY <1>2, <1>8 DEF P

-----------------------------------------------------------------------------
(* The messages that an application builds with the calls of Wire.         *)

(* NewOption makes options.                                                *)
LEMMA OptionsMade ==
    ASSUME NEW A, NEW c \in 0 .. Max16
    PROVE  /\ \A s \in Seq(A) :
                 c \notin IntOptions /\ Len(s) <= Max16 => NewOption(c, string(s)) \in optionOver(A)
           /\ \A n \in 0 .. Max32 : c \notin StringOptions => NewOption(c, int(n)) \in optionOver(A)
<1>1. <<>> \in Seq(A) /\ 0 \in 0 .. Max32
  BY EmptySeq, Largest
<1>2. ASSUME NEW s \in Seq(A), c \notin IntOptions, Len(s) <= Max16
      PROVE  NewOption(c, string(s)) \in optionOver(A)
  <2> DEFINE o == NewOption(c, string(s))
  <2>1. /\ o.code = c /\ o.value = string(o.value.s) /\ o.value.s = s
        /\ o \in [code : 0 .. Max16, value : [kind : {"int", "string"}, n : 0 .. Max32, s : Seq(A)]]
    BY <1>1 DEF NewOption, string
  <2> HIDE DEF o
  <2>2. o \in optionOver(A)
    BY <1>2, <2>1, Zenon DEF optionOver
  <2> QED
    BY <2>2 DEF o
<1>3. ASSUME NEW n \in 0 .. Max32, c \notin StringOptions
      PROVE  NewOption(c, int(n)) \in optionOver(A)
  <2> DEFINE o == NewOption(c, int(n))
  <2>1. /\ o.code = c /\ o.value = int(o.value.n)
        /\ o \in [code : 0 .. Max16, value : [kind : {"int", "string"}, n : 0 .. Max32, s : Seq(A)]]
    BY <1>1 DEF NewOption, int
  <2> HIDE DEF o
  <2>2. o \in optionOver(A)
    BY <1>3, <2>1, Zenon DEF optionOver
  <2> QED
    BY <2>2 DEF o
<1> QED
  BY <1>2, <1>3

(* The options of a message an application builds.                         *)
plainOptions(A) == {os \in Seq(optionOver(A)) : plainScheme(os)}

(* AddOption and RemoveOptions keep them.                                  *)
LEMMA PlainAdd ==
    ASSUME NEW A, NEW os \in plainOptions(A), NEW code, NEW value,
           NewOption(code, value) \in optionOver(A), code = URIScheme => value = int(COAP_SCHEME)
    PROVE  AddOption(os, code, value) \in plainOptions(A)
<1> DEFINE O == optionOver(A)
           s == AddOption(os, code, value)
<1>1. os \in Seq(O) /\ plainScheme(os)
  BY DEF plainOptions
<1>2. /\ s \in Seq(O)
      /\ \A c : c # code => GetOptions(s, c) = GetOptions(os, c)
      /\ code \notin RepeatableOptions => GetOptions(s, code) = <<NewOption(code, value)>>
  <2> HIDE DEF O
  <2>1. os \in Seq(O) /\ NewOption(code, value) \in O
    BY <1>1 DEF O
  <2> QED
    BY <2>1, AddKeeps
<1> HIDE DEF s
<1>3. plainScheme(s)
  <2>1. CASE code = URIScheme
    BY <1>2, <2>1, CodeFacts DEF plainScheme
  <2>2. CASE code # URIScheme
    BY <1>1, <1>2, <2>2 DEF plainScheme
  <2> QED
    BY <2>1, <2>2
<1> QED
  BY <1>2, <1>3 DEF plainOptions, s

LEMMA PlainRemove ==
    ASSUME NEW A, NEW os \in plainOptions(A), NEW code
    PROVE  RemoveOptions(os, code) \in plainOptions(A)
<1> DEFINE s == RemoveOptions(os, code)
<1>1. os \in Seq(optionOver(A)) /\ plainScheme(os)
  BY DEF plainOptions
<1>2. /\ s \in Seq(optionOver(A))
      /\ GetOptions(s, code) = <<>>
      /\ \A d : d # code => GetOptions(s, d) = GetOptions(os, d)
  BY <1>1, GetAfterRemove
<1> HIDE DEF s
<1>3. plainScheme(s)
  BY <1>1, <1>2 DEF plainScheme
<1> QED
  BY <1>2, <1>3 DEF plainOptions, s

(* What SetURIPath does with the options os, part by part.                 *)
withPart(os, part) == IF part = <<>> THEN os ELSE AddOption(os, URIPath, string(part))

addsParts(g, os, ps) ==
    /\ g[0] = os
    /\ \A k \in 1 .. Len(ps) : g[k] = withPart(g[k - 1], ps[k])

LEMMA PathSteps ==
    ASSUME NEW A, NEW os, NEW path \in Seq(A)
    PROVE  \E g : addsParts(g, os, parts(path)) /\ SetURIPath(os, path) = g[Len(parts(path))]
<1> DEFINE part == parts(path)
           n == Len(part)
           next(x, k) == withPart(x, part[k])
           Adds(f, m) == f = [k \in 0 .. m |-> IF k = 0 THEN os ELSE next(f[k - 1], k)]
           N == {m \in Nat : \E f : Adds(f, m)}
           g == CHOOSE f : Adds(f, n)
<1>0. SetURIPath(os, path) = g[n]
  BY Zenon DEF SetURIPath, withPart
<1> HIDE DEF g
<1>1. n \in Nat
  BY PartsType, LenProperties
<1> HIDE DEF part, n, next
<1>2. n \in N
  <2>1. 0 \in N
    <3> DEFINE f == [i \in 0 .. 0 |-> os]
    <3>1. Adds(f, 0)
      OBVIOUS
    <3> HIDE DEF Adds, f
    <3> QED
      BY <3>1
  <2>2. ASSUME NEW k \in Nat, k \in N PROVE k + 1 \in N
    <3>1. PICK f : f = [i \in 0 .. k |-> IF i = 0 THEN os ELSE next(f[i - 1], i)]
      BY <2>2
    <3> DEFINE h == [i \in 0 .. (k + 1) |-> IF i = 0 THEN os ELSE next(f[i - 1], i)]
    <3>2. ASSUME NEW i \in 0 .. k PROVE h[i] = f[i]
      <4>1. f[i] = IF i = 0 THEN os ELSE next(f[i - 1], i)
        BY <3>1, Zenon
      <4> QED
        BY <4>1
    <3>3. \A i \in 0 .. (k + 1) : i # 0 => i - 1 \in 0 .. k
      OBVIOUS
    <3>4. \A i \in 0 .. (k + 1) : h[i] = IF i = 0 THEN os ELSE next(h[i - 1], i)
      BY <3>2, <3>3
    <3>5. Adds(h, k + 1)
      BY <3>4
    <3> HIDE DEF Adds, h
    <3> QED
      BY <3>5
  <2> HIDE DEF N
  <2> QED
    BY <1>1, <2>1, <2>2, SetInduction
<1>3. Adds(g, n)
  BY <1>2 DEF g
<1>4. ASSUME NEW k \in 0 .. n PROVE g[k] = IF k = 0 THEN os ELSE next(g[k - 1], k)
  BY <1>3, Zenon
<1> HIDE DEF Adds, N
<1>5. g[0] = os /\ \A k \in 1 .. n : g[k] = next(g[k - 1], k)
  BY <1>1, <1>4
<1> QED
  BY <1>0, <1>5 DEF next, n, part, addsParts

(* It keeps what AddOption keeps.                                          *)
LEMMA PathKeeps ==
    ASSUME NEW A, NEW P, NEW os \in P, NEW path \in Seq(A), Len(path) <= Max16,
           \A x \in P, t \in Seq(A) : Len(t) <= Max16 => AddOption(x, URIPath, string(t)) \in P
    PROVE  SetURIPath(os, path) \in P
<1>a. PICK g : addsParts(g, os, parts(path)) /\ SetURIPath(os, path) = g[Len(parts(path))]
  BY PathSteps
<1> DEFINE part == parts(path)
           n == Len(part)
<1>0. /\ g[0] = os
      /\ \A k \in 1 .. n : g[k] = withPart(g[k - 1], part[k])
      /\ SetURIPath(os, path) = g[n]
  BY <1>a, Zenon DEF addsParts
<1> DEFINE S == {k \in 0 .. n : g[k] \in P}
<1>1. part \in Seq({t \in Seq(A) : Len(t) <= Len(path)}) /\ n \in Nat
  BY PartsType, LenProperties
<1> HIDE DEF part, n
<1>2. ASSUME NEW x \in P, NEW k \in 1 .. n PROVE withPart(x, part[k]) \in P
  <2>1. part[k] \in Seq(A) /\ Len(part[k]) <= Len(path)
    BY <1>1, ElementOfSeq DEF n
  <2> DEFINE t == part[k]
  <2>2. Len(t) <= Max16
    <3>1. Len(t) \in Nat /\ Len(path) \in Nat
      BY <2>1, LenProperties
    <3> QED
      BY <2>1, <3>1, Largest
  <2> HIDE DEF t
  <2>3. AddOption(x, URIPath, string(t)) \in P
    BY <2>1, <2>2 DEF t
  <2> QED
    BY <2>3 DEF t, withPart
<1>3. 0 \in S
  BY <1>0, <1>1
<1>4. ASSUME NEW k \in 0 .. (n - 1), k \in S PROVE k + 1 \in S
  <2>1. k + 1 \in 0 .. n /\ (k + 1) - 1 = k /\ k + 1 \in 1 .. n
    BY <1>1
  <2>2. g[k + 1] = withPart(g[k], part[k + 1])
    BY <1>0, <2>1
  <2> QED
    BY <1>2, <1>4, <2>1, <2>2
<1>5. \A k \in 0 .. n : k \in S
  <2> HIDE DEF S
  <2> QED
    BY <1>1, <1>3, <1>4, BoundedInduction
<1> QED
  BY <1>0, <1>1, <1>5

-----------------------------------------------------------------------------
(* Wire: from the application that builds a message to the receiver that   *)
(* reads it, directly or over a proxy.                                     *)

(* What a byte of a datagram may be: crc32's digits hold bytes.            *)
Alphabet == Byte \cup Seq(Byte)

(* The codes that ReceivedAsBuilt is about.                                *)
Carried == DecodedOptions \ {ProxyURI, ProxyScheme, Checksum}

(* The message m, for one that was given.                                  *)
agrees(m, given) ==
    /\ m.type = given.type /\ m.code = given.code /\ m.id = given.id
    /\ m.token = given.token /\ m.payload = given.payload
    /\ \A c \in Carried : GetOptions(m.options, c) = GetOptions(given.options, c)

(* The messages that the transport encodes.                                *)
plainMessages(A) == {m \in messageOver(A) : plainScheme(m.options)}

(* One field of a message replaced.                                        *)
LEMMA MessageFields ==
    ASSUME NEW A, NEW m \in messageOver(A)
    PROVE  /\ m.options \in Seq(optionOver(A))
           /\ \A os \in Seq(optionOver(A)) :
                 /\ [m EXCEPT !.options = os] \in messageOver(A)
                 /\ [m EXCEPT !.options = os].options = os
                 /\ [m EXCEPT !.options = os].type = m.type
                 /\ [m EXCEPT !.options = os].code = m.code
                 /\ [m EXCEPT !.options = os].id = m.id
                 /\ [m EXCEPT !.options = os].token = m.token
                 /\ [m EXCEPT !.options = os].payload = m.payload
           /\ \A t \in Seq(A) : Len(t) < 16 =>
                 [m EXCEPT !.token = t] \in messageOver(A) /\ [m EXCEPT !.token = t].options = m.options
           /\ \A p \in Seq(A) :
                 [m EXCEPT !.payload = p] \in messageOver(A) /\ [m EXCEPT !.payload = p].options = m.options
<1> DEFINE T == {t \in Seq(A) : Len(t) < 16}
           O == Seq(optionOver(A))
           P == Seq(A)
           R == [type : 0 .. 3, code : Byte, id : 0 .. Max16, token : T, options : O, payload : P]
<1>1. messageOver(A) = R
  BY Zenon DEF messageOver
<1>2. \A t \in Seq(A) : Len(t) < 16 => t \in T
  OBVIOUS
<1>3. m \in R
  BY <1>1
<1> HIDE DEF T, O, P
<1>4. m.options \in O
  BY <1>3
<1>5. \A os \in O : /\ [m EXCEPT !.options = os] \in R
                    /\ [m EXCEPT !.options = os].options = os
                    /\ [m EXCEPT !.options = os].type = m.type
                    /\ [m EXCEPT !.options = os].code = m.code
                    /\ [m EXCEPT !.options = os].id = m.id
                    /\ [m EXCEPT !.options = os].token = m.token
                    /\ [m EXCEPT !.options = os].payload = m.payload
  BY <1>3
<1>6. \A t \in T : [m EXCEPT !.token = t] \in R /\ [m EXCEPT !.token = t].options = m.options
  BY <1>3
<1>7. \A p \in P : [m EXCEPT !.payload = p] \in R /\ [m EXCEPT !.payload = p].options = m.options
  BY <1>3
<1> HIDE DEF R
<1>8. /\ m.options \in O
      /\ \A os \in O : /\ [m EXCEPT !.options = os] \in messageOver(A)
                       /\ [m EXCEPT !.options = os].options = os
                       /\ [m EXCEPT !.options = os].type = m.type
                       /\ [m EXCEPT !.options = os].code = m.code
                       /\ [m EXCEPT !.options = os].id = m.id
                       /\ [m EXCEPT !.options = os].token = m.token
                       /\ [m EXCEPT !.options = os].payload = m.payload
      /\ \A t \in T : [m EXCEPT !.token = t] \in messageOver(A) /\ [m EXCEPT !.token = t].options = m.options
      /\ \A p \in P : [m EXCEPT !.payload = p] \in messageOver(A) /\ [m EXCEPT !.payload = p].options = m.options
  BY <1>1, <1>4, <1>5, <1>6, <1>7, Zenon
<1> QED
  BY <1>2, <1>8, Zenon DEF O, P

(* A message over bytes is one over the wider alphabet.                    *)
LEMMA WiderAlphabet ==
    /\ Byte \subseteq Alphabet
    /\ messageOver(Byte) \subseteq messageOver(Alphabet)
<1>1. Byte \subseteq Alphabet
  BY DEF Alphabet
<1>2. Seq(Byte) \subseteq Seq(Alphabet)
  BY <1>1, SeqMonotonic
<1>3. ASSUME NEW o \in optionOver(Byte) PROVE o \in optionOver(Alphabet)
  <2> DEFINE S == Seq(Byte)
             T == Seq(Alphabet)
  <2>1. o \in [code : 0 .. Max16, value : [kind : {"int", "string"}, n : 0 .. Max32, s : S]]
    BY Zenon DEF optionOver
  <2> HIDE DEF S, T
  <2>2. o \in [code : 0 .. Max16, value : [kind : {"int", "string"}, n : 0 .. Max32, s : T]]
    BY <1>2, <2>1 DEF S, T
  <2> QED
    BY <2>2, Zenon DEF optionOver, T
<1>4. Seq(optionOver(Byte)) \subseteq Seq(optionOver(Alphabet))
  BY <1>3, SeqMonotonic
<1>5. ASSUME NEW m \in messageOver(Byte) PROVE m \in messageOver(Alphabet)
  <2> DEFINE T1 == {t \in Seq(Byte) : Len(t) < 16}
             O1 == Seq(optionOver(Byte))
             P1 == Seq(Byte)
             T2 == {t \in Seq(Alphabet) : Len(t) < 16}
             O2 == Seq(optionOver(Alphabet))
             P2 == Seq(Alphabet)
  <2>1. m \in [type : 0 .. 3, code : Byte, id : 0 .. Max16, token : T1, options : O1, payload : P1]
    BY Zenon DEF messageOver
  <2>2. T1 \subseteq T2 /\ O1 \subseteq O2 /\ P1 \subseteq P2
    BY <1>2, <1>4
  <2> HIDE DEF T1, O1, P1, T2, O2, P2
  <2>3. m \in [type : 0 .. 3, code : Byte, id : 0 .. Max16, token : T2, options : O2, payload : P2]
    BY <2>1, <2>2
  <2> QED
    BY <2>3, Zenon DEF messageOver, T2, O2, P2
<1> QED
  BY <1>1, <1>5

(* But for the options.                                                    *)
sameFields(m, n) ==
    /\ m.type = n.type /\ m.code = n.code /\ m.id = n.id
    /\ m.token = n.token /\ m.payload = n.payload

(* What the receiver has of a message.                                     *)
LEMMA CarriedIs ==
    ASSUME NEW A, Byte \subseteq A, NEW m \in plainMessages(A)
    PROVE  /\ carried(m) \in plainMessages(A) /\ sameFields(carried(m), m)
           /\ codesOf(carried(m).options) = codesOf(m.options) \cap DecodedOptions
           /\ \A c \in DecodedOptions : GetOptions(carried(m).options, c) = GetOptions(m.options, c)
<1> DEFINE r == carried(m)
           os == m.options
           O == optionOver(A)
<1>1. m \in messageOver(A) /\ plainScheme(os)
  BY DEF plainMessages
<1>2. /\ r \in messageOver(A)
      /\ \A c \in DecodedOptions : GetOptions(r.options, c) = GetOptions(os, c)
  BY <1>1, CarriedKeeps
<1>3. sameFields(r, m)
  BY DEF carried, withParts, sameFields
<1>4. codesOf(r.options) = codesOf(os) \cap DecodedOptions
  <2> DEFINE given == schemeWritten(os)
             s == sorted(given)
  <2>1. os \in Seq(O)
    BY <1>1, MessageFields
  <2>2. given \in Seq(O) /\ codesOf(given) = codesOf(os)
    BY <2>1, SchemeWrittenKeeps
  <2>3. \A e \in O : e.code \in Nat
    BY Largest DEF optionOver
  <2>4. r.options = withCodes(s, DecodedOptions)
    BY DEF carried, withParts
  <2> HIDE DEF given, O
  <2>5. s \in Seq(O) /\ codesOf(s) = codesOf(given)
    BY <2>2, <2>3, SortedKeeps DEF sameOptions
  <2> HIDE DEF s
  <2>6. codesOf(withCodes(s, DecodedOptions)) = codesOf(s) \cap DecodedOptions
    BY <2>5, CodesOfWith
  <2> QED
    BY <2>2, <2>4, <2>5, <2>6
<1> HIDE DEF r
<1>5. plainScheme(r.options)
  BY <1>1, <1>2, CodeFacts DEF plainScheme
<1> QED
  BY <1>2, <1>3, <1>4, <1>5 DEF plainMessages, r

(* What Deserialize lets through is what was encoded.                      *)
LEMMA Decoded ==
    ASSUME NEW A, Byte \subseteq A, NEW m \in plainMessages(A),
           Deserialize(Serialize(m)).err = "none"
    PROVE  /\ Deserialize(Serialize(m)).msg \in plainMessages(A)
           /\ agrees(Deserialize(Serialize(m)).msg, m)
<1> DEFINE d == deserialize(Serialize(m))
           c == carried(m)
<1>0. m \in messageOver(A)
  BY DEF plainMessages
<1>1. Deserialize(Serialize(m)) =
        IF d.err = "none" /\ ~verifyChecksum(d.msg) THEN refused("ErrChecksumMismatch") ELSE d
  BY Zenon DEF Deserialize
<1>2. refused("ErrChecksumMismatch").err = "ErrChecksumMismatch"
  BY DEF refused
<1>3. d.err # "none" \/ d = accepted(c)
  <2>1. d = outcome(m)
    BY <1>0, RoundTrip
  <2>2. notUnderstood.err # "none" /\ refused("invalid").err # "none"
    BY DEF notUnderstood, refused
  <2> QED
    BY <2>1, <2>2, Zenon DEF outcome
<1> HIDE DEF d
<1>4. d.err = "none" /\ Deserialize(Serialize(m)) = d
  <2>1. CASE d.err = "none" /\ ~verifyChecksum(d.msg)
    BY <1>1, <1>2, <2>1
  <2>2. CASE ~(d.err = "none" /\ ~verifyChecksum(d.msg))
    BY <1>1, <2>2
  <2> QED
    BY <2>1, <2>2
<1>5. Deserialize(Serialize(m)).msg = c
  BY <1>3, <1>4 DEF accepted
<1> HIDE DEF c
<1>6. /\ c \in plainMessages(A) /\ sameFields(c, m)
      /\ \A x \in DecodedOptions : GetOptions(c.options, x) = GetOptions(m.options, x)
  BY CarriedIs DEF c
<1> QED
  BY <1>5, <1>6 DEF agrees, sameFields, Carried

(* A datagram is not empty, and over the alphabet.                         *)
LEMMA SerializeType ==
    ASSUME NEW A, Byte \subseteq A, NEW m \in messageOver(A)
    PROVE  Serialize(m) \in Seq(A) /\ Serialize(m) # <<>>
<1>1. PICK os, h, tmp : optionThen(A, Serialize(m), h, <<m.code>>, Be2(m.id), m.token, tmp)
  BY SerializeIs
<1> DEFINE s == Serialize(m)
           c == <<m.code>>
           id == Be2(m.id)
           token == m.token
<1>2. hasParts(A, s, h, c, id, token, tmp)
  BY <1>1, Slices
<1>3. /\ s \in Seq(A) /\ Len(s) = 1 + Len(c) + Len(id) + Len(token) + Len(tmp)
  BY <1>2, Zenon DEF hasParts
<1>4. c \in Seq(A) /\ id \in Seq(A) /\ token \in Seq(A) /\ tmp \in Seq(A)
  BY <1>1, Zenon DEF optionThen
<1> HIDE DEF s, c, id, token
<1>5. Len(c) \in Nat /\ Len(id) \in Nat /\ Len(token) \in Nat /\ Len(tmp) \in Nat
  BY <1>4, LenProperties
<1>6. s # <<>>
  BY <1>3, <1>5, EmptySeq
<1> QED
  BY <1>3, <1>6 DEF s

-----------------------------------------------------------------------------
(* When two messages have the same bytes.                                  *)

(* Serialize writes the options of each code in their order: it does not   *)
(* see in which order the codes were added.                                *)
LEMMA SameEncoding ==
    ASSUME NEW A, NEW m \in plainMessages(A), NEW n \in plainMessages(A), sameFields(m, n),
           sameOptions(m.options, n.options)
    PROVE  Serialize(m) = Serialize(n)
<1> DEFINE O == optionOver(A)
           a == sorted(schemeWritten(m.options))
           b == sorted(schemeWritten(n.options))
           previous(options, i) == IF i = 1 THEN 0 ELSE options[i - 1].code
           bytesOf(x, options) ==
              <<64 + 16 * x.type + (Len(x.token) % 16), x.code>> \o Be2(x.id) \o x.token
                \o FlattenSeq([i \in DOMAIN options |->
                       optionBytes(options[i].code - previous(options, i), valueToBytes(options[i].value))])
                \o (IF x.payload = <<>> THEN <<>> ELSE <<PayloadMarker>> \o x.payload)
<1>1. ASSUME NEW x \in plainMessages(A)
      PROVE  /\ sorted(schemeWritten(x.options)) \in Seq(O)
             /\ sameOptions(sorted(schemeWritten(x.options)), x.options)
             /\ ascending(sorted(schemeWritten(x.options)))
  <2> DEFINE os == x.options
             given == schemeWritten(os)
             s == sorted(given)
  <2>1. x \in messageOver(A) /\ plainScheme(os)
    BY DEF plainMessages
  <2>2. os \in Seq(O)
    BY <2>1, MessageFields
  <2> HIDE DEF os
  <2>3. given \in Seq(O) /\ codesOf(given) = codesOf(os)
    BY <2>2, SchemeWrittenKeeps
  <2>4. \A c : GetOptions(given, c) = GetOptions(os, c)
    BY <2>1, <2>2, SchemeWrittenSame
  <2>5. \A e \in O : e.code \in Nat
    BY Largest DEF optionOver
  <2> HIDE DEF given, O
  <2>6. s \in Seq(O) /\ sameOptions(s, given) /\ ascending(s)
    BY <2>3, <2>5, SortedKeeps
  <2> HIDE DEF s
  <2>7. sameOptions(s, os)
    BY <2>3, <2>4, <2>6, Zenon DEF sameOptions
  <2> QED
    BY <2>6, <2>7 DEF s, given, os, O
<1>2. a = b
  <2>1. \A e \in O : e.code \in Nat
    BY Largest DEF optionOver
  <2>2. /\ a \in Seq(O) /\ ascending(a) /\ sameOptions(a, m.options)
        /\ b \in Seq(O) /\ ascending(b) /\ sameOptions(b, n.options)
    BY <1>1
  <2> HIDE DEF O, a, b
  <2>3. sameOptions(a, b)
    BY <2>2, Zenon DEF sameOptions
  <2> QED
    BY <2>1, <2>2, <2>3, AscendingUnique
<1>3. Serialize(m) = bytesOf(m, a) /\ Serialize(n) = bytesOf(n, b)
  BY Zenon DEF Serialize
<1> HIDE DEF a, b
<1>4. bytesOf(m, a) = bytesOf(n, a)
  BY Zenon DEF sameFields
<1> HIDE DEF bytesOf
<1> QED
  BY <1>2, <1>3, <1>4

(* Options as they are written and a payload: a receiver understands them. *)
understood(A, os, payload) ==
    /\ os \in Seq(optionOver(A)) /\ ascending(os) /\ ~unreadable(os)
    /\ payload \in Seq(A)

(* Two lists of options, each with a payload, are written alike.           *)
sameBytes(A, s, p, t, q) ==
    understood(A, s, p) /\ understood(A, t, q) /\ restAt(s, p, 0) = restAt(t, q, 0)

(* The loop of a receiver that understands all options of two messages     *)
(* with the same bytes meets the same codes.                               *)
LEMMA SameTurns ==
    ASSUME NEW A, Byte \subseteq A, NEW s, NEW p, NEW t, NEW q, sameBytes(A, s, p, t, q), Len(s) <= Len(t)
    PROVE  codesOf(s) = codesOf(t)
<1> DEFINE m == NewMessage(0)
           x(k) == stateAt(s, p, m, k)
           y(k) == stateAt(t, q, m, k)
           S == {k \in 0 .. Len(s) : x(k) = y(k)}
<1>a. /\ s \in Seq(optionOver(A)) /\ ascending(s) /\ ~unreadable(s) /\ p \in Seq(A)
      /\ t \in Seq(optionOver(A)) /\ ascending(t) /\ ~unreadable(t) /\ q \in Seq(A)
      /\ restAt(s, p, 0) = restAt(t, q, 0)
  BY DEF understood, sameBytes
<1>0. Len(s) \in Nat /\ Len(t) \in Nat /\ DOMAIN s = 1 .. Len(s) /\ DOMAIN t = 1 .. Len(t)
  BY <1>a, LenProperties
<1>1. x(0) = y(0)
  <2>1. SubSeq(s, 1, 0) = <<>> /\ SubSeq(t, 1, 0) = <<>>
    BY <1>a, LastState
  <2>2. lastCode(s, 0) = lastCode(t, 0)
    BY DEF lastCode
  <2> QED
    BY <1>a, <2>1, <2>2, Zenon DEF stateAt
<1>2. ASSUME NEW k \in 0 .. (Len(s) - 1) PROVE turn(x(k)) = x(k + 1)
  <2>1. turnsTo(x(k), s[k + 1], x(k + 1))
    BY <1>a, OptionTurn
  <2>2. k + 1 \in 1 .. Len(s)
    BY <1>0
  <2>3. ~unread(s[k + 1])
    BY <1>a, <2>2 DEF unreadable
  <2> QED
    BY <2>1, <2>3, Zenon DEF turnsTo
<1>3. ASSUME NEW k \in 0 .. (Len(t) - 1) PROVE turn(y(k)) = y(k + 1)
  <2>1. turnsTo(y(k), t[k + 1], y(k + 1))
    BY <1>a, OptionTurn
  <2>2. k + 1 \in 1 .. Len(t)
    BY <1>0
  <2>3. ~unread(t[k + 1])
    BY <1>a, <2>2 DEF unreadable
  <2> QED
    BY <2>1, <2>3, Zenon DEF turnsTo
<1>4. \A k : /\ x(k).rest = restAt(s, p, k) /\ x(k).last = lastCode(s, k) /\ x(k).read.msg.payload = <<>>
             /\ y(k).rest = restAt(t, q, k) /\ y(k).last = lastCode(t, k) /\ y(k).read.msg.payload = <<>>
  BY Zenon DEF stateAt, reading, accepted, withParts
<1>5. /\ p # <<>> => turn(x(Len(s))).read.msg.payload = p
      /\ restAt(s, p, Len(s)) = payloadBytes(p)
  <2>1. turn(x(Len(s))).read = finalRead(s, p, m)
    BY <1>a, LastTurn
  <2>2. finalRead(s, p, m).msg.payload = p
    BY Zenon DEF finalRead, accepted, withParts
  <2> QED
    BY <1>a, <2>1, <2>2, LastState
<1>6. \A k \in 0 .. (Len(t) - 1) : restAt(t, q, k) # <<>>
  BY <1>a, RestShrinks
<1> HIDE DEF x, y
<1>7. \A k \in 0 .. Len(s) : k \in S
  <2>1. 0 \in S
    BY <1>0, <1>1
  <2>2. ASSUME NEW k \in 0 .. (Len(s) - 1), k \in S PROVE k + 1 \in S
    <3>1. k \in 0 .. (Len(t) - 1) /\ k + 1 \in 0 .. Len(s)
      BY <1>0
    <3> QED
      BY <1>2, <1>3, <2>2, <3>1
  <2> HIDE DEF S
  <2> QED
    BY <1>0, <2>1, <2>2, BoundedInduction
<1>8. Len(s) = Len(t)
  <2> DEFINE n == Len(s)
  <2>a. n < Len(t) \/ n = Len(t)
    <3>1. \A a, b \in Nat : a <= b => a < b \/ a = b
      OBVIOUS
    <3> QED
      BY <1>0, <3>1, Zenon
  <2> SUFFICES ASSUME n < Len(t) PROVE FALSE
    BY <2>a
  <2>1. n \in 0 .. (Len(t) - 1) /\ n \in 0 .. n
    BY <1>0
  <2> HIDE DEF n
  <2>2. x(n) = y(n) /\ y(n).rest # <<>>
    BY <1>4, <1>6, <1>7, <2>1 DEF n
  <2>3. payloadBytes(p) # <<>>
    BY <1>4, <1>5, <2>2 DEF n
  <2>4. p # <<>>
    BY <2>3, Zenon DEF payloadBytes
  <2>5. turn(x(n)).read.msg.payload = p
    BY <1>5, <2>4 DEF n
  <2>6. turn(y(n)).read.msg.payload = <<>>
    BY <1>3, <1>4, <2>1
  <2> QED
    BY <2>2, <2>4, <2>5, <2>6
<1>9. ASSUME NEW i \in 1 .. Len(s) PROVE s[i].code = t[i].code
  <2>1. i \in 0 .. Len(s) /\ i # 0
    BY <1>0
  <2>2. lastCode(s, i) = lastCode(t, i)
    BY <1>4, <1>7, <2>1
  <2> QED
    BY <2>1, <2>2, Zenon DEF lastCode
<1> QED
  BY <1>0, <1>8, <1>9 DEF codesOf

(* So the bytes of a message tell the codes of its options, unknown ones   *)
(* too.                                                                    *)
LEMMA BytesTellCodes ==
    ASSUME NEW A, Byte \subseteq A, NEW m \in messageOver(A), NEW n \in messageOver(A),
           Len(m.token) = Len(n.token), Serialize(m) = Serialize(n),
           \A c \in codesOf(m.options) \cup codesOf(n.options) : critical(c) => c \in DecodedOptions
    PROVE  codesOf(m.options) = codesOf(n.options)
<1> DEFINE known(k) == \A c \in codesOf(k.options) : critical(c) => c \in DecodedOptions
<1>0. ASSUME NEW k \in messageOver(A), known(k)
      PROVE  \E os \in Seq(optionOver(A)) :
                /\ understood(A, os, k.payload) /\ codesOf(os) = codesOf(k.options)
                /\ restAt(os, k.payload, 0)
                     = SubSeq(Serialize(k), 4 + Len(k.token) + 1, Len(Serialize(k)))
  <2>1. PICK os, h, tmp :
            /\ os = sorted(schemeWritten(k.options))
            /\ os \in Seq(optionOver(A)) /\ ascending(os)
            /\ h = 64 + 16 * k.type + (Len(k.token) % 16)
            /\ joins(tmp, FlattenSeq(pieces(os)), payloadBytes(k.payload))
            /\ optionThen(A, Serialize(k), h, <<k.code>>, Be2(k.id), k.token, tmp)
    BY SerializeIs
  <2>2. k.options \in Seq(optionOver(A)) /\ k.payload \in Seq(A)
    BY DEF messageOver
  <2>3. ~unreadable(os)
    <3>1. unreadable(sorted(schemeWritten(k.options)))
            <=> \E c \in codesOf(k.options) : c \notin DecodedOptions /\ critical(c)
      BY <2>2, OptionsWritten
    <3> QED
      BY <1>0, <2>1, <3>1
  <2>4. codesOf(os) = codesOf(k.options)
    <3> DEFINE O == optionOver(A)
               given == schemeWritten(k.options)
    <3>1. given \in Seq(O) /\ codesOf(given) = codesOf(k.options)
      BY <2>2, SchemeWrittenKeeps
    <3>2. \A e \in O : e.code \in Nat
      BY Largest DEF optionOver
    <3> HIDE DEF O, given
    <3>3. codesOf(sorted(given)) = codesOf(given)
      BY <3>1, <3>2, SortedKeeps DEF sameOptions
    <3> QED
      BY <2>1, <3>1, <3>3 DEF given
  <2>5. hasHeader(Serialize(k), h, <<k.code>>, Be2(k.id), k.token, tmp)
    <3> DEFINE c == <<k.code>>
               id == Be2(k.id)
    <3>1. Len(c) = 1 /\ Len(id) = 2
      BY DEF Be2
    <3> HIDE DEF c, id
    <3>2. optionThen(A, Serialize(k), h, c, id, k.token, tmp)
      BY <2>1 DEF c, id
    <3>3. hasHeader(Serialize(k), h, c, id, k.token, tmp)
      BY <3>1, <3>2, FixedHeader
    <3> QED
      BY <3>3 DEF c, id
  <2>6. tmp = SubSeq(Serialize(k), 4 + Len(k.token) + 1, Len(Serialize(k)))
    BY <2>5, Zenon DEF hasHeader
  <2>7. restAt(os, k.payload, 0) = tmp
    <3>1. restAt(os, k.payload, 0) = FlattenSeq(pieces(os)) \o payloadBytes(k.payload)
      BY <2>1, <2>2, LastState
    <3> QED
      BY <2>1, <3>1, Zenon DEF joins
  <2> QED
    BY <2>1, <2>2, <2>3, <2>4, <2>6, <2>7 DEF understood
<1>1. known(m) /\ known(n)
  OBVIOUS
<1> HIDE DEF known
<1>2. PICK a \in Seq(optionOver(A)) :
              /\ understood(A, a, m.payload) /\ codesOf(a) = codesOf(m.options)
              /\ restAt(a, m.payload, 0) = SubSeq(Serialize(m), 4 + Len(m.token) + 1, Len(Serialize(m)))
  BY <1>0, <1>1
<1>3. PICK b \in Seq(optionOver(A)) :
              /\ understood(A, b, n.payload) /\ codesOf(b) = codesOf(n.options)
              /\ restAt(b, n.payload, 0) = SubSeq(Serialize(n), 4 + Len(n.token) + 1, Len(Serialize(n)))
  BY <1>0, <1>1
<1>4. restAt(a, m.payload, 0) = restAt(b, n.payload, 0)
  BY <1>2, <1>3, Zenon
<1>5. codesOf(a) = codesOf(b)
  <2>0. Len(a) \in Nat /\ Len(b) \in Nat
    BY <1>2, <1>3, LenProperties
  <2> DEFINE p == m.payload
             q == n.payload
  <2>a. sameBytes(A, a, p, b, q) /\ sameBytes(A, b, q, a, p)
    BY <1>2, <1>3, <1>4 DEF sameBytes
  <2> HIDE DEF p, q
  <2>1. Len(a) <= Len(b) => codesOf(a) = codesOf(b)
    BY <2>a, SameTurns
  <2>2. Len(b) <= Len(a) => codesOf(b) = codesOf(a)
    BY <2>a, SameTurns
  <2> QED
    BY <2>0, <2>1, <2>2
<1> QED
  BY <1>2, <1>3, <1>5

-----------------------------------------------------------------------------
(* Which messages a receiver refuses.                                      *)

(* An application has one option of each code that is not repeatable.      *)
single(os) == \A c : c \notin RepeatableOptions => Len(GetOptions(os, c)) <= 1

(* AddOption and RemoveOptions keep that,                                  *)
LEMMA SingleAdd ==
    ASSUME NEW O, NEW os \in Seq(O), single(os), NEW code, NEW value, NewOption(code, value) \in O
    PROVE  single(AddOption(os, code, value))
<1> DEFINE s == AddOption(os, code, value)
           o == NewOption(code, value)
<1>1. /\ \A c : c # code => GetOptions(s, c) = GetOptions(os, c)
      /\ code \notin RepeatableOptions => GetOptions(s, code) = <<o>>
  BY AddKeeps
<1>2. Len(<<o>>) <= 1
  OBVIOUS
<1> HIDE DEF s, o
<1>3. single(s)
  BY <1>1, <1>2 DEF single
<1> QED
  BY <1>3 DEF s

LEMMA SingleRemove ==
    ASSUME NEW O, NEW os \in Seq(O), single(os), NEW code
    PROVE  single(RemoveOptions(os, code))
<1> DEFINE s == RemoveOptions(os, code)
<1>1. GetOptions(s, code) = <<>> /\ \A d : d # code => GetOptions(s, d) = GetOptions(os, d)
  BY GetAfterRemove
<1>2. Len(<<>>) <= 1
  OBVIOUS
<1> HIDE DEF s
<1>3. single(s)
  BY <1>1, <1>2 DEF single
<1> QED
  BY <1>3 DEF s

(* validateMessage has nothing against it but a long token.                *)
LEMMA ValidWhenSingle ==
    ASSUME NEW A, Byte \subseteq A, NEW m \in plainMessages(A), single(m.options)
    PROVE  validateMessage(carried(m)) <=> Len(m.token) <= 8
<1> DEFINE r == carried(m)
           w == r.options
<1>1. /\ r \in plainMessages(A) /\ r.token = m.token
      /\ codesOf(w) = codesOf(m.options) \cap DecodedOptions
      /\ \A c \in DecodedOptions : GetOptions(w, c) = GetOptions(m.options, c)
  BY CarriedIs DEF sameFields
<1>2. w \in Seq(optionOver(A))
  <2>1. r \in messageOver(A)
    BY <1>1 DEF plainMessages
  <2> HIDE DEF r
  <2> QED
    BY <2>1, MessageFields
<1> HIDE DEF w
<1>3. ASSUME NEW i \in DOMAIN w, NEW j \in DOMAIN w, i # j, w[i].code = w[j].code
      PROVE  w[i].code \in RepeatableOptions
  <2> DEFINE c == w[i].code
             O == optionOver(A)
  <2>1. DOMAIN w = 1 .. Len(w)
    BY <1>2, LenProperties
  <2>2. Len(GetOptions(w, c)) >= 2
    <3> HIDE DEF O
    <3>1. w \in Seq(O)
      BY <1>2 DEF O
    <3> QED
      BY <1>3, <2>1, <3>1, TwoOfOne
  <2>3. c \in DecodedOptions
    BY <1>1 DEF codesOf
  <2>4. GetOptions(w, c) = GetOptions(m.options, c)
    BY <1>1, <2>3
  <2>5. Len(GetOptions(w, c)) \in Nat
    <3>1. GetOptions(w, c) \in Seq(O)
      BY <1>2, WithCodesType DEF GetOptions
    <3> QED
      BY <3>1, LenProperties
  <2> HIDE DEF c
  <2>6. ~(Len(GetOptions(m.options, c)) <= 1)
    BY <2>2, <2>4, <2>5
  <2>7. c \in RepeatableOptions
    BY <2>6 DEF single
  <2> QED
    BY <2>7 DEF c
<1>4. validateMessage(r) <=> Len(m.token) <= 8
  BY <1>1, <1>3, Zenon DEF validateMessage, w
<1> QED
  BY <1>4

(* So a receiver accepts a message for three reasons.                      *)
understoodCodes(m) == \A c \in codesOf(m.options) : critical(c) => c \in DecodedOptions

acceptable(m) == understoodCodes(m) /\ Len(m.token) <= 8 /\ verifyChecksum(carried(m))

LEMMA Decision ==
    ASSUME NEW A, Byte \subseteq A, NEW m \in plainMessages(A), single(m.options)
    PROVE  /\ Deserialize(Serialize(m)).err = "none" <=> acceptable(m)
           /\ acceptable(m) => Deserialize(Serialize(m)).msg = carried(m)
<1> DEFINE d == deserialize(Serialize(m))
           D == Deserialize(Serialize(m))
           r == carried(m)
<1>1. m \in messageOver(A)
  BY DEF plainMessages
<1>2. d = outcome(m)
  BY <1>1, RoundTrip
<1>3. D = IF d.err = "none" /\ ~verifyChecksum(d.msg) THEN refused("ErrChecksumMismatch") ELSE d
  BY Zenon DEF Deserialize
<1>4. /\ refused("ErrChecksumMismatch").err # "none" /\ refused("invalid").err # "none"
      /\ notUnderstood.err # "none"
  BY DEF refused, notUnderstood
<1>5. accepted(r).err = "none" /\ accepted(r).msg = r
  BY DEF accepted
<1>6. validateMessage(r) <=> Len(m.token) <= 8
  BY ValidWhenSingle
<1> HIDE DEF d, D, r
<1>7. outcome(m) = IF ~understoodCodes(m) THEN notUnderstood
                   ELSE IF ~validateMessage(r) THEN refused("invalid") ELSE accepted(r)
  BY Zenon DEF outcome, understoodCodes, r
<1>8. CASE ~understoodCodes(m)
  <2>1. d = notUnderstood
    BY <1>2, <1>7, <1>8
  <2>2. D = d
    BY <1>3, <1>4, <2>1
  <2> QED
    BY <1>4, <1>8, <2>1, <2>2 DEF acceptable, D
<1>9. CASE understoodCodes(m) /\ ~validateMessage(r)
  <2>1. d = refused("invalid")
    BY <1>2, <1>7, <1>9
  <2>2. D = d
    BY <1>3, <1>4, <2>1
  <2> QED
    BY <1>4, <1>6, <1>9, <2>1, <2>2 DEF acceptable, D
<1>10. CASE understoodCodes(m) /\ validateMessage(r)
  <2>1. d = accepted(r)
    BY <1>2, <1>7, <1>10
  <2>2. D = IF ~verifyChecksum(r) THEN refused("ErrChecksumMismatch") ELSE d
    BY <1>3, <1>5, <2>1
  <2>3. CASE verifyChecksum(r)
    <3>1. D = accepted(r)
      BY <2>1, <2>2, <2>3
    <3> QED
      BY <1>5, <1>6, <1>10, <2>3, <3>1 DEF acceptable, D, r
  <2>4. CASE ~verifyChecksum(r)
    <3>1. D = refused("ErrChecksumMismatch")
      BY <2>2, <2>4
    <3> QED
      BY <1>4, <2>4, <3>1 DEF acceptable, D, r
  <2> QED
    BY <2>3, <2>4
<1> QED
  BY <1>8, <1>9, <1>10

-----------------------------------------------------------------------------
(* The checksum.                                                           *)

(* It is that of these bytes.                                              *)
checksumOf(bytes) == <<NewOption(Checksum, string(crc32(bytes)))>>

(* It tells whether they are the receiver's.                               *)
LEMMA ChecksumCompared ==
    ASSUME NEW r, NEW bytes
    PROVE  /\ Checksum \notin codesOf(r.options) => verifyChecksum(r)
           /\ Checksum \in codesOf(r.options) /\ GetOptions(r.options, Checksum) = checksumOf(bytes)
                 => (verifyChecksum(r) <=> bytes = Serialize(cloneForChecksum(r)))
<1> DEFINE other == Serialize(cloneForChecksum(r))
<1>1. verifyChecksum(r) <=> (Checksum \in codesOf(r.options) =>
                                GetOptions(r.options, Checksum)[1].value.s = crc32(other))
  BY Zenon DEF verifyChecksum, HasOption, calculateChecksum
<1> HIDE DEF other
<1>2. checksumOf(bytes)[1].value.s = crc32(bytes)
  BY DEF checksumOf, NewOption, string
<1>3. crc32(bytes) = crc32(other) <=> bytes = other
  <2>1. crc32(bytes)[1] = bytes /\ crc32(other)[1] = other
    BY DEF crc32
  <2> QED
    BY <2>1
<1> QED
  BY <1>1, <1>2, <1>3 DEF other

(* The message that a checksum is computed over has one option less.       *)
LEMMA CloneIs ==
    ASSUME NEW A, NEW m \in plainMessages(A)
    PROVE  /\ cloneForChecksum(m) \in plainMessages(A) /\ sameFields(cloneForChecksum(m), m)
           /\ codesOf(cloneForChecksum(m).options) = codesOf(m.options) \ {Checksum}
           /\ \A c : c # Checksum => GetOptions(cloneForChecksum(m).options, c) = GetOptions(m.options, c)
<1> DEFINE os == m.options
           s == RemoveOptions(os, Checksum)
           n == [m EXCEPT !.options = s]
<1>1. cloneForChecksum(m) = n
  BY DEF cloneForChecksum
<1>2. m \in messageOver(A) /\ plainScheme(os)
  BY DEF plainMessages
<1>3. os \in Seq(optionOver(A))
  BY <1>2, MessageFields
<1> HIDE DEF os
<1>4. /\ s \in Seq(optionOver(A)) /\ codesOf(s) = codesOf(os) \ {Checksum}
      /\ \A c : c # Checksum => GetOptions(s, c) = GetOptions(os, c)
  BY <1>3, GetAfterRemove
<1> HIDE DEF s
<1>5. plainScheme(s)
  BY <1>2, <1>4, CodeFacts DEF plainScheme
<1>6. /\ n \in messageOver(A) /\ n.options = s /\ n.type = m.type /\ n.code = m.code /\ n.id = m.id
      /\ n.token = m.token /\ n.payload = m.payload
  BY <1>2, <1>4, MessageFields
<1> HIDE DEF n
<1>7. n \in plainMessages(A) /\ sameFields(n, m)
  BY <1>5, <1>6 DEF plainMessages, sameFields
<1> QED
  BY <1>1, <1>4, <1>6, <1>7 DEF os

(* Of the options of a message that arrives, those are decoded that the    *)
(* checksum is about.                                                      *)
compared(n) == (codesOf(n.options) \cap DecodedOptions) \ {Checksum}

(* n is what is sent of b, with b's checksum.                              *)
signedFor(n, b) ==
    /\ sameFields(n, b) /\ Checksum \in codesOf(n.options) /\ Checksum \notin codesOf(b.options)
    /\ GetOptions(n.options, Checksum) = checksumOf(Serialize(b))
    /\ \A c \in compared(n) : GetOptions(n.options, c) = GetOptions(b.options, c)

(* The receiver finds it right if it decodes all that was there when it    *)
(* was computed.                                                           *)
LEMMA ChecksumRight ==
    ASSUME NEW n \in plainMessages(Alphabet), NEW b \in plainMessages(Byte), signedFor(n, b),
           understoodCodes(b)
    PROVE  verifyChecksum(carried(n)) <=> codesOf(b.options) = compared(n)
<1> DEFINE r == carried(n)
           v == cloneForChecksum(r)
<1>0. Checksum \in DecodedOptions
  BY DEF DecodedOptions, StringOptions
<1>1. /\ r \in plainMessages(Alphabet) /\ sameFields(r, n)
      /\ codesOf(r.options) = codesOf(n.options) \cap DecodedOptions
      /\ \A c \in DecodedOptions : GetOptions(r.options, c) = GetOptions(n.options, c)
  BY WiderAlphabet, CarriedIs
<1> HIDE DEF r
<1>2. /\ v \in plainMessages(Alphabet) /\ sameFields(v, r)
      /\ codesOf(v.options) = codesOf(r.options) \ {Checksum}
      /\ \A c : c # Checksum => GetOptions(v.options, c) = GetOptions(r.options, c)
  BY <1>1, CloneIs
<1>3. verifyChecksum(r) <=> Serialize(b) = Serialize(v)
  <2>1. Checksum \in codesOf(r.options) /\ GetOptions(r.options, Checksum) = checksumOf(Serialize(b))
    BY <1>0, <1>1 DEF signedFor
  <2> QED
    BY <2>1, ChecksumCompared
<1> HIDE DEF v
<1>4. codesOf(v.options) = compared(n)
  BY <1>1, <1>2 DEF compared
<1>5. sameFields(b, v)
  BY <1>1, <1>2 DEF sameFields, signedFor
<1>6. b \in messageOver(Byte) /\ plainScheme(b.options) /\ v \in messageOver(Alphabet)
  BY <1>2 DEF plainMessages
<1>7. b \in plainMessages(Alphabet) /\ b \in messageOver(Alphabet)
  BY <1>6, WiderAlphabet DEF plainMessages
<1>8. ASSUME Serialize(b) = Serialize(v) PROVE codesOf(b.options) = codesOf(v.options)
  <2>1. \A c \in codesOf(b.options) \cup codesOf(v.options) : critical(c) => c \in DecodedOptions
    BY <1>4 DEF understoodCodes, compared
  <2>2. Len(b.token) = Len(v.token)
    BY <1>5 DEF sameFields
  <2> QED
    BY <1>6, <1>7, <1>8, <2>1, <2>2, WiderAlphabet, BytesTellCodes
<1>9. ASSUME codesOf(b.options) = codesOf(v.options) PROVE Serialize(b) = Serialize(v)
  <2>1. \A c \in codesOf(v.options) : GetOptions(b.options, c) = GetOptions(v.options, c)
    BY <1>1, <1>2, <1>4 DEF signedFor, compared
  <2>2. b.options \in Seq(optionOver(Alphabet)) /\ v.options \in Seq(optionOver(Alphabet))
    BY <1>6, <1>7, MessageFields
  <2>3. \A c : c \notin codesOf(v.options) => GetOptions(b.options, c) = GetOptions(v.options, c)
    BY <1>9, <2>2, NoneWithCode
  <2>4. sameOptions(b.options, v.options)
    BY <1>9, <2>1, <2>3 DEF sameOptions
  <2> QED
    BY <1>2, <1>5, <1>7, <2>4, SameEncoding
<1> QED
  BY <1>3, <1>4, <1>8, <1>9 DEF r

(* The digits of a checksum are bytes of the alphabet.                     *)
LEMMA ChecksumOption ==
    ASSUME NEW bytes \in Seq(Byte)
    PROVE  NewOption(Checksum, string(crc32(bytes))) \in optionOver(Alphabet)
<1> DEFINE crc == crc32(bytes)
<1>1. bytes \in Alphabet
  BY DEF Alphabet
<1>2. crc = [digit \in 1 .. 8 |-> bytes]
  BY Zenon DEF crc32
<1> HIDE DEF crc
<1>3. crc \in Seq(Alphabet) /\ Len(crc) = 8
  BY <1>1, <1>2
<1>4. 8 <= Max16
  BY SMT DEF Max16
<1>5. NewOption(Checksum, string(crc)) \in optionOver(Alphabet)
  BY <1>3, <1>4, CodeFacts, OptionsMade
<1> QED
  BY <1>5 DEF crc

(* What the transport sends of a message that it adds a checksum to.       *)
LEMMA ChecksumAdded ==
    ASSUME NEW m \in plainMessages(Byte)
    PROVE  \E b \in plainMessages(Byte) :
              /\ sameFields(b, m)
              /\ codesOf(b.options) = codesOf(m.options) \ {Checksum}
              /\ \A c : c # Checksum => GetOptions(b.options, c) = GetOptions(m.options, c)
              /\ applyChecksum(m) \in plainMessages(Alphabet) /\ sameFields(applyChecksum(m), m)
              /\ codesOf(applyChecksum(m).options) = codesOf(m.options) \cup {Checksum}
              /\ GetOptions(applyChecksum(m).options, Checksum) = checksumOf(Serialize(b))
              /\ \A c : c # Checksum => GetOptions(applyChecksum(m).options, c) = GetOptions(m.options, c)
<1> DEFINE bare == cloneForChecksum(m)
           b == cloneForChecksum(bare)
           none == bare.options
           crc == crc32(Serialize(b))
           new == AddOption(none, Checksum, string(crc))
           s == [bare EXCEPT !.options = new]
<1>1. /\ bare \in plainMessages(Byte) /\ sameFields(bare, m)
      /\ codesOf(none) = codesOf(m.options) \ {Checksum}
      /\ \A c : c # Checksum => GetOptions(none, c) = GetOptions(m.options, c)
  BY CloneIs
<1>2. applyChecksum(m) = s
  BY Zenon DEF applyChecksum, calculateChecksum, cloneForChecksum
<1> HIDE DEF bare
<1>3. /\ b \in plainMessages(Byte) /\ sameFields(b, bare)
      /\ codesOf(b.options) = codesOf(none) \ {Checksum}
      /\ \A c : c # Checksum => GetOptions(b.options, c) = GetOptions(none, c)
  BY <1>1, CloneIs
<1> HIDE DEF b
<1>4. bare \in messageOver(Byte) /\ bare \in messageOver(Alphabet) /\ plainScheme(none)
  BY <1>1, WiderAlphabet DEF plainMessages
<1>5. none \in Seq(optionOver(Alphabet))
  BY <1>4, MessageFields
<1>6. Serialize(b) \in Seq(Byte)
  <2>1. b \in messageOver(Byte)
    BY <1>3 DEF plainMessages
  <2> QED
    BY <2>1, SerializeType
<1>7. NewOption(Checksum, string(crc)) \in optionOver(Alphabet)
  BY <1>6, ChecksumOption
<1> HIDE DEF none, crc
<1>8. Checksum \notin RepeatableOptions
  BY SMT DEF Checksum, RepeatableOptions, IfMatch, Etag, LocationPath, URIPath, URIQuery, LocationQuery
<1>9. /\ new \in Seq(optionOver(Alphabet)) /\ codesOf(new) = codesOf(none) \cup {Checksum}
      /\ \A c : c # Checksum => GetOptions(new, c) = GetOptions(none, c)
      /\ GetOptions(new, Checksum) = <<NewOption(Checksum, string(crc))>>
  BY <1>5, <1>7, <1>8, AddKeeps
<1> HIDE DEF new
<1>10. plainScheme(new)
  BY <1>4, <1>9, CodeFacts DEF plainScheme
<1>11. /\ s \in messageOver(Alphabet) /\ s.options = new
       /\ s.type = bare.type /\ s.code = bare.code /\ s.id = bare.id
       /\ s.token = bare.token /\ s.payload = bare.payload
  BY <1>4, <1>9, MessageFields
<1> HIDE DEF s
<1>12. s \in plainMessages(Alphabet) /\ sameFields(s, m)
  BY <1>1, <1>10, <1>11 DEF plainMessages, sameFields
<1>13. /\ codesOf(s.options) = codesOf(m.options) \cup {Checksum}
       /\ GetOptions(s.options, Checksum) = checksumOf(Serialize(b))
       /\ \A c : c # Checksum => GetOptions(s.options, c) = GetOptions(m.options, c)
  BY <1>1, <1>9, <1>11 DEF checksumOf, crc
<1>14. /\ sameFields(b, m) /\ codesOf(b.options) = codesOf(m.options) \ {Checksum}
       /\ \A c : c # Checksum => GetOptions(b.options, c) = GetOptions(m.options, c)
  BY <1>1, <1>3 DEF sameFields
<1> QED
  BY <1>2, <1>3, <1>12, <1>13, <1>14

(* What a proxy sends on.                                                  *)
LEMMA RelayedIs ==
    ASSUME NEW A, NEW m \in plainMessages(A)
    PROVE  \E n \in plainMessages(A) :
              /\ relayed(m) = Serialize(n) /\ sameFields(n, m)
              /\ codesOf(n.options) = codesOf(m.options) \ {ProxyURI, ProxyScheme}
              /\ \A c : c \notin {ProxyURI, ProxyScheme} => GetOptions(n.options, c) = GetOptions(m.options, c)
              /\ single(m.options) => single(n.options)
<1> DEFINE O == optionOver(A)
           os == m.options
           one == RemoveOptions(os, ProxyScheme)
           two == RemoveOptions(one, ProxyURI)
           n == [m EXCEPT !.options = two]
<1>1. m \in messageOver(A) /\ plainScheme(os)
  BY DEF plainMessages
<1>2. os \in Seq(O)
  BY <1>1, MessageFields
<1>3. relayed(m) = Serialize(n)
  BY Zenon DEF relayed
<1> HIDE DEF os
<1>4. /\ one \in Seq(O) /\ codesOf(one) = codesOf(os) \ {ProxyScheme}
      /\ \A c : c # ProxyScheme => GetOptions(one, c) = GetOptions(os, c)
      /\ single(os) => single(one)
  BY <1>2, GetAfterRemove, SingleRemove
<1> HIDE DEF one
<1>5. /\ two \in Seq(O) /\ codesOf(two) = codesOf(one) \ {ProxyURI}
      /\ \A c : c # ProxyURI => GetOptions(two, c) = GetOptions(one, c)
      /\ single(one) => single(two)
  BY <1>4, GetAfterRemove, SingleRemove
<1> HIDE DEF two
<1>6. plainScheme(two)
  BY <1>1, <1>4, <1>5, CodeFacts DEF plainScheme
<1>7. /\ n \in messageOver(A) /\ n.options = two /\ n.type = m.type /\ n.code = m.code /\ n.id = m.id
      /\ n.token = m.token /\ n.payload = m.payload
  BY <1>1, <1>5, MessageFields
<1> HIDE DEF n
<1>8. n \in plainMessages(A) /\ sameFields(n, m)
  BY <1>6, <1>7 DEF plainMessages, sameFields
<1>9. /\ codesOf(n.options) = codesOf(os) \ {ProxyURI, ProxyScheme}
      /\ \A c : c \notin {ProxyURI, ProxyScheme} => GetOptions(n.options, c) = GetOptions(os, c)
      /\ single(os) => single(n.options)
  BY <1>4, <1>5, <1>7
<1> QED
  BY <1>3, <1>8, <1>9 DEF os

(* With a checksum, or without a proxy's options, it agrees with the one   *)
(* that was built.                                                         *)
LEMMA ChecksumKeeps ==
    ASSUME NEW m \in plainMessages(Byte)
    PROVE  applyChecksum(m) \in plainMessages(Alphabet) /\ agrees(applyChecksum(m), m)
<1>1. /\ applyChecksum(m) \in plainMessages(Alphabet) /\ sameFields(applyChecksum(m), m)
      /\ \A c : c # Checksum => GetOptions(applyChecksum(m).options, c) = GetOptions(m.options, c)
  BY ChecksumAdded
<1> QED
  BY <1>1 DEF agrees, sameFields, Carried

LEMMA RelayedKeeps ==
    ASSUME NEW A, NEW m \in plainMessages(A)
    PROVE  \E n \in plainMessages(A) : relayed(m) = Serialize(n) /\ agrees(n, m)
<1>1. PICK n \in plainMessages(A) :
              /\ relayed(m) = Serialize(n) /\ sameFields(n, m)
              /\ \A c : c \notin {ProxyURI, ProxyScheme} => GetOptions(n.options, c) = GetOptions(m.options, c)
  BY RelayedIs
<1>2. agrees(n, m)
  BY <1>1 DEF agrees, sameFields, Carried
<1> QED
  BY <1>1, <1>2

-----------------------------------------------------------------------------
(* What is sent of a message,                                              *)
sentOf(m, withChecksum) == IF withChecksum THEN applyChecksum(m) ELSE m

(* of one that the application builds: the checksum is not its own.        *)
ownMessages ==
    {m \in plainMessages(Byte) : single(m.options) /\ Checksum \notin codesOf(m.options)}

(* It can be read by whoever it is sent to, unless there is a reason.      *)
readable(m, withChecksum) ==
    /\ understoodCodes(m) /\ Len(m.token) <= 8
    /\ withChecksum => codesOf(m.options) \subseteq DecodedOptions

(* s has the checksum of b, which is m but for how its options are listed. *)
hasChecksumOf(s, b, m) ==
    /\ sameFields(b, m) /\ codesOf(b.options) = codesOf(m.options)
    /\ \A c : c # Checksum => GetOptions(b.options, c) = GetOptions(m.options, c)
    /\ Checksum \in codesOf(s.options)
    /\ GetOptions(s.options, Checksum) = checksumOf(Serialize(b))

LEMMA SentIs ==
    ASSUME NEW m \in ownMessages, NEW withChecksum
    PROVE  /\ sentOf(m, withChecksum) \in plainMessages(Alphabet)
           /\ single(sentOf(m, withChecksum).options)
           /\ sameFields(sentOf(m, withChecksum), m)
           /\ codesOf(sentOf(m, withChecksum).options) \ {Checksum} = codesOf(m.options)
           /\ \A c : c # Checksum =>
                 GetOptions(sentOf(m, withChecksum).options, c) = GetOptions(m.options, c)
           /\ ~withChecksum => Checksum \notin codesOf(sentOf(m, withChecksum).options)
           /\ withChecksum => \E b \in plainMessages(Byte) : hasChecksumOf(sentOf(m, withChecksum), b, m)
<1> DEFINE s == sentOf(m, withChecksum)
           os == m.options
<1>1. m \in plainMessages(Byte) /\ single(os) /\ Checksum \notin codesOf(os)
  BY DEF ownMessages
<1>2. CASE ~withChecksum
  <2>1. s = m
    BY <1>2 DEF sentOf
  <2>2. m \in plainMessages(Alphabet)
    BY <1>1, WiderAlphabet DEF plainMessages
  <2>3. sameFields(m, m)
    BY DEF sameFields
  <2>4. codesOf(os) \ {Checksum} = codesOf(os)
    BY <1>1
  <2> QED
    BY <1>1, <1>2, <2>1, <2>2, <2>3, <2>4
<1>3. CASE withChecksum
  <2>1. s = applyChecksum(m)
    BY <1>3 DEF sentOf
  <2>2. PICK b \in plainMessages(Byte) :
              /\ sameFields(b, m)
              /\ codesOf(b.options) = codesOf(os) \ {Checksum}
              /\ \A c : c # Checksum => GetOptions(b.options, c) = GetOptions(os, c)
              /\ s \in plainMessages(Alphabet) /\ sameFields(s, m)
              /\ codesOf(s.options) = codesOf(os) \cup {Checksum}
              /\ GetOptions(s.options, Checksum) = checksumOf(Serialize(b))
              /\ \A c : c # Checksum => GetOptions(s.options, c) = GetOptions(os, c)
    <3> HIDE DEF s
    <3> QED
      BY <1>1, <2>1, ChecksumAdded
  <2> HIDE DEF s, os
  <2>3. codesOf(os) \ {Checksum} = codesOf(os) /\ (codesOf(os) \cup {Checksum}) \ {Checksum} = codesOf(os)
    BY <1>1
  <2>4. single(s.options)
    <3>1. Len(checksumOf(Serialize(b))) <= 1
      BY DEF checksumOf
    <3>2. ASSUME NEW c, c \notin RepeatableOptions PROVE Len(GetOptions(s.options, c)) <= 1
      <4>1. CASE c = Checksum
        BY <2>2, <3>1, <4>1
      <4>2. CASE c # Checksum
        <5>1. GetOptions(s.options, c) = GetOptions(os, c)
          BY <2>2, <4>2
        <5> QED
          BY <1>1, <3>2, <5>1 DEF single
      <4> QED
        BY <4>1, <4>2
    <3> QED
      BY <3>2 DEF single
  <2>5. s \in plainMessages(Alphabet) /\ sameFields(s, m) /\ codesOf(s.options) \ {Checksum} = codesOf(os)
    BY <2>2, <2>3
  <2>6. hasChecksumOf(s, b, m)
    BY <2>2, <2>3 DEF hasChecksumOf, os
  <2> QED
    BY <1>3, <2>2, <2>4, <2>5, <2>6 DEF s, os
<1> QED
  BY <1>2, <1>3

(* The first to read it.                                                   *)
LEMMA FirstReading ==
    ASSUME NEW m \in ownMessages, NEW withChecksum
    PROVE  LET first == Deserialize(Serialize(sentOf(m, withChecksum)))
           IN  /\ first.err = "none" <=> readable(m, withChecksum)
               /\ first.err = "none" => first.msg = carried(sentOf(m, withChecksum))
<1> DEFINE s == sentOf(m, withChecksum)
           r == carried(s)
<1>0. Checksum \in DecodedOptions
  BY DEF DecodedOptions, StringOptions
<1>1. /\ s \in plainMessages(Alphabet) /\ single(s.options) /\ sameFields(s, m)
      /\ codesOf(s.options) \ {Checksum} = codesOf(m.options)
      /\ \A c : c # Checksum => GetOptions(s.options, c) = GetOptions(m.options, c)
      /\ ~withChecksum => Checksum \notin codesOf(s.options)
  BY SentIs
<1>2. /\ Deserialize(Serialize(s)).err = "none" <=> acceptable(s)
      /\ acceptable(s) => Deserialize(Serialize(s)).msg = r
  <2> HIDE DEF s
  <2> QED
    BY <1>1, WiderAlphabet, Decision
<1>3. understoodCodes(s) <=> understoodCodes(m)
  BY <1>0, <1>1 DEF understoodCodes
<1>4. Len(s.token) = Len(m.token)
  BY <1>1 DEF sameFields
<1>5. ASSUME understoodCodes(m)
      PROVE  verifyChecksum(r) <=> (withChecksum => codesOf(m.options) \subseteq DecodedOptions)
  <2>1. CASE ~withChecksum
    <3>1. codesOf(r.options) = codesOf(s.options) \cap DecodedOptions
      <4> HIDE DEF s
      <4> QED
        BY <1>1, WiderAlphabet, CarriedIs
    <3>2. Checksum \notin codesOf(r.options)
      BY <1>1, <2>1, <3>1
    <3> QED
      BY <2>1, <3>2, ChecksumCompared
  <2>2. CASE withChecksum
    <3>0. PICK b \in plainMessages(Byte) : hasChecksumOf(s, b, m)
      BY <2>2, SentIs
    <3> HIDE DEF s
    <3>1. /\ sameFields(b, m) /\ codesOf(b.options) = codesOf(m.options)
          /\ \A c : c # Checksum => GetOptions(b.options, c) = GetOptions(m.options, c)
          /\ Checksum \in codesOf(s.options)
          /\ GetOptions(s.options, Checksum) = checksumOf(Serialize(b))
      BY <3>0, Zenon DEF hasChecksumOf
    <3>2. signedFor(s, b)
      <4>1. Checksum \notin codesOf(b.options)
        BY <3>1 DEF ownMessages
      <4>2. sameFields(s, b)
        BY <1>1, <3>1 DEF sameFields
      <4>3. \A c \in compared(s) : GetOptions(s.options, c) = GetOptions(b.options, c)
        BY <1>1, <3>1 DEF compared
      <4> QED
        BY <3>1, <4>1, <4>2, <4>3 DEF signedFor
    <3>3. understoodCodes(b)
      BY <1>5, <3>1 DEF understoodCodes
    <3>4. verifyChecksum(r) <=> codesOf(b.options) = compared(s)
      BY <1>1, <3>2, <3>3, ChecksumRight
    <3>5. compared(s) = codesOf(m.options) \cap DecodedOptions
      BY <1>1 DEF compared
    <3>6. codesOf(m.options) = codesOf(m.options) \cap DecodedOptions <=> codesOf(m.options) \subseteq DecodedOptions
      OBVIOUS
    <3> QED
      BY <2>2, <3>1, <3>4, <3>5, <3>6
  <2> QED
    BY <2>1, <2>2
<1>6. acceptable(s) <=> readable(m, withChecksum)
  BY <1>3, <1>4, <1>5 DEF acceptable, readable
<1> QED
  BY <1>2, <1>6

(* The receiver behind a proxy: the checksum was computed before the proxy *)
(* took its options out.                                                   *)
LEMMA SecondReading ==
    ASSUME NEW m \in ownMessages, NEW withChecksum, ProxyURI \in codesOf(m.options),
           readable(m, withChecksum)
    PROVE  LET onward == relayed(carried(sentOf(m, withChecksum)))
           IN  /\ onward # <<>>
               /\ Deserialize(onward).err = "none" <=> ~withChecksum
<1> DEFINE s == sentOf(m, withChecksum)
           r == carried(s)
<1>0. Checksum \in DecodedOptions /\ Checksum \notin {ProxyURI, ProxyScheme}
  <2>1. Checksum \in DecodedOptions
    BY DEF DecodedOptions, StringOptions
  <2>2. Checksum \notin {ProxyURI, ProxyScheme}
    BY SMT DEF Checksum, ProxyURI, ProxyScheme
  <2> QED
    BY <2>1, <2>2
<1>1. /\ s \in plainMessages(Alphabet) /\ single(s.options) /\ sameFields(s, m)
      /\ codesOf(s.options) \ {Checksum} = codesOf(m.options)
      /\ \A c : c # Checksum => GetOptions(s.options, c) = GetOptions(m.options, c)
      /\ ~withChecksum => Checksum \notin codesOf(s.options)
  BY SentIs
<1>2. /\ r \in plainMessages(Alphabet) /\ sameFields(r, s)
      /\ codesOf(r.options) = codesOf(s.options) \cap DecodedOptions
      /\ \A c \in DecodedOptions : GetOptions(r.options, c) = GetOptions(s.options, c)
  <2> HIDE DEF s
  <2> QED
    BY <1>1, WiderAlphabet, CarriedIs
<1>3. single(r.options)
  <2>1. ASSUME NEW c, c \notin RepeatableOptions PROVE Len(GetOptions(r.options, c)) <= 1
    <3> HIDE DEF s, r
    <3>1. CASE c \in DecodedOptions
      BY <1>1, <1>2, <2>1, <3>1 DEF single
    <3>2. CASE c \notin DecodedOptions
      <4>1. c \notin codesOf(r.options)
        BY <1>2, <3>2
      <4>2. r.options \in Seq(optionOver(Alphabet))
        BY <1>2, MessageFields DEF plainMessages
      <4>3. GetOptions(r.options, c) = <<>>
        BY <4>1, <4>2, NoneWithCode
      <4>4. Len(<<>>) <= 1
        OBVIOUS
      <4> QED
        BY <4>3, <4>4
    <3> QED
      BY <3>1, <3>2
  <2> QED
    BY <2>1 DEF single
<1> HIDE DEF r
<1>4. PICK n \in plainMessages(Alphabet) :
              /\ relayed(r) = Serialize(n) /\ sameFields(n, r)
              /\ codesOf(n.options) = codesOf(r.options) \ {ProxyURI, ProxyScheme}
              /\ \A c : c \notin {ProxyURI, ProxyScheme} => GetOptions(n.options, c) = GetOptions(r.options, c)
              /\ single(r.options) => single(n.options)
  BY <1>2, RelayedIs
<1>5. Deserialize(relayed(r)).err = "none" <=> acceptable(n)
  BY <1>3, <1>4, WiderAlphabet, Decision
<1>6. understoodCodes(n)
  BY <1>2, <1>4 DEF understoodCodes
<1>7. Len(n.token) <= 8
  BY <1>1, <1>2, <1>4 DEF sameFields, readable
<1>8. verifyChecksum(carried(n)) <=> ~withChecksum
  <2>1. CASE ~withChecksum
    <3>1. codesOf(carried(n).options) = codesOf(n.options) \cap DecodedOptions
      BY WiderAlphabet, CarriedIs
    <3>2. Checksum \notin codesOf(carried(n).options)
      BY <1>1, <1>2, <1>4, <2>1, <3>1
    <3> QED
      BY <2>1, <3>2, ChecksumCompared
  <2>2. CASE withChecksum
    <3>0. PICK b \in plainMessages(Byte) : hasChecksumOf(s, b, m)
      BY <2>2, SentIs
    <3> HIDE DEF s
    <3>1. /\ sameFields(b, m) /\ codesOf(b.options) = codesOf(m.options)
          /\ \A c : c # Checksum => GetOptions(b.options, c) = GetOptions(m.options, c)
          /\ Checksum \in codesOf(s.options)
          /\ GetOptions(s.options, Checksum) = checksumOf(Serialize(b))
      BY <3>0, Zenon DEF hasChecksumOf
    <3>2. signedFor(n, b)
      <4>1. Checksum \notin codesOf(b.options)
        BY <3>1 DEF ownMessages
      <4>2. sameFields(n, b)
        BY <1>1, <1>2, <1>4, <3>1 DEF sameFields
      <4>3. \A c \in compared(n) : GetOptions(n.options, c) = GetOptions(b.options, c)
        BY <1>1, <1>2, <1>4, <3>1 DEF compared
      <4>4. Checksum \in codesOf(n.options)
        BY <1>0, <1>2, <1>4, <3>1
      <4>5. GetOptions(n.options, Checksum) = checksumOf(Serialize(b))
        BY <1>0, <1>2, <1>4, <3>1
      <4> QED
        BY <4>1, <4>2, <4>3, <4>4, <4>5 DEF signedFor
    <3>3. understoodCodes(b)
      BY <3>1 DEF understoodCodes, readable
    <3>4. verifyChecksum(carried(n)) <=> codesOf(b.options) = compared(n)
      BY <3>2, <3>3, ChecksumRight
    <3>5. ProxyURI \in codesOf(b.options) /\ ProxyURI \notin compared(n)
      BY <1>4, <3>1 DEF compared
    <3> QED
      BY <2>2, <3>4, <3>5
  <2> QED
    BY <2>1, <2>2
<1>9. relayed(r) # <<>>
  <2>1. n \in messageOver(Alphabet)
    BY DEF plainMessages
  <2> QED
    BY <1>4, <2>1, WiderAlphabet, SerializeType
<1> QED
  BY <1>5, <1>6, <1>7, <1>8, <1>9 DEF acceptable, r

-----------------------------------------------------------------------------
(* The options an application builds a message with.                       *)
ownOptions == {os \in plainOptions(Byte) : single(os) /\ Checksum \notin codesOf(os)}

LEMMA OwnAdd ==
    ASSUME NEW os \in ownOptions, NEW code, code # Checksum, NEW value,
           NewOption(code, value) \in optionOver(Byte), code = URIScheme => value = int(COAP_SCHEME)
    PROVE  AddOption(os, code, value) \in ownOptions
<1> DEFINE O == optionOver(Byte)
           s == AddOption(os, code, value)
<1>1. os \in plainOptions(Byte) /\ os \in Seq(O) /\ single(os) /\ Checksum \notin codesOf(os)
  BY DEF ownOptions, plainOptions
<1>2. s \in plainOptions(Byte)
  BY <1>1, PlainAdd
<1>3. codesOf(s) = codesOf(os) \cup {code} /\ single(s)
  <2> HIDE DEF O
  <2>1. NewOption(code, value) \in O
    BY DEF O
  <2> QED
    BY <1>1, <2>1, AddKeeps, SingleAdd
<1>4. Checksum \notin codesOf(s)
  BY <1>1, <1>3
<1> QED
  BY <1>2, <1>3, <1>4 DEF ownOptions

LEMMA OwnRemove ==
    ASSUME NEW os \in ownOptions, NEW code
    PROVE  RemoveOptions(os, code) \in ownOptions
<1> DEFINE s == RemoveOptions(os, code)
<1>1. /\ os \in plainOptions(Byte) /\ os \in Seq(optionOver(Byte))
      /\ single(os) /\ Checksum \notin codesOf(os)
  BY DEF ownOptions, plainOptions
<1>2. s \in plainOptions(Byte)
  BY <1>1, PlainRemove
<1>3. codesOf(s) = codesOf(os) \ {code} /\ single(s)
  BY <1>1, GetAfterRemove, SingleRemove
<1>4. Checksum \notin codesOf(s)
  BY <1>1, <1>3
<1> QED
  BY <1>2, <1>3, <1>4 DEF ownOptions

LEMMA OwnPath ==
    ASSUME NEW os \in ownOptions, NEW path \in Seq(Byte), Len(path) <= Max16
    PROVE  SetURIPath(os, path) \in ownOptions
<1>1. URIPath # Checksum
  BY SMT DEF URIPath, Checksum
<1>2. ASSUME NEW x \in ownOptions, NEW t \in Seq(Byte), Len(t) <= Max16
      PROVE  AddOption(x, URIPath, string(t)) \in ownOptions
  <2>1. NewOption(URIPath, string(t)) \in optionOver(Byte)
    BY <1>2, CodeFacts, OptionsMade
  <2> QED
    BY <1>1, <2>1, CodeFacts, OwnAdd
<1> QED
  BY <1>2, PathKeeps

-----------------------------------------------------------------------------
inFlight == at = "network" \/ (at = "relayed" /\ data # <<>>)

(* What travels is the encoding of a message that agrees with the one the  *)
(* application built; the receiver reads a message that does; and nothing  *)
(* is received before.                                                     *)
MessageBuilt == message \in ownMessages

SentAsBuilt ==
    inFlight => \E m \in plainMessages(Alphabet) : data = Serialize(m) /\ agrees(m, message)

ReadAsBuilt == at = "receiver" /\ received.err = "none" => agrees(received.msg, message)

NothingReceived == at \in {"application", "network", "relayed"} => received.err # "none"

(* The inductive invariant.  The message in flight may differ from the one *)
(* built, by the options that the transport and a proxy change.            *)
WireInv == MessageBuilt /\ SentAsBuilt /\ ReadAsBuilt /\ NothingReceived

(* A number whose quotient by 65536 is two bytes wide is four bytes wide.   *)
LEMMA FourBytes ==
    ASSUME NEW n \in Nat, (n \div 256) \div 256 <= Max16
    PROVE  n \in 0 .. Max32
<1>1. PICK p \in Nat, r \in Byte : p = n \div 256 /\ n = 256 * p + r
  BY DivMod
<1>2. PICK q \in Nat, t \in Byte : q = p \div 256 /\ p = 256 * q + t
  BY DivMod
<1>3. q = (n \div 256) \div 256
  BY <1>1, <1>2
<1>4. q \in Nat /\ q <= Max16
  BY <1>2, <1>3
<1>5. q <= 65535
  BY <1>4, SMT DEF Max16
<1>6. r \in Int /\ r <= 255 /\ t \in Int /\ t <= 255
  BY SMT DEF Byte
<1>7. p \in Nat /\ p <= 256 * 65535 + 255
  BY <1>2, <1>4, <1>5, <1>6, SMT
<1>8. n <= Max32
  BY <1>1, <1>6, <1>7, SMT DEF Max32
<1> QED
  BY <1>8, Largest

(* What the application adds is within the widths of the code.             *)
LEMMA AssumedRanges ==
    /\ \A o \in Ints : /\ NewOption(o.code, int(o.n)) \in optionOver(Byte)
                       /\ o.code = URIScheme => int(o.n) = int(COAP_SCHEME)
                       /\ o.code # Checksum
    /\ \A o \in Strings : /\ NewOption(o.code, string(o.s)) \in optionOver(Byte)
                          /\ o.code # URIScheme
                          /\ o.code # Checksum
    /\ \A p \in Paths : p \in Seq(Byte) /\ Len(p) <= Max16
<1>1. ASSUME NEW o \in Ints
      PROVE  /\ NewOption(o.code, int(o.n)) \in optionOver(Byte)
             /\ o.code = URIScheme => int(o.n) = int(COAP_SCHEME)
             /\ o.code # Checksum
  <2>1. o.code \in 0 .. Max16 /\ o.code \notin StringOptions /\ o.n \in Nat /\ (o.n \div 256) \div 256 <= Max16
    BY WireAssumption
  <2>2. o.code = URIScheme => o.n = COAP_SCHEME
    BY WireAssumption
  <2>3. o.n \in 0 .. Max32
    BY <2>1, FourBytes
  <2>4. NewOption(o.code, int(o.n)) \in optionOver(Byte)
    BY <2>1, <2>3, OptionsMade
  <2>5. Checksum \in StringOptions
    BY DEF StringOptions
  <2> QED
    BY <2>1, <2>2, <2>4, <2>5
<1>2. \A s \in {o.s : o \in Strings} \cup Paths : s \in Seq(Byte) /\ Len(s) <= Max16
  BY WireAssumption
<1>3. ASSUME NEW o \in Strings
      PROVE  /\ NewOption(o.code, string(o.s)) \in optionOver(Byte)
             /\ o.code # URIScheme /\ o.code # Checksum
  <2>1. o.code \in 0 .. Max16 /\ o.code \notin IntOptions /\ o.code # Checksum
    BY WireAssumption
  <2>2. o.s \in Seq(Byte) /\ Len(o.s) <= Max16
    BY <1>2
  <2>3. NewOption(o.code, string(o.s)) \in optionOver(Byte)
    BY <2>1, <2>2, OptionsMade
  <2>4. URIScheme \in IntOptions
    BY DEF IntOptions
  <2> QED
    BY <2>1, <2>3, <2>4
<1> QED
  BY <1>1, <1>2, <1>3

(* What the application builds stays a message of its own.                 *)
LEMMA BuiltPlain ==
    ASSUME MessageBuilt, NEW next, built(next), next \in ownMessages, NothingReceived
    PROVE  WireInv'
<1>1. /\ at = "application" /\ at' = at /\ message' = next /\ received' = received /\ data' = data
  BY DEF built
<1>2. /\ MessageBuilt' /\ NothingReceived'
  BY <1>1 DEF MessageBuilt, NothingReceived
<1>3. SentAsBuilt'
  BY <1>1 DEF SentAsBuilt, inFlight
<1>4. ReadAsBuilt'
  BY <1>1 DEF ReadAsBuilt
<1> QED
  BY <1>2, <1>3, <1>4 DEF WireInv

(* Its options are replaced.                                               *)
LEMMA BuiltWithOptions ==
    ASSUME MessageBuilt, NothingReceived, NEW options \in ownOptions, withOptions(options)
    PROVE  WireInv'
<1> DEFINE next == [message EXCEPT !.options = options]
<1>1. /\ message \in messageOver(Byte) /\ options \in Seq(optionOver(Byte)) /\ plainScheme(options)
      /\ single(options) /\ Checksum \notin codesOf(options)
  BY DEF MessageBuilt, ownMessages, plainMessages, ownOptions, plainOptions
<1>2. next \in messageOver(Byte) /\ next.options = options
  BY <1>1, MessageFields
<1>3. built(next)
  BY DEF withOptions
<1> HIDE DEF next
<1>4. next \in ownMessages
  BY <1>1, <1>2 DEF ownMessages, plainMessages
<1> QED
  BY <1>3, <1>4, BuiltPlain

(* It begins with a new message,                                           *)
LEMMA WireInitially == WireInit => WireInv
<1> SUFFICES ASSUME WireInit PROVE WireInv
  OBVIOUS
<1>1. PICK code \in Codes : message = [NewMessage(513) EXCEPT !.code = code]
  BY DEF WireInit
<1>2. at = "application" /\ received = refused("nothing")
  BY DEF WireInit
<1>3. received.err # "none"
  BY <1>2 DEF refused
<1>4. message \in ownMessages
  <2> DEFINE T == {t \in Seq(Byte) : Len(t) < 16}
             O == Seq(optionOver(Byte))
             P == Seq(Byte)
  <2>1. code \in Byte /\ 513 \in 0 .. Max16
    <3>1. code \in Byte
      BY WireAssumption
    <3>2. 513 \in 0 .. Max16
      BY SMT DEF Max16
    <3> QED
      BY <3>1, <3>2
  <2>2. <<>> \in T /\ <<>> \in O /\ <<>> \in P
    BY EmptySeq
  <2> HIDE DEF T, O, P
  <2>3. /\ message \in [type : 0 .. 3, code : Byte, id : 0 .. Max16, token : T, options : O, payload : P]
        /\ message.options = <<>>
    BY <1>1, <2>1, <2>2 DEF NewMessage
  <2>4. message \in messageOver(Byte)
    BY <2>3, Zenon DEF messageOver, T, O, P
  <2>5. \A c : GetOptions(<<>>, c) = <<>>
    BY WithCodesEmpty DEF GetOptions
  <2>6. message \in plainMessages(Byte)
    BY <2>3, <2>4, <2>5 DEF plainMessages, plainScheme
  <2>7. codesOf(<<>>) = {}
    BY DEF codesOf
  <2>8. single(<<>>)
    <3>1. Len(<<>>) <= 1
      OBVIOUS
    <3> QED
      BY <2>5, <3>1 DEF single
  <2> QED
    BY <2>3, <2>6, <2>7, <2>8 DEF ownMessages
<1> QED
  BY <1>2, <1>3, <1>4 DEF WireInv, MessageBuilt, SentAsBuilt, inFlight, ReadAsBuilt, NothingReceived

(* and each step keeps the invariant.                                      *)
LEMMA WireStep == WireInv /\ [WireNext]_wireVars => WireInv'
<1> SUFFICES ASSUME WireInv, [WireNext]_wireVars PROVE WireInv'
  OBVIOUS
<1> DEFINE os == message.options
<1>0. MessageBuilt /\ SentAsBuilt /\ ReadAsBuilt /\ NothingReceived
  BY DEF WireInv
<1>00. /\ message \in plainMessages(Byte) /\ message \in messageOver(Byte) /\ plainScheme(os)
       /\ single(os) /\ Checksum \notin codesOf(os)
  BY <1>0 DEF MessageBuilt, ownMessages, plainMessages
<1>a. os \in ownOptions
  <2>1. os \in Seq(optionOver(Byte))
    BY <1>00, MessageFields
  <2> QED
    BY <1>00, <2>1 DEF plainOptions, ownOptions
<1>1. ASSUME AddStringOption PROVE WireInv'
  <2>1. PICK o \in Strings : withOptions(AddOption(os, o.code, string(o.s)))
    BY <1>1 DEF AddStringOption
  <2>2. AddOption(os, o.code, string(o.s)) \in ownOptions
    BY <1>a, AssumedRanges, OwnAdd
  <2> QED
    BY <1>0, <2>1, <2>2, BuiltWithOptions
<1>2. ASSUME AddIntOption PROVE WireInv'
  <2>1. PICK o \in Ints : withOptions(AddOption(os, o.code, int(o.n)))
    BY <1>2 DEF AddIntOption
  <2>2. AddOption(os, o.code, int(o.n)) \in ownOptions
    BY <1>a, AssumedRanges, OwnAdd
  <2> QED
    BY <1>0, <2>1, <2>2, BuiltWithOptions
<1>3. ASSUME CallSetURIPath PROVE WireInv'
  <2>1. PICK path \in Paths : withOptions(SetURIPath(os, path))
    BY <1>3 DEF CallSetURIPath
  <2>2. SetURIPath(os, path) \in ownOptions
    BY <1>a, AssumedRanges, OwnPath
  <2> QED
    BY <1>0, <2>1, <2>2, BuiltWithOptions
<1>4. ASSUME CallRemoveOptions PROVE WireInv'
  <2>1. PICK i \in DOMAIN os : withOptions(RemoveOptions(os, os[i].code))
    BY <1>4 DEF CallRemoveOptions
  <2>2. RemoveOptions(os, os[i].code) \in ownOptions
    BY <1>a, OwnRemove
  <2> QED
    BY <1>0, <2>1, <2>2, BuiltWithOptions
<1>5. ASSUME SetProxy PROVE WireInv'
  <2>1. withOptions(AddOption(os, ProxyURI, string(<<112>>)))
    BY <1>5 DEF SetProxy
  <2>2. NewOption(ProxyURI, string(<<112>>)) \in optionOver(Byte)
    <3>1. 112 \in Byte /\ 1 <= Max16
      BY SMT DEF Byte, Max16
    <3> DEFINE p == <<112>>
    <3>2. p \in Seq(Byte) /\ Len(p) <= Max16
      BY <3>1
    <3> HIDE DEF p
    <3>3. NewOption(ProxyURI, string(p)) \in optionOver(Byte)
      BY <3>2, CodeFacts, OptionsMade
    <3> QED
      BY <3>3 DEF p
  <2>3. ProxyURI # Checksum
    BY SMT DEF ProxyURI, Checksum
  <2>4. AddOption(os, ProxyURI, string(<<112>>)) \in ownOptions
    BY <1>a, <2>2, <2>3, CodeFacts, OwnAdd
  <2> QED
    BY <1>0, <2>1, <2>4, BuiltWithOptions
<1>6. ASSUME SetToken PROVE WireInv'
  <2>1. PICK token \in Tokens : built([message EXCEPT !.token = token])
    BY <1>6 DEF SetToken
  <2> DEFINE next == [message EXCEPT !.token = token]
  <2>2. token \in Seq(Byte) /\ Len(token) < 16
    BY WireAssumption
  <2>3. next \in messageOver(Byte) /\ next.options = os
    BY <1>00, <2>2, MessageFields
  <2> HIDE DEF next
  <2>4. next \in ownMessages
    BY <1>00, <2>3 DEF ownMessages, plainMessages
  <2> QED
    BY <1>0, <2>1, <2>4, BuiltPlain DEF next
<1>7. ASSUME SetStringPayload PROVE WireInv'
  <2>1. PICK payload \in Payloads : built([message EXCEPT !.payload = payload])
    BY <1>7 DEF SetStringPayload
  <2> DEFINE next == [message EXCEPT !.payload = payload]
  <2>2. payload \in Seq(Byte)
    BY WireAssumption
  <2>3. next \in messageOver(Byte) /\ next.options = os
    BY <1>00, <2>2, MessageFields
  <2> HIDE DEF next
  <2>4. next \in ownMessages
    BY <1>00, <2>3 DEF ownMessages, plainMessages
  <2> QED
    BY <1>0, <2>1, <2>4, BuiltPlain DEF next
<1>8. ASSUME SetAddChecksumOnSend PROVE WireInv'
  <2>1. built(message)
    BY <1>8 DEF SetAddChecksumOnSend
  <2> QED
    BY <1>0, <2>1, BuiltPlain DEF MessageBuilt
<1>9. ASSUME Send PROVE WireInv'
  <2>1. /\ at = "application" /\ at' = "network" /\ message' = message /\ received' = received
        /\ data' = Serialize(IF addChecksumOnSend THEN applyChecksum(message) ELSE message)
    BY <1>9 DEF Send
  <2>2. \E m \in plainMessages(Alphabet) : data' = Serialize(m) /\ agrees(m, message)
    <3>1. CASE addChecksumOnSend
      BY <1>00, <2>1, <3>1, ChecksumKeeps
    <3>2. CASE ~addChecksumOnSend
      <4>1. message \in plainMessages(Alphabet)
        BY <1>00, WiderAlphabet DEF plainMessages
      <4>2. agrees(message, message)
        BY DEF agrees
      <4> QED
        BY <2>1, <3>2, <4>1, <4>2
    <3> QED
      BY <3>1, <3>2
  <2>3. MessageBuilt' /\ ReadAsBuilt' /\ NothingReceived'
    BY <1>0, <2>1 DEF MessageBuilt, ReadAsBuilt, NothingReceived
  <2>4. SentAsBuilt'
    BY <2>1, <2>2 DEF SentAsBuilt, agrees
  <2> QED
    BY <2>3, <2>4 DEF WireInv
<1>10. ASSUME Relay PROVE WireInv'
  <2> DEFINE read == Deserialize(data)
  <2>1. /\ at = "network" /\ at' = "relayed" /\ message' = message
        /\ \/ read.err = "none" /\ data' = relayed(read.msg) /\ received' = received
           \/ read.err # "none" /\ data' = <<>> /\ received' = read
    BY <1>10 DEF Relay
  <2>2. PICK m \in plainMessages(Alphabet) : data = Serialize(m) /\ agrees(m, message)
    BY <1>0, <2>1 DEF SentAsBuilt, inFlight
  <2>3. MessageBuilt' /\ ReadAsBuilt'
    BY <1>0, <2>1 DEF MessageBuilt, ReadAsBuilt
  <2>4. NothingReceived'
    BY <1>0, <2>1 DEF NothingReceived
  <2>5. SentAsBuilt'
    <3>1. CASE read.err = "none" /\ data' = relayed(read.msg)
      <4>1. read.msg \in plainMessages(Alphabet) /\ agrees(read.msg, m)
        BY <2>2, <3>1, Decoded, WiderAlphabet
      <4> HIDE DEF read
      <4>2. PICK n \in plainMessages(Alphabet) : relayed(read.msg) = Serialize(n) /\ agrees(n, read.msg)
        BY <4>1, RelayedKeeps
      <4>3. agrees(n, message)
        BY <2>2, <4>1, <4>2 DEF agrees
      <4> QED
        BY <2>1, <3>1, <4>2, <4>3 DEF SentAsBuilt, agrees
    <3>2. CASE data' = <<>>
      BY <2>1, <3>2 DEF SentAsBuilt, inFlight
    <3> QED
      BY <2>1, <3>1, <3>2
  <2> QED
    BY <2>3, <2>4, <2>5 DEF WireInv
<1>11. ASSUME Receive PROVE WireInv'
  <2>1. /\ at = "relayed" \/ at = "network"
        /\ data # <<>> /\ received' = Deserialize(data) /\ at' = "receiver" /\ message' = message
    BY <1>11 DEF Receive
  <2>2. PICK m \in plainMessages(Alphabet) : data = Serialize(m) /\ agrees(m, message)
    BY <1>0, <2>1 DEF SentAsBuilt, inFlight
  <2>3. ASSUME received'.err = "none" PROVE agrees(received'.msg, message)
    <3>1. agrees(Deserialize(data).msg, m)
      BY <2>1, <2>2, <2>3, Decoded, WiderAlphabet
    <3> QED
      BY <2>1, <2>2, <3>1 DEF agrees
  <2>4. MessageBuilt' /\ SentAsBuilt' /\ NothingReceived'
    BY <1>0, <2>1 DEF MessageBuilt, SentAsBuilt, inFlight, NothingReceived
  <2>5. ReadAsBuilt'
    BY <2>1, <2>3 DEF ReadAsBuilt, agrees
  <2> QED
    BY <2>4, <2>5 DEF WireInv
<1>12. ASSUME Route PROVE WireInv'
  <2>1. at' = "routed" /\ message' = message
    BY <1>12 DEF Route
  <2> QED
    BY <1>0, <2>1 DEF WireInv, MessageBuilt, SentAsBuilt, inFlight, ReadAsBuilt, NothingReceived
<1>13. CASE UNCHANGED wireVars
  BY <1>0, <1>13 DEF wireVars, WireInv, MessageBuilt, SentAsBuilt, inFlight, ReadAsBuilt, NothingReceived,
                     agrees
<1> QED
  BY <1>1, <1>2, <1>3, <1>4, <1>5, <1>6, <1>7, <1>8, <1>9, <1>10, <1>11, <1>12, <1>13 DEF WireNext

(* ReceivedAsBuilt, for whatever strings, integers, paths, tokens and      *)
(* payloads the application uses and in whatever order it builds, sends,   *)
(* loses or relays: what a receiver's Deserialize returns without an error *)
(* agrees with the message that was built (message.go, transport.go,       *)
(* server.go:269-309).                                                     *)
THEOREM EveryMessageAsBuilt == WireSpec => []ReceivedAsBuilt
<1>1. WireInv => ReceivedAsBuilt
  <2> SUFFICES ASSUME WireInv, isReceived, received.err = "none"
               PROVE  /\ \A code \in DecodedOptions \ {ProxyURI, ProxyScheme, Checksum} :
                            values(received.msg, code) = values(message, code)
                      /\ received.msg.type = message.type
                      /\ received.msg.code = message.code
                      /\ received.msg.id = message.id
                      /\ received.msg.token = message.token
                      /\ received.msg.payload = message.payload
    BY Zenon DEF ReceivedAsBuilt
  <2>1. at = "receiver"
    BY DEF isReceived, WireInv, NothingReceived
  <2>2. agrees(received.msg, message)
    BY <2>1 DEF WireInv, ReadAsBuilt
  <2>3. \A code \in Carried : GetOptions(received.msg.options, code) = GetOptions(message.options, code)
    BY <2>2, Zenon DEF agrees
  <2>4. \A code \in Carried : values(received.msg, code) = values(message, code)
    BY <2>3, Zenon DEF values
  <2> QED
    BY <2>2, <2>4, Zenon DEF agrees, Carried
<1> QED
  BY WireInitially, WireStep, <1>1, PTL DEF WireSpec

(* Who reads the message, and which bytes: a proxy and the receiver behind *)
(* it, or the receiver alone.                                              *)
first == Deserialize(Serialize(sentOf(message, addChecksumOnSend)))

OnItsWay ==
    /\ at = "network" => data = Serialize(sentOf(message, addChecksumOnSend))
    /\ at = "relayed" => /\ isProxied
                         /\ IF first.err = "none" THEN data = relayed(first.msg)
                                                  ELSE data = <<>> /\ received = first
    /\ at = "receiver" => IF isProxied
                          THEN first.err = "none" /\ received = Deserialize(relayed(first.msg))
                          ELSE received = first

LEMMA OnItsWayStep == OnItsWay /\ [WireNext]_wireVars => OnItsWay'
<1> SUFFICES ASSUME OnItsWay, [WireNext]_wireVars PROVE OnItsWay'
  OBVIOUS
<1>1. ASSUME NEW next, built(next) PROVE OnItsWay'
  <2>1. at = "application" /\ at' = at
    BY <1>1 DEF built
  <2> QED
    BY <2>1 DEF OnItsWay
<1>2. ASSUME NEW options, withOptions(options) PROVE OnItsWay'
  BY <1>1, <1>2 DEF withOptions
<1>3. CASE AddStringOption \/ AddIntOption \/ CallSetURIPath \/ CallRemoveOptions \/ SetProxy
  BY <1>2, <1>3 DEF AddStringOption, AddIntOption, CallSetURIPath, CallRemoveOptions, SetProxy
<1>4. CASE SetToken \/ SetStringPayload \/ SetAddChecksumOnSend
  BY <1>1, <1>4 DEF SetToken, SetStringPayload, SetAddChecksumOnSend
<1>5. CASE Send
  BY <1>5 DEF Send, OnItsWay, sentOf
<1>6. ASSUME message' = message, addChecksumOnSend' = addChecksumOnSend
      PROVE  first' = first /\ (isProxied' <=> isProxied)
  BY <1>6 DEF first, isProxied
<1>7. CASE Relay
  <2>1. /\ at = "network" /\ at' = "relayed" /\ isProxied
        /\ message' = message /\ addChecksumOnSend' = addChecksumOnSend
        /\ IF Deserialize(data).err = "none"
           THEN data' = relayed(Deserialize(data).msg) /\ received' = received
           ELSE data' = <<>> /\ received' = Deserialize(data)
    BY <1>7, Zenon DEF Relay
  <2>2. Deserialize(data) = first
    BY <2>1 DEF OnItsWay, first
  <2>3. first' = first /\ isProxied'
    BY <1>6, <2>1
  <2> QED
    BY <2>1, <2>2, <2>3 DEF OnItsWay
<1>8. CASE Receive
  <2>1. /\ at = (IF isProxied THEN "relayed" ELSE "network") /\ at' = "receiver" /\ data # <<>>
        /\ received' = Deserialize(data)
        /\ message' = message /\ addChecksumOnSend' = addChecksumOnSend
    BY <1>8 DEF Receive
  <2>2. first' = first /\ (isProxied' <=> isProxied)
    BY <1>6, <2>1
  <2>3. CASE isProxied
    BY <2>1, <2>2, <2>3 DEF OnItsWay
  <2>4. CASE ~isProxied
    <3>1. received' = first
      BY <2>1, <2>4 DEF OnItsWay, first
    <3> QED
      BY <2>1, <2>2, <2>4, <3>1 DEF OnItsWay
  <2> QED
    BY <2>3, <2>4
<1>9. CASE Route
  BY <1>9 DEF Route, OnItsWay
<1>10. CASE UNCHANGED wireVars
  BY <1>10 DEF wireVars, OnItsWay, first, isProxied
<1> QED
  BY <1>3, <1>4, <1>5, <1>7, <1>8, <1>9, <1>10 DEF WireNext

(* RefusedWithReason, for whatever the application builds: a proxy or a    *)
(* receiver refuses a message for the token, the critical option or the    *)
(* checksum the property names, and whenever there is one of them          *)
(* (message.go:86-286 and 339-356, transport.go:609-632, server.go:572-605).*)
THEOREM RefusedForTheseReasons == WireSpec => []RefusedWithReason
<1>1. WireInit => OnItsWay
  BY DEF WireInit, OnItsWay
<1>2. WireInv /\ OnItsWay => RefusedWithReason
  <2> SUFFICES ASSUME WireInv, OnItsWay, isReceived PROVE RefusedWithReason
    BY DEF RefusedWithReason
  <2> DEFINE reasons == \/ Len(message.token) > 8
                        \/ \E code \in unknownCodes : critical(code)
                        \/ addChecksumOnSend /\ (isProxied \/ unknownCodes # {})
  <2>1. message \in ownMessages
    BY DEF WireInv, MessageBuilt
  <2>2. Len(message.token) \in Nat
    BY <2>1, MessageFields DEF ownMessages, plainMessages
  <2>3. readable(message, addChecksumOnSend) <=>
           /\ \A code \in unknownCodes : ~critical(code)
           /\ ~(Len(message.token) > 8)
           /\ addChecksumOnSend => unknownCodes = {}
    <3>1. Len(message.token) <= 8 <=> ~(Len(message.token) > 8)
      BY <2>2
    <3>2. understoodCodes(message) <=> \A code \in unknownCodes : ~critical(code)
      BY DEF understoodCodes, unknownCodes
    <3>3. codesOf(message.options) \subseteq DecodedOptions <=> unknownCodes = {}
      BY DEF unknownCodes
    <3> QED
      BY <3>1, <3>2, <3>3 DEF readable
  <2>4. /\ first.err = "none" <=> readable(message, addChecksumOnSend)
        /\ first.err = "none" => first.msg = carried(sentOf(message, addChecksumOnSend))
    BY <2>1, FirstReading DEF first
  <2>5. ASSUME isProxied, first.err = "none"
        PROVE  /\ relayed(first.msg) # <<>>
               /\ Deserialize(relayed(first.msg)).err = "none" <=> ~addChecksumOnSend
    <3>1. ProxyURI \in codesOf(message.options)
      BY <2>5 DEF isProxied, HasOption
    <3> QED
      BY <2>1, <2>4, <2>5, <3>1, SecondReading
  <2>6. CASE at = "receiver" /\ isProxied
    <3>1. first.err = "none" /\ received = Deserialize(relayed(first.msg))
      BY <2>6 DEF OnItsWay
    <3>2. received.err = "none" <=> ~addChecksumOnSend
      BY <2>5, <2>6, <3>1
    <3>3. reasons <=> addChecksumOnSend
      BY <2>3, <2>4, <2>6, <3>1
    <3> QED
      BY <3>2, <3>3, Zenon DEF RefusedWithReason
  <2>7. CASE at = "receiver" /\ ~isProxied
    <3>1. received = first
      BY <2>7 DEF OnItsWay
    <3>2. reasons <=> ~readable(message, addChecksumOnSend)
      BY <2>3, <2>7
    <3> QED
      BY <2>4, <3>1, <3>2, Zenon DEF RefusedWithReason
  <2>8. CASE at = "relayed" /\ data = <<>>
    <3>1. isProxied /\ first.err # "none" /\ received = first
      BY <2>5, <2>8 DEF OnItsWay
    <3>2. reasons
      BY <2>3, <2>4, <3>1
    <3> QED
      BY <3>1, <3>2, Zenon DEF RefusedWithReason
  <2> QED
    BY <2>6, <2>7, <2>8 DEF isReceived
<1> QED
  BY WireInitially, WireStep, OnItsWayStep, <1>1, <1>2, PTL DEF WireSpec

-----------------------------------------------------------------------------
(* Paths: what the URI-Path options that SetURIPath makes of one are       *)
(* joined to.                                                              *)

(* Each element of s replaced, and the results joined.                     *)
flat(s, f) == FlattenSeq([i \in DOMAIN s |-> f[s[i]]])
replaces(f, O, A) == f \in [O -> Seq(A)]

LEMMA FlatEmpty == \A f : flat(<<>>, f) = <<>>
<1>1. ASSUME NEW f PROVE [i \in DOMAIN <<>> |-> f[<<>>[i]]] = <<>>
  OBVIOUS
<1> QED
  BY <1>1, FlattenEmpty DEF flat

LEMMA FlatAppend ==
    ASSUME NEW O, NEW A, NEW f, replaces(f, O, A), NEW s \in Seq(O), NEW e \in O
    PROVE  /\ flat(s, f) \in Seq(A)
           /\ flat(Append(s, e), f) = flat(s, f) \o f[e]
<1> DEFINE n == Len(s)
           t == Append(s, e)
           l == [i \in DOMAIN t |-> f[t[i]]]
           p == [i \in DOMAIN s |-> f[s[i]]]
           r == Append(p, f[e])
<1>1. /\ n \in Nat /\ DOMAIN s = 1 .. n /\ t \in Seq(O)
      /\ DOMAIN t = 1 .. (n + 1)
      /\ \A i \in 1 .. n : t[i] = s[i] /\ s[i] \in O
      /\ t[n + 1] = e
  BY AppendProperties, LenProperties, ElementOfSeq
<1>0. f \in [O -> Seq(A)]
  BY DEF replaces
<1>2. p \in [1 .. n -> Seq(A)]
  BY <1>0, <1>1
<1>3. p \in Seq(Seq(A)) /\ f[e] \in Seq(A)
  BY <1>0, <1>1, <1>2, SeqDef
<1>4. Len(p) = n
  BY <1>1, <1>2, <1>3, LenProperties
<1>5. \A i \in 1 .. n : p[i] = f[s[i]]
  BY <1>1
<1>6. l = [i \in 1 .. (n + 1) |-> f[t[i]]]
  BY <1>1
<1> HIDE DEF p, t, l, n
<1>7. /\ r \in Seq(Seq(A)) /\ Len(r) = n + 1
      /\ \A i \in 1 .. n : r[i] = p[i]
      /\ r[n + 1] = f[e]
  BY <1>3, <1>4, AppendProperties
<1>8. r = [i \in 1 .. (n + 1) |-> r[i]]
  BY <1>7, LenProperties
<1> HIDE DEF r
<1>9. ASSUME NEW i \in 1 .. (n + 1) PROVE f[t[i]] = r[i]
  <2>1. CASE i = n + 1
    BY <1>1, <1>7, <2>1
  <2>2. CASE i \in 1 .. n
    BY <1>1, <1>5, <1>7, <2>2
  <2> QED
    BY <1>1, <2>1, <2>2
<1>10. l = r
  BY <1>6, <1>8, <1>9
<1>11. FlattenSeq(Append(p, f[e])) = FlattenSeq(p) \o f[e] /\ FlattenSeq(p) \in Seq(A)
  BY <1>3, FlattenGrows
<1> QED
  BY <1>10, <1>11 DEF flat, l, r, p, t

LEMMA FlatConcat ==
    ASSUME NEW O, NEW A, NEW f, replaces(f, O, A), NEW s \in Seq(O), NEW t \in Seq(O)
    PROVE  flat(s \o t, f) = flat(s, f) \o flat(t, f)
<1> DEFINE T == {u \in Seq(O) : flat(s \o u, f) = flat(s, f) \o flat(u, f)}
<1>0. ASSUME NEW u \in Seq(O) PROVE flat(u, f) \in Seq(A)
  <2>1. CASE u = <<>>
    BY <2>1, FlatEmpty, EmptySeq
  <2>2. CASE u # <<>>
    <3>1. PICK v \in Seq(O), e \in O : u = Append(v, e)
      BY <2>2, SequenceEmptyOrAppend
    <3> QED
      BY <3>1, FlatAppend
  <2> QED
    BY <2>1, <2>2
<1>1. <<>> \in T
  <2>1. s \o <<>> = s /\ flat(s, f) \o <<>> = flat(s, f) /\ <<>> \in Seq(O)
    BY <1>0, EmptySeq, ConcatEmptySeq
  <2> QED
    BY <2>1, FlatEmpty
<1>2. ASSUME NEW u \in Seq(O), NEW e \in O, u \in T PROVE Append(u, e) \in T
  <2> DEFINE a == flat(s, f)
             b == flat(u, f)
             c == f[e]
             su == s \o u
  <2>1. a \in Seq(A) /\ b \in Seq(A) /\ c \in Seq(A) /\ su \in Seq(O) /\ Append(u, e) \in Seq(O)
    <3>1. c \in Seq(A)
      BY DEF replaces
    <3>2. a \in Seq(A) /\ b \in Seq(A)
      BY <1>0
    <3> QED
      BY <3>1, <3>2, ConcatProperties, AppendProperties
  <2>2. s \o Append(u, e) = Append(su, e)
    BY ConcatAppend
  <2>3. flat(su, f) = a \o b
    BY <1>2
  <2>4. flat(Append(u, e), f) = b \o c
    BY FlatAppend
  <2>5. flat(Append(su, e), f) = flat(su, f) \o c
    <3> HIDE DEF su
    <3> QED
      BY <2>1, FlatAppend
  <2> HIDE DEF a, b, c, su
  <2>6. (a \o b) \o c = a \o (b \o c)
    <3>1. a \in Seq(A) /\ b \in Seq(A) /\ c \in Seq(A)
      BY <2>1
    <3> HIDE DEF T
    <3> QED
      BY <3>1, Associates, SMTT(30)
  <2> QED
    BY <2>1, <2>2, <2>3, <2>4, <2>5, <2>6 DEF a
<1> HIDE DEF T
<1>3. \A u \in Seq(O) : u \in T
  BY <1>1, <1>2, SeqInduction
<1> QED
  BY <1>3 DEF T

(* The parts of a path that are not empty, and parts behind slashes.       *)
fill == [p \in Seq(Byte) |-> IF p = <<>> THEN <<>> ELSE <<p>>]
filled(ps) == flat(ps, fill)

slashed == [p \in Seq(Byte) |-> <<Slash>> \o p]
joined(ps) == flat(ps, slashed)

LEMMA SlashIsByte == Slash \in Byte /\ Space \in Byte /\ Slash # Space
  BY SMT DEF Slash, Space, Byte

LEMMA FilledSteps ==
    /\ filled(<<>>) = <<>>
    /\ \A ps \in Seq(Seq(Byte)), p \in Seq(Byte) :
          /\ filled(ps) \in Seq(Seq(Byte))
          /\ filled(Append(ps, p)) = IF p = <<>> THEN filled(ps) ELSE Append(filled(ps), p)
<1>1. replaces(fill, Seq(Byte), Seq(Byte))
  BY DEF fill, replaces
<1>2. ASSUME NEW ps \in Seq(Seq(Byte)), NEW p \in Seq(Byte)
      PROVE  /\ filled(ps) \in Seq(Seq(Byte))
             /\ filled(Append(ps, p)) = IF p = <<>> THEN filled(ps) ELSE Append(filled(ps), p)
  <2>1. filled(ps) \in Seq(Seq(Byte)) /\ filled(Append(ps, p)) = filled(ps) \o fill[p]
    BY <1>1, FlatAppend DEF filled
  <2>2. filled(ps) \o <<>> = filled(ps) /\ filled(ps) \o <<p>> = Append(filled(ps), p)
    BY <2>1, ConcatEmptySeq, AppendIsConcat
  <2>3. fill[p] = IF p = <<>> THEN <<>> ELSE <<p>>
    BY DEF fill
  <2> QED
    BY <2>1, <2>2, <2>3
<1> QED
  BY <1>2, FlatEmpty DEF filled

LEMMA FilledConcat ==
    ASSUME NEW ps \in Seq(Seq(Byte)), NEW qs \in Seq(Seq(Byte))
    PROVE  filled(ps \o qs) = filled(ps) \o filled(qs)
<1>1. replaces(fill, Seq(Byte), Seq(Byte))
  BY DEF fill, replaces
<1> QED
  BY <1>1, FlatConcat DEF filled

LEMMA JoinedSteps ==
    /\ joined(<<>>) = <<>>
    /\ \A ps \in Seq(Seq(Byte)), p \in Seq(Byte) :
          /\ joined(ps) \in Seq(Byte)
          /\ joined(Append(ps, p)) = joined(ps) \o (<<Slash>> \o p)
<1>1. replaces(slashed, Seq(Byte), Byte)
  <2>1. <<Slash>> \in Seq(Byte)
    BY SlashIsByte
  <2> QED
    BY <2>1, ConcatProperties DEF slashed, replaces
<1>2. ASSUME NEW ps \in Seq(Seq(Byte)), NEW p \in Seq(Byte)
      PROVE  /\ joined(ps) \in Seq(Byte)
             /\ joined(Append(ps, p)) = joined(ps) \o (<<Slash>> \o p)
  <2>1. joined(ps) \in Seq(Byte) /\ joined(Append(ps, p)) = joined(ps) \o slashed[p]
    BY <1>1, FlatAppend DEF joined
  <2>2. slashed[p] = <<Slash>> \o p
    BY DEF slashed
  <2> QED
    BY <2>1, <2>2
<1> QED
  BY <1>2, FlatEmpty DEF joined

LEMMA JoinedConcat ==
    ASSUME NEW ps \in Seq(Seq(Byte)), NEW qs \in Seq(Seq(Byte))
    PROVE  joined(ps \o qs) = joined(ps) \o joined(qs)
<1>1. replaces(slashed, Seq(Byte), Byte)
  <2>1. <<Slash>> \in Seq(Byte)
    BY SlashIsByte
  <2> QED
    BY <2>1, ConcatProperties DEF slashed, replaces
<1> QED
  BY <1>1, FlatConcat DEF joined

(* How parts grows with the path.                                          *)
LEMMA AppendExcept ==
    ASSUME NEW O, NEW s \in Seq(O), NEW e \in O, NEW v \in O
    PROVE  [Append(s, e) EXCEPT ![Len(Append(s, e))] = v] = Append(s, v)
<1> DEFINE t == Append(s, e)
           n == Len(t)
           u == [t EXCEPT ![n] = v]
           w == Append(s, v)
           m == Len(s)
<1>1. m \in Nat /\ n = m + 1 /\ t \in Seq(O) /\ \A i \in 1 .. m : t[i] = s[i]
  BY AppendProperties, LenProperties
<1>2. w \in Seq(O) /\ Len(w) = m + 1 /\ w[m + 1] = v /\ \A i \in 1 .. m : w[i] = s[i]
  BY AppendProperties
<1> HIDE DEF t
<1>3. n \in 1 .. Len(t)
  BY <1>1
<1>4. /\ u \in Seq(O) /\ Len(u) = n
      /\ \A j \in 1 .. n : u[j] = IF j = n THEN v ELSE t[j]
  BY <1>1, <1>3, ExceptSeq
<1> HIDE DEF u, w, n, m
<1>5. \A i \in 1 .. (m + 1) : u[i] = w[i]
  <2>1. ASSUME NEW i \in 1 .. m PROVE u[i] = w[i]
    <3>1. i \in 1 .. n /\ i # n
      BY <1>1
    <3> QED
      BY <1>1, <1>2, <1>4, <3>1
  <2>2. u[m + 1] = w[m + 1]
    <3>1. m + 1 \in 1 .. n
      BY <1>1
    <3> QED
      BY <1>1, <1>2, <1>4, <3>1
  <2> QED
    BY <1>1, <2>1, <2>2
<1>6. u = w
  BY <1>1, <1>2, <1>4, <1>5, SeqEqual
<1> QED
  BY <1>6 DEF u, w, n, t

LEMMA PartsSplit ==
    ASSUME NEW x \in Seq(Byte)
    PROVE  /\ parts(x) \in Seq(Seq(Byte))
           /\ \E ps \in Seq(Seq(Byte)), l \in Seq(Byte) : parts(x) = Append(ps, l)
<1> DEFINE P == Seq(Byte)
<1>1. parts(x) \in Seq({t \in P : Len(t) <= Len(x)}) /\ Len(parts(x)) >= 1
  BY PartsType
<1>2. {t \in P : Len(t) <= Len(x)} \subseteq P
  OBVIOUS
<1>3. parts(x) \in Seq(P)
  BY <1>1, <1>2, SeqMonotonic
<1>4. parts(x) # <<>>
  BY <1>1
<1> HIDE DEF P
<1>5. \E ps \in Seq(P), l \in P : parts(x) = Append(ps, l)
  BY <1>3, <1>4, SequenceEmptyOrAppend
<1> QED
  BY <1>3, <1>5 DEF P

LEMMA PartsEmpty == parts(<<>>) = <<<<>>>>
<1>1. PICK g : Splits(g, <<>>, 0)
  BY SplittingExists
<1> DEFINE h == CHOOSE f : Splits(f, <<>>, 0)
<1>2. Splits(h, <<>>, 0)
  BY <1>1
<1>3. Len(<<>>) = 0
  OBVIOUS
<1>4. parts(<<>>) = h[0]
  BY <1>3, Zenon DEF parts, Splits
<1> HIDE DEF h
<1>5. 0 \in 0 .. 0
  OBVIOUS
<1>6. h[0] = <<<<>>>>
  BY <1>2, <1>5, Zenon DEF Splits
<1> QED
  BY <1>4, <1>6, Zenon

LEMMA PartsAppend ==
    ASSUME NEW x \in Seq(Byte), NEW e \in Byte, NEW ps \in Seq(Seq(Byte)), NEW l \in Seq(Byte),
           parts(x) = Append(ps, l)
    PROVE  parts(Append(x, e)) = IF e = Slash THEN Append(parts(x), <<>>) ELSE Append(ps, Append(l, e))
<1> DEFINE n == Len(x)
           t == Append(x, e)
           next(y, d) == IF d = Slash THEN Append(y, <<>>) ELSE [y EXCEPT ![Len(y)] = Append(@, d)]
           begin == <<<<>>>>
           g == CHOOSE f : Splits(f, x, n)
           h == CHOOSE f : Splits(f, t, n + 1)
           S == {k \in 0 .. n : h[k] = g[k]}
<1>1. /\ n \in Nat /\ Len(t) = n + 1 /\ t[n + 1] = e
      /\ \A i \in 1 .. n : t[i] = x[i]
  BY AppendProperties, LenProperties
<1>2. parts(x) = g[n]
  BY Zenon DEF parts, Splits
<1>3. parts(t) = h[n + 1]
  BY <1>1, Zenon DEF parts, Splits
<1>4. Splits(g, x, n)
  BY <1>1, SplittingExists
<1>5. n + 1 \in Nat
  BY <1>1
<1>6. Splits(h, t, n + 1)
  BY <1>5, SplittingExists
<1> HIDE DEF g, h
<1>7. ASSUME NEW k \in 0 .. n PROVE g[k] = IF k = 0 THEN begin ELSE next(g[k - 1], x[k])
  BY <1>4, Zenon DEF Splits
<1>8. ASSUME NEW k \in 0 .. (n + 1) PROVE h[k] = IF k = 0 THEN begin ELSE next(h[k - 1], t[k])
  BY <1>6, Zenon DEF Splits
<1> HIDE DEF t, n, next, begin
<1>9. \A k \in 0 .. n : k \in S
  <2>1. 0 \in S
    <3>1. 0 \in 0 .. n /\ 0 \in 0 .. (n + 1)
      BY <1>1
    <3> QED
      BY <1>7, <1>8, <3>1
  <2>2. ASSUME NEW k \in 0 .. (n - 1), k \in S PROVE k + 1 \in S
    <3>1. /\ k + 1 \in 0 .. n /\ k + 1 \in 0 .. (n + 1) /\ k + 1 \in 1 .. n
          /\ k + 1 # 0 /\ (k + 1) - 1 = k
      BY <1>1
    <3> QED
      BY <1>1, <1>7, <1>8, <2>2, <3>1
  <2> HIDE DEF S
  <2> QED
    BY <1>1, <2>1, <2>2, BoundedInduction
<1>10. h[n] = g[n]
  BY <1>1, <1>9
<1>11. h[n + 1] = next(h[n], e)
  <2>1. n + 1 \in 0 .. (n + 1) /\ n + 1 # 0 /\ (n + 1) - 1 = n
    BY <1>1
  <2> QED
    BY <1>1, <1>8, <2>1
<1>12. parts(t) = next(Append(ps, l), e)
  BY <1>2, <1>3, <1>10, <1>11
<1>13. CASE e = Slash
  BY <1>12, <1>13, Zenon DEF next, t
<1>14. CASE e # Slash
  <2> DEFINE v == Append(l, e)
             y == Append(ps, l)
             m == Len(y)
  <2>1. v \in Seq(Byte)
    BY AppendProperties
  <2>2. y[m] = l
    BY AppendProperties, LenProperties
  <2>3. next(y, e) = [y EXCEPT ![m] = v]
    <3>1. Append(y[m], e) = v
      BY <2>2
    <3> HIDE DEF v, m
    <3> QED
      BY <1>14, <3>1, Zenon DEF next, m
  <2>4. [y EXCEPT ![m] = v] = Append(ps, v)
    <3> HIDE DEF v
    <3> QED
      BY <2>1, AppendExcept
  <2> HIDE DEF v, y
  <2>5. parts(t) = Append(ps, v)
    BY <1>12, <2>3, <2>4, Zenon DEF y
  <2> QED
    BY <1>14, <2>5, Zenon DEF v, t
<1> QED
  BY <1>13, <1>14

endsWith(x, ps, l) ==
    x \in Seq(Byte) /\ ps \in Seq(Seq(Byte)) /\ l \in Seq(Byte) /\ parts(x) = Append(ps, l)

LEMMA PartsOfEnd ==
    \A x, ps, l : \A e \in Byte :
        endsWith(x, ps, l) =>
            parts(Append(x, e)) = IF e = Slash THEN Append(parts(x), <<>>) ELSE Append(ps, Append(l, e))
  BY PartsAppend DEF endsWith

(* No part has a slash;                                                    *)
Plain == Byte \ {Slash}

LEMMA PlainParts == \A x \in Seq(Byte) : parts(x) \in Seq(Seq(Plain))
<1> DEFINE T == {x \in Seq(Byte) : parts(x) \in Seq(Seq(Plain))}
           P == Seq(Plain)
<1>0. <<>> \in P /\ <<>> \in Seq(P) /\ <<>> \in Seq(Byte) /\ Plain \subseteq Byte
  BY EmptySeq DEF Plain
<1>1. <<>> \in T
  <2>1. <<<<>>>> = Append(<<>>, <<>>)
    OBVIOUS
  <2>2. Append(<<>>, <<>>) \in Seq(P)
    <3> HIDE DEF P
    <3> QED
      BY <1>0, AppendProperties
  <2>3. parts(<<>>) \in Seq(P)
    BY <2>1, <2>2, PartsEmpty, Zenon
  <2> QED
    BY <1>0, <2>3
<1>2. ASSUME NEW x \in Seq(Byte), NEW e \in Byte, x \in T PROVE Append(x, e) \in T
  <2>1. PICK ps \in Seq(Seq(Byte)), l \in Seq(Byte) : parts(x) = Append(ps, l)
    BY PartsSplit
  <2>2. parts(x) \in Seq(P)
    BY <1>2
  <2>3. ps \in Seq(P) /\ l \in P
    <3> HIDE DEF P
    <3> DEFINE s == Append(ps, l)
               m == Len(ps)
    <3>1. /\ m \in Nat /\ Len(s) = m + 1 /\ s[m + 1] = l /\ \A i \in 1 .. m : s[i] = ps[i]
          /\ ps = [i \in 1 .. m |-> ps[i]]
      BY AppendProperties, LenProperties
    <3>2. s \in Seq(P)
      BY <2>1, <2>2
    <3> HIDE DEF s, m
    <3>3. \A i \in 1 .. (m + 1) : s[i] \in P
      BY <3>1, <3>2, ElementOfSeq
    <3>4. l \in P
      BY <3>1, <3>3
    <3>5. \A i \in 1 .. m : ps[i] \in P
      BY <3>1, <3>3
    <3>6. ps \in [1 .. m -> P]
      BY <3>1, <3>5
    <3> QED
      BY <3>1, <3>4, <3>6, SeqDef
  <2>4. parts(Append(x, e)) = IF e = Slash THEN Append(parts(x), <<>>) ELSE Append(ps, Append(l, e))
    BY <2>1, PartsAppend
  <2>5. Append(parts(x), <<>>) \in Seq(P)
    <3> HIDE DEF P
    <3> QED
      BY <1>0, <2>2, AppendProperties
  <2>6. ASSUME e # Slash PROVE Append(ps, Append(l, e)) \in Seq(P)
    <3>1. e \in Plain
      BY <2>6 DEF Plain
    <3>2. Append(l, e) \in P
      BY <2>3, <3>1, AppendProperties
    <3> HIDE DEF P
    <3> QED
      BY <2>3, <3>2, AppendProperties
  <2>7. parts(Append(x, e)) \in Seq(P)
    BY <2>4, <2>5, <2>6
  <2>8. Append(x, e) \in Seq(Byte)
    BY AppendProperties
  <2> QED
    BY <2>7, <2>8
<1> HIDE DEF T
<1>3. \A x \in Seq(Byte) : x \in T
  BY <1>1, <1>2, SeqInduction
<1> QED
  BY <1>3 DEF T

(* joined, they are the path behind one;                                   *)
LEMMA JoinedParts == \A x \in Seq(Byte) : joined(parts(x)) = <<Slash>> \o x
<1> DEFINE T == {x \in Seq(Byte) : joined(parts(x)) = <<Slash>> \o x}
           S == <<Slash>>
<1>0. S \in Seq(Byte) /\ <<>> \in Seq(Byte) /\ <<>> \in Seq(Seq(Byte))
  BY SlashIsByte, EmptySeq
<1>1. <<>> \in T
  <2>1. <<<<>>>> = Append(<<>>, <<>>)
    OBVIOUS
  <2>2. joined(Append(<<>>, <<>>)) = joined(<<>>) \o (S \o <<>>)
    BY <1>0, JoinedSteps
  <2>3. joined(<<>>) \o (S \o <<>>) = S \o <<>>
    <3>1. S \o <<>> \in Seq(Byte)
      BY <1>0, ConcatProperties
    <3> HIDE DEF S
    <3> QED
      BY <3>1, JoinedSteps, ConcatEmptySeq
  <2>4. joined(parts(<<>>)) = S \o <<>>
    BY <2>1, <2>2, <2>3, PartsEmpty, Zenon
  <2> QED
    BY <1>0, <2>4
<1>2. ASSUME NEW x \in Seq(Byte), NEW e \in Byte, x \in T PROVE Append(x, e) \in T
  <2>1. PICK ps \in Seq(Seq(Byte)), l \in Seq(Byte) : parts(x) = Append(ps, l)
    BY PartsSplit
  <2>2. parts(Append(x, e)) = IF e = Slash THEN Append(parts(x), <<>>) ELSE Append(ps, Append(l, e))
    BY <2>1, PartsAppend
  <2>3. joined(parts(x)) = S \o x /\ parts(x) \in Seq(Seq(Byte))
    BY <1>2, PartsSplit
  <2> DEFINE j == joined(ps)
             sl == S \o l
             sx == S \o x
  <2>4. j \in Seq(Byte) /\ joined(parts(x)) = j \o sl
    BY <2>1, JoinedSteps
  <2>5. sl \in Seq(Byte) /\ sx \in Seq(Byte) /\ Append(x, e) \in Seq(Byte)
    BY <1>0, ConcatProperties, AppendProperties
  <2> HIDE DEF T
  <2>6. S \o Append(x, e) = Append(sx, e)
    BY <1>0, ConcatAppend
  <2>7. joined(parts(Append(x, e))) = Append(sx, e)
    <3>1. CASE e = Slash
      <4>1. joined(Append(parts(x), <<>>)) = joined(parts(x)) \o (S \o <<>>)
        BY <1>0, <2>3, JoinedSteps
      <4>2. S \o <<>> = S
        BY <1>0, ConcatEmptySeq
      <4>3. sx \o <<e>> = Append(sx, e)
        <5> HIDE DEF sx
        <5> QED
          BY <2>5, AppendIsConcat
      <4>4. joined(Append(parts(x), <<>>)) = sx \o <<e>>
        BY <2>3, <3>1, <4>1, <4>2
      <4> QED
        BY <2>2, <3>1, <4>3, <4>4
    <3>2. CASE e # Slash
      <4> DEFINE le == Append(l, e)
      <4>1. le \in Seq(Byte)
        BY AppendProperties
      <4>2. joined(Append(ps, le)) = j \o (S \o le)
        <5> HIDE DEF le
        <5> QED
          BY <4>1, JoinedSteps
      <4>3. S \o le = Append(sl, e)
        BY <1>0, ConcatAppend
      <4>4. j \o Append(sl, e) = Append(j \o sl, e)
        <5> HIDE DEF j, sl
        <5> QED
          BY <2>4, <2>5, ConcatAppend
      <4>5. joined(Append(ps, le)) = Append(sx, e)
        <5> HIDE DEF le, j, sl
        <5> QED
          BY <2>3, <2>4, <4>2, <4>3, <4>4
      <4> HIDE DEF le
      <4> QED
        BY <2>2, <3>2, <4>5 DEF le
    <3> QED
      BY <3>1, <3>2
  <2> QED
    BY <2>5, <2>6, <2>7 DEF T
<1> HIDE DEF T
<1>3. \A x \in Seq(Byte) : x \in T
  BY <1>1, <1>2, SeqInduction
<1> QED
  BY <1>3 DEF T

(* so two paths with the same parts are the same;                          *)
LEMMA PartsInjective ==
    ASSUME NEW x \in Seq(Byte), NEW y \in Seq(Byte), parts(x) = parts(y)
    PROVE  x = y
<1> DEFINE S == <<Slash>>
<1>1. S \in Seq(Byte)
  BY SlashIsByte
<1>2. S \o x = S \o y
  BY JoinedParts, Zenon
<1> HIDE DEF S
<1> QED
  BY <1>1, <1>2, ConcatSimplifications

(* and a slash between two paths separates their parts.                    *)
LEMMA PartsConcat ==
    ASSUME NEW x \in Seq(Byte), NEW y \in Seq(Byte)
    PROVE  parts((x \o <<Slash>>) \o y) = parts(x) \o parts(y)
<1> DEFINE xs == x \o <<Slash>>
           T == {u \in Seq(Byte) : parts(xs \o u) = parts(x) \o parts(u)}
           O == Seq(Byte)
<1>0. /\ xs \in O /\ xs = Append(x, Slash) /\ <<>> \in O
      /\ parts(x) \in Seq(O)
  <2>1. Slash \in Byte
    BY SlashIsByte
  <2> QED
    BY <2>1, AppendIsConcat, AppendProperties, EmptySeq, PartsSplit
<1>1. <<>> \in T
  <2>1. PICK ps \in Seq(Seq(Byte)), l \in Seq(Byte) : parts(x) = Append(ps, l)
    BY PartsSplit
  <2>2. parts(xs) = Append(parts(x), <<>>)
    BY <1>0, <2>1, SlashIsByte, PartsAppend
  <2>3. Append(parts(x), <<>>) = parts(x) \o <<<<>>>>
    <3> HIDE DEF O
    <3> QED
      BY <1>0, AppendIsConcat
  <2>4. xs \o <<>> = xs
    <3> HIDE DEF xs
    <3> QED
      BY <1>0, ConcatEmptySeq
  <2>5. parts(xs \o <<>>) = parts(x) \o parts(<<>>)
    <3> HIDE DEF xs
    <3> QED
      BY <2>2, <2>3, <2>4, PartsEmpty, Zenon
  <2> QED
    BY <1>0, <2>5
<1>2. ASSUME NEW u \in Seq(Byte), NEW e \in Byte, u \in T PROVE Append(u, e) \in T
  <2> DEFINE z == xs \o u
             a == parts(x)
  <2>1. PICK ps \in Seq(Seq(Byte)), l \in Seq(Byte) : parts(u) = Append(ps, l)
    BY PartsSplit
  <2>2. parts(u) \in Seq(O) /\ Append(l, e) \in O /\ Append(u, e) \in Seq(Byte)
    BY PartsSplit, AppendProperties
  <2>3. parts(z) = a \o parts(u)
    BY <1>2
  <2> HIDE DEF T
  <2>4. z \in Seq(Byte) /\ xs \o Append(u, e) = Append(z, e)
    <3> HIDE DEF xs
    <3>1. xs \o u \in Seq(Byte)
      BY <1>0, ConcatProperties
    <3>2. xs \o Append(u, e) = Append(xs \o u, e)
      BY <1>0, ConcatAppend
    <3> QED
      BY <3>1, <3>2
  <2> HIDE DEF z
  <2>5. ps \in Seq(O) /\ l \in O /\ a \in Seq(O)
    BY <1>0, <2>1
  <2> DEFINE aps == a \o ps
             le == Append(l, e)
  <2> HIDE DEF O, a
  <2>6. aps \in Seq(O) /\ parts(z) = Append(aps, l)
    <3>1. a \o ps \in Seq(O)
      BY <2>5, ConcatProperties
    <3>2. a \o Append(ps, l) = Append(a \o ps, l)
      BY <2>5, ConcatAppend, SMTT(30)
    <3> QED
      BY <2>1, <2>3, <3>1, <3>2
  <2>7. /\ a \o Append(parts(u), <<>>) = Append(a \o parts(u), <<>>)
        /\ a \o Append(ps, le) = Append(aps, le)
    <3>1. le \in O
      BY <2>2
    <3> HIDE DEF le
    <3>2. <<>> \in O
      BY <1>0
    <3>3. a \o Append(parts(u), <<>>) = Append(a \o parts(u), <<>>)
      BY <2>2, <2>5, <3>2, ConcatAppend
    <3>4. a \o Append(ps, le) = Append(a \o ps, le)
      BY <2>5, <3>1, ConcatAppend, SMTT(30)
    <3> QED
      BY <3>3, <3>4
  <2> HIDE DEF aps
  <2>8. parts(Append(z, e)) = IF e = Slash THEN Append(parts(z), <<>>) ELSE Append(aps, le)
    <3>1. endsWith(z, aps, l)
      BY <2>4, <2>5, <2>6 DEF O, endsWith
    <3> HIDE DEF O
    <3>2. parts(Append(z, e)) = IF e = Slash THEN Append(parts(z), <<>>) ELSE Append(aps, Append(l, e))
      BY <3>1, PartsOfEnd
    <3> QED
      BY <3>2 DEF le
  <2>9. parts(Append(u, e)) = IF e = Slash THEN Append(parts(u), <<>>) ELSE Append(ps, le)
    BY <2>1, PartsAppend, ZenonT(30) DEF O
  <2> HIDE DEF le
  <2>10. parts(Append(z, e)) = a \o parts(Append(u, e))
    <3>1. CASE e = Slash
      BY <2>3, <2>7, <2>8, <2>9, <3>1, Zenon
    <3>2. CASE e # Slash
      BY <2>7, <2>8, <2>9, <3>2, Zenon
    <3> QED
      BY <3>1, <3>2
  <2> QED
    BY <2>2, <2>4, <2>10 DEF T, a
<1> HIDE DEF T
<1>3. \A u \in Seq(Byte) : u \in T
  BY <1>1, <1>2, SeqInduction
<1> QED
  BY <1>3 DEF T

(* A path without slashes has one part;                                    *)
LEMMA OnePart == \A p \in Seq(Plain) : parts(p) = <<p>>
<1> DEFINE T == {p \in Seq(Plain) : parts(p) = <<p>>}
<1>1. <<>> \in T
  BY EmptySeq, PartsEmpty
<1>2. ASSUME NEW p \in Seq(Plain), NEW e \in Plain, p \in T PROVE Append(p, e) \in T
  <2>1. e \in Byte /\ e # Slash /\ p \in Seq(Byte) /\ <<>> \in Seq(Seq(Byte))
    <3>1. Plain \subseteq Byte
      BY DEF Plain
    <3> QED
      BY <3>1, SeqMonotonic, EmptySeq DEF Plain
  <2>2. <<p>> = Append(<<>>, p) /\ <<Append(p, e)>> = Append(<<>>, Append(p, e))
    OBVIOUS
  <2>3. parts(p) = Append(<<>>, p)
    BY <1>2, <2>2
  <2>4. parts(Append(p, e)) = Append(<<>>, Append(p, e))
    BY <2>1, <2>3, PartsAppend
  <2>5. Append(p, e) \in Seq(Plain)
    BY AppendProperties
  <2> QED
    BY <2>2, <2>4, <2>5
<1> HIDE DEF T
<1>3. \A p \in Seq(Plain) : p \in T
  BY <1>1, <1>2, SeqInduction
<1> QED
  BY <1>3 DEF T

(* another is cut at its first slash.                                      *)
LEMMA CutAtSlash ==
    \A x \in Seq(Byte) :
        \/ x \in Seq(Plain)
        \/ \E p \in Seq(Plain), y \in Seq(Byte) : x = (p \o <<Slash>>) \o y
<1> DEFINE cut(x, p, y) == x = (p \o <<Slash>>) \o y
           T == {x \in Seq(Byte) : x \in Seq(Plain) \/ \E p \in Seq(Plain), y \in Seq(Byte) : cut(x, p, y)}
<1>0. Plain \subseteq Byte /\ Slash \in Byte
  BY SlashIsByte DEF Plain
<1>1. <<>> \in T
  BY EmptySeq
<1>2. ASSUME NEW x \in Seq(Byte), NEW e \in Byte, x \in T PROVE Append(x, e) \in T
  <2>0. Append(x, e) \in Seq(Byte)
    BY AppendProperties
  <2>1. CASE x \in Seq(Plain) /\ e # Slash
    <3>1. Append(x, e) \in Seq(Plain)
      <4>1. e \in Plain
        BY <2>1 DEF Plain
      <4> QED
        BY <2>1, <4>1, AppendProperties
    <3> QED
      BY <2>0, <3>1
  <2>2. CASE x \in Seq(Plain) /\ e = Slash
    <3>1. Append(x, e) = x \o <<Slash>>
      BY <2>2, AppendIsConcat
    <3>2. (x \o <<Slash>>) \o <<>> = x \o <<Slash>>
      BY <2>0, <3>1, ConcatEmptySeq
    <3>3. cut(Append(x, e), x, <<>>)
      BY <3>1, <3>2
    <3> QED
      BY <2>0, <2>2, <3>3, EmptySeq
  <2>3. CASE \E p \in Seq(Plain), y \in Seq(Byte) : cut(x, p, y)
    <3>1. PICK p \in Seq(Plain), y \in Seq(Byte) : cut(x, p, y)
      BY <2>3
    <3> DEFINE ps == p \o <<Slash>>
    <3>2. ps \in Seq(Byte)
      <4>1. p \in Seq(Byte) /\ <<Slash>> \in Seq(Byte)
        BY <1>0, SeqMonotonic
      <4> QED
        BY <4>1, ConcatProperties
    <3>3. x = ps \o y
      BY <3>1
    <3>4. ps \o Append(y, e) = Append(ps \o y, e)
      <4> HIDE DEF ps
      <4> QED
        BY <3>2, ConcatAppend
    <3>5. cut(Append(x, e), p, Append(y, e)) /\ Append(y, e) \in Seq(Byte)
      BY <3>3, <3>4, AppendProperties
    <3> HIDE DEF cut
    <3> QED
      BY <2>0, <3>5
  <2> QED
    BY <1>2, <2>1, <2>2, <2>3
<1> HIDE DEF T
<1>3. \A x \in Seq(Byte) : x \in T
  BY <1>1, <1>2, SeqInduction
<1> QED
  BY <1>3 DEF T

-----------------------------------------------------------------------------
(* The URI-Path options that SetURIPath makes of a path, joined again.     *)
carriedPath(path) == joined(filled(parts(path)))

LEMMA CarriedPathType == \A x \in Seq(Byte) : carriedPath(x) \in Seq(Byte)
<1> SUFFICES ASSUME NEW x \in Seq(Byte) PROVE carriedPath(x) \in Seq(Byte)
  OBVIOUS
<1>1. parts(x) \in Seq(Seq(Byte)) /\ <<>> \in Seq(Byte)
  BY PartsSplit, EmptySeq
<1>2. filled(parts(x)) \in Seq(Seq(Byte))
  BY <1>1, FilledSteps
<1> QED
  BY <1>1, <1>2, JoinedSteps DEF carriedPath

LEMMA CarriedPathConcat ==
    ASSUME NEW x \in Seq(Byte), NEW y \in Seq(Byte)
    PROVE  carriedPath((x \o <<Slash>>) \o y) = carriedPath(x) \o carriedPath(y)
<1> DEFINE a == parts(x)
           b == parts(y)
           fa == filled(a)
           fb == filled(b)
<1>1. a \in Seq(Seq(Byte)) /\ b \in Seq(Seq(Byte)) /\ <<>> \in Seq(Byte)
  BY PartsSplit, EmptySeq
<1>2. parts((x \o <<Slash>>) \o y) = a \o b
  BY PartsConcat
<1>3. fa \in Seq(Seq(Byte)) /\ fb \in Seq(Seq(Byte))
  BY <1>1, FilledSteps
<1> HIDE DEF a, b
<1>4. filled(a \o b) = fa \o fb
  BY <1>1, FilledConcat
<1> HIDE DEF fa, fb
<1>5. joined(fa \o fb) = joined(fa) \o joined(fb)
  BY <1>3, JoinedConcat
<1> QED
  BY <1>2, <1>4, <1>5 DEF carriedPath, fa, fb, a, b

LEMMA CarriedOnePart ==
    \A p \in Seq(Plain) : /\ p \in Seq(Byte)
                          /\ carriedPath(p) = IF p = <<>> THEN <<>> ELSE <<Slash>> \o p
<1> SUFFICES ASSUME NEW p \in Seq(Plain)
             PROVE  p \in Seq(Byte) /\ carriedPath(p) = IF p = <<>> THEN <<>> ELSE <<Slash>> \o p
  OBVIOUS
<1>1. p \in Seq(Byte) /\ <<>> \in Seq(Byte) /\ <<>> \in Seq(Seq(Byte))
  <2>1. Plain \subseteq Byte
    BY DEF Plain
  <2> QED
    BY <2>1, SeqMonotonic, EmptySeq
<1>2. parts(p) = Append(<<>>, p)
  <2>1. Append(<<>>, p) = <<p>>
    OBVIOUS
  <2> QED
    BY <2>1, OnePart
<1>3. filled(Append(<<>>, p)) = IF p = <<>> THEN <<>> ELSE Append(<<>>, p)
  BY <1>1, FilledSteps
<1>4. joined(Append(<<>>, p)) = <<Slash>> \o p
  <2> DEFINE sp == <<Slash>> \o p
  <2>1. sp \in Seq(Byte)
    BY <1>1, SlashIsByte, ConcatProperties
  <2>2. joined(Append(<<>>, p)) = joined(<<>>) \o sp
    BY <1>1, JoinedSteps
  <2> HIDE DEF sp
  <2>3. <<>> \o sp = sp
    BY <2>1, ConcatEmptySeq
  <2> QED
    BY <2>2, <2>3, JoinedSteps DEF sp
<1> QED
  BY <1>1, <1>2, <1>3, <1>4, JoinedSteps DEF carriedPath

LEMMA CarriedPathAppend ==
    ASSUME NEW x \in Seq(Byte), NEW e \in Byte
    PROVE  LET c == carriedPath(x)
           IN  carriedPath(Append(x, e)) \in IF e = Slash THEN {c}
                                                          ELSE {Append(c, e), Append(Append(c, Slash), e)}
<1> DEFINE c == carriedPath(x)
           S == <<Slash>>
<1>1. PICK ps \in Seq(Seq(Byte)), l \in Seq(Byte) : parts(x) = Append(ps, l)
  BY PartsSplit
<1>2. parts(Append(x, e)) = IF e = Slash THEN Append(parts(x), <<>>) ELSE Append(ps, Append(l, e))
  BY <1>1, PartsAppend
<1>3. S \in Seq(Byte) /\ <<>> \in Seq(Byte) /\ parts(x) \in Seq(Seq(Byte)) /\ c \in Seq(Byte)
  BY SlashIsByte, EmptySeq, PartsSplit, CarriedPathType
<1>4. CASE e = Slash
  <2>1. filled(Append(parts(x), <<>>)) = filled(parts(x))
    BY <1>3, FilledSteps
  <2> QED
    BY <1>2, <1>4, <2>1 DEF carriedPath
<1>5. CASE e # Slash
  <2> DEFINE f == filled(ps)
             j == joined(f)
             le == Append(l, e)
             sl == S \o l
  <2>1. f \in Seq(Seq(Byte)) /\ le \in Seq(Byte) /\ le # <<>> /\ sl \in Seq(Byte)
    <3>1. f \in Seq(Seq(Byte))
      BY <1>1, FilledSteps
    <3>2. le \in Seq(Byte) /\ le # <<>>
      BY AppendProperties
    <3>3. sl \in Seq(Byte)
      BY <1>3, ConcatProperties
    <3> QED
      BY <3>1, <3>2, <3>3
  <2>2. j \in Seq(Byte)
    BY <1>3, <2>1, JoinedSteps
  <2>3. filled(Append(ps, le)) = Append(f, le)
    <3> HIDE DEF le, f
    <3> QED
      BY <2>1, FilledSteps DEF f
  <2>4. carriedPath(Append(x, e)) = j \o (S \o le)
    <3>1. joined(Append(f, le)) = j \o (S \o le)
      <4> HIDE DEF f, le
      <4> QED
        BY <2>1, JoinedSteps
    <3> HIDE DEF f, le, j
    <3> QED
      BY <1>2, <1>5, <2>3, <3>1 DEF carriedPath, le
  <2>5. S \o le = Append(sl, e)
    BY <1>3, ConcatAppend
  <2>6. j \o Append(sl, e) = Append(j \o sl, e)
    <3> HIDE DEF j, sl
    <3> QED
      BY <2>1, <2>2, ConcatAppend
  <2>7. carriedPath(Append(x, e)) = Append(j \o sl, e)
    BY <2>4, <2>5, <2>6
  <2>8. CASE l = <<>>
    <3>1. c = j
      <4>1. filled(Append(ps, <<>>)) = f
        BY <1>3, FilledSteps
      <4> QED
        BY <1>1, <2>8, <4>1 DEF carriedPath
    <3>2. sl = S
      BY <1>3, <2>8, ConcatEmptySeq
    <3>3. j \o S = Append(j, Slash)
      <4> HIDE DEF j
      <4> QED
        BY <2>2, SlashIsByte, AppendIsConcat
    <3> HIDE DEF c, j, sl
    <3> QED
      BY <1>5, <2>7, <3>1, <3>2, <3>3 DEF c
  <2>9. CASE l # <<>>
    <3>1. filled(parts(x)) = Append(f, l)
      BY <1>1, <2>9, FilledSteps
    <3>2. joined(Append(f, l)) = j \o sl
      <4> HIDE DEF f
      <4> QED
        BY <2>1, JoinedSteps
    <3>3. c = j \o sl
      BY <3>1, <3>2 DEF carriedPath
    <3> HIDE DEF c, j, sl
    <3> QED
      BY <1>5, <2>7, <3>3 DEF c
  <2> QED
    BY <2>8, <2>9
<1> QED
  BY <1>4, <1>5

(* Options whose values have no slash come back from what they are joined  *)
(* to.                                                                     *)
LEMMA PartsJoined ==
    ASSUME NEW qs \in Seq(Seq(Plain)), NEW u \in Seq(Byte), joined(qs) = <<Slash>> \o u
    PROVE  parts(u) = qs
<1> DEFINE P == Seq(Plain)
           O == Seq(Byte)
           none == <<<<>>>>
           T == {s \in Seq(P) : s \in Seq(O) /\ parts(joined(s)) = none \o s}
<1>0. P \subseteq O /\ <<>> \in Seq(P) /\ <<>> \in Seq(O) /\ <<>> \in O
  <2>1. Plain \subseteq Byte
    BY DEF Plain
  <2> QED
    BY <2>1, SeqMonotonic, EmptySeq
<1>00. none \in Seq(O)
  <2> HIDE DEF O
  <2> QED
    BY <1>0
<1>1. <<>> \in T
  <2>1. none \o <<>> = none
    <3> HIDE DEF none
    <3> QED
      BY <1>00, ConcatEmptySeq
  <2>2. parts(joined(<<>>)) = none
    BY JoinedSteps, PartsEmpty, Zenon
  <2> QED
    BY <1>0, <2>1, <2>2, Zenon
<1>2. ASSUME NEW s \in Seq(P), NEW p \in P, s \in T PROVE Append(s, p) \in T
  <2>1. s \in Seq(O) /\ parts(joined(s)) = none \o s /\ p \in O
    BY <1>0, <1>2
  <2> HIDE DEF T
  <2>2. Append(s, p) \in Seq(P) /\ Append(s, p) \in Seq(O)
    <3> HIDE DEF P, O
    <3> QED
      BY <2>1, AppendProperties
  <2> DEFINE j == joined(s)
             S == <<Slash>>
  <2>3. j \in Seq(Byte) /\ S \in Seq(Byte) /\ p \in Seq(Byte)
    BY <1>0, <2>1, JoinedSteps, SlashIsByte
  <2>4. joined(Append(s, p)) = j \o (S \o p)
    BY <2>1, JoinedSteps
  <2>5. parts((j \o S) \o p) = parts(j) \o parts(p)
    <3> HIDE DEF j
    <3> QED
      BY <2>3, PartsConcat
  <2>6. (j \o S) \o p = j \o (S \o p)
    <3> HIDE DEF j, S, P, O
    <3> QED
      BY <2>3, Associates, SMTT(30)
  <2>7. parts(joined(Append(s, p))) = (none \o s) \o <<p>>
    <3>1. parts(p) = <<p>>
      BY OnePart
    <3> HIDE DEF S, none
    <3> QED
      BY <2>1, <2>4, <2>5, <2>6, <3>1, Zenon
  <2>8. (none \o s) \o <<p>> = Append(none \o s, p) /\ none \o Append(s, p) = Append(none \o s, p)
    <3> HIDE DEF none, O, P
    <3>1. none \o s \in Seq(O)
      BY <1>00, <2>1, ConcatProperties
    <3>2. (none \o s) \o <<p>> = Append(none \o s, p)
      BY <2>1, <3>1, AppendIsConcat
    <3>3. none \o Append(s, p) = Append(none \o s, p)
      BY <1>00, <2>1, ConcatAppend
    <3> QED
      BY <3>2, <3>3
  <2> QED
    BY <2>2, <2>7, <2>8 DEF T
<1> HIDE DEF T
<1>3. \A s \in Seq(P) : s \in T
  BY <1>1, <1>2, SeqInduction
<1>4. qs \in Seq(O) /\ parts(<<Slash>> \o u) = none \o qs
  BY <1>3 DEF T
<1>5. parts((<<>> \o <<Slash>>) \o u) = none \o parts(u)
  BY <1>0, PartsConcat, PartsEmpty
<1>6. <<>> \o <<Slash>> = <<Slash>>
  OBVIOUS
<1>7. none \o parts(u) = none \o qs
  BY <1>4, <1>5, <1>6, Zenon
<1>8. parts(u) \in Seq(O)
  BY PartsSplit
<1> HIDE DEF none, O
<1> QED
  BY <1>00, <1>4, <1>7, <1>8, ConcatSimplifications

-----------------------------------------------------------------------------
(* What strings.Trim takes off, and what it leaves.                        *)
Edge == {Slash, Space}

tight(t) == t = <<>> \/ (t[1] \notin Edge /\ t[Len(t)] \notin Edge)

edged(x, a, t, b) ==
    a \in Seq(Edge) /\ b \in Seq(Edge) /\ t \in Seq(Byte) /\ tight(t) /\ x = (a \o t) \o b

LEMMA EdgedPlaces ==
    ASSUME NEW x, NEW a, NEW t, NEW b, edged(x, a, t, b)
    PROVE  /\ Len(a) \in Nat /\ Len(t) \in Nat /\ Len(b) \in Nat
           /\ a \in Seq(Byte) /\ b \in Seq(Byte) /\ t \in Seq(Byte) /\ x \in Seq(Byte)
           /\ DOMAIN x = 1 .. (Len(a) + Len(t) + Len(b))
           /\ Len(x) = Len(a) + Len(t) + Len(b)
           /\ \A i \in 1 .. Len(a) : x[i] \in Edge
           /\ \A i \in 1 .. Len(t) : x[Len(a) + i] = t[i]
           /\ \A i \in 1 .. Len(b) : x[Len(a) + Len(t) + i] \in Edge
<1> DEFINE lead == a \o t
<1>1. /\ a \in Seq(Byte) /\ b \in Seq(Byte) /\ t \in Seq(Byte)
      /\ Len(a) \in Nat /\ Len(t) \in Nat /\ Len(b) \in Nat
  <2>1. Edge \subseteq Byte
    BY SlashIsByte DEF Edge
  <2>2. a \in Seq(Byte) /\ b \in Seq(Byte) /\ t \in Seq(Byte)
    BY <2>1, SeqMonotonic DEF edged
  <2> QED
    BY <2>2, LenProperties
<1>2. \A i \in 1 .. Len(a) : a[i] \in Edge
  BY ElementOfSeq DEF edged
<1>3. \A i \in 1 .. Len(b) : b[i] \in Edge
  BY ElementOfSeq DEF edged
<1>4. joins(lead, a, t)
  BY DEF joins
<1>5. x = lead \o b
  BY DEF edged
<1> HIDE DEF lead
<1>6. lead \in Seq(Byte) /\ follows(lead, a, t)
  BY <1>1, <1>4, TwoParts
<1>7. joins(x, lead, b)
  BY <1>5 DEF joins
<1>8. x \in Seq(Byte) /\ follows(x, lead, b)
  BY <1>1, <1>6, <1>7, TwoParts
<1>9. Len(x) = Len(a) + Len(t) + Len(b) /\ Len(lead) = Len(a) + Len(t)
  BY <1>1, <1>6, <1>8 DEF follows
<1>10. ASSUME NEW i \in 1 .. Len(a) PROVE x[i] \in Edge
  <2>1. i \in 1 .. Len(lead)
    BY <1>1, <1>9
  <2> QED
    BY <1>2, <1>6, <1>8, <2>1 DEF follows
<1>11. ASSUME NEW i \in 1 .. Len(t) PROVE x[Len(a) + i] = t[i]
  <2>1. Len(a) + i \in 1 .. Len(lead)
    BY <1>1, <1>9
  <2> QED
    BY <1>6, <1>8, <2>1 DEF follows
<1>12. ASSUME NEW i \in 1 .. Len(b) PROVE x[Len(a) + Len(t) + i] \in Edge
  BY <1>3, <1>8, <1>9 DEF follows
<1>13. DOMAIN x = 1 .. Len(x)
  BY <1>8, LenProperties
<1> QED
  BY <1>1, <1>8, <1>9, <1>10, <1>11, <1>12, <1>13

LEMMA TrimOf ==
    ASSUME NEW x, NEW a, NEW t, NEW b, edged(x, a, t, b)
    PROVE  trim(x) = t
<1> DEFINE m == Len(a)
           n == Len(t)
           k == Len(b)
           K == {i \in DOMAIN x : x[i] \notin {Slash, Space}}
<1>1. /\ m \in Nat /\ n \in Nat /\ k \in Nat
      /\ t \in Seq(Byte) /\ x \in Seq(Byte)
      /\ DOMAIN x = 1 .. (m + n + k)
      /\ Len(x) = m + n + k
      /\ \A i \in 1 .. m : x[i] \in Edge
      /\ \A i \in 1 .. n : x[m + i] = t[i]
      /\ \A i \in 1 .. k : x[m + n + i] \in Edge
  BY EdgedPlaces
<1>2. tight(t)
  BY DEF edged
<1>3. trim(x) = IF K = {} THEN <<>> ELSE SubSeq(x, Min(K), Max(K))
  BY DEF trim
<1>4. \A i : i \in K <=> i \in 1 .. (m + n + k) /\ x[i] \notin Edge
  BY <1>1 DEF Edge
<1> HIDE DEF K, m, n, k
<1>5. \A i \in K : i \in (m + 1) .. (m + n)
  <2> SUFFICES ASSUME NEW i \in K PROVE i \in (m + 1) .. (m + n)
    OBVIOUS
  <2>1. i \in 1 .. (m + n + k) /\ x[i] \notin Edge
    BY <1>4
  <2>2. i \notin 1 .. m
    BY <1>1, <2>1
  <2>3. ASSUME i > m + n PROVE FALSE
    <3>1. PICK j \in 1 .. k : i = m + n + j
      <4>1. i - (m + n) \in 1 .. k /\ i = m + n + (i - (m + n))
        BY <1>1, <2>1, <2>3
      <4> QED
        BY <4>1
    <3> QED
      BY <1>1, <2>1, <3>1
  <2> QED
    BY <1>1, <2>1, <2>2, <2>3
<1>6. CASE t = <<>>
  <2>1. n = 0
    BY <1>6 DEF n
  <2>2. K = {}
    BY <1>1, <1>5, <2>1
  <2> QED
    BY <1>3, <1>6, <2>2
<1>7. CASE t # <<>>
  <2>1. n \in Nat \ {0}
    BY <1>1, <1>7, EmptySeq DEF n
  <2>2. t[1] \notin Edge /\ t[n] \notin Edge
    BY <1>2, <1>7 DEF tight, n
  <2>3. m + 1 \in K
    <3>1. 1 \in 1 .. n /\ m + 1 \in 1 .. (m + n + k)
      BY <1>1, <2>1
    <3> QED
      BY <1>1, <1>4, <2>2, <3>1
  <2>4. m + n \in K
    <3>1. n \in 1 .. n /\ m + n \in 1 .. (m + n + k)
      BY <1>1, <2>1
    <3> QED
      BY <1>1, <1>4, <2>2, <3>1
  <2>5. Min(K) = m + 1
    <3>1. \A j \in K : m + 1 <= j
      BY <1>1, <1>5
    <3>2. ASSUME NEW i \in K, \A j \in K : i <= j PROVE i = m + 1
      <4>1. i <= m + 1 /\ m + 1 <= i /\ i \in Int
        BY <1>1, <1>5, <2>3, <3>1, <3>2
      <4> QED
        BY <1>1, <4>1
    <3> QED
      BY <2>3, <3>1, <3>2 DEF Min
  <2>6. Max(K) = m + n
    <3>1. \A j \in K : m + n >= j
      BY <1>1, <1>5
    <3>2. ASSUME NEW i \in K, \A j \in K : i >= j PROVE i = m + n
      <4>1. i >= m + n /\ m + n >= i /\ i \in Int
        BY <1>1, <1>5, <2>4, <3>1, <3>2
      <4> QED
        BY <1>1, <4>1
    <3> QED
      BY <2>4, <3>1, <3>2 DEF Max
  <2>7. SubSeq(x, m + 1, m + n) = t
    <3>1. m + Len(t) <= Len(x) /\ \A i \in 1 .. Len(t) : x[m + i] = t[i]
      BY <1>1 DEF n
    <3> QED
      BY <1>1, <3>1, Slice DEF n
  <2> QED
    BY <1>3, <2>3, <2>5, <2>6, <2>7
<1> QED
  BY <1>6, <1>7

(* Every string has edges, empty ones if need be.                          *)
LEMMA Edges == \A x \in Seq(Byte) : \E a, t, b : edged(x, a, t, b)
<1> DEFINE T == {x \in Seq(Byte) : \E a, t, b : edged(x, a, t, b)}
<1>0. \A A : <<>> \in Seq(A)
  BY EmptySeq
<1>1. <<>> \in T
  <2>1. edged(<<>>, <<>>, <<>>, <<>>)
    BY <1>0 DEF edged, tight
  <2> QED
    BY <1>0, <2>1
<1>2. ASSUME NEW x \in Seq(Byte), NEW e \in Byte, x \in T PROVE Append(x, e) \in T
  <2>1. PICK a, t, b : edged(x, a, t, b)
    BY <1>2
  <2> HIDE DEF T
  <2>2. a \in Seq(Byte) /\ t \in Seq(Byte) /\ b \in Seq(Byte) /\ x = (a \o t) \o b
    BY <2>1, EdgedPlaces DEF edged
  <2>3. a \in Seq(Edge) /\ b \in Seq(Edge) /\ tight(t)
    BY <2>1 DEF edged
  <2> DEFINE lead == a \o t
             tb == t \o b
             be == Append(b, e)
             te == Append(tb, e)
  <2>4. lead \in Seq(Byte) /\ tb \in Seq(Byte)
    BY <2>2, ConcatProperties
  <2>5. x = lead \o b
    BY <2>2
  <2>6. CASE e \in Edge
    <3>1. be \in Seq(Edge)
      BY <2>3, <2>6, AppendProperties
    <3>2. Append(x, e) = lead \o be
      <4> HIDE DEF lead
      <4>1. lead \o Append(b, e) = Append(lead \o b, e)
        BY <2>2, <2>4, ConcatAppend, SMTT(30)
      <4> QED
        BY <2>5, <4>1
    <3>3. edged(Append(x, e), a, t, be)
      <4> HIDE DEF be
      <4> QED
        BY <2>2, <2>3, <3>1, <3>2 DEF edged
    <3> QED
      BY <3>3, AppendProperties DEF T
  <2>7. CASE e \notin Edge /\ t # <<>>
    <3>1. x = a \o tb
      <4> HIDE DEF T, tb, lead
      <4>1. (a \o t) \o b = a \o (t \o b)
        BY <2>2, Associates, SMTT(30)
      <4> QED
        BY <2>2, <4>1 DEF tb
    <3>2. Append(x, e) = a \o te
      <4> HIDE DEF tb
      <4>1. a \o Append(tb, e) = Append(a \o tb, e)
        BY <2>2, <2>4, ConcatAppend, SMTT(30)
      <4> QED
        BY <3>1, <4>1
    <3>3. te \in Seq(Byte) /\ tight(te)
      <4>1. joins(tb, t, b)
        BY DEF joins
      <4> HIDE DEF tb
      <4>2. follows(tb, t, b)
        BY <2>2, <4>1, TwoParts
      <4>3. Len(t) \in Nat \ {0} /\ Len(b) \in Nat
        BY <2>2, <2>7, EmptySeq, LenProperties
      <4>4. 1 \in 1 .. Len(t) /\ 1 \in 1 .. Len(tb) /\ Len(tb) \in Nat
        BY <4>2, <4>3 DEF follows
      <4>5. /\ te \in Seq(Byte) /\ Len(te) = Len(tb) + 1 /\ te[Len(tb) + 1] = e
            /\ \A i \in 1 .. Len(tb) : te[i] = tb[i]
        BY <2>4, AppendProperties
      <4>6. te[1] = t[1] /\ te[Len(te)] = e
        BY <4>2, <4>4, <4>5 DEF follows
      <4>7. t[1] \notin Edge
        BY <2>3, <2>7 DEF tight
      <4> HIDE DEF te
      <4> QED
        BY <2>7, <4>5, <4>6, <4>7 DEF tight
    <3> HIDE DEF te
    <3>4. (a \o te) \o <<>> = a \o te
      <4>1. a \o te \in Seq(Byte)
        BY <2>2, <3>3, ConcatProperties
      <4> QED
        BY <4>1, ConcatEmptySeq
    <3>5. edged(Append(x, e), a, te, <<>>)
      BY <1>0, <2>3, <3>2, <3>3, <3>4 DEF edged
    <3> QED
      BY <3>5, AppendProperties DEF T
  <2>8. CASE e \notin Edge /\ t = <<>>
    <3> DEFINE ab == a \o b
               one == <<e>>
    <3>1. ab \in Seq(Edge) /\ one \in Seq(Byte) /\ tight(one)
      <4>1. ab \in Seq(Edge)
        BY <2>3, ConcatProperties
      <4>2. one[1] = e /\ Len(one) = 1 /\ one \in Seq(Byte)
        OBVIOUS
      <4> HIDE DEF ab, one
      <4> QED
        BY <2>8, <4>1, <4>2 DEF tight
    <3>2. x = ab
      BY <2>2, <2>8, ConcatEmptySeq
    <3>3. Append(x, e) = ab \o one /\ Append(x, e) \in Seq(Byte)
      BY <3>2, AppendIsConcat, AppendProperties
    <3>4. Append(x, e) \o <<>> = Append(x, e)
      BY <3>3, ConcatEmptySeq
    <3> HIDE DEF ab, one
    <3>5. edged(Append(x, e), ab, one, <<>>)
      BY <1>0, <3>1, <3>3, <3>4 DEF edged
    <3> QED
      BY <3>5, AppendProperties DEF T
  <2> QED
    BY <2>6, <2>7, <2>8
<1> HIDE DEF T
<1>3. \A x \in Seq(Byte) : x \in T
  BY <1>1, <1>2, SeqInduction
<1> QED
  BY <1>3 DEF T

(* What is trimmed is tight, and stays what it is.                         *)
LEMMA Trimmed ==
    ASSUME NEW x \in Seq(Byte)
    PROVE  trim(x) \in Seq(Byte) /\ tight(trim(x))
<1>1. PICK a, t, b : edged(x, a, t, b)
  BY Edges
<1>2. trim(x) = t
  BY <1>1, TrimOf
<1> QED
  BY <1>1, <1>2 DEF edged

LEMMA TrimTight ==
    ASSUME NEW t \in Seq(Byte), tight(t)
    PROVE  trim(t) = t
<1>1. (<<>> \o t) \o <<>> = t /\ <<>> \in Seq(Edge)
  BY ConcatEmptySeq, EmptySeq
<1>2. edged(t, <<>>, t, <<>>)
  BY <1>1 DEF edged
<1> QED
  BY <1>2, TrimOf

(* One more slash or space at either end makes no difference.              *)
LEMMA TrimAppend ==
    ASSUME NEW x \in Seq(Byte), NEW e \in Edge
    PROVE  trim(Append(x, e)) = trim(x)
<1>1. PICK a, t, b : edged(x, a, t, b)
  BY Edges
<1> DEFINE lead == a \o t
           be == Append(b, e)
<1>2. /\ a \in Seq(Edge) /\ b \in Seq(Edge) /\ t \in Seq(Byte) /\ tight(t) /\ x = lead \o b
      /\ a \in Seq(Byte) /\ b \in Seq(Byte)
  BY <1>1, EdgedPlaces DEF edged
<1>3. be \in Seq(Edge) /\ lead \in Seq(Byte) /\ e \in Byte
  BY <1>2, AppendProperties, ConcatProperties, SlashIsByte DEF Edge
<1>4. lead \o Append(b, e) = Append(lead \o b, e)
  <2> HIDE DEF lead
  <2> QED
    BY <1>2, <1>3, ConcatAppend, SMTT(30)
<1>5. Append(x, e) = lead \o be
  BY <1>2, <1>4
<1> HIDE DEF be
<1>6. edged(Append(x, e), a, t, be)
  BY <1>2, <1>3, <1>5 DEF edged
<1>7. trim(x) = t /\ trim(Append(x, e)) = t
  BY <1>1, <1>6, TrimOf
<1> QED
  BY <1>7

LEMMA TrimPrepend ==
    ASSUME NEW x \in Seq(Byte), NEW e \in Edge
    PROVE  trim(<<e>> \o x) = trim(x)
<1>1. PICK a, t, b : edged(x, a, t, b)
  BY Edges
<1> DEFINE lead == a \o t
           one == <<e>>
           ea == one \o a
           eat == ea \o t
<1>2. /\ a \in Seq(Edge) /\ b \in Seq(Edge) /\ t \in Seq(Byte) /\ tight(t) /\ x = lead \o b
      /\ a \in Seq(Byte) /\ b \in Seq(Byte)
  BY <1>1, EdgedPlaces DEF edged
<1>3. one \in Seq(Edge) /\ one \in Seq(Byte)
  <2>1. e \in Byte
    BY SlashIsByte DEF Edge
  <2> QED
    BY <2>1
<1> HIDE DEF one
<1>4. ea \in Seq(Edge)
  BY <1>2, <1>3, ConcatProperties
<1>5. lead \in Seq(Byte)
  BY <1>2, ConcatProperties
<1>6. one \o (a \o t) = (one \o a) \o t
  BY <1>2, <1>3, Associates, SMTT(30)
<1>7. one \o (lead \o b) = (one \o lead) \o b
  <2> HIDE DEF lead
  <2>1. one \in Seq(Byte) /\ lead \in Seq(Byte) /\ b \in Seq(Byte)
    BY <1>2, <1>3, <1>5
  <2> QED
    BY <2>1, BytesAssociate, Zenon
<1>8. one \o x = eat \o b
  BY <1>2, <1>6, <1>7
<1> HIDE DEF ea
<1>9. edged(one \o x, ea, t, b)
  BY <1>2, <1>4, <1>8 DEF edged
<1>10. trim(x) = t /\ trim(one \o x) = t
  BY <1>1, <1>9, TrimOf
<1> QED
  BY <1>10 DEF one

-----------------------------------------------------------------------------
(* A slash or space at either end of a path makes no difference to what    *)
(* its options are joined to, trimmed.                                     *)
LEMMA CarriedAppendEdge ==
    ASSUME NEW x \in Seq(Byte), NEW e \in Edge
    PROVE  trim(carriedPath(Append(x, e))) = trim(carriedPath(x))
<1> DEFINE c == carriedPath(x)
           d == carriedPath(Append(x, e))
           cs == Append(c, Slash)
<1>1. e \in Byte /\ Slash \in Edge /\ Slash \in Byte
  BY SlashIsByte DEF Edge
<1>2. c \in Seq(Byte) /\ cs \in Seq(Byte)
  <2>1. c \in Seq(Byte)
    BY CarriedPathType
  <2> HIDE DEF c
  <2> QED
    BY <1>1, <2>1, AppendProperties
<1>3. d \in IF e = Slash THEN {c} ELSE {Append(c, e), Append(cs, e)}
  BY <1>1, CarriedPathAppend
<1> HIDE DEF c, d
<1>4. trim(Append(c, e)) = trim(c)
  BY <1>2, TrimAppend
<1>5. trim(cs) = trim(c)
  BY <1>1, <1>2, TrimAppend
<1> HIDE DEF cs
<1>6. trim(Append(cs, e)) = trim(cs)
  BY <1>2, TrimAppend
<1>7. trim(d) = trim(c)
  BY <1>3, <1>4, <1>5, <1>6
<1> QED
  BY <1>7 DEF c, d

(* Behind edges, a part without slashes is carried as it is.               *)
LEMMA CarriedHead ==
    ASSUME NEW p \in Seq(Plain), NEW w \in Seq(Byte)
    PROVE  trim(carriedPath(p) \o w) = trim(p \o w)
<1> DEFINE S == <<Slash>>
           pw == p \o w
<1>1. p \in Seq(Byte) /\ carriedPath(p) = IF p = <<>> THEN <<>> ELSE S \o p
  BY CarriedOnePart
<1>2. S \in Seq(Byte) /\ Slash \in Edge /\ pw \in Seq(Byte)
  BY <1>1, SlashIsByte, ConcatProperties DEF Edge
<1>3. CASE p = <<>>
  BY <1>1, <1>3
<1>4. CASE p # <<>>
  <2>1. carriedPath(p) \o w = (S \o p) \o w
    BY <1>1, <1>4
  <2>2. trim(S \o pw) = trim(pw)
    <3> HIDE DEF pw
    <3> QED
      BY <1>2, TrimPrepend
  <2> HIDE DEF S
  <2>3. (S \o p) \o w = S \o (p \o w)
    BY <1>1, <1>2, Associates, SMTT(30)
  <2> QED
    BY <2>1, <2>2, <2>3
<1> QED
  BY <1>3, <1>4

LEMMA CarriedPrependEdge ==
    ASSUME NEW x \in Seq(Byte), NEW e \in Edge
    PROVE  trim(carriedPath(<<e>> \o x)) = trim(carriedPath(x))
<1> DEFINE S == <<Slash>>
           one == <<e>>
           c == carriedPath(x)
<1>1. /\ e \in Byte /\ Slash \in Byte /\ S \in Seq(Byte) /\ one \in Seq(Byte) /\ <<>> \in Seq(Byte)
      /\ c \in Seq(Byte)
  <2>1. e \in Byte /\ Slash \in Byte
    BY SlashIsByte DEF Edge
  <2> QED
    BY <2>1, EmptySeq, CarriedPathType
<1>2. CASE e = Slash
  <2>1. (<<>> \o S) \o x = one \o x
    BY <1>2
  <2>2. carriedPath((<<>> \o S) \o x) = carriedPath(<<>>) \o c
    BY <1>1, CarriedPathConcat
  <2>3. carriedPath(<<>>) = <<>>
    BY CarriedOnePart, EmptySeq
  <2>4. <<>> \o c = c
    <3> HIDE DEF c
    <3> QED
      BY <1>1, ConcatEmptySeq
  <2> HIDE DEF S, one, c
  <2>5. carriedPath(one \o x) = c
    BY <2>1, <2>2, <2>3, <2>4
  <2> QED
    BY <2>5 DEF c, one
<1>3. CASE e # Slash
  <2>0. one \in Seq(Plain)
    BY <1>1, <1>3 DEF Plain
  <2>1. CASE x \in Seq(Plain)
    <3> DEFINE ex == one \o x
    <3>1. ex \in Seq(Plain) /\ ex \in Seq(Byte)
      <4> HIDE DEF one
      <4> QED
        BY <1>1, <2>0, <2>1, ConcatProperties
    <3>2. trim(ex) = trim(x)
      BY TrimPrepend
    <3> HIDE DEF ex
    <3>3. trim(carriedPath(ex) \o <<>>) = trim(ex \o <<>>)
      BY <1>1, <3>1, CarriedHead
    <3>4. trim(carriedPath(x) \o <<>>) = trim(x \o <<>>)
      BY <1>1, <2>1, CarriedHead
    <3>5. carriedPath(ex) \o <<>> = carriedPath(ex) /\ ex \o <<>> = ex
      BY <3>1, CarriedPathType, ConcatEmptySeq
    <3>6. carriedPath(x) \o <<>> = carriedPath(x) /\ x \o <<>> = x
      BY CarriedPathType, ConcatEmptySeq
    <3>7. trim(carriedPath(ex)) = trim(carriedPath(x))
      BY <3>2, <3>3, <3>4, <3>5, <3>6
    <3> QED
      BY <3>7 DEF ex
  <2>2. CASE \E p \in Seq(Plain), y \in Seq(Byte) : x = (p \o S) \o y
    <3>1. PICK p \in Seq(Plain), y \in Seq(Byte) : x = (p \o S) \o y
      BY <2>2
    <3> DEFINE ep == one \o p
               d == carriedPath(y)
               pd == p \o d
               ps == p \o S
    <3>2. p \in Seq(Byte) /\ ep \in Seq(Plain) /\ d \in Seq(Byte)
      <4>1. p \in Seq(Byte) /\ d \in Seq(Byte)
        BY CarriedOnePart, CarriedPathType
      <4> HIDE DEF one
      <4> QED
        BY <2>0, <4>1, ConcatProperties
    <3>3. ep \in Seq(Byte) /\ pd \in Seq(Byte) /\ ps \in Seq(Byte)
      <4> HIDE DEF one, S, d
      <4> QED
        BY <1>1, <3>2, ConcatProperties
    <3>4. carriedPath(x) = carriedPath(p) \o d
      BY <3>1, <3>2, CarriedPathConcat
    <3>5. carriedPath((ep \o S) \o y) = carriedPath(ep) \o d
      <4> HIDE DEF ep
      <4> QED
        BY <3>3, CarriedPathConcat
    <3> HIDE DEF S, one, d
    <3>6. one \o x = (ep \o S) \o y
      <4>1. one \o (p \o S) = (one \o p) \o S
        <5>1. one \in Seq(Byte) /\ p \in Seq(Byte) /\ S \in Seq(Byte)
          BY <1>1, <3>2
        <5> QED
          BY <5>1, BytesAssociate, ZenonT(30)
      <4>2. one \o (ps \o y) = (one \o ps) \o y
        <5>1. one \in Seq(Byte) /\ ps \in Seq(Byte) /\ y \in Seq(Byte)
          BY <1>1, <3>3
        <5> HIDE DEF ps
        <5>2. (one \o ps) \o y = one \o (ps \o y)
          BY <5>1, Associates, SMTT(30)
        <5> QED
          BY <5>2
      <4> QED
        BY <3>1, <4>1, <4>2
    <3>7. trim(carriedPath(p) \o d) = trim(pd)
      BY <3>2, CarriedHead
    <3>8. trim(carriedPath(ep) \o d) = trim(ep \o d)
      <4> HIDE DEF ep
      <4> QED
        BY <3>2, CarriedHead
    <3>9. ep \o d = one \o pd
      <4>1. (one \o p) \o d = one \o (p \o d)
        BY <1>1, <3>2, Associates, SMTT(30)
      <4> QED
        BY <4>1
    <3>10. trim(one \o pd) = trim(pd)
      <4> HIDE DEF pd
      <4> QED
        BY <3>3, TrimPrepend DEF one
    <3> HIDE DEF ep, pd
    <3>11. trim(carriedPath(one \o x)) = trim(carriedPath(x))
      BY <3>4, <3>5, <3>6, <3>7, <3>8, <3>9, <3>10
    <3> QED
      BY <3>11 DEF one
  <2> QED
    BY <2>1, <2>2, CutAtSlash
<1> QED
  BY <1>2, <1>3

(* So trimming the path first makes none.                                  *)
LEMMA CarriedBehind ==
    ASSUME NEW z \in Seq(Byte), NEW b \in Seq(Edge)
    PROVE  trim(carriedPath(z \o b)) = trim(carriedPath(z))
<1> DEFINE T == {u \in Seq(Edge) : trim(carriedPath(z \o u)) = trim(carriedPath(z))}
<1>0. Edge \subseteq Byte
  BY SlashIsByte DEF Edge
<1>1. <<>> \in T
  BY EmptySeq, ConcatEmptySeq
<1>2. ASSUME NEW u \in Seq(Edge), NEW e \in Edge, u \in T PROVE Append(u, e) \in T
  <2> DEFINE zu == z \o u
  <2>1. u \in Seq(Byte) /\ e \in Byte
    BY <1>0, SeqMonotonic
  <2>2. zu \in Seq(Byte) /\ trim(carriedPath(zu)) = trim(carriedPath(z))
    BY <1>2, <2>1, ConcatProperties
  <2> HIDE DEF T
  <2>3. z \o Append(u, e) = Append(zu, e)
    BY <2>1, ConcatAppend
  <2> HIDE DEF zu
  <2>4. trim(carriedPath(Append(zu, e))) = trim(carriedPath(zu))
    BY <2>2, CarriedAppendEdge
  <2> QED
    BY <2>2, <2>3, <2>4, AppendProperties DEF T
<1> HIDE DEF T
<1>3. \A u \in Seq(Edge) : u \in T
  BY <1>1, <1>2, SeqInduction
<1> QED
  BY <1>3 DEF T

LEMMA CarriedBefore ==
    \A a \in Seq(Edge) : \A z \in Seq(Byte) : trim(carriedPath(a \o z)) = trim(carriedPath(z))
<1> DEFINE T == {u \in Seq(Edge) : \A z \in Seq(Byte) : trim(carriedPath(u \o z)) = trim(carriedPath(z))}
<1>0. Edge \subseteq Byte
  BY SlashIsByte DEF Edge
<1>1. <<>> \in T
  BY EmptySeq, ConcatEmptySeq
<1>2. ASSUME NEW u \in Seq(Edge), NEW e \in Edge, u \in T PROVE Append(u, e) \in T
  <2> DEFINE one == <<e>>
  <2>1. u \in Seq(Byte) /\ one \in Seq(Byte) /\ e \in Byte
    BY <1>0, SeqMonotonic
  <2>2. ASSUME NEW z \in Seq(Byte) PROVE trim(carriedPath(Append(u, e) \o z)) = trim(carriedPath(z))
    <3> DEFINE ez == one \o z
    <3>1. ez \in Seq(Byte)
      BY <2>1, ConcatProperties
    <3>2. trim(carriedPath(u \o ez)) = trim(carriedPath(ez))
      BY <1>2, <3>1
    <3>3. trim(carriedPath(ez)) = trim(carriedPath(z))
      BY CarriedPrependEdge
    <3> HIDE DEF T
    <3>4. Append(u, e) = u \o one
      BY <2>1, AppendIsConcat
    <3> HIDE DEF one
    <3>5. (u \o one) \o z = u \o (one \o z)
      BY <2>1, Associates, SMTT(30)
    <3> QED
      BY <3>2, <3>3, <3>4, <3>5
  <2> QED
    BY <2>2, AppendProperties
<1> HIDE DEF T
<1>3. \A u \in Seq(Edge) : u \in T
  BY <1>1, <1>2, SeqInduction
<1> QED
  BY <1>3 DEF T

LEMMA CarriedTrimmed ==
    ASSUME NEW x \in Seq(Byte)
    PROVE  trim(carriedPath(x)) = trim(carriedPath(trim(x)))
<1>1. PICK a, t, b : edged(x, a, t, b)
  BY Edges
<1> DEFINE lead == a \o t
<1>2. /\ a \in Seq(Edge) /\ b \in Seq(Edge) /\ t \in Seq(Byte) /\ x = lead \o b
      /\ a \in Seq(Byte)
  BY <1>1, EdgedPlaces DEF edged
<1>3. trim(x) = t
  BY <1>1, TrimOf
<1>4. lead \in Seq(Byte)
  BY <1>2, ConcatProperties
<1>5. trim(carriedPath(lead)) = trim(carriedPath(t))
  BY <1>2, CarriedBefore
<1> HIDE DEF lead
<1>6. trim(carriedPath(lead \o b)) = trim(carriedPath(lead))
  BY <1>2, <1>4, CarriedBehind
<1> QED
  BY <1>2, <1>3, <1>5, <1>6

(* What a trimmed path is carried as begins with one slash too many.       *)
LEMMA CarriedTight ==
    ASSUME NEW t \in Seq(Byte), t # <<>>, tight(t)
    PROVE  LET u == trim(carriedPath(t))
           IN  u \in Seq(Byte) /\ u # <<>> /\ carriedPath(t) = <<Slash>> \o u
<1> DEFINE S == <<Slash>>
           c == carriedPath(t)
<1>1. /\ t[1] \notin Edge /\ t[Len(t)] \notin Edge /\ Len(t) \in Nat \ {0}
      /\ S \in Seq(Byte) /\ Slash \in Edge /\ c \in Seq(Byte)
  BY SlashIsByte, EmptySeq, CarriedPathType DEF tight, Edge
<1>2. c # <<>> /\ c[Len(c)] \notin Edge
  <2>1. PICK s \in Seq(Byte), e \in Byte : t = Append(s, e)
    BY SequenceEmptyOrAppend
  <2>2. e \notin Edge /\ e # Slash
    BY <1>1, <2>1, AppendProperties DEF Edge
  <2> DEFINE d == carriedPath(s)
             ds == Append(d, Slash)
  <2>3. c \in {Append(d, e), Append(ds, e)}
    BY <2>1, <2>2, CarriedPathAppend
  <2>4. d \in Seq(Byte) /\ ds \in Seq(Byte)
    <3>1. d \in Seq(Byte)
      BY CarriedPathType
    <3> HIDE DEF d
    <3> QED
      BY <3>1, SlashIsByte, AppendProperties
  <2> HIDE DEF d, ds, c
  <2>5. \A y \in Seq(Byte) : Append(y, e) # <<>> /\ Append(y, e)[Len(Append(y, e))] = e
    BY AppendProperties
  <2> QED
    BY <2>2, <2>3, <2>4, <2>5
<1>3. \E v \in Seq(Byte) : v # <<>> /\ v[1] \notin Edge /\ c = S \o v
  <2>1. CASE t \in Seq(Plain)
    BY <1>1, <2>1, CarriedOnePart
  <2>2. CASE \E p \in Seq(Plain), y \in Seq(Byte) : t = (p \o S) \o y
    <3>1. PICK p \in Seq(Plain), y \in Seq(Byte) : t = (p \o S) \o y
      BY <2>2
    <3> DEFINE ps == p \o S
               d == carriedPath(y)
               pd == p \o d
    <3>2. p \in Seq(Byte) /\ d \in Seq(Byte)
      BY CarriedOnePart, CarriedPathType
    <3>3. ps \in Seq(Byte) /\ follows(ps, p, S) /\ Len(S) = 1 /\ S[1] = Slash
      <4>1. joins(ps, p, S) /\ Len(S) = 1 /\ S[1] = Slash
        BY DEF joins
      <4> HIDE DEF ps, S
      <4> QED
        BY <1>1, <3>2, <4>1, TwoParts
    <3>4. follows(t, ps, y)
      <4>1. joins(t, ps, y)
        BY <3>1 DEF joins
      <4> HIDE DEF ps
      <4> QED
        BY <3>3, <4>1, TwoParts
    <3>5. Len(p) \in Nat /\ Len(ps) = Len(p) + 1
      BY <3>2, <3>3, LenProperties DEF follows
    <3>6. p # <<>>
      <4> SUFFICES ASSUME p = <<>> PROVE FALSE
        OBVIOUS
      <4>1. Len(p) = 0 /\ 1 \in 1 .. Len(S) /\ 1 \in 1 .. Len(ps)
        BY <3>3, <3>5
      <4> HIDE DEF ps, S
      <4>2. ps[1] = Slash
        <5>1. ps[Len(p) + 1] = S[1]
          BY <3>3, <4>1 DEF follows
        <5> QED
          BY <3>3, <4>1, <5>1
      <4>3. t[1] = Slash
        BY <3>4, <4>1, <4>2 DEF follows
      <4> QED
        BY <1>1, <4>3
    <3>7. Len(p) \in Nat \ {0} /\ 1 \in 1 .. Len(p) /\ 1 \in 1 .. Len(ps)
      BY <3>2, <3>5, <3>6, EmptySeq
    <3>8. p[1] = t[1]
      <4> HIDE DEF ps
      <4> QED
        BY <3>3, <3>4, <3>7 DEF follows
    <3>9. pd \in Seq(Byte) /\ pd # <<>> /\ pd[1] = p[1]
      <4>1. joins(pd, p, d)
        BY DEF joins
      <4> HIDE DEF pd, d
      <4>2. pd \in Seq(Byte) /\ follows(pd, p, d)
        BY <3>2, <4>1, TwoParts
      <4>3. Len(pd) # 0 /\ pd[1] = p[1]
        BY <3>2, <3>7, <4>2, LenProperties DEF follows
      <4> QED
        BY <4>2, <4>3, EmptySeq
    <3>10. c = (S \o p) \o d
      <4>1. carriedPath(p) = S \o p
        BY <3>6, CarriedOnePart
      <4>2. carriedPath((p \o S) \o y) = carriedPath(p) \o d
        BY <3>2, CarriedPathConcat
      <4> QED
        BY <3>1, <4>1, <4>2
    <3> HIDE DEF S, d, c
    <3>11. (S \o p) \o d = S \o (p \o d)
      <4>1. S \in Seq(Byte) /\ p \in Seq(Byte) /\ d \in Seq(Byte)
        BY <1>1, <3>2
      <4> QED
        BY <4>1, Associates, SMTT(30)
    <3> QED
      BY <1>1, <3>8, <3>9, <3>10, <3>11
  <2> QED
    BY <2>1, <2>2, CutAtSlash
<1> HIDE DEF c
<1>4. PICK v \in Seq(Byte) : v # <<>> /\ v[1] \notin Edge /\ c = S \o v
  BY <1>3
<1>5. v[Len(v)] \notin Edge
  <2>1. joins(c, S, v) /\ Len(S) = 1
    BY <1>4 DEF joins
  <2> HIDE DEF S
  <2>2. follows(c, S, v)
    BY <1>1, <2>1, TwoParts
  <2>3. Len(v) \in Nat \ {0}
    BY <1>4, EmptySeq
  <2>4. Len(v) \in 1 .. Len(v) /\ Len(c) = 1 + Len(v)
    BY <2>1, <2>2, <2>3 DEF follows
  <2>5. c[1 + Len(v)] = v[Len(v)]
    BY <2>1, <2>2, <2>4 DEF follows
  <2> QED
    BY <1>2, <2>4, <2>5
<1>6. trim(v) = v
  BY <1>4, <1>5, TrimTight DEF tight
<1>7. trim(S \o v) = trim(v)
  BY <1>1, TrimPrepend
<1> HIDE DEF S
<1>8. trim(c) = v
  BY <1>4, <1>6, <1>7
<1> QED
  BY <1>4, <1>8 DEF c, S

(* The parts of a path that are left have no slash either.                 *)
LEMMA FilledPlain == \A ps \in Seq(Seq(Plain)) : filled(ps) \in Seq(Seq(Plain))
<1> DEFINE P == Seq(Plain)
           T == {ps \in Seq(P) : filled(ps) \in Seq(P)}
<1>0. P \subseteq Seq(Byte)
  <2>1. Plain \subseteq Byte
    BY DEF Plain
  <2> QED
    BY <2>1, SeqMonotonic
<1>1. <<>> \in T
  BY EmptySeq, FilledSteps
<1>2. ASSUME NEW ps \in Seq(P), NEW p \in P, ps \in T PROVE Append(ps, p) \in T
  <2>1. ps \in Seq(Seq(Byte)) /\ p \in Seq(Byte)
    BY <1>0, SeqMonotonic
  <2>2. filled(Append(ps, p)) = IF p = <<>> THEN filled(ps) ELSE Append(filled(ps), p)
    BY <2>1, FilledSteps
  <2>3. filled(ps) \in Seq(P)
    BY <1>2
  <2> HIDE DEF P
  <2>4. Append(filled(ps), p) \in Seq(P) /\ Append(ps, p) \in Seq(P)
    BY <2>3, AppendProperties
  <2> QED
    BY <2>2, <2>3, <2>4
<1> HIDE DEF T
<1>3. \A ps \in Seq(P) : ps \in T
  <2> HIDE DEF P
  <2> QED
    BY <1>1, <1>2, SeqInduction
<1> QED
  BY <1>3 DEF T

(* The path x is asked for and the one w is registered, trimmed, are the   *)
(* same on the wire if and only if they have the same parts.               *)
LEMMA SamePath ==
    ASSUME NEW x \in Seq(Byte), NEW w \in Seq(Byte)
    PROVE  w = trim(carriedPath(x)) <=>
               \/ w = <<>> /\ trim(x) = <<>>
               \/ w # <<>> /\ parts(w) = filled(parts(trim(x)))
<1> DEFINE t == trim(x)
           u == trim(carriedPath(t))
<1>1. t \in Seq(Byte) /\ tight(t)
  BY Trimmed
<1>2. trim(carriedPath(x)) = u
  BY CarriedTrimmed
<1> HIDE DEF t
<1>3. CASE t = <<>>
  <2>1. u = <<>>
    <3>1. carriedPath(<<>>) = <<>>
      BY CarriedOnePart, EmptySeq
    <3>2. trim(<<>>) = <<>>
      BY TrimTight, EmptySeq DEF tight
    <3> QED
      BY <1>3, <3>1, <3>2
  <2>2. filled(parts(t)) = <<>>
    <3>1. <<<<>>>> = Append(<<>>, <<>>)
      OBVIOUS
    <3>2. filled(Append(<<>>, <<>>)) = filled(<<>>)
      BY FilledSteps, EmptySeq
    <3>3. parts(t) = Append(<<>>, <<>>)
      BY <1>3, <3>1, PartsEmpty, Zenon
    <3> QED
      BY <3>2, <3>3, FilledSteps
  <2>3. parts(w) # <<>>
    BY PartsSplit, AppendProperties
  <2> QED
    BY <1>2, <1>3, <2>1, <2>2, <2>3 DEF t
<1>4. CASE t # <<>>
  <2>1. u \in Seq(Byte) /\ u # <<>> /\ carriedPath(t) = <<Slash>> \o u
    BY <1>1, <1>4, CarriedTight
  <2> HIDE DEF u
  <2>2. parts(u) = filled(parts(t))
    <3> DEFINE qs == filled(parts(t))
    <3>1. qs \in Seq(Seq(Plain))
      BY <1>1, PlainParts, FilledPlain
    <3>2. joined(qs) = <<Slash>> \o u
      BY <2>1 DEF carriedPath
    <3> HIDE DEF qs
    <3>3. parts(u) = qs
      BY <2>1, <3>1, <3>2, PartsJoined
    <3> QED
      BY <3>3 DEF qs
  <2>3. parts(w) = parts(u) => w = u
    BY <2>1, PartsInjective
  <2> QED
    BY <1>2, <1>4, <2>1, <2>2, <2>3 DEF t
<1> QED
  BY <1>3, <1>4

-----------------------------------------------------------------------------
(* The path that the URI-Path options of a message are joined to.          *)
behindSlash == [o \in optionOver(Byte) |-> <<Slash>> \o o.value.s]
optionPath(os) == flat(GetOptions(os, URIPath), behindSlash)

LEMMA BehindSlash ==
    /\ replaces(behindSlash, optionOver(Byte), Byte)
    /\ \A o \in optionOver(Byte) : o.value.s \in Seq(Byte)
<1> DEFINE S == <<Slash>>
           B == Seq(Byte)
<1>1. ASSUME NEW o \in optionOver(Byte) PROVE o.value.s \in B
  <2>1. o \in [code : 0 .. Max16, value : [kind : {"int", "string"}, n : 0 .. Max32, s : B]]
    BY Zenon DEF optionOver
  <2> HIDE DEF B
  <2> QED
    BY <2>1
<1>2. S \in Seq(Byte)
  BY SlashIsByte
<1>3. ASSUME NEW o \in optionOver(Byte) PROVE S \o o.value.s \in Seq(Byte)
  <2> DEFINE v == o.value.s
  <2>1. v \in Seq(Byte)
    BY <1>1
  <2> HIDE DEF v, S
  <2> QED
    BY <1>2, <2>1, ConcatProperties DEF v
<1> QED
  BY <1>1, <1>3 DEF behindSlash, replaces

(* It is what GetURIPath returns, up to a slash.                           *)
LEMMA PathTrimmed ==
    ASSUME NEW os \in Seq(optionOver(Byte))
    PROVE  trim(GetURIPath(os)) = trim(optionPath(os))
<1> DEFINE names == GetOptions(os, URIPath)
<1>1. names \in Seq(optionOver(Byte))
  BY WithCodesType DEF GetOptions
<1>2. CASE names = <<>>
  <2>1. optionPath(os) = <<>>
    BY <1>2, FlatEmpty DEF optionPath
  <2>2. <<Slash>> \o <<>> = <<Slash>> /\ Slash \in Edge /\ <<>> \in Seq(Byte)
    BY EmptySeq DEF Edge
  <2>3. trim(<<Slash>>) = trim(<<>>)
    BY <2>2, TrimPrepend
  <2> QED
    BY <1>2, <2>1, <2>3 DEF GetURIPath
<1>3. CASE names # <<>>
  <2> HIDE DEF names
  <2>1. ASSUME NEW i \in DOMAIN names PROVE <<Slash>> \o names[i].value.s = behindSlash[names[i]]
    <3>1. names[i] \in optionOver(Byte)
      BY <1>1, LenProperties, ElementOfSeq
    <3> QED
      BY <3>1 DEF behindSlash
  <2>2. [i \in DOMAIN names |-> <<Slash>> \o names[i].value.s] = [i \in DOMAIN names |-> behindSlash[names[i]]]
    BY <2>1
  <2>3. GetURIPath(os) = optionPath(os)
    BY <1>3, <2>2, Zenon DEF GetURIPath, optionPath, flat, names
  <2> QED
    BY <2>3
<1> QED
  BY <1>2, <1>3

(* One more URI-Path option,                                               *)
LEMMA OptionPathAdd ==
    ASSUME NEW os \in Seq(optionOver(Byte)), NEW p \in Seq(Byte), Len(p) <= Max16
    PROVE  LET added == AddOption(os, URIPath, string(p))
           IN  /\ added \in Seq(optionOver(Byte))
               /\ optionPath(os) \in Seq(Byte)
               /\ optionPath(added) = optionPath(os) \o (<<Slash>> \o p)
<1> DEFINE O == optionOver(Byte)
           o == NewOption(URIPath, string(p))
           names == GetOptions(os, URIPath)
<1>1. o \in O /\ o.code = URIPath /\ o.value.s = p
  BY CodeFacts, OptionsMade DEF NewOption, string
<1>2. AddOption(os, URIPath, string(p)) = Append(os, o)
  BY DEF AddOption, RepeatableOptions
<1> HIDE DEF o, O
<1>3. Append(os, o) \in Seq(O)
  BY <1>1, AppendProperties DEF O
<1>4. names \in Seq(O) /\ GetOptions(Append(os, o), URIPath) = Append(names, o)
  BY <1>1, GetAppend DEF O
<1> HIDE DEF names
<1>5. replaces(behindSlash, O, Byte)
  BY BehindSlash DEF O
<1>6. flat(names, behindSlash) \in Seq(Byte) /\ flat(Append(names, o), behindSlash) = flat(names, behindSlash) \o behindSlash[o]
  BY <1>1, <1>4, <1>5, FlatAppend
<1>7. behindSlash[o] = <<Slash>> \o p
  BY <1>1 DEF behindSlash, O
<1> QED
  BY <1>2, <1>3, <1>4, <1>6, <1>7 DEF optionPath, names, O

(* those of a path,                                                        *)
follow(g, os, ps) == g[0] = os /\ \A k \in 1 .. Len(ps) : g[k] = withPart(g[k - 1], ps[k])

LEMMA OptionPathParts ==
    ASSUME NEW os \in Seq(optionOver(Byte))
    PROVE  \A ps \in Seq({t \in Seq(Byte) : Len(t) <= Max16}) : \A g :
               follow(g, os, ps) =>
                   /\ g[Len(ps)] \in Seq(optionOver(Byte))
                   /\ optionPath(g[Len(ps)]) = optionPath(os) \o joined(filled(ps))
<1> DEFINE A == {t \in Seq(Byte) : Len(t) <= Max16}
           O == Seq(optionOver(Byte))
           right(x, ps) == x \in O /\ optionPath(x) = optionPath(os) \o joined(filled(ps))
           T == {ps \in Seq(A) : \A g : follow(g, os, ps) => right(g[Len(ps)], ps)}
<1>0. /\ \A t \in A : t \in Seq(Byte) /\ Len(t) <= Max16
      /\ A \subseteq Seq(Byte)
  OBVIOUS
<1> HIDE DEF A
<1>00. \A x \in O : optionPath(x) \in Seq(Byte)
  <2>1. <<>> \in Seq(Byte) /\ Len(<<>>) <= Max16
    BY EmptySeq, Largest
  <2> QED
    BY <2>1, OptionPathAdd
<1>1. <<>> \in T
  <2>1. joined(filled(<<>>)) = <<>>
    BY FilledSteps, JoinedSteps
  <2>2. optionPath(os) \o <<>> = optionPath(os)
    BY <1>00, ConcatEmptySeq
  <2>3. Len(<<>>) = 0 /\ <<>> \in Seq(A)
    BY EmptySeq
  <2> QED
    BY <2>1, <2>2, <2>3 DEF follow
<1>2. ASSUME NEW ps \in Seq(A), NEW p \in A, ps \in T PROVE Append(ps, p) \in T
  <2> DEFINE n == Len(ps)
             pp == Append(ps, p)
             f == filled(ps)
             j == joined(f)
             os0 == optionPath(os)
  <2>1. /\ n \in Nat /\ pp \in Seq(A) /\ Len(pp) = n + 1 /\ pp[n + 1] = p
        /\ \A i \in 1 .. n : pp[i] = ps[i]
    BY LenProperties, AppendProperties
  <2>2. ps \in Seq(Seq(Byte)) /\ p \in Seq(Byte) /\ Len(p) <= Max16
    BY <1>0, SeqMonotonic
  <2>3. f \in Seq(Seq(Byte)) /\ filled(pp) = IF p = <<>> THEN f ELSE Append(f, p)
    BY <2>2, FilledSteps
  <2> HIDE DEF pp, f
  <2>4. /\ j \in Seq(Byte)
        /\ joined(Append(f, p)) = j \o (<<Slash>> \o p)
    BY <2>2, <2>3, JoinedSteps
  <2> SUFFICES ASSUME NEW g, follow(g, os, pp) PROVE right(g[n + 1], pp)
    BY <2>1 DEF pp
  <2>5. follow(g, os, ps)
    <3>1. \A k \in 1 .. n : k \in 1 .. (n + 1)
      BY <2>1
    <3> QED
      BY <2>1, <3>1 DEF follow
  <2> DEFINE x == g[n]
  <2>6. x \in O /\ optionPath(x) = os0 \o j
    BY <1>2, <2>5 DEF f
  <2>7. g[n + 1] = withPart(x, p)
    <3>1. n + 1 \in 1 .. (n + 1) /\ (n + 1) - 1 = n
      BY <2>1
    <3> QED
      BY <2>1, <3>1 DEF follow
  <2> HIDE DEF x, T
  <2>8. CASE p = <<>>
    BY <2>3, <2>6, <2>7, <2>8 DEF withPart, f
  <2>9. CASE p # <<>>
    <3> DEFINE y == AddOption(x, URIPath, string(p))
               sp == <<Slash>> \o p
    <3>1. g[n + 1] = y
      BY <2>7, <2>9 DEF withPart
    <3>2. y \in O /\ optionPath(y) = optionPath(x) \o sp
      BY <2>2, <2>6, OptionPathAdd
    <3>3. sp \in Seq(Byte) /\ os0 \in Seq(Byte)
      <4>1. <<Slash>> \in Seq(Byte)
        BY SlashIsByte
      <4> QED
        BY <1>00, <2>2, <4>1, ConcatProperties
    <3>4. joined(filled(pp)) = j \o sp
      BY <2>3, <2>4, <2>9
    <3> HIDE DEF sp, os0, j, y
    <3>5. (os0 \o j) \o sp = os0 \o (j \o sp)
      BY <2>4, <3>3, Associates, SMTT(30)
    <3> QED
      BY <2>6, <3>1, <3>2, <3>4, <3>5 DEF os0
  <2> QED
    BY <2>8, <2>9
<1> HIDE DEF T
<1>3. \A ps \in Seq(A) : ps \in T
  BY <1>1, <1>2, SeqInduction
<1> QED
  BY <1>3 DEF T, A

LEMMA OptionPathSet ==
    ASSUME NEW os \in Seq(optionOver(Byte)), NEW path \in Seq(Byte), Len(path) <= Max16
    PROVE  optionPath(SetURIPath(os, path)) = optionPath(os) \o carriedPath(path)
<1> DEFINE ps == parts(path)
           A == {t \in Seq(Byte) : Len(t) <= Max16}
<1>a. PICK g : addsParts(g, os, parts(path)) /\ SetURIPath(os, path) = g[Len(parts(path))]
  BY PathSteps
<1>1. /\ g[0] = os
      /\ \A k \in 1 .. Len(ps) : g[k] = withPart(g[k - 1], ps[k])
      /\ SetURIPath(os, path) = g[Len(ps)]
  BY <1>a, Zenon DEF addsParts
<1>2. ps \in Seq(A)
  <2> DEFINE C == {t \in Seq(Byte) : Len(t) <= Len(path)}
  <2>1. C \subseteq A
    <3> SUFFICES ASSUME NEW t \in Seq(Byte), Len(t) <= Len(path) PROVE Len(t) <= Max16
      OBVIOUS
    <3>1. Len(t) \in Nat /\ Len(path) \in Nat
      BY LenProperties
    <3> QED
      BY <3>1, Largest
  <2>2. ps \in Seq(C)
    BY PartsType
  <2> HIDE DEF A, C
  <2> QED
    BY <2>1, <2>2, SeqMonotonic
<1>3. follow(g, os, ps)
  BY <1>1 DEF follow
<1> HIDE DEF ps
<1>4. optionPath(g[Len(ps)]) = optionPath(os) \o joined(filled(ps))
  BY <1>2, <1>3, OptionPathParts
<1> QED
  BY <1>1, <1>4 DEF carriedPath, ps

-----------------------------------------------------------------------------
(* The request: one of the four methods, and a message whose URI-Path      *)
(* options are those of the paths it was given.                            *)
RequestAsAsked ==
    /\ message.code \in Codes
    /\ asked \in Seq(Byte)
    /\ optionPath(message.options) = carriedPath(asked)

(* Other options have nothing to do with the path.                         *)
LEMMA OtherOption ==
    ASSUME NEW os \in Seq(optionOver(Byte)), NEW code, code # URIPath, NEW value,
           NewOption(code, value) \in optionOver(Byte)
    PROVE  optionPath(AddOption(os, code, value)) = optionPath(os)
<1> DEFINE O == optionOver(Byte)
<1>1. NewOption(code, value) \in O /\ os \in Seq(O)
  OBVIOUS
<1> HIDE DEF O
<1>2. GetOptions(AddOption(os, code, value), URIPath) = GetOptions(os, URIPath)
  BY <1>1, AddKeeps
<1> QED
  BY <1>2 DEF optionPath

(* A call that leaves the path alone.                                      *)
LEMMA AskedAlready ==
    ASSUME MessageBuilt, RequestAsAsked, UNCHANGED asked, NEW options,
           withOptions(options), optionPath(options) = optionPath(message.options)
    PROVE  RequestAsAsked'
<1>1. message' = [message EXCEPT !.options = options]
  BY DEF withOptions, built
<1>2. message \in messageOver(Byte)
  BY DEF MessageBuilt, ownMessages, plainMessages
<1>3. message'.code = message.code /\ message'.options = options
  <2> DEFINE T == {t \in Seq(Byte) : Len(t) < 16}
             O == Seq(optionOver(Byte))
             P == Seq(Byte)
  <2>1. message \in [type : 0 .. 3, code : Byte, id : 0 .. Max16, token : T, options : O, payload : P]
    BY <1>2, Zenon DEF messageOver
  <2> HIDE DEF T, O, P
  <2> QED
    BY <1>1, <2>1
<1>4. optionPath(message'.options) = carriedPath(asked')
  BY <1>3 DEF RequestAsAsked
<1>5. message'.code \in Codes /\ asked' \in Seq(Byte)
  BY <1>3 DEF RequestAsAsked
<1> QED
  BY <1>4, <1>5 DEF RequestAsAsked

LEMMA AskedInitially == WireInit => RequestAsAsked
<1> SUFFICES ASSUME WireInit PROVE RequestAsAsked
  OBVIOUS
<1>1. PICK code \in Codes : message = [NewMessage(513) EXCEPT !.code = code]
  BY DEF WireInit
<1>2. message.code \in Codes /\ message.options = <<>> /\ asked = <<>>
  BY <1>1 DEF NewMessage, WireInit
<1>3. optionPath(<<>>) = <<>>
  BY WithCodesEmpty, FlatEmpty DEF optionPath, GetOptions
<1>4. carriedPath(<<>>) = <<>>
  BY CarriedOnePart, EmptySeq
<1> QED
  BY <1>2, <1>3, <1>4, EmptySeq DEF RequestAsAsked

LEMMA AskedStep == MessageBuilt /\ RequestAsAsked /\ [WireNext]_wireVars => RequestAsAsked'
<1> SUFFICES ASSUME MessageBuilt, RequestAsAsked, [WireNext]_wireVars PROVE RequestAsAsked'
  OBVIOUS
<1> DEFINE os == message.options
<1>0. os \in Seq(optionOver(Byte)) /\ message \in messageOver(Byte)
  <2>1. message \in messageOver(Byte)
    BY DEF MessageBuilt, ownMessages, plainMessages
  <2> QED
    BY <2>1, MessageFields
<1>a. /\ message.code \in Codes /\ asked \in Seq(Byte) /\ optionPath(os) = carriedPath(asked)
      /\ optionPath(os) \in Seq(Byte)
  BY CarriedPathType DEF RequestAsAsked
<1>b. ASSUME message'.code = message.code, message'.options = message.options, UNCHANGED asked
      PROVE  RequestAsAsked'
  BY <1>a, <1>b DEF RequestAsAsked
<1>1. ASSUME AddStringOption PROVE RequestAsAsked'
  <2>1. PICK o \in Strings : withOptions(AddOption(os, o.code, string(o.s))) /\ UNCHANGED asked
    BY <1>1 DEF AddStringOption
  <2>2. o.code # URIPath
    BY RequestAssumption
  <2>3. optionPath(AddOption(os, o.code, string(o.s))) = optionPath(os)
    BY <1>0, <2>2, AssumedRanges, OtherOption
  <2> QED
    BY <2>1, <2>3, AskedAlready
<1>2. ASSUME AddIntOption PROVE RequestAsAsked'
  <2>1. PICK o \in Ints : withOptions(AddOption(os, o.code, int(o.n))) /\ UNCHANGED asked
    BY <1>2 DEF AddIntOption
  <2>2. o.code # URIPath
    <3>1. o.code \notin StringOptions
      BY WireAssumption
    <3> QED
      BY <3>1 DEF StringOptions
  <2>3. optionPath(AddOption(os, o.code, int(o.n))) = optionPath(os)
    BY <1>0, <2>2, AssumedRanges, OtherOption
  <2> QED
    BY <2>1, <2>3, AskedAlready
<1>3. ASSUME CallSetURIPath PROVE RequestAsAsked'
  <2>1. PICK path \in Paths : /\ withOptions(SetURIPath(os, path))
                              /\ asked' = (asked \o <<Slash>>) \o path
    BY <1>3 DEF CallSetURIPath
  <2>2. path \in Seq(Byte) /\ Len(path) <= Max16
    BY AssumedRanges
  <2>3. message' = [message EXCEPT !.options = SetURIPath(os, path)]
    BY <2>1 DEF withOptions, built
  <2> DEFINE next == SetURIPath(os, path)
  <2>4. optionPath(next) = optionPath(os) \o carriedPath(path)
    BY <1>0, <2>2, OptionPathSet
  <2>5. carriedPath(asked') = carriedPath(asked) \o carriedPath(path)
    BY <1>a, <2>1, <2>2, CarriedPathConcat
  <2>6. asked' \in Seq(Byte)
    <3> DEFINE S == <<Slash>>
               as == asked \o S
    <3>1. S \in Seq(Byte)
      BY SlashIsByte
    <3> HIDE DEF S
    <3>2. as \in Seq(Byte)
      BY <1>a, <3>1, ConcatProperties
    <3> HIDE DEF as
    <3>3. as \o path \in Seq(Byte)
      BY <2>2, <3>2, ConcatProperties
    <3> QED
      BY <2>1, <3>3 DEF as, S
  <2> HIDE DEF next
  <2>7. message'.code = message.code /\ message'.options = next
    <3> DEFINE T == {t \in Seq(Byte) : Len(t) < 16}
               O == Seq(optionOver(Byte))
               P == Seq(Byte)
    <3>1. message \in [type : 0 .. 3, code : Byte, id : 0 .. Max16, token : T, options : O, payload : P]
      BY <1>0, Zenon DEF messageOver
    <3> HIDE DEF T, O, P
    <3> QED
      BY <2>3, <3>1 DEF next
  <2>8. optionPath(message'.options) = carriedPath(asked')
    BY <1>a, <2>4, <2>5, <2>7
  <2>9. message'.code \in Codes
    BY <1>a, <2>7
  <2> QED
    BY <2>6, <2>8, <2>9 DEF RequestAsAsked
<1>4. ASSUME CallRemoveOptions PROVE RequestAsAsked'
  <2>1. PICK i \in DOMAIN os : /\ withOptions(RemoveOptions(os, os[i].code))
                               /\ asked' = IF os[i].code = URIPath THEN <<>> ELSE asked
    BY <1>4 DEF CallRemoveOptions
  <2> DEFINE next == RemoveOptions(os, os[i].code)
  <2>2. CASE os[i].code # URIPath
    <3>1. GetOptions(next, URIPath) = GetOptions(os, URIPath)
      BY <1>0, <2>2, GetAfterRemove
    <3>2. optionPath(next) = optionPath(os)
      BY <3>1 DEF optionPath
    <3>3. UNCHANGED asked
      BY <2>1, <2>2
    <3> QED
      BY <2>1, <3>2, <3>3, AskedAlready
  <2>3. CASE os[i].code = URIPath
    <3>1. GetOptions(next, URIPath) = <<>>
      BY <1>0, <2>3, GetAfterRemove
    <3>2. optionPath(next) = <<>>
      BY <3>1, FlatEmpty DEF optionPath
    <3>3. carriedPath(<<>>) = <<>> /\ asked' = <<>>
      BY <2>1, <2>3, CarriedOnePart, EmptySeq
    <3>4. message' = [message EXCEPT !.options = next]
      BY <2>1 DEF withOptions, built
    <3> HIDE DEF next
    <3>5. message'.code = message.code /\ message'.options = next
      <4> DEFINE T == {t \in Seq(Byte) : Len(t) < 16}
                 O == Seq(optionOver(Byte))
                 P == Seq(Byte)
      <4>1. message \in [type : 0 .. 3, code : Byte, id : 0 .. Max16, token : T, options : O, payload : P]
        BY <1>0, Zenon DEF messageOver
      <4> HIDE DEF T, O, P
      <4> QED
        BY <3>4, <4>1
    <3>6. /\ message'.code \in Codes /\ asked' \in Seq(Byte)
          /\ optionPath(message'.options) = carriedPath(asked')
      BY <1>a, <3>2, <3>3, <3>5, EmptySeq
    <3> QED
      BY <3>6 DEF RequestAsAsked
  <2> QED
    BY <2>2, <2>3
<1>5. ASSUME SetProxy PROVE RequestAsAsked'
  <2> DEFINE p == string(<<112>>)
  <2>1. withOptions(AddOption(os, ProxyURI, p)) /\ UNCHANGED asked
    BY <1>5 DEF SetProxy
  <2>2. NewOption(ProxyURI, p) \in optionOver(Byte)
    <3>1. 112 \in Byte /\ 1 <= Max16
      BY SMT DEF Byte, Max16
    <3> DEFINE s == <<112>>
    <3>2. s \in Seq(Byte) /\ Len(s) <= Max16
      BY <3>1
    <3> HIDE DEF s
    <3>3. NewOption(ProxyURI, string(s)) \in optionOver(Byte)
      BY <3>2, CodeFacts, OptionsMade
    <3> QED
      BY <3>3 DEF s
  <2>3. ProxyURI # URIPath
    BY SMT DEF ProxyURI, URIPath
  <2>4. optionPath(AddOption(os, ProxyURI, p)) = optionPath(os)
    <3> HIDE DEF p
    <3> QED
      BY <1>0, <2>2, <2>3, OtherOption
  <2> QED
    BY <2>1, <2>4, AskedAlready
<1>6. ASSUME SetToken \/ SetStringPayload PROVE RequestAsAsked'
  <2> DEFINE T == {t \in Seq(Byte) : Len(t) < 16}
             O == Seq(optionOver(Byte))
             P == Seq(Byte)
  <2>1. message \in [type : 0 .. 3, code : Byte, id : 0 .. Max16, token : T, options : O, payload : P]
    BY <1>0, Zenon DEF messageOver
  <2>2. UNCHANGED asked /\ \E v : message' \in {[message EXCEPT !.token = v], [message EXCEPT !.payload = v]}
    BY <1>6 DEF SetToken, SetStringPayload, built
  <2> HIDE DEF T, O, P
  <2>3. message'.code = message.code /\ message'.options = message.options
    BY <2>1, <2>2
  <2> QED
    BY <1>b, <2>2, <2>3
<1>7. ASSUME SetAddChecksumOnSend PROVE RequestAsAsked'
  <2>1. message' = message /\ UNCHANGED asked
    BY <1>7 DEF SetAddChecksumOnSend, built
  <2> QED
    BY <1>b, <2>1
<1>8. ASSUME Send \/ Relay \/ Receive \/ Route PROVE RequestAsAsked'
  <2>1. message' = message /\ UNCHANGED asked
    BY <1>8 DEF Send, Relay, Receive, Route
  <2> QED
    BY <1>b, <2>1
<1>9. CASE UNCHANGED wireVars
  <2>1. message' = message /\ UNCHANGED asked
    BY <1>9 DEF wireVars
  <2> QED
    BY <1>b, <2>1
<1> QED
  BY <1>1, <1>2, <1>3, <1>4, <1>5, <1>6, <1>7, <1>8, <1>9 DEF WireNext

-----------------------------------------------------------------------------
(* The key of a resource tells its path, trimmed, and its method.          *)
LEMMA KeysTell ==
    ASSUME NEW v \in Seq(Byte), NEW w \in Seq(Byte), NEW m \in 1 .. 4, NEW n \in 1 .. 4
    PROVE  Append(v, 48 + m) = Append(w, 48 + n) <=> v = w /\ m = n
<1>1. v \in Seq(Nat) /\ w \in Seq(Nat)
  <2>1. Byte \subseteq Nat
    BY DEF Byte
  <2> QED
    BY <2>1, SeqMonotonic
<1> DEFINE a == 48 + m
           b == 48 + n
<1>2. a \in Nat /\ b \in Nat /\ (a = b <=> m = n)
  OBVIOUS
<1> HIDE DEF a, b
<1>3. Append(v, a) = Append(w, b) <=> v = w /\ a = b
  BY <1>1, <1>2, AppendInjective
<1> QED
  BY <1>2, <1>3 DEF a, b

(* The parts that segments leaves in are those that SetURIPath does.       *)
LEMMA SegmentsAre == \A x \in Seq(Byte) : segments(x) = filled(parts(trim(x)))
<1> SUFFICES ASSUME NEW x \in Seq(Byte) PROVE segments(x) = filled(parts(trim(x)))
  OBVIOUS
<1> DEFINE part == parts(trim(x))
           P == Seq(Byte)
<1>1. part \in Seq(P)
  BY Trimmed, PartsSplit
<1>2. segments(x) = FlattenSeq([i \in DOMAIN part |-> IF part[i] = <<>> THEN <<>> ELSE <<part[i]>>])
  BY Zenon DEF segments
<1> HIDE DEF part
<1>3. ASSUME NEW i \in DOMAIN part PROVE fill[part[i]] = IF part[i] = <<>> THEN <<>> ELSE <<part[i]>>
  <2>1. part[i] \in P
    <3> HIDE DEF P
    <3> QED
      BY <1>1, LenProperties, ElementOfSeq
  <2> QED
    BY <2>1 DEF fill
<1>4. [i \in DOMAIN part |-> fill[part[i]]] = [i \in DOMAIN part |-> IF part[i] = <<>> THEN <<>> ELSE <<part[i]>>]
  BY <1>3
<1>5. filled(part) = FlattenSeq([i \in DOMAIN part |-> fill[part[i]]])
  BY Zenon DEF filled, flat
<1> QED
  BY <1>2, <1>4, <1>5 DEF part

(* What the server finds for a request, by the path the URI-Path options   *)
(* of it are joined to.                                                    *)
keysOf(resources) == {resourceKey(r.path, r.method) : r \in resources}

registrable(resources) ==
    \A r \in resources : r.method \in 1 .. 4 /\ r.path \in Seq(Byte)

LEMMA KeyFound ==
    ASSUME NEW resources, registrable(resources), NEW m \in 1 .. 4, NEW w \in Seq(Byte)
    PROVE  Append(w, 48 + m) \in keysOf(resources)
               <=> \E r \in resources : r.method = m /\ trim(r.path) = w
<1>1. ASSUME NEW r \in resources
      PROVE  Append(w, 48 + m) = resourceKey(r.path, r.method) <=> r.method = m /\ trim(r.path) = w
  <2> DEFINE v == trim(r.path)
             n == r.method
  <2>1. v \in Seq(Byte) /\ n \in 1 .. 4
    BY Trimmed DEF registrable
  <2>2. resourceKey(r.path, n) = Append(v, 48 + n)
    BY DEF resourceKey
  <2> HIDE DEF v, n
  <2>3. Append(w, 48 + m) = Append(v, 48 + n) <=> w = v /\ m = n
    BY <2>1, KeysTell
  <2> QED
    BY <2>2, <2>3 DEF v, n
<1> QED
  BY <1>1 DEF keysOf

finds(resources, m, u, key) ==
    LET candidates == {r \in resources : r.method = m}
        hiding == {r \in candidates : trim(r.path) = <<Wildcard>>}
        meant  == IF hiding # {} THEN hiding ELSE {r \in candidates : trim(r.path) = u}
    IN  /\ key = <<>> <=> meant = {}
        /\ \A r \in meant : key = resourceKey(r.path, r.method)

(* The resource found is one that is meant, and none is found only when    *)
(* none is.                                                                *)
LEMMA Found ==
    ASSUME NEW resources, registrable(resources), NEW m \in 1 .. 4, NEW path,
           NEW u \in Seq(Byte), trim(path) = u
    PROVE  finds(resources, m, u, getResourceForPathAndMethod(keysOf(resources), path, m))
<1> DEFINE candidates == {r \in resources : r.method = m}
           hiding == {r \in candidates : trim(r.path) = <<Wildcard>>}
           meant  == IF hiding # {} THEN hiding ELSE {r \in candidates : trim(r.path) = u}
           keys   == keysOf(resources)
           key    == getResourceForPathAndMethod(keys, path, m)
           star   == Append(<<Wildcard>>, 48 + m)
           own    == Append(u, 48 + m)
<1>1. <<Wildcard, 48 + m>> = star /\ resourceKey(path, m) = own
  BY DEF resourceKey
<1>2. star \in keys <=> hiding # {}
  <2> DEFINE w == <<Wildcard>>
  <2>1. w \in Seq(Byte)
    <3>1. Wildcard \in Byte
      BY SMT DEF Wildcard, Byte
    <3> QED
      BY <3>1
  <2> HIDE DEF w
  <2>2. Append(w, 48 + m) \in keysOf(resources) <=> \E r \in resources : r.method = m /\ trim(r.path) = w
    BY <2>1, KeyFound
  <2> QED
    BY <2>2 DEF w
<1>3. own \in keys <=> \E r \in resources : r.method = m /\ trim(r.path) = u
  BY KeyFound
<1>4. star # <<>> /\ own # <<>>
  <2> DEFINE w == <<Wildcard>>
             e == 48 + m
  <2>1. Byte \subseteq Nat /\ Wildcard \in Nat
    BY SMT DEF Byte, Wildcard
  <2>2. w \in Seq(Nat) /\ e \in Nat
    BY <2>1
  <2> HIDE DEF w, e
  <2>3. u \in Seq(Nat)
    BY <2>1, SeqMonotonic
  <2>4. \A s \in Seq(Nat) : Append(s, e) # <<>>
    BY <2>2, AppendProperties
  <2>5. Append(w, e) # <<>> /\ Append(u, e) # <<>>
    BY <2>2, <2>3, <2>4
  <2> QED
    BY <2>5 DEF w, e
<1>5. \A r \in resources : r.method = m => resourceKey(r.path, r.method) = Append(trim(r.path), 48 + m)
  BY DEF resourceKey
<1> HIDE DEF keys, star, own
<1>6. key = IF star \in keys THEN star ELSE IF own \in keys THEN own ELSE <<>>
  BY <1>1 DEF getResourceForPathAndMethod
<1> HIDE DEF key
<1>7. CASE hiding # {}
  <2>1. meant = hiding /\ key = star
    BY <1>2, <1>6, <1>7
  <2>2. \A r \in hiding : resourceKey(r.path, r.method) = star
    BY <1>5 DEF star
  <2>3. (key = <<>> <=> meant = {}) /\ \A r \in meant : key = resourceKey(r.path, r.method)
    BY <1>4, <1>7, <2>1, <2>2
  <2> QED
    BY <2>3 DEF key, keys, finds
<1>8. CASE hiding = {}
  <2>1. meant = {r \in candidates : trim(r.path) = u}
    BY <1>8
  <2>2. key = IF own \in keys THEN own ELSE <<>>
    BY <1>2, <1>6, <1>8
  <2>3. \A r \in meant : resourceKey(r.path, r.method) = own
    BY <1>5, <2>1 DEF own
  <2>4. own \in keys <=> meant # {}
    BY <1>3, <2>1
  <2>5. (key = <<>> <=> meant = {}) /\ \A r \in meant : key = resourceKey(r.path, r.method)
    <3> HIDE DEF meant
    <3> QED
      BY <1>4, <2>2, <2>3, <2>4
  <2> QED
    BY <2>5 DEF key, keys, finds
<1> QED
  BY <1>7, <1>8

-----------------------------------------------------------------------------
(* respHandler finds what the property says, whatever is registered.       *)
LEMMA RouteStep == WireInv /\ RequestAsAsked /\ Route => RoutedAsRegistered'
<1> SUFFICES ASSUME WireInv, RequestAsAsked, Route PROVE RoutedAsRegistered'
  OBVIOUS
<1> DEFINE msg == received.msg
           M == methodOf[message.code]
           path == GetURIPath(msg.options)
           u == trim(carriedPath(asked))
<1>1. /\ at = "receiver" /\ received.err = "none"
      /\ message' = message /\ asked' = asked
  BY DEF Route
<1>2. PICK resources \in Registered :
        LET found == requestOnReceive(keysOf(resources), msg)
        IN  routed' = [resources |-> resources, reply |-> found.reply, key |-> found.key]
  BY Zenon DEF Route, keysOf
<1> DEFINE key == getResourceForPathAndMethod(keysOf(resources), path, M)
<1>3. /\ msg.code = message.code
      /\ GetOptions(msg.options, URIPath) = GetOptions(message.options, URIPath)
  <2>1. agrees(msg, message)
    BY <1>1 DEF WireInv, ReadAsBuilt
  <2>2. URIPath \in Carried
    BY SMT DEF Carried, DecodedOptions, StringOptions, URIPath, ProxyURI, ProxyScheme, Checksum
  <2> QED
    BY <2>1, <2>2 DEF agrees
<1>4. /\ message.code \in {GET, POST, PUT, DELETE} /\ asked \in Seq(Byte)
      /\ optionPath(message.options) = carriedPath(asked)
      /\ message.options \in Seq(optionOver(Byte))
  <2>1. message \in messageOver(Byte)
    BY DEF WireInv, MessageBuilt, ownMessages, plainMessages
  <2> QED
    BY <2>1, RequestAssumption, MessageFields DEF RequestAsAsked
<1>5. u \in Seq(Byte) /\ trim(path) = u
  <2>1. path = GetURIPath(message.options)
    BY <1>3 DEF GetURIPath
  <2> QED
    BY <1>4, <2>1, PathTrimmed, CarriedPathType, Trimmed
<1>6. GetMethod(msg.code) = M /\ M \in 1 .. 4 /\ msg.code \in 1 .. 4
  BY <1>3, <1>4 DEF GetMethod, methodOf, GET, POST, PUT, DELETE,
                    CoapMethodGet, CoapMethodPost, CoapMethodPut, CoapMethodDelete
<1>7. registrable(resources)
  <2>1. \A r \in resources :
          /\ r.method \in {CoapMethodGet, CoapMethodPost, CoapMethodPut, CoapMethodDelete}
          /\ r.path \in Seq(Byte)
    BY RequestAssumption
  <2> QED
    BY <2>1 DEF registrable, CoapMethodGet, CoapMethodPost, CoapMethodPut, CoapMethodDelete
<1>8. requestOnReceive(keysOf(resources), msg) =
        IF key = <<>> THEN [reply |-> "NotFound", key |-> <<>>] ELSE [reply |-> "handler", key |-> key]
  <2>1. ~(msg.code > 4) /\ msg.code # 0
    BY <1>6
  <2> QED
    BY <1>6, <2>1, Zenon DEF requestOnReceive
<1> HIDE DEF key, M, path, u, msg
<1>9. /\ routed'.resources = resources
      /\ routed'.reply = IF key = <<>> THEN "NotFound" ELSE "handler"
      /\ key # <<>> => routed'.key = key
  BY <1>2, <1>8
<1> DEFINE candidates == {r \in resources : r.method = M}
           hiding == {r \in candidates : trim(r.path) = <<Wildcard>>}
           same == {r \in candidates : trim(r.path) = u}
           meant == IF hiding # {} THEN hiding ELSE same
<1>10. /\ key = <<>> <=> meant = {}
       /\ \A r \in meant : key = resourceKey(r.path, r.method)
  <2>1. finds(resources, M, u, key)
    BY <1>5, <1>6, <1>7, Found DEF key
  <2> QED
    BY <2>1, Zenon DEF finds
<1>11. ASSUME NEW r \in resources PROVE isFor(r)' <=> trim(r.path) = u
  <2> DEFINE w == trim(r.path)
  <2>1. w \in Seq(Byte)
    BY <1>7, Trimmed DEF registrable
  <2>2. isFor(r)' <=> \/ w = <<>> /\ trim(asked) = <<>>
                      \/ w # <<>> /\ parts(w) = segments(asked)
    BY <1>1 DEF isFor
  <2> HIDE DEF w
  <2>3. segments(asked) = filled(parts(trim(asked)))
    BY <1>4, SegmentsAre
  <2>4. w = u <=> \/ w = <<>> /\ trim(asked) = <<>>
                  \/ w # <<>> /\ parts(w) = filled(parts(trim(asked)))
    BY <1>4, <2>1, SamePath DEF u
  <2> QED
    BY <2>2, <2>3, <2>4 DEF w
<1>12. {r \in candidates : isFor(r)'} = same
  BY <1>11
<1>13. methodOf[message'.code] = M
  BY <1>1 DEF M
<1>14. \A r \in meant : key # <<>>
  BY <1>10
<1> HIDE DEF meant
<1>15. /\ routed'.reply = (IF meant = {} THEN "NotFound" ELSE "handler")
       /\ \A r \in meant : routed'.key = resourceKey(r.path, r.method)
  BY <1>9, <1>10, <1>14
<1> QED
  BY <1>9, <1>12, <1>13, <1>15 DEF RoutedAsRegistered, meant

(* RoutedAsRegistered, for whatever the application builds, whatever path  *)
(* it sets and whatever is registered: a request reaches the resource of   *)
(* its method and path, or one for "*", or none (server.go:533-548 against *)
(* message.go:431-435 and 518-526).                                        *)
THEOREM RequestsFindTheirResources == WireSpec => []RoutedAsRegistered
<1> DEFINE Inv == WireInv /\ RequestAsAsked /\ RoutedAsRegistered
<1>1. WireInit => Inv
  BY WireInitially, AskedInitially DEF WireInit, RoutedAsRegistered
<1>2. ASSUME Inv, [WireNext]_wireVars PROVE Inv'
  <2>1. WireInv'
    BY <1>2, WireStep
  <2>2. RequestAsAsked'
    BY <1>2, AskedStep DEF WireInv
  <2>3. ASSUME at' # "routed" PROVE RoutedAsRegistered'
    BY <2>3 DEF RoutedAsRegistered
  <2>4. ASSUME Route PROVE RoutedAsRegistered'
    BY <1>2, <2>4, RouteStep
  <2>5. ASSUME AddStringOption \/ AddIntOption \/ CallSetURIPath \/ CallRemoveOptions \/ SetProxy PROVE RoutedAsRegistered'
    <3>1. at' = "application"
      BY <2>5 DEF AddStringOption, AddIntOption, CallSetURIPath, CallRemoveOptions, SetProxy, withOptions, built
    <3> QED
      BY <2>3, <3>1
  <2>6. ASSUME SetToken \/ SetStringPayload \/ SetAddChecksumOnSend PROVE RoutedAsRegistered'
    <3>1. at' = "application"
      BY <2>6 DEF SetToken, SetStringPayload, SetAddChecksumOnSend, built
    <3> QED
      BY <2>3, <3>1
  <2>7. ASSUME Send \/ Relay \/ Receive PROVE RoutedAsRegistered'
    <3>1. at' # "routed"
      BY <2>7 DEF Send, Relay, Receive
    <3> QED
      BY <2>3, <3>1
  <2>8. ASSUME UNCHANGED wireVars PROVE RoutedAsRegistered'
    BY <1>2, <2>8 DEF wireVars, RoutedAsRegistered, isFor
  <2>9. RoutedAsRegistered'
    BY <1>2, <2>4, <2>5, <2>6, <2>7, <2>8 DEF WireNext
  <2> QED
    BY <2>1, <2>2, <2>9
<1> QED
  BY <1>1, <1>2, PTL DEF WireSpec

-----------------------------------------------------------------------------
(* The prefix of a frame is made of bytes.                                 *)
LEMMA PrefixIsBytes ==
    ASSUME NEW n \in Nat, n <= Max32
    PROVE  encodeLength(n) \in Seq(Byte)
  <1>1. CASE n <= 12
    BY <1>1, SMT DEF encodeLength, Byte
  <1>2. CASE n \in 13..268
    <2>1. encodeLength(n) = <<13, n - 13>>
      BY <1>2, SMT DEF encodeLength
    <2>2. 13 \in Byte /\ n - 13 \in Byte
      BY <1>2, SMT DEF Byte
    <2> QED
      BY <2>1, <2>2
  <1>3. CASE n >= 269 /\ n <= MaxExtended
    <2>1. PICK k \in Nat : k <= Max16 /\ k = n - 269
      BY <1>3, SMT DEF MaxExtended, Max16
    <2>2. encodeLength(n) = <<14, Be2(k)[1], Be2(k)[2]>>
      BY <1>3, <2>1, SMT DEF encodeLength
    <2>3. Be2(k)[1] \in Byte /\ Be2(k)[2] \in Byte
      BY <2>1, Be2Inverse
    <2>4. 14 \in Byte
      BY SMT DEF Byte
    <2> QED
      BY <2>2, <2>3, <2>4
  <1>4. CASE n > MaxExtended
    <2>1. PICK k \in Nat : k <= Max32 /\ k = n - (MaxExtended + 1)
      BY <1>4, SMT DEF MaxExtended, Max16, Max32
    <2>2. encodeLength(n) = <<15, Be4(k)[1], Be4(k)[2], Be4(k)[3], Be4(k)[4]>>
      BY <1>4, <2>1, SMT DEF encodeLength, MaxExtended, Max16
    <2>3. 1 \in 1..4 /\ 2 \in 1..4 /\ 3 \in 1..4 /\ 4 \in 1..4 /\ 15 \in Byte
      BY SMT DEF Byte
    <2>4. Be4(k)[1] \in Byte /\ Be4(k)[2] \in Byte /\ Be4(k)[3] \in Byte /\ Be4(k)[4] \in Byte
      BY <2>1, <2>3, Be4Inverse
    <2> QED
      BY <2>2, <2>3, <2>4
  <1> QED
    BY <1>1, <1>2, <1>3, <1>4, SMT DEF MaxExtended, Max16

(* The prefix of frame i.                                                  *)
prefixOf(i) == encodeLength(Len(frame(i)))

(* Frames and prefixes are bytes.                                          *)
LEMMA FrameBytes ==
    ASSUME NEW i \in Frame
    PROVE  /\ frame(i) \in Seq(Byte) /\ prefixOf(i) \in Seq(Byte)
           /\ Len(frame(i)) > 0 /\ Len(prefixOf(i)) > 0
           /\ Len(prefixOf(i)) = 1 + extendedBy(prefixOf(i)[1])
           /\ decodeLength(prefixOf(i)) = Len(frame(i))
  <1>1. frame(i) \in Seq(Byte) /\ frame(i) # <<>>
    BY FramesAssumption
  <1>2. Len(frame(i)) \in Nat /\ Len(frame(i)) > 0
    BY <1>1, EmptySeq
  <1>3. Len(frame(i)) <= Max32
    BY <1>2, FramesAssumption, SMT DEF Max16, Max32
  <1>4. extendedBy(prefixOf(i)[1]) \in Nat
    BY SMT DEF extendedBy
  <1> QED
    BY <1>1, <1>2, <1>3, <1>4, FrameLengthRoundTrip, PrefixIsBytes DEF prefixOf

(* A part of s that is v, place by place.                                  *)
LEMMA SubSeqIs ==
    ASSUME NEW s, NEW m \in Nat, NEW v \in Seq(Byte), \A i \in 1 .. Len(v) : s[m + i] = v[i]
    PROVE  SubSeq(s, m + 1, m + Len(v)) = v
  <1> DEFINE t == SubSeq(s, m + 1, m + Len(v))
  <1>1. Len(v) \in Nat /\ \A i \in 1 .. Len(v) : v[i] \in Byte
    BY LenProperties, ElementOfSeq
  <1>2. \A i \in (m + 1) .. (m + Len(v)) : s[i] \in Byte
    <2> SUFFICES ASSUME NEW i \in (m + 1) .. (m + Len(v)) PROVE s[i] \in Byte
      OBVIOUS
    <2>1. i - m \in 1 .. Len(v) /\ i = m + (i - m)
      BY <1>1
    <2>2. s[m + (i - m)] = v[i - m]
      BY <2>1
    <2> QED
      BY <1>1, <2>1, <2>2
  <1>3. /\ t \in Seq(Byte) /\ Len(t) = Len(v)
        /\ \A i \in 1 .. Len(v) : t[i] = s[m + i]
    BY <1>1, <1>2, SubSeqProperties
  <1> HIDE DEF t
  <1>4. t = v
    BY <1>3, SeqEqual
  <1> QED
    BY <1>4 DEF t

(* A reader that knows the lengths of p and f finds them in s, and rest    *)
(* behind them.                                                            *)
HeadIs(s, p, f, rest) ==
    /\ s[1] = p[1]
    /\ SubSeq(s, 1, Len(p)) = p
    /\ SubSeq(s, Len(p) + 1, Len(p) + Len(f)) = f
    /\ SubSeq(s, Len(p) + Len(f) + 1, Len(s)) = rest

(* It finds them.                                                          *)
LEMMA HeadOfStream ==
    ASSUME NEW p \in Seq(Byte), NEW f \in Seq(Byte), NEW rest \in Seq(Byte), Len(p) > 0,
           NEW s, s = p \o (f \o rest)
    PROVE  HeadIs(s, p, f, rest)
  <1>1. /\ f \o rest \in Seq(Byte) /\ Len(f \o rest) = Len(f) + Len(rest)
        /\ Len(p) \in Nat /\ Len(f) \in Nat /\ Len(rest) \in Nat
    BY ConcatProperties, LenProperties
  <1>2. /\ s \in Seq(Byte) /\ Len(s) = Len(p) + Len(f) + Len(rest)
        /\ \A i \in 1 .. Len(s) : s[i] = IF i <= Len(p) THEN p[i] ELSE (f \o rest)[i - Len(p)]
    BY <1>1, ConcatProperties
  <1>3. \A i \in 1 .. Len(f) + Len(rest) :
           (f \o rest)[i] = IF i <= Len(f) THEN f[i] ELSE rest[i - Len(f)]
    BY ConcatProperties
  <1>4. SubSeq(s, 1, Len(p)) = p
    <2>1. \A i \in 1 .. Len(p) : s[0 + i] = p[i]
      BY <1>1, <1>2
    <2>2. SubSeq(s, 0 + 1, 0 + Len(p)) = p
      BY <2>1, SubSeqIs
    <2> QED
      BY <1>1, <2>2
  <1>5. SubSeq(s, Len(p) + 1, Len(p) + Len(f)) = f
    <2>1. \A i \in 1 .. Len(f) : s[Len(p) + i] = f[i]
      BY <1>1, <1>2, <1>3
    <2> QED
      BY <1>1, <2>1, SubSeqIs
  <1>6. SubSeq(s, Len(p) + Len(f) + 1, Len(s)) = rest
    <2> DEFINE m == Len(p) + Len(f)
    <2>1. m \in Nat /\ Len(s) = m + Len(rest)
      BY <1>1, <1>2
    <2>2. \A i \in 1 .. Len(rest) : s[m + i] = rest[i]
      BY <1>1, <1>2, <1>3
    <2> HIDE DEF m
    <2>3. SubSeq(s, m + 1, m + Len(rest)) = rest
      BY <2>1, <2>2, SubSeqIs
    <2> QED
      BY <2>1, <2>3 DEF m
  <1>7. s[1] = p[1]
    BY <1>1, <1>2
  <1> QED
    BY <1>4, <1>5, <1>6, <1>7 DEF HeadIs

-----------------------------------------------------------------------------
(* A stream that begins with frame i behind its prefix.                    *)
Before(i, rest) == prefixOf(i) \o (frame(i) \o rest)

(* What is written to the stream goes behind the rest.                     *)
LEMMA WrittenBehind ==
    ASSUME NEW i \in Frame, NEW c, NEW d, c \in Seq(Byte), d \in Seq(Byte)
    PROVE  Before(i, c) \o d = Before(i, c \o d)
  <1> DEFINE p == prefixOf(i)
             f == frame(i)
             e == f \o c
  <1>1. p \in Seq(Byte)
    BY FrameBytes
  <1>2. f \in Seq(Byte)
    BY FrameBytes
  <1> HIDE DEF p, f
  <1>3. e \in Seq(Byte)
    BY <1>2, ConcatProperties
  <1> HIDE DEF e
  <1>4. (p \o e) \o d = p \o (e \o d)
    BY <1>1, <1>3, BytesAssociate
  <1>5. (f \o c) \o d = f \o (c \o d)
    BY <1>2, BytesAssociate
  <1> QED
    BY <1>4, <1>5 DEF Before, p, f, e

(* The bytes s are the frames r+1 to w, each after its prefix, and then    *)
(* tail: left[i] is what follows frame i.                                  *)
Cut(left, r, w, s, tail) ==
    /\ left \in [r .. w -> Seq(Byte)]
    /\ left[r] = s
    /\ \A i \in r .. (w - 1) : left[i] = Before(i + 1, left[i + 1])
    /\ left[w] = tail

(* A prefix whose frame is not written yet.                                *)
Tailing == IF prefixSent THEN prefixOf(written + 1) ELSE <<>>

(* Why the server left the connection.                                     *)
Leaving ==
    \/ "client" \in closed /\ Len(arrived) = written
    \/ Len(arrived) + 1 \in Frame /\ Len(frame(Len(arrived) + 1)) > BufferSize

(* Until then the connection holds the frames that were written and not    *)
(* read, and perhaps a prefix whose frame is still to come.                *)
StreamInv ==
    /\ written \in 0 .. Len(Sizes)
    /\ prefixSent => written < Len(Sizes)
    /\ arrived \in Seq(Seq(Byte))
    /\ Len(arrived) <= written
    /\ \A k \in DOMAIN arrived : arrived[k] = frame(k) /\ Len(frame(k)) <= BufferSize
    /\ "server" \notin closed => \E left : Cut(left, Len(arrived), written, stream, Tailing)
    /\ "server" \in closed => Leaving

(* The invariant holds at first,                                           *)
LEMMA StreamInitInv ==
    ASSUME StreamInit
    PROVE  StreamInv
  <1>1. Len(Sizes) \in Nat
    BY TcpStreamAssumption
  <1>2. Cut([i \in 0 .. 0 |-> <<>>], 0, 0, <<>>, <<>>)
    BY DEF Cut
  <1>3. arrived \in Seq(Seq(Byte)) /\ Len(arrived) = 0 /\ DOMAIN arrived = {}
    BY DEF StreamInit
  <1>4. written = 0 /\ stream = <<>> /\ ~prefixSent /\ Tailing = <<>> /\ closed = {}
    BY DEF StreamInit, Tailing
  <1> QED
    BY <1>1, <1>2, <1>3, <1>4 DEF StreamInv

(* when the client writes a prefix                                         *)
LEMMA WritePrefixInv ==
    ASSUME StreamInv, WritePrefix, "server" \notin closed
    PROVE  StreamInv'
  <1> DEFINE r == Len(arrived)
             w == written
             p == prefixOf(w + 1)
  <1>1. /\ ~prefixSent /\ prefixSent' /\ w < Len(Sizes)
        /\ stream' = stream \o p
        /\ UNCHANGED <<written, arrived, closed>>
    BY DEF WritePrefix, prefixOf
  <1>2. /\ Len(Sizes) \in Nat /\ w \in Nat /\ r \in Nat /\ r <= w
    BY TcpStreamAssumption DEF StreamInv
  <1>3. PICK left : Cut(left, r, w, stream, Tailing)
    BY DEF StreamInv
  <1>4. p \in Seq(Byte)
    BY <1>1, <1>2, FrameBytes DEF Frame
  <1> DEFINE left_ == [i \in r .. w |-> left[i] \o p]
  <1>5. left \in [r .. w -> Seq(Byte)] /\ left[r] = stream /\ left[w] = <<>>
    BY <1>1, <1>3 DEF Cut, Tailing
  <1>6. left_ \in [r .. w -> Seq(Byte)]
    BY <1>4, <1>5, ConcatProperties
  <1>7. left_[r] = stream' /\ left_[w] = p
    BY <1>1, <1>2, <1>4, <1>5, ConcatEmptySeq
  <1>8. ASSUME NEW i \in r .. (w - 1)
        PROVE  left_[i] = Before(i + 1, left_[i + 1])
    <2>1. i + 1 \in Frame /\ i \in r .. w /\ i + 1 \in r .. w
      BY <1>1, <1>2 DEF Frame
    <2>2. /\ prefixOf(i + 1) \in Seq(Byte) /\ frame(i + 1) \in Seq(Byte)
          /\ left[i + 1] \in Seq(Byte) /\ frame(i + 1) \o left[i + 1] \in Seq(Byte)
      BY <1>5, <2>1, FrameBytes, ConcatProperties
    <2>3. left[i] = Before(i + 1, left[i + 1])
      BY <1>3 DEF Cut
    <2>4. left[i] \o p = Before(i + 1, left[i + 1] \o p)
      <3> DEFINE c == left[i + 1]
      <3>1. i + 1 \in Frame /\ c \in Seq(Byte) /\ p \in Seq(Byte)
        BY <1>4, <2>1, <2>2
      <3> HIDE DEF c, p
      <3>2. Before(i + 1, c) \o p = Before(i + 1, c \o p)
        BY <3>1, WrittenBehind
      <3> QED
        BY <2>3, <3>2 DEF c
    <2> QED
      BY <2>1, <2>4
  <1> HIDE DEF left_
  <1>9. Cut(left_, r, w, stream', p)
    BY <1>6, <1>7, <1>8 DEF Cut
  <1>10. Tailing' = p
    BY <1>1 DEF Tailing
  <1> QED
    BY <1>1, <1>2, <1>9, <1>10 DEF StreamInv

(* and a frame,                                                            *)
LEMMA WriteBodyInv ==
    ASSUME StreamInv, WriteBody, "server" \notin closed
    PROVE  StreamInv'
  <1> DEFINE r == Len(arrived)
             w == written
             p == prefixOf(w + 1)
             f == frame(w + 1)
  <1>1. /\ prefixSent /\ ~prefixSent'
        /\ stream' = stream \o f
        /\ written' = w + 1
        /\ UNCHANGED <<arrived, closed>>
    BY DEF WriteBody
  <1>2. /\ Len(Sizes) \in Nat /\ w \in Nat /\ r \in Nat /\ r <= w /\ w < Len(Sizes)
    BY <1>1, TcpStreamAssumption DEF StreamInv
  <1>3. PICK left : Cut(left, r, w, stream, Tailing)
    BY DEF StreamInv
  <1>4. p \in Seq(Byte) /\ f \in Seq(Byte)
    BY <1>2, FrameBytes DEF Frame
  <1> DEFINE left_ == [i \in r .. (w + 1) |-> IF i = w + 1 THEN <<>> ELSE left[i] \o f]
  <1>5. left \in [r .. w -> Seq(Byte)] /\ left[r] = stream /\ left[w] = p
    BY <1>1, <1>3 DEF Cut, Tailing
  <1>6. left_ \in [r .. (w + 1) -> Seq(Byte)]
    <2>1. ASSUME NEW i \in r .. (w + 1) PROVE left_[i] \in Seq(Byte)
      <3>1. CASE i = w + 1
        BY <3>1, EmptySeq
      <3>2. CASE i # w + 1
        <4>1. i \in r .. w
          BY <1>2, <3>2
        <4> QED
          BY <1>4, <1>5, <3>2, <4>1, ConcatProperties
      <3> QED
        BY <3>1, <3>2
    <2> QED
      BY <2>1
  <1>7. left_[r] = stream' /\ left_[w + 1] = <<>>
    <2>1. r \in r .. (w + 1) /\ w + 1 \in r .. (w + 1) /\ r # w + 1
      BY <1>2
    <2> QED
      BY <1>1, <1>5, <2>1
  <1>8. ASSUME NEW i \in r .. w
        PROVE  left_[i] = Before(i + 1, left_[i + 1])
    <2>1. i + 1 \in Frame /\ i \in r .. (w + 1) /\ i + 1 \in r .. (w + 1) /\ i # w + 1
      BY <1>2 DEF Frame
    <2>2. prefixOf(i + 1) \in Seq(Byte) /\ frame(i + 1) \in Seq(Byte)
      BY <2>1, FrameBytes
    <2>3. left_[i] = left[i] \o f
      BY <2>1
    <2>4. CASE i = w
      <3>1. left_[i] = p \o f /\ left_[i + 1] = <<>>
        BY <1>5, <2>1, <2>3, <2>4
      <3>2. f \o <<>> = f
        BY <1>4, ConcatEmptySeq
      <3> QED
        BY <2>4, <3>1, <3>2 DEF Before
    <2>5. CASE i # w
      <3>1. i \in r .. (w - 1) /\ i + 1 \in r .. w /\ i + 1 # w + 1
        BY <1>2, <2>5
      <3>2. left[i] = Before(i + 1, left[i + 1])
        BY <1>3, <3>1 DEF Cut
      <3>3. left[i + 1] \in Seq(Byte) /\ frame(i + 1) \o left[i + 1] \in Seq(Byte)
        BY <1>5, <2>2, <3>1, ConcatProperties
      <3>4. left[i] \o f = Before(i + 1, left[i + 1] \o f)
        <4> DEFINE c == left[i + 1]
        <4>1. i + 1 \in Frame /\ c \in Seq(Byte) /\ f \in Seq(Byte)
          BY <1>4, <2>1, <3>3
        <4> HIDE DEF c, f
        <4>2. Before(i + 1, c) \o f = Before(i + 1, c \o f)
          BY <4>1, WrittenBehind
        <4> QED
          BY <3>2, <4>2 DEF c
      <3>5. left_[i + 1] = left[i + 1] \o f
        BY <2>1, <3>1
      <3> QED
        BY <2>3, <3>4, <3>5
    <2> QED
      BY <2>4, <2>5
  <1> HIDE DEF left_
  <1>9. Cut(left_, r, w + 1, stream', <<>>)
    <2>1. (w + 1) - 1 = w
      BY <1>2
    <2> QED
      BY <1>6, <1>7, <1>8, <2>1 DEF Cut
  <1>10. Tailing' = <<>>
    BY <1>1 DEF Tailing
  <1> QED
    BY <1>1, <1>2, <1>9, <1>10 DEF StreamInv

(* What a server that has left does not read changes nothing.              *)
LEMMA UnreadWriteInv ==
    ASSUME StreamInv, WritePrefix \/ WriteBody, "server" \in closed
    PROVE  StreamInv'
  <1>1. /\ UNCHANGED <<arrived, closed>>
        /\ "client" \notin closed
        /\ \/ written < Len(Sizes) /\ UNCHANGED written
           \/ ~prefixSent' /\ prefixSent /\ written' = written + 1
    BY DEF WritePrefix, WriteBody
  <1>2. /\ Len(Sizes) \in Nat /\ written \in 0 .. Len(Sizes) /\ Len(arrived) \in Nat
        /\ Len(arrived) <= written /\ (prefixSent => written < Len(Sizes))
    BY TcpStreamAssumption DEF StreamInv
  <1>3. /\ written' \in 0 .. Len(Sizes) /\ Len(arrived) <= written'
        /\ prefixSent' => written' < Len(Sizes)
    BY <1>1, <1>2
  <1>4. Leaving'
    BY <1>1 DEF StreamInv, Leaving
  <1> QED
    BY <1>1, <1>3, <1>4 DEF StreamInv

(* What a round of the loop leaves.                                        *)
streamRest == SubSeq(stream, prefixLength + frameLength + 1, Len(stream))

(* It reads the first frame of the stream.                                 *)
LEMMA ReadIsFirstFrame ==
    ASSUME NEW i \in Frame, NEW rest \in Seq(Byte), stream = Before(i, rest)
    PROVE  /\ frameRead = frame(i) /\ streamRest = rest /\ frameLength = Len(frame(i))
           /\ FrameArrived
  <1> DEFINE p == prefixOf(i)
             f == frame(i)
  <1>1. p \in Seq(Byte) /\ f \in Seq(Byte) /\ Len(p) > 0
    BY FrameBytes
  <1>2. Len(p) = 1 + extendedBy(p[1]) /\ decodeLength(p) = Len(f)
    BY FrameBytes
  <1>3. stream = p \o (f \o rest)
    BY DEF Before
  <1> HIDE DEF p, f
  <1>4. HeadIs(stream, p, f, rest)
    BY <1>1, <1>3, HeadOfStream
  <1>5. prefixLength = Len(p)
    BY <1>2, <1>4 DEF prefixLength, HeadIs
  <1>6. frameLength = Len(f)
    BY <1>2, <1>4, <1>5 DEF frameLength, HeadIs
  <1>7. frameRead = f
    BY <1>4, <1>5, <1>6 DEF frameRead, HeadIs
  <1>8. streamRest = rest
    BY <1>4, <1>5, <1>6 DEF streamRest, HeadIs
  <1>9. FrameArrived
    <2> DEFINE behind == f \o rest
    <2>1. /\ behind \in Seq(Byte) /\ Len(behind) = Len(f) + Len(rest)
          /\ Len(p) \in Nat /\ Len(f) \in Nat /\ Len(rest) \in Nat
      BY <1>1, ConcatProperties, LenProperties
    <2>2. stream = p \o behind
      BY <1>3
    <2> HIDE DEF behind
    <2>3. stream \in Seq(Byte) /\ Len(stream) = Len(p) + Len(behind)
      BY <1>1, <2>1, <2>2, ConcatProperties
    <2>4. stream # <<>>
      BY <1>1, <2>1, <2>3, EmptySeq
    <2> QED
      BY <1>1, <1>5, <1>6, <2>1, <2>3, <2>4 DEF FrameArrived, PrefixArrived
  <1> QED
    BY <1>6, <1>7, <1>8, <1>9 DEF f

(* A prefix alone is not read: its frame has a byte.                       *)
LEMMA PrefixIsNotRead ==
    ASSUME NEW i \in Frame, stream = prefixOf(i)
    PROVE  ~ (Len(stream) >= prefixLength + frameLength) /\ frameLength = Len(frame(i))
  <1>1. /\ prefixOf(i) \in Seq(Byte) /\ Len(prefixOf(i)) \in Nat
        /\ Len(frame(i)) \in Nat /\ Len(frame(i)) > 0
        /\ Len(prefixOf(i)) = 1 + extendedBy(prefixOf(i)[1])
        /\ decodeLength(prefixOf(i)) = Len(frame(i))
    BY FrameBytes, LenProperties
  <1>2. prefixLength = Len(stream)
    BY <1>1 DEF prefixLength
  <1>3. SubSeq(stream, 1, Len(stream)) = stream
    BY <1>1, SubSeqFull
  <1>4. frameLength = Len(frame(i))
    BY <1>1, <1>2, <1>3 DEF frameLength
  <1> QED
    BY <1>1, <1>2, <1>4

(* What is in the connection begins with the prefix of the next frame, and *)
(* a frame that was written has arrived.                                   *)
LEMMA NextInStream ==
    ASSUME StreamInv, "server" \notin closed
    PROVE  /\ stream # <<>> => /\ Len(arrived) + 1 \in Frame
                               /\ frameLength = Len(frame(Len(arrived) + 1))
           /\ Len(arrived) < written <=> FrameArrived
  <1> DEFINE r == Len(arrived)
             w == written
  <1>1. /\ Len(Sizes) \in Nat /\ w \in 0 .. Len(Sizes) /\ r \in Nat /\ r <= w
    BY TcpStreamAssumption DEF StreamInv
  <1>2. PICK left : Cut(left, r, w, stream, Tailing)
    BY DEF StreamInv
  <1>3. left \in [r .. w -> Seq(Byte)] /\ left[r] = stream /\ left[w] = Tailing
    BY <1>2 DEF Cut
  <1>4. CASE r < w
    <2>1. r + 1 \in Frame /\ r + 1 \in r .. w /\ r \in r .. (w - 1)
      BY <1>1, <1>4 DEF Frame
    <2>2. left[r + 1] \in Seq(Byte) /\ stream = Before(r + 1, left[r + 1])
      BY <1>2, <1>3, <2>1 DEF Cut
    <2> QED
      BY <1>4, <2>1, <2>2, ReadIsFirstFrame
  <1>5. CASE r = w
    <2>1. stream = Tailing
      BY <1>3, <1>5
    <2>2. CASE ~prefixSent
      BY <1>1, <1>5, <2>1, <2>2 DEF Tailing, FrameArrived, PrefixArrived
    <2>3. CASE prefixSent
      <3>1. stream = prefixOf(r + 1)
        BY <1>5, <2>1, <2>3 DEF Tailing
      <3>2. r + 1 \in Frame
        BY <1>1, <1>5, <2>3 DEF StreamInv, Frame
      <3> QED
        BY <1>1, <1>5, <3>1, <3>2, PrefixIsNotRead DEF FrameArrived
    <2> QED
      BY <2>2, <2>3
  <1> QED
    BY <1>1, <1>4, <1>5

(* when ReadTcpFrame returns,                                              *)
LEMMA ReadFrameInv ==
    ASSUME StreamInv, ReadFrame
    PROVE  StreamInv' /\ frameLength \in Nat
  <1> DEFINE r == Len(arrived)
             w == written
  <1>1. /\ "server" \notin closed /\ FrameArrived
        /\ ~ (frameLength > BufferSize)
        /\ stream' = streamRest
        /\ arrived' = Append(arrived, frameRead)
        /\ UNCHANGED <<written, prefixSent, closed>>
    BY DEF ReadFrame, FrameArrived, TooLong, streamRest
  <1>2. /\ Len(Sizes) \in Nat /\ w \in 0 .. Len(Sizes) /\ r \in Nat /\ r <= w
        /\ arrived \in Seq(Seq(Byte))
    BY TcpStreamAssumption DEF StreamInv
  <1>3. PICK left : Cut(left, r, w, stream, Tailing)
    BY <1>1 DEF StreamInv
  <1>4. left \in [r .. w -> Seq(Byte)] /\ left[r] = stream /\ left[w] = Tailing
    BY <1>3 DEF Cut
  <1>5. r < w
    BY <1>1, NextInStream
  <1>6. /\ r + 1 \in Frame /\ r + 1 \in r .. w /\ r \in r .. (w - 1)
        /\ r + 1 <= w /\ r + 1 \in Nat
    BY <1>2, <1>5 DEF Frame
  <1>7. left[r + 1] \in Seq(Byte) /\ stream = Before(r + 1, left[r + 1])
    BY <1>3, <1>4, <1>6 DEF Cut
  <1>8. frameRead = frame(r + 1) /\ streamRest = left[r + 1]
    BY <1>6, <1>7, ReadIsFirstFrame
  <1>9. frameRead \in Seq(Byte) /\ frameLength \in Nat /\ Len(frame(r + 1)) <= BufferSize
    <2>1. frameLength = Len(frame(r + 1)) /\ frame(r + 1) \in Seq(Byte)
      BY <1>6, <1>7, FrameBytes, ReadIsFirstFrame
    <2>2. frameLength \in Nat
      BY <2>1, LenProperties
    <2> QED
      BY <1>1, <1>8, <2>1, <2>2, TcpStreamAssumption
  <1>10. /\ arrived' \in Seq(Seq(Byte)) /\ Len(arrived') = r + 1
         /\ \A k \in 1 .. r : arrived'[k] = arrived[k]
         /\ arrived'[r + 1] = frame(r + 1)
    BY <1>1, <1>2, <1>8, <1>9, AppendProperties
  <1>11. ASSUME NEW k \in DOMAIN arrived'
         PROVE  arrived'[k] = frame(k) /\ Len(frame(k)) <= BufferSize
    <2>1. k \in 1 .. (r + 1)
      BY <1>10, LenProperties
    <2>2. CASE k = r + 1
      BY <1>9, <1>10, <2>2
    <2>3. CASE k # r + 1
      <3>1. k \in 1 .. r /\ k \in DOMAIN arrived
        BY <1>2, <2>1, <2>3, LenProperties
      <3> QED
        BY <1>10, <3>1 DEF StreamInv
    <2> QED
      BY <2>2, <2>3
  <1> DEFINE left_ == [i \in (r + 1) .. w |-> left[i]]
  <1>12. Cut(left_, r + 1, w, stream', Tailing)
    <2>1. left_ \in [(r + 1) .. w -> Seq(Byte)]
      BY <1>2, <1>4
    <2>2. left_[r + 1] = stream' /\ left_[w] = Tailing
      BY <1>1, <1>2, <1>4, <1>6, <1>8
    <2>3. ASSUME NEW i \in (r + 1) .. (w - 1)
          PROVE  left_[i] = Before(i + 1, left_[i + 1])
      <3>1. i \in r .. (w - 1) /\ i \in (r + 1) .. w /\ i + 1 \in (r + 1) .. w
        BY <1>2
      <3> QED
        BY <1>3, <3>1 DEF Cut
    <2> HIDE DEF left_
    <2> QED
      BY <2>1, <2>2, <2>3 DEF Cut
  <1> HIDE DEF left_
  <1>13. Tailing' = Tailing
    BY <1>1 DEF Tailing
  <1>14. (prefixSent => written < Len(Sizes))'
    BY <1>1 DEF StreamInv
  <1> QED
    BY <1>1, <1>2, <1>6, <1>9, <1>10, <1>11, <1>12, <1>13, <1>14 DEF StreamInv

(* when the server leaves,                                                 *)
LEMMA LeaveInv ==
    ASSUME StreamInv, ShortBuffer \/ EndOfStream
    PROVE  StreamInv'
  <1>1. /\ "server" \notin closed /\ "server" \in closed'
        /\ closed' = closed \cup {"server"}
        /\ UNCHANGED <<written, prefixSent, arrived>>
    BY DEF ShortBuffer, EndOfStream
  <1>2. Leaving'
    <2>1. CASE ShortBuffer
      BY <1>1, <2>1, NextInStream DEF ShortBuffer, TooLong, PrefixArrived, Leaving
    <2>2. CASE EndOfStream
      <3>1. ~ (Len(arrived) < written) /\ "client" \in closed
        BY <1>1, <2>2, NextInStream DEF EndOfStream
      <3>2. Len(arrived) \in Nat /\ written \in Nat /\ Len(arrived) <= written
        BY TcpStreamAssumption DEF StreamInv
      <3> QED
        BY <1>1, <3>1, <3>2 DEF Leaving
    <2> QED
      BY <2>1, <2>2
  <1> QED
    BY <1>1, <1>2 DEF StreamInv

(* and in steps that leave the stream.                                     *)
LEMMA StreamInvStable ==
    ASSUME StreamInv, UNCHANGED <<written, prefixSent, stream, arrived>>,
           closed' = closed \/ closed' = closed \cup {"client"}
    PROVE  StreamInv'
  <1>1. Tailing' = Tailing
    BY DEF Tailing
  <1>2. "server" \in closed' <=> "server" \in closed
    OBVIOUS
  <1>3. Leaving => Leaving'
    BY DEF Leaving
  <1> QED
    BY <1>1, <1>2, <1>3 DEF StreamInv

(* So it holds always.                                                     *)
LEMMA StreamInvariant == StreamSpec => []StreamInv
  <1>1. StreamInit => StreamInv
    BY StreamInitInv
  <1>2. StreamInv /\ [StreamNext]_streamVars => StreamInv'
    <2> SUFFICES ASSUME StreamInv, [StreamNext]_streamVars
                 PROVE  StreamInv'
      OBVIOUS
    <2>1. CASE WritePrefix
      BY <2>1, WritePrefixInv, UnreadWriteInv
    <2>2. CASE WriteBody
      BY <2>2, WriteBodyInv, UnreadWriteInv
    <2>3. CASE ReadFrame
      BY <2>3, ReadFrameInv
    <2>4. CASE ShortBuffer \/ EndOfStream
      BY <2>4, LeaveInv
    <2>5. CASE ClientCloses
      BY <2>5, StreamInvStable DEF ClientCloses
    <2>6. ASSUME NEW g \in goroutines, Handle(g)
          PROVE  StreamInv'
      BY <2>6, StreamInvStable DEF Handle
    <2>7. CASE UNCHANGED streamVars
      BY <2>7, StreamInvStable DEF streamVars
    <2> QED
      BY <2>1, <2>2, <2>3, <2>4, <2>5, <2>6, <2>7 DEF StreamNext
  <1> QED
    BY <1>1, <1>2, PTL DEF StreamSpec

(* Wherever the reader is when the client is between the prefix and the    *)
(* frame, ReadTcpFrame returns the frames as they were written, up to the  *)
(* first that its buffer does not take; and the server leaves only there   *)
(* or when it has read all that a client wrote which has closed            *)
(* (connections_tcp.go:59-139, server.go:127-195).                         *)
THEOREM FramesComeOutInOrder == StreamSpec => []FramesInOrder
  <1>1. StreamInv => FramesInOrder
    <2> SUFFICES ASSUME StreamInv
                 PROVE  FramesInOrder
      OBVIOUS
    <2>1. ASSUME NEW k \in DOMAIN arrived
          PROVE  k <= written /\ arrived[k] = frame(k) /\ Len(frame(k)) <= BufferSize
      <3>1. k \in 1 .. Len(arrived) /\ Len(arrived) \in Nat
        BY LenProperties DEF StreamInv
      <3> QED
        BY <3>1 DEF StreamInv
    <2>2. "server" \in closed => Leaving
      BY DEF StreamInv
    <2> QED
      BY <2>1, <2>2 DEF FramesInOrder, Leaving
  <1> QED
    BY <1>1, StreamInvariant, PTL

-----------------------------------------------------------------------------
(* What Deserialize makes of one frame.                                    *)

(* All options have one of the codes.                                      *)
LEMMA AllWithCodes ==
    ASSUME NEW O, NEW s \in Seq(O), NEW C, codesOf(s) \subseteq C
    PROVE  withCodes(s, C) = s
<1> DEFINE T == {u \in Seq(O) : codesOf(u) \subseteq C => withCodes(u, C) = u}
<1>1. <<>> \in T
  BY EmptySeq, WithCodesEmpty
<1>2. ASSUME NEW u \in Seq(O), NEW o \in O, u \in T PROVE Append(u, o) \in T
  <2> DEFINE v == Append(u, o)
  <2>1. v \in Seq(O) /\ codesOf(v) = codesOf(u) \cup {o.code}
    BY AppendProperties, CodesOfParts
  <2>2. withCodes(v, C) = IF o.code \in C THEN Append(withCodes(u, C), o) ELSE withCodes(u, C)
    BY WithCodesAppend
  <2>3. ASSUME codesOf(v) \subseteq C PROVE withCodes(v, C) = v
    <3>1. codesOf(u) \subseteq C /\ o.code \in C
      BY <2>1, <2>3
    <3>2. withCodes(u, C) = u
      BY <1>2, <3>1
    <3> QED
      BY <2>2, <3>1, <3>2
  <2> HIDE DEF v
  <2> QED
    BY <2>1, <2>3 DEF v
<1>3. \A u \in Seq(O) : u \in T
  <2> HIDE DEF T
  <2> QED
    BY <1>1, <1>2, SeqInduction
<1> QED
  BY <1>3

(* A single option, other than the scheme, is written and read as it is.   *)
LEMMA SingleOption ==
    ASSUME NEW A, NEW o \in optionOver(A), o.code # URIScheme, o.code \in DecodedOptions
    PROVE  /\ codesOf(<<o>>) = {o.code}
           /\ withCodes(sorted(schemeWritten(<<o>>)), DecodedOptions) = <<o>>
<1> DEFINE O == optionOver(A)
           os == <<o>>
           C == {o.code}
           s == sorted(os)
<1>1. \A e \in O : e.code \in Nat
  BY Largest DEF optionOver
<1> HIDE DEF O
<1>0. o \in O
  BY DEF O
<1>2. os \in Seq(O) /\ codesOf(os) = C
  <2> DEFINE e == <<>>
  <2>1. os = Append(e, o) /\ e \in Seq(O)
    OBVIOUS
  <2>2. codesOf(e) = {}
    BY <2>1, CodesOfParts
  <2> HIDE DEF e, os
  <2>3. codesOf(Append(e, o)) = codesOf(e) \cup {o.code} /\ Append(e, o) \in Seq(O)
    BY <1>0, <2>1, CodesOfParts, AppendProperties
  <2> QED
    BY <2>1, <2>2, <2>3
<1> HIDE DEF os
<1>3. schemeWritten(os) = os
  <2>1. ~HasOption(os, URIScheme)
    BY <1>2 DEF HasOption
  <2> QED
    BY <2>1, Zenon DEF schemeWritten
<1>4. s \in Seq(O) /\ codesOf(s) = C /\ GetOptions(s, o.code) = GetOptions(os, o.code)
  BY <1>1, <1>2, SortedKeeps DEF sameOptions
<1> HIDE DEF s
<1>5. withCodes(s, C) = s /\ withCodes(os, C) = os
  BY <1>2, <1>4, AllWithCodes
<1>6. s = os
  BY <1>4, <1>5 DEF GetOptions
<1>7. withCodes(os, DecodedOptions) = os
  BY <1>2, AllWithCodes
<1> QED
  BY <1>2, <1>3, <1>6, <1>7, Zenon DEF s, os

(* The value of the option of block i.                                     *)
blockValue(i) == blockToInt([num |-> i - 1, more |-> i < Len(Sizes), size |-> 16])

blockOption(i) == NewOption(Block1, int(blockValue(i)))

LEMMA BlockOption ==
    ASSUME NEW i \in Frame
    PROVE  /\ blockOption(i) \in optionOver(Nat)
           /\ blockOption(i).code = Block1 /\ blockOption(i).value.n = blockValue(i)
           /\ Block1 # URIScheme /\ Block1 # Checksum /\ Block1 \in DecodedOptions
           /\ blockFromInt(blockValue(i)).num = i - 1
<1> DEFINE v == blockValue(i)
           szx == computeSZX(16)
           more == i < Len(Sizes)
           block == [num |-> i - 1, more |-> more, size |-> 16]
<1>1. i \in Nat /\ i - 1 \in Nat /\ i <= Max16
  BY TcpStreamAssumption, Largest DEF Frame
<1>2. 16 \in BlockSizes
  BY DEF BlockSizes
<1>3. szx \in 0 .. 6
  BY <1>2, SizeExponent
<1>4. blockFromInt(blockToInt(block)) = block
  <2>1. more \in BOOLEAN
    OBVIOUS
  <2> HIDE DEF more
  <2> QED
    BY <1>1, <1>2, <2>1, BlockRoundTrip
<1>5. blockFromInt(v).num = i - 1
  BY <1>4 DEF blockValue
<1>6. v = 16 * (i - 1) + (IF more THEN 8 ELSE 0) + szx
  BY DEF blockToInt, blockValue
<1> HIDE DEF v, szx, more
<1>7. v \in 0 .. Max32
  <2>1. v \in Nat /\ v <= 16 * (i - 1) + 14
    BY <1>1, <1>3, <1>6
  <2>2. \A k \in Nat : k <= Max16 => 16 * (k - 1) + 14 <= Max32
    BY SMT DEF Max16, Max32
  <2>3. 16 * (i - 1) + 14 <= Max32
    BY <1>1, <2>2
  <2> QED
    BY <1>1, <2>1, <2>3, Largest
<1>8. Block1 # URIScheme /\ Block1 # Checksum /\ Block1 \in DecodedOptions /\ Block1 \in 0 .. Max16
  <2>1. Block1 \in DecodedOptions
    BY DEF DecodedOptions, IntOptions
  <2>2. Block1 # URIScheme /\ Block1 # Checksum /\ Block1 \in 0 .. Max16
    BY SMT DEF Block1, URIScheme, Checksum, Max16
  <2> QED
    BY <2>1, <2>2
<1>9. Block1 \notin StringOptions
  BY SMT DEF Block1, StringOptions, URIHost, Etag, LocationPath, URIPath, URIQuery, LocationQuery,
             ProxyURI, CoapsUri, Checksum
<1> DEFINE o == NewOption(Block1, int(v))
<1>10. /\ o.code = Block1 /\ o.value = int(o.value.n) /\ o.value.n = v
       /\ o \in [code : 0 .. Max16, value : [kind : {"int", "string"}, n : 0 .. Max32, s : Seq(Nat)]]
  <2>1. <<>> \in Seq(Nat)
    BY EmptySeq
  <2> QED
    BY <1>7, <1>8, <2>1 DEF NewOption, int
<1>11. o = blockOption(i)
  BY Zenon DEF blockOption, v
<1> HIDE DEF o
<1>12. o \in optionOver(Nat)
  BY <1>9, <1>10, Zenon DEF optionOver
<1> QED
  BY <1>5, <1>8, <1>10, <1>11, <1>12 DEF v

(* The message of block i, which is a message over the numbers.            *)
LEMMA BlockMessage ==
    ASSUME NEW i \in Frame
    PROVE  /\ blockMessage(i) \in messageOver(Nat)
           /\ blockMessage(i).options = <<blockOption(i)>>
           /\ blockMessage(i).token = <<170>>
           /\ blockMessage(i).payload = [k \in 1 .. Sizes[i] |-> i]
<1> DEFINE token == <<170>>
           options == <<blockOption(i)>>
           payload == [k \in 1 .. Sizes[i] |-> i]
           m0 == [type |-> 0, code |-> 2, id |-> i, token |-> <<>>, options |-> <<>>, payload |-> <<>>]
           m == [type |-> 0, code |-> 2, id |-> i, token |-> token, options |-> options, payload |-> payload]
<1>1. i \in Nat /\ i \in 0 .. Max16 /\ Sizes[i] \in Nat
  BY TcpStreamAssumption, Largest, ElementOfSeq DEF Frame
<1>2. payload \in Seq(Nat)
  BY <1>1
<1>3. token \in Seq(Nat) /\ Len(token) < 16
  OBVIOUS
<1>4. options \in Seq(optionOver(Nat))
  BY BlockOption
<1>5. blockMessage(i) = [m0 EXCEPT !.token = token, !.options = options, !.payload = payload]
  BY Zenon DEF blockMessage, NewMessage, blockOption, blockValue
<1> HIDE DEF token, options, payload
<1>6. blockMessage(i) = m
  BY <1>5
<1>7. 2 \in Byte
  BY DEF Byte
<1> DEFINE T == {t \in Seq(Nat) : Len(t) < 16}
<1>8. token \in T
  BY <1>3
<1> HIDE DEF T
<1>9. m \in [type : 0 .. 3, code : Byte, id : 0 .. Max16, token : T,
             options : Seq(optionOver(Nat)), payload : Seq(Nat)]
  BY <1>1, <1>2, <1>4, <1>7, <1>8
<1>10. m.options = options /\ m.token = token /\ m.payload = payload
  OBVIOUS
<1> HIDE DEF m
<1> QED
  BY <1>6, <1>9, <1>10, Zenon DEF messageOver, T, options, token, payload

(* The token and the payload lie in a datagram where a reader that counts  *)
(* from its ends finds them.                                               *)
inPlace(A, f, token, payload) ==
    /\ f \in Seq(A) /\ 4 + Len(token) + Len(payload) <= Len(f)
    /\ SubSeq(f, 5, 4 + Len(token)) = token
    /\ SubSeq(f, Len(f) - Len(payload) + 1, Len(f)) = payload

(* A sequence ends with the last of the parts it was joined from.          *)
LEMMA EndsWith ==
    ASSUME NEW A, NEW u \in Seq(A), NEW v \in Seq(A), NEW r, joins(r, u, v)
    PROVE  /\ r \in Seq(A) /\ Len(v) <= Len(r)
           /\ SubSeq(r, Len(r) - Len(v) + 1, Len(r)) = v
<1> DEFINE m == Len(u)
           n == Len(v)
<1>0. m \in Nat /\ n \in Nat
  BY LenProperties
<1>1. /\ r \in Seq(A) /\ Len(r) = m + n
      /\ \A i \in 1 .. n : r[m + i] = v[i]
  BY TwoParts DEF follows
<1>2. SubSeq(r, m + 1, m + Len(v)) = v
  <2>1. m + Len(v) <= Len(r)
    BY <1>0, <1>1
  <2> HIDE DEF m
  <2> QED
    BY <1>0, <1>1, <2>1, Slice
<1> HIDE DEF m, n
<1>3. m = Len(r) - n /\ m + n = Len(r) /\ n <= Len(r)
  BY <1>0, <1>1
<1> QED
  BY <1>1, <1>2, <1>3 DEF n

(* An end of an end is an end.                                             *)
LEMMA EndOfEnd ==
    ASSUME NEW A, NEW s \in Seq(A), NEW t \in Seq(A), NEW k \in Nat, NEW v \in Seq(A),
           k + Len(t) = Len(s), SubSeq(s, k + 1, Len(s)) = t,
           Len(v) <= Len(t), SubSeq(t, Len(t) - Len(v) + 1, Len(t)) = v
    PROVE  SubSeq(s, Len(s) - Len(v) + 1, Len(s)) = v
<1> DEFINE ls == Len(s)
           lt == Len(t)
           n == Len(v)
           m == lt - n
<1>0. ls \in Nat /\ lt \in Nat /\ n \in Nat /\ k \in 0 .. ls /\ m \in 0 .. lt
  BY LenProperties
<1>1. \A i \in 1 .. (ls - k) : SubSeq(s, k + 1, ls)[i] = s[k + i]
  BY <1>0, SplitAt
<1>2. \A i \in 1 .. (lt - m) : SubSeq(t, m + 1, lt)[i] = t[m + i]
  BY <1>0, SplitAt
<1>3. ls = k + lt /\ n <= lt
  OBVIOUS
<1>4. SubSeq(s, k + 1, ls) = t /\ SubSeq(t, m + 1, lt) = v
  OBVIOUS
<1> HIDE DEF ls, lt, n
<1>5. ASSUME NEW i \in 1 .. n PROVE s[(ls - n) + i] = v[i]
  <2>1. i \in 1 .. (lt - m) /\ m + i \in 1 .. (ls - k) /\ k + (m + i) = (ls - n) + i
    BY <1>0, <1>3
  <2> HIDE DEF m
  <2>2. v[i] = t[m + i] /\ t[m + i] = s[k + (m + i)]
    BY <1>1, <1>2, <1>4, <2>1
  <2> QED
    BY <2>1, <2>2
<1>6. ls - n \in Nat /\ (ls - n) + n = ls
  BY <1>0, <1>3
<1>7. SubSeq(s, (ls - n) + 1, (ls - n) + Len(v)) = v
  <2>1. \A i \in 1 .. Len(v) : s[(ls - n) + i] = v[i]
    BY <1>5 DEF n
  <2>2. (ls - n) + Len(v) <= Len(s)
    BY <1>0, <1>6 DEF n, ls
  <2> QED
    BY <1>6, <2>1, <2>2, Slice
<1> QED
  BY <1>6, <1>7 DEF n, ls

LEMMA PartsInPlace ==
    ASSUME NEW A, Byte \subseteq A, NEW msg \in messageOver(A)
    PROVE  inPlace(A, Serialize(msg), msg.token, msg.payload)
<1> DEFINE f == Serialize(msg)
           token == msg.token
           payload == msg.payload
           c == <<msg.code>>
           id == Be2(msg.id)
<1>1. PICK os, h, tmp :
              /\ os \in Seq(optionOver(A)) /\ ascending(os)
              /\ joins(tmp, FlattenSeq(pieces(os)), payloadBytes(payload))
              /\ optionThen(A, f, h, c, id, token, tmp)
  BY SerializeIs
<1>2. payload \in Seq(A) /\ msg.id \in 0 .. Max16
  BY DEF messageOver
<1>3. Len(c) = 1 /\ Len(id) = 2
  <2>1. msg.id \in Nat /\ msg.id <= Max16
    BY <1>2, Largest
  <2> QED
    BY <2>1, Be2Inverse
<1>4. token \in Seq(A) /\ tmp \in Seq(A)
  BY <1>1, Zenon DEF optionThen
<1>5. f \in Seq(A)
  BY SerializeType
<1> HIDE DEF f, c, id
<1>6. /\ Len(f) = 4 + Len(token) + Len(tmp)
      /\ SubSeq(f, 5, 4 + Len(token)) = token
      /\ SubSeq(f, 4 + Len(token) + 1, Len(f)) = tmp
  <2>1. hasHeader(f, h, c, id, token, tmp)
    BY <1>1, <1>3, FixedHeader
  <2> QED
    BY <2>1, Zenon DEF hasHeader
<1>7. Len(payload) <= Len(tmp) /\ SubSeq(tmp, Len(tmp) - Len(payload) + 1, Len(tmp)) = payload
  <2> DEFINE laid == FlattenSeq(pieces(os))
             tail == payloadBytes(payload)
             w == <<PayloadMarker>>
  <2>1. laid \in Seq(A) /\ tail \in Seq(A)
    <3>1. pieces(os) \in Seq(Seq(A))
      BY <1>1, PieceType
    <3>2. payloadBytes(payload) \in Seq(A)
      BY <1>1, <1>2, LastState
    <3> QED
      BY <3>1, <3>2, FlattenType
  <2>2. w \in Seq(A)
    <3>1. PayloadMarker \in A
      BY SMT DEF PayloadMarker, Byte
    <3> QED
      BY <3>1
  <2>3. joins(tmp, laid, tail)
    BY <1>1
  <2>4. CASE payload = <<>>
    <3>1. Len(payload) = 0 /\ Len(tmp) \in Nat
      BY <1>4, <2>4, EmptySeq, LenProperties
    <3>2. SubSeq(tmp, Len(tmp) + 1, Len(tmp)) = <<>>
      <4>1. Len(tmp) \in 0 .. Len(tmp) /\ Len(tmp) - Len(tmp) = 0
        BY <3>1
      <4>2. /\ SubSeq(tmp, Len(tmp) + 1, Len(tmp)) \in Seq(A)
            /\ Len(SubSeq(tmp, Len(tmp) + 1, Len(tmp))) = Len(tmp) - Len(tmp)
        BY <1>4, <4>1, SplitAt
      <4> QED
        BY <4>1, <4>2, EmptySeq
    <3>3. Len(tmp) - 0 + 1 = Len(tmp) + 1
      BY <3>1
    <3> QED
      BY <2>4, <3>1, <3>2, <3>3
  <2>5. CASE payload # <<>>
    <3>1. joins(tail, w, payload)
      BY <2>5, Zenon DEF payloadBytes, joins
    <3>2. Len(payload) <= Len(tail) /\ SubSeq(tail, Len(tail) - Len(payload) + 1, Len(tail)) = payload
      BY <1>2, <2>2, <3>1, EndsWith
    <3> HIDE DEF laid, tail
    <3>3. Len(tail) <= Len(tmp) /\ SubSeq(tmp, Len(tmp) - Len(tail) + 1, Len(tmp)) = tail
      BY <2>1, <2>3, EndsWith
    <3>4. Len(tmp) \in Nat /\ Len(tail) \in Nat /\ Len(payload) \in Nat
      BY <1>2, <1>4, <2>1, LenProperties
    <3>5. Len(tmp) - Len(tail) \in Nat /\ (Len(tmp) - Len(tail)) + Len(tail) = Len(tmp)
      BY <3>3, <3>4
    <3>6. Len(payload) <= Len(tmp)
      BY <3>2, <3>3, <3>4
    <3> QED
      BY <1>2, <1>4, <2>1, <3>2, <3>3, <3>5, <3>6, EndOfEnd
  <2> QED
    BY <2>4, <2>5
<1>8. Len(token) \in Nat /\ Len(tmp) \in Nat /\ Len(payload) \in Nat
  BY <1>2, <1>4, LenProperties
<1>9. 4 + Len(token) + Len(payload) <= Len(f) /\ 4 + Len(token) \in Nat
  BY <1>6, <1>7, <1>8
<1>10. SubSeq(f, Len(f) - Len(payload) + 1, Len(f)) = payload
  BY <1>2, <1>4, <1>5, <1>6, <1>7, <1>9, EndOfEnd
<1> QED
  BY <1>5, <1>6, <1>9, <1>10, Zenon DEF inPlace, f, token, payload

-----------------------------------------------------------------------------
(* What the goroutine of frame i holds, and what it is to hand over.       *)
heldBy(i)  == reference(frame(i), Deserialize(frame(i)).msg)
seenFor(i) == [block   |-> i - 1,
               token   |-> blockMessage(i).token,
               payload |-> blockMessage(i).payload]

(* Deserialize accepts frame i, and finds its block, its token and its     *)
(* payload inside it.                                                      *)
decodes(i) ==
    /\ Deserialize(frame(i)).err = "none"
    /\ heldBy(i).block = i - 1
    /\ \A part \in {heldBy(i).token, heldBy(i).payload} :
          part[1] \in Nat \ {0} /\ part[2] \in 0 .. Len(frame(i))
    /\ SubSeq(frame(i), heldBy(i).token[1], heldBy(i).token[2]) = blockMessage(i).token
    /\ SubSeq(frame(i), heldBy(i).payload[1], heldBy(i).payload[2]) = blockMessage(i).payload

(* It does so for every frame: it is what the sender serialized.           *)
LEMMA FramesDecode == \A i \in Frame : decodes(i)
<1> SUFFICES ASSUME NEW i \in Frame PROVE decodes(i)
  OBVIOUS
<1> DEFINE m == blockMessage(i)
           o == blockOption(i)
           os == <<o>>
           c == carried(m)
           f == frame(i)
<1>0. Byte \subseteq Nat
  BY DEF Byte
<1>1. /\ m \in messageOver(Nat) /\ m.options = os /\ m.token = <<170>>
      /\ m.payload \in Seq(Nat)
  <2>1. m \in messageOver(Nat)
    BY BlockMessage
  <2> HIDE DEF m
  <2>2. m.payload \in Seq(Nat)
    BY <2>1 DEF messageOver
  <2> QED
    BY <2>1, <2>2, BlockMessage DEF m
<1>2. /\ o \in optionOver(Nat) /\ o.code = Block1 /\ o.value.n = blockValue(i)
      /\ Block1 # URIScheme /\ Block1 # Checksum /\ Block1 \in DecodedOptions
      /\ blockFromInt(blockValue(i)).num = i - 1
  BY BlockOption
<1>3. f = Serialize(m)
  BY Zenon DEF frame
<1> HIDE DEF m, o, f
<1>4. codesOf(os) = {Block1} /\ withCodes(sorted(schemeWritten(os)), DecodedOptions) = os
  BY <1>2, SingleOption
<1>5. c = withParts(m, os, m.payload)
  BY <1>1, <1>4, Zenon DEF carried
<1>6. os \in Seq(optionOver(Nat)) /\ Len(os) = 1 /\ os[1] = o /\ DOMAIN os = 1 .. 1
  BY <1>2
<1> HIDE DEF os
<1>7. c.options = os /\ c.token = <<170>> /\ c.payload = m.payload
  BY <1>1, <1>5 DEF withParts
<1> HIDE DEF c
<1>8. validateMessage(c)
  <2>1. Len(c.token) <= 8
    BY <1>7
  <2>2. \A x, y \in DOMAIN c.options : ~(x # y)
    BY <1>6, <1>7
  <2> QED
    BY <2>1, <2>2, Zenon DEF validateMessage
<1>9. deserialize(f) = accepted(c)
  <2>1. deserialize(f) = outcome(m)
    BY <1>0, <1>1, <1>3, RoundTrip
  <2>2. ~ \E code \in codesOf(m.options) : code \notin DecodedOptions /\ critical(code)
    BY <1>1, <1>2, <1>4
  <2> QED
    BY <1>8, <2>1, <2>2, Zenon DEF outcome, c
<1>10. Deserialize(f) = accepted(c)
  <2>1. accepted(c).msg = c /\ accepted(c).err = "none"
    BY DEF accepted
  <2>2. verifyChecksum(c)
    <3>1. ~HasOption(c.options, Checksum)
      BY <1>2, <1>4, <1>7 DEF HasOption
    <3> QED
      BY <3>1, Zenon DEF verifyChecksum
  <2> QED
    BY <1>9, <2>1, <2>2, Zenon DEF Deserialize
<1>11. Deserialize(f).err = "none" /\ Deserialize(f).msg = c
  BY <1>10 DEF accepted
<1>12. GetOptions(os, Block1) = os
  BY <1>4, <1>6, AllWithCodes DEF GetOptions
<1> DEFINE held == reference(f, c)
<1>13. /\ held.block = i - 1
       /\ held.token = <<5, 4 + Len(m.token)>>
       /\ held.payload = <<Len(f) - Len(m.payload) + 1, Len(f)>>
  <2>1. blockFromInt(GetOptions(c.options, Block1)[1].value.n).num = i - 1
    BY <1>2, <1>6, <1>7, <1>12
  <2>2. c.token = m.token
    BY <1>1, <1>7
  <2> QED
    BY <1>7, <2>1, <2>2 DEF reference
<1> HIDE DEF held
<1>14. inPlace(Nat, f, m.token, m.payload)
  BY <1>0, <1>1, <1>3, PartsInPlace
<1>15. /\ Len(f) \in Nat /\ Len(m.payload) \in Nat /\ Len(m.token) = 1
       /\ 4 + Len(m.token) + Len(m.payload) <= Len(f)
       /\ SubSeq(f, 5, 4 + Len(m.token)) = m.token
       /\ SubSeq(f, Len(f) - Len(m.payload) + 1, Len(f)) = m.payload
  <2>1. f \in Seq(Nat) /\ Len(m.token) = 1
    BY <1>1, <1>14 DEF inPlace
  <2> QED
    BY <1>1, <1>14, <2>1, LenProperties DEF inPlace
<1>16. \A part \in {held.token, held.payload} : part[1] \in Nat \ {0} /\ part[2] \in 0 .. Len(f)
  <2> DEFINE lf == Len(f)
             lp == Len(m.payload)
  <2>1. lf \in Nat /\ lp \in Nat /\ 5 + lp <= lf
    BY <1>15
  <2> HIDE DEF lf, lp
  <2>2. held.token = <<5, 5>> /\ held.payload = <<lf - lp + 1, lf>>
    BY <1>13, <1>15 DEF lf, lp
  <2>3. lf - lp + 1 \in Nat \ {0} /\ 5 \in 0 .. lf /\ lf \in 0 .. lf
    BY <2>1
  <2> QED
    BY <2>2, <2>3 DEF lf
<1>17. /\ SubSeq(f, held.token[1], held.token[2]) = m.token
       /\ SubSeq(f, held.payload[1], held.payload[2]) = m.payload
  <2>1. /\ held.token[1] = 5 /\ held.token[2] = 4 + Len(m.token)
        /\ held.payload[1] = Len(f) - Len(m.payload) + 1 /\ held.payload[2] = Len(f)
    BY <1>13
  <2> QED
    BY <1>15, <2>1, Zenon
<1> QED
  BY <1>11, <1>13, <1>16, <1>17, Zenon DEF decodes, heldBy, held, f, m

(* Of n handled frames, each once.                                         *)
HandledAre(n) ==
    /\ handled = {seenFor(k) : k \in 1 .. n}
    /\ IsFiniteSet(handled) /\ Cardinality(handled) = n

(* The buffer begins with frame i.                                         *)
Holds(i) == \E rest \in Seq(Byte) : buf = frame(i) \o rest

(* A client that waits: one frame at most is written and not handled, so   *)
(* the one goroutine there is finds its own frame in the buffer.           *)
OneByOne ==
    /\ buf \in Seq(Byte)
    /\ \E n \in Nat :
          /\ HandledAre(n)
          /\ written <= n + 1
          /\ prefixSent => written = n
          /\ \/ goroutines = {} /\ Len(arrived) = n
             \/ goroutines = {heldBy(n + 1)} /\ Len(arrived) = n + 1 /\ Holds(n + 1)

(* What refers to the buffer sees the frame it begins with.                *)
LEMMA SameRegion ==
    ASSUME NEW f \in Seq(Byte), NEW rest \in Seq(Byte),
           NEW a \in Nat \ {0}, NEW b \in 0 .. Len(f)
    PROVE  SubSeq(f \o rest, a, b) = SubSeq(f, a, b)
  <1> DEFINE s == f \o rest
             t == SubSeq(s, a, b)
             u == SubSeq(f, a, b)
  <1>1. /\ Len(f) \in Nat /\ b \in Int /\ a \in Int /\ Len(s) >= Len(f)
        /\ \A i \in 1 .. Len(f) : s[i] = f[i] /\ f[i] \in Byte
    BY ConcatProperties, LenProperties, ElementOfSeq
  <1>2. \A i \in a .. b : f[i] \in Byte /\ s[i] = f[i]
    BY <1>1
  <1>3. \A i \in a .. b : s[i] \in Byte
    BY <1>2
  <1> HIDE DEF s
  <1>4. /\ t \in Seq(Byte) /\ Len(t) = IF a <= b THEN b - a + 1 ELSE 0
        /\ \A i \in 1 .. b - a + 1 : t[i] = s[a + i - 1]
    BY <1>1, <1>3, SubSeqProperties
  <1>5. /\ u \in Seq(Byte) /\ Len(u) = IF a <= b THEN b - a + 1 ELSE 0
        /\ \A i \in 1 .. b - a + 1 : u[i] = f[a + i - 1]
    BY <1>1, <1>2, SubSeqProperties
  <1> HIDE DEF t, u
  <1>6. ASSUME NEW i \in 1 .. Len(t) PROVE t[i] = u[i]
    <2>1. i \in 1 .. b - a + 1 /\ a + i - 1 \in a .. b
      BY <1>1, <1>4
    <2> QED
      BY <1>2, <1>4, <1>5, <2>1
  <1>7. t = u
    BY <1>4, <1>5, <1>6, SeqEqual
  <1> QED
    BY <1>7 DEF s, t, u

(* At first,                                                               *)
LEMMA OneByOneInit ==
    ASSUME StreamInit
    PROVE  OneByOne
  <1>1. HandledAre(0)
    BY FS_EmptySet DEF StreamInit, HandledAre
  <1>2. Len(arrived) = 0 /\ goroutines = {} /\ written = 0 /\ ~prefixSent /\ buf \in Seq(Byte)
    BY DEF StreamInit
  <1> QED
    BY <1>1, <1>2 DEF OneByOne

(* when a frame is read,                                                   *)
LEMMA OneByOneRead ==
    ASSUME StreamInv, OneByOne, ReadFrame
    PROVE  OneByOne'
  <1>1. PICK n \in Nat :
          /\ HandledAre(n)
          /\ written <= n + 1
          /\ prefixSent => written = n
          /\ \/ goroutines = {} /\ Len(arrived) = n
             \/ goroutines = {heldBy(n + 1)} /\ Len(arrived) = n + 1 /\ Holds(n + 1)
    BY DEF OneByOne
  <1>2. /\ arrived' = Append(arrived, frameRead)
        /\ buf' = frameRead \o SubSeq(buf, frameLength + 1, Len(buf))
        /\ goroutines' = IF Deserialize(frameRead).err = "none"
                         THEN goroutines \cup {reference(frameRead, Deserialize(frameRead).msg)}
                         ELSE goroutines
        /\ UNCHANGED <<written, prefixSent, handled>>
    BY DEF ReadFrame
  <1>3. StreamInv' /\ frameLength \in Nat
    BY ReadFrameInv
  <1>4. /\ arrived \in Seq(Seq(Byte)) /\ Len(arrived) \in Nat /\ Len(Sizes) \in Nat
        /\ written \in 0 .. Len(Sizes)
    BY TcpStreamAssumption DEF StreamInv
  <1>5. Len(arrived') = Len(arrived) + 1 /\ Len(arrived') <= written
    BY <1>2, <1>3, <1>4 DEF StreamInv
  <1>6. Len(arrived) = n /\ goroutines = {} /\ n + 1 \in Frame
    BY <1>1, <1>4, <1>5 DEF Frame
  <1>7. frameRead = frame(n + 1)
    <2>1. arrived'[n + 1] = frameRead
      BY <1>2, <1>4, <1>6
    <2>2. n + 1 \in DOMAIN arrived'
      BY <1>2, <1>4, <1>5, <1>6
    <2> QED
      BY <1>3, <2>1, <2>2 DEF StreamInv
  <1>8. goroutines' = {heldBy(n + 1)}
    BY <1>2, <1>6, <1>7, FramesDecode DEF decodes, heldBy
  <1>9. frameRead \in Seq(Byte)
    BY <1>6, <1>7, FrameBytes
  <1>10. SubSeq(buf, frameLength + 1, Len(buf)) \in Seq(Byte)
    <2>1. buf \in Seq(Byte) /\ Len(buf) \in Nat /\ \A i \in 1 .. Len(buf) : buf[i] \in Byte
      BY LenProperties, ElementOfSeq DEF OneByOne
    <2>2. \A i \in frameLength + 1 .. Len(buf) : buf[i] \in Byte
      BY <1>3, <2>1
    <2> QED
      BY <1>3, <2>1, <2>2, SubSeqProperties
  <1>11. buf' \in Seq(Byte) /\ Holds(n + 1)'
    BY <1>2, <1>7, <1>9, <1>10, ConcatProperties DEF Holds
  <1>12. HandledAre(n)'
    BY <1>1, <1>2 DEF HandledAre
  <1> QED
    BY <1>1, <1>2, <1>5, <1>6, <1>8, <1>11, <1>12 DEF OneByOne

(* when its goroutine handles it,                                          *)
LEMMA OneByOneHandle ==
    ASSUME StreamInv, OneByOne, NEW g \in goroutines, Handle(g)
    PROVE  OneByOne'
  <1>1. PICK n \in Nat :
          /\ HandledAre(n)
          /\ written <= n + 1
          /\ prefixSent => written = n
          /\ \/ goroutines = {} /\ Len(arrived) = n
             \/ goroutines = {heldBy(n + 1)} /\ Len(arrived) = n + 1 /\ Holds(n + 1)
    BY DEF OneByOne
  <1>2. /\ g = heldBy(n + 1) /\ goroutines = {g} /\ Len(arrived) = n + 1 /\ Holds(n + 1)
    BY <1>1
  <1>3. written = n + 1 /\ n + 1 \in Frame /\ ~prefixSent
    BY <1>1, <1>2, TcpStreamAssumption DEF StreamInv, Frame
  <1>4. PICK rest \in Seq(Byte) : buf = frame(n + 1) \o rest
    BY <1>2 DEF Holds
  <1>5. frame(n + 1) \in Seq(Byte)
    BY <1>3, FrameBytes
  <1>6. SubSeq(buf, g.token[1], g.token[2]) = blockMessage(n + 1).token
    BY <1>2, <1>3, <1>4, <1>5, SameRegion, FramesDecode DEF decodes
  <1>7. SubSeq(buf, g.payload[1], g.payload[2]) = blockMessage(n + 1).payload
    BY <1>2, <1>3, <1>4, <1>5, SameRegion, FramesDecode DEF decodes
  <1>8. g.block = n
    BY <1>2, <1>3, FramesDecode DEF decodes
  <1>9. handled' = handled \cup {seenFor(n + 1)}
    BY <1>6, <1>7, <1>8 DEF Handle, seenFor
  <1>10. HandledAre(n + 1)'
    <2>1. seenFor(n + 1) \notin handled
      <3> SUFFICES ASSUME NEW k \in 1 .. n, seenFor(n + 1) = seenFor(k) PROVE FALSE
        BY <1>1 DEF HandledAre
      <3>1. seenFor(n + 1).block = n /\ seenFor(k).block = k - 1
        BY DEF seenFor
      <3> QED
        BY <3>1
    <2>2. IsFiniteSet(handled') /\ Cardinality(handled') = n + 1
      <3>1. IsFiniteSet(handled) /\ Cardinality(handled) = n
        BY <1>1 DEF HandledAre
      <3> DEFINE x == seenFor(n + 1)
      <3>2. handled' = handled \cup {x} /\ x \notin handled
        BY <1>9, <2>1
      <3> HIDE DEF x
      <3> QED
        BY <3>1, <3>2, FS_AddElement
    <2>3. handled' = {seenFor(k) : k \in 1 .. n + 1}
      <3>1. 1 .. n + 1 = (1 .. n) \cup {n + 1}
        OBVIOUS
      <3> QED
        BY <1>1, <1>9, <3>1 DEF HandledAre
    <2> QED
      BY <2>2, <2>3 DEF HandledAre
  <1>11. goroutines' = {} /\ UNCHANGED <<buf, arrived, written, prefixSent>>
    BY <1>2 DEF Handle
  <1> QED
    BY <1>2, <1>3, <1>10, <1>11 DEF OneByOne

(* and when the client writes.                                             *)
LEMMA OneByOneWrite ==
    ASSUME StreamInv, OneByOne, ~Pipelined, WritePrefix \/ WriteBody
    PROVE  OneByOne'
  <1>1. PICK n \in Nat :
          /\ HandledAre(n)
          /\ written <= n + 1
          /\ prefixSent => written = n
          /\ \/ goroutines = {} /\ Len(arrived) = n
             \/ goroutines = {heldBy(n + 1)} /\ Len(arrived) = n + 1 /\ Holds(n + 1)
    BY DEF OneByOne
  <1>2. /\ UNCHANGED <<arrived, buf, goroutines, handled>>
        /\ \/ prefixSent' /\ written' = written /\ Cardinality(handled) = written
           \/ ~prefixSent' /\ written' = written + 1 /\ prefixSent
    BY DEF WritePrefix, WriteBody
  <1>3. HandledAre(n)' /\ (Holds(n + 1) => Holds(n + 1)') /\ buf' \in Seq(Byte)
    BY <1>1, <1>2 DEF HandledAre, Holds, OneByOne
  <1>4. written' <= n + 1 /\ (prefixSent' => written' = n)
    BY <1>1, <1>2 DEF HandledAre
  <1> QED
    BY <1>1, <1>2, <1>3, <1>4 DEF OneByOne

(* With a client that writes a frame only when the one before was handled, *)
(* as one that waits for every acknowledgement does, the handlers see what *)
(* it sent although HandleTCPConn has one buffer for all of them           *)
(* (server.go:137, message.go:111, 213).  A pipelining client breaks it:   *)
(* that is tcp_shared_buffer's counterexample.                             *)
THEOREM WaitingClientIsSafe ==
    ASSUME ~Pipelined
    PROVE  StreamSpec => []HandlerSeesWhatWasSent
  <1>1. StreamInit => OneByOne
    BY OneByOneInit
  <1>2. StreamInv /\ OneByOne /\ [StreamNext]_streamVars => OneByOne'
    <2> SUFFICES ASSUME StreamInv, OneByOne, [StreamNext]_streamVars
                 PROVE  OneByOne'
      OBVIOUS
    <2>1. CASE UNCHANGED streamVars
      BY <2>1 DEF streamVars, OneByOne, HandledAre, Holds
    <2>2. CASE ClientCloses \/ ShortBuffer \/ EndOfStream
      <3>1. UNCHANGED <<written, prefixSent, arrived, buf, goroutines, handled>>
        BY <2>2 DEF ClientCloses, ShortBuffer, EndOfStream
      <3> QED
        BY <3>1 DEF OneByOne, HandledAre, Holds
    <2> QED
      BY <2>1, <2>2, OneByOneWrite, OneByOneRead, OneByOneHandle DEF StreamNext
  <1>3. OneByOne => HandlerSeesWhatWasSent
    <2> SUFFICES ASSUME OneByOne, NEW h \in handled
                 PROVE  /\ h.token = blockMessage(h.block + 1).token
                        /\ h.payload = blockMessage(h.block + 1).payload
      BY DEF HandlerSeesWhatWasSent
    <2>0. PICK n \in Nat : HandledAre(n)
      BY DEF OneByOne
    <2>1. PICK k \in 1 .. n : h = seenFor(k)
      BY <2>0 DEF HandledAre
    <2>2. h.block + 1 = k
      BY <2>1 DEF seenFor
    <2> QED
      BY <2>1, <2>2 DEF seenFor
  <1> QED
    BY <1>1, <1>2, <1>3, StreamInvariant, PTL DEF StreamSpec

-----------------------------------------------------------------------------
USE ProxyAssumption DEF serverVars, peerVars, netVars, auxVars

(* What travels as a request is what its asker asks.                       *)
AsAsked(msg) ==
    msg.kind = "request" => /\ msg.token = request[msg.from].token
                            /\ msg.host = request[msg.from].host

(* A goroutine's job is such a request until its answer is local.          *)
JobAsAsked(w) ==
    jobs[w] # None => /\ AsAsked(jobs[w].msg)
                      /\ jobs[w].pc # "local" => jobs[w].msg.kind = "request"

(* In the network, at the reader and in the goroutines.                    *)
RequestsAsAsked ==
    /\ \A msg \in toProxy : AsAsked(msg)
    /\ listening # None => AsAsked(listening)
    /\ \A w \in Worker : JobAsAsked(w)

(* A note leads to an asker that asked with its token for its host.        *)
NotesLeadBack ==
    \A key \in Token \X Host :
        proxyCache[key] # None => /\ request[proxyCache[key].addr].token = key[1]
                                  /\ request[proxyCache[key].addr].host = key[2]

(* The inductive invariant: AnswerToAsker needs to know of requests and    *)
(* notes what they were made from.                                         *)
ProxyInv == ProxyTypeOK /\ RequestsAsAsked /\ NotesLeadBack /\ AnswerToAsker

-----------------------------------------------------------------------------
(* A request names its target, by address or by name.                      *)
LEMMA RequestType ==
    ASSUME NEW r \in Requests, NEW a \in Asker
    PROVE  /\ r[a] \in Request
           /\ r[a].host \in {r[a].target, "name"}
  BY DEF Request

(* Why the address is in the key of a note: the answer of a target finds   *)
(* only notes of askers that asked that target.                            *)
LEMMA NoteOfAnswer ==
    ASSUME ProxyTypeOK, NotesLeadBack, NEW msg \in toProxy, hasNote(msg)
    PROVE  LET note == proxyCache[noteKey(msg)]
           IN  /\ note \in Note
               /\ msg \in TargetMessage
               /\ request[note.addr].token = msg.token
               /\ request[note.addr].target = msg.from
<1>1. msg \in TargetMessage /\ noteKey(msg) \in Token \X Host
  BY DEF hasNote, noteKey, ProxyTypeOK, AskerMessage, TargetMessage, Host
<1>2. proxyCache[noteKey(msg)] \in Note
  BY <1>1 DEF hasNote, ProxyTypeOK
<1>3. /\ request[proxyCache[noteKey(msg)].addr].token = msg.token
      /\ request[proxyCache[noteKey(msg)].addr].host = msg.from
  BY <1>1 DEF hasNote, noteKey, NotesLeadBack
<1>4. proxyCache[noteKey(msg)].addr \in Asker /\ request \in Requests /\ msg.from \in Target
  BY <1>1, <1>2 DEF Note, ProxyTypeOK, TargetMessage
<1> QED
  BY <1>1, <1>2, <1>3, <1>4, RequestType

(* What reaches the askers' side from a note is right.                     *)
LEMMA RelayRight ==
    ASSUME ProxyInv, UNCHANGED request, NEW msg \in toProxy, hasNote(msg), relayAnswer(msg)
    PROVE  toAsker' \subseteq [to : Asker, msg : TargetMessage] /\ AnswerToAsker'
<1> DEFINE note == proxyCache[noteKey(msg)]
<1>1. /\ note \in Note
      /\ msg \in TargetMessage
      /\ request[note.addr].token = msg.token
      /\ request[note.addr].target = msg.from
  BY NoteOfAnswer DEF ProxyInv
<1>2. toAsker' \subseteq toAsker \cup [to : {note.addr}, msg : {msg}]
  BY DEF relayAnswer
<1>3. toAsker \subseteq [to : Asker, msg : TargetMessage]
  BY DEF ProxyInv, ProxyTypeOK
<1>4. toAsker' \subseteq [to : Asker, msg : TargetMessage]
  BY <1>1, <1>2, <1>3 DEF Note
<1>5. AnswerToAsker'
  <2>1. SUFFICES ASSUME NEW m \in toAsker'
                 PROVE  m.msg.token = request[m.to].token /\ m.msg.from = request[m.to].target
    BY DEF AnswerToAsker
  <2>2. CASE m \in toAsker
    BY <2>2 DEF ProxyInv, AnswerToAsker
  <2>3. CASE m \in [to : {note.addr}, msg : {msg}]
    BY <1>1, <2>3
  <2> QED
    BY <1>2, <2>2, <2>3
<1> QED
  BY <1>4, <1>5

-----------------------------------------------------------------------------
(* Types.                                                                  *)
LEMMA StartTyped ==
    ASSUME ProxyTypeOK, NEW w \in Worker, NEW msg \in AskerMessage \cup TargetMessage,
           NEW loop \in Nat \cup {None}, start(w, msg, loop)
    PROVE  jobs' \in [Worker -> Job \cup {None}]
<1>1. [pc |-> IF msg.kind = "request" THEN "forward" ELSE "local", msg |-> msg, loop |-> loop] \in Job
  BY DEF Job
<1> QED
  BY <1>1 DEF start, ProxyTypeOK

(* The types: what several actions share,                                  *)
LEMMA FinishTyped ==
    ASSUME ProxyTypeOK, NEW w \in Worker, finish(w)
    PROVE  jobs' \in [Worker -> Job \cup {None}]
  BY DEF finish, ProxyTypeOK

LEMMA StrayTyped ==
    ASSUME ProxyTypeOK, NEW msg \in AskerMessage \cup TargetMessage, stray(msg)
    PROVE  strays' \subseteq Token \X Target
  BY DEF stray, noteKey, ProxyTypeOK, AskerMessage, TargetMessage

LEMMA MishapTyped ==
    ASSUME mishaps \in 0..MaxMishaps, mishap
    PROVE  mishaps' \in 0..MaxMishaps
  BY DEF mishap

(* the readers,                                                            *)
LEMMA ReadDatagramTyped == ProxyInv /\ ReadDatagram => ProxyTypeOK'
<1>1. SUFFICES ASSUME ProxyInv, ReadDatagram PROVE ProxyTypeOK'
  OBVIOUS
<1> USE <1>1 DEF ReadDatagram
<1>2. PICK msg \in toProxy :
         /\ \/ toProxy' = toProxy \ {msg} /\ UNCHANGED mishaps
            \/ mishap /\ UNCHANGED toProxy
         /\ IF hasNote(msg)
            THEN relayAnswer(msg) /\ UNCHANGED <<listening, strays>>
            ELSE listening' = msg /\ stray(msg) /\ UNCHANGED toAsker
  OBVIOUS
<1>3. ProxyTypeOK /\ msg \in AskerMessage \cup TargetMessage
  BY DEF ProxyInv, ProxyTypeOK
<1>4. toAsker' \subseteq [to : Asker, msg : TargetMessage]
  BY <1>2, <1>3, RelayRight DEF ProxyTypeOK
<1>5. mishaps' \in 0..MaxMishaps /\ toProxy' \subseteq AskerMessage \cup TargetMessage
  BY <1>2, <1>3, MishapTyped DEF ProxyTypeOK
<1>6. strays' \subseteq Token \X Target
  BY <1>2, <1>3, StrayTyped DEF ProxyTypeOK
<1>7. listening' \in AskerMessage \cup TargetMessage \cup {None}
  BY <1>2, <1>3 DEF ProxyTypeOK
<1> QED
  BY <1>3, <1>4, <1>5, <1>6, <1>7 DEF ProxyTypeOK

LEMMA ReadTcpFrameTyped == ProxyInv /\ ReadTcpFrame => ProxyTypeOK'
<1>1. SUFFICES ASSUME ProxyInv, ReadTcpFrame PROVE ProxyTypeOK'
  OBVIOUS
<1> USE <1>1 DEF ReadTcpFrame
<1>2. PICK msg \in toProxy, w \in Worker :
         /\ msg.from \in connected
         /\ toProxy' = toProxy \ {msg}
         /\ connStorage' = connStorage \cup {msg.from}
         /\ IF hasNote(msg)
            THEN relayAnswer(msg) /\ UNCHANGED <<jobs, strays>>
            ELSE start(w, msg, None) /\ stray(msg) /\ UNCHANGED toAsker
  OBVIOUS
<1>3. ProxyTypeOK /\ msg \in AskerMessage \cup TargetMessage
  BY DEF ProxyInv, ProxyTypeOK
<1>4. toAsker' \subseteq [to : Asker, msg : TargetMessage]
  BY <1>2, <1>3, RelayRight DEF ProxyTypeOK
<1>5. jobs' \in [Worker -> Job \cup {None}]
  BY <1>2, <1>3, StartTyped DEF ProxyTypeOK
<1>6. strays' \subseteq Token \X Target
  BY <1>2, <1>3, StrayTyped DEF ProxyTypeOK
<1>7. connStorage' \subseteq TcpPeer /\ toProxy' \subseteq AskerMessage \cup TargetMessage
  BY <1>2, <1>3 DEF ProxyTypeOK
<1> QED
  BY <1>3, <1>4, <1>5, <1>6, <1>7 DEF ProxyTypeOK

(* the goroutines,                                                         *)
LEMMA WorkerTyped ==
    ASSUME ProxyTypeOK, NEW w \in Worker, Forward(w) \/ StoreNote(w) \/ ProcessLocalState(w),
           jobs[w] # None /\ jobs[w].pc # "local" => jobs[w].msg.kind = "request"
    PROVE  ProxyTypeOK'
<1>1. jobs[w] \in Job
  BY DEF ProxyTypeOK, Forward, StoreNote, ProcessLocalState
<1>2. CASE Forward(w)
  <2>1. jobs[w].msg \in AskerMessage
    BY <1>1, <1>2 DEF Forward, Job, AskerMessage, TargetMessage
  <2>2. toTarget' \subseteq [to : Target, token : Token]
    BY <1>2, <2>1 DEF Forward, ProxyTypeOK, AskerMessage
  <2>3. jobs' \in [Worker -> Job \cup {None}]
    BY <1>1, <1>2, FinishTyped DEF Forward, ProxyTypeOK, Job
  <2> QED
    BY <1>2, <2>2, <2>3 DEF Forward, ProxyTypeOK
<1>3. CASE StoreNote(w)
  <2>1. jobs[w].msg \in AskerMessage
    BY <1>1, <1>3 DEF StoreNote, Job, AskerMessage, TargetMessage
  <2>2. <<jobs[w].msg.token, jobs[w].msg.host>> \in Token \X Host /\ noteFor(jobs[w].msg) \in Note
    BY <2>1 DEF AskerMessage, noteFor, Note, ProxyTypeOK
  <2>3. proxyCache' \in [Token \X Host -> Note \cup {None}]
    BY <1>3, <2>2 DEF StoreNote, ProxyTypeOK
  <2> QED
    BY <1>3, <2>3, FinishTyped DEF StoreNote, ProxyTypeOK
<1>4. CASE ProcessLocalState(w)
  BY <1>4, FinishTyped DEF ProcessLocalState, ProxyTypeOK
<1> QED
  BY <1>2, <1>3, <1>4

(* the peers                                                               *)
LEMMA AskTyped ==
    ASSUME ProxyTypeOK, NEW a \in Asker, Ask(a)
    PROVE  ProxyTypeOK'
<1>1. request[a] \in Request
  BY RequestType DEF ProxyTypeOK
<1>2. [kind |-> "request", from |-> a, token |-> request[a].token,
       target |-> request[a].target, host |-> request[a].host] \in AskerMessage
  BY <1>1 DEF AskerMessage, Request
<1>3. attempts' \in [Asker -> 0..MaxAttempts]
  BY DEF Ask, ProxyTypeOK
<1> QED
  BY <1>2, <1>3 DEF Ask, ProxyTypeOK

LEMMA AnswersTyped ==
    ASSUME ProxyTypeOK, ReceiveAnswer \/ TargetAnswers
    PROVE  ProxyTypeOK'
<1>1. CASE ReceiveAnswer
  BY <1>1 DEF ReceiveAnswer, ProxyTypeOK
<1>2. CASE TargetAnswers
  <2>1. PICK m \in toTarget :
          /\ toTarget' = toTarget \ {m}
          /\ answered' = answered \cup {<<m.to, m.token>>}
          /\ toProxy' \subseteq toProxy \cup {[kind |-> "answer", from |-> m.to, token |-> m.token]}
    BY <1>2 DEF TargetAnswers
  <2>2. m.to \in Target /\ m.token \in Token
    BY DEF ProxyTypeOK
  <2>3. [kind |-> "answer", from |-> m.to, token |-> m.token] \in TargetMessage
    BY <2>2 DEF TargetMessage
  <2> QED
    BY <1>2, <2>1, <2>2, <2>3 DEF TargetAnswers, ProxyTypeOK
<1> QED
  BY <1>1, <1>2

(* and the network.                                                        *)
LEMMA MishapsTyped ==
    ASSUME ProxyTypeOK,
           Lose \/ RefreshCloses \/ RefreshOpens \/ NoteExpires \/ ConnectionExpires
             \/ ConnectionCloses \/ DeleteTCP
    PROVE  ProxyTypeOK'
<1>0. mishaps \in 0..MaxMishaps
  BY DEF ProxyTypeOK
<1>1. CASE Lose
  BY <1>0, <1>1, MishapTyped DEF Lose, ProxyTypeOK
<1>2. CASE RefreshCloses
  BY <1>0, <1>2, MishapTyped DEF RefreshCloses, ProxyTypeOK
<1>3. CASE RefreshOpens
  BY <1>3 DEF RefreshOpens, ProxyTypeOK
<1>4. CASE NoteExpires
  BY <1>0, <1>4, MishapTyped DEF NoteExpires, ProxyTypeOK
<1>5. CASE ConnectionExpires
  BY <1>0, <1>5, MishapTyped DEF ConnectionExpires, ProxyTypeOK
<1>6. CASE ConnectionCloses
  BY <1>0, <1>6, MishapTyped DEF ConnectionCloses, ProxyTypeOK
<1>7. CASE DeleteTCP
  BY <1>7 DEF DeleteTCP, ProxyTypeOK
<1> QED
  BY <1>1, <1>2, <1>3, <1>4, <1>5, <1>6, <1>7

LEMMA AcquireSlotTyped == ProxyTypeOK /\ AcquireSlot => ProxyTypeOK'
<1>1. SUFFICES ASSUME ProxyTypeOK, AcquireSlot PROVE ProxyTypeOK'
  OBVIOUS
<1>2. PICK w \in Worker : start(w, listening, sr)
  BY <1>1 DEF AcquireSlot
<1>3. listening \in AskerMessage \cup TargetMessage /\ sr \in Nat
  BY <1>1 DEF AcquireSlot, ProxyTypeOK
<1>4. jobs' \in [Worker -> Job \cup {None}]
  BY <1>1, <1>2, <1>3, StartTyped
<1> QED
  BY <1>1, <1>4 DEF AcquireSlot, ProxyTypeOK

(* Every step.                                                             *)
LEMMA StepTyped == ProxyInv /\ [ProxyNext]_proxyVars => ProxyTypeOK'
<1>1. SUFFICES ASSUME ProxyInv, ProxyNext \/ UNCHANGED proxyVars PROVE ProxyTypeOK'
  OBVIOUS
<1>2. ProxyTypeOK
  BY <1>1 DEF ProxyInv
<1>3. CASE serverStep
  <2>1. \A w \in Worker : Forward(w) \/ StoreNote(w) \/ ProcessLocalState(w) => ProxyTypeOK'
    BY <1>1, <1>2, WorkerTyped DEF ProxyInv, RequestsAsAsked, JobAsAsked
  <2> QED
    BY <1>1, <1>2, <1>3, <2>1, ReadDatagramTyped, AcquireSlotTyped, ReadTcpFrameTyped, MishapsTyped
       DEF serverStep
<1>4. CASE UNCHANGED proxyVars
  BY <1>2, <1>4 DEF proxyVars, ProxyTypeOK
<1> QED
  BY <1>1, <1>2, <1>3, <1>4, AskTyped, AnswersTyped, MishapsTyped DEF ProxyNext

-----------------------------------------------------------------------------
(* Requests stay as they were asked.                                       *)
LEMMA StartAsAsked ==
    ASSUME ProxyTypeOK, RequestsAsAsked, UNCHANGED request,
           NEW w \in Worker, NEW msg \in AskerMessage \cup TargetMessage, AsAsked(msg),
           NEW loop, start(w, msg, loop)
    PROVE  \A v \in Worker : JobAsAsked(v)'
<1>1. SUFFICES ASSUME NEW v \in Worker PROVE JobAsAsked(v)'
  OBVIOUS
<1>2. CASE v = w
  BY <1>2 DEF start, ProxyTypeOK, JobAsAsked, AsAsked
<1>3. CASE v # w
  BY <1>1, <1>3 DEF start, ProxyTypeOK, RequestsAsAsked, JobAsAsked, AsAsked
<1> QED
  BY <1>2, <1>3

(* A goroutine's steps keep its request as it was asked,                   *)
LEMMA WorkerAsAsked ==
    ASSUME ProxyTypeOK, RequestsAsAsked,
           NEW w \in Worker, Forward(w) \/ StoreNote(w) \/ ProcessLocalState(w)
    PROVE  RequestsAsAsked'
<1>1. UNCHANGED <<toProxy, listening, request>>
  BY DEF Forward, StoreNote, ProcessLocalState
<1>2. \/ finish(w)
      \/ jobs[w].pc = "forward" /\ jobs' = [jobs EXCEPT ![w].pc = "note"]
  BY DEF Forward, StoreNote, ProcessLocalState
<1>3. SUFFICES ASSUME NEW v \in Worker PROVE JobAsAsked(v)'
  BY <1>1 DEF RequestsAsAsked, JobAsAsked, AsAsked
<1>4. CASE v = w
  <2>1. jobs[w] \in Job
    BY DEF Forward, StoreNote, ProcessLocalState, ProxyTypeOK
  <2>2. jobs[w] # None
    BY DEF Forward, StoreNote, ProcessLocalState
  <2> QED
    BY <1>1, <1>2, <1>3, <1>4, <2>1, <2>2 DEF finish, ProxyTypeOK, RequestsAsAsked, JobAsAsked, AsAsked, Job
<1>5. CASE v # w
  BY <1>1, <1>2, <1>3, <1>5 DEF finish, ProxyTypeOK, RequestsAsAsked, JobAsAsked, AsAsked
<1> QED
  BY <1>4, <1>5

(* Any other step leaves the goroutines alone, and what it adds to the     *)
(* requests is as its asker has it.                                        *)
LEMMA NothingStarted ==
    ASSUME ProxyTypeOK, RequestsAsAsked, UNCHANGED <<request, jobs>>,
           listening' = None \/ listening' = listening \/ listening' \in toProxy,
           \A msg \in toProxy' : msg \in toProxy \/ AsAsked(msg)
    PROVE  RequestsAsAsked'
  BY DEF RequestsAsAsked, JobAsAsked, AsAsked

(* and so does every step.                                                 *)
LEMMA StepAsAsked == ProxyInv /\ [ProxyNext]_proxyVars => RequestsAsAsked'
<1>1. SUFFICES ASSUME ProxyInv, ProxyNext \/ UNCHANGED proxyVars PROVE RequestsAsAsked'
  OBVIOUS
<1>2. ProxyTypeOK /\ RequestsAsAsked
  BY <1>1 DEF ProxyInv
<1>3. CASE ReadDatagram
  BY <1>2, <1>3, NothingStarted DEF ReadDatagram
<1>4. CASE AcquireSlot
  <2>1. PICK w \in Worker : start(w, listening, sr)
    BY <1>4 DEF AcquireSlot
  <2>2. AsAsked(listening) /\ listening \in AskerMessage \cup TargetMessage
    BY <1>2, <1>4 DEF AcquireSlot, RequestsAsAsked, ProxyTypeOK
  <2>3. \A v \in Worker : JobAsAsked(v)'
    BY <1>2, <1>4, <2>1, <2>2, StartAsAsked DEF AcquireSlot
  <2> QED
    BY <1>2, <1>4, <2>3 DEF AcquireSlot, RequestsAsAsked, AsAsked
<1>5. CASE ReadTcpFrame
  <2>1. PICK msg \in toProxy, w \in Worker :
           /\ toProxy' = toProxy \ {msg}
           /\ UNCHANGED jobs \/ start(w, msg, None)
    BY <1>5 DEF ReadTcpFrame
  <2>2. AsAsked(msg) /\ msg \in AskerMessage \cup TargetMessage
    BY <1>2 DEF RequestsAsAsked, ProxyTypeOK
  <2>3. UNCHANGED <<request, listening>>
    BY <1>5 DEF ReadTcpFrame
  <2>4. CASE UNCHANGED jobs
    BY <1>2, <2>1, <2>3, <2>4, NothingStarted
  <2>5. CASE start(w, msg, None)
    <3>1. \A v \in Worker : JobAsAsked(v)'
      BY <1>2, <2>2, <2>3, <2>5, StartAsAsked
    <3> QED
      BY <1>2, <2>1, <2>3, <3>1 DEF RequestsAsAsked, AsAsked
  <2> QED
    BY <2>1, <2>4, <2>5
<1>6. CASE \E a \in Asker : Ask(a)
  <2>1. PICK a \in Asker : Ask(a)
    BY <1>6
  <2>2. AsAsked([kind |-> "request", from |-> a, token |-> request[a].token,
                 target |-> request[a].target, host |-> request[a].host])
    BY DEF AsAsked
  <2> QED
    BY <1>2, <2>1, <2>2, NothingStarted DEF Ask
<1>7. CASE TargetAnswers
  BY <1>2, <1>7, NothingStarted DEF TargetAnswers, AsAsked
<1>8. CASE \/ ReceiveAnswer \/ Lose \/ RefreshCloses \/ RefreshOpens \/ NoteExpires
           \/ ConnectionExpires \/ ConnectionCloses \/ DeleteTCP \/ UNCHANGED proxyVars
  <2>1. UNCHANGED <<request, jobs, listening>> /\ toProxy' \subseteq toProxy
    BY <1>8 DEF ReceiveAnswer, Lose, RefreshCloses, RefreshOpens, NoteExpires,
                ConnectionExpires, ConnectionCloses, DeleteTCP, proxyVars
  <2> QED
    BY <1>2, <2>1, NothingStarted
<1> QED
  BY <1>1, <1>2, <1>3, <1>4, <1>5, <1>6, <1>7, <1>8, WorkerAsAsked DEF ProxyNext, serverStep

-----------------------------------------------------------------------------
(* Notes lead back: only a goroutine that has forwarded a request adds one. *)
LEMMA StepLeadsBack == ProxyInv /\ [ProxyNext]_proxyVars => NotesLeadBack'
<1>1. SUFFICES ASSUME ProxyInv, ProxyNext \/ UNCHANGED proxyVars PROVE NotesLeadBack'
  OBVIOUS
<1>2. ProxyTypeOK /\ RequestsAsAsked /\ NotesLeadBack
  BY <1>1 DEF ProxyInv
<1>3. CASE \E w \in Worker : StoreNote(w)
  <2>1. PICK w \in Worker : StoreNote(w)
    BY <1>3
  <2> DEFINE msg == jobs[w].msg
  <2>2. /\ jobs[w] \in Job
        /\ msg.kind = "request"
        /\ AsAsked(msg)
    BY <1>2, <2>1 DEF StoreNote, RequestsAsAsked, JobAsAsked, ProxyTypeOK
  <2>3. /\ noteFor(msg).addr = msg.from
        /\ msg.token = request[msg.from].token
        /\ msg.host = request[msg.from].host
    BY <2>2 DEF AsAsked, noteFor
  <2>4. proxyCache' = [proxyCache EXCEPT ![<<msg.token, msg.host>>] = noteFor(msg)] /\ UNCHANGED request
    BY <2>1 DEF StoreNote
  <2> HIDE DEF msg
  <2> QED
    BY <1>2, <2>3, <2>4 DEF NotesLeadBack, ProxyTypeOK
<1>4. CASE NoteExpires
  BY <1>2, <1>4 DEF NoteExpires, NotesLeadBack, ProxyTypeOK
<1>5. CASE UNCHANGED <<proxyCache, request>>
  BY <1>2, <1>5 DEF NotesLeadBack
<1> QED
  BY <1>1, <1>3, <1>4, <1>5
     DEF ProxyNext, serverStep, proxyVars, ReadDatagram, AcquireSlot, ReadTcpFrame, Forward,
         ProcessLocalState, RefreshOpens, DeleteTCP, Ask, ReceiveAnswer, TargetAnswers, Lose,
         RefreshCloses, ConnectionExpires, ConnectionCloses

(* What reaches an asker is for it.                                        *)
LEMMA StepAnswers == ProxyInv /\ [ProxyNext]_proxyVars => AnswerToAsker'
<1>1. SUFFICES ASSUME ProxyInv, ProxyNext \/ UNCHANGED proxyVars PROVE AnswerToAsker'
  OBVIOUS
<1>2. CASE ReadDatagram \/ ReadTcpFrame
  <2>1. UNCHANGED request
    BY <1>2 DEF ReadDatagram, ReadTcpFrame
  <2>2. UNCHANGED toAsker \/ \E msg \in toProxy : hasNote(msg) /\ relayAnswer(msg)
    BY <1>2 DEF ReadDatagram, ReadTcpFrame
  <2> QED
    BY <1>1, <2>1, <2>2, RelayRight DEF ProxyInv, AnswerToAsker
<1>3. CASE toAsker' \subseteq toAsker /\ UNCHANGED request
  BY <1>1, <1>3 DEF ProxyInv, AnswerToAsker
<1> QED
  BY <1>1, <1>2, <1>3
     DEF ProxyNext, serverStep, proxyVars, AcquireSlot, Forward, StoreNote, NoteExpires,
         ProcessLocalState, RefreshOpens, DeleteTCP, Ask, ReceiveAnswer, TargetAnswers, Lose,
         RefreshCloses, ConnectionExpires, ConnectionCloses

-----------------------------------------------------------------------------
(* So the invariant holds always.                                          *)
LEMMA ProxyInvHolds == ProxySpec => []ProxyInv
<1>1. ProxyInit => ProxyInv
  BY DEF ProxyInit, ProxyInv, ProxyTypeOK, RequestsAsAsked, JobAsAsked, NotesLeadBack, AnswerToAsker
<1>2. ProxyInv /\ [ProxyNext]_proxyVars => ProxyInv'
  BY StepTyped, StepAsAsked, StepLeadsBack, StepAnswers DEF ProxyInv
<1> QED
  BY <1>1, <1>2, PTL DEF ProxySpec

(* Every variable of the proxy and of its peers keeps its type.            *)
THEOREM ProxyTypeCorrect == ProxySpec => []ProxyTypeOK
  BY ProxyInvHolds, PTL DEF ProxyInv

(* What listenLoop and HandleTCPConn send an asker from a note answers     *)
(* that asker's own request and comes from the target it asked             *)
(* (server.go:158, 577, 607), also when askers share a token.              *)
THEOREM AnswersReachTheirAskers == ProxySpec => []AnswerToAsker
  BY ProxyInvHolds, PTL DEF ProxyInv
=============================================================================
