----------------------------- MODULE TcpStream -----------------------------
(***************************************************************************)
(* Messages over a TCP connection: a client that writes frames (the blocks *)
(* of one upload), and the server's HandleTCPConn, which reads them into   *)
(* one buffer and starts a goroutine for each (server.go:127-195,          *)
(* connections_tcp.go).  TCP neither loses nor reorders bytes, and         *)
(* io.ReadFull waits for all it asked for, so where the network cuts the   *)
(* stream does not matter.                                                 *)
(***************************************************************************)
EXTENDS Codec

CONSTANTS
    Sizes,       \* payload sizes of the frames, in the order they are written
    BufferSize,  \* the length of HandleTCPConn's buffer (65536)
    Pipelined    \* does the client write a frame before the last was handled?

(* An upload has no more blocks than there are identifiers (a uint16).     *)
ASSUME TcpStreamAssumption ==
    /\ Sizes \in Seq(Nat) /\ Len(Sizes) <= Max16
    /\ BufferSize \in Nat \ {0}
    /\ Pipelined \in BOOLEAN

VARIABLES
    written,     \* how many frames the client has written
    prefixSent,  \* the length of the next frame is written, its body is not
    stream,      \* bytes in the connection
    arrived,     \* the frames ReadTcpFrame has returned
    buf,         \* HandleTCPConn's buffer, allocated once per connection
    goroutines,  \* started by it and not finished: what a message refers to
    handled,     \* what processLocalState was called with
    closed       \* the ends, "client" or "server", that have closed it
streamVars == <<written, prefixSent, stream, arrived, buf, goroutines, handled, closed>>

Frame == 1..Len(Sizes)

(* Block number i of an upload: every block has the token of the request,  *)
(* and no two have a byte of payload in common (transport.go:250-268).     *)
blockMessage(i) ==
    [NewMessage(i) EXCEPT
        !.token   = <<170>>,
        !.options = <<NewOption(Block1,
                        int(blockToInt([num |-> i - 1, more |-> i < Len(Sizes), size |-> 16])))>>,
        !.payload = [k \in 1..Sizes[i] |-> i]]

frame(i) == Serialize(blockMessage(i))

(* A frame has bytes, and no more than the prefix can tell: its length is  *)
(* a uint32 (connections_tcp.go:59-91).                                    *)
ASSUME FramesAssumption ==
    \A i \in Frame :
        /\ frame(i) \in Seq(Byte)
        /\ frame(i) # <<>>
        /\ (Len(frame(i)) \div 256) \div 256 <= Max16

StreamInit ==
    /\ written = 0
    /\ prefixSent = FALSE
    /\ stream = <<>>
    /\ arrived = <<>>
    /\ buf = <<>>
    /\ goroutines = {}
    /\ handled = {}
    /\ closed = {}

(* WriteTcpFrame writes the prefix and the frame in two calls of Write     *)
(* (connections_tcp.go:131-139).  A server that has closed does not stop   *)
(* it: what it writes is not read.                                         *)
WritePrefix ==
    /\ "client" \notin closed
    /\ ~prefixSent
    /\ written < Len(Sizes)
    /\ Pipelined \/ Cardinality(handled) = written
    /\ stream' = stream \o encodeLength(Len(frame(written + 1)))
    /\ prefixSent' = TRUE
    /\ UNCHANGED <<written, arrived, buf, goroutines, handled, closed>>

WriteBody ==
    /\ "client" \notin closed
    /\ prefixSent
    /\ stream' = stream \o frame(written + 1)
    /\ prefixSent' = FALSE
    /\ written' = written + 1
    /\ UNCHANGED <<arrived, buf, goroutines, handled, closed>>

(* It may close, or end, at any moment: also before a frame's body.        *)
ClientCloses ==
    /\ closed' = closed \cup {"client"}
    /\ UNCHANGED <<written, prefixSent, stream, arrived, buf, goroutines, handled>>

(* Mutant: the payload starts at its marker.                               *)
reference_WithMarker(data, msg) ==
    [block   |-> blockFromInt(GetOptions(msg.options, Block1)[1].value.n).num,
     token   |-> <<5, 4 + Len(msg.token)>>,
     payload |-> <<Len(data) - Len(msg.payload), Len(data)>>]

(* What a message of the buffer refers to: Deserialize copies options, but *)
(* its token and its payload are slices of the buffer it read              *)
(* (message.go:111, 136, 205 and 213).                                     *)
reference(data, msg) ==
    [block   |-> blockFromInt(GetOptions(msg.options, Block1)[1].value.n).num,
     token   |-> <<5, 4 + Len(msg.token)>>,
     payload |-> <<Len(data) - Len(msg.payload) + 1, Len(data)>>]

(* What ReadTcpFrame reads: a prefix that tells its own length by its      *)
(* first byte, and as many bytes as the prefix tells.                      *)
prefixLength == 1 + extendedBy(stream[1])
frameLength  == decodeLength(SubSeq(stream, 1, prefixLength))
frameRead    == SubSeq(stream, prefixLength + 1, prefixLength + frameLength)

PrefixArrived == stream # <<>> /\ Len(stream) >= prefixLength
FrameArrived  == PrefixArrived /\ Len(stream) >= prefixLength + frameLength
TooLong       == PrefixArrived /\ frameLength > BufferSize

(* One round of the loop: ReadTcpFrame, Deserialize, and a goroutine that  *)
(* holds what it read.                                                     *)
ReadFrame ==
    /\ "server" \notin closed
    /\ FrameArrived
    /\ ~TooLong
    /\ stream' = SubSeq(stream, prefixLength + frameLength + 1, Len(stream))
    /\ arrived' = Append(arrived, frameRead)
    /\ buf' = frameRead \o SubSeq(buf, frameLength + 1, Len(buf))
    /\ LET read == Deserialize(frameRead)
       IN  goroutines' = IF read.err = "none"
                         THEN goroutines \cup {reference(frameRead, read.msg)}
                         ELSE goroutines
    /\ UNCHANGED <<written, prefixSent, handled, closed>>

(* The rounds that end the loop and close the connection: ErrShortBuffer,  *)
(* as soon as a prefix tells more than the buffer takes, and the end of a  *)
(* stream that holds no frame, between two frames or inside one.           *)
ShortBuffer ==
    /\ "server" \notin closed
    /\ TooLong
    /\ stream' = SubSeq(stream, prefixLength + 1, Len(stream))
    /\ closed' = closed \cup {"server"}
    /\ UNCHANGED <<written, prefixSent, arrived, buf, goroutines, handled>>

EndOfStream ==
    /\ closed = {"client"}
    /\ ~FrameArrived /\ ~TooLong
    /\ stream' = <<>>
    /\ closed' = closed \cup {"server"}
    /\ UNCHANGED <<written, prefixSent, arrived, buf, goroutines, handled>>

(* processLocalState looks at the message when the goroutine is run.       *)
Handle(g) ==
    /\ g \in goroutines
    /\ goroutines' = goroutines \ {g}
    /\ handled' = handled \cup {[block   |-> g.block,
                                 token   |-> SubSeq(buf, g.token[1], g.token[2]),
                                 payload |-> SubSeq(buf, g.payload[1], g.payload[2])]}
    /\ UNCHANGED <<written, prefixSent, stream, arrived, buf, closed>>

StreamNext ==
    \/ WritePrefix
    \/ WriteBody
    \/ ClientCloses
    \/ ReadFrame
    \/ ShortBuffer
    \/ EndOfStream
    \/ \E g \in goroutines : Handle(g)

StreamSpec == StreamInit /\ [][StreamNext]_streamVars

-----------------------------------------------------------------------------
(* The reader finds the boundaries of the frames: it returns the frames    *)
(* that were written, whole and in order, as long as they fit its buffer   *)
(* (connections_tcp.go:59-139, server.go:137-145).  It leaves the          *)
(* connection only when it has read them all and the client has closed, or *)
(* at a frame that does not fit: a misread boundary would show as either.  *)
FramesInOrder ==
    /\ \A k \in DOMAIN arrived :
           k <= written /\ arrived[k] = frame(k) /\ Len(frame(k)) <= BufferSize
    /\ "server" \in closed =>
           \/ "client" \in closed /\ Len(arrived) = written
           \/ Len(arrived) + 1 \in Frame /\ Len(frame(Len(arrived) + 1)) > BufferSize

(* A handler sees a block as the client sent it, with the token of its     *)
(* request (message.go:24-25: "Payload contains the data being             *)
(* transmitted.  Token is used to match responses with requests.").        *)
HandlerSeesWhatWasSent ==
    \A h \in handled :
        /\ h.token = blockMessage(h.block + 1).token
        /\ h.payload = blockMessage(h.block + 1).payload
=============================================================================
