# coalago in TLA+

A verification project for coalago, a CoAP stack in Go with selective-repeat
ARQ block transfer, encrypted sessions (`coaps`), proxying and a UDP and a TCP
server. It consists of TLA+ modules translated from the source, TLC
configurations that check them on small instances, and TLAPS proofs of the
main properties for every value of the constants. `PROJECT.json` maps each
definition to the source lines it stands for. Paths like `server.go:415` are
relative to the repository's root.

## 1. The system: inventory

| Component | State | Operations | Interacts with |
|---|---|---|---|
| **ARQ sender** (`transport.go` 185-523, `common.go`) | `packets[i].acked/attempts/lastSend`, `shift`, `relative_shift`, `windowsize`, balancer and overflow counters | `sendPackets`, `sendPacketsToAddr`, the receive loops of `sendARQBlock1CON` and `sendARQBlock2ACK` | the socket (upload) or the channel of `s.sr.block2channels` fed by `listenLoop` (download) |
| **Upload** (Block1) | the sender's, and `localState.bufBlock1/totalBlocks` on the server | `sendARQBlock1CON`, `localStateReceiveARQBlock1`, `ackTo` | server request processing |
| **Download** (Block2) | the sender's on the server, `buf`, `totalBlocks` and a timeout count on the client | `sendARQBlock2ACK`, `receiveARQBlock2` | entered from `sendCON` or `sendARQBlock1CON` |
| **Confirmable request** (`transport.go` 94-167) | `attempts` | `sendCON`: write, read with a deadline, retransmit | `receiveMessage`, server |
| **Server request processing** (`server.go` 511-628, `localstate.go`, `layerRequest.go`) | `StorageLocalStates`, `ProcessedMessages`, per request a `localState` with mutex and `runnedHandler` | `listenLoop`, `processLocalState`, `processMessage`, `respHandler`, `requestOnReceive`, `noResource` | one goroutine per datagram and one per handler call, over shared caches |
| **TTL cache** (`storage.go`) | sharded maps with `expiresAt` | `Get`, `Set`, `Delete`, `LoadOrStore`, `cleanupLoop` | used by all of the server |
| **Server-side Send** (`server.go` 319-435, `backward_storage.go`) | `bq`: channels by token+address | `send`, `sendTo`, `bq.Get/Has/Write/Delete`, `serverHandshake` | its answers come through `listenLoop` and `respHandler` |
| **Secure sessions** (`security.go`, `encryption.go`, `session/`) | a session per peer on each side, with a sliding expiry | `handshake`, `receiveHandshake`, `handleCoapsScheme`, `encrypt`, `decrypt`, session errors and the second round of `transport.Send` | `sendCON`, server request processing |
| **Server lifecycle** (`server.go` 62-263) | `s.sr`, `s.tcpLn`, `srMu`, `closeOnce` | `Listen`, `ListenTCP`, `Serve`, `Refresh`, `Close` | the `listenLoop`s, the operating system |
| **Proxy** (`server.go` 127-195, 293-317, 577-610) | `proxyCache`, `proxyIDSessions` | `sendMultyProxy`, forwarding in both directions | `listenLoop`, `HandleTCPConn`, `connStorage` |
| **TCP transport** (`connections_tcp.go`, `server.go` 127-195) | `connStorage`, one buffer per connection | framing, `HandleTCPConn` | proxy, server request processing |
| **Connection pool** (`connections.go` 54-150) | a channel of tokens | dial, `Close` | `Client` |
| **Codec** (`message.go`, `options.go`, `block.go`) | none | `Serialize`, `Deserialize`, option deltas, block numbers | everything |
| **Resources** (`resource.go`, `server.go` 265-279, 533-548) | `sync.Map` path+method to handler, `*` wildcard | `GET`, `POST`, ..., lookup | `requestOnReceive` |
| **Metrics**, **command line client**, **examples** | counters, none | | |

What makes it hard: every datagram is processed on its own goroutine, with
caches whose accesses are individually but not jointly atomic; handlers run on
further goroutines; UDP loses, repeats and reorders in both directions; read
deadlines race late answers; caches expire in the middle of an exchange; and
sockets are replaced under the loops that read from them.

What makes each part correct:

* *ARQ sender*: the window always contains the first unacknowledged packet,
  never runs ahead of the acknowledgements by more than its size, and its
  counters agree with the packets.
* *Upload, confirmable request*: the handler sees the whole payload or nothing;
  success means that it ran; a loss is repaired or reported, never a hang.
* *Download*: the client gets the whole body; a sender that reports success is
  right; both ends leave their loops.
* *Server processing*: one run of the handler per request, slots given back.
* *Server.Send*: returns; returns the answer if there is one.
* *Sessions*: a rejected session is not used again; both sides agree after a
  success; a disagreement is repaired, whichever side sends.
* *Proxy*: an answer goes to the asker whose request it answers; an answer that
  overtakes the note, a loss or a refresh is repaired by another attempt;
  `listenLoop` goes on.
* *Codec*: what arrives is what was built, or it is refused for a known reason.
* *TCP*: frames come out as they went in, and each is handled as it was read.
* *Resources*: a request reaches the resource registered for it and no other.
* *Lifecycle*: an open socket is read, none is leaked, loops of closed sockets
  end.

## 2. Modules

```
Transfer ── ArqSender ──┬── Upload ── UploadProof
   │            │       │     │
   │      ArqSenderProof│     │  (RequestContract, by INSTANCE)
   │                    └─ Download ── DownloadProof
   │                          │  (TransferContract, by INSTANCE)
Network ─┬─ LocalState ─┬─ Exchange ─┬─ Upload
         │              │     │      └─ Confirmable ── ConfirmableProof
         │              │  ExchangeProof
         │              └─ ServerSend ──┐
         ├─ Download                    ├─ MCServerSend
         │                SecureSend ───┘
         └─ Session ── SessionProof

Encoding ── Codec ─┬─ Routing ── Wire ──┬─ MCWire
                   └─ TcpStream ────────┤
                              Proxy ────┴─ WireProof
Lifecycle, MCServerSend ── ServerProof
```

| Module | Models | State and actions |
|---|---|---|
| `Transfer` | a payload cut into blocks, what a receiver knows of it | `Complete`, `TotalAfter`, `assembleBlocks` are pure operators used on both receiving sides |
| `Network` | UDP between two parties (external) | sets of datagrams in flight; delivered in any order; `TakeFrom` may leave a duplicate, `LoseDatagram` drops one |
| `ArqSender` | the send window of both senders, receiver left open | `ArqStart`, `ArqContinue`, `ArqFinal`, `ArqTimeout`, `ArqReadError`; `lastSend` is abstracted to the set of blocks that are due again. `ToAddr` chooses between `sendPackets` and `sendPacketsToAddr` |
| `LocalState` | the server's processing of the datagrams of one key sender+token | per goroutine a program counter; one action per access to a cache (`checkProcessed`, `loadState`, `storeState`, `deleteState`, `markProcessed`), one for `processMessage` (under `ls.mx`), one for the CAS, one for the handler |
| `Exchange` | server plus network | delivery, loss, and the server's half of the inductive invariant |
| `RequestContract` | **abstract specification**: what a request promises its caller | `Handle`, `Succeed`, `Refuse`, `Fail` |
| `Upload` | `ArqSender` as client against `Exchange` | refines `RequestContract` |
| `Confirmable` | the `sendCON` loop against `Exchange` with one block | refines `RequestContract`; `split` is a history variable: has one goroutine come between the cache accesses of another (`Splits`)? |
| `TransferContract` | **abstract specification**: what a blockwise transfer promises its two ends | `Transmit`, `Succeed`, `Receive`, `GiveUp` |
| `Download` | `ArqSender` as server against `sendCON`/`sendARQBlock1CON` + `receiveARQBlock2` | refines `TransferContract` |
| `ServerSend` | `Server.send` and `bq` over `LocalState` | the peer is external: it answers once, or every copy |
| `Session` | a client's `coaps` request: handshake, session storages, session errors, second round | cryptography is symbolic: a datagram opens under the pair of public keys it was sealed with; the server's accesses to its session storage are steps of their own |
| `SecureSend` | `Server.Send` of a `coaps` message: `serverHandshake`, `send`, the second round | `phase` is the place of the caller's goroutine; `listenLoop`'s part is `ReceivePeerHello`, `ReceiveRejection`, `ReceiveResponse`; the peer handles one datagram at a time |
| `Encoding` | numbers in bytes: option header, integer option, block option, frame length | pure operators |
| `Codec` | the option list of a message, `Serialize`, `Deserialize`, the checksum, a proxy's rewriting | pure operators on records and byte sequences |
| `Routing` | paths, methods and the resource table | pure operators |
| `Wire` | a message from the application's calls to the receiver's resource, through a proxy or not | `built` counts the calls; `Send`, `Relay`, `Receive`, `Route` move the datagram |
| `TcpStream` | a client that writes frames, and `HandleTCPConn` with its one buffer and a goroutine per frame | a goroutine holds positions in the buffer (`reference`) and reads them when it runs; a round of the loop is `ReadFrame`, or ends the connection (`ShortBuffer`, `EndOfStream`) |
| `Proxy` | forwarding between peers over UDP and TCP: `listenLoop` with its semaphore, `HandleTCPConn`, `sendMultyProxy`, `proxyCache`, `connStorage`, `Refresh` | `jobs` holds what each goroutine does; `Forward` and `StoreNote` are separate, as the code has them |
| `Lifecycle` | `Listen`, `ListenTCP`, `Refresh`, `Close` and the loops | sockets are numbers, `srMu` makes `Refresh` and `Close` one step each |

`RequestContract`'s state is related to the concrete one by `Payload <- Block`
and `outcome <- Outcome`, where `Outcome` reads the client's `status` and the
`response` it returned; `runs`, the history of handler calls, is shared.
`TransferContract`'s `sent`, `sender` and `receiver` are what `Download`'s
`attempts`, `status` and `phase` say of the two calls (`SentBlocks`,
`SenderResult`, `ReceiverResult`); `body` is shared.

## 3. The runs

| Run | Question | Result |
|---|---|---|
| `upload_safety` | Does an upload implement the contract with reordering, a duplicate, socket errors, racing goroutines, expiring caches, a missing resource and a panicking handler? Is each run of the handler paid for with datagrams of its own? | holds |
| `upload_timely` | If datagrams of one request are processed one at a time: do shift, window and counters stay consistent, are acknowledged blocks kept, does the handler run once unless the network has lost and repeated too much, are losses repaired or reported? | holds |
| `upload_hang` | Does the caller of an upload always get an answer or an error? | **violated** |
| `confirmable` | Does a one-datagram request implement the contract and return, and what does it take to run its handler twice? | holds |
| `download` | Does a blockwise response implement the transfer contract: whole body, no false success? No spurious `ErrMaxAttempts`, do both ends return, are losses repaired? | holds |
| `server_send` | Does `Server.Send` return the answer, of a plain message, a hello and a `coaps` message? Is a session the other side does not have replaced? Do both sides end with one? | holds, if the answer does not overtake `bq.Get` |
| `server_send_early` | And if it may? | **violated** |
| `lifecycle` | Is the server ever deaf, is a socket leaked, do loops end, does a UDP server get its address back? | holds |
| `session` | Is a rejected session reused, is a disagreement repaired, do both sides agree, does `Send` return? | holds |
| `proxy` | Do answers reach their askers and no others? Does an asker that asks again get one? Does `listenLoop` get its slots back? | holds, with the exceptions `beyondHelp` names |
| `wire` | Is a message decoded to what was built, or refused for one of the listed reasons? Does it reach its resource? Do frames come out whole, and does only a frame that is too long, or the client, end the connection? | holds |
| `tcp_shared_buffer` | Does a TCP handler see the message as it was sent when the client does not wait? | **violated** |

### What the violations show

* **`upload_hang`** (`storage.go:79`). `LoadOrStore` is a load followed by a
  store. Two goroutines with the first two blocks of an upload may each store a
  `localState`; the second overwrites the first, whose block has been, or will
  be, acknowledged. The sender sees every packet acknowledged, has nothing to
  send and no attempt to count, and waits for a response that never comes. No
  datagram was lost.
* **`server_send_early`** (`server.go:415`). `bq.Get` comes after `sendTo`. An
  answer in between finds no channel and marks its key as processed, so that
  the answers to the retries are dropped too.

* **`tcp_shared_buffer`** (`server.go:137`). `HandleTCPConn` reads every frame
  of a connection into one buffer. The message it decodes refers to that buffer
  for its token and its payload (`message.go:111`, `message.go:213`), and the
  goroutine that handles it may run after the next frame was read. With an
  upload over TCP, whose sender does not wait between blocks, the handler can
  see another token, or store another block's bytes as its own. `wire` shows
  the same property to hold when the client waits for each frame to be handled.

### Seen while modelling, without a run of its own

* With two goroutines at work on one request the handler may run twice. The CAS
  protects one `localState`; a second one is made by the race in `LoadOrStore`
  (`storage.go:79`), or when a retransmission falls between the `Delete` and
  the `Set` that follow the handler (`localstate.go:68-71`), although the
  comment at `localstate.go:58-59` has the first goroutine past the CAS run it
  exactly once. `HandledOnceUnlessSplit` says for a request in one datagram
  that there is no other cause: it takes an expired entry, or one goroutine
  between two cache accesses of another. `Splits` names the three places:
  before another's `Store`; a `Delete` before another's `Load`; a check between
  another's `Delete` and `Set`. Leave any of them, or either expiry, out of
  `Splits`, and the property is violated. For an upload `RerunsPaidFor` says
  what each run takes: every block sent once more, but for what the network
  repeats. `HandledAtMostOnce` is claimed with the datagrams of a request
  handled one at a time (`upload_timely`). Even then it has a hypothesis: when
  every block comes again in that gap, as the one block of a small request
  easily does, the handler runs again. It takes as many losses and repeated
  datagrams as there are blocks.
* `WithRetries` reaches only the second `send` of a `coaps` message; the first
  one, and every hello, is retried once whatever the caller asked for
  (`server.go:383`, `server.go:479`).
* The 4.01 for a session the peer has forgotten reaches no caller of
  `Server.Send`: `handleCoapsScheme` deletes the session, and the second round
  begins because the resend after the timeout finds none (`server.go:388`).
* A proxy stores its note under the host as the Proxy-URI spells it and looks
  it up by the sender's address (`server.go:607`, `server.go:577`): a request
  for a host name is forwarded and never answered.
* A checksum makes the receiver refuse two kinds of messages that arrived
  unharmed: a proxied request, because the proxy takes its options out of what
  the checksum covers (`server.go:599`), and one with an elective option the
  receiver does not know, because `Deserialize` leaves it out before the
  checksum is computed (`message.go:207`). `RefusedWithReason` lists both.
* `If-Match` and `If-None-Match` can be added and are "valid"
  (`options.go:160`), but every receiver refuses them as unknown and critical.
* 4.05 is never sent: resources are looked up by path and method together, so a
  known path with another method is a 4.04 (`server.go:538`,
  `layerRequest.go:3-34`).
* A *blockwise* request whose response is blockwise too gets the response only
  if the one empty ACK that announces it arrives: `sendARQBlock1CON` looks at
  ACKs only, and the announcement is not repeated (`transport.go:356`).
  `LossRepaired` of `Download` says so by its exception for `blockwise`.
* `WithRetries(n)` makes `n + 1` further sends, the last one without waiting
  (`server.go:422`); README.md:159 says up to `n`. The types of
  `ServerSend` have `sends <= Retries + 2` (theorem `ServerSendTypeCorrect`).
* `Refresh` of a TCP server cannot bind: the old listener is in `s.tcpLn`,
  which it does not close (`server.go:204`). `RefreshRecreates` is therefore
  restricted to UDP servers.
* `Refresh` does not look at whether the server was closed. One that waits for
  `srMu` during `Close` opens the server again, for good, because `closeOnce`
  is used up (`server.go:245`).
* The server sends the PeerHello before it stores the session
  (`security.go:169`); with two goroutines the request can be rejected in
  between. `SessionRepaired` excludes it by the history variable `overlap`.

### Bounds, and why they are enough

* `upload_safety`: 2 blocks, 2 attempts, 2 workers, 3 localStates, 1 duplicate.
  Two workers and two blocks are what the races need; a third localState lets
  one expire under a running transfer. With `Timely = FALSE` a timeout may
  happen at any time, so any datagram can be as good as lost: no loss budget is
  needed, and a handler without a result is the same as a response still on
  its way.
* `upload_timely`: 4 blocks, a window of 3 that may shrink to 2, 3 attempts,
  overflow mode after 1, balancing every 2 ACKs, up to 3 losses and a
  duplicate. The payload is longer than the window, so the window slides, is
  rebalanced and enters and leaves overflow mode; a loss is repaired, or every
  attempt of a block is lost. The source's constants (300, 50, 1500, 25, 6)
  have the same order relations; the proofs cover all values, and a receiver
  that may acknowledge any sent block any number of times. One worker is what
  "one at a time" means, so `AckedBlocksKept` is not about the race of
  `upload_hang`: it says that nothing else loses an acknowledged block.
* `confirmable`: 3 attempts, 2 workers, 2 localStates, 1 duplicate, 1 loss,
  both caches expiring, resource present or not, handler answering, silent or
  panicking.
* `download`: 3 blocks, 2 attempts, a window from 2 to 3, 1 duplicate, 1 loss.
  Each behaviour is of one of two networks: one where any timeout may race any
  datagram, and one where only a loss leads to a timeout, in which repair is
  claimed; and of one of two requests, plain or itself blockwise.
* `server_send`: for `Server.send`, 2 retries, up to 4 losses (more than
  retries), 1 duplicate, hello or ordinary message, socket errors,
  `processedTTL` passing. For a `coaps` message, 1 retry and up to 3 troubles,
  each a lost or repeated datagram, a timer that is too early or a session that
  expires, from every combination of sessions the two sides may start with;
  three are enough to lose a round, spoil the second and still repeat one
  datagram. A behaviour has one call, of one kind or the other.
* `proxy`: two askers and two targets, one of each over TCP, three sets of
  requests (a token shared for different targets; a target asked with two
  tokens; a host name), 2 goroutines for 1 slot, so that the loop does wait, 3
  attempts and 1 mishap: a loss, a repeated datagram, a refresh, an expiry or a
  closed connection.
* `wire`: up to 3 calls build a message. Every boundary of the option header
  needs at most two options; a third call adds the proxy or the checksum. (Four
  calls, checked once, give ten times the states and no other outcome.) The
  options lie at every boundary of delta, length and integer width. Five frames
  of 13, 12, 269, 268 and 18 bytes, around two boundaries of the prefix and each
  followed by another, and one of 409: the buffer takes 269 bytes (65536 in the
  code), so the third frame just fits it and the last does not. The client may
  close at any moment. The theorems cover the other boundaries.
* `lifecycle`: 3 refreshes, `Listen` and `ListenTCP`, binds that may fail,
  `Close` at any time. Three refreshes leave an old loop two generations
  behind.
* `session`: 2 goroutines, 2 attempts, 1 duplicate, 2 losses, 1 expiry, each
  side with or without an old session. The old session, the two rounds of
  `Send` and one repeated datagram are what the stale cases consist of.

Sockets, exchanges and panics end, so deadlock checking is off: every model may
come to rest.

### Time and fairness

`Timely = FALSE` lets a read deadline fire at any time: it races every answer.
`Timely = TRUE` says that `timeWait` is longer than a round trip and the
handler: a deadline fires only when nothing is under way. Safety is checked
without the assumption where the state space allows (`upload_safety`,
`confirmable`, `download`); repair is only claimed with it. `session`, `proxy`
and `server_send` assume it: late datagrams appear there as duplicates, and in
`SecureSend` also as timers that fire early, counted as trouble.

Fairness comes in two strengths. A *FairSpec* has weak fairness of the caller's
goroutine and of its read deadline or timer (Go's scheduler runs a runnable
goroutine, `SetReadDeadline` and `time.After` fire) and, where a property needs
it, of the server's goroutines, whose handlers are taken to return. The network
owes nothing: `ClientReturns` of `Confirmable` and `BothReturn` hold under it.
A *DeliverySpec* adds weak fairness of delivery: what is not lost arrives, the
losses are bounded by `MaxLosses`. Only the properties about repair and answers
(`LossRepaired`, `AnswerReturned`, `SessionRepaired`, `SecureSendRepaired`,
`Repaired`), and those of runs shared with them, use it.

The fairness of `proxy` is of the same kind: what is not lost is read, the
server's goroutines run, `Refresh` opens what it closed, and an asker's timeout
runs out. `LoopGoesOn` also takes writes to return: a goroutine that writes to a
TCP peer holds its slot meanwhile, the code sets no deadline for it, and a peer
that does not read could keep it there. `wire` states safety only. Where one configuration holds two models
(`MCServerSend`, `MCWire`), a behaviour is of one of them: once it has begun,
the other stays where it is, and fairness is of the one that runs.

## 4. Proofs

All proofs are for arbitrary constants under the named assumptions of the
modules (`NumBlocksAssumption`, `ArqAssumption`, `NetworkAssumption`,
`LocalStateAssumption`, `ExchangeAssumption`, `ConfirmableAssumption`,
`DownloadAssumption`, `ServerSendAssumption`, `SecureSendAssumption`,
`NoSessionAssumption`, `SessionAssumption`, `NoneAssumption`,
`ProxyAssumption`, `TokenAssumption`, `LifecycleAssumption`,
`TcpStreamAssumption`, `FramesAssumption`): at least one block, finitely many goroutines and localStates, positive window
sizes in order, at least one attempt, `None` not a localState, a peer or a
session, flags that are Booleans, askers of one target with different tokens
(tokens are six random bytes), a reader's buffer of at least one byte, and
frames that are bytes, no longer than a prefix can tell and no more than there
are message identifiers. TLC evaluates them in every run.

* `ArqSenderProof`: type correctness, `ShiftIsFirstUnacked`,
  `OverflowCountsStragglers`, `HeadInWindow` and `InFlightBounded`, from the
  invariant `ArqInv`. None of them is inductive alone. `HeadInWindow` needs
  that the window, which slides by the *number* of acknowledgements, is never
  behind `shift`: `AcksCounted` (every acknowledged packet was counted) and
  `ShiftIsFirstUnacked` (everything before `shift` is acknowledged) give
  `shift <= Cardinality(acked) <= relative_shift` (`ShiftBehindAcks`).
  `InFlightBounded` needs `SentInWindow`. The calls of `sendPackets` and
  `sendPacketsToAddr` are summarised once (`Sends`, `SendSends`) and shared by
  the start, the timeout and the acknowledgement; `SendBurst` says what they
  put on the wire, for Upload and Download alike.
* `ExchangeProof`: each of the server's steps preserves `ExchangeInv`: a
  goroutine about to run the handler holds the whole payload
  (`WholePayloads`), a worker in `processMessage` has a localState, and every
  answer on the wire has its cause (`AnswersBacked`). `CompleteIsWhole` is the
  fact about reassembly: `totalBlocks == len(buf)` implies that every block is
  there. `ExchangeInv` is split into named parts so that a step is only asked
  about those it touches.
* `ConfirmableProof` and `UploadProof`: type correctness, and
  `Spec => ImplementsContract`, from `ConfirmableInv` and `UploadInv`. The
  latter joins `ArqInv` and `ExchangeInv` by `OnlySentTravel`: only blocks
  already sent are in flight, held by a worker or acknowledged, which is what
  `ArqSender` assumes of its environment. The refinement then maps a handler
  call to `Handle`, an accepted ACK to `Succeed` or `Refuse`, an error to
  `Fail`, and everything else to a stutter.
* `ConfirmableProof` also has `HandledOnceUnlessSplit`, as theorem
  `RequestHandledOnce`. Without a split the request goes through three phases
  (`Phase`): no entry was stored (`Fresh`); a localState is stored, and is the
  one every datagram comes to (`Open`); it is deleted, and no goroutine is on
  its way to store another (`Closed`). The hypotheses are used where a phase
  could be left by the wrong way: a second `Store` in `StorePhase`, a `Load`
  that comes too late in `DeletePhase`, a check that comes too early in
  `CheckPhase`. The CAS matters inside a phase (`CasPhase`).
* `UploadProof` has `RerunsPaidFor` for any number of blocks, goroutines and
  localStates. The invariant counts, for each block, the datagrams that a run
  has used or may still use (`Used`): the runs so far, the localStates that
  hold the block and have not run, the workers that carry it, and the wire. A
  block with more uses than attempts is `Overdrawn`, and only a duplicate makes
  one: there are at most `dups` of them. That a localState is not counted twice
  is what the CAS is for. `ExchangeProof` has the counting lemmas.
* `UploadProof` also has `HandledAtMostOnce`, as theorem `HandledOnceIfTimely`,
  for a network on which only a loss leads to a timeout and for keys that stay
  in `ProcessedMessages`. A client that is answered in time sends a block again
  only because it, or its Continue, was lost, so there are at most `losses`
  blocks with more than one attempt (`LossesRepeat`) until the server is
  `Quiet`: has the key among the processed ones and nothing left to run. A
  second run would take every block twice, by `RerunsPaidFor`.
* `UploadProof` also has `AckedBlocksKept`, as theorem `AckedBlocksStay`,
  under the hypothesis `OneAtATime`: one goroutine for the request, a buffer
  that does not expire while it is filled, and a registered resource. Each is
  needed. Two goroutines lose a block in `LoadOrStore` (`upload_hang`), a
  buffer that expires takes its blocks along, and without a resource the
  server forgets the blocks without a run of the handler. The invariant says
  where a block is while it is not in the buffer that the cache points at: the
  one worker holds it, or the handler's goroutine has it all.
* `DownloadProof`: type correctness, `CompletionIsNeverContinue`, and
  `Spec => ImplementsTransfer`. Under the refinement what the sender puts on
  the wire is `Transmit`, its last, empty acknowledgement `Succeed`, the block
  that completes the body `Receive`, and a timeout of both sides at once
  `Transmit /\ GiveUp`; `BodyIsWhole` and `SuccessIsDelivery` are the two
  invariants behind `Receive` and `Succeed`. `CompletionIsNeverContinue` is why
  `sendPacketsToAddr` never reports a spurious `ErrMaxAttempts`: the block that
  completes the body is answered with an empty ACK, it was not in the buffer
  before, so no earlier Continue was sent for it. The invariant has it as two
  facts about acknowledgements, in flight or accepted: what was continued is in
  the client's buffer and is not everything, and an empty one means that the
  client has the whole body and has left its loop (`EmptyMeansDelivered`).
* `SessionProof`: type correctness, `RetryUsesNewSession` and `SessionsAgree`.
  The second needs to know why nothing that is still under way can undo the
  agreement. For a server that handles one datagram at a time and sessions that
  do not expire, `SequentialInv` finds the system in one of three modes: both
  sides agree and no request can be rejected; the client uses a session the
  server does not have, and no hello was ever sent; or it is in its second
  round, every hello under way is of that round, and a server that has answered
  keeps the session it answered with (`Answered`).
* `WireProof` has four parts.
  *Codec*: the numbers first (option headers, integer options, frame lengths
  and block options come back as they went in, for all numbers the fields can
  hold), then lists of options, and with them `RoundTrip`: `deserialize`, given
  what `Serialize` writes of any message, returns exactly `outcome(msg)`: an
  error if the message has a critical option that is not decoded or is one
  `validateMessage` rejects, and otherwise the message with its decoded
  options, sorted. The proof follows the code's loop. Sorting inserts each
  option behind those that are not larger (`InsertKeeps`), so deltas are never
  negative and the options of one code stay in their order (`SortedKeeps`); a
  turn of the loop at the bytes of an option reads that option and leaves what
  follows it (`OneOption`); each option takes a byte at least, so the loop has
  turns enough (`RestShrinks`), and after as many turns as there are options
  it is where the payload begins (`OptionsRead`). These are inductions over
  lists. The library's induction theorems take a predicate; `SetInduction`
  takes the set of the numbers for which a claim holds instead, and follows
  from the pigeonhole principle.
  *Wire*: `ReceivedAsBuilt`, as theorem `EveryMessageAsBuilt`. What is in
  flight need not be the message that was built: the transport adds a checksum,
  a proxy decodes the message, takes its own options out and encodes it again.
  So the invariant says that it is the encoding of *some* message that agrees
  with the built one in all that `ReceivedAsBuilt` is about (`SentAsBuilt`),
  and each hop keeps the agreement (`ChecksumKeeps`, `RelayedKeeps`,
  `Decoded`). And `RefusedWithReason`, as `RefusedForTheseReasons`. Here the
  invariant names the bytes and who has read them (`OnItsWay`), and the built
  message has one option of each code that is not repeatable (`ownMessages`),
  so that `validateMessage` objects to the token alone (`ValidWhenSingle`).
  What is left is the checksum, in both directions. If the options that were
  covered all arrive, the receiver computes the checksum over the same bytes:
  `Serialize` depends on the options of each code only, not on the order in
  which the codes were added (`SameEncoding`). If one did not arrive, the bytes
  must differ: two messages that a receiver understands and that are written
  alike have the same codes (`BytesTellCodes`), since the loop of `deserialize`
  takes the same turns on both (`SameTurns`). `FirstReading` and
  `SecondReading` conclude what the proxy and the receiver behind it do.
  And `RoutedAsRegistered`, as `RequestsFindTheirResources`. The property is
  about the path that was asked for and those that were registered; the code
  compares neither, but what `trim` leaves of each after one of them has been
  taken apart by `SetURIPath` and joined by `GetURIPath`. The invariant
  (`RequestAsAsked`) says what the options of a message join to, `carriedPath`
  of all that was asked, and that a further call of `SetURIPath` keeps it so,
  since a slash between two paths separates their parts (`PartsConcat`,
  `CarriedPathConcat`). Splitting and joining undo each other as long as no
  part is empty (`JoinedParts`, `PartsJoined`, `PartsInjective`); an empty one
  is left out on the way, which is what `filled` stands for. A slash or space
  at either end, asked for or registered, makes no difference after `trim`
  (`Edges`, `TrimOf`, `CarriedTrimmed`, `CarriedTight`). So the keys are equal
  exactly when the property's parts are (`SamePath`), and the lookup, with
  `"*"` before the path itself, finds what is meant (`Found`).
  `WireAssumption` keeps the application to what the code can write: codes and
  lengths of two bytes, integers of four, a string under no code that is
  decoded as an integer, coap:// where it sets the scheme, and no checksum of
  its own (the transport adds it). Since CRC32 is an injective function of the
  bytes, its digits are elements of the alphabet of the proof, beside the bytes
  (`Alphabet`): that no two messages with different bytes share a checksum is
  an assumption of the model; 32 bits only make it likely. `RequestAssumption`
  is for `RequestsFindTheirResources` alone: the message is a request (its code
  is one of the four `GetMethod` knows), its path is set with `SetURIPath` and
  not also option by option, and resources are registered with `GET`, `POST`,
  `PUT` and `DELETE`, the only calls a `Server` has for it.
  *TCP*: `FramesInOrder`. The stream is always a sequence of frames that were
  written and not read, each behind its prefix, and perhaps a lone prefix whose
  frame is still to come (`Cut`, `Tailing`); `FrameLengthRoundTrip` makes the
  reader cut it where the writer did. So the server is in step with the client
  until it leaves, and it leaves for one of the two reasons `Leaving` names:
  the next frame is longer than its buffer, or the client has closed and all of
  its frames are read. (`NextInStream` says what the reader finds.) And
  `HandlerSeesWhatWasSent` for a client
  that waits (`~Pipelined`): one frame at most is written and not handled, so
  the one goroutine there is finds its own frame in the shared buffer
  (`OneByOne`). That `Deserialize` reads a frame back, and that token and
  payload lie where the goroutine looks, is `FramesDecode`, from `RoundTrip`
  and what `Serialize` puts where (`PartsInPlace`).
  *Proxy*: type correctness and `AnswerToAsker`, from `ProxyInv`. An answer
  reaches an asker through a note only, so the invariant says of every note
  that its asker asked that host with that token (`NotesLeadBack`), of every
  goroutine about to store one that it holds a request as it was asked
  (`RequestsAsAsked`), and of what is under way to an asker that it is an
  answer to its request. `TokenAssumption` enters where two askers' notes could
  have one key.
* `ServerProof` has two parts.
  *Lifecycle*: type correctness, `NeverDeaf`, `NoSocketForgotten` and
  `RefreshRecreates`, from `LifecycleInv`. `NeverDeaf` only says that some loop
  reads from `s.sr`; the invariant names it (`OwnLoopServes`): each socket is
  served by the loop that was started for it, and what other loops do cannot
  disturb that. It needs that a loop has a socket to read (`LoopsHaveSocket`)
  and that no socket is bound under a number already used (`SrIsKnown`). The
  other two need `OneUdpSocket`: without TCP the only open socket is the one in
  `s.sr`, or the one `Listen` has bound and not yet stored (`BoundIsOpen`).
  *Server.Send*: type correctness, from the relation between turns and datagrams
  (`CallTypes`, and `turn <= waits` for a `coaps` message), and
  `EndsInAgreement`, from `AgreementInv`. That one has a mode more than
  `Session`'s, since the server's session may be missing from the start:
  `Kept`, `Asking`, `Opened`, `Lost` and `Repairing`. `AnswerPins` is what the
  modes are for: once the peer has answered, every hello still under way has
  the client key of its session, so that running the handshake again changes
  nothing.

Model-checked only:

* all liveness (`ClientReturns`, `BothReturn`, `LossRepaired`,
  `GivesUpOnUnackedBlock`, `AnswerReturned`, `SendReturns`,
  `SecureSendReturns`, `SessionRepaired`, `SecureSendRepaired`, `LoopGoesOn`,
  `Repaired`, `LoopsEnd`), since fairness and `ENABLED` are out of the prover's
  reach.

## 5. What is abstracted or left out

* Payloads are sets of block numbers; blocks of one transfer differ only in
  number and `MoreBlocks`. Datagrams of different keys (sender+token) do not
  interact in the server; tokens are taken as unique.
* The channel of 102400 places between `listenLoop` and `sendARQBlock2ACK` is
  part of the network.
* A cache entry past its expiry reads as absent in one step; that
  `shardedCache.Get` deletes by key, and may hit a newer value, is not
  modelled. The sweep interval of `cleanupLoop` changes nothing a `Get` returns.
* In `Session` request and response fit one datagram, and a request has one
  localState (its races are in `Confirmable`). The client's 4.01 on a response
  it cannot open is left out: `WriteTo` on a dialed UDP socket fails in Go.
* `LossyKinds` in `session` leaves out the response: a lost response is not
  repaired by design, since the server drops the retransmissions that ask for
  it.
* `SecureSend`'s peer runs this library and handles one datagram at a time,
  answers do not overtake `bq.Get` (that is `server_send_early`'s), there is no
  proxy and no `BreakConnectionOnPK`. `Session` has the interleavings inside a
  server.
* `Codec` takes CRC32 to tell any two messages apart, and sorts by insertion,
  which `sort.Sort` does up to twelve options: `Wire`'s application adds fewer
  (`MaxSorted`). Messages are plain, tokens shorter
  than sixteen bytes, and an integer value has none of the Go types
  `valueToBytes` does not know (`common.go:91`).
* In `TcpStream` the client is the only writer; the server's answers are not
  shown, and neither are the errors its writes get once the server has closed.
* In `Proxy` one `listenLoop` runs at a time (two are `Lifecycle`'s), an asker
  tries again only when nothing is under way, and a peer opens one connection.
* Not modelled: cryptographic primitives, metrics, logging, the command line
  client and the examples; `Serve` and `ServeMessage`; `proxyIDSessions` and
  blockwise `coaps` transfers; the URL that a `coaps` request puts its path and
  query into (`encryption.go:39`); the connection pool, a counting semaphore
  whose one user gives every token back.

## 6. Plan

Done, in this order: the send window; the server's processing and the upload;
the confirmable request; the download; `Server.send`; the lifecycle; sessions;
the codec, the TCP stream and the routing table; the proxy; `Server.Send` over
`coaps`; and the proofs of section 4.

Next:

1. Blockwise `coaps` transfers, and sessions through a proxy
   (`proxyIDSessions`).
2. Answers over TCP: two goroutines that write on one connection
   (`connections_tcp.go:131`).
3. `Serve` in `Lifecycle`.

## 7. Running it

```
tlc -workers 2 -config upload_safety.cfg MCUpload
tlapm UploadProof.tla
```

Each `<run>.cfg` belongs to the module `PROJECT.json` names; `MCUpload` adds
the symmetry of workers and localStates, which is used by `upload_safety`
alone because symmetry is unsound for liveness.
