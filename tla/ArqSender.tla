------------------------------ MODULE ArqSender ------------------------------
(***************************************************************************)
(* The selective-repeat send window of transport.go: the loop body that    *)
(* sendARQBlock1CON (upload, sendPackets) and sendARQBlock2ACK (download,  *)
(* sendPacketsToAddr) share.  The payload is a row of NumBlocks blocks.    *)
(* The receiver and the network are left open here: any block that was     *)
(* sent may be acknowledged, any number of times, in any order.  Upload    *)
(* and Download close the system.                                          *)
(*                                                                         *)
(* Time.  packets[i].lastSend is abstracted to the set "late" of the       *)
(* blocks whose last transmission is at least timeWait old.  At a receive  *)
(* timeout every block is late: nothing was sent while the read blocked    *)
(* for timeWait.  At an acknowledgement any subset may be.  A block never  *)
(* sent has a zero lastSend and is always due.                             *)
(***************************************************************************)
EXTENDS Transfer

CONSTANTS MaxSendAttempts,    \* maxSendAttempts (6)
          OverflowAttempts,   \* the 3 of "attempts == 3" and "attempts > 3"
          DefaultWindowSize,  \* DEFAULT_WINDOW_SIZE (300)
          MinWindowSize,      \* MIN_WiNDOW_SIZE (50)
          MaxWindowSize,      \* MAX_WINDOW_SIZE (1500)
          BalancePeriod,      \* the 25 of "balancerCounter%25"
          ToAddr,             \* TRUE: sendPacketsToAddr, FALSE: sendPackets
          SocketMayFail,      \* TRUE: a socket read or write may return an error
          MaxAcks             \* bound on the acknowledgements of a behaviour

ASSUME ArqAssumption ==
    /\ MaxSendAttempts \in Nat \ {0}
    /\ OverflowAttempts \in Nat
    /\ DefaultWindowSize \in Nat \ {0}
    /\ MinWindowSize \in Nat \ {0}
    /\ MaxWindowSize \in Nat \ {0}
    /\ MinWindowSize <= DefaultWindowSize
    /\ DefaultWindowSize <= MaxWindowSize
    /\ BalancePeriod \in Nat \ {0}
    /\ ToAddr \in BOOLEAN
    /\ SocketMayFail \in BOOLEAN
    /\ MaxAcks \in Nat

VARIABLES acked,              \* blocks whose packet has acked = true
          attempts,           \* packets[i].attempts
          shift,              \* index of the first packet not acknowledged
          relative_shift,     \* number of Continue ACKs processed
          windowsize,         \* state.windowsize
          retransmits,        \* localMetricsRetransmitMessages
          retransmitsTmp,     \* its value at the last balancing
          balancerCounter,    \* ACKs with a block option seen
          overflowIndicator,  \* decides which bound the window slides by
          status              \* "idle", "sending", "done", "failed"

arqVars == <<acked, attempts, shift, relative_shift, windowsize, retransmits,
             retransmitsTmp, balancerCounter, overflowIndicator, status>>

ArqTypeOK ==
    /\ acked \in SUBSET Block
    /\ attempts \in [Block -> 0 .. MaxSendAttempts]
    /\ shift \in 0 .. NumBlocks
    /\ relative_shift \in Nat
    /\ windowsize \in 1 .. MaxWindowSize
    /\ retransmits \in Nat
    /\ retransmitsTmp \in Nat
    /\ balancerCounter \in Nat
    /\ overflowIndicator \in Int
    /\ status \in {"idle", "sending", "done", "failed"}

ArqInit ==
    /\ acked = {}
    /\ attempts = [i \in Block |-> 0]
    /\ shift = 0
    /\ relative_shift = 0
    /\ windowsize = IF NumBlocks < DefaultWindowSize THEN NumBlocks
                                                     ELSE DefaultWindowSize
    /\ retransmits = 0
    /\ retransmitsTmp = 0
    /\ balancerCounter = 0
    /\ overflowIndicator = 0
    /\ status = "idle"

-----------------------------------------------------------------------------
(* The window: from shift to a bound that slides with the number of ACKs,  *)
(* or with shift alone while some block is hard to get through.            *)

Stop_OverflowStuck(ws, sh, rel, ov) ==
    LET end == ws + (IF ov > 0 THEN 0 ELSE rel)
    IN  IF end >= NumBlocks THEN NumBlocks ELSE end

Stop_WindowTooWide(ws, sh, rel, ov) ==
    LET end == 1 + ws + (IF ov > 0 THEN sh ELSE rel)
    IN  IF end >= NumBlocks THEN NumBlocks ELSE end

Stop(ws, sh, rel, ov) ==
    LET end == ws + (IF ov > 0 THEN sh ELSE rel)
    IN  IF end >= NumBlocks THEN NumBlocks ELSE end

Due_NoRetransmission(late, ak, sh, stop) ==
    {i \in sh .. (stop - 1) : i \notin ak /\ attempts[i] = 0}

Due(late, ak, sh, stop) ==
    {i \in sh .. (stop - 1) : i \notin ak /\ (attempts[i] = 0 \/ i \in late)}

(* The loop over the due packets.  It returns at the first packet whose    *)
(* attempts are used up, or whose write fails; the packets before it have  *)
(* been sent.  (The counters of that packet, which nothing reads once the  *)
(* transfer has failed, are left as they were.)  counted are the packets   *)
(* whose retransmission is counted.                                        *)
WriteErrors(due) == {{}} \cup (IF SocketMayFail THEN {{c} : c \in due} ELSE {})

Transmit(due, counted, ov) ==
    \E broken \in WriteErrors(due) :
        LET cut  == broken \cup {i \in due : attempts[i] = MaxSendAttempts}
            sent == {i \in due : \A c \in cut : i < c}
        IN  /\ attempts' = [i \in Block |-> IF i \in sent THEN attempts[i] + 1
                                                         ELSE attempts[i]]
            /\ overflowIndicator' =
                 ov + Cardinality({i \in sent : attempts[i] = OverflowAttempts})
            /\ retransmits' = retransmits +
                 Cardinality({i \in sent \cap counted : attempts[i] > 0})
            /\ status' = IF cut = {} THEN "sending" ELSE "failed"

(* The blocks put on the wire by a step of the sender.                     *)
Burst == {i \in Block : attempts'[i] # attempts[i]}

sendPackets(late, ak, sh, rel, ws, ov) ==
    Transmit(Due(late, ak, sh, Stop(ws, sh, rel, ov)),
             IF ws >= MinWindowSize THEN Block ELSE {}, ov)

(* Unlike sendPackets it gives up when every packet is acknowledged.       *)
sendPacketsToAddr(late, ak, sh, rel, ws, ov) ==
    IF sh = NumBlocks
    THEN /\ status' = "failed"
         /\ overflowIndicator' = ov
         /\ UNCHANGED <<attempts, retransmits>>
    ELSE Transmit(Due(late, ak, sh, Stop(ws, sh, rel, ov)),
                  IF ws > MinWindowSize THEN Block ELSE {}, ov)

Send(late, ak, sh, rel, ws, ov) ==
    IF ToAddr THEN sendPacketsToAddr(late, ak, sh, rel, ws, ov)
              ELSE sendPackets(late, ak, sh, rel, ws, ov)

-----------------------------------------------------------------------------
Truncate7Tenths(x) ==      \* int(float64(x) * 0.7)
    IF x >= 0 THEN (7 * x) \div 10 ELSE -((7 * (-x)) \div 10)

Clamp_NoUpperBound(w) == IF w < MinWindowSize THEN MinWindowSize ELSE w

Clamp(w) == IF w < MinWindowSize THEN MinWindowSize
            ELSE IF w > MaxWindowSize THEN MaxWindowSize
            ELSE w

(* Every BalancePeriod ACKs the window grows a little, or shrinks by the   *)
(* retransmissions since the last time.                                    *)
Balance ==
    IF balancerCounter' % BalancePeriod = 0
    THEN /\ windowsize' =
              Clamp(windowsize + Truncate7Tenths(2 - retransmits + retransmitsTmp))
         /\ retransmitsTmp' = retransmits
    ELSE UNCHANGED <<windowsize, retransmitsTmp>>

(* shift moves past the run of acknowledged packets, when b is its head.   *)
AdvanceShift_OnlyOne(b) ==
    IF b = shift THEN shift' = shift + 1 ELSE UNCHANGED shift

AdvanceShift(b) ==
    IF b = shift
    THEN \E s \in (shift + 1) .. NumBlocks :
           /\ \A k \in (shift + 1) .. (s - 1) : k \in acked'
           /\ s \notin acked'
           /\ shift' = s
    ELSE UNCHANGED shift

OverflowAfter_AlwaysDecrements(b) ==
    IF attempts[b] > OverflowAttempts
    THEN overflowIndicator - 1 ELSE overflowIndicator

OverflowAfter(b) ==
    IF b \notin acked /\ attempts[b] > OverflowAttempts
    THEN overflowIndicator - 1 ELSE overflowIndicator

-----------------------------------------------------------------------------
(* The first call of sendPackets, before anything is received.             *)
ArqStart ==
    /\ status = "idle"
    /\ Send({}, acked, shift, relative_shift, windowsize, overflowIndicator)
    /\ UNCHANGED <<acked, shift, relative_shift, windowsize, retransmitsTmp,
                   balancerCounter>>

(* An ACK 2.31 Continue for block b.                                       *)
ArqContinue(b, late) ==
    /\ status = "sending"
    /\ b \in Block
    /\ balancerCounter' = balancerCounter + 1
    /\ acked' = acked \cup {b}
    /\ relative_shift' = relative_shift + 1
    /\ AdvanceShift(b)
    /\ Balance
    /\ Send(late, acked', shift', relative_shift', windowsize', OverflowAfter(b))

(* An ACK with a block option and any other code ends the transfer.        *)
ArqFinal ==
    /\ status = "sending"
    /\ balancerCounter' = balancerCounter + 1
    /\ status' = "done"
    /\ UNCHANGED <<acked, attempts, shift, relative_shift, windowsize,
                   retransmits, retransmitsTmp, overflowIndicator>>

(* Nothing was received for timeWait.                                      *)
ArqTimeout ==
    /\ status = "sending"
    /\ Send(Block, acked, shift, relative_shift, windowsize, overflowIndicator)
    /\ UNCHANGED <<acked, shift, relative_shift, windowsize, retransmitsTmp,
                   balancerCounter>>

(* receiveMessage fails with something else than a timeout.  The download  *)
(* side reads from a channel, which cannot fail.                           *)
ArqReadError ==
    /\ SocketMayFail
    /\ ~ToAddr
    /\ status = "sending"
    /\ status' = "failed"
    /\ UNCHANGED <<acked, attempts, shift, relative_shift, windowsize, retransmits,
                   retransmitsTmp, balancerCounter, overflowIndicator>>

ArqNext ==
    \/ ArqStart
    \/ ArqTimeout
    \/ ArqReadError
    \/ /\ balancerCounter < MaxAcks
       /\ \/ ArqFinal
          \/ \E b \in Block, late \in SUBSET Block :
                attempts[b] > 0 /\ ArqContinue(b, late)

ArqSpec == ArqInit /\ [][ArqNext]_arqVars

-----------------------------------------------------------------------------
(* shift is the first packet that is not acknowledged, so the range loops  *)
(* of sendPackets skip nothing that still has to be sent.  (shift at       *)
(* transport.go:381-391 and 486-496.)                                      *)
ShiftIsFirstUnacked ==
    /\ \A i \in 0 .. (shift - 1) : i \in acked
    /\ shift \notin acked

(* overflowIndicator, incremented in the send loop and decremented in the  *)
(* receive loop, counts exactly the unacknowledged packets with more than  *)
(* OverflowAttempts attempts: it never drifts and never goes negative, so  *)
(* the window leaves overflow mode as soon as they are all through.        *)
OverflowCountsStragglers ==
    overflowIndicator =
        Cardinality({i \in Block : i \notin acked /\ attempts[i] > OverflowAttempts})

(* At most a window of packets is on the wire: the packets sent and not    *)
(* acknowledged exceed MAX_WINDOW_SIZE by no more than the number of       *)
(* duplicate ACKs, which relative_shift also counts.                       *)
InFlightBounded ==
    Cardinality({i \in Block : attempts[i] > 0 /\ i \notin acked})
        <= MaxWindowSize + relative_shift - Cardinality(acked)

(* The sender is never stuck: while a packet is unacknowledged the first   *)
(* one lies inside the window that a timeout walks over, and has been sent *)
(* (so each timeout brings it closer to its last attempt).                 *)
HeadInWindow ==
    status = "sending" /\ shift < NumBlocks =>
        /\ shift < Stop(windowsize, shift, relative_shift, overflowIndicator)
        /\ attempts[shift] > 0

-----------------------------------------------------------------------------
(* The inductive invariant: relative_shift counts at least the packets     *)
(* acknowledged, which keeps it ahead of shift, and every packet sent lies *)
(* within MaxWindowSize of it.                                             *)
AcksCounted == Cardinality(acked) <= relative_shift

SentInWindow ==
    /\ \A i \in Block : attempts[i] > 0 => i < MaxWindowSize + relative_shift
    /\ \A i \in acked : attempts[i] > 0

ArqInv ==
    /\ ArqTypeOK
    /\ ShiftIsFirstUnacked
    /\ OverflowCountsStragglers
    /\ HeadInWindow
    /\ AcksCounted
    /\ SentInWindow
=============================================================================
