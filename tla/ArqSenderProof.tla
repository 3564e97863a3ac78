--------------------------- MODULE ArqSenderProof ---------------------------
(***************************************************************************)
(* Proofs about the send window, for every number of blocks, window size,  *)
(* attempt limit and balancing period, and any acknowledgements of blocks  *)
(* that were sent.                                                         *)
(***************************************************************************)
EXTENDS ArqSender, FiniteSetTheorems, TLAPS

USE NumBlocksAssumption, ArqAssumption DEF Block

-----------------------------------------------------------------------------
LEMMA BlockFinite ==
    ASSUME NEW S \in SUBSET Block
    PROVE  IsFiniteSet(S) /\ Cardinality(S) \in Nat
<1>1. IsFiniteSet(Block)
  BY FS_Interval
<1>2. IsFiniteSet(S)
  BY <1>1, FS_Subset
<1> QED
  BY <1>2, FS_CardinalityType

(* A call of sendPackets or sendPacketsToAddr sends a set of packets that  *)
(* are unacknowledged, inside the window and have attempts left; if it     *)
(* does not fail, every unacknowledged packet of the window has been sent. *)
Sends(sent, ak, sh, stop, ov) ==
    /\ sent \in SUBSET Block
    /\ \A i \in sent : i \notin ak /\ sh <= i /\ i < stop /\ attempts[i] < MaxSendAttempts
    /\ attempts' = [i \in Block |-> IF i \in sent THEN attempts[i] + 1 ELSE attempts[i]]
    /\ overflowIndicator' =
          ov + Cardinality({i \in sent : attempts[i] = OverflowAttempts})
    /\ retransmits' \in Nat
    /\ status' \in {"sending", "failed"}
    /\ status' = "sending" =>
          \A i \in Block : sh <= i /\ i < stop /\ i \notin ak => attempts'[i] > 0

LEMMA StopRange ==
    ASSUME NEW ws \in Nat, NEW sh \in Nat, NEW rel \in Nat, NEW ov \in Int
    PROVE  /\ Stop(ws, sh, rel, ov) \in Nat
           /\ Stop(ws, sh, rel, ov) <= NumBlocks
           /\ sh <= rel => Stop(ws, sh, rel, ov) <= ws + rel
           /\ sh < NumBlocks /\ sh <= rel /\ ws > 0 => sh < Stop(ws, sh, rel, ov)
  BY DEF Stop

LEMMA TransmitSends ==
    ASSUME ArqTypeOK,
           NEW late \in SUBSET Block, NEW ak \in SUBSET Block, NEW sh \in Nat,
           NEW stop \in Nat, stop <= NumBlocks, NEW counted \in SUBSET Block, NEW ov \in Int,
           Transmit(Due(late, ak, sh, stop), counted, ov)
    PROVE  \E sent \in SUBSET Block : Sends(sent, ak, sh, stop, ov)
<1> DEFINE due == Due(late, ak, sh, stop)
<1>1. due \in SUBSET Block /\ \A i \in due : i \notin ak /\ sh <= i /\ i < stop
  BY DEF Due
<1>2. \A i \in Block : sh <= i /\ i < stop /\ i \notin ak => i \in due \/ attempts[i] # 0
  BY DEF Due
<1> HIDE DEF due
<1>3. PICK broken \in WriteErrors(due) :
        LET cut  == broken \cup {i \in due : attempts[i] = MaxSendAttempts}
            sent == {i \in due : \A c \in cut : i < c}
        IN  /\ attempts' = [i \in Block |-> IF i \in sent THEN attempts[i] + 1
                                                         ELSE attempts[i]]
            /\ overflowIndicator' =
                 ov + Cardinality({i \in sent : attempts[i] = OverflowAttempts})
            /\ retransmits' = retransmits +
                 Cardinality({i \in sent \cap counted : attempts[i] > 0})
            /\ status' = IF cut = {} THEN "sending" ELSE "failed"
  BY DEF Transmit, due
<1> DEFINE cut  == broken \cup {i \in due : attempts[i] = MaxSendAttempts}
           sent == {i \in due : \A c \in cut : i < c}
<1>4. sent \in SUBSET Block /\ sent \in SUBSET due
  BY <1>1
<1>5. \A i \in sent : attempts[i] < MaxSendAttempts
  <2> SUFFICES ASSUME NEW i \in sent PROVE attempts[i] < MaxSendAttempts
    OBVIOUS
  <2>1. i \in Block /\ attempts[i] \in 0 .. MaxSendAttempts
    BY <1>4 DEF ArqTypeOK
  <2>2. attempts[i] # MaxSendAttempts
    BY <2>1
  <2> QED
    BY <2>1, <2>2
<1>6. retransmits' \in Nat
  <2>1. Cardinality({i \in sent \cap counted : attempts[i] > 0}) \in Nat
    BY <1>4, BlockFinite
  <2> QED
    BY <1>3, <2>1 DEF ArqTypeOK
<1>7. status' = "sending" =>
          \A i \in Block : sh <= i /\ i < stop /\ i \notin ak => attempts'[i] > 0
  <2> SUFFICES ASSUME status' = "sending", NEW i \in Block,
                      sh <= i, i < stop, i \notin ak
               PROVE  attempts'[i] > 0
    OBVIOUS
  <2>1. cut = {}
    BY <1>3
  <2>2. sent = due
    BY <2>1
  <2>3. attempts[i] \in Nat
    BY DEF ArqTypeOK
  <2> QED
    BY <1>2, <1>3, <2>2, <2>3
<1>8. Sends(sent, ak, sh, stop, ov)
  BY <1>1, <1>3, <1>4, <1>5, <1>6, <1>7 DEF Sends
<1> QED
  BY <1>4, <1>8

LEMMA SendSends ==
    ASSUME ArqTypeOK,
           NEW late \in SUBSET Block, NEW ak \in SUBSET Block, NEW sh \in 0 .. NumBlocks,
           NEW rel \in Nat, NEW ws \in Nat, NEW ov \in Int,
           Send(late, ak, sh, rel, ws, ov)
    PROVE  \E sent \in SUBSET Block : Sends(sent, ak, sh, Stop(ws, sh, rel, ov), ov)
<1> DEFINE stop == Stop(ws, sh, rel, ov)
<1>1. stop \in Nat /\ stop <= NumBlocks
  BY StopRange
<1> HIDE DEF stop
<1>2. CASE sh = NumBlocks /\ ToAddr
  <2>1. status' = "failed" /\ overflowIndicator' = ov /\ UNCHANGED <<attempts, retransmits>>
    BY <1>2 DEF Send, sendPacketsToAddr
  <2>2. {i \in {} : attempts[i] = OverflowAttempts} = {}
    OBVIOUS
  <2>3. Cardinality({i \in {} : attempts[i] = OverflowAttempts}) = 0
    BY <2>2, FS_EmptySet
  <2>4. attempts' = [i \in Block |-> IF i \in {} THEN attempts[i] + 1 ELSE attempts[i]]
    BY <2>1 DEF ArqTypeOK
  <2>5. Sends({}, ak, sh, stop, ov)
    BY <2>1, <2>3, <2>4 DEF Sends, ArqTypeOK
  <2> QED
    BY <2>5 DEF stop
<1>3. CASE ~(sh = NumBlocks /\ ToAddr)
  <2>1. PICK counted \in SUBSET Block : Transmit(Due(late, ak, sh, stop), counted, ov)
    BY <1>3 DEF Send, sendPacketsToAddr, sendPackets, stop
  <2> QED
    BY <1>1, <2>1, TransmitSends DEF stop
<1> QED
  BY <1>2, <1>3

(* A burst is of blocks that have been sent, and no count of attempts goes *)
(* down.                                                                   *)
LEMMA SendBurst ==
    ASSUME ArqTypeOK,
           NEW late \in SUBSET Block, NEW ak \in SUBSET Block, NEW sh \in 0 .. NumBlocks,
           NEW rel \in Nat, NEW ws \in Nat, NEW ov \in Int,
           Send(late, ak, sh, rel, ws, ov)
    PROVE  /\ \A i \in Block : attempts'[i] >= attempts[i] /\ attempts'[i] <= attempts[i] + 1
           /\ Burst \in SUBSET Block
           /\ \A i \in Burst : attempts'[i] > 0
           /\ status' \in {"sending", "failed"}
<1>1. PICK sent \in SUBSET Block : Sends(sent, ak, sh, Stop(ws, sh, rel, ov), ov)
  BY SendSends
<1>2. \A i \in Block : /\ attempts[i] \in Nat
                       /\ attempts'[i] = IF i \in sent THEN attempts[i] + 1 ELSE attempts[i]
  BY <1>1 DEF Sends, ArqTypeOK
<1>3. status' \in {"sending", "failed"}
  BY <1>1 DEF Sends
<1> QED
  BY <1>2, <1>3 DEF Burst

(* What is sent is unacknowledged, and for the first time or late.         *)
LEMMA SendIsDue ==
    ASSUME ArqTypeOK,
           NEW late \in SUBSET Block, NEW ak \in SUBSET Block, NEW sh \in 0 .. NumBlocks,
           NEW rel \in Nat, NEW ws \in Nat, NEW ov \in Int,
           Send(late, ak, sh, rel, ws, ov)
    PROVE  \A i \in Burst : i \notin ak /\ (attempts[i] = 0 \/ i \in late)
<1>1. CASE sh = NumBlocks /\ ToAddr
  BY <1>1 DEF Send, sendPacketsToAddr, Burst
<1>2. CASE ~(sh = NumBlocks /\ ToAddr)
  <2> DEFINE due == Due(late, ak, sh, Stop(ws, sh, rel, ov))
  <2>1. PICK counted \in SUBSET Block : Transmit(due, counted, ov)
    BY <1>2 DEF Send, sendPacketsToAddr, sendPackets
  <2>2. \A i \in due : i \notin ak /\ (attempts[i] = 0 \/ i \in late)
    BY DEF Due
  <2> HIDE DEF due
  <2>3. PICK sent \in SUBSET due :
           attempts' = [i \in Block |-> IF i \in sent THEN attempts[i] + 1 ELSE attempts[i]]
    BY <2>1 DEF Transmit
  <2>4. \A i \in Burst : i \in sent
    BY <2>3 DEF Burst
  <2> QED
    BY <2>2, <2>4
<1> QED
  BY <1>1, <1>2

-----------------------------------------------------------------------------
Stragglers(ak) == {i \in Block : i \notin ak /\ attempts[i] > OverflowAttempts}

(* What holds of the arguments between the bookkeeping for an ACK and the  *)
(* call of sendPackets.                                                    *)
ReadyToSend(ak, sh, rel, ws, ov) ==
    /\ ak \in SUBSET Block
    /\ sh \in 0 .. NumBlocks
    /\ rel \in Nat
    /\ ws \in 1 .. MaxWindowSize
    /\ \A i \in 0 .. (sh - 1) : i \in ak
    /\ sh \notin ak
    /\ ov = Cardinality(Stragglers(ak))
    /\ Cardinality(ak) <= rel
    /\ \A i \in Block : attempts[i] > 0 => i < MaxWindowSize + rel
    /\ \A i \in ak : attempts[i] > 0

(* The packets below shift are acknowledged, so shift never overtakes the  *)
(* number of ACKs.                                                         *)
LEMMA ShiftBehindAcks ==
    ASSUME NEW ak \in SUBSET Block, NEW sh \in 0 .. NumBlocks,
           \A i \in 0 .. (sh - 1) : i \in ak
    PROVE  sh <= Cardinality(ak)
<1>1. IsFiniteSet(ak) /\ Cardinality(ak) \in Nat
  BY BlockFinite
<1>2. 0 .. (sh - 1) \in SUBSET ak
  OBVIOUS
<1>3. Cardinality(0 .. (sh - 1)) <= Cardinality(ak)
  BY <1>1, <1>2, FS_Subset
<1>4. Cardinality(0 .. (sh - 1)) = sh
  BY FS_Interval
<1> QED
  BY <1>3, <1>4

(* Sending keeps overflowIndicator equal to the number of stragglers.      *)
LEMMA SendsCountsStragglers ==
    ASSUME ArqTypeOK, NEW ak \in SUBSET Block, NEW sh, NEW stop, NEW ov,
           ov = Cardinality(Stragglers(ak)),
           NEW sent, Sends(sent, ak, sh, stop, ov)
    PROVE  overflowIndicator' =
             Cardinality({i \in Block : i \notin ak /\ attempts'[i] > OverflowAttempts})
<1> DEFINE old == Stragglers(ak)
           new == {i \in sent : attempts[i] = OverflowAttempts}
           all == {i \in Block : i \notin ak /\ attempts'[i] > OverflowAttempts}
<1>1. sent \in SUBSET Block /\ \A i \in sent : i \notin ak
  BY DEF Sends
<1>2. attempts' = [i \in Block |-> IF i \in sent THEN attempts[i] + 1 ELSE attempts[i]]
  BY DEF Sends
<1>3. \A i \in Block : attempts[i] \in Nat
  BY DEF ArqTypeOK
<1>4. all = old \cup new
  <2>1. ASSUME NEW i \in Block
        PROVE  i \in all <=> i \in old \/ i \in new
    <3>1. attempts[i] \in Nat
      BY <1>3
    <3>2. CASE i \in sent
      <4>1. attempts'[i] = attempts[i] + 1
        BY <1>2, <3>2
      <4> QED
        BY <1>1, <3>1, <3>2, <4>1 DEF Stragglers
    <3>3. CASE i \notin sent
      <4>1. attempts'[i] = attempts[i]
        BY <1>2, <3>3
      <4> QED
        BY <3>1, <3>3, <4>1 DEF Stragglers
    <3> QED
      BY <3>2, <3>3
  <2>2. all \in SUBSET Block /\ old \in SUBSET Block /\ new \in SUBSET Block
    BY <1>1 DEF Stragglers
  <2> HIDE DEF all, old, new
  <2> QED
    BY <2>1, <2>2
<1>5. old \cap new = {}
  BY <1>1, <1>3 DEF Stragglers
<1>6. old \in SUBSET Block /\ new \in SUBSET Block
  BY <1>1 DEF Stragglers
<1>7. /\ IsFiniteSet(old) /\ IsFiniteSet(new)
      /\ Cardinality(old) \in Nat /\ Cardinality(new) \in Nat
  BY <1>6, BlockFinite
<1>8. overflowIndicator' = Cardinality(old) + Cardinality(new)
  BY DEF Sends
<1> HIDE DEF old, new, all
<1>9. Cardinality(old \cup new) = Cardinality(old) + Cardinality(new) - Cardinality(old \cap new)
  BY <1>7, FS_Union
<1>10. Cardinality(old \cap new) = 0
  BY <1>5, FS_EmptySet
<1>11. overflowIndicator' = Cardinality(all)
  BY <1>4, <1>7, <1>8, <1>9, <1>10
<1> QED
  BY <1>11 DEF all

LEMMA SendKeepsInv ==
    ASSUME ArqTypeOK,
           NEW late \in SUBSET Block, NEW ak, NEW sh, NEW rel, NEW ws, NEW ov,
           ReadyToSend(ak, sh, rel, ws, ov),
           Send(late, ak, sh, rel, ws, ov),
           acked' = ak, shift' = sh, relative_shift' = rel, windowsize' = ws,
           retransmitsTmp' \in Nat, balancerCounter' \in Nat
    PROVE  ArqInv'
<1> DEFINE stop == Stop(ws, sh, rel, ov)
<1>1. /\ ak \in SUBSET Block /\ sh \in 0 .. NumBlocks /\ rel \in Nat
      /\ ws \in Nat /\ ws > 0 /\ ws <= MaxWindowSize
  BY DEF ReadyToSend
<1>2. Stragglers(ak) \in SUBSET Block
  BY DEF Stragglers
<1>3. ov \in Nat
  BY <1>2, BlockFinite DEF ReadyToSend
<1>4. sh <= rel
  <2>1. Cardinality(ak) \in Nat
    BY <1>1, BlockFinite
  <2>2. sh <= Cardinality(ak)
    BY <1>1, ShiftBehindAcks DEF ReadyToSend
  <2> QED
    BY <1>1, <2>1, <2>2 DEF ReadyToSend
<1>5. /\ stop \in Nat /\ stop <= NumBlocks /\ stop <= ws + rel
      /\ sh < NumBlocks => sh < stop
  BY <1>1, <1>3, <1>4, StopRange
<1>6. PICK sent \in SUBSET Block : Sends(sent, ak, sh, stop, ov)
  BY <1>1, <1>3, SendSends
<1> HIDE DEF stop
<1>7. attempts' = [i \in Block |-> IF i \in sent THEN attempts[i] + 1 ELSE attempts[i]]
  BY <1>6 DEF Sends
<1>8. \A i \in Block : attempts[i] \in Nat /\ attempts[i] <= MaxSendAttempts
  BY DEF ArqTypeOK
<1>9. attempts' \in [Block -> 0 .. MaxSendAttempts]
  <2>1. \A i \in sent : attempts[i] < MaxSendAttempts
    BY <1>6 DEF Sends
  <2> QED
    BY <1>7, <1>8, <2>1
<1>10. OverflowCountsStragglers'
  <2>1. ov = Cardinality(Stragglers(ak))
    BY DEF ReadyToSend
  <2>2. overflowIndicator' =
          Cardinality({i \in Block : i \notin ak /\ attempts'[i] > OverflowAttempts})
    BY <1>1, <1>6, <2>1, SendsCountsStragglers
  <2> QED
    BY <2>2 DEF OverflowCountsStragglers
<1>11. overflowIndicator' \in Int
  <2>1. {i \in Block : i \notin acked' /\ attempts'[i] > OverflowAttempts} \in SUBSET Block
    OBVIOUS
  <2> QED
    BY <1>10, <2>1, BlockFinite DEF OverflowCountsStragglers
<1>12. ArqTypeOK'
  BY <1>1, <1>6, <1>9, <1>11 DEF ArqTypeOK, Sends
<1>13. ShiftIsFirstUnacked'
  BY DEF ShiftIsFirstUnacked, ReadyToSend
<1>14. AcksCounted'
  BY DEF AcksCounted, ReadyToSend
<1>15. SentInWindow'
  <2>1. \A i \in Block : attempts'[i] > 0 => i < MaxWindowSize + rel
    <3> SUFFICES ASSUME NEW i \in Block, attempts'[i] > 0
                 PROVE  i < MaxWindowSize + rel
      OBVIOUS
    <3>1. CASE i \in sent
      BY <1>1, <1>5, <1>6, <3>1 DEF Sends
    <3>2. CASE i \notin sent
      BY <1>7, <3>2 DEF ReadyToSend
    <3> QED
      BY <3>1, <3>2
  <2>2. \A i \in ak : attempts'[i] > 0
    BY <1>1, <1>7, <1>8 DEF ReadyToSend
  <2> QED
    BY <2>1, <2>2 DEF SentInWindow
<1>16. HeadInWindow'
  <2> SUFFICES ASSUME status' = "sending", sh < NumBlocks
               PROVE  /\ sh < Stop(ws, sh, rel, overflowIndicator')
                      /\ attempts'[sh] > 0
    BY DEF HeadInWindow, Stop
  <2>1. sh < Stop(ws, sh, rel, overflowIndicator')
    BY <1>1, <1>4, <1>11, StopRange
  <2>2. attempts'[sh] > 0
    BY <1>1, <1>5, <1>6 DEF Sends, ReadyToSend
  <2> QED
    BY <2>1, <2>2
<1> QED
  BY <1>10, <1>12, <1>13, <1>14, <1>15, <1>16 DEF ArqInv

-----------------------------------------------------------------------------
(* One lemma per action: each keeps the invariant.                         *)

LEMMA InvIsReady ==
    ASSUME ArqInv
    PROVE  ReadyToSend(acked, shift, relative_shift, windowsize, overflowIndicator)
  BY DEF ArqInv, ArqTypeOK, ShiftIsFirstUnacked, OverflowCountsStragglers, AcksCounted,
         SentInWindow, ReadyToSend, Stragglers

LEMMA InitInv ==
    ASSUME ArqInit
    PROVE  ArqInv
<1>1. ArqTypeOK
  BY DEF ArqInit, ArqTypeOK
<1>2. Cardinality(acked) = 0
  BY FS_EmptySet DEF ArqInit
<1>3. {i \in Block : i \notin acked /\ attempts[i] > OverflowAttempts} = {}
  BY DEF ArqInit
<1>4. OverflowCountsStragglers
  BY <1>3, FS_EmptySet DEF ArqInit, OverflowCountsStragglers
<1> QED
  BY <1>1, <1>2, <1>4
     DEF ArqInit, ArqInv, ShiftIsFirstUnacked, HeadInWindow, AcksCounted, SentInWindow

LEMMA StartInv ==
    ASSUME ArqInv, ArqStart
    PROVE  ArqInv'
  BY InvIsReady, SendKeepsInv DEF ArqStart, ArqInv, ArqTypeOK

LEMMA TimeoutInv ==
    ASSUME ArqInv, ArqTimeout
    PROVE  ArqInv'
  BY InvIsReady, SendKeepsInv DEF ArqTimeout, ArqInv, ArqTypeOK

(* A step that ends the transfer only counts and sets status.              *)
LEMMA EndInv ==
    ASSUME ArqInv, ArqFinal \/ ArqReadError
    PROVE  ArqInv'
<1>1. /\ status' \in {"done", "failed"}
      /\ balancerCounter' \in Nat
      /\ UNCHANGED <<acked, attempts, shift, relative_shift, windowsize, retransmits,
                     retransmitsTmp, overflowIndicator>>
  BY DEF ArqFinal, ArqReadError, ArqInv, ArqTypeOK
<1> QED
  BY <1>1 DEF ArqInv, ArqTypeOK, ShiftIsFirstUnacked, OverflowCountsStragglers,
              HeadInWindow, AcksCounted, SentInWindow

(* The balancer leaves a window between its two limits.                    *)
LEMMA BalanceRange ==
    ASSUME ArqTypeOK, balancerCounter' \in Nat, Balance
    PROVE  windowsize' \in 1 .. MaxWindowSize /\ retransmitsTmp' \in Nat
<1>1. Truncate7Tenths(2 - retransmits + retransmitsTmp) \in Int
  BY DEF Truncate7Tenths, ArqTypeOK
<1>2. \A w \in Int : Clamp(w) \in 1 .. MaxWindowSize
  BY DEF Clamp
<1>3. CASE balancerCounter' % BalancePeriod = 0
  <2> DEFINE dt == Truncate7Tenths(2 - retransmits + retransmitsTmp)
  <2>1. windowsize' = Clamp(windowsize + dt) /\ retransmitsTmp' = retransmits
    BY <1>3 DEF Balance
  <2> HIDE DEF dt
  <2>2. windowsize + dt \in Int
    BY <1>1 DEF ArqTypeOK, dt
  <2> QED
    BY <1>2, <2>1, <2>2 DEF ArqTypeOK
<1>4. CASE balancerCounter' % BalancePeriod # 0
  BY <1>4 DEF Balance, ArqTypeOK
<1> QED
  BY <1>3, <1>4

LEMMA ContinueInv ==
    ASSUME ArqInv, NEW b \in Block, attempts[b] > 0, NEW late \in SUBSET Block,
           ArqContinue(b, late)
    PROVE  ArqInv'
<1> DEFINE ov == OverflowAfter(b)
<1>1. /\ ArqTypeOK /\ ShiftIsFirstUnacked /\ OverflowCountsStragglers
      /\ AcksCounted /\ SentInWindow
  BY DEF ArqInv
<1>2. /\ balancerCounter' = balancerCounter + 1
      /\ acked' = acked \cup {b}
      /\ relative_shift' = relative_shift + 1
      /\ AdvanceShift(b)
      /\ Balance
      /\ Send(late, acked', shift', relative_shift', windowsize', ov)
  BY DEF ArqContinue
<1>3. balancerCounter' \in Nat
  BY <1>1, <1>2 DEF ArqTypeOK
<1>4. windowsize' \in 1 .. MaxWindowSize /\ retransmitsTmp' \in Nat
  BY <1>1, <1>2, <1>3, BalanceRange
<1>5. /\ shift' \in 0 .. NumBlocks
      /\ \A i \in 0 .. (shift' - 1) : i \in acked'
      /\ shift' \notin acked'
  <2>1. CASE b = shift
    <3>1. PICK s \in (shift + 1) .. NumBlocks :
             /\ \A k \in (shift + 1) .. (s - 1) : k \in acked'
             /\ s \notin acked'
             /\ shift' = s
      BY <1>2, <2>1 DEF AdvanceShift
    <3> QED
      BY <1>1, <1>2, <2>1, <3>1 DEF ShiftIsFirstUnacked, ArqTypeOK
  <2>2. CASE b # shift
    BY <1>1, <1>2, <2>2 DEF AdvanceShift, ShiftIsFirstUnacked, ArqTypeOK
  <2> QED
    BY <2>1, <2>2
<1>6. Cardinality(acked') <= relative_shift'
  <2>1. IsFiniteSet(acked) /\ Cardinality(acked) \in Nat
    BY <1>1, BlockFinite DEF ArqTypeOK
  <2>2. Cardinality(acked \cup {b}) =
          IF b \in acked THEN Cardinality(acked) ELSE Cardinality(acked) + 1
    BY <2>1, FS_AddElement
  <2> QED
    BY <1>1, <1>2, <2>1, <2>2 DEF AcksCounted, ArqTypeOK
<1>7. ov = Cardinality(Stragglers(acked'))
  <2>1. IsFiniteSet(Stragglers(acked)) /\ Cardinality(Stragglers(acked)) \in Nat
    <3>1. Stragglers(acked) \in SUBSET Block
      BY DEF Stragglers
    <3> QED
      BY <3>1, BlockFinite
  <2>2. Stragglers(acked') = Stragglers(acked) \ {b}
    BY <1>2 DEF Stragglers
  <2>3. Cardinality(Stragglers(acked) \ {b}) =
          IF b \in Stragglers(acked) THEN Cardinality(Stragglers(acked)) - 1
                                     ELSE Cardinality(Stragglers(acked))
    BY <2>1, FS_RemoveElement
  <2>4. overflowIndicator = Cardinality(Stragglers(acked))
    BY <1>1 DEF OverflowCountsStragglers, Stragglers
  <2>5. b \in Stragglers(acked) <=> b \notin acked /\ attempts[b] > OverflowAttempts
    BY DEF Stragglers
  <2> QED
    BY <2>2, <2>3, <2>4, <2>5 DEF OverflowAfter
<1>8. /\ acked' \in SUBSET Block /\ relative_shift' \in Nat
      /\ \A i \in Block : attempts[i] > 0 => i < MaxWindowSize + relative_shift'
      /\ \A i \in acked' : attempts[i] > 0
  BY <1>1, <1>2 DEF ArqTypeOK, SentInWindow
<1>9. ReadyToSend(acked', shift', relative_shift', windowsize', ov)
  BY <1>4, <1>5, <1>6, <1>7, <1>8 DEF ReadyToSend
<1> HIDE DEF ov
<1> QED
  BY <1>1, <1>2, <1>3, <1>4, <1>9, SendKeepsInv

-----------------------------------------------------------------------------
LEMMA NextInv ==
    ASSUME ArqInv, [ArqNext]_arqVars
    PROVE  ArqInv'
<1>1. CASE ArqStart
  BY <1>1, StartInv
<1>2. CASE ArqTimeout
  BY <1>2, TimeoutInv
<1>3. CASE ArqFinal \/ ArqReadError
  BY <1>3, EndInv
<1>4. ASSUME NEW b \in Block, NEW late \in SUBSET Block,
             attempts[b] > 0, ArqContinue(b, late)
      PROVE  ArqInv'
  BY <1>4, ContinueInv
<1>5. CASE UNCHANGED arqVars
  BY <1>5 DEF arqVars, ArqInv, ArqTypeOK, ShiftIsFirstUnacked, OverflowCountsStragglers,
              HeadInWindow, AcksCounted, SentInWindow, Stop
<1> QED
  BY <1>1, <1>2, <1>3, <1>4, <1>5 DEF ArqNext

(* The inductive invariant of the send window holds in every behaviour.    *)
THEOREM ArqInvariant == ArqSpec => []ArqInv
<1>1. ArqInit => ArqInv
  BY InitInv
<1>2. ArqInv /\ [ArqNext]_arqVars => ArqInv'
  BY NextInv
<1> QED
  BY <1>1, <1>2, PTL DEF ArqSpec

(* The variables of the two send loops keep their types: no packet is sent *)
(* more often than maxSendAttempts, and the window stays within its limits *)
THEOREM ArqTypeCorrect == ArqSpec => []ArqTypeOK
<1>1. ArqInv => ArqTypeOK
  BY DEF ArqInv
<1> QED
  BY <1>1, ArqInvariant, PTL

(* shift is always the first unacknowledged packet (transport.go:381-391). *)
THEOREM ShiftCorrect == ArqSpec => []ShiftIsFirstUnacked
<1>1. ArqInv => ShiftIsFirstUnacked
  BY DEF ArqInv
<1> QED
  BY <1>1, ArqInvariant, PTL

(* overflowIndicator never drifts from the number of packets it stands for *)
(* (transport.go:237-239 against 376-378).                                 *)
THEOREM OverflowCorrect == ArqSpec => []OverflowCountsStragglers
<1>1. ArqInv => OverflowCountsStragglers
  BY DEF ArqInv
<1> QED
  BY <1>1, ArqInvariant, PTL

(* Every timeout retransmits the head of the window, so an unacknowledged  *)
(* packet runs out of attempts (transport.go:225-236).                     *)
THEOREM HeadCorrect == ArqSpec => []HeadInWindow
<1>1. ArqInv => HeadInWindow
  BY DEF ArqInv
<1> QED
  BY <1>1, ArqInvariant, PTL

(* No more than MAX_WINDOW_SIZE packets are in flight, but for one more    *)
(* per duplicate ACK (transport.go:214-222 and 381).                       *)
THEOREM InFlightCorrect == ArqSpec => []InFlightBounded
<1>1. ArqInv => InFlightBounded
  <2> SUFFICES ASSUME ArqInv PROVE InFlightBounded
    OBVIOUS
  <2> DEFINE flight == {i \in Block : attempts[i] > 0 /\ i \notin acked}
             room   == 0 .. (MaxWindowSize + relative_shift - 1)
  <2>1. relative_shift \in Nat /\ acked \in SUBSET Block
    BY DEF ArqInv, ArqTypeOK
  <2>2. flight \in SUBSET room /\ acked \in SUBSET room
    BY <2>1 DEF ArqInv, SentInWindow
  <2>3. flight \cap acked = {} /\ flight \in SUBSET Block
    OBVIOUS
  <2>4. /\ IsFiniteSet(flight) /\ IsFiniteSet(acked)
        /\ Cardinality(flight) \in Nat /\ Cardinality(acked) \in Nat
    BY <2>1, <2>3, BlockFinite
  <2>5. IsFiniteSet(room) /\ Cardinality(room) = MaxWindowSize + relative_shift
    BY <2>1, FS_Interval
  <2> HIDE DEF flight, room
  <2>6. Cardinality(flight \cup acked) =
          Cardinality(flight) + Cardinality(acked) - Cardinality(flight \cap acked)
    BY <2>4, FS_Union
  <2>7. Cardinality(flight \cap acked) = 0
    BY <2>3, FS_EmptySet
  <2>8. Cardinality(flight \cup acked) <= Cardinality(room)
    <3>1. flight \cup acked \in SUBSET room
      BY <2>2
    <3> QED
      BY <2>5, <3>1, FS_Subset
  <2>9. Cardinality(flight) <= MaxWindowSize + relative_shift - Cardinality(acked)
    BY <2>1, <2>4, <2>5, <2>6, <2>7, <2>8
  <2> QED
    BY <2>9 DEF InFlightBounded, flight
<1> QED
  BY <1>1, ArqInvariant, PTL
=============================================================================
