------------------------------ MODULE Transfer ------------------------------
(* One blockwise transfer: a payload cut by constructNextBlock into        *)
(* NumBlocks blocks, numbered from 0; the last one has MoreBlocks = false. *)
(* A request or response that fits into one datagram is NumBlocks = 1.     *)
EXTENDS Integers, FiniteSets

CONSTANT NumBlocks      \* ceil(len(payload) / MAX_PAYLOAD_SIZE)

ASSUME NumBlocksAssumption == NumBlocks \in Nat \ {0}

Block == 0 .. NumBlocks - 1

MoreBlocks(b) == b < NumBlocks - 1

(* What a receiver knows of a transfer: the block numbers it buffered and  *)
(* the total it learnt from the last block (-1 until then).                *)
TotalAfter_LastNumber(total, b) == IF MoreBlocks(b) THEN total ELSE b

TotalAfter(total, b) == IF MoreBlocks(b) THEN total ELSE b + 1

(* totalBlocks == len(buf): the map has one entry per distinct number.     *)
Complete_AnyLastBlock(total, buf) == total # -1

Complete_OffByOne(total, buf) == total # -1 /\ Cardinality(buf) >= total - 1

Complete(total, buf) == total = Cardinality(buf)

(* assembleBlocks: the buffered blocks with numbers below total; a missing *)
(* number contributes nothing.                                             *)
assembleBlocks(buf, total) == {i \in 0 .. (total - 1) : i \in buf}
=============================================================================
