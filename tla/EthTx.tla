------------------------------- MODULE EthTx -------------------------------
(***************************************************************************)
(* The transmit half of firmware-tcp/ethernetif.c: low_level_output copies *)
(* a pbuf chain into the next DMA slot while the MAC's SRAM reader is      *)
(* sending earlier slots.  The reader is external, modelled from the CSRs  *)
(* the driver uses: a command FIFO with one place per slot, "ready" when   *)
(* it is not full, a command leaving it once its frame is on the wire.     *)
(***************************************************************************)
EXTENDS Integers, Sequences

CONSTANTS TxSlots,     \* ETHMAC_TX_SLOTS, 2
          SlotSize,    \* ETHMAC_SLOT_SIZE, in words
          Word,
          Frames       \* what lwIP may send, also frames too large for a slot

ASSUME TxAssumption ==
  /\ TxSlots \in Nat \ {0} /\ SlotSize \in Nat \ {0} /\ 0 \in Word
  /\ Frames \subseteq Seq(Word) \ {<<>>}

Slot == 0..(TxSlots - 1)

VARIABLES txslot, slots,
          pc,       \* low_level_output: "idle", "wait", "copy", "start"
          p, len,   \* its argument, and how much of it is copied
          cmds,     \* the reader's FIFO of [slot, length]; the head is being sent
          rd,       \* what the reader has put on the wire of that frame
          wire,     \* the frame sent last
          queued    \* ghost: the frames behind cmds

driver == <<txslot, slots, pc, p, len>>
vars == <<driver, cmds, rd, wire, queued>>

-----------------------------------------------------------------------------
(* low_level_output *)

Call == \E f \in Frames :
  /\ pc = "idle" /\ pc' = "wait"
  /\ p' = f /\ len' = 0
  /\ UNCHANGED <<txslot, slots, cmds, rd, wire, queued>>

\* Mutant of WaitReady: the driver does not wait for the reader.
WaitReady_Mutant ==
  /\ pc = "wait" /\ pc' = "copy"
  /\ UNCHANGED <<txslot, slots, p, len, cmds, rd, wire, queued>>

WaitReady ==
  /\ pc = "wait" /\ Len(cmds) < TxSlots
  /\ pc' = "copy"
  /\ UNCHANGED <<txslot, slots, p, len, cmds, rd, wire, queued>>

\* One pbuf of the chain, of n words; the chain is cut up in any way.  One
\* that does not fit ends the call with ERR_BUF.
Copy == \E n \in 1..(Len(p) - len) :
  /\ pc = "copy"
  /\ IF len + n > SlotSize
     THEN pc' = "idle" /\ UNCHANGED <<slots, len>>
     ELSE /\ slots' = [slots EXCEPT ![txslot] =
                         [a \in 0..(SlotSize - 1) |->
                            IF a \in len..(len + n - 1) THEN p[a + 1] ELSE @[a]]]
          /\ len' = len + n
          /\ pc' = IF len + n = Len(p) THEN "start" ELSE "copy"
  /\ UNCHANGED <<txslot, p, cmds, rd, wire, queued>>

\* Mutants of Start: txslot runs off the slots; txslot stays.
Start_NoWrap ==
  /\ pc = "start" /\ pc' = "idle"
  /\ cmds' = Append(cmds, [slot |-> txslot, length |-> len])
  /\ queued' = Append(queued, p)
  /\ txslot' = txslot + 1
  /\ UNCHANGED <<slots, p, len, rd, wire>>

Start_SameSlot ==
  /\ pc = "start" /\ pc' = "idle"
  /\ cmds' = Append(cmds, [slot |-> txslot, length |-> len])
  /\ queued' = Append(queued, p)
  /\ UNCHANGED <<txslot, slots, p, len, rd, wire>>

Start ==
  /\ pc = "start" /\ pc' = "idle"
  /\ cmds' = Append(cmds, [slot |-> txslot, length |-> len])
  /\ queued' = Append(queued, p)
  /\ txslot' = (txslot + 1) % TxSlots
  /\ UNCHANGED <<slots, p, len, rd, wire>>

-----------------------------------------------------------------------------
(* The SRAM reader *)

ReadWord ==
  /\ cmds # <<>> /\ Len(rd) < Head(cmds).length
  /\ rd' = Append(rd, slots[Head(cmds).slot][Len(rd)])
  /\ UNCHANGED <<driver, cmds, wire, queued>>

FrameSent ==
  /\ cmds # <<>> /\ Len(rd) = Head(cmds).length
  /\ wire' = rd /\ rd' = <<>>
  /\ cmds' = Tail(cmds) /\ queued' = Tail(queued)
  /\ UNCHANGED driver

Init ==
  /\ txslot = 0 /\ slots = [s \in Slot |-> [a \in 0..(SlotSize - 1) |-> 0]]
  /\ pc = "idle" /\ p = <<>> /\ len = 0
  /\ cmds = <<>> /\ rd = <<>> /\ wire = <<>> /\ queued = <<>>

Output == WaitReady \/ Copy \/ Start
Reader == ReadWord \/ FrameSent
Next == Call \/ Output \/ Reader

Spec == Init /\ [][Next]_vars

-----------------------------------------------------------------------------
(* Properties *)

(* Types; slot indices stay inside the DMA area, the FIFO never overflows.  *)
TypeOK ==
  /\ txslot \in Slot
  /\ slots \in [Slot -> [0..(SlotSize - 1) -> Word]]
  /\ pc \in {"idle", "wait", "copy", "start"}
  /\ p \in Frames \cup {<<>>} /\ len \in 0..SlotSize
  /\ cmds \in Seq([slot : Slot, length : 1..SlotSize])
  /\ Len(cmds) <= TxSlots
  /\ rd \in Seq(Word) /\ wire \in Seq(Word)
  /\ queued \in Seq(Frames) /\ Len(queued) = Len(cmds)

(* While a frame waits in a slot or is being read out of it, the slot holds *)
(* that frame: the copy of a later one never touches it.                    *)
TxIntact ==
  \A k \in 1..Len(cmds) :
    /\ cmds[k].length = Len(queued[k])
    /\ \A a \in 1..Len(queued[k]) : slots[cmds[k].slot][a - 1] = queued[k][a]

(* The wire carries the frames lwIP sent, in order, unaltered, each one     *)
(* exactly once, and each one eventually.                                   *)
Fifo == INSTANCE FrameFifo WITH q <- queued, out <- wire,
                                Size <- TxSlots, MayLose <- FALSE
SendsInOrder == Fifo!FairSpec
=============================================================================
