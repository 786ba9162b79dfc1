------------------------------- MODULE EthRx -------------------------------
(***************************************************************************)
(* The receive half of firmware-tcp/ethernetif.c: low_level_input copies a *)
(* frame out of its DMA slot while the MAC's SRAM writer is filling other  *)
(* slots.  The writer is external, modelled from the CSRs the driver uses: *)
(* a FIFO of finished frames with one place per slot, whose head is what   *)
(* the slot and length registers show and what clearing the event removes; *)
(* a frame that begins while the FIFO is full is not stored.               *)
(***************************************************************************)
EXTENDS Integers, Sequences

CONSTANTS RxSlots,     \* ETHMAC_RX_SLOTS, 2
          SlotSize,    \* in words
          Word,
          Frames       \* what may arrive

\* What the build guarantees: a frame fits its slot (the MAC drops longer ones).
RxConstants ==
  /\ RxSlots \in Nat \ {0} /\ SlotSize \in Nat \ {0} /\ 0 \in Word
  /\ Frames \subseteq Seq(Word) \ {<<>>}
  /\ \A f \in Frames : Len(f) <= SlotSize

Slot == 0..(RxSlots - 1)

VARIABLES slots, wslot,      \* the DMA slots; the one the writer fills
          cur, wpos,         \* the frame on the wire, <<>> if none; words stored
          stat,              \* the writer's FIFO of [slot, length]
          pc,                \* CPU: "init", "poll", "copy", "clear"
          rxslot, rxlen, pb, \* locals of low_level_input; pb is <<>> for NULL
          input,             \* the frame netif->input was given last
          queued             \* ghost: the frames behind stat

cpu == <<pc, rxslot, rxlen, pb, input>>
vars == <<slots, wslot, cur, wpos, stat, cpu, queued>>

-----------------------------------------------------------------------------
(* The SRAM writer *)

FrameBegins == \E f \in Frames :
  /\ cur = <<>> /\ Len(stat) < RxSlots
  /\ cur' = f /\ wpos' = 0
  /\ UNCHANGED <<slots, wslot, stat, cpu, queued>>

WriteWord ==
  /\ wpos < Len(cur)
  /\ slots' = [slots EXCEPT ![wslot] = [@ EXCEPT ![wpos] = cur[wpos + 1]]]
  /\ wpos' = wpos + 1
  /\ UNCHANGED <<wslot, cur, stat, cpu, queued>>

FrameStored ==
  /\ cur # <<>> /\ wpos = Len(cur)
  /\ stat' = Append(stat, [slot |-> wslot, length |-> wpos])
  /\ queued' = Append(queued, cur)
  /\ wslot' = (wslot + 1) % RxSlots
  /\ cur' = <<>> /\ wpos' = 0
  /\ UNCHANGED <<slots, cpu>>

\* A bad checksum: the slot is used again.
FrameBad ==
  /\ cur # <<>>
  /\ cur' = <<>> /\ wpos' = 0
  /\ UNCHANGED <<slots, wslot, stat, cpu, queued>>

Writer == FrameBegins \/ WriteWord \/ FrameStored \/ FrameBad

-----------------------------------------------------------------------------
(* The driver *)

\* Clearing the event removes the head of the FIFO, if there is one.
ClearEvent ==
  IF stat = <<>> THEN UNCHANGED <<stat, queued>>
  ELSE stat' = Tail(stat) /\ queued' = Tail(queued)

ethernetif_init ==
  /\ pc = "init" /\ pc' = "poll"
  /\ ClearEvent
  /\ UNCHANGED <<slots, wslot, cur, wpos, rxslot, rxlen, pb, input>>

\* Mutant of Poll: the event is cleared as soon as it has been seen.
Poll_ClearFirst ==
  /\ pc = "poll" /\ stat # <<>>
  /\ rxslot' = Head(stat).slot /\ rxlen' = Head(stat).length
  /\ ClearEvent
  /\ pc' = "copy"
  /\ UNCHANGED <<slots, wslot, cur, wpos, pb, input>>

Poll ==
  /\ pc = "poll" /\ stat # <<>>
  /\ rxslot' = Head(stat).slot /\ rxlen' = Head(stat).length
  /\ pc' = "copy"
  /\ UNCHANGED <<slots, wslot, cur, wpos, stat, pb, input, queued>>

\* pbuf_alloc may find the pool empty.
Copy ==
  /\ pc = "copy" /\ pc' = "clear"
  /\ pb' \in {<<>>, [a \in 1..rxlen |-> slots[rxslot][a - 1]]}
  /\ UNCHANGED <<slots, wslot, cur, wpos, stat, rxslot, rxlen, input, queued>>

\* Mutant of Clear: the event is only cleared when the frame was copied.
Clear_Mutant ==
  /\ pc = "clear" /\ pc' = "poll"
  /\ IF pb = <<>> THEN UNCHANGED <<stat, queued>> ELSE ClearEvent
  /\ input' = IF pb = <<>> THEN input ELSE pb
  /\ rxslot' = 0 /\ rxlen' = 0 /\ pb' = <<>>
  /\ UNCHANGED <<slots, wslot, cur, wpos>>

\* The event is cleared and a frame that could be copied goes to lwIP; the
\* locals of low_level_input are gone.
Clear ==
  /\ pc = "clear" /\ pc' = "poll"
  /\ ClearEvent
  /\ input' = IF pb = <<>> THEN input ELSE pb
  /\ rxslot' = 0 /\ rxlen' = 0 /\ pb' = <<>>
  /\ UNCHANGED <<slots, wslot, cur, wpos>>

Driver == ethernetif_init \/ Poll \/ Copy \/ Clear

Init ==
  /\ slots = [s \in Slot |-> [a \in 0..(SlotSize - 1) |-> 0]] /\ wslot = 0
  /\ cur = <<>> /\ wpos = 0 /\ stat = <<>>
  /\ pc = "init" /\ rxslot = 0 /\ rxlen = 0 /\ pb = <<>>
  /\ input = <<>> /\ queued = <<>>

Next == Writer \/ Driver

Spec == Init /\ [][Next]_vars

-----------------------------------------------------------------------------
(* Properties *)

(* From the moment the driver reads the slot register until it clears the   *)
(* event, that slot holds the oldest frame: whatever arrives meanwhile goes *)
(* to another slot, or is not stored.                                       *)
CopiesOldest ==
  /\ pc \in {"copy", "clear"} =>
       /\ queued # <<>> /\ rxlen = Len(Head(queued))
       /\ \A a \in 1..rxlen : slots[rxslot][a - 1] = Head(queued)[a]
  /\ pc = "clear" => pb \in {<<>>, Head(queued)}

(* lwIP gets the stored frames in order, whole and unaltered, each at most  *)
(* once, and the main loop frees every slot again.                          *)
Fifo == INSTANCE FrameFifo WITH q <- queued, out <- input,
                                Size <- RxSlots, MayLose <- TRUE
ReceivesInOrder == Fifo!FairSpec
=============================================================================
