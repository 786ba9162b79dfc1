---------------------------- MODULE EthTxProofs ----------------------------
(***************************************************************************)
(* The transmit path keeps queued frames intact and sends them in order,   *)
(* for any number and size of slots and any frames.                        *)
(***************************************************************************)
EXTENDS EthTx, SequenceTheorems, TLAPS

\* The queued commands use the TxSlots slots cyclically, ending just before
\* txslot: with fewer than TxSlots of them, txslot is free.
OrderInv ==
  \A k \in 1..Len(cmds) :
    LET d == txslot - (Len(cmds) - k + 1)
    IN  cmds[k].slot = IF d < 0 THEN d + TxSlots ELSE d

\* The part of p that is copied stands in the free slot txslot.
CopyInv ==
  /\ pc # "idle" => p \in Frames /\ len <= Len(p)
  /\ pc = "wait" => len = 0
  /\ pc \in {"copy", "start"} =>
       /\ Len(cmds) < TxSlots
       /\ \A a \in 1..len : slots[txslot][a - 1] = p[a]
  /\ pc = "start" => len = Len(p)

\* The reader is part of the way through the oldest frame.
ReadInv ==
  /\ cmds = <<>> => rd = <<>>
  /\ cmds # <<>> =>
       /\ Len(rd) <= Len(queued[1])
       /\ \A a \in 1..Len(rd) : rd[a] = queued[1][a]

TxInv == TypeOK /\ OrderInv /\ CopyInv /\ TxIntact /\ ReadInv

-----------------------------------------------------------------------------

Cmd == [slot : Slot, length : 1..SlotSize]

\* The reset state.
LEMMA TxInit == Init => TxInv
  BY TxAssumption, EmptySeq
     DEF Init, TxInv, TypeOK, OrderInv, CopyInv, TxIntact, ReadInv, Slot

\* What the increment of txslot does within the slots.
LEMMA NextSlot ==
  ASSUME NEW s \in Slot
  PROVE  (s + 1) % TxSlots = IF s = TxSlots - 1 THEN 0 ELSE s + 1
<1>1. CASE s = TxSlots - 1
  BY <1>1, TxAssumption DEF Slot
<1>2. CASE s # TxSlots - 1
  <2>1. s + 1 \in 0..(TxSlots - 1)
    BY <1>2, TxAssumption DEF Slot
  <2> QED BY <2>1, <1>2, TxAssumption
<1> QED BY <1>1, <1>2

\* The slot the driver fills is none of the queued ones.
LEMMA FreeSlot ==
  ASSUME TypeOK, OrderInv, Len(cmds) < TxSlots, NEW k \in 1..Len(cmds)
  PROVE  cmds[k].slot # txslot
<1>1. Len(cmds) \in Nat /\ txslot \in 0..(TxSlots - 1)
  BY LenProperties DEF TypeOK, Slot
<1> QED BY <1>1, TxAssumption DEF OrderInv

\* A call, and the end of the wait, touch no slot.
LEMMA CallWait ==
  ASSUME TxInv, Call \/ WaitReady PROVE TxInv'
<1>1. CASE Call
  BY <1>1, TxAssumption DEF Call, TxInv, TypeOK, OrderInv, CopyInv, TxIntact, ReadInv
<1>2. CASE WaitReady
  BY <1>2 DEF WaitReady, TxInv, TypeOK, OrderInv, CopyInv, TxIntact, ReadInv
<1> QED BY <1>1, <1>2

\* Copying writes the free slot only.
LEMMA CopyStep ==
  ASSUME TxInv, Copy PROVE TxInv'
<1> USE DEF TxInv
<1>0. PICK n \in 1..(Len(p) - len) :
        /\ pc = "copy"
        /\ IF len + n > SlotSize
           THEN pc' = "idle" /\ UNCHANGED <<slots, len>>
           ELSE /\ slots' = [slots EXCEPT ![txslot] =
                               [a \in 0..(SlotSize - 1) |->
                                  IF a \in len..(len + n - 1)
                                  THEN p[a + 1] ELSE slots[txslot][a]]]
                /\ len' = len + n
                /\ pc' = IF len + n = Len(p) THEN "start" ELSE "copy"
        /\ UNCHANGED <<txslot, p, cmds, rd, wire, queued>>
  BY DEF Copy
<1>1. CASE len + n > SlotSize
  BY <1>0, <1>1 DEF TypeOK, OrderInv, CopyInv, TxIntact, ReadInv
<1>2. CASE ~(len + n > SlotSize)
  <2>1. p \in Seq(Word) /\ Len(p) \in Nat /\ \A a \in 1..Len(p) : p[a] \in Word
    BY <1>0, TxAssumption, LenProperties, ElementOfSeq DEF CopyInv
  <2>2. len \in Nat /\ n \in Nat /\ n >= 1 /\ len + n <= Len(p) /\ len + n <= SlotSize
    BY <1>0, <1>2, <2>1, TxAssumption DEF TypeOK
  <2>3. \A s \in Slot : s # txslot => slots'[s] = slots[s]
    BY <1>0, <1>2 DEF TypeOK
  <2>4. \A a \in 0..(SlotSize - 1) :
          slots'[txslot][a] = IF a \in len..(len + n - 1)
                              THEN p[a + 1] ELSE slots[txslot][a]
    BY <1>0, <1>2 DEF TypeOK
  <2>5. slots' \in [Slot -> [0..(SlotSize - 1) -> Word]]
    <3> DEFINE row == [a \in 0..(SlotSize - 1) |->
                         IF a \in len..(len + n - 1)
                         THEN p[a + 1] ELSE slots[txslot][a]]
    <3>1. row \in [0..(SlotSize - 1) -> Word]
      BY <2>1, <2>2, TxAssumption DEF TypeOK
    <3>2. slots' = [slots EXCEPT ![txslot] = row]
      BY <1>0, <1>2
    <3> HIDE DEF row
    <3> QED BY <3>1, <3>2 DEF TypeOK
  <2>6. TypeOK'
    BY <1>0, <1>2, <2>2, <2>5, TxAssumption DEF TypeOK
  <2>7. CopyInv'
    <3>1. \A a \in 1..len' : slots'[txslot'][a - 1] = p'[a]
      BY <1>0, <1>2, <2>2, <2>4, TxAssumption DEF CopyInv
    <3> QED BY <3>1, <1>0, <1>2, <2>2 DEF CopyInv
  <2>8. TxIntact'
    <3>1. \A k \in 1..Len(cmds) : cmds[k].slot \in Slot /\ cmds[k].slot # txslot
      <4>1. Len(cmds) < TxSlots
        BY <1>0 DEF CopyInv
      <4>2. \A k \in 1..Len(cmds) : cmds[k].slot # txslot
        BY <4>1, FreeSlot
      <4>3. \A k \in 1..Len(cmds) : cmds[k] \in [slot : Slot, length : 1..SlotSize]
        BY ElementOfSeq DEF TypeOK
      <4> QED BY <4>2, <4>3
    <3> QED BY <3>1, <2>3, <1>0 DEF TxIntact
  <2> QED BY <1>0, <2>6, <2>7, <2>8 DEF OrderInv, ReadInv
<1> QED BY <1>1, <1>2

\* A started frame joins the queue with its contents in place.
LEMMA StartStep ==
  ASSUME TxInv, Start PROVE TxInv'
<1> USE DEF TxInv
<1> DEFINE c == [slot |-> txslot, length |-> len]
<1>1. p \in Frames /\ len = Len(p) /\ len \in 1..SlotSize /\ Len(cmds) < TxSlots
  BY TxAssumption, EmptySeq DEF Start, CopyInv, TypeOK
<1>2. c \in Cmd /\ cmds \in Seq(Cmd) /\ queued \in Seq(Frames)
      /\ Len(cmds) \in Nat /\ Len(queued) = Len(cmds)
  BY <1>1, LenProperties DEF TypeOK, Cmd
<1>3. /\ cmds' \in Seq(Cmd) /\ Len(cmds') = Len(cmds) + 1
      /\ \A k \in 1..Len(cmds) : cmds'[k] = cmds[k]
      /\ cmds'[Len(cmds) + 1] = c
      /\ cmds' # <<>>
  BY <1>2, AppendProperties DEF Start
<1>4. /\ queued' \in Seq(Frames) /\ Len(queued') = Len(cmds) + 1
      /\ \A k \in 1..Len(cmds) : queued'[k] = queued[k]
      /\ queued'[Len(cmds) + 1] = p
  BY <1>1, <1>2, AppendProperties DEF Start
<1>5. txslot' = IF txslot = TxSlots - 1 THEN 0 ELSE txslot + 1
  BY NextSlot DEF Start, TypeOK
<1>6. TypeOK'
  <2>1. txslot' \in Slot
    BY <1>5, TxAssumption DEF TypeOK, Slot
  <2>2. UNCHANGED <<slots, p, len, rd, wire>> /\ pc' = "idle"
    BY DEF Start
  <2>3. Len(cmds') <= TxSlots /\ Len(queued') = Len(cmds')
    BY <1>1, <1>2, <1>3, <1>4, TxAssumption
  <2> QED BY <2>1, <2>2, <2>3, <1>3, <1>4 DEF TypeOK, Cmd
<1>7. OrderInv'
  <2> SUFFICES ASSUME NEW k \in 1..(Len(cmds) + 1)
               PROVE  LET d == txslot' - (Len(cmds) + 1 - k + 1)
                      IN  cmds'[k].slot = IF d < 0 THEN d + TxSlots ELSE d
    BY <1>3 DEF OrderInv
  <2>1. txslot \in 0..(TxSlots - 1)
    BY DEF TypeOK, Slot
  <2>2. CASE k = Len(cmds) + 1
    BY <2>1, <2>2, <1>2, <1>3, <1>5, TxAssumption
  <2>3. CASE k \in 1..Len(cmds)
    <3> DEFINE e == txslot - (Len(cmds) - k + 1)
    <3>1. cmds'[k].slot = IF e < 0 THEN e + TxSlots ELSE e
      BY <2>3, <1>3 DEF OrderInv
    <3>2. /\ k \in Int /\ Len(cmds) \in Int /\ TxSlots \in Int
          /\ 1 <= k /\ k <= Len(cmds) /\ Len(cmds) < TxSlots
      BY <2>3, <1>1, <1>2, TxAssumption
    <3> DEFINE d == txslot' - (Len(cmds) + 1 - k + 1)
    <3>3. CASE txslot = TxSlots - 1
      <4>1. e >= 0 /\ d = e - TxSlots /\ d < 0
        BY <3>2, <3>3, <1>5
      <4>2. e \in Int
        BY <3>2, <2>1
      <4> HIDE DEF d, e
      <4>3. cmds'[k].slot = IF d < 0 THEN d + TxSlots ELSE d
        BY <4>1, <4>2, <3>1, <3>2
      <4> QED BY <4>3 DEF d
    <3>4. CASE txslot # TxSlots - 1
      <4>1. d = e
        BY <3>2, <3>4, <2>1, <1>5
      <4> HIDE DEF d, e
      <4>2. cmds'[k].slot = IF d < 0 THEN d + TxSlots ELSE d
        BY <4>1, <3>1
      <4> QED BY <4>2 DEF d
    <3> QED BY <3>3, <3>4
  <2>4. k = Len(cmds) + 1 \/ k \in 1..Len(cmds)
    BY <1>2
  <2> QED BY <2>2, <2>3, <2>4, Zenon
<1>8. CopyInv' /\ TxIntact'
  <2>1. CopyInv'
    BY DEF Start, CopyInv
  <2>2. ASSUME NEW k \in 1..Len(cmds')
        PROVE  /\ cmds'[k].length = Len(queued'[k])
               /\ \A a \in 1..Len(queued'[k]) :
                    slots'[cmds'[k].slot][a - 1] = queued'[k][a]
    <3>1. CASE k = Len(cmds) + 1
      BY <3>1, <1>1, <1>3, <1>4 DEF Start, CopyInv
    <3>2. CASE k \in 1..Len(cmds)
      BY <3>2, <1>3, <1>4 DEF Start, TxIntact
    <3> QED BY <3>1, <3>2, <1>2, <1>3
  <2> QED BY <2>1, <2>2 DEF TxIntact
<1>9. ReadInv'
  <2>1. CASE cmds = <<>>
    BY <2>1, <1>1, <1>3, <1>4 DEF Start, ReadInv
  <2>2. CASE cmds # <<>>
    <3>1. 1 \in 1..Len(cmds)
      BY <2>2, <1>2, EmptySeq
    <3> QED BY <3>1, <2>2, <1>3, <1>4 DEF Start, ReadInv
  <2> QED BY <2>1, <2>2
<1> QED BY <1>6, <1>7, <1>8, <1>9

\* The reader takes the next word of the oldest frame.
LEMMA ReadStep ==
  ASSUME TxInv, ReadWord PROVE TxInv'
<1> USE DEF TxInv
<1>1. /\ cmds # <<>> /\ 1 \in 1..Len(cmds) /\ Head(cmds) = cmds[1]
      /\ cmds[1] \in [slot : Slot, length : 1..SlotSize]
      /\ queued[1] \in Frames
  <2>1. cmds \in Seq(Cmd) /\ queued \in Seq(Frames) /\ Len(queued) = Len(cmds)
        /\ cmds # <<>>
    BY DEF ReadWord, TypeOK, Cmd
  <2>2. Len(cmds) \in Nat \ {0} /\ 1 \in 1..Len(cmds)
    BY <2>1, EmptySeq
  <2>3. cmds[1] \in Cmd /\ queued[1] \in Frames
    BY <2>1, <2>2, ElementOfSeq
  <2> QED BY <2>1, <2>2, <2>3 DEF Cmd
<1> DEFINE w == slots[cmds[1].slot][Len(rd)]
<1>2. /\ Len(rd) \in Nat /\ Len(rd) < cmds[1].length
      /\ cmds[1].length = Len(queued[1])
      /\ w = queued[1][Len(rd) + 1] /\ w \in Word
  <2>1. Len(rd) \in Nat /\ Len(rd) < cmds[1].length
    BY <1>1, LenProperties DEF ReadWord, TypeOK
  <2>2. cmds[1].length = Len(queued[1])
        /\ \A a \in 1..Len(queued[1]) : slots[cmds[1].slot][a - 1] = queued[1][a]
    BY <1>1 DEF TxIntact
  <2>3. Len(rd) + 1 \in 1..Len(queued[1]) /\ (Len(rd) + 1) - 1 = Len(rd)
    BY <2>1, <2>2, <1>1
  <2>4. w \in Word
    BY <1>1, <2>1, TxAssumption DEF TypeOK
  <2> QED BY <2>1, <2>2, <2>3, <2>4
<1>3. rd' = Append(rd, w)
  BY <1>1 DEF ReadWord
<1> HIDE DEF w
<1>4. /\ rd' \in Seq(Word) /\ Len(rd') = Len(rd) + 1
      /\ \A a \in 1..Len(rd) : rd'[a] = rd[a]
      /\ rd'[Len(rd) + 1] = w
  BY <1>2, <1>3, AppendProperties DEF TypeOK
<1>5. TypeOK' /\ OrderInv' /\ CopyInv' /\ TxIntact'
  BY <1>4 DEF ReadWord, driver, TypeOK, OrderInv, CopyInv, TxIntact
<1>6. ReadInv'
  BY <1>1, <1>2, <1>4 DEF ReadWord, ReadInv
<1> QED BY <1>5, <1>6

\* What the end of a frame does to the two queues.
LEMMA SentQueues ==
  ASSUME TxInv, FrameSent
  PROVE  /\ Len(cmds) \in Nat \ {0} /\ Len(queued) = Len(cmds)
         /\ cmds' \in Seq(Cmd) /\ queued' \in Seq(Frames)
         /\ Len(cmds') = Len(cmds) - 1 /\ Len(queued') = Len(cmds) - 1
         /\ \A k \in 1..(Len(cmds) - 1) :
              cmds'[k] = cmds[k + 1] /\ queued'[k] = queued[k + 1]
<1>1. cmds \in Seq(Cmd) /\ queued \in Seq(Frames) /\ Len(queued) = Len(cmds)
  BY DEF TxInv, TypeOK, Cmd
<1>2. cmds # <<>> /\ Len(cmds) \in Nat \ {0} /\ queued # <<>>
  BY <1>1, EmptySeq DEF FrameSent
<1>3. cmds' = Tail(cmds) /\ queued' = Tail(queued)
  BY DEF FrameSent
<1> QED BY <1>1, <1>2, <1>3, HeadTailProperties

\* A frame that is sent leaves the queue and its slot.
LEMMA SentStep ==
  ASSUME TxInv, FrameSent PROVE TxInv'
<1>0. /\ Len(cmds) \in Nat \ {0} /\ Len(queued) = Len(cmds)
      /\ cmds' \in Seq(Cmd) /\ queued' \in Seq(Frames)
      /\ Len(cmds') = Len(cmds) - 1 /\ Len(queued') = Len(cmds) - 1
      /\ \A k \in 1..(Len(cmds) - 1) :
           cmds'[k] = cmds[k + 1] /\ queued'[k] = queued[k + 1]
  BY SentQueues
<1> USE DEF TxInv
<1>1. TypeOK'
  <2>1. UNCHANGED driver /\ wire' = rd /\ rd' = <<>>
    BY DEF FrameSent
  <2>2. rd' \in Seq(Word)
    BY <2>1, EmptySeq
  <2>3. Len(cmds') <= TxSlots /\ Len(queued') = Len(cmds')
    BY <1>0, TxAssumption DEF TypeOK
  <2> QED BY <2>1, <2>2, <2>3, <1>0 DEF driver, TypeOK, Cmd
<1>2. OrderInv'
  <2> SUFFICES ASSUME NEW k \in 1..(Len(cmds) - 1)
               PROVE  LET d == txslot - (Len(cmds) - 1 - k + 1)
                      IN  cmds'[k].slot = IF d < 0 THEN d + TxSlots ELSE d
    BY <1>0 DEF OrderInv, FrameSent, driver
  <2>1. k + 1 \in 1..Len(cmds) /\ cmds'[k] = cmds[k + 1]
    BY <1>0
  <2>2. txslot \in Int /\ Len(cmds) \in Int
    BY <1>0 DEF TypeOK, Slot
  <2>3. txslot - (Len(cmds) - (k + 1) + 1) = txslot - (Len(cmds) - 1 - k + 1)
    BY <2>2
  <2> QED BY <2>1, <2>3 DEF OrderInv
<1>3. CopyInv'
  BY <1>0, TxAssumption DEF FrameSent, driver, CopyInv
<1>4. TxIntact'
  <2> SUFFICES ASSUME NEW k \in 1..(Len(cmds) - 1)
               PROVE  /\ cmds'[k].length = Len(queued'[k])
                      /\ \A a \in 1..Len(queued'[k]) :
                           slots'[cmds'[k].slot][a - 1] = queued'[k][a]
    BY <1>0 DEF TxIntact
  <2>1. k + 1 \in 1..Len(cmds)
        /\ cmds'[k] = cmds[k + 1] /\ queued'[k] = queued[k + 1]
    BY <1>0
  <2> QED BY <2>1 DEF TxIntact, FrameSent, driver
<1>5. ReadInv'
  <2>1. rd' = <<>> /\ Len(rd') = 0
    BY EmptySeq DEF FrameSent
  <2>2. ASSUME cmds' # <<>> PROVE Len(queued'[1]) \in Nat
    <3>1. Len(cmds') \in Nat \ {0}
      BY <2>2, <1>0, EmptySeq
    <3>2. queued'[1] \in Frames
      BY <3>1, <1>0, ElementOfSeq
    <3> QED BY <3>2, TxAssumption, LenProperties
  <2> QED BY <2>1, <2>2 DEF ReadInv
<1> QED BY <1>1, <1>2, <1>3, <1>4, <1>5

(* The invariant is inductive. *)
LEMMA TxInductive == TxInv /\ [Next]_vars => TxInv'
<1> SUFFICES ASSUME TxInv, [Next]_vars PROVE TxInv'
  OBVIOUS
<1>1. CASE UNCHANGED vars
  BY <1>1 DEF vars, driver, TxInv, TypeOK, OrderInv, CopyInv, TxIntact, ReadInv
<1>2. CASE Next
  BY <1>2, CallWait, CopyStep, StartStep, ReadStep, SentStep DEF Next, Output, Reader
<1> QED BY <1>1, <1>2

(* A frame handed to the MAC stays intact in its slot until it has been     *)
(* sent, whatever low_level_output copies meanwhile.                        *)
THEOREM TxCorrect == Spec => [](TypeOK /\ TxIntact)
<1>1. TxInv => TypeOK /\ TxIntact
  BY DEF TxInv
<1> QED BY <1>1, TxInit, TxInductive, PTL DEF Spec

(* Two sequences of the same length with the same elements are equal.       *)
LEMMA SameSeq ==
  ASSUME NEW A, NEW B, NEW s \in Seq(A), NEW t \in Seq(B), Len(s) = Len(t),
         \A k \in 1..Len(s) : s[k] = t[k]
  PROVE  s = t
  BY LenProperties

(* Safety of SendsInOrder: the slots and the command FIFO implement a queue *)
(* of frames.                                                               *)
THEOREM TxIsFifo == Spec => Fifo!Spec
<1>1. Init => Fifo!Init
  BY DEF Init, Fifo!Init
<1>2. TxInv /\ [Next]_vars => [Fifo!Next]_(Fifo!fvars)
  <2> SUFFICES ASSUME TxInv, Next PROVE Fifo!Next \/ UNCHANGED <<queued, wire>>
    BY DEF vars, Fifo!fvars
  <2>1. CASE Call \/ WaitReady \/ Copy \/ ReadWord
    BY <2>1 DEF Call, WaitReady, Copy, ReadWord
  <2>2. CASE Start
    BY <2>2 DEF Start, TxInv, CopyInv, TypeOK, Fifo!Next, Fifo!Accept
  <2>3. CASE FrameSent
    <3>1. Len(cmds) \in Nat \ {0} /\ Len(queued) = Len(cmds) /\ cmds # <<>>
          /\ queued \in Seq(Frames) /\ queued # <<>>
      BY <2>3, SentQueues, EmptySeq DEF FrameSent, TxInv, TypeOK
    <3>2. 1 \in 1..Len(cmds) /\ Head(cmds) = cmds[1] /\ Head(queued) = queued[1]
          /\ queued[1] \in Seq(Word)
      BY <3>1, TxAssumption, ElementOfSeq DEF TxInv, TypeOK
    <3>3. Len(rd) = Len(queued[1]) /\ \A a \in 1..Len(rd) : rd[a] = queued[1][a]
      BY <2>3, <3>1, <3>2 DEF FrameSent, TxInv, ReadInv, TxIntact
    <3>4. rd = queued[1]
      BY <3>2, <3>3, SameSeq DEF TxInv, TypeOK
    <3> QED BY <2>3, <3>1, <3>2, <3>4 DEF FrameSent, Fifo!Next, Fifo!Deliver
  <2> QED BY <2>1, <2>2, <2>3 DEF Next, Output, Reader
<1> QED BY <1>1, <1>2, TxInit, TxInductive, PTL DEF Spec, Fifo!Spec
=============================================================================
