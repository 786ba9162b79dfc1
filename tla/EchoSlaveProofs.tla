-------------------------- MODULE EchoSlaveProofs --------------------------
(***************************************************************************)
(* The echo memory returns what was written, for every depth and word.     *)
(***************************************************************************)
EXTENDS EchoSlave, TLAPS

\* The acknowledged request is still on the bus.
AckInv == wb_ack = 1 => wb_stb = 1

IInv == TypeOK /\ AckInv /\ MemInv /\ ReadsLastWrite

(* Every edge preserves the invariant; the master holding its request until *)
(* the ack is what makes it inductive.                                      *)
LEMMA EchoInductive == IInv /\ [Next]_vars => IInv'
<1> SUFFICES ASSUME IInv, [Next]_vars PROVE IInv'
  OBVIOUS
<1> USE DEF IInv, TypeOK, AckInv
<1>1. CASE UNCHANGED vars
  BY <1>1 DEF vars, bus, MemInv, ReadsLastWrite
<1>2. CASE Next
  <2>0. MemEdge /\ AckEdge /\ Witness /\ (Hold \/ IdleOrRequest)
    BY <1>2 DEF Next
  <2>1. TypeOK'
    BY <2>0 DEF MemEdge, AckEdge, Witness, Hold, IdleOrRequest, bus
  <2>2. wb_ack' = 1 => wb_stb = 1 /\ wb_ack = 0 /\ UNCHANGED bus
    BY <2>0 DEF AckEdge, Hold, IdleOrRequest
  <2>3. AckInv'
    BY <2>2 DEF bus
  <2>4. MemInv'
    <3> SUFFICES ASSUME NEW a \in Adr
                 PROVE  mem'[a] = IF wb_ack' = 1 /\ wb_we' = 1 /\ wb_adr' = a
                                  THEN wb_dat_w' ELSE written'[a]
      BY DEF MemInv
    <3>1. mem[a] = IF wb_ack = 1 /\ wb_we = 1 /\ wb_adr = a
                   THEN wb_dat_w ELSE written[a]
      BY DEF MemInv
    <3>2. CASE wb_ack = 1
      BY <3>1, <3>2, <2>0, <2>2 DEF MemEdge, wr_en, Witness
    <3>3. CASE wb_ack = 0 /\ wb_stb = 1
      BY <3>1, <3>3, <2>0 DEF MemEdge, wr_en, Witness, AckEdge, Hold, IdleOrRequest, bus
    <3>4. CASE wb_ack = 0 /\ wb_stb = 0
      BY <3>1, <3>4, <2>0, <2>2 DEF MemEdge, wr_en, Witness
    <3> QED BY <3>2, <3>3, <3>4
  <2>5. ReadsLastWrite'
    BY <2>0, <2>2 DEF ReadsLastWrite, MemInv, MemEdge, Witness, bus
  <2> QED BY <2>1, <2>3, <2>4, <2>5
<1> QED BY <1>1, <1>2

(* A read always returns the last completed write to its word.              *)
THEOREM EchoCorrect == Spec => [](ReadsLastWrite /\ MemInv)
<1>1. Init => IInv
  BY EchoAssumption DEF Init, IInv, TypeOK, AckInv, MemInv, ReadsLastWrite, Adr
<1>2. IInv => ReadsLastWrite /\ MemInv
  BY DEF IInv
<1> QED BY <1>1, <1>2, EchoInductive, PTL DEF Spec
=============================================================================
