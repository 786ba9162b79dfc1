----------------------------- MODULE EchoSlave -----------------------------
(***************************************************************************)
(* The block RAM of soc/echo_slave.py behind its Wishbone port, one step   *)
(* per clock edge.  The master (external) holds a request until it sees    *)
(* ack, then idles or puts the next request up at once.                    *)
(***************************************************************************)
EXTENDS Integers

CONSTANTS Depth,   \* words of the memory, 512
          Word     \* what a word can hold

ASSUME EchoAssumption == Depth \in Nat \ {0} /\ 0 \in Word

Adr == 0..(Depth - 1)

VARIABLES mem, rd_data, wb_ack,              \* the slave
          wb_stb, wb_we, wb_adr, wb_dat_w,   \* the master (wb_cyc = wb_stb)
          written   \* ghost: value of the last completed write to each word

bus == <<wb_stb, wb_we, wb_adr, wb_dat_w>>
vars == <<mem, rd_data, wb_ack, bus, written>>

-----------------------------------------------------------------------------

wr_en == wb_stb = 1 /\ wb_we = 1 /\ wb_ack = 0

\* Mutant of MemEdge: a read writes too.
MemEdge_Mutant ==
  /\ mem' = IF wb_stb = 1 /\ wb_ack = 0 THEN [mem EXCEPT ![wb_adr] = wb_dat_w] ELSE mem
  /\ rd_data' = mem[wb_adr]

\* The read port latches the word as it was before the edge.
MemEdge ==
  /\ mem' = IF wr_en THEN [mem EXCEPT ![wb_adr] = wb_dat_w] ELSE mem
  /\ rd_data' = mem[wb_adr]

\* Mutant of AckEdge: a request that is held gets its ack repeated.
AckEdge_Mutant == wb_ack' = IF wb_stb = 1 THEN 1 ELSE 0

AckEdge == wb_ack' = IF wb_stb = 1 /\ wb_ack = 0 THEN 1 ELSE 0

Hold == wb_stb = 1 /\ wb_ack = 0 /\ UNCHANGED bus

\* The other lines mean nothing while wb_stb is low, and may hold anything.
IdleOrRequest ==
  /\ wb_stb = 0 \/ wb_ack = 1
  /\ wb_stb' \in 0..1
  /\ wb_we' \in 0..1 /\ wb_adr' \in Adr /\ wb_dat_w' \in Word

\* The master considers a write done when it sees its ack.
Witness ==
  written' = IF wb_ack = 1 /\ wb_stb = 1 /\ wb_we = 1
             THEN [written EXCEPT ![wb_adr] = wb_dat_w] ELSE written

Init ==
  /\ mem = [a \in Adr |-> 0] /\ rd_data = 0 /\ wb_ack = 0
  /\ wb_stb = 0 /\ wb_we = 0 /\ wb_adr = 0 /\ wb_dat_w = 0
  /\ written = mem

Next == MemEdge /\ AckEdge /\ Witness /\ (Hold \/ IdleOrRequest)

Spec == Init /\ [][Next]_vars

-----------------------------------------------------------------------------

(* Every signal holds a value of its width. *)
TypeOK ==
  /\ mem \in [Adr -> Word] /\ written \in [Adr -> Word] /\ rd_data \in Word
  /\ wb_ack \in 0..1 /\ wb_stb \in 0..1 /\ wb_we \in 0..1
  /\ wb_adr \in Adr /\ wb_dat_w \in Word

(* A read returns what was last written to that word, for requests with or  *)
(* without idle cycles between them: the word the firmware reads back is    *)
(* the word it stored.                                                      *)
ReadsLastWrite ==
  wb_ack = 1 /\ wb_we = 0 => rd_data = written[wb_adr]

(* The memory differs from what the master believes only in the word whose  *)
(* write is being acknowledged.                                             *)
MemInv ==
  \A a \in Adr :
    mem[a] = IF wb_ack = 1 /\ wb_we = 1 /\ wb_adr = a THEN wb_dat_w ELSE written[a]
=============================================================================
