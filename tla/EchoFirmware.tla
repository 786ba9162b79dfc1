---------------------------- MODULE EchoFirmware ----------------------------
(***************************************************************************)
(* echo_through_slave of firmware-tcp/echo_tcp.c as the master of the      *)
(* EchoSlave's bus: a buffer of bytes goes into the memory word by word    *)
(* and comes back, one step per clock edge, the CPU taking any number of   *)
(* cycles between two accesses.  The last word of a buffer may be partial. *)
(***************************************************************************)
EXTENDS EchoSlave, Sequences

CONSTANTS WordBytes,   \* sizeof(w), 4
          Radix,       \* values of a byte, 256
          Buffers      \* what the callback passes in

ASSUME FirmwareAssumption ==
  /\ WordBytes \in Nat \ {0} /\ Radix \in Nat \ {0}
  /\ Word = 0..(Radix^WordBytes - 1)
  /\ Buffers \subseteq Seq(0..(Radix - 1))
  /\ \A b \in Buffers : Len(b) \in 1..(Depth * WordBytes)

VARIABLES pc,        \* "idle", "write" or "read": which loop the call is in
          in, out,   \* its buffers
          i          \* the counter of either loop

cpu == <<pc, in, out, i>>
fwvars == <<vars, cpu>>

\* Mutant of words: a partial last word is not counted.
words_Mutant == Len(in) \div WordBytes

words == (Len(in) + WordBytes - 1) \div WordBytes

\* Bytes of word k that belong to the buffer.
Chunk(k) ==
  LET rest == Len(in) - k * WordBytes
  IN  IF rest >= WordBytes THEN WordBytes ELSE rest

\* Byte j of a word, from the least significant one as memcpy has it here.
WordByte(w, j) == (w \div Radix^j) % Radix

\* unsigned int w = 0; memcpy(&w, in + k * 4, ...)
LoadWord(k) ==
  CHOOSE w \in Word : \A j \in 0..(WordBytes - 1) :
    WordByte(w, j) = IF j < Chunk(k) THEN in[k * WordBytes + j + 1] ELSE 0

\* Mutant of Access: offsets count from one.
Access_Mutant == IF pc = "write" THEN <<1, i + 1, LoadWord(i)>> ELSE <<0, i + 1, 0>>

\* slave_write(i, w) and slave_read(i): <<we, adr, dat>>.
Access == IF pc = "write" THEN <<1, i, LoadWord(i)>> ELSE <<0, i, 0>>

-----------------------------------------------------------------------------
(* Steps of the CPU *)

Call == \E b \in Buffers :
  /\ wb_stb = 0 /\ pc = "idle"
  /\ pc' = "write" /\ in' = b /\ out' = <<>> /\ i' = 0

\* Mutant of WriteDone: the counter of the write loop stands still.
WriteDone_Mutant ==
  /\ wb_stb = 1 /\ wb_ack = 1 /\ pc = "write"
  /\ IF i + 1 < words THEN pc' = pc /\ i' = i ELSE pc' = "read" /\ i' = 0
  /\ UNCHANGED <<in, out>>

WriteDone ==
  /\ wb_stb = 1 /\ wb_ack = 1 /\ pc = "write"
  /\ IF i + 1 < words THEN pc' = pc /\ i' = i + 1 ELSE pc' = "read" /\ i' = 0
  /\ UNCHANGED <<in, out>>

ReadDone ==
  /\ wb_stb = 1 /\ wb_ack = 1 /\ pc = "read"
  /\ out' = out \o [j \in 1..Chunk(i) |-> WordByte(rd_data, j - 1)]
  /\ i' = i + 1
  /\ pc' = IF i + 1 < words THEN pc ELSE "idle"
  /\ UNCHANGED in

Between == wb_stb = 0 /\ UNCHANGED cpu

\* The bus after a step: quiet, or with the next access of the loop on it.
Quiet == wb_stb' = 0 /\ UNCHANGED <<wb_we, wb_adr, wb_dat_w>>

Issue ==
  /\ pc' # "idle" /\ wb_stb' = 1
  /\ wb_we' = Access'[1] /\ wb_adr' = Access'[2] /\ wb_dat_w' = Access'[3]

CpuEdge ==
  \/ Hold /\ UNCHANGED cpu
  \/ (Call \/ WriteDone \/ ReadDone \/ Between) /\ (Quiet \/ Issue)

FwInit == Init /\ pc = "idle" /\ in = <<>> /\ out = <<>> /\ i = 0

FwNext == MemEdge /\ AckEdge /\ Witness /\ CpuEdge

\* During a call the clock runs and the CPU does not pause for ever; that calls
\* come is not assumed.
FwSpec ==
  /\ FwInit /\ [][FwNext]_fwvars
  /\ WF_fwvars(pc # "idle" /\ FwNext)
  /\ WF_fwvars(FwNext /\ Between /\ Issue)

-----------------------------------------------------------------------------
(* Properties *)

(* echo_through_slave returns the buffer it was given, for every length,    *)
(* partial last words included, and whatever an earlier and longer buffer   *)
(* has left in the memory.                                                  *)
EchoIdentity == pc = "idle" => out = in

(* The firmware is a master as the slave needs it, so what is proved of the *)
(* slave under any such master holds here: it keeps a request up until the  *)
(* ack, and no offset leaves the memory.                                    *)
LegalMaster == Spec

(* The call returns: no access is left without an ack.                      *)
CallReturns == pc # "idle" ~> pc = "idle"
=============================================================================
