------------------------------ MODULE SATSlave ------------------------------
(***************************************************************************)
(* The Wishbone register file of soc/sat_slave.py with the engine it       *)
(* wires to its registers, one step per clock edge, driven by a bus master *)
(* (external: VexRiscv behind the SoC interconnect) that keeps a request   *)
(* up until it is acknowledged and may idle between requests.              *)
(***************************************************************************)
EXTENDS Integers

CONSTANTS MaxVars, MaxClauses, ClauseLen, CyclesWidth,
          Requests      \* what the master may put on the bus: <<we, adr, dat>>

LitBase == 8                           \* _LIT_BASE
LitCount == MaxClauses * ClauseLen     \* _LIT_COUNT

AdrCtrl == 0
AdrVars == 1
AdrClauses == 2
AdrModel == 3
AdrCycles == 4

ASSUME RequestsAssumption ==
  Requests \subseteq (0..1) \X (0..511) \X Nat

VARIABLES start_r, n_vars_r, n_clauses_r, lit_regs, wb_ack,
          assignment, running, done_r, sat_r, model_r, cycles_r,
          wb_stb, wb_we, wb_adr, wb_dat_w,   \* the master drives wb_cyc = wb_stb
          fresh                              \* ghost of BruteForceSAT

\* Wiring: reg[:4] is the variable, reg[4] the sign, reg[5] the used flag.
Clauses == 0..(MaxClauses - 1)
Slots == 0..(ClauseLen - 1)
reg(c, l) == lit_regs[c * ClauseLen + l]
lit_var == [c \in Clauses |-> [l \in Slots |-> reg(c, l) % 16]]
lit_neg == [c \in Clauses |-> [l \in Slots |-> (reg(c, l) \div 16) % 2]]
lit_used == [c \in Clauses |-> [l \in Slots |-> (reg(c, l) \div 32) % 2]]

sat == INSTANCE BruteForceSAT WITH
  VarsIn <- 0..15, ClausesIn <- 0..31,
  LitsIn <- (0..15) \X (0..1) \X (0..1),
  start <- start_r, n_vars <- n_vars_r, n_clauses <- n_clauses_r

config == <<n_vars_r, n_clauses_r, lit_regs>>
slave == <<start_r, config, wb_ack>>
engine == <<assignment, running, done_r, sat_r, model_r, cycles_r>>
bus == <<wb_stb, wb_we, wb_adr, wb_dat_w>>
vars == <<slave, engine, bus, fresh>>

-----------------------------------------------------------------------------
(* The slave *)

\* Combinational read mux.
wb_dat_r ==
  CASE wb_adr = AdrCtrl -> done_r + 2 * sat_r
    [] wb_adr = AdrModel -> model_r
    [] wb_adr = AdrCycles -> cycles_r
    [] OTHER -> 0

\* Mutant of AckEdge: a request that is still up is acknowledged again.
AckEdge_Mutant == wb_ack' = IF wb_stb = 1 THEN 1 ELSE 0

AckEdge == wb_ack' = IF wb_stb = 1 /\ wb_ack = 0 THEN 1 ELSE 0

active_write == wb_stb = 1 /\ wb_we = 1 /\ wb_ack = 0

\* Mutant of StartEdge: start does not clear itself.
StartEdge_Mutant ==
  start_r' = IF active_write /\ wb_adr = AdrCtrl THEN wb_dat_w % 2 ELSE start_r

\* start clears itself; a write to register 0 overrides the clear.
StartEdge ==
  start_r' = IF active_write /\ wb_adr = AdrCtrl THEN wb_dat_w % 2 ELSE 0

\* Mutants of WriteEdge: a literal register keeps all bits of the bus; the
\* decoder selects every literal register up to the addressed one.
WriteEdge_Wide ==
  IF ~active_write THEN UNCHANGED config ELSE
    /\ n_vars_r' = IF wb_adr = AdrVars THEN wb_dat_w % 16 ELSE n_vars_r
    /\ n_clauses_r' = IF wb_adr = AdrClauses THEN wb_dat_w % 32 ELSE n_clauses_r
    /\ lit_regs' = [i \in 0..(LitCount - 1) |->
                      IF wb_adr = LitBase + i THEN wb_dat_w ELSE lit_regs[i]]

WriteEdge_Decode ==
  IF ~active_write THEN UNCHANGED config ELSE
    /\ n_vars_r' = IF wb_adr = AdrVars THEN wb_dat_w % 16 ELSE n_vars_r
    /\ n_clauses_r' = IF wb_adr = AdrClauses THEN wb_dat_w % 32 ELSE n_clauses_r
    /\ lit_regs' = [i \in 0..(LitCount - 1) |->
                      IF wb_adr >= LitBase + i THEN wb_dat_w % 64 ELSE lit_regs[i]]

WriteEdge ==
  IF ~active_write THEN UNCHANGED config ELSE
    /\ n_vars_r' = IF wb_adr = AdrVars THEN wb_dat_w % 16 ELSE n_vars_r
    /\ n_clauses_r' = IF wb_adr = AdrClauses THEN wb_dat_w % 32 ELSE n_clauses_r
    /\ lit_regs' = [i \in 0..(LitCount - 1) |->
                      IF wb_adr = LitBase + i THEN wb_dat_w % 64 ELSE lit_regs[i]]

SlaveEdge == AckEdge /\ StartEdge /\ WriteEdge /\ sat!SolverEdge /\ sat!Witness

SlaveInit ==
  /\ start_r = 0 /\ n_vars_r = 0 /\ n_clauses_r = 0
  /\ lit_regs = [i \in 0..(LitCount - 1) |-> 0]
  /\ wb_ack = 0
  /\ assignment = 0 /\ running = 0 /\ done_r = 0 /\ sat_r = 0
  /\ model_r = 0 /\ cycles_r = 0 /\ fresh = FALSE

-----------------------------------------------------------------------------
(* The bus master *)

Idle == wb_stb' = 0 /\ UNCHANGED <<wb_we, wb_adr, wb_dat_w>>

Request(we, adr, dat) ==
  wb_stb' = 1 /\ wb_we' = we /\ wb_adr' = adr /\ wb_dat_w' = dat

Hold == wb_stb = 1 /\ wb_ack = 0 /\ UNCHANGED bus

\* The edge that sees ack ends the request; the next may follow at once.
Free == wb_stb = 0 \/ wb_ack = 1

MasterEdge ==
  \/ Hold
  \/ Free /\ Idle
  \/ Free /\ \E r \in Requests : Request(r[1], r[2], r[3])

BusInit == wb_stb = 0 /\ wb_we = 0 /\ wb_adr = 0 /\ wb_dat_w = 0

Init == SlaveInit /\ BusInit

Next == SlaveEdge /\ MasterEdge

Spec == Init /\ [][Next]_vars

-----------------------------------------------------------------------------
(* Properties *)

(* Register widths. *)
TypeOK ==
  /\ start_r \in 0..1 /\ n_vars_r \in 0..15 /\ n_clauses_r \in 0..31
  /\ lit_regs \in [0..(LitCount - 1) -> 0..63]
  /\ wb_ack \in 0..1 /\ wb_stb \in 0..1 /\ wb_we \in 0..1
  /\ wb_adr \in 0..511 /\ wb_dat_w \in Nat

(* start reaches the engine as a pulse of exactly one cycle, in the ack     *)
(* cycle of the write that raised it: the auto-clear and the write enable   *)
(* can never meet, however the master spaces its requests (Test 5).         *)
StartPulse ==
  start_r = 1 => /\ wb_ack = 1 /\ wb_stb = 1 /\ wb_we = 1
                 /\ wb_adr = AdrCtrl /\ wb_dat_w % 2 = 1

(* Every request is acknowledged once and takes effect once, also when the  *)
(* next one follows without an idle cycle: an ack rises only for a request  *)
(* that was up and unanswered at the edge and is still up beside the ack,   *)
(* so none is spurious and none outlives its request into a back-to-back    *)
(* one; and registers change only at the edge that answers a write (wb_ack  *)
(* and active_write of SATSlave).                                           *)
AckAnswersRequest ==
  [][/\ wb_ack' = 1 => wb_stb = 1 /\ wb_ack = 0 /\ UNCHANGED bus
     /\ config' # config \/ start_r' = 1 => wb_ack' = 1 /\ wb_we' = 1]_vars

(* A master that sees done on the bus sees the result of the last start it  *)
(* issued: when a read of CTRL is acknowledged no start is still on its way *)
(* to the engine, so a done bit of the previous formula cannot be sampled.  *)
NoStaleDone ==
  wb_ack = 1 /\ wb_we = 0 /\ wb_dat_r % 2 = 1 /\ wb_adr = AdrCtrl =>
    start_r = 0 /\ running = 0

(* The registers on the bus drive the engine as BruteForceSAT assumes: the  *)
(* slave is an environment of the engine, so what is proved of the engine   *)
(* holds behind the bus.                                                    *)
EngineSpec == sat!Spec
=============================================================================
