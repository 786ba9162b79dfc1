---------------------------- MODULE SatFirmware ----------------------------
(***************************************************************************)
(* The TCP receive callback sat_recv of firmware-tcp/sat_tcp.c, running on *)
(* the CPU as the Wishbone master of SATSlave, one step per clock edge.    *)
(* The CPU may spend any number of cycles between two bus accesses.  What  *)
(* lwIP hands to the callback is a sequence of bytes of the set Packets,   *)
(* one call at a time: the main loop is single threaded.                   *)
(***************************************************************************)
EXTENDS Integers, Sequences

CONSTANTS MaxVars, MaxClauses, ClauseLen, CyclesWidth,
          BufSize,      \* sizeof(buf), 512
          Packets       \* payloads that may arrive in one receive callback

\* A packet of the largest formula, 4 + MaxClauses * (ClauseLen + 1) bytes
\* long, is never truncated by the flattening.
ASSUME PacketsAssumption ==
  /\ MaxVars \in 1..15 /\ MaxClauses \in Nat \ {0} /\ ClauseLen \in Nat \ {0}
  /\ BufSize \in Nat /\ BufSize >= 4 + MaxClauses * (ClauseLen + 1)
  /\ Packets \subseteq Seq(0..255)

VARIABLES start_r, n_vars_r, n_clauses_r, lit_regs, wb_ack,
          assignment, running, done_r, sat_r, model_r, cycles_r,
          wb_stb, wb_we, wb_adr, wb_dat_w, fresh,
          pc,           \* where sat_recv is; "wait" between two callbacks
          buf,          \* the flattened packet
          i,            \* loop counter of the clear loop
          pos,          \* index into buf, from 0 as in C
          clause, lit,
          ctrl, model,  \* values read back
          reply         \* argument of the last tcp_write; <<>> during a call

S == INSTANCE SATSlave WITH Requests <- {}
LOCAL INSTANCE SatProtocol

locals == <<buf, i, pos, clause, lit, ctrl, model, reply>>
fw == <<pc, locals>>
vars == <<S!vars, fw>>

total == Len(buf)
n_vars == byte(buf, 1)
n_clauses == byte(buf, 2)

-----------------------------------------------------------------------------
(* Bus accesses of sat_recv *)

\* uint8_t var = (b & 0x7F) - 1
var(b) == ((b % 128) - 1) % 256
neg(b) == b \div 128

\* (1u << 5) | (neg << 4) | var, the bit-wise or: bits 4 and 5 of var merge.
LitWord(b) ==
  LET v == var(b)
      v4 == (v \div 16) % 2
      v5 == (v \div 32) % 2
  IN  v - 16 * v4 - 32 * v5 + 16 * (IF neg(b) = 1 \/ v4 = 1 THEN 1 ELSE 0) + 32

\* Mutants of the parser: it trusts the packet to hold n_clauses clauses, and
\* at most ClauseLen literals in each.
ParseMore_Mutant == pos < total /\ byte(buf, pos) # PROTO_END
AtLiteral_Mutant ==
  /\ pos < total /\ clause < n_clauses
  /\ byte(buf, pos) \notin {PROTO_END, PROTO_TERM}

ParseMore == pos < total /\ clause < n_clauses /\ byte(buf, pos) # PROTO_END
AtLiteral == ParseMore /\ byte(buf, pos) # PROTO_TERM /\ lit < ClauseLen

\* Whether the CPU has a bus access to make, and which: <<we, adr, dat>>.
Accesses ==
  \/ pc \in {"vars", "clauses", "start", "poll", "ctrl", "model"}
  \/ pc = "clear" /\ i < S!LitCount
  \/ pc = "parse" /\ AtLiteral

Access ==
  CASE pc = "clear" -> <<1, S!LitBase + i, 0>>
    [] pc = "parse" ->
         <<1, S!LitBase + clause * ClauseLen + lit, LitWord(byte(buf, pos))>>
    [] pc = "vars" -> <<1, S!AdrVars, n_vars>>
    [] pc = "clauses" -> <<1, S!AdrClauses, n_clauses>>
    [] pc = "start" -> <<1, S!AdrCtrl, 1>>
    [] pc \in {"poll", "ctrl"} -> <<0, S!AdrCtrl, 0>>
    [] pc = "model" -> <<0, S!AdrModel, 0>>

-----------------------------------------------------------------------------
(* Steps of the CPU without a bus access *)

\* The pbuf chain copied into buf, which cuts a longer payload off.
Flatten(p) == SubSeq(p, 1, IF Len(p) < BufSize THEN Len(p) ELSE BufSize)

\* The callback with data: flatten, validate, and return early or go on.
Receive == \E p \in Packets :
  LET b == Flatten(p)
      ok == /\ Len(b) >= 4 /\ b[1] = PROTO_START
            /\ b[2] \in 1..MaxVars /\ b[3] \in 1..MaxClauses
  IN  /\ pc = "wait"
      /\ buf' = b /\ reply' = <<>>
      /\ i' = 0 /\ pos' = 3 /\ clause' = 0 /\ lit' = 0
      /\ pc' = IF ok THEN "clear" ELSE "wait"
      /\ UNCHANGED <<ctrl, model>>

\* Mutant of ClearDone: the last literal register is not cleared.
ClearDone_Mutant ==
  /\ pc = "clear" /\ i = S!LitCount - 1
  /\ pc' = "parse"
  /\ UNCHANGED locals

ClearDone ==
  /\ pc = "clear" /\ i = S!LitCount
  /\ pc' = "parse"
  /\ UNCHANGED locals

Terminator ==
  /\ pc = "parse" /\ ParseMore /\ byte(buf, pos) = PROTO_TERM
  /\ clause' = clause + 1 /\ lit' = 0 /\ pos' = pos + 1
  /\ UNCHANGED <<pc, buf, i, ctrl, model, reply>>

\* A literal past the last slot of its clause is dropped.
Surplus ==
  /\ pc = "parse" /\ ParseMore /\ byte(buf, pos) # PROTO_TERM /\ lit >= ClauseLen
  /\ pos' = pos + 1
  /\ UNCHANGED <<pc, buf, i, clause, lit, ctrl, model, reply>>

ParseDone ==
  /\ pc = "parse" /\ ~ParseMore
  /\ pc' = "vars"
  /\ UNCHANGED locals

\* Assignment byte of variable k + 1: bit 7 its value, bits 6-0 its number.
AssignByte(k) == 128 * ((model \div 2^k) % 2) + (k + 1)

Respond ==
  /\ pc = "respond"
  /\ reply' = IF (ctrl \div 2) % 2 = 1
              THEN <<RESP_SAT>> \o [k \in 1..n_vars |-> AssignByte(k - 1)]
                     \o <<PROTO_END>>
              ELSE <<RESP_UNSAT, PROTO_END>>
  /\ pc' = "wait"
  /\ UNCHANGED <<buf, i, pos, clause, lit, ctrl, model>>

Local == Receive \/ ClearDone \/ Terminator \/ Surplus \/ ParseDone \/ Respond

-----------------------------------------------------------------------------
(* Completion of a bus access, at the edge that sees ack *)

ClearNext ==
  /\ pc = "clear"
  /\ i' = i + 1
  /\ UNCHANGED <<pc, buf, pos, clause, lit, ctrl, model, reply>>

LiteralNext ==
  /\ pc = "parse"
  /\ lit' = lit + 1 /\ pos' = pos + 1
  /\ UNCHANGED <<pc, buf, i, clause, ctrl, model, reply>>

WriteNext ==
  /\ \/ pc = "vars" /\ pc' = "clauses"
     \/ pc = "clauses" /\ pc' = "start"
     \/ pc = "start" /\ pc' = "poll"
  /\ UNCHANGED locals

\* Mutant of PollNext: one read of CTRL is taken to be enough.
PollNext_Mutant ==
  /\ pc = "poll" /\ pc' = "ctrl"
  /\ UNCHANGED locals

PollNext ==
  /\ pc = "poll"
  /\ pc' = IF S!wb_dat_r % 2 = 1 THEN "ctrl" ELSE "poll"
  /\ UNCHANGED locals

CtrlNext ==
  /\ pc = "ctrl" /\ pc' = "model"
  /\ ctrl' = S!wb_dat_r
  /\ UNCHANGED <<buf, i, pos, clause, lit, model, reply>>

ModelNext ==
  /\ pc = "model" /\ pc' = "respond"
  /\ model' = S!wb_dat_r
  /\ UNCHANGED <<buf, i, pos, clause, lit, ctrl, reply>>

Complete ==
  \/ ClearNext \/ LiteralNext \/ WriteNext \/ PollNext \/ CtrlNext \/ ModelNext

-----------------------------------------------------------------------------
(* The CPU as bus master *)

Issue == Accesses' /\ S!Request(Access'[1], Access'[2], Access'[3])

CpuEdge ==
  \/ S!Hold /\ UNCHANGED fw
  \/ wb_stb = 1 /\ wb_ack = 1 /\ Complete /\ (S!Idle \/ Issue)
  \/ wb_stb = 0 /\ UNCHANGED fw /\ (S!Idle \/ Issue)
  \/ wb_stb = 0 /\ Local /\ S!Idle

Init ==
  /\ S!Init
  /\ pc = "wait" /\ buf = <<>> /\ reply = <<>>
  /\ i = 0 /\ pos = 3 /\ clause = 0 /\ lit = 0 /\ ctrl = 0 /\ model = 0

Next == S!SlaveEdge /\ CpuEdge

Spec == Init /\ [][Next]_vars

\* While a callback runs the clock runs and the CPU never idles for ever; that
\* packets come is not assumed.
LocalWork == ClearDone \/ Terminator \/ Surplus \/ ParseDone \/ Respond

FairSpec ==
  /\ Spec
  /\ WF_vars(pc # "wait" /\ Next)
  /\ WF_vars(S!SlaveEdge /\ wb_stb = 0 /\ UNCHANGED fw /\ Issue)
  /\ WF_vars(S!SlaveEdge /\ wb_stb = 0 /\ LocalWork /\ S!Idle)

-----------------------------------------------------------------------------
(* Properties *)

(* Types of the callback's locals. *)
TypeOK ==
  /\ pc \in {"wait", "clear", "parse", "vars", "clauses", "start", "poll",
             "ctrl", "model", "respond"}
  /\ buf \in Seq(0..255) /\ total <= BufSize
  /\ i \in 0..S!LitCount /\ pos \in Nat
  /\ clause \in 0..MaxClauses /\ lit \in 0..ClauseLen
  /\ ctrl \in 0..3 /\ model \in 0..(2^MaxVars - 1)
  /\ reply \in Seq(0..255)

(* Every write of the callback lands on a register that exists, also for    *)
(* packets with too many clauses or literals: the index of the literal      *)
(* register never leaves the array.                                         *)
WritesMapped ==
  wb_stb = 1 /\ wb_we = 1 =>
    \/ wb_adr \in {S!AdrCtrl, S!AdrVars, S!AdrClauses}
    \/ wb_adr \in S!LitBase .. (S!LitBase + S!LitCount - 1)

(* The engine only runs while the callback polls, on a formula that nothing *)
(* has touched since the start.                                             *)
RunsOnlyWhilePolled == running = 1 => pc = "poll" /\ fresh

(* The poll loop exits on the result of this packet's start and never on a  *)
(* done bit left by the packet before; ctrl and model are then read from    *)
(* the same, finished search.                                               *)
ReadsOwnResult ==
  /\ pc \in {"ctrl", "model", "respond"} =>
       done_r = 1 /\ running = 0 /\ start_r = 0 /\ fresh
  /\ pc \in {"model", "respond"} => ctrl = done_r + 2 * sat_r
  /\ pc = "respond" => model = model_r
=============================================================================
