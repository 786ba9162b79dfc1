-------------------------- MODULE SatFirmwareProofs --------------------------
(***************************************************************************)
(* The handshake between sat_recv and the SAT slave, proved for every      *)
(* packet, every size of engine and every timing of the CPU.               *)
(***************************************************************************)
EXTENDS SatFirmware, TLAPS

BusInv ==
  /\ wb_ack \in 0..1 /\ wb_stb \in 0..1 /\ start_r \in 0..1
  /\ i \in Nat /\ clause \in Nat /\ lit \in Nat
  /\ wb_ack = 1 => wb_stb = 1
  /\ wb_stb = 1 => Accesses /\ wb_we = Access[1] /\ wb_adr = Access[2]
                     /\ wb_dat_w = Access[3]
  /\ start_r = 1 <=> wb_ack = 1 /\ pc = "start"

EngineInv ==
  /\ running \in 0..1 /\ done_r \in 0..1 /\ sat_r \in 0..1
  /\ running = 1 => pc = "poll"
  /\ done_r = 1 => running = 0
  /\ pc \in {"poll", "ctrl", "model", "respond"} => fresh = TRUE
  /\ pc \in {"ctrl", "model", "respond"} => done_r = 1
  /\ pc \in {"model", "respond"} => ctrl = done_r + 2 * sat_r
  /\ pc = "respond" => model = model_r

(* What one edge of the engine does to its flags.                           *)
LEMMA EngineEdge ==
  ASSUME S!sat!SolverEdge, running \in 0..1, done_r \in 0..1,
         sat_r \in 0..1, start_r \in 0..1
  PROVE  /\ running' \in 0..1 /\ done_r' \in 0..1 /\ sat_r' \in 0..1
         /\ start_r = 1 => running' = 1 /\ done_r' = 0
         /\ start_r = 0 /\ running = 0 =>
              UNCHANGED <<running, done_r, sat_r, model_r>>
         /\ start_r = 0 /\ running = 1 =>
              \/ running' = 1 /\ done_r' = done_r
              \/ running' = 0 /\ done_r' = 1
BY DEF S!sat!SolverEdge, S!sat!StartEdge, S!sat!SatEdge, S!sat!UnsatEdge,
       S!sat!StepEdge, S!sat!IdleEdge, S!sat!regs

(* Registers that are not written leave the formula of the engine alone.    *)
LEMMA QuietFormula ==
  ASSUME UNCHANGED S!config PROVE UNCHANGED S!sat!formula
BY DEF S!config, S!sat!formula, S!lit_var, S!lit_neg, S!lit_used, S!reg

(* Only the write that starts the engine is a write to register 0, and the  *)
(* accesses of the polling phase are reads.                                 *)
LEMMA AccessKinds ==
  ASSUME BusInv, wb_stb = 1
  PROVE  /\ wb_we = 1 /\ wb_adr = 0 => pc = "start"
         /\ pc \in {"poll", "ctrl"} => wb_we = 0 /\ wb_adr = 0
         /\ pc = "model" => wb_we = 0 /\ wb_adr = 3
         /\ pc # "respond" /\ pc # "wait"
<1>1. S!LitBase + i # 0 /\ S!LitBase + clause * ClauseLen + lit # 0
  <2>1. clause * ClauseLen \in Nat
    BY PacketsAssumption DEF BusInv
  <2> QED BY <2>1 DEF BusInv, S!LitBase
<1>2. Accesses /\ wb_we = Access[1] /\ wb_adr = Access[2]
  BY DEF BusInv
<1>3. pc \in {"clear", "parse", "vars", "clauses", "start", "poll", "ctrl", "model"}
  BY <1>2 DEF Accesses
<1> QED BY <1>1, <1>2, <1>3
        DEF Access, S!AdrVars, S!AdrClauses, S!AdrCtrl, S!AdrModel

(* The access a callback is at depends on its locals only.                  *)
LEMMA SameAccess ==
  ASSUME UNCHANGED fw PROVE Accesses' = Accesses /\ Access' = Access
<1>1. UNCHANGED <<pc, buf, i, pos, clause, lit>>
  BY DEF fw, locals
<1>2. AtLiteral' = AtLiteral
  BY <1>1 DEF AtLiteral, ParseMore, total, n_clauses
<1>3. Access' = Access
  BY <1>1, Zenon DEF Access, n_vars, n_clauses
<1> QED BY <1>1, <1>2, <1>3 DEF Accesses

(* Completing an access, or a step between two, keeps the counters natural. *)
LEMMA LocalsNat ==
  ASSUME BusInv, UNCHANGED fw \/ Complete \/ Local
  PROVE  i' \in Nat /\ clause' \in Nat /\ lit' \in Nat
<1> USE DEF BusInv, locals, fw
<1>1. CASE UNCHANGED fw
  BY <1>1
<1>2. CASE Complete
  BY <1>2 DEF Complete, ClearNext, LiteralNext, WriteNext, PollNext, CtrlNext,
              ModelNext
<1>3. CASE Local
  <2>1. CASE Receive
    BY <2>1 DEF Receive
  <2>2. CASE ClearDone \/ ParseDone
    BY <2>2 DEF ClearDone, ParseDone
  <2>3. CASE Terminator
    BY <2>3 DEF Terminator
  <2>4. CASE Surplus
    BY <2>4 DEF Surplus
  <2>5. CASE Respond
    BY <2>5 DEF Respond
  <2> QED BY <1>3, <2>1, <2>2, <2>3, <2>4, <2>5 DEF Local
<1> QED BY <1>1, <1>2, <1>3

(* The bus part of the invariant survives every edge.                       *)
LEMMA BusInductive == BusInv /\ [Next]_vars => BusInv'
<1> SUFFICES ASSUME BusInv, [Next]_vars PROVE BusInv'
  OBVIOUS
<1>u. CASE UNCHANGED vars
  <2>1. UNCHANGED <<wb_stb, wb_we, wb_adr, wb_dat_w, wb_ack, start_r, fw>>
    BY <1>u DEF vars, S!vars, S!slave, S!bus
  <2> QED BY <2>1, SameAccess DEF BusInv, fw, locals
<1>n. CASE Next
  <2>0. S!AckEdge /\ S!StartEdge /\ CpuEdge
    BY <1>n DEF Next, S!SlaveEdge
  <2>1. wb_ack' \in 0..1 /\ (wb_ack' = 1 <=> wb_stb = 1 /\ wb_ack = 0)
    BY <2>0 DEF S!AckEdge
  <2>2. /\ start_r' \in 0..1
        /\ start_r' = 1 <=> wb_stb = 1 /\ wb_ack = 0 /\ pc = "start"
    <3>1. CASE S!active_write /\ wb_adr = S!AdrCtrl
      <4>1. wb_stb = 1 /\ wb_ack = 0 /\ pc = "start"
        BY <3>1, AccessKinds DEF S!active_write, S!AdrCtrl
      <4>2. wb_dat_w = 1
        BY <4>1 DEF BusInv, Access
      <4> QED BY <4>1, <4>2, <3>1, <2>0 DEF S!StartEdge
    <3>2. CASE ~(S!active_write /\ wb_adr = S!AdrCtrl)
      <4>1. start_r' = 0
        BY <3>2, <2>0 DEF S!StartEdge
      <4>2. ~(wb_stb = 1 /\ wb_ack = 0 /\ pc = "start")
        BY <3>2 DEF BusInv, Access, S!active_write
      <4> QED BY <4>1, <4>2
    <3> QED BY <3>1, <3>2
  <2>3. CASE S!Hold /\ UNCHANGED fw
    <3>1. UNCHANGED <<wb_stb, wb_we, wb_adr, wb_dat_w>> /\ wb_stb = 1
      BY <2>3 DEF S!Hold, S!bus
    <3> QED BY <2>1, <2>2, <2>3, <3>1, SameAccess DEF BusInv, fw, locals
  <2>4. ASSUME wb_stb = 0 \/ wb_ack = 1, S!Idle \/ Issue,
               UNCHANGED fw \/ Complete \/ Local
        PROVE  BusInv'
    <3>1. wb_ack' = 0 /\ start_r' = 0
      BY <2>1, <2>2, <2>4 DEF BusInv
    <3>2. wb_stb' \in 0..1
      BY <2>4 DEF S!Idle, Issue, S!Request
    <3>3. wb_stb' = 1 => /\ Accesses' /\ wb_we' = Access'[1]
                         /\ wb_adr' = Access'[2] /\ wb_dat_w' = Access'[3]
      BY <2>4 DEF S!Idle, Issue, S!Request
    <3>4. i' \in Nat /\ clause' \in Nat /\ lit' \in Nat
      BY <2>4, LocalsNat
    <3> QED BY <3>1, <3>2, <3>3, <3>4 DEF BusInv
  <2> QED BY <2>0, <2>3, <2>4 DEF CpuEdge
<1> QED BY <1>u, <1>n

(* Where the callback goes from the write that starts the engine on, and    *)
(* that it gets there no other way.                                         *)
LEMMA CpuMoves ==
  ASSUME BusInv, CpuEdge
  PROVE  /\ pc = "start" => pc' = IF wb_ack = 1 THEN "poll" ELSE "start"
         /\ pc = "poll" =>
              pc' = IF wb_ack = 1 /\ S!wb_dat_r % 2 = 1 THEN "ctrl" ELSE "poll"
         /\ pc = "ctrl" => \/ wb_ack = 1 /\ pc' = "model" /\ ctrl' = S!wb_dat_r
                           \/ wb_ack = 0 /\ pc' = "ctrl"
         /\ pc = "model" => /\ ctrl' = ctrl
                            /\ \/ /\ wb_ack = 1 /\ pc' = "respond"
                                  /\ model' = S!wb_dat_r
                               \/ wb_ack = 0 /\ pc' = "model"
         /\ pc = "respond" => pc' = "wait" \/ UNCHANGED <<pc, ctrl, model>>
         /\ pc \notin {"start", "poll", "ctrl", "model", "respond"} =>
              pc' \notin {"poll", "ctrl", "model", "respond"}
<1>0. wb_ack = 0 \/ (wb_ack = 1 /\ wb_stb = 1)
  BY DEF BusInv
<1>1. CASE wb_ack = 0 /\ UNCHANGED fw
  BY <1>1 DEF fw, locals
<1>2. CASE wb_ack = 1 /\ Complete
  <2> USE <1>2 DEF locals
  <2>1. CASE ClearNext \/ LiteralNext
    BY <2>1 DEF ClearNext, LiteralNext
  <2>2. CASE WriteNext
    BY <2>2 DEF WriteNext
  <2>3. CASE PollNext
    BY <2>3 DEF PollNext
  <2>4. CASE CtrlNext
    BY <2>4 DEF CtrlNext
  <2>5. CASE ModelNext
    BY <2>5 DEF ModelNext
  <2> QED BY <2>1, <2>2, <2>3, <2>4, <2>5 DEF Complete
<1>3. CASE wb_ack = 0 /\ Local
  BY <1>3 DEF Local, Receive, ClearDone, Terminator, Surplus, ParseDone,
              Respond, locals
<1> QED BY <1>0, <1>1, <1>2, <1>3 DEF CpuEdge, S!Hold

(* The engine part of the invariant: a start is a pulse in the ack cycle of *)
(* the write, so done is already clear when the first poll is answered.     *)
LEMMA EngineInductive == BusInv /\ EngineInv /\ [Next]_vars => EngineInv'
<1> SUFFICES ASSUME BusInv, EngineInv, [Next]_vars PROVE EngineInv'
  OBVIOUS
<1>u. CASE UNCHANGED vars
  <2>1. UNCHANGED <<running, done_r, sat_r, model_r, fresh, pc, ctrl, model>>
    BY <1>u DEF vars, S!vars, S!engine, fw, locals
  <2> QED BY <2>1 DEF EngineInv
<1>n. CASE Next
  <2>0. S!WriteEdge /\ S!sat!SolverEdge /\ S!sat!Witness /\ CpuEdge
    BY <1>n DEF Next, S!SlaveEdge
  <2>1. /\ running' \in 0..1 /\ done_r' \in 0..1 /\ sat_r' \in 0..1
        /\ start_r = 1 => running' = 1 /\ done_r' = 0
        /\ start_r = 0 /\ running = 0 =>
             UNCHANGED <<running, done_r, sat_r, model_r>>
        /\ start_r = 0 /\ running = 1 =>
             \/ running' = 1 /\ done_r' = done_r
             \/ running' = 0 /\ done_r' = 1
    BY <2>0, EngineEdge DEF BusInv, EngineInv
  <2>2. start_r \in 0..1 /\ (start_r = 1 <=> wb_ack = 1 /\ pc = "start")
    BY DEF BusInv
  <2>3. /\ wb_ack = 1 /\ pc \in {"poll", "ctrl"} => S!wb_dat_r = done_r + 2 * sat_r
        /\ wb_ack = 1 /\ pc = "model" => S!wb_dat_r = model_r
    <3>1. wb_ack = 1 => wb_stb = 1
      BY DEF BusInv
    <3> QED BY <3>1, AccessKinds DEF S!wb_dat_r, S!AdrCtrl, S!AdrModel, S!AdrCycles
  <2>4. (done_r + 2 * sat_r) % 2 = done_r
    BY DEF EngineInv
  <2>5. pc' \in {"poll", "ctrl", "model", "respond"} => fresh' = TRUE
    <3>w. fresh' = (start_r = 1 \/ (fresh /\ S!sat!formula' = S!sat!formula))
      BY <2>0 DEF S!sat!Witness
    <3>1. CASE start_r = 1
      BY <3>1, <3>w, Zenon
    <3>2. CASE pc \in {"poll", "ctrl", "model", "respond"}
      <4>1. ~S!active_write
        BY <3>2, AccessKinds DEF S!active_write
      <4>2. S!sat!formula' = S!sat!formula
        BY <4>1, <2>0, QuietFormula DEF S!WriteEdge
      <4>3. fresh = TRUE
        BY <3>2 DEF EngineInv
      <4> QED BY <4>2, <4>3, <3>w, Zenon
    <3>3. CASE start_r # 1 /\ pc \notin {"poll", "ctrl", "model", "respond"}
      BY <3>3, <2>0, <2>2, CpuMoves DEF BusInv
    <3> QED BY <3>1, <3>2, <3>3
  <2>6. running' = 1 => pc' = "poll"
    <3>1. CASE start_r = 1
      BY <3>1, <2>0, <2>2, CpuMoves
    <3>2. CASE start_r # 1 /\ running = 1
      BY <3>2, <2>0, <2>3, <2>4, CpuMoves DEF EngineInv
    <3>3. CASE start_r # 1 /\ running # 1
      BY <3>3, <2>1, <2>2 DEF EngineInv
    <3> QED BY <3>1, <3>2, <3>3
  <2>7. done_r' = 1 => running' = 0
    BY <2>1, <2>2 DEF EngineInv
  <2>8. pc' \in {"ctrl", "model", "respond"} =>
          /\ done_r = 1 /\ UNCHANGED <<running, done_r, sat_r, model_r>>
    <3> SUFFICES ASSUME pc' \in {"ctrl", "model", "respond"}
                 PROVE  done_r = 1 /\ UNCHANGED <<running, done_r, sat_r, model_r>>
      OBVIOUS
    <3>1. pc \in {"poll", "ctrl", "model", "respond"}
      BY <2>0, CpuMoves
    <3>2. done_r = 1
      BY <3>1, <2>0, <2>3, <2>4, CpuMoves DEF EngineInv
    <3> QED BY <3>1, <3>2, <2>1, <2>2 DEF EngineInv
  <2>9. /\ pc' \in {"model", "respond"} => ctrl' = done_r + 2 * sat_r
        /\ pc' = "respond" => model' = model_r
    BY <2>0, <2>3, CpuMoves DEF EngineInv
  <2> QED BY <2>1, <2>5, <2>6, <2>7, <2>8, <2>9 DEF EngineInv
<1> QED BY <1>u, <1>n

(* The callback reads the result of its own start: whatever the packets,    *)
(* the sizes and the timing of the CPU, the engine runs only while it is    *)
(* polled, on an untouched formula, and both reads after the poll see the   *)
(* same finished search.                                                    *)
THEOREM HandshakeCorrect == Spec => [](RunsOnlyWhilePolled /\ ReadsOwnResult)
<1>1. Init => BusInv
  BY DEF Init, S!Init, S!SlaveInit, S!BusInit, BusInv
<1>2. Init => EngineInv
  BY DEF Init, S!Init, S!SlaveInit, EngineInv
<1>3. BusInv /\ EngineInv => RunsOnlyWhilePolled /\ ReadsOwnResult
  <2> SUFFICES ASSUME BusInv, EngineInv PROVE RunsOnlyWhilePolled /\ ReadsOwnResult
    OBVIOUS
  <2>1. RunsOnlyWhilePolled
    BY DEF EngineInv, RunsOnlyWhilePolled
  <2>2. ReadsOwnResult
    BY DEF BusInv, EngineInv, ReadsOwnResult
  <2> QED BY <2>1, <2>2
<1> QED BY <1>1, <1>2, <1>3, BusInductive, EngineInductive, PTL DEF Spec
=============================================================================
