--------------------------- MODULE MCSatFirmware ---------------------------
(* Packets for an engine with two variables, two clauses and two literals    *)
(* per clause, arriving in any order and any number.  Bytes: 1 is x1, 129    *)
(* is its negation, 0 ends a clause, 255 the formula, 170 starts it.         *)
EXTENDS SatFirmware, SatProtocol

MCClauses == {<<1>>, <<-1>>, <<1, 2>>, <<-2, -1>>, <<-2>>}

MCFormulas ==
  {1, 2} \X ({ <<c>> : c \in MCClauses } \cup (MCClauses \X MCClauses))

\* The packet of each formula over its own variables.
MCGood ==
  [f \in { g \in MCFormulas : \A c \in 1..Len(g[2]) : \A l \in 1..Len(g[2][c]) :
             g[2][c][l] \in (-g[1])..g[1] }
     |-> encode_packet(f[1], f[2])]

MCOdd == {
  <<170, 2, 2, 1, 0, 255>>,                   \* a clause short of n_clauses
  <<170, 1, 1, 1, 129, 1, 0, 1, 0, 255>>,     \* surplus literal and clause
  <<170, 2, 2, 1, 0, 2, 0, 129, 255>>,        \* a clause too many
  <<170, 1, 1, 1, 2, 0, 255>>,                \* variable 2 of 1
  <<170, 1, 1, 24>>,                          \* variable 24, no end marker
  <<170, 2, 1, 1, 0, 0, 0, 0, 0, 0, 0, 0>>,   \* longer than the buffer
  <<170, 0, 1, 255>>, <<170, 3, 1, 255>>,     \* n_vars out of range
  <<170, 1, 3, 255>>, <<170, 1>>, <<1, 1, 1, 1>> }

MCPackets == { MCGood[f] : f \in DOMAIN MCGood } \cup MCOdd

(* Seen from the network the callback on the bus is the service of          *)
(* SatService: UNSAT exactly when the packet's formula has no model, and    *)
(* otherwise a model, one byte per variable.  Across packets: no literal,   *)
(* flag or result of an earlier formula leaks into an answer.  And every    *)
(* accepted packet is answered: the loops of the callback end.              *)
Service == INSTANCE SatService WITH
  busy <- pc # "wait", Packets <- { Flatten(p) : p \in Packets }
ImplementsService == Service!FairSpec

(* From the user's formula to the result that solve of sat_host.py returns, *)
(* through the encoding, the registers, the engine and the decoding: UNSAT  *)
(* exactly when the formula has no model, and otherwise a model of it,      *)
(* whether or not the connection is closed behind the reply.                *)
HostAnswer ==
  \A f \in DOMAIN MCGood, closed \in BOOLEAN :
    (pc = "wait" /\ buf = MCGood[f] /\ reply # <<>>) =>
    LET answer == solve(f[1], reply, closed)
    IN  IF FormulaSatisfiable(f[1], f[2])
        THEN answer.result = "SAT" /\ FormulaHolds(f[2], answer.assignment)
        ELSE answer.result = "UNSAT"
=============================================================================
