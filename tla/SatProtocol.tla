---------------------------- MODULE SatProtocol ----------------------------
(***************************************************************************)
(* The wire protocol between host/sat_host.py and firmware-tcp/sat_tcp.c:  *)
(* what the host writes, what the bytes of a packet mean, and how the host *)
(* reads a reply.  Bytes are integers; a formula is a number of variables  *)
(* and a sequence of clauses, a clause a sequence of non-zero integers.    *)
(***************************************************************************)
EXTENDS Integers, Sequences, FiniteSets

LOCAL Ext == INSTANCE SequencesExt

PROTO_START == 170
PROTO_END == 255
PROTO_TERM == 0
RESP_SAT == 1
RESP_UNSAT == 0

-----------------------------------------------------------------------------
(* The host's side *)

\* Mutant of LitByte: the sign is lost.
LitByte_Mutant(lit) == IF lit > 0 THEN lit % 128 ELSE (-lit) % 128

\* Bit 7 is the sign, bits 6-0 the number of the variable, from 1.
LitByte(lit) == IF lit > 0 THEN lit % 128 ELSE ((-lit) % 128) + 128

encode_packet(n_vars, clauses) ==
  LET ClauseBytes(c) ==
        [l \in 1..Len(clauses[c]) |-> LitByte(clauses[c][l])] \o <<PROTO_TERM>>
  IN  <<PROTO_START, n_vars % 256, Len(clauses) % 256>>
        \o Ext!FlattenSeq([c \in 1..Len(clauses) |-> ClauseBytes(c)])
        \o <<PROTO_END>>

\* The assignment bytes of a SAT reply are those before the end marker.
decode_response(data) ==
  LET bytes == { data[k] : k \in { m \in 2..Len(data) :
                   \A j \in 2..m : data[j] # PROTO_END } }
  IN  IF data = <<>> THEN [result |-> "TIMEOUT"]
      ELSE CASE data[1] = RESP_UNSAT -> [result |-> "UNSAT"]
             [] data[1] = RESP_SAT ->
                  [result |-> "SAT",
                   assignment |-> [v \in { b % 128 : b \in bytes } |->
                                     \E b \in bytes : b % 128 = v /\ b >= 128]]
             [] OTHER -> [result |-> "ERROR"]

\* What solve makes of the bytes that have come when it stops waiting, because
\* it has all that the first one makes it expect, because the peer has closed
\* the connection (_recv_exact then returns what there is) or on a timeout.
solve(n_vars, stream, closed) ==
  LET expected == IF stream[1] = RESP_UNSAT THEN 2
                  ELSE IF stream[1] = RESP_SAT THEN n_vars + 2 ELSE 1
  IN  IF stream = <<>> \/ (Len(stream) < expected /\ ~closed)
      THEN [result |-> "TIMEOUT"]
      ELSE decode_response(SubSeq(stream, 1, Ext!Min({expected, Len(stream)})))

\* Truth of a formula, as the user of the host means it.
FormulaHolds(clauses, v) ==
  \A c \in 1..Len(clauses) : \E l \in 1..Len(clauses[c]) :
    IF clauses[c][l] > 0 THEN v[clauses[c][l]] ELSE ~v[-clauses[c][l]]

FormulaSatisfiable(n_vars, clauses) ==
  \E v \in [1..n_vars -> BOOLEAN] : FormulaHolds(clauses, v)

-----------------------------------------------------------------------------
(* The meaning of a packet, read off its bytes without parsing in order     *)

byte(buf, k) == buf[k + 1]

Body(buf) == { k \in 3..(Len(buf) - 1) : \A j \in 3..k : byte(buf, j) # PROTO_END }

ClauseIndex(buf, k) ==
  Cardinality({ j \in Body(buf) : j < k /\ byte(buf, j) = PROTO_TERM })

LitsOf(buf, c) ==
  { k \in Body(buf) : byte(buf, k) # PROTO_TERM /\ ClauseIndex(buf, k) = c }

PacketHolds(buf, v) ==
  \A c \in 0..(byte(buf, 2) - 1) : \E k \in LitsOf(buf, c) :
    v[byte(buf, k) % 128] = (byte(buf, k) < 128)

PacketSatisfiable(buf) ==
  \E v \in [1..byte(buf, 1) -> BOOLEAN] : PacketHolds(buf, v)
=============================================================================
