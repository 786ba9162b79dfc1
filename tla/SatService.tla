----------------------------- MODULE SatService -----------------------------
(***************************************************************************)
(* What the SAT accelerator promises its client: a packet with a valid     *)
(* header is answered, with UNSAT exactly when its formula has no model    *)
(* and otherwise with some model; any other packet is ignored.  It says    *)
(* nothing of registers, clock cycles or the order of a search.            *)
(***************************************************************************)
EXTENDS SatProtocol

CONSTANTS MaxVars, MaxClauses, ClauseLen, Packets

VARIABLES buf,     \* the packet being served, or served last
          busy,    \* it has been accepted and not answered
          reply    \* the answer to buf, <<>> before there is one

svars == <<buf, busy, reply>>

Accepted(p) ==
  /\ Len(p) >= 4 /\ p[1] = PROTO_START
  /\ p[2] \in 1..MaxVars /\ p[3] \in 1..MaxClauses

\* A formula within the limits of the hardware, over its own variables.
FitsHardware(p) ==
  \A c \in 0..(byte(p, 2) - 1) :
    /\ Cardinality(LitsOf(p, c)) <= ClauseLen
    /\ \A k \in LitsOf(p, c) : byte(p, k) % 128 \in 1..byte(p, 1)

ReplyOf(p, v) ==
  <<RESP_SAT>>
    \o [n \in 1..byte(p, 1) |-> (IF v[n] THEN 128 ELSE 0) + n]
    \o <<PROTO_END>>

Unsat == <<RESP_UNSAT, PROTO_END>>

Valuations(p) == [1..byte(p, 1) -> BOOLEAN]

\* The answers the service may give.  A formula that does not fit is
\* answered too, with a verdict that means nothing.
Replies(p) ==
  IF ~FitsHardware(p)
  THEN {Unsat} \cup { ReplyOf(p, v) : v \in Valuations(p) }
  ELSE IF PacketSatisfiable(p)
       THEN { ReplyOf(p, v) : v \in { w \in Valuations(p) : PacketHolds(p, w) } }
       ELSE {Unsat}

Init == buf = <<>> /\ busy = FALSE /\ reply = <<>>

Serve == \E p \in Packets :
  /\ ~busy
  /\ buf' = p /\ reply' = <<>> /\ busy' = Accepted(p)

Answer ==
  /\ busy
  /\ busy' = FALSE /\ reply' \in Replies(buf)
  /\ UNCHANGED buf

Next == Serve \/ Answer

Spec == Init /\ [][Next]_svars

FairSpec == Spec /\ WF_svars(Answer)
=============================================================================
