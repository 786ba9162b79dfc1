----------------------------- MODULE MCSATSlave -----------------------------
(* Two clauses of one literal, and a master that writes every kind of          *)
(* register, reads the results and hits unmapped addresses, in any order.    *)
EXTENDS SATSlave

MCRequests ==
  {<<1, AdrCtrl, d>> : d \in 0..1} \cup {<<1, AdrVars, d>> : d \in {1, 2}}
    \cup {<<1, AdrClauses, d>> : d \in {1, 2}}
    \cup {<<1, LitBase + i, d>> : i \in 0..LitCount, d \in {0, 32, 48, 113}}
    \cup {<<0, a, 0>> : a \in {AdrCtrl, AdrModel, AdrCycles, LitBase}}
=============================================================================
