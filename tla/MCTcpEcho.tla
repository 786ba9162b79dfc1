----------------------------- MODULE MCTcpEcho -----------------------------
(* The first client can have three samples in flight, so that tcp_write      *)
(* meets a segment it can fill; the second takes half of the heap with one;  *)
(* the third finds no pcb free while they are connected.                     *)
EXTENDS TcpEcho

ThreeClients == << <<256, 512, 512>>, <<1400>>, <<>> >>
MCTimeouts == <<2, 0, 0>>
MCInterrupted == {3}

TwoClients == << <<1400, 1400, 1400>>, <<1400, 1400, 1400>> >>
TwoTimeouts == <<2, 2>>
=============================================================================
