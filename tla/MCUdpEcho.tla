----------------------------- MODULE MCUdpEcho -----------------------------
(* A long and a short payload, so that one can hide the tail of the other,   *)
(* and a second port that the callback must ignore.                          *)
EXTENDS UdpEcho

CONSTANTS A, B

TwoClients == {A, B}
MCPayloads == {<<1, 2>>, <<3>>}
=============================================================================
