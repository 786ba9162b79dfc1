--------------------------- MODULE MCEchoFirmware ---------------------------
(* Two words of two bytes, each byte a bit, and all buffers that fit.        *)
EXTENDS EchoFirmware

MCBuffers == UNION { [1..n -> 0..1] : n \in 1..4 }
=============================================================================
