--------------------------- MODULE MCSysTimeouts ---------------------------
(* A clock that repeats after twelve milliseconds of two ticks.              *)
EXTENDS SysTimeouts
=============================================================================
