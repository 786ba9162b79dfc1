----------------------------- MODULE MCMainLoop -----------------------------
(***************************************************************************)
(* Frames shorter than a slot, as long as one and, to be sent, too long    *)
(* for one; a clock that repeats after eight milliseconds of two ticks.    *)
(* Time passes only under light traffic.                                   *)
(***************************************************************************)
EXTENDS MainLoop

MCFrames == {<<1>>, <<2, 1>>, <<1, 1, 1>>}
MCRxFrames == {<<1>>, <<2>>, <<2, 1>>}
MCTraffic == {[rx |-> MCRxFrames, tx |-> {}, time |-> FALSE],
              [rx |-> {<<1>>}, tx |-> MCFrames, time |-> FALSE],
              [rx |-> {<<1>>}, tx |-> {}, time |-> TRUE],
              [rx |-> {}, tx |-> {<<1>>}, time |-> TRUE]}
=============================================================================
