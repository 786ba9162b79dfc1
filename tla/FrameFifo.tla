----------------------------- MODULE FrameFifo -----------------------------
(***************************************************************************)
(* What the Ethernet driver promises in each direction: frames leave it in *)
(* the order in which they entered, each one whole and unaltered.  A queue *)
(* that may lose drops the frame at its head instead of delivering it.     *)
(***************************************************************************)
EXTENDS Integers, Sequences

CONSTANTS Frames, Size, MayLose

VARIABLES q,     \* accepted and not yet delivered, oldest first
          out    \* the frame delivered last

fvars == <<q, out>>

Init == q = <<>> /\ out = <<>>

Accept == \E f \in Frames :
  Len(q) < Size /\ q' = Append(q, f) /\ UNCHANGED out

Deliver == q # <<>> /\ out' = Head(q) /\ q' = Tail(q)

Lose == MayLose /\ q # <<>> /\ q' = Tail(q) /\ UNCHANGED out

Next == Accept \/ Deliver \/ Lose

Spec == Init /\ [][Next]_fvars

FairSpec == Spec /\ WF_fvars(Deliver \/ Lose)
=============================================================================
