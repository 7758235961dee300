---------------------------- MODULE MCNpuSystem ----------------------------
(* Sessions of menu choices in which code and comments disagree; MCPrograms *)
(* has the others.  A flit of 0s is what the shift register shifts in.      *)
EXTENDS NpuSystem

MCZeroFlit == [c \in 0 .. 1 |-> 0]

Full    == [kind |-> "full", count |-> 1]
Batch   == [kind |-> "batch", count |-> 3]

\* The menu's second and third entry, one after the other.
MCMixed == { <<Full, Batch>> }

MCFull  == { <<Full>> }

============================================================================
