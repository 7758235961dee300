---------------------------- MODULE MCSystolic ----------------------------
(* Two jobs with different weights.  The core holds 7 rows when its output *)
(* is stalled, so the 9 rows of the first job stall its input.             *)
EXTENDS SystolicBench

MCWeights == [b \in 0 .. 1 |-> [c \in Idx \X Idx |->
                IF b = 0 THEN 1 + 3 * c[1] + c[2] ELSE -(2 + c[1] + 5 * c[2])]]
MCInputs  == [b \in 0 .. 1 |-> [k \in 0 .. 8 - 4 * b |-> [i \in Idx |-> 1 + 4 * k + (7 * i) * (1 + b)]]]

============================================================================
