---------------------------- MODULE SystolicCore ----------------------------
(***************************************************************************)
(* rtl/systolic_core.v and rtl/systolic_array.v: the N x N array with the  *)
(* input skew registers in front of its rows and the de-skew registers     *)
(* behind its columns.  All ready wires are combinational: a stall at the  *)
(* output reaches the input in the same cycle, through the array.          *)
(*                                                                         *)
(* An input beat `in' is [v, lw, x]: valid_in, load_weight_in (the same    *)
(* bit for every row, npu_unit.v) and one activation per row.              *)
(***************************************************************************)
EXTENDS MacPe

CONSTANT N

ASSUME NAssumption == N \in Nat \ {0}

VARIABLES skew,     \* skew[i][s]:   stage s of the skew pipeline of row i
          pe,       \* pe[<<i, j>>]: the array
          deskew    \* deskew[j][k]: stage k of the de-skew pipeline of column j

coreVars == <<skew, pe, deskew>>

Idx      == 0 .. N - 1
DELAY(j) == N - 1 - j

CoreReset ==
  /\ skew = [i \in Idx |-> [s \in 0 .. i - 1 |-> [v |-> FALSE, lw |-> FALSE, x |-> 0]]]
  /\ pe = [c \in Idx \X Idx |-> PeReset]
  /\ deskew = [j \in Idx |-> [k \in 0 .. DELAY(j) - 1 |-> [v |-> FALSE, y |-> 0]]]

----------------------------------------------------------------------------
(* Output side *)

\* What stands at stage k of column j's de-skew pipeline.
y_pipe(j, k) == IF k = 0 THEN [v |-> pe[<<N - 1, j>>].vy, y |-> pe[<<N - 1, j>>].y]
                         ELSE deskew[j][k - 1]

valid_out == \A j \in Idx : y_pipe(j, DELAY(j)).v
y_out     == [j \in Idx |-> y_pipe(j, DELAY(j)).y]

\* Stage k of column j can take a token: some register from k on is empty,
\* or the whole row leaves.
deskew_ready(j, k, ready_in) ==
  \/ ready_in /\ valid_out
  \/ ~y_pipe(j, DELAY(j)).v
  \/ \E m \in k .. DELAY(j) - 1 : ~deskew[j][m].v

DeskewStep(ready_in) ==
  deskew' = [j \in Idx |-> [k \in 0 .. DELAY(j) - 1 |->
    IF deskew_ready(j, k, ready_in) /\ y_pipe(j, k).v THEN y_pipe(j, k)
    ELSE IF deskew_ready(j, k + 1, ready_in) THEN [deskew[j][k] EXCEPT !.v = FALSE]
    ELSE deskew[j][k]]]

----------------------------------------------------------------------------
(* The array *)

\* What stands at stage s of row i's skew pipeline.
x_pipe(i, s, in) == IF s = 0 THEN [v |-> in.v, lw |-> in.lw, x |-> in.x[i]]
                             ELSE skew[i][s - 1]

\* The token at the left and the top of element (i, j).
x_wire(i, j, in) ==
  IF j = 0 THEN x_pipe(i, i, in)
  ELSE [v |-> pe[<<i, j - 1>>].vx, lw |-> pe[<<i, j - 1>>].ws, x |-> pe[<<i, j - 1>>].x]

y_wire(i, j) == IF i = 0 THEN [v |-> TRUE, y |-> 0]
                ELSE [v |-> pe[<<i - 1, j>>].vy, y |-> pe[<<i - 1, j>>].y]

\* Mutant: the right edge is left unconnected.
right_edge_ready_low == FALSE

\* Whatever leaves the array on the right is thrown away.
right_edge_ready == TRUE

\* ready_out_x and ready_out_y of every element, from the bottom right
\* corner; the bottom edge is the de-skewer.
ready_wires(in, ready_in) ==
  LET r[c \in Idx \X Idx] ==
        LET i == c[1]  j == c[2]
            rx == IF j = N - 1 THEN right_edge_ready ELSE r[<<i, j + 1>>].x
            ry == IF i = N - 1 THEN deskew_ready(j, 0, ready_in) ELSE r[<<i + 1, j>>].y
            calc == fire_calc(pe[c], x_wire(i, j, in), y_wire(i, j), rx, ry)
        IN  [x |-> calc \/ fire_load(pe[c], x_wire(i, j, in), rx), y |-> calc]
  IN  r

ArrayStep(in, ready_in, weight_latch_en) ==
  LET r == ready_wires(in, ready_in)
  IN  pe' = [c \in Idx \X Idx |->
        LET i == c[1]  j == c[2]
        IN  PeStep(pe[c], x_wire(i, j, in), y_wire(i, j),
                   IF j = N - 1 THEN right_edge_ready ELSE r[<<i, j + 1>>].x,
                   IF i = N - 1 THEN deskew_ready(j, 0, ready_in) ELSE r[<<i + 1, j>>].y,
                   weight_latch_en)]

----------------------------------------------------------------------------
(* Input side *)

\* Stage s of row i can take a token: some register from s on is empty, or
\* the array takes the last one (r: the array's ready wires).
skew_ready(i, s, r) == (\E m \in s .. i - 1 : ~skew[i][m].v) \/ r[<<i, 0>>].x

ready_out(in, ready_in) ==
  LET r == ready_wires(in, ready_in) IN \A i \in Idx : skew_ready(i, 0, r)

\* Every row takes the beat on its own ready, whatever the other rows do.
SkewStep(in, ready_in) ==
  LET r == ready_wires(in, ready_in)
  IN  skew' = [i \in Idx |-> [s \in 0 .. i - 1 |->
        IF skew_ready(i, s, r) /\ x_pipe(i, s, in).v THEN x_pipe(i, s, in)
        ELSE IF skew_ready(i, s + 1, r) THEN [skew[i][s] EXCEPT !.v = FALSE]
        ELSE skew[i][s]]]

CoreClock(in, ready_in, weight_latch_en) ==
  /\ SkewStep(in, ready_in)
  /\ ArrayStep(in, ready_in, weight_latch_en)
  /\ DeskewStep(ready_in)

============================================================================
