------------------------------- MODULE MacPe -------------------------------
(***************************************************************************)
(* rtl/mac_pe.v: one processing element, as operators on its registers.    *)
(* An element p is a record of registers:                                  *)
(*   shadow, active   the double-buffered weight                           *)
(*   x, vx, ws        x_out, valid_out_x, weight_shift_out                 *)
(*   y, vy            y_out, valid_out_y                                   *)
(* Its inputs are a horizontal token [v, lw, x], a vertical one [v, y],    *)
(* and the two ready wires coming back from its neighbours.                *)
(***************************************************************************)
EXTENDS Integers

CONSTANT ACC   \* number of values of an accumulator, 2^ACC_WIDTH

ASSUME AccAssumption == ACC \in Nat /\ ACC > 0 /\ ACC % 2 = 0

\* The two's complement value that ACC_WIDTH bits keep of v.
SignedAcc(v) == ((v + ACC \div 2) % ACC) - ACC \div 2

PeReset == [shadow |-> 0, active |-> 0,
            x |-> 0, vx |-> FALSE, ws |-> FALSE, y |-> 0, vy |-> FALSE]

add_out(p, xin, yin) == SignedAcc(yin.y + xin.x * p.active)

can_fire_x(p, ready_in_x) == ~(p.vx /\ ~ready_in_x)
can_fire_y(p, ready_in_y) == ~(p.vy /\ ~ready_in_y)

\* A weight token needs only the horizontal side.
fire_load(p, xin, ready_in_x) == xin.v /\ xin.lw /\ can_fire_x(p, ready_in_x)

\* Mutant: the fork of a result forgets that the element below is stalled.
fire_calc_fork(p, xin, yin, ready_in_x, ready_in_y) ==
  /\ xin.v /\ yin.v /\ ~xin.lw
  /\ can_fire_x(p, ready_in_x)

\* An activation joins the horizontal and the vertical side.
fire_calc(p, xin, yin, ready_in_x, ready_in_y) ==
  /\ xin.v /\ yin.v /\ ~xin.lw
  /\ can_fire_x(p, ready_in_x) /\ can_fire_y(p, ready_in_y)

\* Mutant: the new weight itself is passed on.
LoadStep_through(p, xin) ==
  [p EXCEPT !.shadow = xin.x, !.x = xin.x,
            !.vx = TRUE, !.vy = FALSE, !.ws = TRUE]

\* Weights shift to the right: the old shadow weight is passed on.
LoadStep(p, xin) ==
  [p EXCEPT !.shadow = xin.x, !.x = p.shadow,
            !.vx = TRUE, !.vy = FALSE, !.ws = TRUE]

CalcStep(p, xin, yin) ==
  [p EXCEPT !.x = xin.x, !.y = add_out(p, xin, yin),
            !.vx = TRUE, !.vy = TRUE, !.ws = FALSE]

\* Mutant: a token taken by one neighbour is not retired.
DrainStep_keep(p, ready_in_x, ready_in_y) ==
  [p EXCEPT !.vx = p.vx /\ ~ready_in_x]

\* Nothing fires: tokens taken by the neighbours are retired.
DrainStep(p, ready_in_x, ready_in_y) ==
  [p EXCEPT !.vx = p.vx /\ ~ready_in_x, !.vy = p.vy /\ ~ready_in_y]

\* One clock edge.  The latch copies the shadow weight of before the edge,
\* so it takes effect together with whatever else happens.
PeStep(p, xin, yin, ready_in_x, ready_in_y, weight_latch_en) ==
  LET q == IF fire_load(p, xin, ready_in_x) THEN LoadStep(p, xin)
           ELSE IF fire_calc(p, xin, yin, ready_in_x, ready_in_y)
             THEN CalcStep(p, xin, yin)
             ELSE DrainStep(p, ready_in_x, ready_in_y)
  IN  [q EXCEPT !.active = IF weight_latch_en THEN p.shadow ELSE p.active]

============================================================================
