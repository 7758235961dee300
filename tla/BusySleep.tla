----------------------------- MODULE BusySleep ------------------------------
(***************************************************************************)
(* usleep of the HAL: alt_busy_sleep, which counts a register down in      *)
(* loops of at most INT_MAX turns.                                         *)
(***************************************************************************)
EXTENDS Integers

CONSTANTS
  W,              \* values of a register
  ALT_CPU_FREQ,   \* cycles in a second
  cycles_per_loop, \* of a turn of the loop
  US              \* microseconds in a second (1000000)

\* Turns of the loop in a microsecond, as the code computes them: rounded down.
PerUs == ALT_CPU_FREQ \div (cycles_per_loop * US)
INT_MAX == W \div 2 - 1
BigUs == INT_MAX \div PerUs \* microseconds of a full loop

SleepAssumption ==
  /\ {W, ALT_CPU_FREQ, cycles_per_loop, US} \subseteq Nat \ {0}
  /\ PerUs \in 1..(W \div 2 - 1)

VARIABLES pc, asked, us, i, reg, turns
vars == <<pc, asked, us, i, reg, turns>>

Init == pc = "idle" /\ asked = 0 /\ us = 0 /\ i = 0 /\ reg = 0 /\ turns = 0

\* (FloorBug: one full loop too few.)
FloorBug(n) == IF n > BigUs THEN n \div BigUs - 1 ELSE 0
BigLoops(n) == n \div BigUs

\* The register that a loop counts down from.
Sleep(n) ==
  /\ pc = "idle"
  /\ asked' = n /\ us' = n /\ i' = BigLoops(n) /\ turns' = 0
  /\ IF BigLoops(n) > 0 THEN pc' = "big" /\ reg' = INT_MAX
     ELSE pc' = "bgt" /\ reg' = (n * PerUs) % W

\* addi, then bne: the loop is left at zero.
Counted == reg' = (reg - 1) % W /\ turns' = turns + 1

\* One turn of a full loop; the last one prepares the next loop.
BigTurn ==
  /\ pc = "big"
  /\ turns' = turns + 1
  /\ UNCHANGED asked
  /\ IF (reg - 1) % W # 0
     THEN reg' = (reg - 1) % W /\ UNCHANGED <<pc, us, i>>
     ELSE /\ us' = us - BigUs /\ i' = i - 1
          /\ IF i > 1 THEN pc' = "big" /\ reg' = INT_MAX
             ELSE pc' = "bne" /\ reg' = (us' * PerUs) % W

RestTurn ==
  /\ pc = "bne" /\ Counted
  /\ pc' = IF reg' # 0 THEN "bne" ELSE "done"
  /\ UNCHANGED <<asked, us, i>>

\* addi, then bgt, a signed comparison.
ShortTurn ==
  /\ pc = "bgt" /\ Counted
  /\ pc' = IF reg' \in 1..INT_MAX THEN "bgt" ELSE "done"
  /\ UNCHANGED <<asked, us, i>>

Return == pc = "done" /\ pc' = "idle" /\ UNCHANGED <<asked, us, i, reg, turns>>

Next == (\E n \in 0..W-1 : Sleep(n)) \/ BigTurn \/ RestTurn \/ ShortTurn \/ Return
Spec == Init /\ [][Next]_vars

-----------------------------------------------------------------------------
\* The cycles that are due, and those that n turns of the loop take, both in
\* units of 1/US cycle.
Due == asked * ALT_CPU_FREQ
Slept(n) == n * (cycles_per_loop * US)

\* A sleep is short by at most one turn of the loop for every microsecond that
\* was asked for, and not at all when the turns of a microsecond come out
\* even; no product or count of the loops is lost to overflow, for any
\* argument (alt_busy_sleep.c).
WithinATurn ==
  pc = "done" =>
    /\ Slept(turns + asked) >= Due
    /\ ALT_CPU_FREQ % (cycles_per_loop * US) = 0 => Slept(turns) >= Due

\* "alt_busy_sleep(1); /* delay 1us */" (altera_msgdma.c:402): a sleep lasts
\* the time that was asked for.
LongEnough == pc = "done" => Slept(turns) >= Due
=============================================================================
