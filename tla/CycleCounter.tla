---------------------------- MODULE CycleCounter ----------------------------
(***************************************************************************)
(* Clock cycles from the interval timer: get_total_cycles of               *)
(* software/npu/common.c, which combines the tick count that the timer's   *)
(* interrupt advances with a snapshot of the counter, and alt_timestamp of *)
(* altera_avalon_timer_ts.c, which reads a timer that counts one period    *)
(* only.  The counter counts down from P - 1 (49999) and is read in halves *)
(* of H values (2^16).                                                     *)
(***************************************************************************)
EXTENDS Naturals

CONSTANTS
  P,              \* cycles in a period
  H,              \* values of a half of a snapshot
  W,              \* values of the tick counter (2^32)
  Freq,           \* altera_avalon_timer_ts_freq, 0 when there is none
  Span            \* bound: cycles that pass during one call, less than
                  \* the tick count takes to come round

CounterAssumption ==
  /\ {P, H, W} \subseteq Nat \ {0} /\ Freq \in Nat /\ Span \in 0..P * (W - 2)

VARIABLES
  counter, snap, cont, running, to, \* the timer's registers
  nticks,         \* _alt_nticks
  late,           \* the processor has taken a step since the interrupt came
  pc, t1, low, high, ret, \* the call in progress and its result
  now, since      \* cycles since reset, modulo P * W, and since the call

hwVars == <<counter, snap, cont, running, to>>
callVars == <<pc, t1, low, high, ret>>
vars == <<hwVars, nticks, late, callVars, now, since>>

\* After alt_avalon_timer_sc_init: interrupts, continuous, started.
Init ==
  /\ counter = P - 1 /\ snap = 0 /\ cont = TRUE /\ running = TRUE /\ to = FALSE
  /\ nticks = 0 /\ late = FALSE
  /\ pc = "idle" /\ t1 = 0 /\ low = 0 /\ high = 0 /\ ret = 0
  /\ now = 0 /\ since = 0

\* A cycle of the timer.  At zero it reloads, sets TO and, unless CONT is set,
\* stops.  An interrupt is served before another period ends.
HwCycle ==
  /\ running /\ ~(counter = 0 /\ to)
  /\ pc = "idle" \/ since < Span
  /\ counter' = IF counter = 0 THEN P - 1 ELSE counter - 1
  /\ to' = (to \/ counter = 0)
  /\ running' = (counter # 0 \/ cont)
  /\ now' = (now + 1) % (P * W)
  /\ since' = IF pc = "idle" THEN 0 ELSE since + 1
  /\ UNCHANGED <<snap, cont, nticks, late, callVars>>

\* The interrupt, with CONT set: alt_avalon_timer_sc_irq and alt_tick.
Interrupt ==
  /\ to /\ cont
  /\ to' = FALSE /\ late' = FALSE
  /\ nticks' = (nticks + 1) % W
  /\ UNCHANGED <<counter, snap, cont, running, callVars, now, since>>

\* A step of the program.  The system clock's interrupt is enabled: once it is
\* pending, only the instruction being executed is completed before it is taken.
Step == (cont /\ to => ~late) /\ late' = (cont /\ to)

-----------------------------------------------------------------------------
(* get_total_cycles.                                                       *)

ReadT1 ==
  /\ pc \in {"idle", "t1"} /\ cont /\ Step
  /\ t1' = nticks /\ pc' = "snap"
  /\ since' = IF pc = "idle" THEN 0 ELSE since
  /\ UNCHANGED <<hwVars, nticks, low, high, ret, now>>

\* Writing SNAPL copies the counter.
Snapshot == counter

TakeSnap ==
  /\ pc = "snap" /\ Step
  /\ snap' = Snapshot /\ pc' = "low"
  /\ UNCHANGED <<counter, cont, running, to, nticks, t1, low, high, ret, now, since>>

ReadLow ==
  /\ pc = "low" /\ Step
  /\ low' = snap % H /\ pc' = "high"
  /\ UNCHANGED <<hwVars, nticks, t1, high, ret, now, since>>

ReadHigh ==
  /\ pc = "high" /\ Step
  /\ high' = snap \div H /\ pc' = "t2"
  /\ UNCHANGED <<hwVars, nticks, t1, low, ret, now, since>>

\* The loop ends when no tick was counted around the snapshot.  (OnceBug: the
\* loop is left out.)
OnceBug == TRUE
SameTick == t1 = nticks

Cycles(t) == t * P + (P - 1 - (high * H + low))

ReadT2 ==
  /\ pc = "t2" /\ cont /\ Step
  /\ IF SameTick
     THEN pc' = "done" /\ ret' = Cycles(t1)
     ELSE pc' = "t1" /\ UNCHANGED ret
  /\ UNCHANGED <<hwVars, nticks, t1, low, high, now, since>>

Return ==
  /\ pc = "done" /\ Step
  /\ pc' = "idle" /\ since' = 0
  /\ UNCHANGED <<hwVars, nticks, t1, low, high, ret, now>>

-----------------------------------------------------------------------------
(* The timestamp driver, for a timer that is not the system clock.         *)

\* The period is set to full scale and the timer started without CONT.
alt_timestamp_start ==
  /\ Freq # 0 /\ pc = "idle" /\ nticks = 0 /\ ~to
  /\ counter' = P - 1 /\ running' = TRUE /\ cont' = FALSE /\ now' = 0
  /\ UNCHANGED <<snap, to, nticks, late, callVars, since>>

\* Its snapshot is read by the same two half reads as above.
ReadTimestamp ==
  /\ pc = "idle" /\ ~cont
  /\ snap' = Snapshot
  /\ pc' = "low"
  /\ UNCHANGED <<counter, cont, running, to, nticks, late, t1, low, high, ret, now, since>>

alt_timestamp ==
  /\ pc = "t2" /\ ~cont
  /\ ret' = Cycles(0)
  /\ pc' = "done"
  /\ UNCHANGED <<hwVars, nticks, late, t1, low, high, now, since>>

Next ==
  \/ HwCycle \/ Interrupt
  \/ ReadT1 \/ TakeSnap \/ ReadLow \/ ReadHigh \/ ReadT2 \/ Return
  \/ alt_timestamp_start \/ ReadTimestamp \/ alt_timestamp

Spec == Init /\ [][Next]_vars

-----------------------------------------------------------------------------
(* Correctness.                                                            *)

\* The counter stays within its period, the ticks within their width, and
\* what get_total_cycles has read within the ranges of the registers.
TypeOK ==
  /\ counter \in 0..P-1 /\ snap \in 0..P-1 /\ nticks \in 0..W-1
  /\ {cont, running, to, late} \subseteq BOOLEAN
  /\ pc \in {"idle", "t1", "snap", "low", "high", "t2", "done"}
  /\ t1 \in 0..W-1 /\ low \in 0..H-1 /\ high \in 0..P-1
  /\ ret \in 0..P*W-1 /\ now \in 0..P*W-1 /\ since \in 0..Span

\* The result is the number of cycles at some moment of the call: it never runs
\* backwards and never misses a period, although the tick count is advanced by
\* an interrupt and the counter is read in two halves (common.c,
\* get_total_cycles; alt_timestamp, before the end of its period).
CyclesExact ==
  pc = "done" /\ (cont \/ ~to) => \E d \in 0..since : (ret + d) % (P * W) = now
=============================================================================
