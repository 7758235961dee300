----------------------------- MODULE TimeOfDay ------------------------------
(***************************************************************************)
(* gettimeofday and settimeofday of the HAL (alt_gettod.c, alt_settod.c)   *)
(* and times (alt_times.c): wall clock time kept as an offset from the     *)
(* system clock's ticks.                                                   *)
(***************************************************************************)
EXTENDS Integers

CONSTANTS
  W,              \* values of an alt_u32
  ALT_US,         \* microseconds in a second
  tick_rate,      \* ticks per second, 0 when there is no system clock
  Uptime,         \* bound: ticks since reset, in 0..W-1
  Seconds,        \* seconds that settimeofday is called with
  Zones           \* time zones

TodAssumption ==
  /\ {W, ALT_US} \subseteq Nat \ {0} /\ tick_rate \in Nat /\ Uptime \in 0..W-1
  /\ tick_rate # 0 => ALT_US % tick_rate = 0
  /\ Seconds \subseteq Nat

VARIABLES
  nticks,         \* _alt_nticks
  reset, zone,    \* alt_resettime, alt_timezone
  ret, got,       \* what the last call returned and the time it read
  set, at         \* the time last set, and when it was, in ticks

vars == <<nticks, reset, zone, ret, got, set, at>>

Zero == [sec |-> 0, usec |-> 0]

Init ==
  /\ nticks = 0 /\ reset = Zero /\ zone \in Zones
  /\ ret = "none" /\ got = Zero /\ set = Zero /\ at = 0

\* alt_tick
Tick ==
  /\ nticks < Uptime /\ nticks' = nticks + 1
  /\ UNCHANGED <<reset, zone, ret, got, set, at>>

\* The two loops that bring the microseconds into range.  (NoBorrowBug: only
\* the second one.)
NoBorrowBug(sec, usec) ==
  [sec |-> sec + usec \div ALT_US, usec |-> IF usec < 0 THEN usec ELSE usec % ALT_US]
Normalised(sec, usec) ==
  LET borrow == -(usec \div ALT_US) IN
  IF usec < 0 /\ sec < borrow THEN Zero
  ELSE [sec |-> sec + usec \div ALT_US, usec |-> usec % ALT_US]

GettimeofdayValue ==
  Normalised(reset.sec + nticks \div tick_rate,
             reset.usec + ((nticks * (ALT_US \div tick_rate)) % ALT_US))

ALT_GETTIMEOFDAY ==
  /\ IF tick_rate = 0 THEN ret' = "ENOTSUP" /\ UNCHANGED got
     ELSE ret' = "get" /\ got' = GettimeofdayValue
  /\ UNCHANGED <<nticks, reset, zone, set, at>>

\* Here the product is taken in 32 bits.
SettimeofdayOffset(t) ==
  [sec |-> t.sec - nticks \div tick_rate,
   usec |-> t.usec - (((nticks * (ALT_US \div tick_rate)) % W) % ALT_US)]

ALT_SETTIMEOFDAY(t, tz) ==
  /\ IF tick_rate = 0 THEN ret' = "ENOSYS" /\ UNCHANGED <<reset, zone, set, at>>
     ELSE /\ ret' = "set"
          /\ reset' = SettimeofdayOffset(t) /\ zone' = tz
          /\ set' = t /\ at' = nticks
  /\ UNCHANGED <<nticks, got>>

\* The ticks since reset, charged to the system.
ALT_TIMES ==
  /\ ret' = IF tick_rate = 0 THEN "ENOSYS" ELSE "times"
  /\ got' = IF tick_rate = 0 THEN got ELSE [sec |-> nticks, usec |-> 0]
  /\ UNCHANGED <<nticks, reset, zone, set, at>>

Next ==
  \/ Tick \/ ALT_GETTIMEOFDAY \/ ALT_TIMES
  \/ \E s \in Seconds, u \in 0..ALT_US-1, tz \in Zones :
        ALT_SETTIMEOFDAY([sec |-> s, usec |-> u], tz)

Spec == Init /\ [][Next]_vars

-----------------------------------------------------------------------------
\* The time read is the time that was set plus the ticks since, to the tick and
\* in normal form: in particular settimeofday makes an immediate gettimeofday
\* return the time specified (comment of ALT_SETTIMEOFDAY).
TimeTracksTicks ==
  ret # "none" /\ tick_rate # 0 =>
    LET usec == set.usec + (nticks - at) * (ALT_US \div tick_rate)
    IN GettimeofdayValue = [sec |-> set.sec + usec \div ALT_US, usec |-> usec % ALT_US]
=============================================================================
