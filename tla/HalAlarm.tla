------------------------------ MODULE HalAlarm ------------------------------
(***************************************************************************)
(* The system clock and its alarms: the interval timer's interrupt         *)
(* (altera_avalon_timer_sc.c), alt_tick, alt_alarm_start and               *)
(* alt_alarm_stop, on a tick counter of W values (2^32 in the code) that   *)
(* rolls over.                                                             *)
(*                                                                         *)
(* alt_tick runs at interrupt level and the other operations with          *)
(* interrupts disabled, so each of those is one step; alt_tick is one step *)
(* per alarm because its callbacks change the list it walks.               *)
(***************************************************************************)
EXTENDS AltLlist

CONSTANTS
  Alarms,         \* the alarm structures of the program
  W,              \* number of values of the tick counter
  Rate,           \* ticks per second
  Delays,         \* values the program passes to alt_alarm_start
  Returns,        \* values a callback returns
  CallbackUses,   \* calls that callbacks make, subset of
                  \* {"stop self", "stop other", "stop next", "start"}
  alt_alarm_list  \* the head of the list

AlarmAssumption ==
  /\ W \in Nat \ {0, 1} /\ Rate \in Nat \ {0}
  /\ Delays \subseteq 0..W-1 /\ Returns \subseteq 0..W-1
  /\ CallbackUses \subseteq {"stop self", "stop other", "stop next", "start"}
  /\ alt_alarm_list \notin Alarms

VARIABLES
  tick_rate, nticks, \* _alt_tick_rate, _alt_nticks
  L,              \* the links of alt_alarm_list
  time, rollover, \* fields of the alarms
  to,             \* timer STATUS, TO: a period has ended
  alarm,          \* the alarm alt_tick looks at, alt_alarm_list when it is not running
  ret,            \* what the last alt_alarm_start returned
  live,           \* alarms the program considers registered
  used,           \* alarms that were started once
  left,           \* ticks until a live alarm must run
  early,          \* an alarm ran before its time
  periods         \* periods the timer has counted, modulo W

vars == <<tick_rate, nticks, L, time, rollover, to, alarm, ret, live, used,
          left, early, periods>>
ghosts == <<live, used, left, early>>

Idle == alarm = alt_alarm_list

Init ==
  /\ tick_rate = 0 /\ nticks = 0
  /\ L = EmptyList(Alarms \cup {alt_alarm_list})
  /\ time = [a \in Alarms |-> 0] /\ rollover = [a \in Alarms |-> FALSE]
  /\ to = FALSE /\ alarm = alt_alarm_list /\ ret = "none"
  /\ live = {} /\ used = {} /\ left = [a \in Alarms |-> 0] /\ early = FALSE
  /\ periods = 0

\* alt_avalon_timer_sc_init: the rate is set once and the timer runs freely.
alt_sysclk_init ==
  /\ tick_rate = 0 /\ Idle
  /\ tick_rate' = Rate
  /\ UNCHANGED <<nticks, L, time, rollover, to, alarm, ret, ghosts, periods>>

-----------------------------------------------------------------------------
(* Operations of the program.                                              *)

\* Without the flag an alarm whose time has rolled over would run at once.
\* (NoRollBug: the flag is never set.)
NoRollBug(t, now) == FALSE
RollsOver(t, now) == t < now

\* The time of an alarm that is started now, n ticks ahead.
StartTime(n) == (n + nticks + 1) % W

alt_alarm_start(a, n) ==
  LET t == StartTime(n) IN
  /\ Idle /\ a \notin live
  /\ IF tick_rate = 0
     THEN ret' = "ENOTSUP" /\ UNCHANGED <<L, time, rollover, live, used, left>>
     ELSE /\ ret' = "ok"
          /\ time' = [time EXCEPT ![a] = t]
          /\ rollover' = [rollover EXCEPT ![a] = RollsOver(t, nticks)]
          /\ L' = alt_llist_insert(L, alt_alarm_list, a)
          /\ live' = live \cup {a} /\ used' = used \cup {a}
          /\ left' = [left EXCEPT ![a] = n + 1]
  /\ UNCHANGED <<tick_rate, nticks, to, alarm, early, periods>>

StartNull ==
  /\ Idle
  /\ ret' = IF tick_rate = 0 THEN "ENOTSUP" ELSE "EINVAL"
  /\ UNCHANGED <<tick_rate, nticks, L, time, rollover, to, alarm, ghosts, periods>>

\* Also of an alarm that has stopped already.
alt_alarm_stop(a) ==
  /\ Idle /\ a \in used
  /\ L' = alt_llist_remove(L, a) /\ live' = live \ {a}
  /\ UNCHANGED <<tick_rate, nticks, time, rollover, to, alarm, ret, used, left,
                 early, periods>>

-----------------------------------------------------------------------------
(* The timer and its interrupt.                                            *)

\* Assumed: an interrupt is served before the next period ends.
HwTimeout ==
  /\ tick_rate # 0 /\ ~to
  /\ to' = TRUE /\ periods' = (periods + 1) % W
  /\ UNCHANGED <<tick_rate, nticks, L, time, rollover, alarm, ret, ghosts>>

\* alt_avalon_timer_sc_irq clears the status before alt_tick, so that a period
\* that ends meanwhile interrupts again.  (ClearLateBug: after it.)
ClearLateBug == FALSE
ClearsFirst == TRUE

\* _alt_nticks++ on an alt_u32.  (WideBug: it does not roll over.)
WideBug == nticks + 1
Incremented == (nticks + 1) % W

TickStart ==
  /\ Idle /\ to
  /\ nticks' = Incremented
  /\ alarm' = L.next[alt_alarm_list]
  /\ to' = (~ClearsFirst /\ alarm' # alt_alarm_list)
  /\ left' = [a \in Alarms |-> IF a \in live /\ left[a] > 0 THEN left[a] - 1 ELSE left[a]]
  /\ UNCHANGED <<tick_rate, L, time, rollover, ret, live, used, early, periods>>

Expired(a, roll) == time[a] <= nticks /\ ~roll

\* The alarms that the callback of a may stop: its own, the one alt_tick goes
\* on to, or another, which may have stopped before.
Stoppable(a) ==
     (IF "stop self" \in CallbackUses THEN {a} ELSE {})
  \cup (IF "stop next" \in CallbackUses THEN {L.next[a]} \cap live ELSE {})
  \cup (IF "stop other" \in CallbackUses THEN used \ {a, L.next[a]} ELSE {})
Startable == IF "start" \in CallbackUses THEN Alarms \ live ELSE {}

\* The callback returns r, with the list, the registered alarms, their times
\* and flags as the call it made has left them.
Finish(a, r, links, registered, times, flags, remaining) ==
  LET t == (times[a] + r) % W IN
  /\ early' = (early \/ left[a] # 0)
  /\ IF r = 0
     THEN L' = alt_llist_remove(links, a) /\ live' = registered \ {a} /\ time' = times
     ELSE L' = links /\ live' = registered /\ time' = [times EXCEPT ![a] = t]
  /\ rollover' = [flags EXCEPT ![a] = r # 0 /\ RollsOver(t, nticks)]
  /\ left' = [remaining EXCEPT ![a] = r]

\* Bound: a callback makes at most one call.
Callback(a, r) ==
  \/ Finish(a, r, L, live, time, rollover, left) /\ UNCHANGED <<ret, used>>
  \/ \E b \in Stoppable(a) :
       /\ Finish(a, r, alt_llist_remove(L, b), live \ {b}, time, rollover, left)
       /\ UNCHANGED <<ret, used>>
  \/ \E b \in Startable, n \in Delays :
       /\ Finish(a, r, alt_llist_insert(L, alt_alarm_list, b), live \cup {b},
                 [time EXCEPT ![b] = StartTime(n)],
                 [rollover EXCEPT ![b] = RollsOver(StartTime(n), nticks)],
                 [left EXCEPT ![b] = n + 1])
       /\ ret' = "ok" /\ used' = used \cup {b}

\* One turn of the loop.  next is read before the callback.
TickVisit ==
  LET roll == rollover[alarm] /\ nticks # 0
      next == L.next[alarm]
  IN /\ ~Idle
     /\ IF Expired(alarm, roll)
        THEN \E r \in Returns : Callback(alarm, r)
        ELSE /\ rollover' = [rollover EXCEPT ![alarm] = roll]
             /\ UNCHANGED <<L, time, ret, live, used, left, early>>
     /\ alarm' = next
     /\ to' = (to /\ (ClearsFirst \/ next # alt_alarm_list))
     /\ UNCHANGED <<tick_rate, nticks, periods>>

Next ==
  \/ alt_sysclk_init \/ StartNull \/ HwTimeout \/ TickStart \/ TickVisit
  \/ \E a \in Alarms : alt_alarm_stop(a) \/ \E n \in Delays : alt_alarm_start(a, n)

Spec == Init /\ [][Next]_vars
\* alt_tick runs to its end once entered.
FairSpec == Spec /\ WF_vars(TickVisit)

-----------------------------------------------------------------------------
(* Correctness.                                                            *)

\* The tick counter keeps to its width, and the links of the alarm list lead
\* only to alarms and to the head.
TypeOK ==
  /\ tick_rate \in {0, Rate} /\ nticks \in 0..W-1 /\ periods \in 0..W-1
  /\ L \in [next : [Alarms \cup {alt_alarm_list} -> Alarms \cup {alt_alarm_list}],
            previous : [Alarms \cup {alt_alarm_list} -> Alarms \cup {alt_alarm_list}]]
  /\ time \in [Alarms -> 0..W-1] /\ rollover \in [Alarms -> BOOLEAN]
  /\ left \in [Alarms -> 0..W]
  /\ alarm \in Alarms \cup {alt_alarm_list} /\ to \in BOOLEAN /\ early \in BOOLEAN
  /\ ret \in {"none", "ok", "EINVAL", "ENOTSUP"}
  /\ live \subseteq used /\ used \subseteq Alarms

\* Every alarm runs in the tick it was set for, not before and not after,
\* across the roll-over of the tick counter (alt_tick.c and alt_alarm_start.c,
\* the rollover flag).
RunsOnTime == ~early /\ (Idle => \A a \in live : left[a] > 0)

\* The list holds exactly the alarms the program has registered, linked both
\* ways, whatever is started or stopped, twice, from a callback or by
\* returning zero (alt_llist.h, alt_tick.c).
ListIsLive == Ring(L, alt_alarm_list, live)

\* _alt_nticks counts every period of the timer, periods that end while the
\* interrupt is being served included (altera_avalon_timer_sc.c).
TicksCounted == (nticks + (IF to THEN 1 ELSE 0)) % W = periods

\* alt_tick, which runs with interrupts disabled, reaches the end of the list
\* (alt_tick.c, the loop).  It depends on CallbackUses: next is read before
\* the callback, so one that stops the next alarm sends the loop astray.
TickEnds == ~Idle ~> Idle
=============================================================================
