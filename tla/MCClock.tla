------------------------------ MODULE MCClock ------------------------------
(***************************************************************************)
(* Interrupts, ticks and times of the hardware abstraction layer, for one  *)
(* run of TLC.  The parts share nothing but the tick count, which only the *)
(* tick handler changes; a behaviour belongs to one part, chosen in its    *)
(* initial state, and the state of the others stays as it starts.          *)
(*                                                                         *)
(*   "irq"     HalIrq, with devices that withdraw requests                 *)
(*   "served"  HalIrq, with devices that wait until they are served        *)
(*   "alarm"   HalAlarm      "cycles"  CycleCounter                        *)
(*   "tod"     TimeOfDay     "sleep"   BusySleep                           *)
(***************************************************************************)
EXTENDS HalIrq

Served == INSTANCE HalIrq WITH Glitches <- FALSE, MaxRaises <- 1

CONSTANTS
  Alarms, alt_alarm_list, AlarmW, Rate, Delays, Returns,
  P, H, CycleW, Freq, Span,
  TodW, ALT_US, tod_rate, Uptime, Seconds, Zones,
  SleepW, ALT_CPU_FREQ, cycles_per_loop, US

VARIABLES
  part,
  tick_rate, nticks, L, time, rollover, to, alarm, a_ret, live, used, a_left, early, periods,
  counter, snap, cont, running, c_to, c_nticks, late, pc, t1, low, high, ret, now, since,
  t_nticks, reset, zone, t_ret, got, set, at,
  s_pc, asked, us, i, reg, turns

\* Callbacks stop and start any alarm but the one alt_tick goes on to.
Alarm == INSTANCE HalAlarm WITH
  W <- AlarmW, CallbackUses <- {"stop self", "stop other", "start"},
  ret <- a_ret, left <- a_left
Cycles == INSTANCE CycleCounter WITH W <- CycleW, to <- c_to, nticks <- c_nticks
Tod == INSTANCE TimeOfDay WITH W <- TodW, tick_rate <- tod_rate, nticks <- t_nticks, ret <- t_ret
Sleep == INSTANCE BusySleep WITH W <- SleepW, pc <- s_pc

\* Every delay but the largest, with which an alarm runs at once.
ASSUME AlarmsAssumption == Alarm!AlarmAssumption /\ Delays \subseteq 0 .. AlarmW - 2
ASSUME CyclesAssumption == Cycles!CounterAssumption
\* Up to where the 32-bit product of settimeofday overflows.
ASSUME TimesAssumption ==
  Tod!TodAssumption /\ (tod_rate # 0 => Uptime * (ALT_US \div tod_rate) < TodW)
ASSUME SleepsAssumption == Sleep!SleepAssumption

alarmVars == <<tick_rate, nticks, L, time, rollover, to, alarm, a_ret, live, used,
               a_left, early, periods>>
cycleVars == <<counter, snap, cont, running, c_to, c_nticks, late, pc, t1, low, high,
               ret, now, since>>
todVars == <<t_nticks, reset, zone, t_ret, got, set, at>>
sleepVars == <<s_pc, asked, us, i, reg, turns>>
clockVars == <<vars, part, alarmVars, cycleVars, todVars, sleepVars>>

ClockInit ==
  /\ part \in {"irq", "served", "alarm", "cycles", "tod", "sleep"}
  /\ IF part = "served" THEN Served!Init ELSE Init
  /\ part \notin {"irq", "served"} => ienable = {} /\ lines = {}
  /\ Alarm!Init /\ Cycles!Init /\ Tod!Init /\ Sleep!Init

IrqStep    == part = "irq" /\ Next /\ UNCHANGED <<alarmVars, cycleVars, todVars, sleepVars>>
ServedStep == part = "served" /\ Served!Next /\ UNCHANGED <<alarmVars, cycleVars, todVars, sleepVars>>
AlarmStep  == part = "alarm" /\ Alarm!Next /\ UNCHANGED <<vars, cycleVars, todVars, sleepVars>>
CycleStep  == part = "cycles" /\ Cycles!Next /\ UNCHANGED <<vars, alarmVars, todVars, sleepVars>>
TodStep    == part = "tod" /\ Tod!Next /\ UNCHANGED <<vars, alarmVars, cycleVars, sleepVars>>
SleepStep  == part = "sleep" /\ Sleep!Next /\ UNCHANGED <<vars, alarmVars, cycleVars, todVars>>

ClockNext ==
  /\ IrqStep \/ ServedStep \/ AlarmStep \/ CycleStep \/ TodStep \/ SleepStep
  /\ UNCHANGED part

\* The processor goes on with what it has begun and takes interrupts; alt_tick
\* runs to its end once entered.
ClockFairness ==
  /\ WF_vars(part = "served" /\ Served!Proceed)
  /\ WF_vars(part = "served" /\ Served!TakeInterrupt)
  /\ WF_alarmVars(part = "alarm" /\ Alarm!TickVisit)

ClockSpec == ClockInit /\ [][ClockNext]_clockVars /\ ClockFairness

-----------------------------------------------------------------------------

\* HalAlarm: no callback runs before its time and none is missed, across the
\* wrap of the tick count (alt_tick, alt_alarm_start); the list holds exactly
\* the registered alarms; no period of the timer goes uncounted.
AlarmsOnTime ==
  /\ Alarm!TypeOK
  /\ Alarm!RunsOnTime
  /\ Alarm!ListIsLive
  /\ Alarm!TicksCounted

\* CycleCounter: get_total_cycles returns the count of some moment of the
\* call, although the tick interrupt may come between its reads.  TimeOfDay:
\* gettimeofday returns the time that was set plus the time the ticks have
\* counted since, when the tick rate divides the second and until the 32-bit
\* product of settimeofday overflows (TimesAssumption).
TimesExact ==
  /\ Cycles!TypeOK /\ Cycles!CyclesExact
  /\ Tod!TimeTracksTicks

\* BusySleep: alt_busy_sleep loses at most the fraction of a turn in each
\* microsecond that the code rounds away, and nothing to overflow or to the
\* split into long loops.
SleepsWithinATurn == Sleep!WithinATurn

\* HalIrq: a request of an enabled interrupt is served, and the dispatcher
\* finds what it was called for and comes back, to the very instruction that
\* was interrupted when no device withdraws a request.  HalAlarm: the tick
\* handler comes to its end although its callbacks start and stop alarms, as
\* long as none stops the alarm that is next in the list.
HandlersEnd ==
  /\ part = "served" => []Served!InterruptsTransparent
  /\ part = "served" => Served!RequestServed
  /\ part = "served" => Served!ProgramResumes
  /\ Alarm!TickEnds
=============================================================================
