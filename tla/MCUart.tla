------------------------------- MODULE MCUart -------------------------------
(***************************************************************************)
(* The JTAG UART with one of its two drivers, for one run of TLC; the      *)
(* build decides which driver there is.  Both work on the same device, and *)
(* the state of the driver that is not there stays as it starts.           *)
(*                                                                         *)
(*   "output"  JtagUart; the program writes more than the two buffers hold *)
(*   "input"   JtagUart; the host sends as much as the two buffers hold    *)
(*   "small"   JtagUartSmall                                               *)
(***************************************************************************)
EXTENDS JtagUart

CONSTANT SmallCounts  \* byte counts of the calls of the small driver

VARIABLES load, s_pc, left, done, nonblock, s_ret

\* Characters in both directions, with a burst in one of them.
Output == INSTANCE JtagUart WITH MaxRx <- 1, Counts <- {5}
Input  == INSTANCE JtagUart WITH MaxTx <- 1, Counts <- {1, 3}
Small  == INSTANCE JtagUartSmall WITH Counts <- SmallCounts, pc <- s_pc, ret <- s_ret

ASSUME PolledAssumption == Small!SmallAssumption

smallVars == <<s_pc, left, done, nonblock, s_ret>>
polledVars == <<hwVars, delivered, accepted, smallVars>>
fastVars == <<rxVars, txVars, irq_enable, hostVars, isr, callVars>>
uartVars == <<vars, load, smallVars>>

UartInit ==
  /\ load \in {"output", "input", "small"}
  /\ Init /\ Small!Init
  /\ load = "small" => timeout = INT_MAX

OutputStep == load = "output" /\ Output!Next /\ UNCHANGED smallVars
InputStep  == load = "input" /\ Input!Next /\ UNCHANGED smallVars
SmallStep  == load = "small" /\ Small!Next /\ UNCHANGED fastVars

UartNext == (OutputStep \/ InputStep \/ SmallStep) /\ UNCHANGED load

\* The processor runs on and the alarm of the timeout comes; only the small
\* driver relies on a host that polls for ever.
UartFairness ==
  /\ WF_vars(load # "small" /\ Isr)
  /\ WF_vars(load # "small" /\ Thread)
  /\ WF_vars(load # "small" /\ Timeout)
  /\ WF_polledVars(load = "small" /\ Small!Thread)
  /\ WF_polledVars(load = "small" /\ Small!HostStep)

UartSpec == UartInit /\ [][UartNext]_uartVars /\ UartFairness

-----------------------------------------------------------------------------

\* JtagUartSmall: the polled driver drops, repeats and swaps nothing.
StreamsConserved == load = "small" => Small!StreamsConserved

\* Blocking calls come back.  JtagUart: a write ends, by the host or by the
\* timeout, and a read ends once a character is there.  JtagUartSmall: every
\* write ends while the host is there, and a read once it has a character.
CallsReturn == WriteReturns /\ ReadReturns /\ Small!CallsReturn
=============================================================================
