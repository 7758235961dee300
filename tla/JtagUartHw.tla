---------------------------- MODULE JtagUartHw ----------------------------
(***************************************************************************)
(* The JTAG UART device and the host on the other side of the cable, as    *)
(* the drivers under drivers/src use them through the DATA and CONTROL     *)
(* registers.  The device is not part of the repository; what is modelled  *)
(* is what the drivers rely on: two FIFOs, the enable bits RE and WE, the  *)
(* pending bits RI and WI, the WSPACE field, and the sticky bit AC that    *)
(* records that the host touched the device.                               *)
(*                                                                         *)
(* Characters are numbered in the order in which they are sent, so that a  *)
(* lost, repeated or reordered one is visible.                             *)
(***************************************************************************)
EXTENDS Naturals, Sequences

CONSTANTS
  FifoDepth,      \* JTAG_UART_READ_DEPTH, JTAG_UART_WRITE_DEPTH
  Threshold,      \* JTAG_UART_WRITE_THRESHOLD
  MaxRx,          \* bound: characters the host sends
  MaxTx           \* bound: characters the program writes

ASSUME HwAssumption ==
  /\ FifoDepth \in Nat \ {0}
  /\ Threshold \in 0..(FifoDepth - 1)
  /\ MaxRx \in Nat /\ MaxTx \in Nat

VARIABLES
  hwrx,           \* receive FIFO of the device
  hwtx,           \* transmit FIFO of the device
  ac,             \* CONTROL.AC
  sent,           \* number of characters the host has sent
  got             \* what the host has received

hwVars == <<hwrx, hwtx, ac, sent, got>>

\* The numbers a..b in order.
Numbers(a, b) == [i \in 1..(b + 1 - a) |-> a + i - 1]

HwInit ==
  /\ hwrx = <<>> /\ hwtx = <<>> /\ ac = FALSE
  /\ sent = 0 /\ got = <<>>

WSPACE == FifoDepth - Len(hwtx)
RVALID == hwrx # <<>>
\* What RAVAIL reports together with the character being removed.
RAVAIL == Len(hwrx) > 1
RI(enabled) == "RE" \in enabled /\ hwrx # <<>>
WI(enabled) == "WE" \in enabled /\ Len(hwtx) <= Threshold

\* The host types a character.
HostSend ==
  /\ sent < MaxRx /\ Len(hwrx) < FifoDepth
  /\ hwrx' = Append(hwrx, sent + 1)
  /\ sent' = sent + 1
  /\ ac' = TRUE
  /\ UNCHANGED <<hwtx, got>>

\* The host polls, and takes a character when there is one.
HostPoll ==
  /\ ~ac \/ hwtx # <<>>
  /\ ac' = TRUE
  /\ IF hwtx = <<>> THEN UNCHANGED <<hwtx, got>>
     ELSE got' = Append(got, Head(hwtx)) /\ hwtx' = Tail(hwtx)
  /\ UNCHANGED <<hwrx, sent>>

Host == HostSend \/ HostPoll
=============================================================================
