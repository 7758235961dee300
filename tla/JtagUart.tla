----------------------------- MODULE JtagUart -----------------------------
(***************************************************************************)
(* The interrupt driven ("fast") JTAG UART driver:                         *)
(* drivers/src/altera_avalon_jtag_uart_{init,read,write,ioctl}.c.          *)
(*                                                                         *)
(* One thread calls read, write, ioctl and close; the interrupt routine    *)
(* and the once-a-second timeout routine preempt it between any two of its *)
(* accesses to shared state, and the host acts at any time, also between   *)
(* two register accesses of the interrupt routine.  What lies between      *)
(* alt_irq_disable_all and alt_irq_enable_all is one step.                 *)
(***************************************************************************)
EXTENDS JtagUartHw, Integers

CONSTANTS
  BUF_LEN,        \* ALTERA_AVALON_JTAG_UART_BUF_LEN
  INT_MAX,
  DEFAULT_TIMEOUT,
  Counts,         \* byte counts of the read and write calls
  Timeouts        \* arguments of ioctl(TIOCSTIMEOUT)

ASSUME UartAssumption ==
  /\ BUF_LEN \in Nat /\ BUF_LEN >= 2
  /\ INT_MAX \in Nat /\ INT_MAX >= 4
  /\ DEFAULT_TIMEOUT \in 2..(INT_MAX - 2)
  /\ Counts \subseteq Nat \ {0}
  /\ Timeouts \subseteq Int

VARIABLES
  rx_in, rx_out, rx_buf,
  tx_in, tx_out, tx_buf,
  irq_enable,     \* sp->irq_enable, and the enable bits of CONTROL: each
                  \* change of the one is written to the other in one step
  host_inactive, timeout,
  isr,            \* the interrupt routine: where it is and its locals
  pc, op,         \* the thread: where it is and the locals of its call
  ret,            \* what the last call returned
  delivered,      \* what read has handed to the program
  accepted        \* number of characters write has taken over

rxVars == <<rx_in, rx_out, rx_buf>>
txVars == <<tx_in, tx_out, tx_buf>>
hostVars == <<host_inactive, timeout>>
callVars == <<pc, op, ret>>
vars == <<hwVars, rxVars, txVars, irq_enable, hostVars, isr, callVars,
          delivered, accepted>>

Index == 0..(BUF_LEN - 1)
Inc(i) == (i + 1) % BUF_LEN
NoIsr == [at |-> "off", ri |-> FALSE, wi |-> FALSE, space |-> 0, more |-> FALSE]
NoOp == [left |-> 0, done |-> 0, nonblock |-> FALSE, in |-> 0, out |-> 0, n |-> 0]
NoRet == [call |-> "none", val |-> 0]

\* The error codes, as values no byte count has.
EIO == -5
EWOULDBLOCK == -11

\* Driver initialisation; an alarm that cannot be started leaves the timeout
\* at INT_MAX and the timeout routine is never called.
Init ==
  /\ HwInit
  /\ rx_in = 0 /\ rx_out = 0 /\ rx_buf = [i \in Index |-> 0]
  /\ tx_in = 0 /\ tx_out = 0 /\ tx_buf = [i \in Index |-> 0]
  /\ irq_enable = {"RE"}
  /\ host_inactive = 0
  /\ timeout \in {DEFAULT_TIMEOUT, INT_MAX}
  /\ isr = NoIsr
  /\ pc = "idle" /\ op = NoOp /\ ret = NoRet
  /\ delivered = <<>> /\ accepted = 0

-----------------------------------------------------------------------------
(* The interrupt routine.                                                  *)

\* The top of its loop, and its entry when an interrupt is pending.
IsrControl ==
  /\ isr.at = "control" \/ (isr.at = "off" /\ (RI(irq_enable) \/ WI(irq_enable)))
  /\ LET ri == RI(irq_enable)
         wi == WI(irq_enable)
     IN isr' = CASE ~ri /\ ~wi -> NoIsr
                 [] OTHER -> [at |-> IF ri THEN "rx" ELSE "tx", ri |-> ri,
                              wi |-> wi, space |-> WSPACE, more |-> TRUE]
  /\ UNCHANGED <<hwVars, rxVars, txVars, irq_enable, hostVars, callVars,
                 delivered, accepted>>

\* The receive buffer has no room; one slot always stays free.  (RxFullBug:
\* the slot is not kept free.)
RxFullBug == FALSE
RxFull == Inc(rx_in) = rx_out

\* One character from the device into the receive buffer.
IsrRxChar ==
  /\ isr.at = "rx"
  /\ ~RxFull
  /\ RVALID
  /\ rx_buf' = [rx_buf EXCEPT ![rx_in] = Head(hwrx)]
  /\ rx_in' = Inc(rx_in)
  /\ hwrx' = Tail(hwrx)
  /\ isr' = [isr EXCEPT !.more = RAVAIL]
  /\ UNCHANGED <<hwtx, ac, sent, got, rx_out, txVars, irq_enable, hostVars,
                 callVars, delivered, accepted>>

\* The receive loop ends, because the buffer is full or because the device
\* has no character; in the first case receive interrupts are switched off
\* when the last read said that characters are left.
IsrRxEnd ==
  /\ isr.at = "rx"
  /\ RxFull \/ ~RVALID
  /\ irq_enable' = IF RxFull /\ isr.more THEN irq_enable \ {"RE"} ELSE irq_enable
  /\ isr' = [isr EXCEPT !.at = IF isr.wi THEN "tx" ELSE "control"]
  /\ UNCHANGED <<hwVars, rxVars, txVars, hostVars, callVars, delivered, accepted>>

\* One character from the transmit buffer into the device.
IsrTxChar ==
  /\ isr.at = "tx"
  /\ isr.space > 0 /\ tx_out # tx_in
  /\ hwtx' = Append(hwtx, tx_buf[tx_out])
  /\ tx_out' = Inc(tx_out)
  /\ isr' = [isr EXCEPT !.space = @ - 1]
  /\ UNCHANGED <<hwrx, ac, sent, got, rxVars, tx_in, tx_buf, irq_enable,
                 hostVars, callVars, delivered, accepted>>

\* The transmit loop ends; with space left in the device there is nothing
\* more to send and the transmit interrupt is switched off.
IsrTxEnd ==
  /\ isr.at = "tx"
  /\ isr.space = 0 \/ tx_out = tx_in
  /\ irq_enable' = IF isr.space > 0 THEN irq_enable \ {"WE"} ELSE irq_enable
  /\ isr' = [isr EXCEPT !.at = "control"]
  /\ UNCHANGED <<hwVars, rxVars, txVars, hostVars, callVars, delivered, accepted>>

Isr == IsrControl \/ IsrRxChar \/ IsrRxEnd \/ IsrTxChar \/ IsrTxEnd

\* The count of seconds without the host stops two below INT_MAX.
\* (CountsOnBug: it does not stop.)
CountsOnBug == host_inactive < INT_MAX
CountsOn == host_inactive < INT_MAX - 2

\* The timeout routine, run by the timer interrupt when no other handler is.
Timeout ==
  /\ isr.at = "off" /\ timeout # INT_MAX
  /\ ac' = FALSE
  /\ host_inactive' = CASE ac -> 0
                        [] ~ac /\ CountsOn -> host_inactive + 1
                        [] OTHER -> host_inactive
  /\ UNCHANGED <<hwrx, hwtx, sent, got, rxVars, txVars, irq_enable, timeout,
                 isr, callVars, delivered, accepted>>

-----------------------------------------------------------------------------
(* The thread.  It runs only while no handler does.                        *)

Return(call, val) ==
  /\ pc' = "idle" /\ op' = NoOp
  /\ ret' = [call |-> call, val |-> val]

Outcome(done, nonblock) ==
  IF done > 0 THEN done ELSE IF nonblock THEN EWOULDBLOCK ELSE EIO

ReadCall ==
  /\ pc = "idle"
  /\ \E c \in Counts, nb \in BOOLEAN :
        op' = [NoOp EXCEPT !.left = c, !.nonblock = nb]
  /\ pc' = "r_index"
  /\ ret' = NoRet
  /\ UNCHANGED <<hwVars, rxVars, txVars, irq_enable, hostVars, isr, delivered,
                 accepted>>

\* Both indices are read and the contiguous run of characters is measured.
ReadIndex ==
  /\ pc = "r_index"
  /\ LET run == IF rx_in >= rx_out THEN rx_in - rx_out ELSE BUF_LEN - rx_out
     IN /\ op' = [op EXCEPT !.in = rx_in, !.out = rx_out,
                            !.n = IF run > op.left THEN op.left ELSE run]
        /\ pc' = CASE run > 0 -> "r_copy"
                   [] run = 0 /\ op.done = 0 /\ ~op.nonblock -> "r_wait"
                   [] OTHER -> "r_end"
  /\ UNCHANGED <<hwVars, rxVars, txVars, irq_enable, hostVars, isr, ret,
                 delivered, accepted>>

ReadCopy ==
  /\ pc = "r_copy"
  /\ delivered' = delivered \o [i \in 1..op.n |-> rx_buf[op.out + i - 1]]
  /\ op' = [op EXCEPT !.left = @ - op.n, !.done = @ + op.n]
  /\ pc' = "r_free"
  /\ UNCHANGED <<hwVars, rxVars, txVars, irq_enable, hostVars, isr, ret, accepted>>

ReadFree ==
  /\ pc = "r_free"
  /\ rx_out' = (op.out + op.n) % BUF_LEN
  /\ pc' = IF op.left > 0 THEN "r_index" ELSE "r_end"
  /\ UNCHANGED <<hwVars, rx_in, rx_buf, txVars, irq_enable, hostVars, isr, op,
                 ret, delivered, accepted>>

\* The host has been inactive for the whole timeout.  (HostGoneBug: never.)
HostGoneBug == FALSE
HostGone == host_inactive >= timeout

\* Spin until a character arrives or the host is taken to be gone.
ReadWait ==
  /\ pc = "r_wait"
  /\ rx_in # op.in \/ HostGone
  /\ pc' = "r_check"
  /\ UNCHANGED <<hwVars, rxVars, txVars, irq_enable, hostVars, isr, op, ret,
                 delivered, accepted>>

\* The index is read again: a character may have arrived after the timeout.
ReadCheck ==
  /\ pc = "r_check"
  /\ pc' = IF rx_in = op.in THEN "r_end" ELSE "r_index"
  /\ UNCHANGED <<hwVars, rxVars, txVars, irq_enable, hostVars, isr, op, ret,
                 delivered, accepted>>

\* Receive interrupts are enabled again when anything was read.
\* (ReadArmsBug: when the call was served in full.)
ReadArmsBug == op.done > 0 /\ op.left = 0
ReadArms == op.done > 0

ReadEnd ==
  /\ pc = "r_end"
  /\ irq_enable' = IF ReadArms THEN irq_enable \cup {"RE"} ELSE irq_enable
  /\ Return("read", Outcome(op.done, op.nonblock))
  /\ UNCHANGED <<hwVars, rxVars, txVars, hostVars, isr, delivered, accepted>>

WriteCall ==
  /\ pc = "idle"
  /\ \E c \in Counts, nb \in BOOLEAN :
        /\ accepted + c <= MaxTx
        /\ op' = [NoOp EXCEPT !.left = c, !.nonblock = nb]
  /\ pc' = "w_index"
  /\ ret' = NoRet
  /\ UNCHANGED <<hwVars, rxVars, txVars, irq_enable, hostVars, isr, delivered,
                 accepted>>

\* The free room from tx_in up to tx_out or to the end of the buffer; one
\* slot always stays free.  (RoomBug: forgotten when tx_out is 0.)
RoomBug(in, out) == IF in < out THEN out - 1 - in ELSE BUF_LEN - in
Room(in, out) ==
  IF in < out THEN out - 1 - in
  ELSE IF out > 0 THEN BUF_LEN - in ELSE BUF_LEN - 1 - in

WriteIndex ==
  /\ pc = "w_index"
  /\ LET n == Room(tx_in, tx_out)
     IN /\ op' = [op EXCEPT !.in = tx_in, !.out = tx_out,
                            !.n = IF n > op.left THEN op.left ELSE n]
        /\ pc' = IF n = 0 THEN "w_kick" ELSE "w_copy"
  /\ UNCHANGED <<hwVars, rxVars, txVars, irq_enable, hostVars, isr, ret,
                 delivered, accepted>>

WriteCopy ==
  /\ pc = "w_copy"
  /\ tx_buf' = [i \in Index |->
                  IF i \in op.in..(op.in + op.n - 1)
                  THEN accepted + 1 + (i - op.in) ELSE tx_buf[i]]
  /\ accepted' = accepted + op.n
  /\ op' = [op EXCEPT !.left = @ - op.n, !.done = @ + op.n]
  /\ pc' = "w_publish"
  /\ UNCHANGED <<hwVars, rxVars, tx_in, tx_out, irq_enable, hostVars, isr, ret,
                 delivered>>

WritePublish ==
  /\ pc = "w_publish"
  /\ tx_in' = (op.in + op.n) % BUF_LEN
  /\ pc' = IF op.left > 0 THEN "w_index" ELSE "w_kick"
  /\ UNCHANGED <<hwVars, rxVars, tx_out, tx_buf, irq_enable, hostVars, isr, op,
                 ret, delivered, accepted>>

\* The transmit interrupt is enabled, with interrupts disabled.
\* (KickedBug: only when the buffer was full.)
KickedBug == IF op.left > 0 THEN irq_enable \cup {"WE"} ELSE irq_enable
Kicked == irq_enable \cup {"WE"}

WriteKick ==
  /\ pc = "w_kick"
  /\ irq_enable' = Kicked
  /\ pc' = IF op.left > 0 /\ ~op.nonblock THEN "w_wait" ELSE "w_end"
  /\ UNCHANGED <<hwVars, rxVars, txVars, hostVars, isr, op, ret, delivered,
                 accepted>>

\* Spin until the interrupt routine has taken something out of the buffer or
\* the host is taken to be gone.
WriteWait ==
  /\ pc = "w_wait"
  /\ op.out # tx_out \/ HostGone
  /\ pc' = "w_check"
  /\ UNCHANGED <<hwVars, rxVars, txVars, irq_enable, hostVars, isr, op, ret,
                 delivered, accepted>>

\* A host that missed its last second ends the call in either case.
WriteCheck ==
  /\ pc = "w_check"
  /\ pc' = IF host_inactive # 0 THEN "w_end" ELSE "w_index"
  /\ UNCHANGED <<hwVars, rxVars, txVars, irq_enable, hostVars, isr, op, ret,
                 delivered, accepted>>

WriteEnd ==
  /\ pc = "w_end"
  /\ Return("write", Outcome(op.done, op.nonblock))
  /\ UNCHANGED <<hwVars, rxVars, txVars, irq_enable, hostVars, isr, delivered,
                 accepted>>

\* ioctl(TIOCSTIMEOUT).
SetTimeout ==
  /\ pc = "idle" /\ timeout # INT_MAX
  /\ \E t \in Timeouts :
        timeout' = IF t >= 2 /\ t < INT_MAX THEN t ELSE INT_MAX - 1
  /\ UNCHANGED <<hwVars, rxVars, txVars, irq_enable, host_inactive, isr,
                 callVars, delivered, accepted>>

\* ioctl(TIOCGCONNECTED).
GetConnected ==
  /\ pc = "idle" /\ timeout # INT_MAX
  /\ Return("connected", IF HostGone THEN 0 ELSE 1)
  /\ UNCHANGED <<hwVars, rxVars, txVars, irq_enable, hostVars, isr, delivered,
                 accepted>>

CloseCall ==
  /\ pc = "idle"
  /\ \E nb \in BOOLEAN : op' = [NoOp EXCEPT !.nonblock = nb]
  /\ pc' = "c_wait"
  /\ ret' = NoRet
  /\ UNCHANGED <<hwVars, rxVars, txVars, irq_enable, hostVars, isr, delivered,
                 accepted>>

\* Close waits for the transmit buffer to empty or for the host to be gone.
CloseWait ==
  /\ pc = "c_wait"
  /\ \/ /\ tx_out = tx_in \/ HostGone
        /\ Return("close", 0)
     \/ /\ tx_out # tx_in /\ ~HostGone /\ op.nonblock
        /\ Return("close", EWOULDBLOCK)
  /\ UNCHANGED <<hwVars, rxVars, txVars, irq_enable, hostVars, isr, delivered,
                 accepted>>

Thread ==
  /\ isr.at = "off"
  /\ \/ ReadIndex \/ ReadCopy \/ ReadFree \/ ReadWait \/ ReadCheck \/ ReadEnd
     \/ WriteIndex \/ WriteCopy \/ WritePublish \/ WriteKick \/ WriteWait
     \/ WriteCheck \/ WriteEnd \/ CloseWait

Call ==
  /\ isr.at = "off"
  /\ ReadCall \/ WriteCall \/ SetTimeout \/ GetConnected \/ CloseCall

HostStep ==
  /\ Host
  /\ UNCHANGED <<rxVars, txVars, irq_enable, hostVars, isr, callVars,
                 delivered, accepted>>

Next == Isr \/ Timeout \/ Thread \/ Call \/ HostStep

Spec == Init /\ [][Next]_vars

FairSpec == Spec /\ WF_vars(Isr) /\ WF_vars(Thread) /\ WF_vars(Timeout)

-----------------------------------------------------------------------------
(* Properties.                                                             *)

\* The state is well formed, and each index stays inside its buffer.
TypeOK ==
  /\ rx_in \in Index /\ rx_out \in Index /\ tx_in \in Index /\ tx_out \in Index
  /\ rx_buf \in [Index -> 0..MaxRx] /\ tx_buf \in [Index -> 0..MaxTx]
  /\ irq_enable \in SUBSET {"RE", "WE"}
  /\ host_inactive \in 0..(INT_MAX - 2)
  /\ timeout \in 2..INT_MAX
  /\ isr.at \in {"off", "control", "rx", "tx"} /\ isr.space \in 0..FifoDepth
  /\ op.left \in Nat /\ op.done \in Nat /\ op.n \in 0..BUF_LEN
  /\ accepted \in 0..MaxTx /\ Len(hwtx) <= FifoDepth

\* The characters between out and in of a ring buffer.
Ring(buf, in, out) ==
  [i \in 1..((in + BUF_LEN - out) % BUF_LEN) |-> buf[(out + i - 1) % BUF_LEN]]

\* Where the reader stands in the receive ring: copied characters count as
\* delivered before rx_out moves past them.
ReadFrom == IF pc = "r_free" THEN (op.out + op.n) % BUF_LEN ELSE rx_out

\* Every character the host sent is, in order and exactly once, delivered, in
\* the receive buffer or in the device: the interrupt routine of
\* jtag_uart_init.c:136 and read never lose, repeat or swap one, whatever
\* the limits of the two buffers and the moment of the interrupt.
RxConserved ==
  delivered \o Ring(rx_buf, rx_in, ReadFrom) \o hwrx = Numbers(1, sent)

\* Every character write took over (its return value counts it) is, in order
\* and exactly once, at the host, in the device or in the transmit buffer.
TxConserved ==
  LET upTo == IF pc = "w_publish" THEN (op.in + op.n) % BUF_LEN ELSE tx_in
  IN got \o hwtx \o Ring(tx_buf, upTo, tx_out) = Numbers(1, accepted)

\* In both rings and the FIFOs no character is lost, repeated or swapped,
\* whatever the interrupt routine does between the steps of a read or a
\* write, and the indices stay inside the rings.
RingsSound == TypeOK /\ RxConserved /\ TxConserved

\* The receive interrupt is never left off for good: while it is off the
\* buffer holds a character the next read will find, or a read that has
\* taken one is about to enable it (read.c:188).
RxArmed ==
  "RE" \in irq_enable \/ rx_in # rx_out \/ (pc \in {"r_free", "r_index", "r_end"} /\ op.done > 0)

\* No character is stranded in the transmit buffer: the transmit interrupt is
\* on, or write is about to enable it (write.c:136), or the interrupt routine
\* has not yet seen the end of the buffer.
TxArmed ==
  tx_in # tx_out => "WE" \in irq_enable \/ pc \in {"w_index", "w_copy", "w_publish", "w_kick"}

\* Whenever there is work for the interrupt routine, room in the receive
\* ring or data in the transmit ring, its interrupt is enabled or about to
\* be.
InterruptsArmed == RxArmed /\ TxArmed

\* A timeout set out of range by ioctl means "never": the count of seconds
\* without the host saturates below it (ioctl.c:65, init.c:214).
NeverMeansNever == timeout >= INT_MAX - 1 => host_inactive < timeout

\* A blocking write returns, because the host takes characters or because
\* the timeout declares it gone (unless the timeout is "never").
WriteReturns ==
  (pc \in {"w_index", "w_copy", "w_publish", "w_kick", "w_wait"} /\ timeout < INT_MAX - 1)
    ~> (pc = "idle" \/ timeout >= INT_MAX - 1)

\* A read of a character that is anywhere on its way returns.
ReadReturns == (pc = "r_wait" /\ hwrx # <<>>) ~> pc = "idle"
=============================================================================
