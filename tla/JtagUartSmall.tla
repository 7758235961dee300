--------------------------- MODULE JtagUartSmall ---------------------------
(***************************************************************************)
(* The polled ("small") JTAG UART driver, the one ALT_USE_SMALL_DRIVERS    *)
(* selects in this board support package: altera_avalon_jtag_uart_write    *)
(* and _read without interrupts or buffers.  Each step of the thread is    *)
(* one register access; the host acts in between.                          *)
(***************************************************************************)
EXTENDS JtagUartHw, Integers

CONSTANT Counts   \* byte counts of the calls

SmallAssumption == Counts \subseteq Nat

VARIABLES
  pc,             \* "idle", "read", "write", or "put" between the test of
                  \* WSPACE and the write to DATA
  left, done,     \* end - ptr, and ptr - buffer
  nonblock,       \* flags & O_NONBLOCK
  ret,            \* what the last call returned
  delivered,      \* what read has handed to the program
  accepted        \* number of characters written to the device

vars == <<hwVars, pc, left, done, nonblock, ret, delivered, accepted>>

EIO == -5
EWOULDBLOCK == -11

Init ==
  /\ HwInit
  /\ pc = "idle" /\ left = 0 /\ done = 0 /\ nonblock = FALSE
  /\ ret = [call |-> "none", val |-> 0]
  /\ delivered = <<>> /\ accepted = 0

Call(op) ==
  /\ pc = "idle"
  /\ \E c \in Counts : left' = c
  /\ nonblock' \in BOOLEAN
  /\ pc' = op /\ done' = 0
  /\ ret' = [call |-> "none", val |-> 0]
  /\ UNCHANGED <<hwVars, delivered, accepted>>

\* A read of DATA that finds a character.
ReadChar ==
  /\ pc = "read" /\ left > 0 /\ RVALID
  /\ delivered' = Append(delivered, Head(hwrx))
  /\ hwrx' = Tail(hwrx)
  /\ left' = left - 1 /\ done' = done + 1
  /\ UNCHANGED <<hwtx, ac, sent, got, pc, nonblock, ret, accepted>>

\* The loop ends: nothing to read after a first character or without
\* blocking.  (ReadStopsBug: a blocking call waits for all it asked for.)
ReadStopsBug == left = 0 \/ (~RVALID /\ nonblock)
ReadStops == left = 0 \/ (~RVALID /\ (done > 0 \/ nonblock))

ReadEnd ==
  /\ pc = "read" /\ ReadStops
  /\ pc' = "idle"
  /\ ret' = [call |-> "read",
             val |-> IF done > 0 THEN done
                     ELSE IF nonblock THEN EWOULDBLOCK ELSE EIO]
  /\ UNCHANGED <<hwVars, left, done, nonblock, delivered, accepted>>

\* CONTROL is polled for room in the device.  (HasSpaceBug: it is not.)
HasSpaceBug == TRUE
HasSpace == WSPACE # 0

WritePoll ==
  /\ pc = "write" /\ left > 0 /\ HasSpace
  /\ pc' = "put"
  /\ UNCHANGED <<hwVars, left, done, nonblock, ret, delivered, accepted>>

\* DATA is written; the device drops a character it has no room for.
WritePut ==
  /\ pc = "put"
  /\ hwtx' = IF WSPACE > 0 THEN Append(hwtx, accepted + 1) ELSE hwtx
  /\ accepted' = accepted + 1
  /\ left' = left - 1 /\ done' = done + 1
  /\ pc' = "write"
  /\ UNCHANGED <<hwrx, ac, sent, got, nonblock, ret, delivered>>

WriteEnd ==
  /\ pc = "write" /\ left = 0
  /\ pc' = "idle"
  /\ ret' = [call |-> "write", val |-> done]
  /\ UNCHANGED <<hwVars, left, done, nonblock, delivered, accepted>>

Thread == ReadChar \/ ReadEnd \/ WritePoll \/ WritePut \/ WriteEnd

\* The bound MaxTx stops the program from writing without end.
Calls ==
  \/ Call("read")
  \/ Call("write") /\ accepted + left' <= MaxTx

HostStep ==
  /\ Host
  /\ UNCHANGED <<pc, left, done, nonblock, ret, delivered, accepted>>

Next == Thread \/ Calls \/ HostStep

Spec == Init /\ [][Next]_vars

\* The processor runs on, and a host that is there polls for ever.
FairSpec == Spec /\ WF_vars(Thread) /\ WF_vars(HostStep)

-----------------------------------------------------------------------------

\* Nothing the program writes is dropped by a full device and nothing the
\* host sends is lost or repeated: the test of WSPACE at write.c:71 stays
\* true until the write of DATA that follows it, because only the thread
\* fills the FIFO.
StreamsConserved ==
  /\ got \o hwtx = Numbers(1, accepted)
  /\ delivered \o hwrx = Numbers(1, sent)

\* Every write ends while the host is there, and a read that has got a
\* character ends without waiting for the rest ("blocks until it has at
\* least one byte available", read.c:58).
CallsReturn ==
  /\ pc \in {"write", "put"} ~> pc = "idle"
  /\ (pc = "read" /\ done > 0) ~> pc = "idle"
=============================================================================
