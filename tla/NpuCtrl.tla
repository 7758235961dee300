------------------------------ MODULE NpuCtrl ------------------------------
(***************************************************************************)
(* rtl/npu_ctrl.v: the control and status registers behind the Avalon-MM   *)
(* slave, without the legacy PE bank (module MacPeCtrl).  A bus access is  *)
(* a record [kind, addr, data] with kind "write", "read" or "none"; the    *)
(* slave never waits, so every edge carries at most one access.            *)
(***************************************************************************)
EXTENDS Integers

CONSTANT WORD   \* number of values of a 32-bit register

VARIABLES seq_start, seq_mode, seq_total_rows, weight_latch_en,
          sys_readdata, sys_readdatavalid

ctrlVars == <<seq_start, seq_mode, seq_total_rows, weight_latch_en,
              sys_readdata, sys_readdatavalid>>

REG_CTRL     == 0
REG_STATUS   == 1
REG_SEQ_ROWS == 6
REG_LATCH    == 7

NoAccess       == [kind |-> "none", addr |-> 0, data |-> 0]
IOWR(reg, val) == [kind |-> "write", addr |-> reg, data |-> val]
IORD(reg)      == [kind |-> "read", addr |-> reg, data |-> 0]

select_pe(bus) == bus.addr >= 8

\* Bit b of a register value, and a flag as a bit.
Bit(val, b) == (val \div 2^b) % 2
Flag(p)     == IF p THEN 1 ELSE 0

\* npu_unit.v connects no driver to seq_busy and seq_done; synthesis ties an
\* undriven wire to ground.
seq_busy == FALSE
seq_done == FALSE

CtrlReset ==
  /\ seq_start = FALSE /\ seq_mode = 0
  /\ seq_total_rows = 0 /\ weight_latch_en = FALSE
  /\ sys_readdata = 0 /\ sys_readdatavalid = FALSE

SysWrite(bus, reg) == bus.kind = "write" /\ ~select_pe(bus) /\ bus.addr % 8 = reg
SysRead(bus)       == bus.kind = "read" /\ ~select_pe(bus)

\* seq_start and weight_latch_en are pulses: they fall again at the next
\* edge unless that edge writes them.
SystemRegisters(bus) ==
  /\ seq_start' = (SysWrite(bus, REG_CTRL) /\ Bit(bus.data, 0) = 1)
  /\ seq_mode' = IF SysWrite(bus, REG_CTRL) THEN (bus.data \div 2) % 4 ELSE seq_mode
  /\ seq_total_rows' = IF SysWrite(bus, REG_SEQ_ROWS) THEN bus.data % WORD
                                                      ELSE seq_total_rows
  /\ weight_latch_en' = (SysWrite(bus, REG_LATCH) /\ Bit(bus.data, 0) = 1)

\* The read multiplexer answers one edge later.
SysValue(reg) ==
  CASE reg = REG_CTRL     -> 2 * seq_mode
    [] reg = REG_STATUS   -> 2 * Flag(seq_done) + Flag(seq_busy)
    [] reg = REG_SEQ_ROWS -> seq_total_rows
    [] reg = REG_LATCH    -> Flag(weight_latch_en)
    [] OTHER              -> 0

ReadMultiplexer(bus) ==
  /\ sys_readdatavalid' = SysRead(bus)
  /\ sys_readdata' = IF SysRead(bus) THEN SysValue(bus.addr % 8) ELSE sys_readdata

CtrlClock(bus) == SystemRegisters(bus) /\ ReadMultiplexer(bus)

============================================================================
