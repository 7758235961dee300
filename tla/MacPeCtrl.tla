----------------------------- MODULE MacPeCtrl -----------------------------
(***************************************************************************)
(* rtl/npu_unit.v's legacy test path: rtl/npu_ctrl.v with the register     *)
(* bank rtl/mac_pe_ctrl.v (addresses 8..11) and the single processing      *)
(* element it feeds.  The element's latch input is tied to 1.              *)
(***************************************************************************)
EXTENDS MacPe, NpuCtrl

CONSTANT BYTE   \* number of values of x_in, 2^DATA_WIDTH

VARIABLES load_weight, valid_in, x_in, y_in,      \* the bank
          pe_readdata, pe_readdatavalid,
          mac                                     \* u_mac_pe

peCtrlVars == <<load_weight, valid_in, x_in, y_in, pe_readdata, pe_readdatavalid, mac>>

REG_PE_CTRL  == 8
REG_PE_X_IN  == 9
REG_PE_Y_IN  == 10
REG_PE_Y_OUT == 11

SignedByte(v) == ((v + BYTE \div 2) % BYTE) - BYTE \div 2

PeCtrlReset ==
  /\ load_weight = FALSE /\ valid_in = FALSE
  /\ x_in = 0 /\ y_in = 0
  /\ pe_readdata = 0 /\ pe_readdatavalid = FALSE
  /\ mac = PeReset

PeWrite(bus, reg) ==
  bus.kind = "write" /\ select_pe(bus) /\ bus.addr % 4 = reg % 4
PeRead(bus) == bus.kind = "read" /\ select_pe(bus)

RegisterBank(bus) ==
  /\ load_weight' = IF PeWrite(bus, REG_PE_CTRL) THEN Bit(bus.data, 0) = 1 ELSE load_weight
  /\ valid_in'    = IF PeWrite(bus, REG_PE_CTRL) THEN Bit(bus.data, 1) = 1 ELSE valid_in
  /\ x_in' = IF PeWrite(bus, REG_PE_X_IN) THEN SignedByte(bus.data) ELSE x_in
  /\ y_in' = IF PeWrite(bus, REG_PE_Y_IN) THEN SignedAcc(bus.data) ELSE y_in

PeValue(reg) ==
  CASE reg = REG_PE_CTRL % 4 -> 2 * Flag(valid_in) + Flag(load_weight)
    [] reg = REG_PE_X_IN % 4 -> x_in % BYTE
    [] reg = REG_PE_Y_IN % 4 -> y_in % ACC
    [] reg = REG_PE_Y_OUT % 4 -> mac.y % ACC

RegisteredRead(bus) ==
  /\ pe_readdatavalid' = PeRead(bus)
  /\ pe_readdata' = IF PeRead(bus) THEN PeValue(bus.addr % 4) ELSE pe_readdata

\* Mutant: the element is not told that its neighbours are always ready.
MacStep_stall ==
  mac' = PeStep(mac, [v |-> valid_in, lw |-> load_weight, x |-> x_in],
                     [v |-> valid_in, y |-> y_in], FALSE, FALSE, TRUE)

\* The element sees the bank's registers of before the edge.
MacStep ==
  mac' = PeStep(mac, [v |-> valid_in, lw |-> load_weight, x |-> x_in],
                     [v |-> valid_in, y |-> y_in], TRUE, TRUE, TRUE)

\* Mutant: the slave answers for the system bank only.
readdatavalid_sys == sys_readdatavalid

\* The answer on the bus: the system bank wins over the PE bank.
readdatavalid == sys_readdatavalid \/ pe_readdatavalid
readdata == IF sys_readdatavalid THEN sys_readdata
            ELSE IF pe_readdatavalid THEN pe_readdata ELSE 0

PeCtrlClock(bus) ==
  /\ CtrlClock(bus)
  /\ RegisterBank(bus)
  /\ RegisteredRead(bus)
  /\ MacStep

============================================================================
