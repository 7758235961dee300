------------------------------ MODULE NpuUnit ------------------------------
(***************************************************************************)
(* rtl/npu_unit.v: the control registers, the systolic core and the stream *)
(* controller wired together.  The sink side of npu_stream_ctrl.v passes   *)
(* beats straight through to the core; rows of the core go to the FIFO.    *)
(***************************************************************************)
EXTENDS NpuStreamCtrl, SystolicCore

VARIABLES seq_start, seq_mode, weight_latch_en, sys_readdata, sys_readdatavalid

INSTANCE NpuCtrl

unitVars == <<streamVars, coreVars, seq_start, seq_mode, weight_latch_en,
              sys_readdata, sys_readdatavalid>>

\* Columns in a flit: two 32-bit sums in 64 bits.
COLS == N \div FLITS

ColsAssumption == COLS * FLITS = N

UnitReset ==
  /\ StreamReset /\ CoreReset /\ CtrlReset

\* Mutant: weights are loaded in the other mode.
SinkBeat_swapped(valid, x) == [v |-> valid, lw |-> valid /\ seq_mode % 2 = 0, x |-> x]

\* The beat on the sink port as the core sees it: mode bit 0 marks weights.
SinkBeat(valid, x) == [v |-> valid, lw |-> valid /\ seq_mode % 2 = 1, x |-> x]

st_sink_ready(valid, x) == ready_out(SinkBeat(valid, x), pe_ready_out)

\* The core's row as the flits of a FIFO entry, lowest columns first.
pe_dout == [f \in FlitIndex |-> [c \in 0 .. COLS - 1 |-> y_out[f * COLS + c]]]

\* One edge: `valid' and `x' on the sink, `ready' on the source, `bus' on the
\* register port.
UnitClock(bus, valid, x, ready) ==
  /\ CtrlClock(bus)
  /\ CoreClock(SinkBeat(valid, x), pe_ready_out, weight_latch_en)
  /\ StreamClock(valid_out, pe_dout, ready)

============================================================================
