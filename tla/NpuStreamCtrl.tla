--------------------------- MODULE NpuStreamCtrl ---------------------------
(***************************************************************************)
(* rtl/npu_stream_ctrl.v: the 256-bit to 64-bit serializer that stands     *)
(* between the systolic core and the write DMA.  The core delivers whole   *)
(* rows; an output FIFO holds them while a shift register sends each one   *)
(* as FLITS flits over an Avalon-ST source, and a row counter decides      *)
(* where the packet boundaries (SOP, EOP) fall.                            *)
(*                                                                         *)
(* The module is the register set and one clock edge.  A row is a function *)
(* from flit index to flit; the serializer never looks into a flit.        *)
(***************************************************************************)
EXTENDS Integers

CONSTANTS
  DEPTH,     \* rows in out_fifo (8 in the RTL)
  FLITS,     \* flits in a row (4 in the RTL)
  WORD,      \* number of values of a 32-bit register (2^32 in the RTL)
  ZeroFlit   \* the 64'd0 that the shift register shifts in

ASSUME DepthAssumption == DEPTH \in Nat \ {0}
ASSUME FlitsAssumption == FLITS \in Nat \ {0}
ASSUME WordAssumption  == WORD  \in Nat \ {0}

VARIABLES
  out_fifo, fifo_wr_ptr, fifo_rd_ptr, fifo_count,
  tx_shift_reg, tx_count, tx_active, tx_sending_flit, tx_row_count,
  seq_total_rows   \* input wire: the register belongs to npu_ctrl

fifoVars == <<out_fifo, fifo_wr_ptr, fifo_rd_ptr, fifo_count>>
txVars   == <<tx_shift_reg, tx_count, tx_active, tx_sending_flit, tx_row_count>>
streamVars == <<fifoVars, txVars, seq_total_rows>>

FlitIndex == 0 .. FLITS - 1
ZeroRow   == [f \in FlitIndex |-> ZeroFlit]

----------------------------------------------------------------------------
(* Wires *)

\* Mutant: one row too many.
fifo_full_late == fifo_count > DEPTH

fifo_full  == fifo_count >= DEPTH
fifo_empty == fifo_count = 0

pe_ready_out == ~fifo_full

\* The pointers are as wide as the FIFO is deep: they wrap to 0.
NextPtr(p) == IF p = DEPTH - 1 THEN 0 ELSE p + 1

\* The flit on the source port is taken by the write DMA at this edge.
FlitTaken(st_source_ready) == tx_active /\ st_source_ready /\ tx_sending_flit

LastFlit == tx_count = FLITS - 1

fifo_push(pe_valid_out) == pe_valid_out /\ ~fifo_full
fifo_pop(st_source_ready) ==
  /\ ~fifo_empty
  /\ ~tx_active \/ (FlitTaken(st_source_ready) /\ LastFlit)

LastRow == seq_total_rows > 0 /\ tx_row_count = seq_total_rows - 1

st_source_data          == tx_shift_reg[0]
st_source_valid         == tx_sending_flit
st_source_startofpacket == tx_sending_flit /\ tx_count = 0 /\ tx_row_count = 0

\* Mutant: the end mark on every flit of the last row.
st_source_endofpacket_row == LastRow /\ tx_sending_flit

st_source_endofpacket   == LastRow /\ tx_sending_flit /\ LastFlit

----------------------------------------------------------------------------
(* Reset and the clock edge *)

\* out_fifo has no reset; its content after power-up is arbitrary, and 0 on
\* the FPGA this design is built for.
StreamReset ==
  /\ out_fifo = [s \in 0 .. DEPTH - 1 |-> ZeroRow]
  /\ fifo_wr_ptr = 0 /\ fifo_rd_ptr = 0 /\ fifo_count = 0
  /\ tx_shift_reg = ZeroRow
  /\ tx_count = 0 /\ tx_row_count = 0
  /\ tx_active = FALSE /\ tx_sending_flit = FALSE

FifoWrite(pe_valid_out, pe_dout) ==
  IF fifo_push(pe_valid_out)
    THEN /\ out_fifo' = [out_fifo EXCEPT ![fifo_wr_ptr] = pe_dout]
         /\ fifo_wr_ptr' = NextPtr(fifo_wr_ptr)
    ELSE UNCHANGED <<out_fifo, fifo_wr_ptr>>

\* Mutant: a push hides the pop of the same edge.
FifoCount_push_first(pe_valid_out, st_source_ready) ==
  fifo_count' = IF fifo_push(pe_valid_out) THEN fifo_count + 1
                ELSE IF fifo_pop(st_source_ready) THEN fifo_count - 1
                ELSE fifo_count

FifoCount(pe_valid_out, st_source_ready) ==
  LET push == fifo_push(pe_valid_out)
      pop  == fifo_pop(st_source_ready)
  IN  fifo_count' = IF push /\ ~pop THEN fifo_count + 1
                    ELSE IF ~push /\ pop THEN fifo_count - 1
                    ELSE fifo_count

\* Mutant: the read pointer runs one place ahead of the row it loads.
LoadRow_ahead ==
  /\ tx_shift_reg' = out_fifo[NextPtr(fifo_rd_ptr)]
  /\ fifo_rd_ptr' = NextPtr(fifo_rd_ptr)
  /\ tx_count' = 0

\* Mutant: the read pointer stays.
LoadRow_stay ==
  /\ tx_shift_reg' = out_fifo[fifo_rd_ptr]
  /\ tx_count' = 0
  /\ UNCHANGED fifo_rd_ptr

\* Take the oldest row out of the FIFO and start on its first flit.
LoadRow ==
  /\ tx_shift_reg' = out_fifo[fifo_rd_ptr]
  /\ fifo_rd_ptr' = NextPtr(fifo_rd_ptr)
  /\ tx_count' = 0

TxIdle ==
  /\ ~tx_active /\ fifo_empty
  /\ UNCHANGED <<fifo_rd_ptr, txVars>>

\* Mutant: valid is left to a state that never raises it.
TxStart_mute ==
  /\ ~tx_active /\ ~fifo_empty
  /\ LoadRow
  /\ tx_active' = TRUE
  /\ UNCHANGED <<tx_row_count, tx_sending_flit>>

TxStart ==
  /\ ~tx_active /\ ~fifo_empty
  /\ LoadRow
  /\ tx_active' = TRUE /\ tx_sending_flit' = TRUE
  /\ UNCHANGED tx_row_count

\* Mutant: valid is dropped when the DMA is not ready.
TxHold_drop(st_source_ready) ==
  /\ tx_active /\ ~(st_source_ready /\ tx_sending_flit)
  /\ tx_sending_flit' = ~tx_sending_flit
  /\ UNCHANGED <<fifo_rd_ptr, tx_shift_reg, tx_count, tx_active, tx_row_count>>

TxHold(st_source_ready) ==
  /\ tx_active /\ ~(st_source_ready /\ tx_sending_flit)
  /\ UNCHANGED <<fifo_rd_ptr, txVars>>

TxShift(st_source_ready) ==
  /\ FlitTaken(st_source_ready) /\ ~LastFlit
  /\ tx_shift_reg' = [f \in FlitIndex |->
                        IF f = FLITS - 1 THEN ZeroFlit ELSE tx_shift_reg[f + 1]]
  /\ tx_count' = tx_count + 1
  /\ UNCHANGED <<fifo_rd_ptr, tx_active, tx_sending_flit, tx_row_count>>

\* Mutant: the counter is cleared one row late.
CountRow_late ==
  tx_row_count' = IF seq_total_rows > 0 /\ tx_row_count = seq_total_rows
                    THEN 0 ELSE (tx_row_count + 1) % WORD

CountRow == tx_row_count' = IF LastRow THEN 0 ELSE (tx_row_count + 1) % WORD

TxNextRow(st_source_ready) ==
  /\ FlitTaken(st_source_ready) /\ LastFlit /\ ~fifo_empty
  /\ CountRow
  /\ LoadRow
  /\ UNCHANGED <<tx_active, tx_sending_flit>>

TxDrained(st_source_ready) ==
  /\ FlitTaken(st_source_ready) /\ LastFlit /\ fifo_empty
  /\ CountRow
  /\ tx_active' = FALSE /\ tx_sending_flit' = FALSE
  /\ UNCHANGED <<fifo_rd_ptr, tx_shift_reg, tx_count>>

Serializer(st_source_ready) ==
  \/ TxIdle
  \/ TxStart
  \/ TxHold(st_source_ready)
  \/ TxShift(st_source_ready)
  \/ TxNextRow(st_source_ready)
  \/ TxDrained(st_source_ready)

\* One rising edge of clk: the three always blocks together.
StreamClock(pe_valid_out, pe_dout, st_source_ready) ==
  /\ FifoWrite(pe_valid_out, pe_dout)
  /\ FifoCount(pe_valid_out, st_source_ready)
  /\ Serializer(st_source_ready)

============================================================================
