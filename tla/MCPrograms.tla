----------------------------- MODULE MCPrograms -----------------------------
(***************************************************************************)
(* The programs that drive the NPU, for one run of TLC.  A behaviour       *)
(* belongs to one program, chosen in its initial state; the state of the   *)
(* others stays as it starts.  They never run together on a board.         *)
(*                                                                         *)
(*   "linux"   the sessions of NpuSystem, with a 2x2 core and the smallest *)
(*             FIFO, for the polling loops                                 *)
(*   "jobs"    the same sessions with a 4x4 core, two flits a row and a    *)
(*             bridge that takes two edges, for what the jobs find         *)
(*   "legacy"  verify_mac_pe on the legacy element                         *)
(*   "nios"    the program of the Nios II processor                        *)
(***************************************************************************)
EXTENDS Integers, Sequences

CONSTANT RD_REVERSED

VARIABLES
  program,
  out_fifo, fifo_wr_ptr, fifo_rd_ptr, fifo_count,
  tx_shift_reg, tx_count, tx_active, tx_sending_flit, tx_row_count,
  skew, pe, deskew,
  seq_start, seq_mode, seq_total_rows, weight_latch_en, sys_readdata, sys_readdatavalid,
  session, job, pc, bridge, verdict, w_mem, x_mem, out_mem,
  rd_queue, rd_pos, wr_queue, wr_pos,
  l_seq_start, l_seq_mode, l_seq_total_rows, l_latch, l_readdata, l_readdatavalid,
  load_weight, valid_in, x_in, y_in, pe_readdata, pe_readdatavalid, mac,
  op, step, result, pulsed,
  span, mem, test, n_pc, tests, ctrl, rows, shadow, active, pipe, sent, rd, wr, failed

Full    == [kind |-> "full", count |-> 1]
Batch   == [kind |-> "batch", count |-> 3]
Perf(n) == [kind |-> "perf", count |-> n]

\* Sessions in which a job that counts its rows starts with tx_row_count at
\* 0.  The third performance test asks for too many matrices.  A batch has
\* more rows than the NPU holds (5 and 10) while the write DMA is stalled, so
\* it stalls the read DMA.
Sessions == { <<Batch, Perf(1), Full>>, <<Perf(1), Perf(2), Perf(4)>>, <<Full, Full>> }
MAX_BATCH == 3

\* What the shift register shifts in.
ZeroFlit == [c \in 0 .. 1 |-> 0]

Small == INSTANCE NpuSystem WITH
  N <- 2, FLITS <- 1, DEPTH <- 1, WORD <- 64, ACC <- 1024, MaxRows <- 6, BRIDGE <- 0
Jobs == INSTANCE NpuSystem WITH
  N <- 4, FLITS <- 2, DEPTH <- 2, WORD <- 64, ACC <- 4096, MaxRows <- 12, BRIDGE <- 2

\* The operands of the code, and the extremes of a byte and of a word.
Operands == {<<7, 3, 10>>, <<-8, -8, 0>>, <<7, -8, -500>>}

Legacy == INSTANCE LegacyPe WITH
  BYTE <- 16, WORD <- 1024, ACC <- 1024,
  seq_start <- l_seq_start, seq_mode <- l_seq_mode, seq_total_rows <- l_seq_total_rows,
  weight_latch_en <- l_latch, sys_readdata <- l_readdata,
  sys_readdatavalid <- l_readdatavalid

\* A batch of 10 matrices, as in the code, and an NPU that holds 8 results.
Nios == INSTANCE NiosDriver WITH BATCH <- 10, NPU_CAP <- 8, MaxTests <- 6, pc <- n_pc

ASSUME Small!SystemAssumption /\ Jobs!SystemAssumption
ASSUME Legacy!LegacyAssumption /\ Nios!NiosAssumption

npuVars ==
  <<out_fifo, fifo_wr_ptr, fifo_rd_ptr, fifo_count,
    tx_shift_reg, tx_count, tx_active, tx_sending_flit, tx_row_count, skew, pe, deskew,
    seq_start, seq_mode, seq_total_rows, weight_latch_en, sys_readdata, sys_readdatavalid,
    session, job, pc, bridge, verdict, w_mem, x_mem, out_mem,
    rd_queue, rd_pos, wr_queue, wr_pos>>
legacyVars ==
  <<l_seq_start, l_seq_mode, l_seq_total_rows, l_latch, l_readdata, l_readdatavalid,
    load_weight, valid_in, x_in, y_in, pe_readdata, pe_readdatavalid, mac,
    op, step, result, pulsed>>
niosVars ==
  <<span, mem, test, n_pc, tests, ctrl, rows, shadow, active, pipe, sent, rd, wr, failed>>
programVars == <<npuVars, program, legacyVars, niosVars>>

Programs == {"linux", "jobs", "legacy", "nios"}

\* A program that does not run has one initial state.
ProgramsInit ==
  /\ program \in Programs
  /\ IF program = "jobs" THEN Jobs!Init ELSE Small!Init
  /\ program \in {"linux", "jobs"} \/ session = CHOOSE s \in Sessions : TRUE
  /\ Legacy!Init
  /\ program = "legacy" \/ op = CHOOSE o \in Operands : TRUE
  /\ Nios!Init

Linux      == program = "linux" /\ Small!Next /\ UNCHANGED <<legacyVars, niosVars>>
LinuxJobs  == program = "jobs" /\ Jobs!Next /\ UNCHANGED <<legacyVars, niosVars>>
LegacyTest == program = "legacy" /\ Legacy!Next /\ UNCHANGED <<npuVars, niosVars>>
NiosTest   == program = "nios" /\ Nios!Next /\ UNCHANGED <<npuVars, legacyVars>>
\* Bound: the user of the Nios program chooses no further test.
NiosEnds ==
  /\ program = "nios" /\ tests = 6 /\ n_pc > Len(Nios!Program)
  /\ UNCHANGED <<npuVars, legacyVars, niosVars>>

ProgramsNext ==
  /\ Linux \/ LinuxJobs \/ LegacyTest \/ NiosTest \/ NiosEnds
  /\ UNCHANGED program

\* The fairness of each program's own specification, while it is the one
\* that runs.
ProgramsFairness ==
  /\ WF_npuVars(/\ program = "linux"
             /\ \E valid, ready \in BOOLEAN : Small!Driver(valid, ready))
  /\ WF_npuVars(/\ program = "linux"
             /\ LET valid == rd_queue # <<>>  ready == wr_queue # <<>>
                IN  Small!Pause(valid, ready) \/ Small!Driver(valid, ready))
  /\ WF_legacyVars(program = "legacy" /\ Legacy!Access)
  /\ WF_legacyVars(program = "legacy" /\ Legacy!Answer)
  /\ WF_niosVars(program = "nios" /\ Nios!Cpu)
  /\ WF_niosVars(program = "nios" /\ Nios!ReadDma)
  /\ WF_niosVars(program = "nios" /\ Nios!WriteDma)

ProgramsSpec == ProgramsInit /\ [][ProgramsNext]_programVars /\ ProgramsFairness

-----------------------------------------------------------------------------

(* What the programs find, and that they end.                              *)

\* The end of packet comes with the very last flit of a sequence, also when
\* the job before left tx_row_count or REG_SEQ_ROWS behind, so the write DMA
\* never ends a transfer early.
EopEndsEveryJob == IF program = "jobs" THEN Jobs!EopEndsJob ELSE Small!EopEndsJob

\* When npu_wait_execution lets the driver go on, no row is left in the core,
\* the FIFO or the shift register, and no descriptor in an engine.
NoJobLeavesRows == IF program = "jobs" THEN Jobs!NothingLeftBehind ELSE Small!NothingLeftBehind

\* While npu_load_matrix feeds activations, every element multiplies by the
\* weights of its own job, although npu_load_weights polls a bit that is never
\* set before it writes the latch.
JobsFindWeights ==
  IF program = "jobs" THEN Jobs!WeightsInPlace ELSE Small!WeightsInPlace

\* What each program compares is right.  Every job of a Linux session finds
\* in memory (npu_parse_output) the product the processor computes, in order
\* and with the job's own weights.  verify_mac_pe reads weight * x + y at any
\* pace of the processor, without the pauses main.c puts in for it
\* (EarlyReadIsStale of MCLegacyPe), and on the state the last call left.  A
\* test of the Nios program finds the product of its own inputs and weights in
\* the window of the address span extender, and the engines read only matrices
\* of the running test.
ProgramsPass ==
  /\ IF program = "jobs" THEN Jobs!JobsPass ELSE Small!JobsPass
  /\ Legacy!LegacyResult /\ Nios!TestsPass /\ Nios!ReadsFresh

\* Every program comes back to its menu: each polling loop of the Linux
\* driver ends, although batches stall the NPU back to the read DMA
\* (npu_load_weights, npu_wait_execution), every call of verify_mac_pe gets
\* its answer, and every test of the Nios program ends.
ProgramsEnd ==
  /\ program = "linux" => Small!SessionEnds
  /\ program = "legacy" => Legacy!LegacyAnswers
  /\ Nios!TestsEnd
=============================================================================
