----------------------------- MODULE NpuSystem -----------------------------
(***************************************************************************)
(* The whole path: the driver of linux_software/npu_test/main.c on the     *)
(* processor, the two MSGDMA engines (external IP, modelled from the way   *)
(* the driver programs them), shared memory, and the NPU.                  *)
(*                                                                         *)
(* A session is a sequence of menu choices.  Every step is a clock edge of *)
(* the NPU; at an edge the processor makes its next access or none, so its *)
(* speed is arbitrary, and each DMA engine may be held up by the memory.   *)
(* msgdma_init only clears status bits and the stop bit of engines that    *)
(* never stop, so it has no step.                                          *)
(***************************************************************************)
EXTENDS NpuUnit, Sequences, SequencesExt

CONSTANTS
  Sessions,      \* the sequences of jobs tried; a job is [kind, count]
  MaxRows,       \* bound: rows of the longest job
  MAX_BATCH,     \* most matrices of a performance test; 4000 in the code
  RD_REVERSED,   \* TRUE: the read DMA delivers the bytes of a beat reversed
  BRIDGE         \* edges the bridge needs to bring a register value back

SystemAssumption ==
  /\ ColsAssumption /\ DEPTH > 0 /\ WORD > 0 /\ ACC % 2 = 0
  /\ \A s \in Sessions : \A b \in DOMAIN s :
       /\ s[b].kind \in {"full", "batch", "perf"}
       /\ s[b].count \in Int
       /\ s[b].kind # "perf" => s[b].count > 0 /\ N * s[b].count <= MaxRows
  /\ MAX_BATCH \in Nat /\ N * MAX_BATCH <= MaxRows
  /\ COLS = 2
  /\ RD_REVERSED \in BOOLEAN /\ BRIDGE \in Nat

VARIABLES
  session, job, pc,            \* the menu, and the position in a job's program
  bridge,                      \* edges until the value of a read is back
  verdict,                     \* the comparison at the end of every finished job
  w_mem, x_mem, out_mem,       \* memory: whose weights and inputs; the results
  rd_queue, rd_pos,            \* read DMA: descriptors, beats of the first sent
  wr_queue, wr_pos             \* write DMA: descriptors, flits of the first stored

driverVars == <<session, job, pc, verdict>>
dmaVars    == <<rd_queue, rd_pos, wr_queue, wr_pos>>
memVars    == <<w_mem, x_mem, out_mem>>
vars == <<unitVars, driverVars, bridge, dmaVars, memVars>>

----------------------------------------------------------------------------
(* Matrices and memory *)

\* The matrices of the b-th job of a session, all different.
Weights(b)  == [c \in Idx \X Idx |-> 1 + c[1] + (1 + b) * c[2]]
Input(b, k) == [i \in Idx |-> b + k + 2 * i]

cpu_matmul(b, k) ==
  [j \in Idx |-> SignedAcc(FoldSet(
     LAMBDA i, sum : sum + Input(b, k)[i] * Weights(b)[i, j], 0, Idx))]

\* The streaming and the performance test use the same addresses.
Region(kind) == IF kind = "full" THEN "full" ELSE "batch"

\* A word of memory: a sum, with its bytes in order or swapped.
ZeroWord   == [val |-> 0, swapped |-> FALSE]
bswap32(w) == [w EXCEPT !.swapped = ~w.swapped]
ZeroMem    == [a \in 0 .. MaxRows * N - 1 |-> ZeroWord]

\* Mutant: the columns are read in memory order.
npu_parse_output_plain(mem, r) == [c \in Idx |-> bswap32(mem[r * N + c])]

\* npu_parse_output, row r: column c is word c ^ 1 of the row, bytes swapped.
npu_parse_output(mem, r) ==
  [c \in Idx |-> bswap32(mem[r * N + (IF c % 2 = 0 THEN c + 1 ELSE c - 1)])]

----------------------------------------------------------------------------
(* The driver's programs: a step is an access to the NPU's registers, or    *)
(* one of the other things named in Driver below.                          *)

Do(what) == [kind |-> what, addr |-> 0, data |-> 0]

\* Mutant: the latch is written without waiting for the read DMA.
npu_load_weights_hasty ==
  << IOWR(REG_CTRL, 3), Do("feed weights"),
     IOWR(REG_LATCH, 1), IOWR(REG_LATCH, 0) >>

PollStatus == << IORD(REG_STATUS), Do("await idle") >>

npu_load_weights ==
  << IOWR(REG_CTRL, 3), Do("feed weights"), Do("await read") >>
  \o PollStatus \o << IOWR(REG_LATCH, 1), IOWR(REG_LATCH, 0) >>

npu_get_matrix     == << Do("collect") >>
npu_load_matrix    == << IOWR(REG_CTRL, 1), Do("feed inputs") >>

\* Mutant: the results are parsed as soon as all inputs were read.
npu_wait_execution_input == << Do("await read") >> \o PollStatus

npu_wait_execution == << Do("await write") >> \o PollStatus

verify_full_system ==
  << IOWR(REG_CTRL, 0), IOWR(REG_CTRL, 0) >> \o PollStatus \o << Do("clear and format") >>
  \o npu_load_weights \o npu_get_matrix \o npu_load_matrix
  \o npu_wait_execution \o << Do("compare") >>

\* Mutant: one row too few announced.
verify_streaming_batch_short(count) ==
  << Do("clear and format") >> \o npu_load_weights
  \o << IOWR(REG_SEQ_ROWS, count * N - 1) >> \o npu_get_matrix \o npu_load_matrix
  \o npu_wait_execution \o << Do("compare") >>

verify_streaming_batch(count) ==
  << Do("clear and format") >> \o npu_load_weights
  \o << IOWR(REG_SEQ_ROWS, count * N) >> \o npu_get_matrix \o npu_load_matrix
  \o npu_wait_execution \o << Do("compare") >>

\* The performance test takes its count from the user, and does not clear
\* the result memory.
BatchAllowed(count) == 0 < count /\ count <= MAX_BATCH

verify_performance(count) ==
  << Do("format") >> \o npu_load_weights
  \o << IOWR(REG_SEQ_ROWS, count * N) >> \o npu_get_matrix \o npu_load_matrix
  \o npu_wait_execution \o << Do("compare") >>

Program(j) == CASE j.kind = "full"  -> verify_full_system
                [] j.kind = "batch" -> verify_streaming_batch(j.count)
                [] j.kind = "perf"  -> verify_performance(j.count)

\* verify_full_system handles one matrix.
JobRows(j) == IF j.kind = "full" THEN N ELSE N * j.count

Job  == session[job]
Step == Program(Job)[pc]
AtMenu == job > Len(session) \/ pc = 1

----------------------------------------------------------------------------
(* The DMA engines and one clock edge *)

Init ==
  /\ UnitReset
  /\ session \in Sessions /\ job = 1 /\ pc = 1 /\ verdict = <<>> /\ bridge = 0
  /\ w_mem = 0 /\ x_mem = [r \in {"full", "batch"} |-> 0]
  /\ out_mem = [r \in {"full", "batch"} |-> ZeroMem]
  /\ rd_queue = <<>> /\ rd_pos = 0 /\ wr_queue = <<>> /\ wr_pos = 0

\* Beat p of a read descriptor.  npu_format_weights stores the columns from
\* the last to the first, npu_format_inputs the rows in order.
ReadBeat(d, p) ==
  LET row(i) == IF RD_REVERSED THEN N - 1 - i ELSE i
  IN  [i \in Idx |-> IF d.src = "weights" THEN Weights(w_mem)[row(i), N - 1 - p]
                     ELSE Input(x_mem[d.src], p)[row(i)]]

ReadDma(valid, x, push) ==
  LET taken == valid /\ st_sink_ready(valid, x)
      last  == taken /\ rd_pos + 1 = Head(rd_queue).len
  IN  /\ rd_queue' = (IF last THEN Tail(rd_queue) ELSE rd_queue) \o push
      /\ rd_pos' = IF last THEN 0 ELSE IF taken THEN rd_pos + 1 ELSE rd_pos

\* The write DMA stores the 64 bits of a flit with their bytes reversed, and
\* ends a descriptor at its length or at an end of packet.
StoreFlit(mem, p) ==
  [a \in DOMAIN mem |->
     IF a \div COLS = p
       THEN [val |-> st_source_data[COLS - 1 - (a % COLS)], swapped |-> TRUE]
       ELSE mem[a]]

WriteDma(ready, mem, push) ==
  LET taken == ready /\ st_source_valid
      d     == Head(wr_queue)
      last  == taken /\ (wr_pos + 1 = d.len \/ st_source_endofpacket)
  IN  /\ wr_queue' = (IF last THEN Tail(wr_queue) ELSE wr_queue) \o push
      /\ wr_pos' = IF last THEN 0 ELSE IF taken THEN wr_pos + 1 ELSE wr_pos
      /\ out_mem' = IF taken THEN [mem EXCEPT ![d.dst] = StoreFlit(mem[d.dst], wr_pos)]
                             ELSE mem

Edge(valid, ready, bus, push_rd, push_wr, mem) ==
  LET x == IF valid THEN ReadBeat(Head(rd_queue), rd_pos) ELSE [i \in Idx |-> 0]
  IN  /\ valid => rd_queue # <<>>
      /\ ready => wr_queue # <<>>
      /\ UnitClock(bus, valid, x, ready)
      /\ bridge' = IF bus.kind = "read" THEN BRIDGE
                   ELSE IF bridge > 0 THEN bridge - 1 ELSE 0
      /\ ReadDma(valid, x, push_rd)
      /\ WriteDma(ready, mem, push_wr)

----------------------------------------------------------------------------
(* The processor *)

\* Between two accesses, or polling a busy engine.
Pause(valid, ready) ==
  /\ Edge(valid, ready, NoAccess, <<>>, <<>>, out_mem)
  /\ UNCHANGED <<driverVars, w_mem, x_mem>>

Advance == pc' = pc + 1 /\ UNCHANGED <<session, job, verdict>>

\* IOWR to a register, or IORD of REG_STATUS.
Access(valid, ready) ==
  /\ Step.kind \in {"write", "read"}
  /\ Edge(valid, ready, Step, <<>>, <<>>, out_mem)
  /\ Advance
  /\ UNCHANGED <<w_mem, x_mem>>

\* The status arrives (the register keeps it until the next read): read it
\* again while its busy bit is up.
AwaitIdle(valid, ready) ==
  /\ Step.kind = "await idle" /\ bridge = 0
  /\ Edge(valid, ready, NoAccess, <<>>, <<>>, out_mem)
  /\ pc' = IF Bit(sys_readdata, 0) = 1 THEN pc - 1 ELSE pc + 1
  /\ UNCHANGED <<session, job, verdict, w_mem, x_mem>>

\* The processor writes the matrices, and zeroes the result memory first.
Format(valid, ready) ==
  LET r == Region(Job.kind)
  IN  /\ Step.kind \in {"clear and format", "format"}
      /\ Edge(valid, ready, NoAccess, <<>>, <<>>,
              IF Step.kind = "format" THEN out_mem ELSE [out_mem EXCEPT ![r] = ZeroMem])
      /\ w_mem' = job /\ x_mem' = [x_mem EXCEPT ![r] = job]
      /\ Advance

\* msgdma_read_stream_push: the last of its four writes sets the GO bit.
Feed(valid, ready) ==
  /\ Step.kind \in {"feed weights", "feed inputs"}
  /\ Edge(valid, ready, NoAccess,
          << IF Step.kind = "feed weights" THEN [src |-> "weights", len |-> N]
             ELSE [src |-> Region(Job.kind), len |-> JobRows(Job)] >>, <<>>, out_mem)
  /\ Advance
  /\ UNCHANGED <<w_mem, x_mem>>

\* msgdma_write_stream_push, with End on EOP.
CollectResults(valid, ready) ==
  /\ Step.kind = "collect"
  /\ Edge(valid, ready, NoAccess, <<>>,
          << [dst |-> Region(Job.kind), len |-> JobRows(Job) * FLITS] >>, out_mem)
  /\ Advance
  /\ UNCHANGED <<w_mem, x_mem>>

\* The busy bit of a DMA engine is down.
AwaitDma(valid, ready) ==
  /\ \/ Step.kind = "await read" /\ rd_queue = <<>>
     \/ Step.kind = "await write" /\ wr_queue = <<>>
  /\ Edge(valid, ready, NoAccess, <<>>, <<>>, out_mem)
  /\ Advance
  /\ UNCHANGED <<w_mem, x_mem>>

\* Parse the results, compare them with the processor's own product, and go
\* back to the menu.
Compare(valid, ready) ==
  /\ Step.kind = "compare"
  /\ Edge(valid, ready, NoAccess, <<>>, <<>>, out_mem)
  /\ verdict' = Append(verdict, \A k \in 0 .. JobRows(Job) - 1 :
       npu_parse_output(out_mem[Region(Job.kind)], k) =
         [c \in Idx |-> [val |-> cpu_matmul(job, k)[c], swapped |-> FALSE]])
  /\ job' = job + 1 /\ pc' = 1
  /\ UNCHANGED <<session, w_mem, x_mem>>

Perform(valid, ready) ==
  \/ Access(valid, ready)
  \/ AwaitIdle(valid, ready)
  \/ Format(valid, ready)
  \/ Feed(valid, ready)
  \/ CollectResults(valid, ready)
  \/ AwaitDma(valid, ready)
  \/ Compare(valid, ready)

\* The performance test gives up before it touches the NPU: the count is out
\* of range, or there is no memory for the matrices.
ReturnEarly(valid, ready) ==
  /\ Job.kind = "perf" /\ pc = 1
  /\ Edge(valid, ready, NoAccess, <<>>, <<>>, out_mem)
  /\ job' = job + 1
  /\ UNCHANGED <<session, pc, verdict, w_mem, x_mem>>

Driver(valid, ready) ==
  /\ job <= Len(session)
  /\ \/ /\ Job.kind = "perf" => BatchAllowed(Job.count)
        /\ Perform(valid, ready)
     \/ ReturnEarly(valid, ready)

Next == \E valid, ready \in BOOLEAN : Pause(valid, ready) \/ Driver(valid, ready)

\* The processor keeps executing, the clock keeps running, and the memory
\* lets each engine make progress again and again.
Fairness ==
  /\ WF_vars(\E valid, ready \in BOOLEAN : Driver(valid, ready))
  /\ WF_vars(LET valid == rd_queue # <<>>  ready == wr_queue # <<>>
             IN  Pause(valid, ready) \/ Driver(valid, ready))

Spec == Init /\ [][Next]_vars /\ Fairness

----------------------------------------------------------------------------
(* Properties *)

\* Every job that ended reported PASS: the results in memory are the product
\* the processor computes, in order, with the right weights.
JobsPass == \A b \in DOMAIN verdict : verdict[b]

\* The write DMA sees an end of packet only on the very last flit of the
\* sequence it was programmed for, so it never ends a transfer early.
EopEndsJob ==
  wr_queue # <<>> /\ st_source_endofpacket => wr_pos + 1 = Head(wr_queue).len

CoreEmpty ==
  /\ \A c \in Idx \X Idx : ~pe[c].vx /\ ~pe[c].vy
  /\ \A i \in Idx : \A s \in 0 .. i - 1 : ~skew[i][s].v
  /\ \A j \in Idx : \A k \in 0 .. DELAY(j) - 1 : ~deskew[j][k].v

\* When npu_wait_execution lets the driver go on, the job has left nothing
\* behind: no row in the core, the FIFO or the shift register, no
\* descriptor in an engine.  REG_STATUS says nothing about it (its busy bit
\* is never set), so this rests on the write DMA alone.
NothingLeftBehind ==
  AtMenu => /\ rd_queue = <<>> /\ wr_queue = <<>>
            /\ fifo_empty /\ ~tx_active /\ CoreEmpty

\* While activations are fed, every element multiplies by the job's own
\* weights.
WeightsInPlace ==
  rd_queue # <<>> /\ Head(rd_queue).src # "weights" =>
    \A c \in Idx \X Idx :
      pe[c].active = Weights(w_mem)[IF RD_REVERSED THEN N - 1 - c[1] ELSE c[1], c[2]]

\* A weight token that has not reached its last element.
WeightInMotion ==
  \/ \E i \in Idx : \E s \in 0 .. i - 1 : skew[i][s].v /\ skew[i][s].lw
  \/ \E i \in Idx, j \in 0 .. N - 2 : pe[i, j].vx /\ pe[i, j].ws

\* What LESSONS_LEARNED.md says of the two polling loops in npu_load_weights:
\* however fast the processor is, it reaches the latch only when the NPU is
\* idle.
LatchWaitsForIdle == weight_latch_en => ~WeightInMotion

\* What npu_ctrl.v and REG_MAP.md say of seq_mode: 0 loads weights, 1
\* executes.  An element's shadow weight changes only in a mode that loads.
ModeZeroLoads == [][pe[0, 0].shadow # pe'[0, 0].shadow => seq_mode % 2 = 0]_vars

\* Every session ends: the driver's polling loops all terminate.
SessionEnds == <>(job > Len(session))

============================================================================
