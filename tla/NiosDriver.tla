----------------------------- MODULE NiosDriver -----------------------------
(***************************************************************************)
(* The driver and tests of software/npu/main.c and common.c on the Nios II *)
(* inside the FPGA.  It reaches the memory that the DMA engines use by     *)
(* their physical addresses through a window of the address span extender, *)
(* and bypasses its data cache (IOWR_32DIRECT), so that                    *)
(* alt_dcache_flush_all changes nothing here.                              *)
(*                                                                         *)
(* Memory is counted in blocks of 64 bytes, the size of an input matrix; a *)
(* result takes four.  Of a matrix only its origin is kept: the test and   *)
(* its number in it.  The NPU is what module NpuSystem models clock by     *)
(* clock, reduced to one step per matrix.  msgdma_init has no step: it     *)
(* clears status bits that nothing here reads and a stop bit that nothing  *)
(* here sets.                                                              *)
(***************************************************************************)
EXTENDS Integers, Sequences

CONSTANTS
  BATCH,          \* matrices of the streaming test, 10 in the code
  NPU_CAP,        \* results the NPU holds when the write DMA is stalled
  MaxTests        \* bound: tests the user starts

NiosAssumption == {BATCH, NPU_CAP, MaxTests} \subseteq Nat \ {0} /\ BATCH < 64

PHYSICAL == 8388608        \* 0x20000000 / 64
WEIGHTS == 0               \* offsets of the regions
INPUTS == 64               \* 0x1000
DST == 128                 \* 0x2000, full system test
OUTPUTS == 512             \* 0x8000, streaming test
Offsets == (WEIGHTS .. WEIGHTS + 3) \cup (INPUTS .. INPUTS + BATCH + 3)
           \cup (DST .. DST + 3) \cup (OUTPUTS .. OUTPUTS + 4 * BATCH - 1)
Addresses == UNION {{o, PHYSICAL + o} : o \in Offsets}

VARIABLES
  span,           \* register of the address span extender, in blocks
  mem,            \* physical memory
  test, pc, tests, \* the running test, its next step, and tests started
  ctrl, rows,     \* REG_CTRL and REG_SEQ_ROWS (in matrices) of the NPU
  shadow, active, \* weights loaded and weights latched
  pipe, sent,     \* results in the NPU, and results sent since an end of packet
  rd, wr,         \* descriptors of the DMA engines
  failed          \* a test has printed FAIL

vars == <<span, mem, test, pc, tests, ctrl, rows, shadow, active, pipe, sent, rd, wr, failed>>
npuVars == <<ctrl, rows, shadow, active, pipe, sent>>

Clear == <<"zero", 0, 0>>
Result(w, x) == <<"result", w, x>>

Init ==
  /\ span = 0 /\ mem = [a \in Addresses |-> Clear]
  /\ test = "none" /\ pc = 1 /\ tests = 0 /\ failed = FALSE
  /\ ctrl = 0 /\ rows = 0 /\ shadow = Clear /\ active = Clear
  /\ pipe = <<>> /\ sent = 0 /\ rd = <<>> /\ wr = <<>>

-----------------------------------------------------------------------------
(* The programs.                                                           *)

npu_load_weights == <<"mode load", "feed weights", "await read", "latch">>
npu_get_matrix == <<"collect">>
npu_load_matrix == <<"mode run", "feed inputs">>

\* (ReadDoneBug: the program waits for the read DMA only.)
ReadDoneBug == <<"await read">>
npu_wait_execution == <<"await write">>

\* (NoSpanBug: the window is left where it is.)
NoSpanBug == <<>>
set_span == <<"span">>

verify_full_system ==
  <<"mode idle">> \o set_span \o <<"clear regions", "weights", "inputs">>
  \o npu_load_weights \o npu_get_matrix \o npu_load_matrix
  \o npu_wait_execution \o <<"verify">>

verify_streaming_batch ==
  set_span \o <<"weights", "inputs", "clear outputs">> \o npu_load_weights
  \o <<"rows">> \o npu_get_matrix \o npu_load_matrix
  \o npu_wait_execution \o <<"verify">>

\* It latches the NPU's weights too: the register is shared.
verify_mac_pe == <<"latch">>

Program ==
  CASE test = "full" -> verify_full_system [] test = "batch" -> verify_streaming_batch
    [] test = "mac" -> verify_mac_pe [] test = "none" -> <<>>

Count == IF test = "full" THEN 1 ELSE BATCH
Out == IF test = "full" THEN DST ELSE OUTPUTS

\* The menu of main: get_char_polled, and a test.  Sessions are those in which a
\* test that counts its rows finds the NPU's count at zero (see README.md).
Choose(t) ==
  /\ pc > Len(Program) /\ tests < MaxTests
  /\ t = "batch" => sent = 0
  /\ test' = t /\ pc' = 1 /\ tests' = tests + 1
  /\ UNCHANGED <<span, mem, npuVars, rd, wr, failed>>

-----------------------------------------------------------------------------
(* Steps of the processor.                                                 *)

At(s) == pc <= Len(Program) /\ Program[pc] = s /\ pc' = pc + 1 /\ UNCHANGED <<test, tests>>
Window(o) == span + o
Write(f) == mem' = [a \in Addresses |-> IF a \in DOMAIN f THEN f[a] ELSE mem[a]]
Zero(o, n) == [a \in {Window(o + i) : i \in 0..n-1} |-> Clear]

SetSpan == At("span") /\ span' = PHYSICAL /\ UNCHANGED <<mem, npuVars, rd, wr, failed>>

\* 256 bytes of each region in the full system test.
ClearRegions ==
  /\ At("clear regions")
  /\ mem' = [a \in Addresses |->
       IF a \in UNION {DOMAIN Zero(o, 4) : o \in {WEIGHTS, INPUTS, DST}} THEN Clear ELSE mem[a]]
  /\ UNCHANGED <<span, npuVars, rd, wr, failed>>

ClearOutputs ==
  /\ At("clear outputs") /\ Write(Zero(OUTPUTS, 4 * BATCH))
  /\ UNCHANGED <<span, npuVars, rd, wr, failed>>

\* npu_format_weights and npu_format_inputs
FormatWeights ==
  /\ At("weights") /\ Write([a \in {Window(WEIGHTS)} |-> <<"weights", tests, 0>>])
  /\ UNCHANGED <<span, npuVars, rd, wr, failed>>
FormatInputs ==
  /\ At("inputs")
  /\ Write([a \in {Window(INPUTS + i) : i \in 0..Count-1} |-> <<"input", tests, a - Window(INPUTS)>>])
  /\ UNCHANGED <<span, npuVars, rd, wr, failed>>

\* REG_CTRL: 3 loads weights, 1 executes; the busy bit polled around it is
\* never set.
SetMode ==
  /\ \/ At("mode idle") /\ ctrl' = 0
     \/ At("mode load") /\ ctrl' = 3
     \/ At("mode run") /\ ctrl' = 1
  /\ UNCHANGED <<span, mem, rows, shadow, active, pipe, sent, rd, wr, failed>>

SetRows ==
  /\ At("rows") /\ rows' = BATCH
  /\ UNCHANGED <<span, mem, ctrl, shadow, active, pipe, sent, rd, wr, failed>>

Latch ==
  /\ At("latch") /\ active' = shadow
  /\ UNCHANGED <<span, mem, ctrl, rows, shadow, pipe, sent, rd, wr, failed>>

\* msgdma_read_stream_push and msgdma_write_stream_push, physical addresses.
Feed ==
  /\ \/ At("feed weights") /\ rd' = Append(rd, [addr |-> PHYSICAL + WEIGHTS, len |-> 1])
     \/ At("feed inputs") /\ rd' = Append(rd, [addr |-> PHYSICAL + INPUTS, len |-> Count])
  /\ UNCHANGED <<span, mem, npuVars, wr, failed>>
CollectResults ==
  /\ At("collect") /\ wr' = Append(wr, [addr |-> PHYSICAL + Out, len |-> Count])
  /\ UNCHANGED <<span, mem, npuVars, rd, failed>>

\* Polling the busy bit of an engine.
Await ==
  /\ \/ At("await read") /\ rd = <<>>
     \/ At("await write") /\ wr = <<>>
  /\ UNCHANGED <<span, mem, npuVars, rd, wr, failed>>

\* npu_parse_output and the comparison, through the window.
Verify ==
  /\ At("verify")
  /\ failed' = (failed \/ \E i \in 0..Count-1, k \in 0..3 :
       mem[Window(Out + 4 * i + k)] # Result(<<"weights", tests, 0>>, <<"input", tests, i>>))
  /\ UNCHANGED <<span, mem, npuVars, rd, wr>>

-----------------------------------------------------------------------------
(* The engines and the NPU.                                                *)

\* The read DMA delivers a matrix; what it means depends on REG_CTRL.
ReadDma ==
  LET d == Head(rd)  x == mem[d.addr] IN
  /\ rd # <<>> /\ Len(pipe) < NPU_CAP
  /\ IF ctrl = 3 THEN shadow' = x /\ UNCHANGED pipe
     ELSE pipe' = Append(pipe, Result(active, x)) /\ UNCHANGED shadow
  /\ rd' = IF d.len = 1 THEN Tail(rd)
           ELSE <<[addr |-> d.addr + 1, len |-> d.len - 1]>> \o Tail(rd)
  /\ UNCHANGED <<span, mem, test, pc, tests, ctrl, rows, active, sent, wr, failed>>

\* The write DMA stores a result, and ends at its length or at the end of the
\* packet, when REG_SEQ_ROWS rows were sent.
WriteDma ==
  LET d == Head(wr)  eop == sent + 1 = rows IN
  /\ wr # <<>> /\ pipe # <<>>
  /\ Write([a \in d.addr .. d.addr + 3 |-> Head(pipe)])
  /\ pipe' = Tail(pipe) /\ sent' = IF eop THEN 0 ELSE sent + 1
  /\ wr' = IF d.len = 1 \/ eop THEN Tail(wr)
           ELSE <<[addr |-> d.addr + 4, len |-> d.len - 1]>> \o Tail(wr)
  /\ UNCHANGED <<span, test, pc, tests, ctrl, rows, shadow, active, rd, failed>>

Cpu ==
  \/ SetSpan \/ ClearRegions \/ ClearOutputs \/ FormatWeights \/ FormatInputs \/ SetMode
  \/ SetRows \/ Latch \/ Feed \/ CollectResults \/ Await \/ Verify

Next == Cpu \/ ReadDma \/ WriteDma \/ \E t \in {"full", "batch", "mac"} : Choose(t)

\* The processor and the engines keep running; the user need not choose.
Spec == Init /\ [][Next]_vars /\ WF_vars(Cpu) /\ WF_vars(ReadDma) /\ WF_vars(WriteDma)

-----------------------------------------------------------------------------
\* Every test finds the product of its own inputs and its own weights in the
\* window, although the engines work on physical addresses and the regions of
\* the tests overlap (main.c, verify_full_system, verify_streaming_batch).
TestsPass == ~failed

\* An engine reads only matrices of the running test (main.c: the regions are
\* written before their descriptors are pushed, and not while they are read).
ReadsFresh ==
  rd # <<>> => \A i \in 0..Head(rd).len-1 : mem[Head(rd).addr + i][2] = tests

\* Every test comes back to the menu: both polling loops end, however many
\* results the NPU can hold (npu_load_weights, npu_wait_execution).
TestsEnd == pc <= Len(Program) ~> pc > Len(Program)
=============================================================================
