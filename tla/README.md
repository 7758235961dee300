# Verification of the NPU

TLA+ models of the NPU of this repository and of the software it runs under.
The first half is the NPU itself: the systolic matrix multiplier in `rtl/`, the
register interface, the stream controller, and the drivers that run jobs on it
through two MSGDMA engines. The second half is the board support package of the
Nios II processor in `software/npu_bsp`: the JTAG UART and MSGDMA drivers, the
clock and its alarms, interrupts, caches, heap and file descriptors. TLC checks
the models on small instances; TLAPS proves the safety properties of the
components (stream controller, systolic core, both JTAG UART drivers, MSGDMA
driver and prefetcher, clock and alarms, interrupts, file descriptors, caches and
heap) for every size. What stays with TLC is liveness and the sessions of the
whole system.

## The system

| Part | State | Operations | Talks to |
|---|---|---|---|
| `mac_pe.v` processing element | shadow and active weight, x and y token with valid bits | load a weight, multiply-accumulate, drain, latch | neighbours, by valid/ready in both directions |
| `systolic_array.v`, `systolic_core.v` | N x N elements, skew registers per row, de-skew registers per column | one clock edge; all ready wires are combinational | sink stream, stream controller |
| `npu_stream_ctrl.v` | row FIFO (8 x 256 bit), shift register, flit counter, row counter | push a row, start, hold, shift, next row, drained | core, write DMA |
| `npu_ctrl.v` | `seq_mode`, `seq_total_rows`, pulses `seq_start`, `weight_latch_en`, read data | register writes and reads | processor, everything else |
| `mac_pe_ctrl.v` and the legacy element | operand registers, one element | register writes and reads | processor |
| Linux driver `linux_software/npu_test/main.c` | position in a test | load weights, feed rows, collect, poll, compare | registers, DMA engines, memory |
| Nios II driver `software/npu/` | the same | the same three tests without the performance test | the same |
| `altera_avalon_jtag_uart_*.c` | receive and transmit ring, interrupt shadow, inactivity count | read, write, ioctl, close, interrupt, timeout alarm | UART core, alarms, interrupts |
| `altera_msgdma.c` | descriptors, callback, the engine's registers | construct, asynchronous and synchronous transfer, interrupt; lists for the prefetcher | engine, interrupts, cache |
| `alt_tick.c`, `alt_alarm_start.c`, `alt_llist.h`, timer driver | tick count, alarm list | tick, start, stop, callbacks | timer interrupt, every driver with a timeout |
| `alt_gettod.c`, `alt_settod.c`, `alt_times.c`, `alt_busy_sleep.c` | offset to the ticks; loop counters | get, set; sleep | tick count |
| cache routines, `alt_load.c`, `alt_sbrk.c` | caches, memory; end of the heap, stack limit | flush, uncached allocation, copy of sections; extend the heap | DMA engines; newlib's malloc |
| `alt_open.c`, `alt_get_fd.c`, `alt_fd_lock.c`, ... | descriptor pool, device lists, flags | open, close, lock, unlock, fcntl, stat, redirection | drivers, threads |
| `alt_irq_handler.c`, `alt_iic*.c`, `alt_irq.h`, `alt_exception_entry.S`, ... | handler table, enabled interrupts, priority mask, status | register, enable, disable, critical sections, dispatch, nested handlers, traps | processor, every driver |
| MSGDMA read and write engine (external) | descriptor queue, position | move beats, end at length or at EOP | memory, the two streams |

What is hard here: stalls that arrive from two sides in any combination at a
two-dimensional pipeline; a FIFO pushed and popped at the same edge; packet
marks computed from a register that software may rewrite; state that survives
from one job to the next; and a software handshake that relies on busy bits. In
the board support package it is interrupt handlers that run between any two
steps of the code they share state with, callbacks that change the list being
walked, counters that wrap, timeouts, memory seen by two masters through a
cache, and a descriptor pool shared by threads.

What makes the parts correct: no row or partial sum is lost, repeated,
reordered or mixed with another one; the weights an element uses are the ones
of the job; packets end where the job ends; polling loops end; what the driver
finds in memory is the product. For the board support package: characters,
descriptors and ticks are neither lost nor repeated; what must run does run, once
and in time; an interrupt changes nothing it should not; calls return.

## Modules

| Module | Models |
|---|---|
| `NpuStreamCtrl` | `npu_stream_ctrl.v`: the wires as state functions, the three always blocks as one clock edge `StreamClock` |
| `NpuStream` | the controller between a core and a write DMA that are valid and ready as they like; history variables and properties |
| `RowStream` | the abstract promise: rows accepted up to a capacity are delivered flit by flit, in order, in packets |
| `NpuStreamProofs`, `SystolicProofs` | the theorems about `NpuStream` and `SystolicBench` |
| `JtagUartProofs`, `MsgdmaProofs` | about `JtagUart` and `JtagUartSmall`; `Msgdma`, `MsgdmaDescriptor` and `MsgdmaPrefetcher` |
| `HalClockProofs`, `HalIrqProofs` | about `HalAlarm`, `AltLlist`, `CycleCounter`, `TimeOfDay` and `BusySleep`; `HalIrq` |
| `HalFileProofs`, `HalMemoryProofs` | about `HalFile`; `HalCache` and `HalHeap` |
| `MacPe` | `mac_pe.v`: the element's registers as a record, its clock edge as the operator `PeStep` |
| `SystolicCore` | `systolic_core.v` and `systolic_array.v`: variables `skew`, `pe`, `deskew`, the clock edge `CoreClock` |
| `SystolicBench` | the core with a source and a sink of arbitrary speed, running jobs as the driver does |
| `NpuCtrl` | `npu_ctrl.v`: registers and read multiplexer; a bus access is a record |
| `MacPeCtrl`, `LegacyPe` | the legacy register bank with its element, and `verify_mac_pe` |
| `NpuUnit` | `npu_unit.v`: registers, core and stream controller wired together (`UnitClock`) |
| `NpuSystem` | the driver, both DMA engines, memory and `NpuUnit` |
| `NiosDriver` | `software/npu/main.c` and `common.c`: the three tests on the Nios II with the address span window, regions of memory and both engines, one step per matrix |
| `JtagUartHw`, `JtagUart` | the UART core (external) and the buffered driver: program, interrupt handler and alarm as separate actors |
| `JtagUartSmall` | the polling driver, which this build selects (`ALT_USE_SMALL_DRIVERS`) |
| `MsgdmaDescriptor`, `Msgdma` | descriptor construction with its checks; the transfers word by word against the engine and its interrupt |
| `MsgdmaPrefetcher` | descriptor lists, owner bits, cache flush, start and the walk of the prefetcher |
| `AltLlist`, `HalAlarm` | `alt_llist.h`; system tick, alarms and callbacks over a wrapping counter |
| `CycleCounter` | `get_total_cycles` and the timestamp driver against the timer and its interrupt |
| `TimeOfDay`, `BusySleep` | the time of day calls and the delay loops with their widths |
| `HalCache` | the cache routines, uncached memory and the loader over a write-back data cache and an instruction cache |
| `HalHeap` | `sbrk` with the stack check |
| `HalFile` | file descriptors and devices, one step per entry a loop looks at |
| `HalIrq` | exception entry, dispatcher, registration, masks, critical sections, nested handlers, traps: one stack of frames of which the top one runs |
| `MCNpuStream`, `MCSystolic`, `MCNpuSystem`, `MCMsgdma` | constants for TLC |
| `MCLegacyPe` | operands for TLC, and a history of how fast the processor reads the result |
| `MCPrograms`, `MCUart`, `MCDma`, `MCClock`, `MCFiles` | several components for one run each, see below |

In the modules of the RTL a step is one rising clock edge. The RTL's nonblocking assignments become
primed variables, its `assign`s become state functions with the same names, and
the inputs of an edge (valid, ready, bus access) are chosen with `\E`. The ready
wires of the array form a chain from the bottom right corner to the top left;
`ready_wires` computes it as a recursive function over the elements.

In `NpuSystem` a test of the driver is a sequence of steps (`npu_load_weights`,
`npu_load_matrix`, ...), composed as the C functions call each other. At each
edge the processor takes its next step or none, so it may be arbitrarily slow
or as fast as one access per edge; each engine may be held up by memory at any
edge. `BRIDGE` is the number of edges the bridge needs to bring a register
value back. The only operations without a step are `msgdma_init`, which clears
status bits nobody reads and a stop bit that is never set, and the printing and
timing of the tests. Preparing the matrices, and clearing the result memory, is
one step: neither engine is running then. A performance test with a count out
of range, or without memory for its matrices, returns at once (`ReturnEarly`).

In the modules of the board support package a step is as much code as runs
without an access to state that another actor (interrupt handler, thread,
device) may change or see in between; sections with interrupts disabled are
one step, except where a property is about the section itself (`HalIrq`,
`Msgdma`). Devices, caches and the processor's exceptions are external and
modelled from how the code programs them. Both the variants of a driver that
the build selects and the ones it leaves out are modelled where they differ in
their protocol; where an observation needs a build option that is off here, it
says so.

Data abstraction: a flit in `NpuStream` carries its row and flit number; words
are numbers modulo `ACC`, `BYTE` or `WORD`; a 32-bit word in memory is a number
with a flag for swapped bytes. The DMA reverses the bytes of a beat, which is
what `npu_parse_output` (word swap and `bswap32`) undoes. `seq_busy` and
`seq_done` have no driver in `npu_unit.v`; synthesis ties such wires to ground,
so they are FALSE.

Characters are numbers in the order they were sent; descriptors, handlers and
alarms are identifiers; flag words are sets of bits; the widths of the tick
counter, the cycle counter and the delay loops are constants, so that they wrap
within a run.

Operators whose comment begins with "Mutant" or whose name ends in `Bug` are deliberately wrong variants of
the definition that follows them; `PROJECT.json` says which property each one
breaks. No specification uses them.

## Runs

| Run | Bounds | What it shows |
|---|---|---|
| `stream` | FIFO of 3, 2 flits a row, 8 rows, REG_SEQ_ROWS 0..3 | eight properties of the stream controller, under every pattern of stalls and rewrites of REG_SEQ_ROWS |
| `systolic` | N = 4, two jobs of 9 and 5 rows | results, weights, conservation of partial sums, rows in step, no lock-up |
| `programs` | Linux: three sessions of two or three jobs, on N = 4 with a FIFO of 2, 2 flits a row and up to 12 rows a job, and on N = 2 with a FIFO of 1 and up to 6 rows. Legacy: three operand triples with extreme values, any number of calls, accesses at any pace, without a pause included. Nios II: batches of 10, NPU capacity 8, six tests in any order | what the programs compare is right, packets end with the job, weights are in place, nothing is left behind, every polling loop ends |
| `uart` | ring of 3, FIFO of 2; a write of 5, or 4 characters from the host; timeouts 1, 2 and never; polling driver with calls of 0, 1 and 3 | rings conserve the streams, interrupts are armed, "never" stays never, calls come back |
| `dma` | FIFO of 2, four descriptors, lengths at and beyond the limit, both formats and kinds of call, null descriptors, failing transfers, time-outs, callbacks that start transfers; lists of two descriptors in all modes and of three in the recommended one | order, atomicity, limits, synchronous success, lists and their runs, completion |
| `clock` | two interrupts, two handlers, three calls, two requests or withdrawals, one trap, four frames; three alarms on a counter modulo 3, every delay but the largest, callbacks that make at most one call; a period of 4 cycles; 15 ticks of the time of day; 6-bit delay loops, 8 cycles a microsecond and 3 a turn | interrupts are transparent and nest by priority, alarms are on time, times are exact, sleeps are short by less than a turn per microsecond, handlers end |
| `files` | a pool of 5: two threads on the UART, and the main thread alone with a file system; 8 words in lines of 2, two lines per cache; a heap of 16 bytes under the exception stack | pool, locks and standard streams, coherent caches, a sound heap, calls return |
| `mixed_session`, `latch_interlock` | as the larger Linux part of `programs` | disagreements, see below |
| `early_read` | as the legacy part of `programs` | disagreement, see below |
| `dma_give_up` | FIFO of 2, four descriptors, asynchronous calls only, a time-out after one turn, callbacks that start transfers | disagreement, see below |
| `stop_next_alarm` | two alarms on a counter modulo 4, callbacks that stop the next alarm | disagreement, see below |

Of the passing runs `programs`, `uart`, `dma`, `clock` and `files` each check
several components. A behaviour of such a run belongs to one of them, chosen in the initial state (the variable `program`,
`load`, `use` or `part`), and the others stay as they start: these components
share no state, or never run together, and running them side by side would only
multiply their states. An MC module of this kind instantiates each component
with its own constants, and its properties are conjunctions of the named
properties of the components. The constants of the instances are constants of
the MC module, with their assumptions, and get their values in the `.cfg`, so
that the same composition is proved about for every value; in `MCPrograms`, about
which nothing is proved, most are given in the instances. `MCDma` instantiates
the prefetcher once, as `Prefetcher(u)`, with the kind of use as a parameter. A
component may appear in two parts with different constants: the Linux sessions on
a 4x4 core (`jobs`) and on a 2x2 core (`linux`), interrupts with devices that withdraw requests
(`irq`) for the safety properties and with devices that do not (`served`) for
the liveness properties.

Why the bounds are enough to be interesting. In `stream`, 8 rows wrap a ring of
3 more than twice and fill it while the DMA stalls, and 0..3 covers "no
packets", one-row packets, and packets longer than what is in flight. In
`systolic`, the stalled core holds 2N - 1 = 7 rows, so that 9 rows stall the
input, and two jobs with different weights catch weights of the wrong job. In
`programs` the NPU holds 10 rows or 5, so a batch of 12 or 6
rows stalls the read DMA; the sessions cover packet jobs of changing length
after each other, a job that inherits REG_SEQ_ROWS, jobs without packets, and a
refused performance test. Liveness of the whole system is checked on the
smaller array because TLC evaluates the fair actions in every state; a row of
several flits is covered by `stream`.

In the board support package each bound is the smallest at which its limit is
reached and passed: rings and FIFOs of 2 or 3 fill, wrap and empty within the
characters or descriptors of a run; the tick counter wraps with alarms pending
on both sides; a cache of two lines evicts; a pool of 5 leaves two descriptors
for two threads, so that one of them finds it full; two interrupts nest and
leave one of lower priority waiting. A second device or a third thread would
repeat what the first two do.

`systolic` runs with `LATCH_GAP` = 2N - 2, the number of edges the last weight
needs to reach the far corner after the DMA has sent it; with a smaller gap
`WeightsLatched` fails. In `programs` (N = 4) the same distance comes from the driver's
accesses and `BRIDGE` = 2; for the 8 x 8 array of the RTL the bridge has to
take at least 10 edges. That is an assumption about the bus and not something
the code ensures: see the second finding.

Fairness. `stream`: the clock runs, and a write DMA with a descriptor is ready
again and again. `systolic`: the clock runs, the source offers its beats and
the sink makes room again and again. `programs`: the processor keeps executing
and its accesses are answered, the clock keeps running, and memory lets each
engine progress again and again. None of them assumes that a handshake inside
the NPU succeeds. `uart`: an enabled interrupt is taken, the program runs, and
the alarm keeps ticking; the host is free to do nothing. The polling driver has
no timeout in the code, so there the host is assumed to go on; without it a
call may wait for ever. `dma`: the engine executes, the interrupt is taken, the
program runs. `clock`: the processor goes on with what it has begun and takes a
pending enabled interrupt, and the walk of the tick handler goes on; nobody has
to call anything, and no device to interrupt. Programs are assumed to leave the
critical sections they enter. `files`: a thread inside a call goes on, and a
semaphore that is released again and again is got at some time (strong
fairness, which the queues of the supported kernels give).

Deadlock is checked in `stream`, `systolic`, `programs` and `files`.
In `uart`, `dma` and `clock` the bounded program stops when its calls are used
up and the devices are quiet, which is not an error.

## Disagreements between code and documentation

1. `mixed_session`. `tx_row_count` is cleared only at the end of a packet, and
   `verify_full_system` does not program REG_SEQ_ROWS. The streaming test that
   follows it in the menu starts with the old rows in the counter: its end of
   packet comes too early, the write DMA ends the transfer, and the last rows
   stay in the NPU. `npu_stream_ctrl.v:168` promises EOP on the very last flit
   of the sequence.
2. `latch_interlock`. Nothing drives `seq_busy`, so polling REG_STATUS waits for
   nothing; `LESSONS_LEARNED.md:28` calls it a perfectly interlocked handshake.
3. `early_read`. `main.c:420-425` says that a read of Y_OUT right after the
   start returns the previous value (10), so that `usleep(1)` has to guarantee
   the physical time, and `LESSONS_LEARNED.md:30` repeats it. In the RTL the
   element fires at the edge after the write and a read in the next access
   returns the product; before the start Y_OUT holds the previous result and
   not 10. This is why `ProgramsPass` holds without assuming that `usleep`
   takes any time. The model has the bus as wide and as fast as the register
   bank; a bridge can only add edges between two accesses.
4. `dma_give_up`. The asynchronous call stops the dispatcher first, and its
   error returns (`altera_msgdma.c:415`, `:442` and `:456`) leave it stopped
   with the interrupt off: transfers that earlier calls queued neither run nor
   call back until some later call succeeds. In the run a callback takes the
   last place in the FIFO between the check and the write. The comment at
   `altera_msgdma.c:1633` promises the callback for all non-blocking transfers.
   `DmaCompletes` claims completion only until a call has given up
   (`LeftStopped`), and a later successful call must complete the earlier ones.
5. `stop_next_alarm`. `alt_tick` reads `next` before the callback
   (`alt_tick.c:102`). If the callback stops that alarm, the loop goes on to an
   entry that points to itself and never ends. `alt_alarm.h:73` offers
   `alt_alarm_stop` without a restriction, and `alt_tick.c:76` says the list is
   processed.

### Observed without a run of its own

The passing runs keep to the uses for which the code is right, and state what the
code does where a comment says otherwise. The uses left out are constants of the
modules; with the value named here TLC refutes the property named here, which is
in the module but in no `.cfg`, or in none with that value.

| Where | What the code does | To reproduce |
|---|---|---|
| `npu_unit.v:143` | mode 1 loads weights and mode 0 executes; `npu_ctrl.v:17` and `REG_MAP.md:30` say the opposite | `MCNpuSystem` with the constants of `MCSystemLatch.cfg`: `ModeZeroLoads` |
| `npu_unit.v:176` | the legacy element's latch input is tied to 1; `main.c:401` says the latch has to be pulsed | `MCLegacyPe` with the constants of `MCLegacyEarly.cfg`: `LatchCommitsWeight` |
| `alt_busy_sleep.c:129` | the turns of the loop in a microsecond are rounded down (also lines 74, 97, 112): 16 for 16.67 at 50 MHz and 3 cycles a turn, so a sleep is about 4 % short by the code's own count; `altera_msgdma.c:402` takes it for 1 us | `BusySleep`, `W` 256, `ALT_CPU_FREQ` 50, `cycles_per_loop` 3, `US` 1: `LongEnough` |
| `alt_sbrk.c:88` | a block beyond `__alt_heap_limit` is refused, where the header (line 46) says that no bounds are checked and memory may overflow | `HalHeap`, `Limit` 16: `NeverRefused` |
| `alt_sbrk.c:124` | every growth of the heap from an exception is reported as a stack overflow: the old limit is compared with the new end, not the interrupted stack; line 52 says the call must be safe there (with `ALT_STACK_CHECK` and `ALT_EXCEPTION_STACK`, off in this build) | `HalHeap`, `Exception` TRUE, `Incrs` {4, 8}: `OverflowIsReal` |
| `alt_alarm_start.c:89` | an alarm with the longest delay (2^32 - 1) runs at the next tick, since the roll-over flag stays clear | `HalAlarm`, largest `Delays`: `RunsOnTime` |
| `altera_msgdma.c:582` | a synchronous transfer takes away the interrupt of an earlier asynchronous one, whose callback line 1633 promises | `Msgdma`, `Calls` with `"sync"`: `CallbackFollows` |
| `altera_msgdma.c:1220` | the flush of a descriptor list assumes that the list is an array in list order | `MsgdmaPrefetcher`, `InOrder` FALSE: `FlushedBeforeRun` |
| `alt_settod.c:84` | the microseconds since start are a 32-bit product here and a 64-bit one in `gettimeofday`; after 71.6 minutes the two disagree | `TimeOfDay`, `Uptime` 20: `TimeTracksTicks` |
| `alt_sbrk.c:107` | after a request that is not a whole number of words the stack limit no longer follows the heap (with `ALT_STACK_CHECK`, which this build leaves off) | `HalHeap`, odd `Incrs`: `StackAboveHeap` |
| `alt_fcntl.c:89` | `fcntl` may undo a lock that another thread sets meanwhile | `HalFile`, `Shared` TRUE: `LockSticks` |
| `alt_legacy_irq.h:94` | enabling or disabling an interrupt inside an interruptible handler undoes the priority mask | `HalIrq`, `NestedCalls` TRUE: `PriorityNesting` |
| `alt_irq_handler.c:155` | a request withdrawn between the entry code and the dispatcher makes `alt_irq_handler` search an empty list for ever | `HalIrq`, `Glitches` TRUE: `ProgramResumes` |

Seen while reading, and modelled as the code has it without a property of their
own: a blocking UART write gives up with "Host not connected" after one
inactive tick (`altera_avalon_jtag_uart_write.c:187`); the error returns of a
synchronous transfer leave interrupts disabled (`altera_msgdma.c:612`);
`alt_timestamp` returns 0 after a full period where its comment says -1
(`altera_avalon_timer_ts.c:92`); a delay that the long loops of
`alt_busy_sleep` use up exactly runs the last loop through the whole range of
its counter (`alt_busy_sleep.c:107`); `alt_fd_lock` does not look at the highest
descriptor (`alt_fd_lock.c:61`); closing a standard stream keeps its lock
(`alt_release_fd.c:46`); and the comment at `alt_exception_entry.S:276` has the
two results of an instruction handler the wrong way round.

The core also has a condition of use that no document states: loading a weight
clears `valid_out_y` (`mac_pe.v:84`) even if the partial sum there was not taken,
so no weights may enter before all results have left. The drivers respect it by
waiting for the write DMA (`NoJobLeavesRows`, `ColumnConserved`); a driver that
overlapped the next weights with the last results would lose sums.

## Proofs

Each proof module extends one component, or the MC module that composes several
(`MCUart`, `MCDma`, `MCClock`, `MCFiles`) with its constants left open, so that a
theorem is about the very specification and property that TLC checks. It states
an inductive invariant, proves that `Init` implies it and that every action
preserves it (one step per action, and lemmas for what an action does to one
part of the state), and derives the properties. TLC has checked every invariant
on the bounds of the run of its component first. The theorems hold for every
value of the constants that the `ASSUME`s of the component, and the assumption
named here, allow.

Where a proof needs induction (the ready wires, dot products, the walk of a list,
the loader's copy) it is done with sets: a non-empty set of counterexamples has a
least element (`WellFoundedInduction`).

### `NpuStreamProofs`: the stream controller

For every `DEPTH`, `FLITS`, `WORD`, `MaxRows` and `MaxTotal` with
`MaxRows < WORD` (the row counter does not wrap).

| Theorem | States |
|---|---|
| `TypeCorrect` | `[]TypeOK` |
| `Conservation` | `[]RowsConserved` |
| `FifoSafe` | `[]FifoHoldsYoungest` |
| `InOrder` | `[]NextFlitOnBus` |
| `HoldRule` | `HeldUntilReady` |
| `Framing` | `Framed` |
| `Refinement` | `ImplementsRowStream`, the safety part of the abstract specification |

The inductive invariant is `TypeOK`, `RowsConserved`, `FifoHoldsYoungest`
and two strengthenings. `ShiftHoldsRest`: the shift register holds the rest of
the row being sent, which is why the flit on the bus is the next one; without
it nothing relates the register to the row after a shift. `RowCounter`: the row
counter is 0 exactly if the last flit seen ended a packet or none has been sent,
in terms of the history variable `beat`, which the framing theorem needs because
the start mark is computed from the counter and the end mark from a register
that may have changed since. Each is preserved by one lemma per branch of the
serializer, and the refinement maps each of the branches to a step or a stutter
of `RowStream`. The ring arithmetic (`Slot`) is isolated in lemmas of its own.

### `SystolicProofs`: the systolic core

For every N, every weight and input matrix, every accumulator width, every
number of jobs and rows and every pattern of stalls on both sides, when
`LATCH_GAP >= 2 * N - 2`. That the latch waits so long is a condition of use:
the second disagreement above is that nothing in the code ensures it.

| Theorem | States |
|---|---|
| `SystolicInvariant` | `[]IInv` |
| `ResultsAreCorrect` | `[]ResultsCorrect`: every announced row is the product |
| `WeightsAreLatched` | `[]WeightsLatched` |
| `ColumnsConserve` | `[]ColumnConserved` |
| `RowsStayInStep` | `[]RowsInStep` |

None of these is inductive: whether an element may fire depends on a chain of
ready wires through the whole array. The invariant says that the skewed array
is one elastic pipeline. Its stages are the diagonals `d = i + j`, continued
through the skew registers in front and the de-skew registers behind; `F[d]`
counts the tokens that have entered stage `d`, and neighbouring counts differ
by at most one. All registers of a stage hold a token or none does
(`skew[i][s].v <=> Full(F, s)`, and so on), the token in stage `d` belongs to row
`F[d + 1]`, and its partial sum is the one over the rows of the array it has
passed. While weights are loaded the same counts say which weight is where.
The counts exist (`\E F`): they are no variables of the model.

The core of the proof is that a ready wire of any element of diagonal `d` equals
`Room(F, ready, d)`: there is a free stage from `d` on, or the row leaves. The
wires are a recursive function over the array, and the proof includes that it
is well defined, in other words that the RTL has no combinational loop.

### `JtagUartProofs`: the JTAG UART driver

For every size of the rings and the FIFOs, every byte count and every timeout.

| Theorem | States |
|---|---|
| `UartInvariant` | `[]IInv` |
| `RingsAreSound` | `[]RingsSound`: nothing is lost, repeated or swapped, no index leaves its ring |
| `InterruptsStayArmed` | `[]InterruptsArmed` |
| `NeverIsNever` | `[]NeverMeansNever` |
| `PolledStreams` | `UartSpec => []StreamsConserved`: `JtagUartSmall`, the driver this build selects |

`RingsSound` compares whole sequences; `RxPlaced` and `TxPlaced` say the same
character by character, which is what one step changes. `ReadFits` and
`WriteFits` are the reason the driver needs no lock: what a call has measured is
still there when it copies it, because the interrupt routine only adds to the
receive ring and only takes from the transmit ring. `SpaceIsThere` is the same for
the FIFO space that the interrupt routine has read from CONTROL, and the last
conjunct of `PolledInv` the same for the polled driver, between its test of WSPACE
and its write to DATA.

### `MsgdmaProofs`: the MSGDMA driver and the prefetcher

In dispatcher mode for every FIFO depth and time-out and every mix of
asynchronous and synchronous calls, null descriptors, failing transfers and
callbacks that start transfers; in prefetcher mode for every length of the list
and of the runs. What a call that gives up leaves undone is a matter of liveness
(`DmaCompletes`, `dma_give_up`) and stays with TLC.

| Theorem | States |
|---|---|
| `MsgdmaInvariant` | `[]IInv` |
| `TransfersAreSound` | `[]TransfersSound`: once each, in order, no torn descriptor |
| `SyncIsDone` | `[]SyncMeansDone` |
| `LimitsKept` | `[]WithinLimits` |
| `DmaInvariant` | `DmaSpec => []DmaInv`, the invariants of all uses |
| `DescriptorsAreFit` | `DmaSpec => []DescriptorsFit`: standard, extended and linked descriptors |
| `PrefetcherRunsInOrder` | `DmaSpec => []RunsInListOrder` |

The strengthenings are the atomicity argument of the driver: between the stop
and the start of the dispatcher the interrupt routine cannot run (`Alone`), so
that what was staged is what is committed (`Staged`), and the descriptor of a
synchronous call has been accepted before it waits for it (`Committed`).

For the prefetcher, `ListInv` describes the list in software's view: the links of
what was added lead from the root through every descriptor once and back, and a
call that starts the prefetcher walks along it. `RunInv` adds the hardware's view, for the
uses that start it: as soon as it may run (`MayRun`) the links it follows are in
memory and not only in the cache, every descriptor it has executed is the one at
that place of the list, and the last descriptor is never the hardware's, so that a
run ends there instead of going round again. Runs are proved for the recommended
start on a list that is an array in list order; the observations say what happens
to other lists.

### `HalIrqProofs`: interrupts and exceptions

For every number of interrupts, set of handlers and depth of the stack.

| Theorem | States |
|---|---|
| `IrqInvariant` | `[]IInv` |
| `SectionsHold` | `[]CriticalSections` |
| `Transparent` | `[]InterruptsTransparent` |
| `PrioritiesNest` | `[]PriorityNesting`, when interruptible handlers make no calls that rewrite IENABLE (`~NestedCalls`) |

`Stacked` says of every frame, not only of the running one, with which interrupt
enable bit it runs or ran (it is the `estatus` of the frame above), and what its
saved status words are; `Table` says where the handler table may be
inconsistent (only inside a registration, with interrupts off); `CausesKnown`
relates a frame to why it was entered, and `Priorities` the priority mask and
IENABLE to the handlers that are open to interrupts. `PrioritiesNest` needs its
assumption: without it TLC refutes the property (see the observations).

### `HalFileProofs`: file descriptors and devices

For every number of threads, size of the pool, set of devices and file systems
and what they provide, and every sequence of calls.

| Theorem | States |
|---|---|
| `FileInvariant` | `[]IInv` |
| `PoolIsConserved` | `[]PoolConserved`, also when threads use each other's descriptors |
| `LocksStick` | `[]LockSticks`, when they do not (`~Shared`) |
| `PoolIsSound` | `[]PoolSound`, when they do not and `ALT_MAX_FD > 3` |

The invariant has three parts. `Base`: who has the semaphore, what the locals of
a thread mean where it is, that only `Main` runs until the redirection is over,
and `PoolConserved`. `Exclusive` and `LockOrder`: nobody but its thread changes
the flags of a descriptor, so that `fcntl` stores what is up to date; the scan of
`alt_fd_lock` has found no other descriptor of the device up to where it is;
and below a locked descriptor there are only new ones of its device whose
`open` is still before the lock in its own scan (`WillSee`). This is why a lock
and an `open` that race cannot both succeed, although the scan of `open` holds no
semaphore. `Redirection`: a standard stream is on `/dev/null` until it is handled
and then on its device, in its direction.

The assumptions are justified and needed: with `Shared` TRUE TLC refutes
`LockSticks` (see the observations), and a pool of three has no descriptor to open
a stream with (`system.h` has `ALT_MAX_FD` 32).

### `HalMemoryProofs`: caches and heap

For every size of memory, of lines and of both caches, every alignment and
length of what is flushed or allocated, and every sequence of calls.

| Theorem | States |
|---|---|
| `CachesAreCoherent` | `FilesSpec => []CachesCoherent` |
| `BlocksAreSound` | `[]BlocksSound`, for every sequence of increments |
| `HeapIsSound` | `FilesSpec => []HeapSound`, when increments are whole words (`WholeWords`) |

An entry of the data cache holds all bytes of its line as last written, and a byte
that memory does not have is in a dirty entry (`Sound`), whatever is evicted. So the property is about which lines the routines
reach. `alt_dcache_flush` steps from the aligned start by lines up to the
end, and covers the last line whatever the alignment; `alt_uncached_malloc` gives
whole lines, so that no cached neighbour brings a line of an uncached block back
in (`BlocksApart`); the loader copies and then flushes both caches, and what the
instruction cache holds afterwards is what was written last (`CodeSound`). The
copy is a recursive function over the words, and the proof includes the induction
along it.

For the heap the invariant adds where the limit of the program's stack is: in the
register, or saved by the exception that has switched stacks (`LimitFollows`). With
an odd increment it is refuted (see the observations). Growth from an exception
always reports an overflow (`OverflowIsReal` above); of calls from there the theorem
covers those that fail and those that give memory back.

### `HalClockProofs`: clock, alarms and times

For every number of alarms, every width of the counters, every period and every
speed of the processor; time of day for every tick rate that divides the second.

| Theorem | States |
|---|---|
| `ClockInvariant` | `ClockSpec => []ClockInv`, the invariants of the four parts |
| `AlarmsRunOnTime` | `ClockSpec => []AlarmsOnTime`: on time, the list a ring of the live alarms, every period counted |
| `TimesAreExact` | `ClockSpec => []TimesExact`: `get_total_cycles`, `alt_timestamp`, `gettimeofday` |
| `SleepsAreBounded` | `ClockSpec => []SleepsWithinATurn`: `alt_busy_sleep` is short by at most one turn of its loop per microsecond, and not at all when the turns come out even |

Alarms. `InOrder` numbers the list: there are positions `g[0]` (the head) to `g[n]`
of exactly the live alarms, linked in both directions, and the walk of `alt_tick`
stands at position `k`. Alarms before `k` are `Settled`: their time is the tick count
plus what is left, minus the width if and only if the roll-over flag is set.
Those from `k` on are `Unseen`: the same, with the flag that was right a tick ago,
which is why the flag must be dropped when the count is 0 and only then. From
this an alarm expires exactly when nothing is left. Insertion and removal renumber
the positions (`Inserted`, `Removed`), and an entry in no list points to itself
(`Loose`), so that taking it out twice changes nothing (`RemoveLoose`). A callback
may stop its own alarm and return 0, stop any alarm but the next, or start one
(`CallsNone`, `CallsStop`, `CallsStart`): each leaves the walk at the entry that
was next before (`CallbackLeaves`, `VisitStays`, `VisitDrops`). That the numbered list is a ring
in which the head reaches everything is an induction along the positions
(`OrderIsRing`).

Cycles. `Steady`: tick count and counter together are the cycles since reset, with
the tick count one behind while the interrupt is pending. `FewTicks`: so few ticks
were counted since `t1` was read that the count cannot have come round, so equal
counts mean that no tick was counted in between. `ThenTrue`: `t1` and the snapshot
together are the count of a moment of the call, except between the end of a
period and its interrupt, which comes before the second read.

Time of day. The offset is the time set minus the ticks at that moment, in seconds
and microseconds; `SecondsShift` says that adding them up again loses no carry.
Sleep. The turns made and the turns left in the register are at least the turns
the code computes (`TurnsCounted`), and the product for the last loop fits the
register (`RestFits`). What a microsecond lacks is less than a turn by the
division's remainder (`TurnsAreTime`).

The assumptions are those of `MCClock` and the observations show that they are
needed: delays below the largest one, an uptime whose product fits the word,
callbacks that do not stop the alarm `alt_tick` goes on to (the fifth
disagreement), calls that take less time than the
tick count needs to come round (`Span`), interrupts served within a period.

### Only model-checked

- Liveness, under fairness, is out of this prover's reach: the polling loops, the
  calls that return, the handlers that end, `RowStream`'s liveness.
- `EopEndsEveryJob`, `NoJobLeavesRows`, `JobsFindWeights` and `ProgramsPass`
  are about fixed sessions of the drivers on fixed hardware. They do not hold for
  every value of the constants: a session may mix its tests (the first
  disagreement), and whether the latch comes late enough depends on `BRIDGE` and N
  (the second). What they rest on is proved: the array computes products when the
  latch waits, and the stream controller delivers every row in order.

## Not modelled

- The boot sequence (`crt0.S`, `alt_main.c`, `alt_sys_init.c`): a straight line of
  calls; each module starts from the state it leaves or models its part
  (`HalIrq`: the interrupt initialisation, `HalFile`: registration and
  redirection, `HalCache`: the copy of sections).
- Boot log, small printf, profiling, instruction emulation and the fatal ECC
  entry: formatting, or code this build leaves out.
- The registration interfaces for DMA channels and flash devices, and the system
  calls that only return an error: nothing here registers or uses them.
- The memory self-test (nothing calls it), the debouncer, edge detector and reset
  probe, the board's top level and the Qsys interconnect, the Python generators
  and the cocotb tests.
- The bytes inside a word in the drivers' formatting; words, columns and the byte
  order of a beat are in `NpuSystem`.

The MSGDMA engines, the UART core, the timer, the caches and the processor's
exceptions are external and modelled from their use.

## Plan

1. Done: stream controller with proofs; element, core and bench; registers and
   legacy path; unit and system; Nios II driver; the parts of the board support
   package that have interrupts, threads, timeouts or shared state.
2. Done: proofs of the systolic core, both JTAG UART drivers, the MSGDMA driver
   and its prefetcher, clock and alarms, interrupts, file descriptors, caches and
   heap.
3. Open: a proof of the whole system for sessions that do not mix packet jobs with
   others and a bridge that is slow enough, on top of the invariants of
   `SystolicProofs` and `NpuStreamProofs`.
4. Open: `NpuFormat`, the byte layout of the formatting functions against a
   reference, and the two small board state machines.
