----------------------------- MODULE NpuStream -----------------------------
(***************************************************************************)
(* The stream controller between its two neighbours: a core that offers    *)
(* rows whenever it likes and a write DMA that is ready whenever it likes, *)
(* while software may rewrite REG_SEQ_ROWS at any clock edge.              *)
(*                                                                         *)
(* The rows are numbered by the order in which the FIFO takes them, and    *)
(* flit f of row k carries <<k, f>>, so that loss, duplication and         *)
(* reordering are visible.  pushed, sent_row, sent_flit and beat are       *)
(* history: no register reads them.                                        *)
(***************************************************************************)
EXTENDS NpuStreamCtrl

CONSTANTS MaxRows,   \* bound: rows the core offers
          MaxTotal   \* bound: largest value written to REG_SEQ_ROWS

ASSUME MaxRowsAssumption  == MaxRows \in Nat
ASSUME MaxTotalAssumption == MaxTotal \in Nat
ASSUME ZeroFlitAssumption == ZeroFlit \in Int \X Int

\* The row counter does not wrap within the rows considered: 2^32 rows are
\* far more than the 2^20 bytes one DMA descriptor can carry.
ASSUME RowsFitCounter == MaxRows < WORD

VARIABLES pushed, sent_row, sent_flit, beat

history == <<pushed, sent_row, sent_flit, beat>>
vars == <<streamVars, history>>

Flit == Int \X Int

RowData(k) == [f \in FlitIndex |-> <<k, f>>]

\* Before the first flit the port is as it is after an end of packet.
NoBeat == [data |-> <<0, 0>>, sop |-> FALSE, eop |-> TRUE]

Init ==
  /\ StreamReset
  /\ seq_total_rows = 0
  /\ pushed = 0 /\ sent_row = 0 /\ sent_flit = 0
  /\ beat = NoBeat

\* What crosses the source port at this edge, as the write DMA sees it.
Observe(ready) ==
  IF st_source_valid /\ ready
    THEN /\ beat' = [data |-> st_source_data,
                     sop  |-> st_source_startofpacket,
                     eop  |-> st_source_endofpacket]
         /\ IF sent_flit = FLITS - 1
              THEN sent_flit' = 0 /\ sent_row' = sent_row + 1
              ELSE sent_flit' = sent_flit + 1 /\ UNCHANGED sent_row
    ELSE UNCHANGED <<sent_row, sent_flit, beat>>

Clock(valid, ready, rows) ==
  /\ valid => pushed < MaxRows
  /\ StreamClock(valid, RowData(pushed), ready)
  /\ pushed' = IF valid /\ pe_ready_out THEN pushed + 1 ELSE pushed
  /\ Observe(ready)
  /\ seq_total_rows' = rows

Next ==
  \E valid, ready \in BOOLEAN, rows \in 0 .. MaxTotal : Clock(valid, ready, rows)

Spec == Init /\ [][Next]_vars

\* The clock never stops, and a write DMA with a descriptor raises ready
\* again and again.
FairSpec ==
  /\ Spec
  /\ WF_vars(\E valid \in BOOLEAN, rows \in 0 .. MaxTotal :
               Clock(valid, TRUE, rows))

----------------------------------------------------------------------------
(* Properties *)

\* Every register holds a value of its width: the pointers stay inside the
\* FIFO and fifo_count never passes DEPTH or goes below 0.
TypeOK ==
  /\ out_fifo \in [0 .. DEPTH - 1 -> [FlitIndex -> Flit]]
  /\ fifo_wr_ptr \in 0 .. DEPTH - 1 /\ fifo_rd_ptr \in 0 .. DEPTH - 1
  /\ fifo_count \in 0 .. DEPTH
  /\ tx_shift_reg \in [FlitIndex -> Flit]
  /\ tx_count \in FlitIndex
  /\ tx_active \in BOOLEAN /\ tx_sending_flit \in BOOLEAN
  /\ tx_row_count \in 0 .. WORD - 1
  /\ seq_total_rows \in 0 .. MaxTotal
  /\ pushed \in 0 .. MaxRows
  /\ sent_row \in Nat /\ sent_flit \in FlitIndex
  /\ beat \in [data : Flit, sop : BOOLEAN, eop : BOOLEAN]

\* The i-th oldest place of the ring.
Slot(i) == IF fifo_rd_ptr + i < DEPTH THEN fifo_rd_ptr + i
                                      ELSE fifo_rd_ptr + i - DEPTH

InFlight == IF tx_active THEN 1 ELSE 0

\* Row conservation: whatever the core pushed is delivered, in the FIFO or
\* in the shift register, so fifo_count (one register, updated by a push and
\* a pop of the same edge) never drifts from what the FIFO holds.
RowsConserved == pushed = sent_row + InFlight + fifo_count

\* The live part of the FIFO holds exactly the youngest rows, oldest first,
\* and the write pointer is one past them: no push overwrites a row that has
\* not been loaded into the shift register.
FifoHoldsYoungest ==
  /\ fifo_wr_ptr = Slot(fifo_count)
  /\ \A i \in 0 .. DEPTH - 1 :
       i < fifo_count => out_fifo[Slot(i)] = RowData(pushed - fifo_count + i)

\* The flit on the bus is the next one in order: nothing is lost, repeated
\* or reordered between the core and the write DMA.
NextFlitOnBus ==
  st_source_valid => st_source_data = <<sent_row, sent_flit>>

sent == <<sent_row, sent_flit>>

\* Avalon-ST hold rule: a flit that was offered and not taken is still
\* offered, with the same data and start mark, after the edge; and with the
\* same end mark unless software rewrote REG_SEQ_ROWS at that edge.
HeldUntilReady ==
  [][ st_source_valid /\ sent' = sent =>
        /\ st_source_valid'
        /\ st_source_data' = st_source_data
        /\ st_source_startofpacket' = st_source_startofpacket
        /\ seq_total_rows' = seq_total_rows =>
             st_source_endofpacket' = st_source_endofpacket ]_vars

\* Framing: whatever software does to REG_SEQ_ROWS while rows are in flight,
\* a flit starts a packet exactly if it is the first of all or follows an
\* end of packet.  The start mark and the end mark come from two separate
\* comparisons of the row counter, and the counter is cleared by a third.
Framed ==
  [][ beat' # beat => (beat'.sop <=> beat.eop) ]_vars

\* The controller implements the row stream: a FIFO of DEPTH rows and one in
\* the shift register.
Abstract == INSTANCE RowStream
  WITH CAPACITY <- DEPTH + 1, accepted <- pushed, row <- sent_row,
       flit <- sent_flit, seq_row <- tx_row_count, total <- seq_total_rows
ImplementsRowStream == Abstract!Spec

\* Every row the FIFO took reaches the write DMA in full.
RowsDelivered == \A k \in 1 .. MaxRows : pushed >= k ~> sent_row >= k

============================================================================
