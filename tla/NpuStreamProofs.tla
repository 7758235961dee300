-------------------------- MODULE NpuStreamProofs --------------------------
(***************************************************************************)
(* Proofs about the stream controller, for every FIFO depth, row length,   *)
(* bound and value of REG_SEQ_ROWS.                                        *)
(***************************************************************************)
EXTENDS NpuStream, TLAPS

\* What the shift register holds: the rest of the row being sent.
ShiftHoldsRest ==
  /\ tx_active = tx_sending_flit
  /\ ~tx_active => sent_flit = 0
  /\ tx_active => /\ tx_count = sent_flit
                  /\ \A f \in FlitIndex :
                       f + tx_count < FLITS =>
                         tx_shift_reg[f] = <<sent_row, tx_count + f>>

\* The row counter counts sent rows, and is at the start of a sequence
\* exactly after an end of packet.
RowCounter ==
  /\ tx_row_count <= sent_row
  /\ beat.eop <=> (tx_row_count = 0 /\ sent_flit = 0)

IInv ==
  /\ TypeOK
  /\ RowsConserved
  /\ FifoHoldsYoungest
  /\ ShiftHoldsRest
  /\ RowCounter

----------------------------------------------------------------------------
(* Lemmas about the ring and the parts of a clock edge *)

USE DepthAssumption, FlitsAssumption, WordAssumption, MaxRowsAssumption,
    MaxTotalAssumption, RowsFitCounter

\* A pair of numbers is a flit.
LEMMA PairIsFlit == \A a, b \in Int : <<a, b>> \in Flit
  BY DEF Flit

\* The invariant holds after reset.
LEMMA InitIInv == Init => IInv
<1> SUFFICES ASSUME Init PROVE IInv
  OBVIOUS
<1>1. TypeOK
  <2>1. ZeroRow \in [FlitIndex -> Flit]
    BY ZeroFlitAssumption DEF ZeroRow, Flit
  <2>2. NoBeat \in [data : Flit, sop : BOOLEAN, eop : BOOLEAN]
    BY PairIsFlit DEF NoBeat
  <2>3. 0 \in FlitIndex
    BY DEF FlitIndex
  <2>4. /\ out_fifo \in [0 .. DEPTH - 1 -> [FlitIndex -> Flit]]
        /\ tx_shift_reg \in [FlitIndex -> Flit]
    BY <2>1 DEF Init, StreamReset
  <2>5. /\ 0 \in 0 .. DEPTH - 1 /\ 0 \in 0 .. DEPTH /\ 0 \in 0 .. WORD - 1
        /\ 0 \in 0 .. MaxTotal /\ 0 \in 0 .. MaxRows /\ 0 \in Nat
    OBVIOUS
  <2>6. tx_active \in BOOLEAN /\ tx_sending_flit \in BOOLEAN
    BY DEF Init, StreamReset
  <2> QED
    BY <2>2, <2>3, <2>4, <2>5, <2>6, Zenon DEF Init, StreamReset, TypeOK
<1>2. RowsConserved
  BY DEF Init, StreamReset, RowsConserved, InFlight
<1>3. FifoHoldsYoungest
  BY DEF Init, StreamReset, FifoHoldsYoungest, Slot
<1>4. ShiftHoldsRest
  BY DEF Init, StreamReset, ShiftHoldsRest
<1>5. RowCounter
  BY DEF Init, StreamReset, RowCounter, NoBeat
<1> QED
  BY <1>1, <1>2, <1>3, <1>4, <1>5 DEF IInv

\* The serializer moves the read pointer exactly on a pop (rtl: the pop wire
\* and the two branches that load the shift register are written apart).
LEMMA PopMovesReadPtr ==
  ASSUME NEW ready \in BOOLEAN, TypeOK, Serializer(ready)
  PROVE  fifo_rd_ptr' = IF fifo_pop(ready) THEN NextPtr(fifo_rd_ptr) ELSE fifo_rd_ptr
<1> USE DEF fifo_pop, FlitTaken, fifo_empty, LastFlit
<1>1. CASE TxIdle
  BY <1>1 DEF TxIdle, txVars
<1>2. CASE TxStart
  BY <1>2 DEF TxStart, LoadRow
<1>3. CASE TxHold(ready)
  BY <1>3 DEF TxHold, txVars
<1>4. CASE TxShift(ready)
  BY <1>4 DEF TxShift
<1>5. CASE TxNextRow(ready)
  BY <1>5 DEF TxNextRow, LoadRow
<1>6. CASE TxDrained(ready)
  BY <1>6 DEF TxDrained
<1> QED
  BY <1>1, <1>2, <1>3, <1>4, <1>5, <1>6 DEF Serializer

\* One edge keeps the FIFO's contents in order, whatever is pushed and
\* popped together.
LEMMA FifoStep ==
  ASSUME NEW valid \in BOOLEAN, NEW ready \in BOOLEAN, NEW rows \in 0 .. MaxTotal,
         IInv, Clock(valid, ready, rows)
  PROVE  /\ out_fifo' \in [0 .. DEPTH - 1 -> [FlitIndex -> Flit]]
         /\ fifo_wr_ptr' \in 0 .. DEPTH - 1 /\ fifo_rd_ptr' \in 0 .. DEPTH - 1
         /\ fifo_count' \in 0 .. DEPTH
         /\ FifoHoldsYoungest'
<1> DEFINE push == fifo_push(valid)
           pop  == fifo_pop(ready)
<1>1. /\ TypeOK /\ FifoHoldsYoungest
      /\ FifoWrite(valid, RowData(pushed)) /\ FifoCount(valid, ready)
      /\ Serializer(ready)
      /\ pushed' = IF push THEN pushed + 1 ELSE pushed
  BY DEF IInv, Clock, StreamClock, fifo_push, pe_ready_out
<1>2. /\ fifo_wr_ptr \in 0 .. DEPTH - 1 /\ fifo_rd_ptr \in 0 .. DEPTH - 1
      /\ fifo_count \in 0 .. DEPTH /\ pushed \in Int
      /\ out_fifo \in [0 .. DEPTH - 1 -> [FlitIndex -> Flit]]
  BY <1>1 DEF TypeOK
<1>3. fifo_rd_ptr' = IF pop THEN NextPtr(fifo_rd_ptr) ELSE fifo_rd_ptr
  BY <1>1, PopMovesReadPtr
<1>4. fifo_count' = fifo_count + (IF push THEN 1 ELSE 0) - (IF pop THEN 1 ELSE 0)
  BY <1>1, <1>2 DEF FifoCount
<1>5. (push => fifo_count < DEPTH) /\ (pop => fifo_count > 0)
  BY <1>2 DEF fifo_push, fifo_pop, fifo_full, fifo_empty
<1>6. /\ fifo_wr_ptr' = IF push THEN NextPtr(fifo_wr_ptr) ELSE fifo_wr_ptr
      /\ out_fifo' = IF push THEN [out_fifo EXCEPT ![fifo_wr_ptr] = RowData(pushed)]
                             ELSE out_fifo
  BY <1>1 DEF FifoWrite
<1>7. RowData(pushed) \in [FlitIndex -> Flit]
  <2>1. \A f \in FlitIndex : <<pushed, f>> \in Flit
    BY <1>2, PairIsFlit DEF FlitIndex
  <2> QED
    BY <2>1 DEF RowData
<1> HIDE DEF push, pop
<1>8. /\ out_fifo' \in [0 .. DEPTH - 1 -> [FlitIndex -> Flit]]
      /\ fifo_wr_ptr' \in 0 .. DEPTH - 1 /\ fifo_rd_ptr' \in 0 .. DEPTH - 1
      /\ fifo_count' \in 0 .. DEPTH
  <2>1. out_fifo' \in [0 .. DEPTH - 1 -> [FlitIndex -> Flit]]
    BY <1>2, <1>6, <1>7
  <2>2. fifo_wr_ptr' \in 0 .. DEPTH - 1 /\ fifo_rd_ptr' \in 0 .. DEPTH - 1
    BY <1>2, <1>3, <1>6 DEF NextPtr
  <2>3. fifo_count' \in 0 .. DEPTH
    BY <1>2, <1>4, <1>5
  <2> QED
    BY <2>1, <2>2, <2>3
<1>9. fifo_wr_ptr' = Slot(fifo_count)'
  BY <1>1, <1>2, <1>3, <1>4, <1>5, <1>6 DEF FifoHoldsYoungest, Slot, NextPtr
<1>10. ASSUME NEW i \in 0 .. DEPTH - 1, i < fifo_count'
       PROVE  out_fifo'[Slot(i)'] = RowData(pushed - fifo_count + i)'
  <2> DEFINE j == IF pop THEN i + 1 ELSE i
  <2>1. j \in Int /\ 0 <= j /\ j <= DEPTH /\ Slot(i)' = Slot(j) /\ Slot(j) \in 0 .. DEPTH - 1
    BY <1>2, <1>3, <1>4, <1>5, <1>10 DEF Slot, NextPtr
  <2>2. pushed' - fifo_count' + i = pushed - fifo_count + j
    BY <1>1, <1>2, <1>4 DEF push
  <2> HIDE DEF j
  <2>3. CASE j < fifo_count
    <3>1. j \in 0 .. DEPTH - 1
      BY <2>1, <2>3, <1>2
    <3>2. out_fifo[Slot(j)] = RowData(pushed - fifo_count + j)
      BY <3>1, <2>3, <1>1 DEF FifoHoldsYoungest
    <3>3. push => Slot(j) # fifo_wr_ptr
      BY <1>1, <1>2, <1>5, <2>1, <2>3 DEF FifoHoldsYoungest, Slot
    <3>4. out_fifo'[Slot(j)] = out_fifo[Slot(j)]
      BY <1>2, <1>6, <2>1, <3>3
    <3> QED
      BY <2>1, <2>2, <3>2, <3>4 DEF RowData
  <2>4. CASE j >= fifo_count
    <3>1. push /\ j = fifo_count
      BY <1>2, <1>4, <1>10, <2>1, <2>4 DEF j
    <3>2. Slot(j) = fifo_wr_ptr
      BY <1>1, <3>1 DEF FifoHoldsYoungest
    <3>3. out_fifo'[Slot(j)] = RowData(pushed)
      BY <1>2, <1>6, <3>1, <3>2
    <3>4. pushed' - fifo_count' + i = pushed
      <4>1. pushed - fifo_count + fifo_count = pushed
        BY <1>2
      <4> QED
        BY <2>2, <3>1, <4>1
    <3> QED
      BY <2>1, <3>3, <3>4 DEF RowData
  <2> QED
    BY <2>1, <2>3, <2>4, <1>2
<1> QED
  BY <1>8, <1>9, <1>10 DEF FifoHoldsYoungest

\* The row counter does not wrap: it counts rows that were pushed.
LEMMA RowCounterBounded ==
  ASSUME IInv, tx_active
  PROVE  /\ (tx_row_count + 1) % WORD = tx_row_count + 1
         /\ tx_row_count + 1 \in 0 .. WORD - 1
<1>1. tx_row_count \in Nat /\ sent_row \in Nat /\ fifo_count \in Nat
      /\ pushed \in Nat /\ pushed <= MaxRows
  BY DEF IInv, TypeOK
<1>2. tx_row_count <= sent_row /\ pushed = sent_row + 1 + fifo_count
  BY DEF IInv, RowCounter, RowsConserved, InFlight
<1>3. 0 <= tx_row_count + 1 /\ tx_row_count + 1 < WORD
  BY <1>1, <1>2
<1> QED
  BY <1>1, <1>3

\* The flit on the bus of an active serializer is the next one in order.
LEMMA BusFlit ==
  ASSUME IInv
  PROVE  /\ st_source_valid = tx_active
         /\ tx_active => /\ tx_count = sent_flit
                         /\ st_source_data = <<sent_row, sent_flit>>
<1>1. tx_count \in FlitIndex
  BY DEF IInv, TypeOK
<1>2. 0 \in FlitIndex /\ 0 + tx_count < FLITS /\ tx_count + 0 = tx_count
  BY <1>1 DEF FlitIndex
<1>3. tx_active => tx_shift_reg[0] = <<sent_row, tx_count + 0>>
  BY <1>2 DEF IInv, ShiftHoldsRest
<1> QED
  BY <1>2, <1>3 DEF IInv, ShiftHoldsRest, st_source_valid, st_source_data

\* The part of the invariant about the serializer.
TxInv ==
  /\ tx_shift_reg \in [FlitIndex -> Flit]
  /\ tx_count \in FlitIndex
  /\ tx_active \in BOOLEAN /\ tx_sending_flit \in BOOLEAN
  /\ tx_row_count \in 0 .. WORD - 1
  /\ sent_row \in Nat /\ sent_flit \in FlitIndex
  /\ beat \in [data : Flit, sop : BOOLEAN, eop : BOOLEAN]
  /\ RowsConserved
  /\ ShiftHoldsRest
  /\ RowCounter

\* An edge without a flit leaving and without a row being loaded.
LEMMA QuietStep ==
  ASSUME NEW valid \in BOOLEAN, NEW ready \in BOOLEAN, NEW rows \in 0 .. MaxTotal,
         IInv, Clock(valid, ready, rows), TxIdle \/ TxHold(ready)
  PROVE  TxInv'
<1>1. /\ UNCHANGED <<fifo_rd_ptr, txVars>>
      /\ ~fifo_pop(ready)
      /\ ~(st_source_valid /\ ready)
  BY BusFlit DEF IInv, ShiftHoldsRest, TxIdle, TxHold, fifo_pop, FlitTaken, fifo_empty
<1>2. UNCHANGED <<sent_row, sent_flit, beat>>
  BY <1>1 DEF Clock, Observe
<1>3. /\ fifo_count' = IF fifo_push(valid) THEN fifo_count + 1 ELSE fifo_count
      /\ pushed' = IF fifo_push(valid) THEN pushed + 1 ELSE pushed
  BY <1>1 DEF Clock, StreamClock, FifoCount, fifo_push, pe_ready_out
<1>4. RowsConserved'
  BY <1>1, <1>2, <1>3 DEF IInv, TypeOK, RowsConserved, InFlight, txVars
<1> QED
  BY <1>1, <1>2, <1>4 DEF IInv, TypeOK, TxInv, ShiftHoldsRest, RowCounter, txVars

\* A load puts the whole oldest row into the shift register.
LEMMA LoadedRow ==
  ASSUME IInv, fifo_count > 0
  PROVE  /\ out_fifo[fifo_rd_ptr] \in [FlitIndex -> Flit]
         /\ out_fifo[fifo_rd_ptr] = RowData(pushed - fifo_count)
<1>1. /\ fifo_rd_ptr \in 0 .. DEPTH - 1 /\ fifo_count \in 0 .. DEPTH /\ pushed \in Int
      /\ out_fifo \in [0 .. DEPTH - 1 -> [FlitIndex -> Flit]]
  BY DEF IInv, TypeOK
<1>2. Slot(0) = fifo_rd_ptr /\ pushed - fifo_count + 0 = pushed - fifo_count
      /\ 0 \in 0 .. DEPTH - 1 /\ 0 < fifo_count
  BY <1>1 DEF Slot
<1>3. out_fifo[Slot(0)] = RowData(pushed - fifo_count + 0)
  BY <1>2 DEF IInv, FifoHoldsYoungest
<1> QED
  BY <1>1, <1>2, <1>3

\* The serializer leaves its idle state with the oldest row.
LEMMA StartStep ==
  ASSUME NEW valid \in BOOLEAN, NEW ready \in BOOLEAN, NEW rows \in 0 .. MaxTotal,
         IInv, Clock(valid, ready, rows), TxStart
  PROVE  TxInv'
<1>1. fifo_count \in Nat /\ fifo_count > 0 /\ pushed \in Nat /\ sent_row \in Nat
      /\ ~tx_active /\ sent_flit = 0 /\ pushed = sent_row + fifo_count
  BY DEF IInv, TypeOK, TxStart, fifo_empty, RowsConserved, InFlight, ShiftHoldsRest
<1>2. fifo_pop(ready)
  BY DEF TxStart, fifo_pop
<1>3. UNCHANGED <<sent_row, sent_flit, beat, tx_row_count>>
  BY <1>1, BusFlit DEF Clock, Observe, TxStart
<1>4. /\ fifo_count' = IF fifo_push(valid) THEN fifo_count ELSE fifo_count - 1
      /\ pushed' = IF fifo_push(valid) THEN pushed + 1 ELSE pushed
  BY <1>2 DEF Clock, StreamClock, FifoCount, fifo_push, pe_ready_out
<1>5. tx_active' = TRUE /\ tx_sending_flit' = TRUE /\ tx_count' = 0
      /\ tx_shift_reg' = out_fifo[fifo_rd_ptr]
  BY DEF TxStart, LoadRow
<1>6. tx_shift_reg' \in [FlitIndex -> Flit] /\ tx_shift_reg' = RowData(sent_row)
  <2>1. pushed - fifo_count = sent_row
    BY <1>1
  <2> QED
    BY <1>1, <1>5, <2>1, LoadedRow
<1>7. RowsConserved'
  BY <1>1, <1>3, <1>4, <1>5 DEF RowsConserved, InFlight
<1>8. ShiftHoldsRest'
  <2>1. \A f \in FlitIndex : tx_shift_reg'[f] = <<sent_row, 0 + f>>
    BY <1>6 DEF RowData, FlitIndex
  <2> QED
    BY <1>1, <1>3, <1>5, <2>1 DEF ShiftHoldsRest
<1>9. 0 \in FlitIndex
  BY DEF FlitIndex
<1>10. RowCounter'
  BY <1>3 DEF IInv, RowCounter
<1> QED
  BY <1>3, <1>5, <1>6, <1>7, <1>8, <1>9, <1>10 DEF IInv, TypeOK, TxInv

\* What a flit leaving does to the history.
LEMMA FlitLeaves ==
  ASSUME NEW valid \in BOOLEAN, NEW ready \in BOOLEAN, NEW rows \in 0 .. MaxTotal,
         IInv, Clock(valid, ready, rows), FlitTaken(ready)
  PROVE  /\ tx_active /\ tx_sending_flit
         /\ tx_count = sent_flit /\ tx_count \in FlitIndex
         /\ sent_row \in Nat /\ pushed = sent_row + 1 + fifo_count
         /\ fifo_count \in 0 .. DEPTH
         /\ beat' = [data |-> <<sent_row, sent_flit>>,
                     sop  |-> st_source_startofpacket,
                     eop  |-> st_source_endofpacket]
         /\ beat' \in [data : Flit, sop : BOOLEAN, eop : BOOLEAN]
         /\ LastFlit => sent_flit' = 0 /\ sent_row' = sent_row + 1
         /\ ~LastFlit => sent_flit' = sent_flit + 1 /\ sent_row' = sent_row
         /\ pushed' = IF fifo_push(valid) THEN pushed + 1 ELSE pushed
<1>1. tx_active /\ tx_sending_flit /\ ready
  BY DEF FlitTaken
<1>2. /\ tx_count = sent_flit /\ st_source_valid
      /\ st_source_data = <<sent_row, sent_flit>>
  BY <1>1, BusFlit
<1>3. /\ tx_count \in FlitIndex /\ sent_row \in Nat /\ sent_flit \in Int
      /\ fifo_count \in 0 .. DEPTH /\ pushed = sent_row + 1 + fifo_count
  BY <1>1 DEF IInv, TypeOK, RowsConserved, InFlight, FlitIndex
<1>4. beat' = [data |-> <<sent_row, sent_flit>>,
               sop  |-> st_source_startofpacket,
               eop  |-> st_source_endofpacket]
  BY <1>1, <1>2 DEF Clock, Observe
<1>5. <<sent_row, sent_flit>> \in Flit
  BY <1>3, PairIsFlit
<1>6. st_source_startofpacket \in BOOLEAN /\ st_source_endofpacket \in BOOLEAN
  BY DEF st_source_startofpacket, st_source_endofpacket
<1>7. beat' \in [data : Flit, sop : BOOLEAN, eop : BOOLEAN]
  BY <1>4, <1>5, <1>6
<1>8. /\ LastFlit => sent_flit' = 0 /\ sent_row' = sent_row + 1
      /\ ~LastFlit => sent_flit' = sent_flit + 1 /\ sent_row' = sent_row
  BY <1>1, <1>2 DEF Clock, Observe, LastFlit
<1>9. pushed' = IF fifo_push(valid) THEN pushed + 1 ELSE pushed
  BY DEF Clock, fifo_push, pe_ready_out
<1> QED
  BY <1>1, <1>2, <1>3, <1>4, <1>7, <1>8, <1>9

\* The end mark on a flit that leaves, and the row counter after it.
LEMMA RowCounterStep ==
  ASSUME NEW valid \in BOOLEAN, NEW ready \in BOOLEAN, NEW rows \in 0 .. MaxTotal,
         IInv, Clock(valid, ready, rows), FlitTaken(ready), LastFlit, CountRow
  PROVE  RowCounter' /\ tx_row_count' \in 0 .. WORD - 1
<1>1. /\ tx_active /\ tx_sending_flit /\ sent_row \in Nat
      /\ sent_flit' = 0 /\ sent_row' = sent_row + 1
      /\ beat'.eop = st_source_endofpacket
  BY FlitLeaves
<1>2. st_source_endofpacket <=> LastRow
  BY <1>1 DEF st_source_endofpacket
<1>3. tx_row_count' = IF LastRow THEN 0 ELSE tx_row_count + 1
  BY <1>1, RowCounterBounded DEF CountRow
<1>4. tx_row_count \in Nat /\ tx_row_count <= sent_row /\ tx_row_count + 1 \in 0 .. WORD - 1
  BY <1>1, RowCounterBounded DEF IInv, TypeOK, RowCounter
<1> QED
  BY <1>1, <1>2, <1>3, <1>4 DEF RowCounter

\* A flit that is not the last of its row leaves.
LEMMA ShiftStep ==
  ASSUME NEW valid \in BOOLEAN, NEW ready \in BOOLEAN, NEW rows \in 0 .. MaxTotal,
         IInv, Clock(valid, ready, rows), TxShift(ready)
  PROVE  TxInv'
<1>1. FlitTaken(ready) /\ ~LastFlit
  BY DEF TxShift
<1>2. /\ tx_active /\ tx_sending_flit
      /\ tx_count = sent_flit /\ tx_count \in FlitIndex
      /\ sent_row \in Nat /\ pushed = sent_row + 1 + fifo_count
      /\ fifo_count \in 0 .. DEPTH
      /\ beat' \in [data : Flit, sop : BOOLEAN, eop : BOOLEAN]
      /\ beat'.eop = st_source_endofpacket
      /\ sent_flit' = sent_flit + 1 /\ sent_row' = sent_row
      /\ pushed' = IF fifo_push(valid) THEN pushed + 1 ELSE pushed
  BY <1>1, FlitLeaves
<1>3. fifo_count' = IF fifo_push(valid) THEN fifo_count + 1 ELSE fifo_count
  BY <1>1, <1>2 DEF Clock, StreamClock, FifoCount, fifo_pop
<1>4. /\ UNCHANGED <<tx_active, tx_sending_flit, tx_row_count>>
      /\ tx_count' = tx_count + 1
      /\ tx_shift_reg' = [f \in FlitIndex |->
                            IF f = FLITS - 1 THEN ZeroFlit ELSE tx_shift_reg[f + 1]]
  BY DEF TxShift
<1>5. tx_count' \in FlitIndex /\ sent_flit' \in FlitIndex
  BY <1>1, <1>2, <1>4 DEF FlitIndex, LastFlit
<1>6. tx_shift_reg' \in [FlitIndex -> Flit]
  <2>1. \A f \in FlitIndex : f # FLITS - 1 => tx_shift_reg[f + 1] \in Flit
    BY DEF IInv, TypeOK, FlitIndex
  <2> QED
    BY <1>4, <2>1, ZeroFlitAssumption DEF Flit
<1>7. RowsConserved'
  BY <1>2, <1>3, <1>4 DEF RowsConserved, InFlight
<1>8. ShiftHoldsRest'
  <2>1. ASSUME NEW f \in FlitIndex, f + tx_count' < FLITS
        PROVE  tx_shift_reg'[f] = <<sent_row', tx_count' + f>>
    <3>1. f + 1 \in FlitIndex /\ f # FLITS - 1 /\ f + 1 + tx_count < FLITS
          /\ tx_count + (f + 1) = tx_count' + f
      BY <1>2, <1>4, <2>1 DEF FlitIndex
    <3>2. tx_shift_reg[f + 1] = <<sent_row, tx_count + (f + 1)>>
      BY <1>2, <3>1 DEF IInv, ShiftHoldsRest
    <3> QED
      BY <1>2, <1>4, <3>1, <3>2
  <2> QED
    BY <1>2, <1>4, <2>1 DEF IInv, ShiftHoldsRest
<1>9. RowCounter'
  <2>1. ~st_source_endofpacket
    BY <1>1 DEF st_source_endofpacket
  <2>2. sent_flit' # 0
    BY <1>2 DEF FlitIndex
  <2> QED
    BY <1>2, <1>4, <2>1, <2>2 DEF IInv, RowCounter
<1> QED
  BY <1>2, <1>4, <1>5, <1>6, <1>7, <1>8, <1>9 DEF IInv, TypeOK, TxInv

\* The last flit of a row leaves and the next row follows without a gap.
LEMMA NextRowStep ==
  ASSUME NEW valid \in BOOLEAN, NEW ready \in BOOLEAN, NEW rows \in 0 .. MaxTotal,
         IInv, Clock(valid, ready, rows), TxNextRow(ready)
  PROVE  TxInv'
<1>1. FlitTaken(ready) /\ LastFlit /\ CountRow /\ fifo_count # 0 /\ fifo_pop(ready)
  BY DEF TxNextRow, fifo_empty, fifo_pop
<1>2. /\ tx_active /\ tx_sending_flit
      /\ sent_row \in Nat /\ pushed = sent_row + 1 + fifo_count
      /\ fifo_count \in 0 .. DEPTH
      /\ beat' \in [data : Flit, sop : BOOLEAN, eop : BOOLEAN]
      /\ sent_flit' = 0 /\ sent_row' = sent_row + 1
      /\ pushed' = IF fifo_push(valid) THEN pushed + 1 ELSE pushed
  BY <1>1, FlitLeaves
<1>3. fifo_count' = IF fifo_push(valid) THEN fifo_count ELSE fifo_count - 1
  BY <1>1 DEF Clock, StreamClock, FifoCount
<1>4. /\ UNCHANGED <<tx_active, tx_sending_flit>>
      /\ tx_count' = 0 /\ tx_shift_reg' = out_fifo[fifo_rd_ptr]
  BY DEF TxNextRow, LoadRow
<1>5. tx_shift_reg' \in [FlitIndex -> Flit] /\ tx_shift_reg' = RowData(sent_row')
  <2>1. pushed - fifo_count = sent_row' /\ fifo_count > 0
    BY <1>1, <1>2
  <2> QED
    BY <1>4, <2>1, LoadedRow
<1>6. RowsConserved'
  BY <1>1, <1>2, <1>3, <1>4 DEF RowsConserved, InFlight
<1>7. ShiftHoldsRest'
  <2>1. \A f \in FlitIndex : tx_shift_reg'[f] = <<sent_row', 0 + f>>
    <3>1. \A f \in FlitIndex : 0 + f = f
      BY DEF FlitIndex
    <3>2. \A f \in FlitIndex : tx_shift_reg'[f] = <<sent_row', f>>
      BY <1>5, Zenon DEF RowData
    <3> QED
      BY <3>1, <3>2
  <2>2. tx_active' /\ tx_active' = tx_sending_flit'
    <3>1. tx_active = tx_sending_flit
      BY DEF IInv, ShiftHoldsRest
    <3> QED
      BY <1>2, <1>4, <3>1, Zenon
  <2> QED
    BY <1>2, <1>4, <2>1, <2>2 DEF ShiftHoldsRest
<1>8. RowCounter' /\ tx_row_count' \in 0 .. WORD - 1
  BY <1>1, RowCounterStep
<1>9. 0 \in FlitIndex
  BY DEF FlitIndex
<1> QED
  BY <1>2, <1>4, <1>5, <1>6, <1>7, <1>8, <1>9 DEF IInv, TypeOK, TxInv

\* The last flit of the last row in the FIFO leaves.
LEMMA DrainedStep ==
  ASSUME NEW valid \in BOOLEAN, NEW ready \in BOOLEAN, NEW rows \in 0 .. MaxTotal,
         IInv, Clock(valid, ready, rows), TxDrained(ready)
  PROVE  TxInv'
<1>1. FlitTaken(ready) /\ LastFlit /\ CountRow /\ fifo_count = 0 /\ ~fifo_pop(ready)
  BY DEF TxDrained, fifo_empty, fifo_pop
<1>2. /\ sent_row \in Nat /\ pushed = sent_row + 1 + fifo_count
      /\ beat' \in [data : Flit, sop : BOOLEAN, eop : BOOLEAN]
      /\ sent_flit' = 0 /\ sent_row' = sent_row + 1
      /\ pushed' = IF fifo_push(valid) THEN pushed + 1 ELSE pushed
  BY <1>1, FlitLeaves
<1>3. fifo_count' = IF fifo_push(valid) THEN fifo_count + 1 ELSE fifo_count
  BY <1>1 DEF Clock, StreamClock, FifoCount
<1>4. /\ tx_active' = FALSE /\ tx_sending_flit' = FALSE
      /\ UNCHANGED <<tx_shift_reg, tx_count>>
  BY DEF TxDrained
<1>5. RowsConserved'
  BY <1>1, <1>2, <1>3, <1>4 DEF RowsConserved, InFlight
<1>6. ShiftHoldsRest'
  BY <1>2, <1>4 DEF ShiftHoldsRest
<1>7. RowCounter' /\ tx_row_count' \in 0 .. WORD - 1
  BY <1>1, RowCounterStep
<1>8. 0 \in FlitIndex
  BY DEF FlitIndex
<1>9. tx_active' \in BOOLEAN /\ tx_sending_flit' \in BOOLEAN
  BY <1>4
<1>10. sent_row' \in Nat
  BY <1>2
<1>11. tx_shift_reg' \in [FlitIndex -> Flit] /\ tx_count' \in FlitIndex
  BY <1>4 DEF IInv, TypeOK
<1> QED
  BY <1>2, <1>5, <1>6, <1>7, <1>8, <1>9, <1>10, <1>11, Zenon DEF TxInv

----------------------------------------------------------------------------
(* The theorems *)

\* Every edge preserves the invariant.
LEMMA StepIInv == IInv /\ [Next]_vars => IInv'
<1>1. ASSUME IInv, Next PROVE IInv'
  <2>1. PICK valid \in BOOLEAN, ready \in BOOLEAN, rows \in 0 .. MaxTotal :
          Clock(valid, ready, rows)
    BY <1>1 DEF Next
  <2>2. TxInv'
    <3>1. Serializer(ready)
      BY <2>1 DEF Clock, StreamClock
    <3> QED
      BY <1>1, <2>1, <3>1, QuietStep, StartStep, ShiftStep, NextRowStep, DrainedStep
      DEF Serializer
  <2>3. /\ out_fifo' \in [0 .. DEPTH - 1 -> [FlitIndex -> Flit]]
        /\ fifo_wr_ptr' \in 0 .. DEPTH - 1 /\ fifo_rd_ptr' \in 0 .. DEPTH - 1
        /\ fifo_count' \in 0 .. DEPTH
        /\ FifoHoldsYoungest'
    BY <1>1, <2>1, FifoStep
  <2>4. seq_total_rows' \in 0 .. MaxTotal
    BY <2>1 DEF Clock
  <2>5. pushed' \in 0 .. MaxRows
    BY <1>1, <2>1 DEF Clock, IInv, TypeOK
  <2> QED
    BY <2>2, <2>3, <2>4, <2>5 DEF TxInv, IInv, TypeOK
<1>2. ASSUME IInv, UNCHANGED vars PROVE IInv'
  BY <1>2 DEF vars, streamVars, fifoVars, txVars, history, IInv, TypeOK, RowsConserved,
     InFlight, FifoHoldsYoungest, Slot, ShiftHoldsRest, RowCounter
<1> QED
  BY <1>1, <1>2

\* The strengthened invariant holds in every state the controller reaches.
THEOREM Inductive == Spec => []IInv
  BY InitIInv, StepIInv, PTL DEF Spec

\* Every register of the stream controller stays within its width: the ring
\* pointers stay inside out_fifo and fifo_count in 0..DEPTH.
THEOREM TypeCorrect == Spec => []TypeOK
<1>1. IInv => TypeOK
  BY DEF IInv
<1> QED
  BY <1>1, Inductive, PTL

\* No row is lost or duplicated between the core and the write DMA.
THEOREM Conservation == Spec => []RowsConserved
<1>1. IInv => RowsConserved
  BY DEF IInv
<1> QED
  BY <1>1, Inductive, PTL

\* The ring never overwrites a row that was not yet loaded for sending.
THEOREM FifoSafe == Spec => []FifoHoldsYoungest
<1>1. IInv => FifoHoldsYoungest
  BY DEF IInv
<1> QED
  BY <1>1, Inductive, PTL

\* Flits leave in order: the one on the bus is always the next one due.
THEOREM InOrder == Spec => []NextFlitOnBus
<1>1. IInv => NextFlitOnBus
  BY BusFlit DEF NextFlitOnBus
<1> QED
  BY <1>1, Inductive, PTL

\* A flit leaves exactly on the edges that change the position in the
\* stream; the serializer's registers keep still on the others.
LEMMA OnlyTakenMoves ==
  ASSUME NEW valid \in BOOLEAN, NEW ready \in BOOLEAN, NEW rows \in 0 .. MaxTotal,
         IInv, Clock(valid, ready, rows)
  PROVE  /\ FlitTaken(ready) => sent' # sent
         /\ ~FlitTaken(ready) => UNCHANGED <<sent_row, sent_flit, beat, tx_row_count>>
         /\ tx_active /\ ~FlitTaken(ready) => UNCHANGED txVars
<1>0. Serializer(ready)
  BY DEF Clock, StreamClock
<1>1. FlitTaken(ready) => sent' # sent
  <2>1. SUFFICES ASSUME FlitTaken(ready) PROVE sent' # sent
    OBVIOUS
  <2>2. /\ tx_count = sent_flit /\ tx_count \in FlitIndex /\ sent_row \in Nat
        /\ LastFlit => sent_row' = sent_row + 1
        /\ ~LastFlit => sent_flit' = sent_flit + 1
    BY <2>1, FlitLeaves, Zenon
  <2>3. sent_flit \in Int
    BY <2>2 DEF FlitIndex
  <2>4. sent_row' # sent_row \/ sent_flit' # sent_flit
    BY <2>2, <2>3
  <2> QED
    BY <2>4 DEF sent
<1>2. ~FlitTaken(ready) => UNCHANGED <<sent_row, sent_flit, beat, tx_row_count>>
  <2>1. SUFFICES ASSUME ~FlitTaken(ready)
                 PROVE  UNCHANGED <<sent_row, sent_flit, beat, tx_row_count>>
    OBVIOUS
  <2>2. ~(st_source_valid /\ ready)
    BY <2>1, BusFlit DEF FlitTaken, st_source_valid
  <2>3. UNCHANGED <<sent_row, sent_flit, beat>>
    BY <2>2 DEF Clock, Observe
  <2>4. UNCHANGED tx_row_count
    BY <1>0, <2>1 DEF Serializer, TxIdle, TxStart, TxHold, TxShift, TxNextRow,
       TxDrained, txVars
  <2> QED
    BY <2>3, <2>4
<1>3. tx_active /\ ~FlitTaken(ready) => UNCHANGED txVars
  BY <1>0 DEF Serializer, TxIdle, TxStart, TxHold, TxShift, TxNextRow, TxDrained
<1> QED
  BY <1>1, <1>2, <1>3

\* Avalon-ST: an offered flit stays offered, unchanged, until it is taken.
THEOREM HoldRule == Spec => HeldUntilReady
<1> DEFINE Hold == st_source_valid /\ sent' = sent =>
                     /\ st_source_valid'
                     /\ st_source_data' = st_source_data
                     /\ st_source_startofpacket' = st_source_startofpacket
                     /\ seq_total_rows' = seq_total_rows =>
                          st_source_endofpacket' = st_source_endofpacket
<1>1. ASSUME IInv, [Next]_vars PROVE [Hold]_vars
  <2>1. CASE UNCHANGED vars
    BY <2>1
  <2>2. ASSUME NEW valid \in BOOLEAN, NEW ready \in BOOLEAN, NEW rows \in 0 .. MaxTotal,
               Clock(valid, ready, rows), st_source_valid, sent' = sent
        PROVE  Hold
    <3>1. tx_active /\ ~FlitTaken(ready)
      BY <1>1, <2>2, OnlyTakenMoves, BusFlit
    <3>2. UNCHANGED <<tx_shift_reg, tx_count, tx_active, tx_sending_flit, tx_row_count>>
      BY <1>1, <2>2, <3>1, OnlyTakenMoves DEF txVars
    <3> QED
      BY <2>2, <3>2 DEF st_source_valid, st_source_data, st_source_startofpacket,
         st_source_endofpacket, LastRow, LastFlit
  <2> QED
    BY <1>1, <2>1, <2>2 DEF Next
<1> QED
  BY <1>1, Inductive, PTL DEF Spec, HeldUntilReady

\* Packets are framed whatever software writes to REG_SEQ_ROWS: the counter
\* that places the start mark is 0 exactly after an end mark.
THEOREM Framing == Spec => Framed
<1> DEFINE Frame == beat' # beat => (beat'.sop <=> beat.eop)
<1>1. ASSUME IInv, [Next]_vars PROVE [Frame]_vars
  <2>1. CASE UNCHANGED vars
    BY <2>1
  <2>2. ASSUME NEW valid \in BOOLEAN, NEW ready \in BOOLEAN, NEW rows \in 0 .. MaxTotal,
               Clock(valid, ready, rows), beat' # beat
        PROVE  beat'.sop <=> beat.eop
    <3>1. FlitTaken(ready)
      BY <1>1, <2>2, OnlyTakenMoves
    <3>2. beat'.sop = st_source_startofpacket /\ tx_sending_flit /\ tx_count = sent_flit
      BY <1>1, <2>2, <3>1, FlitLeaves
    <3> QED
      BY <1>1, <3>2 DEF st_source_startofpacket, IInv, RowCounter
  <2> QED
    BY <1>1, <2>1, <2>2 DEF Next
<1> QED
  BY <1>1, Inductive, PTL DEF Spec, Framed

\* The controller implements the abstract row stream: acceptance, order,
\* packet marks and the bound of DEPTH + 1 rows.
THEOREM Refinement == Spec => ImplementsRowStream
<1>1. Init => Abstract!Init
  BY DEF Init, StreamReset, Abstract!Init, NoBeat, Abstract!NoBeat
<1>2. ASSUME IInv, Next PROVE Abstract!Next
  <2>1. PICK valid \in BOOLEAN, ready \in BOOLEAN, rows \in 0 .. MaxTotal :
          Clock(valid, ready, rows)
    BY <1>2 DEF Next
  <2>2. seq_total_rows' \in Nat
    BY <2>1 DEF Clock
  <2>3. Abstract!Accept \/ UNCHANGED pushed
    <3>1. CASE fifo_push(valid)
      <4>1. fifo_count \in Nat /\ fifo_count < DEPTH /\ sent_row \in Nat
        BY <1>2, <3>1 DEF IInv, TypeOK, fifo_push, fifo_full
      <4>2. pushed - sent_row < DEPTH + 1
        BY <1>2, <4>1 DEF IInv, RowsConserved, InFlight
      <4>3. pushed' = pushed + 1
        BY <2>1, <3>1 DEF Clock, fifo_push, pe_ready_out
      <4> QED
        BY <4>2, <4>3 DEF Abstract!Accept
    <3>2. CASE ~fifo_push(valid)
      BY <2>1, <3>2 DEF Clock, fifo_push, pe_ready_out
    <3> QED
      BY <3>1, <3>2
  <2>4. CASE FlitTaken(ready)
    <3>1. /\ tx_active /\ tx_sending_flit /\ tx_count = sent_flit /\ tx_count \in FlitIndex
          /\ sent_row \in Nat /\ pushed = sent_row + 1 + fifo_count /\ fifo_count \in Nat
          /\ beat' = [data |-> <<sent_row, sent_flit>>,
                      sop  |-> st_source_startofpacket,
                      eop  |-> st_source_endofpacket]
          /\ LastFlit => sent_flit' = 0 /\ sent_row' = sent_row + 1
          /\ ~LastFlit => sent_flit' = sent_flit + 1 /\ sent_row' = sent_row
      BY <1>2, <2>1, <2>4, FlitLeaves
    <3>2. sent_row < pushed
      BY <3>1
    <3>3. LastRow <=> Abstract!EndsSequence
      BY DEF LastRow, Abstract!EndsSequence
    <3>4. beat' = [data |-> <<sent_row, sent_flit>>,
                   sop  |-> sent_flit = 0 /\ tx_row_count = 0,
                   eop  |-> sent_flit = FLITS - 1 /\ Abstract!EndsSequence]
      <4>1. st_source_startofpacket = (sent_flit = 0 /\ tx_row_count = 0)
        BY <3>1 DEF st_source_startofpacket
      <4>2. st_source_endofpacket = (sent_flit = FLITS - 1 /\ Abstract!EndsSequence)
        BY <3>1, <3>3 DEF st_source_endofpacket, LastFlit
      <4> QED
        BY <3>1, <4>1, <4>2, Zenon
    <3>5. LastFlit <=> ~(sent_flit < FLITS - 1)
      BY <3>1 DEF LastFlit, FlitIndex
    <3>6. CASE LastFlit
      <4>1. CountRow
        BY <2>1, <2>4, <3>6 DEF Clock, StreamClock, Serializer, TxIdle, TxStart, TxHold,
           TxShift, TxNextRow, TxDrained, FlitTaken
      <4>2. tx_row_count' = IF Abstract!EndsSequence THEN 0 ELSE tx_row_count + 1
        BY <1>2, <3>1, <3>3, <4>1, RowCounterBounded DEF CountRow
      <4> QED
        BY <2>2, <2>3, <3>1, <3>2, <3>4, <3>5, <3>6, <4>2, Zenon
        DEF Abstract!Next, Abstract!Deliver
    <3>7. CASE ~LastFlit
      <4>1. UNCHANGED tx_row_count
        BY <2>1, <2>4, <3>7 DEF Clock, StreamClock, Serializer, TxIdle, TxStart, TxHold,
           TxShift, TxNextRow, TxDrained, FlitTaken
      <4> QED
        BY <2>2, <2>3, <3>1, <3>2, <3>4, <3>5, <3>7, <4>1, Zenon
        DEF Abstract!Next, Abstract!Deliver
    <3> QED
      BY <3>6, <3>7
  <2>5. CASE ~FlitTaken(ready)
    <3>1. UNCHANGED <<sent_row, sent_flit, tx_row_count, beat>>
      BY <1>2, <2>1, <2>5, OnlyTakenMoves
    <3> QED
      BY <2>2, <2>3, <3>1 DEF Abstract!Next
  <2> QED
    BY <2>4, <2>5
<1>3. UNCHANGED vars => UNCHANGED Abstract!vars
  BY DEF vars, streamVars, txVars, history, Abstract!vars
<1> QED
  BY <1>1, <1>2, <1>3, Inductive, PTL DEF Spec, ImplementsRowStream, Abstract!Spec

============================================================================
