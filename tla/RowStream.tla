----------------------------- MODULE RowStream -----------------------------
(***************************************************************************)
(* What the result path of the NPU promises to the write DMA: every row    *)
(* the systolic core hands over leaves exactly once, in order, flit by     *)
(* flit, and the packet marks frame sequences of `total' rows.  No FIFO,   *)
(* no shift register: rows are numbered in the order of their acceptance.  *)
(***************************************************************************)
EXTENDS Integers

CONSTANTS FLITS,      \* flits of a row
          CAPACITY    \* rows that may be accepted and not yet fully sent

VARIABLES accepted,   \* rows taken from the core
          row, flit,  \* the next flit to leave
          seq_row,    \* rows sent in the current sequence
          total,      \* rows of a sequence, 0 for a sequence without end
          beat        \* the last flit that left, with its packet marks

vars == <<accepted, row, flit, seq_row, total, beat>>

\* Before the first flit the port is as it is after an end of packet.
NoBeat == [data |-> <<0, 0>>, sop |-> FALSE, eop |-> TRUE]

Init ==
  /\ accepted = 0 /\ row = 0 /\ flit = 0 /\ seq_row = 0
  /\ total \in Nat
  /\ beat = NoBeat

EndsSequence == total > 0 /\ seq_row = total - 1

Accept ==
  /\ accepted - row < CAPACITY
  /\ accepted' = accepted + 1

Deliver ==
  /\ row < accepted
  /\ beat' = [data |-> <<row, flit>>,
              sop  |-> flit = 0 /\ seq_row = 0,
              eop  |-> flit = FLITS - 1 /\ EndsSequence]
  /\ IF flit < FLITS - 1
       THEN flit' = flit + 1 /\ UNCHANGED <<row, seq_row>>
       ELSE /\ flit' = 0
            /\ row' = row + 1
            /\ seq_row' = IF EndsSequence THEN 0 ELSE seq_row + 1

\* A clock edge may take a row, send a flit, do both, or reprogram `total'.
Next ==
  /\ Accept \/ UNCHANGED accepted
  /\ Deliver \/ UNCHANGED <<row, flit, seq_row, beat>>
  /\ total' \in Nat

Spec == Init /\ [][Next]_vars

============================================================================
