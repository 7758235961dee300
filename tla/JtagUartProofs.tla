--------------------------- MODULE JtagUartProofs ---------------------------
(***************************************************************************)
(* Proofs about the interrupt driven JTAG UART driver, for every size of   *)
(* the two rings and of the FIFOs of the device, every byte count and      *)
(* every timeout, and, at the end, about the polled driver.                *)
(***************************************************************************)
EXTENDS MCUart, SequenceTheorems, TLAPS

Reading == {"r_index", "r_copy", "r_free", "r_wait", "r_check", "r_end"}
Writing == {"w_index", "w_copy", "w_publish", "w_kick", "w_wait", "w_check", "w_end"}

\* The types of the receive side, of the transmit side and of the control
\* state.
IsrType == [at : {"off", "control", "rx", "tx"}, ri : BOOLEAN, wi : BOOLEAN,
            space : 0..FifoDepth, more : BOOLEAN]
OpType == [left : Nat, done : Nat, nonblock : BOOLEAN, in : Index, out : Index,
           n : 0..BUF_LEN]

RxTypes ==
  /\ rx_in \in Index /\ rx_out \in Index /\ rx_buf \in [Index -> 0..MaxRx]
  /\ hwrx \in Seq(0..MaxRx) /\ delivered \in Seq(0..MaxRx) /\ sent \in 0..MaxRx
TxTypes ==
  /\ tx_in \in Index /\ tx_out \in Index /\ tx_buf \in [Index -> 0..MaxTx]
  /\ hwtx \in Seq(0..MaxTx) /\ got \in Seq(0..MaxTx) /\ accepted \in 0..MaxTx
  /\ Len(hwtx) <= FifoDepth
ControlTypes ==
  /\ irq_enable \in SUBSET {"RE", "WE"}
  /\ host_inactive \in 0..(INT_MAX - 2) /\ timeout \in 2..INT_MAX
  /\ isr \in IsrType /\ op \in OpType
  /\ pc \in {"idle", "c_wait"} \cup Reading \cup Writing

\* The space the interrupt routine has read from CONTROL is still there when
\* it uses it: only the host has touched the FIFO since, and only to empty it.
SpaceIsThere == isr.at \in {"rx", "tx"} => Len(hwtx) + isr.space <= FifoDepth

\* The distance from out to in, and the slot k characters after out, without
\* a modulus.
Used(in, out) == IF in >= out THEN in - out ELSE in + BUF_LEN - out
Slot(out, k) == IF out + k < BUF_LEN THEN out + k ELSE out + k - BUF_LEN

\* What a read has measured is still there when it copies and frees it: the
\* interrupt routine only adds characters.
ReadFits ==
  /\ pc \in {"r_copy", "r_free"} =>
        /\ op.out = rx_out
        /\ op.n > 0 /\ op.n <= Used(rx_in, rx_out) /\ op.out + op.n <= BUF_LEN
  /\ pc = "r_copy" => op.n <= op.left
  /\ pc = "r_free" => op.done > 0
  /\ pc \in {"r_index", "r_wait", "r_check"} => op.left > 0

\* The room a write has measured is still there when it fills and publishes
\* it: the interrupt routine only takes characters.
WriteFits ==
  /\ pc \in {"w_copy", "w_publish"} =>
        /\ op.in = tx_in
        /\ op.n > 0 /\ op.n + Used(tx_in, tx_out) < BUF_LEN
        /\ op.in + op.n <= BUF_LEN
  /\ pc = "w_copy" => op.n <= op.left
  /\ pc \in {"w_index", "w_wait", "w_check"} => op.left > 0
  /\ pc \in Writing => accepted + op.left <= MaxTx

Reader == IF pc = "r_free" THEN Slot(op.out, op.n) ELSE rx_out
Writer == IF pc = "w_publish" THEN Slot(op.in, op.n) ELSE tx_in
RxUsed == Used(rx_in, Reader)
TxUsed == Used(Writer, tx_out)

\* RxConserved and TxConserved, character by character.
RxPlaced ==
  /\ Len(delivered) + RxUsed + Len(hwrx) = sent
  /\ \A i \in 1..Len(delivered) : delivered[i] = i
  /\ \A k \in 0..(RxUsed - 1) : rx_buf[Slot(Reader, k)] = Len(delivered) + k + 1
  /\ \A j \in 1..Len(hwrx) : hwrx[j] = Len(delivered) + RxUsed + j

TxPlaced ==
  /\ Len(got) + Len(hwtx) + TxUsed = accepted
  /\ \A i \in 1..Len(got) : got[i] = i
  /\ \A j \in 1..Len(hwtx) : hwtx[j] = Len(got) + j
  /\ \A k \in 0..(TxUsed - 1) :
        tx_buf[Slot(tx_out, k)] = Len(got) + Len(hwtx) + k + 1

RxInv == RxTypes /\ ReadFits /\ RxPlaced
TxInv == TxTypes /\ WriteFits /\ TxPlaced
IInv ==
  /\ ControlTypes /\ SpaceIsThere
  /\ RxInv /\ RxArmed
  /\ TxInv /\ TxArmed

----------------------------------------------------------------------------
(* The rings.                                                              *)

\* The driver's modulus is the wrap at the end of the buffer.
LEMMA WrapIsSlot ==
  ASSUME NEW i \in Index, NEW k \in 0..BUF_LEN
  PROVE  (i + k) % BUF_LEN = Slot(i, k) /\ Slot(i, k) \in Index
<1> USE UartAssumption
<1>1. CASE i + k < BUF_LEN
  BY <1>1 DEF Slot, Index
<1>2. CASE i + k >= BUF_LEN
  BY <1>2 DEF Slot, Index
<1> QED
  BY <1>1, <1>2 DEF Index

\* The next slot of the ring is one slot further.
LEMMA IncIsSlot ==
  ASSUME NEW i \in Index
  PROVE  Inc(i) = Slot(i, 1) /\ Inc(i) \in Index
  BY UartAssumption, WrapIsSlot DEF Inc

\* The number of characters of a ring, as the code computes it.
LEMMA UsedIsMod ==
  ASSUME NEW in \in Index, NEW out \in Index
  PROVE  (in + BUF_LEN - out) % BUF_LEN = Used(in, out) /\ Used(in, out) \in Index
<1> USE UartAssumption
<1>1. CASE in < out
  BY <1>1 DEF Used, Index
<1>2. CASE in >= out
  <2>1. in + BUF_LEN - out \in BUF_LEN..(2 * BUF_LEN - 1)
    BY <1>2 DEF Index
  <2> QED
    BY <1>2, <2>1 DEF Used, Index
<1> QED
  BY <1>1, <1>2 DEF Index

\* Adding n characters to a ring with room for them makes it n longer.
LEMMA UsedGrows ==
  ASSUME NEW in \in Index, NEW out \in Index, NEW n \in Nat, Used(in, out) + n < BUF_LEN
  PROVE  Used(Slot(in, n), out) = Used(in, out) + n
  BY UartAssumption DEF Used, Slot, Index

\* Taking n characters out of a ring makes it n shorter.
LEMMA UsedShrinks ==
  ASSUME NEW in \in Index, NEW out \in Index, NEW n \in 0..Used(in, out)
  PROVE  Used(in, Slot(out, n)) = Used(in, out) - n
  BY UartAssumption DEF Used, Slot, Index

\* The next slot is out exactly when all slots but one are used.
LEMMA FullMeansFull ==
  ASSUME NEW in \in Index, NEW out \in Index
  PROVE  Inc(in) = out <=> Used(in, out) = BUF_LEN - 1
  BY UartAssumption, IncIsSlot DEF Used, Slot, Index

\* The slots of a ring follow each other.
LEMMA SlotsFollow ==
  ASSUME NEW out \in Index, NEW j \in Index, NEW k \in Index, j + k < BUF_LEN
  PROVE  Slot(Slot(out, j), k) = Slot(out, j + k)
  BY UartAssumption DEF Slot, Index

\* n free slots from in on, without a wrap: they are not in the ring, and they
\* are where it continues.
LEMMA SlotsOfRoom ==
  ASSUME NEW in \in Index, NEW out \in Index, NEW n \in Nat, NEW k \in Index,
         in + n <= BUF_LEN, n + Used(in, out) < BUF_LEN
  PROVE  /\ k < Used(in, out) => Slot(out, k) \notin in..(in + n - 1)
         /\ k >= Used(in, out) /\ k < Used(in, out) + n =>
               Slot(out, k) = in + (k - Used(in, out))
<1> USE UartAssumption DEF Used, Slot, Index
<1>1. CASE in >= out
  BY <1>1
<1>2. CASE in < out
  BY <1>2
<1> QED
  BY <1>1, <1>2

\* A function on 1..n is a sequence of length n.
LEMMA FunIsSeq ==
  ASSUME NEW n \in Nat, NEW S, NEW f \in [1..n -> S]
  PROVE  f \in Seq(S) /\ Len(f) = n
  OBVIOUS

\* The characters of a ring, without a modulus.
LEMMA RingIsSlots ==
  ASSUME NEW in \in Index, NEW out \in Index, NEW buf \in [Index -> Nat]
  PROVE  /\ Ring(buf, in, out) \in Seq(Nat)
         /\ Len(Ring(buf, in, out)) = Used(in, out)
         /\ \A i \in 1..Used(in, out) : Ring(buf, in, out)[i] = buf[Slot(out, i - 1)]
<1> DEFINE n == Used(in, out)
<1>1. n \in Index
  BY UsedIsMod
<1>0. n \in Nat
  BY <1>1, UartAssumption DEF Index
<1>2. \A i \in 1..n : (out + i - 1) % BUF_LEN = Slot(out, i - 1) /\ Slot(out, i - 1) \in Index
  <2> TAKE i \in 1..n
  <2>1. i - 1 \in 0..BUF_LEN /\ out + (i - 1) = out + i - 1
    BY <1>0, <1>1, UartAssumption DEF Index
  <2> QED
    BY <2>1, WrapIsSlot
<1>3. Ring(buf, in, out) = [i \in 1..n |-> buf[(out + i - 1) % BUF_LEN]]
  BY UsedIsMod DEF Ring
<1>4. \A i \in 1..n : buf[(out + i - 1) % BUF_LEN] \in Nat
  BY <1>2
<1>5. Ring(buf, in, out) \in [1..n -> Nat]
  BY <1>3, <1>4
<1>6. Ring(buf, in, out) \in Seq(Nat) /\ Len(Ring(buf, in, out)) = n
  BY <1>0, <1>5, FunIsSeq
<1> QED
  BY <1>2, <1>3, <1>6

\* The sequence of length n whose entries are their positions.
LEMMA SeqIsNumbers ==
  ASSUME NEW n \in Nat, NEW s \in Seq(Nat), Len(s) = n, \A i \in 1..n : s[i] = i
  PROVE  s = Numbers(1, n)
<1>1. Numbers(1, n) = [i \in 1..n |-> 1 + i - 1]
  BY DEF Numbers
<1>2. s \in [1..n -> Nat]
  BY LenProperties
<1> QED
  BY <1>1, <1>2

\* Three sequences continue each other's numbers, to n.
CountOn(a, b, c, n) ==
  /\ Len(a) + Len(b) + Len(c) = n
  /\ \A i \in 1..Len(a) : a[i] = i
  /\ \A i \in 1..Len(b) : b[i] = Len(a) + i
  /\ \A i \in 1..Len(c) : c[i] = Len(a) + Len(b) + i
\* Three sequences that continue each other's numbers make up 1..n.
LEMMA ThreeParts ==
  ASSUME NEW n \in Nat, NEW a \in Seq(Nat), NEW b \in Seq(Nat), NEW c \in Seq(Nat),
         CountOn(a, b, c, n)
  PROVE  a \o b \o c = Numbers(1, n)
<1> USE DEF CountOn
<1> DEFINE ab == a \o b
<1>1. /\ ab \in Seq(Nat) /\ Len(ab) = Len(a) + Len(b)
      /\ \A i \in 1..(Len(a) + Len(b)) : ab[i] = IF i <= Len(a) THEN a[i] ELSE b[i - Len(a)]
  BY ConcatProperties
<1>2. Len(a) \in Nat /\ Len(b) \in Nat /\ Len(c) \in Nat
  BY LenProperties
<1>3. \A i \in 1..Len(ab) : ab[i] = i
  BY <1>1, <1>2
<1> HIDE DEF ab
<1>4. /\ ab \o c \in Seq(Nat) /\ Len(ab \o c) = Len(ab) + Len(c)
      /\ \A i \in 1..(Len(ab) + Len(c)) :
            (ab \o c)[i] = IF i <= Len(ab) THEN ab[i] ELSE c[i - Len(ab)]
  BY <1>1, ConcatProperties, Zenon
<1>5. Len(ab \o c) = n /\ \A i \in 1..n : (ab \o c)[i] = i
  <2>1. /\ Len(ab) = Len(a) + Len(b) /\ Len(ab \o c) = n
        /\ n = Len(ab) + Len(c)
    BY <1>1, <1>2, <1>4
  <2>2. ASSUME NEW i \in 1..n PROVE (ab \o c)[i] = i
    <3>1. (ab \o c)[i] = IF i <= Len(ab) THEN ab[i] ELSE c[i - Len(ab)]
      BY <1>4, <2>1, <2>2, Zenon
    <3>2. CASE i <= Len(ab)
      <4>1. i \in 1..Len(ab)
        BY <1>2, <2>1, <3>2
      <4> QED
        BY <1>3, <3>1, <3>2, <4>1, Zenon
    <3>3. CASE ~(i <= Len(ab))
      <4>1. i - Len(ab) \in 1..Len(c) /\ Len(a) + Len(b) + (i - Len(ab)) = i
        BY <1>2, <2>1, <3>3
      <4>2. c[i - Len(ab)] = Len(a) + Len(b) + (i - Len(ab))
        BY <4>1, Zenon
      <4> QED
        BY <3>1, <3>3, <4>1, <4>2, Zenon
    <3> QED
      BY <3>2, <3>3
  <2> QED
    BY <2>1, <2>2, Zenon
<1>6. ab \o c = Numbers(1, n)
  BY <1>4, <1>5, SeqIsNumbers
<1> QED
  BY <1>6 DEF ab

\* What the invariant says of each variable.
LEMMA Types ==
  ASSUME IInv
  PROVE  /\ rx_in \in Index /\ rx_out \in Index /\ tx_in \in Index /\ tx_out \in Index
         /\ rx_buf \in [Index -> Nat] /\ tx_buf \in [Index -> Nat]
         /\ sent \in Nat /\ accepted \in Nat
         /\ op.in \in Index /\ op.out \in Index /\ op.n \in 0..BUF_LEN
         /\ hwrx \in Seq(Nat) /\ hwtx \in Seq(Nat) /\ delivered \in Seq(Nat) /\ got \in Seq(Nat)
<1> USE HwAssumption DEF IInv, RxInv, TxInv
<1>1. 0..MaxRx \subseteq Nat /\ 0..MaxTx \subseteq Nat
  OBVIOUS
<1>2. /\ rx_in \in Index /\ rx_out \in Index /\ tx_in \in Index /\ tx_out \in Index
      /\ rx_buf \in [Index -> Nat] /\ tx_buf \in [Index -> Nat]
      /\ sent \in Nat /\ accepted \in Nat
  BY <1>1 DEF RxTypes, TxTypes
<1>3. /\ op.in \in Index /\ op.out \in Index /\ op.n \in 0..BUF_LEN
  BY DEF ControlTypes, OpType
<1>4. /\ hwrx \in Seq(Nat) /\ hwtx \in Seq(Nat) /\ delivered \in Seq(Nat) /\ got \in Seq(Nat)
  <2>1. /\ hwrx \in Seq(0..MaxRx) /\ delivered \in Seq(0..MaxRx)
        /\ hwtx \in Seq(0..MaxTx) /\ got \in Seq(0..MaxTx)
    BY DEF RxTypes, TxTypes
  <2> QED
    BY <1>1, <2>1, SeqMonotonic, Zenon
<1> QED
  BY <1>2, <1>3, <1>4

\* The invariant gives the conservation of the receive stream.
LEMMA RxPlacedIsConserved ==
  ASSUME IInv
  PROVE  RxConserved
<1> DEFINE ring == Ring(rx_buf, rx_in, Reader)
<1>1. ReadFrom = Reader /\ Reader \in Index
  BY Types, WrapIsSlot DEF ReadFrom, Reader
<1>2. /\ ring \in Seq(Nat) /\ Len(ring) = RxUsed
      /\ \A i \in 1..RxUsed : ring[i] = rx_buf[Slot(Reader, i - 1)]
  <2>1. rx_buf \in [Index -> Nat] /\ rx_in \in Index
    BY Types
  <2> QED
    BY <1>1, <2>1, RingIsSlots DEF RxUsed
<1>3. RxUsed \in Nat /\ Len(delivered) \in Nat
  BY <1>2, Types, LenProperties
<1>4. \A i \in 1..RxUsed : ring[i] = Len(delivered) + i
  <2> TAKE i \in 1..RxUsed
  <2>1. i - 1 \in 0..(RxUsed - 1) /\ Len(delivered) + (i - 1) + 1 = Len(delivered) + i
    BY <1>3
  <2> QED
    BY <1>2, <2>1 DEF IInv, RxInv, RxPlaced
<1> HIDE DEF ring
<1>5. delivered \o ring \o hwrx = Numbers(1, sent)
  <2>1. CountOn(delivered, ring, hwrx, sent)
    BY <1>2, <1>4, Zenon DEF IInv, RxInv, RxPlaced, CountOn
  <2>2. sent \in Nat /\ delivered \in Seq(Nat) /\ ring \in Seq(Nat) /\ hwrx \in Seq(Nat)
    BY <1>2, Types
  <2> QED
    BY <2>1, <2>2, ThreeParts, Zenon
<1> QED
  BY <1>1, <1>5 DEF RxConserved, ring

\* The invariant gives the conservation of the transmit stream.
LEMMA TxPlacedIsConserved ==
  ASSUME IInv
  PROVE  TxConserved
<1> DEFINE ring == Ring(tx_buf, Writer, tx_out)
<1>1. /\ (IF pc = "w_publish" THEN (op.in + op.n) % BUF_LEN ELSE tx_in) = Writer
      /\ Writer \in Index
  BY Types, WrapIsSlot DEF Writer
<1>2. /\ ring \in Seq(Nat) /\ Len(ring) = TxUsed
      /\ \A i \in 1..TxUsed : ring[i] = tx_buf[Slot(tx_out, i - 1)]
  <2>1. tx_buf \in [Index -> Nat] /\ tx_out \in Index
    BY Types
  <2> QED
    BY <1>1, <2>1, RingIsSlots DEF TxUsed
<1>3. TxUsed \in Nat /\ Len(got) \in Nat /\ Len(hwtx) \in Nat
  BY <1>2, Types, LenProperties
<1>4. \A i \in 1..TxUsed : ring[i] = Len(got) + Len(hwtx) + i
  <2> TAKE i \in 1..TxUsed
  <2>1. /\ i - 1 \in 0..(TxUsed - 1)
        /\ Len(got) + Len(hwtx) + (i - 1) + 1 = Len(got) + Len(hwtx) + i
    BY <1>3
  <2> QED
    BY <1>2, <2>1 DEF IInv, TxInv, TxPlaced
<1> HIDE DEF ring
<1>5. got \o hwtx \o ring = Numbers(1, accepted)
  <2>1. CountOn(got, hwtx, ring, accepted)
    BY <1>2, <1>4, Zenon DEF IInv, TxInv, TxPlaced, CountOn
  <2>2. accepted \in Nat /\ got \in Seq(Nat) /\ hwtx \in Seq(Nat) /\ ring \in Seq(Nat)
    BY <1>2, Types
  <2> QED
    BY <2>1, <2>2, ThreeParts, Zenon
<1> QED
  BY <1>1, <1>5 DEF TxConserved, ring

----------------------------------------------------------------------------
(* The invariant.                                                          *)

\* It holds after the driver's initialisation.
LEMMA InitIInv == Init => IInv
<1> SUFFICES ASSUME Init PROVE IInv
  OBVIOUS
<1> USE HwAssumption, UartAssumption DEF Init, HwInit
<1>1. ControlTypes
  BY DEF ControlTypes, IsrType, OpType, Index, NoIsr, NoOp
<1>2. RxTypes /\ TxTypes
  BY EmptySeq DEF RxTypes, TxTypes, Index
<1>3. SpaceIsThere /\ ReadFits /\ WriteFits
  BY DEF SpaceIsThere, ReadFits, WriteFits, NoIsr, Writing
<1>4. RxPlaced /\ TxPlaced
  BY EmptySeq DEF RxPlaced, TxPlaced, RxUsed, TxUsed, Reader, Writer, Used
<1>5. RxArmed /\ TxArmed
  BY DEF RxArmed, TxArmed
<1> QED
  BY <1>1, <1>2, <1>3, <1>4, <1>5 DEF IInv, RxInv, TxInv

----------------------------------------------------------------------------
(* The receive side.                                                       *)

\* Steps that leave the receive side alone, unless they start to copy or
\* finish to free.
LEMMA RxFrame ==
  ASSUME RxInv, UNCHANGED <<rxVars, hwrx, delivered, sent>>,
         \/ UNCHANGED <<pc, op>>
         \/ /\ pc # "r_free" /\ pc' \notin {"r_copy", "r_free"}
            /\ pc' \in {"r_index", "r_wait", "r_check"} => op'.left > 0
  PROVE  RxInv'
  BY DEF RxInv, RxTypes, ReadFits, RxPlaced, RxUsed, Reader, Used, Slot, rxVars

\* A character moves from the device into the slot the reader does not use.
LEMMA RxChar ==
  ASSUME IInv, IsrRxChar
  PROVE  RxInv'
<1> USE HwAssumption, UartAssumption
<1>0. RxTypes /\ ReadFits /\ RxPlaced
  BY DEF IInv, RxInv
<1>a. op.in \in Index /\ op.out \in Index /\ op.n \in 0..BUF_LEN
  BY Types
<1>1. /\ rx_in \in Index /\ rx_out \in Index /\ rx_buf \in [Index -> 0..MaxRx]
      /\ hwrx \in Seq(0..MaxRx) /\ hwrx # <<>> /\ Len(hwrx) \in Nat /\ Len(hwrx) > 0
      /\ Len(delivered) \in Nat /\ sent \in 0..MaxRx
  <2>1. Len(hwrx) \in Nat /\ Len(delivered) \in Nat
    BY <1>0, LenProperties DEF RxTypes
  <2>2. hwrx # <<>> /\ Len(hwrx) # 0
    BY <1>0, EmptySeq DEF IsrRxChar, RVALID, RxTypes
  <2>3. Len(hwrx) > 0
    BY <2>1, <2>2
  <2> QED
    BY <1>0, <2>1, <2>2, <2>3 DEF RxTypes
<1>2. /\ Tail(hwrx) \in Seq(0..MaxRx) /\ Head(hwrx) \in 0..MaxRx /\ Head(hwrx) = hwrx[1]
      /\ Len(Tail(hwrx)) = Len(hwrx) - 1
      /\ \A j \in 1..Len(Tail(hwrx)) : Tail(hwrx)[j] = hwrx[j + 1]
  BY <1>1, HeadTailProperties
<1>3. /\ rx_in' = Slot(rx_in, 1) /\ rx_in' \in Index /\ Slot(rx_in, 1) # rx_out
      /\ rx_out' = rx_out /\ pc' = pc /\ op' = op
      /\ hwrx' = Tail(hwrx) /\ delivered' = delivered /\ sent' = sent
      /\ rx_buf' = [rx_buf EXCEPT ![rx_in] = Head(hwrx)]
  BY <1>1, IncIsSlot DEF IsrRxChar, RxFull, callVars
<1>4. /\ Used(rx_in, rx_out) \in 0..(BUF_LEN - 2)
      /\ Used(rx_in', rx_out) = Used(rx_in, rx_out) + 1
  <2>1. Used(rx_in, rx_out) \in Index /\ Used(rx_in, rx_out) # BUF_LEN - 1
    BY <1>1, UsedIsMod, FullMeansFull DEF IsrRxChar, RxFull
  <2>2. Used(rx_in, rx_out) \in 0..(BUF_LEN - 2)
    BY <2>1 DEF Index
  <2> QED
    BY <1>1, <1>3, <2>2, UsedGrows
<1>5. Reader' = Reader /\ Reader \in Index
  BY <1>1, <1>3, <1>a, WrapIsSlot DEF Reader
<1>6. RxUsed' = RxUsed + 1 /\ RxUsed \in 0..(BUF_LEN - 2)
  <2>1. CASE pc = "r_free"
    <3>1. /\ Reader = Slot(rx_out, op.n) /\ op.n \in Nat /\ rx_out + op.n <= BUF_LEN
          /\ op.n > 0 /\ op.n <= Used(rx_in, rx_out)
      BY <1>0, <1>a, <2>1 DEF Reader, ReadFits
    <3>2. op.n \in 0..Used(rx_in, rx_out) /\ op.n \in 0..Used(rx_in', rx_out)
      BY <1>4, <3>1
    <3>3. /\ RxUsed = Used(rx_in, rx_out) - op.n
          /\ RxUsed' = Used(rx_in', rx_out) - op.n
      BY <1>1, <1>3, <1>5, <3>1, <3>2, UsedShrinks DEF RxUsed
    <3> QED
      BY <1>4, <3>1, <3>3
  <2>2. CASE pc # "r_free"
    BY <1>1, <1>3, <1>4, <2>2 DEF RxUsed, Reader
  <2> QED
    BY <2>1, <2>2
<1>7. RxTypes'
  BY <1>0, <1>1, <1>2, <1>3 DEF RxTypes
<1>8. ReadFits'
  <2>1. op.n \in Int /\ Used(rx_in, rx_out) \in Int
    BY <1>4, <1>a DEF Index
  <2> QED
    BY <1>0, <1>3, <1>4, <2>1 DEF ReadFits
<1>9. RxPlaced'
  <2>1. Len(delivered)' + RxUsed' + Len(hwrx)' = sent'
    <3>1. /\ Len(delivered) + RxUsed + Len(hwrx) = sent /\ RxUsed \in Int
          /\ Len(hwrx') = Len(hwrx) - 1 /\ delivered' = delivered /\ sent' = sent
      BY <1>0, <1>2, <1>3, <1>6 DEF RxPlaced
    <3> QED
      BY <1>1, <1>6, <3>1
  <2>2. \A i \in 1..Len(delivered)' : delivered'[i] = i
    BY <1>0, <1>3 DEF RxPlaced
  <2>3. Head(hwrx) = Len(delivered) + RxUsed + 1
    BY <1>0, <1>1, <1>2 DEF RxPlaced
  <2>4. rx_in = Slot(Reader, RxUsed) /\ \A k \in 0..(RxUsed - 1) : Slot(Reader, k) # rx_in /\ Slot(Reader, k) \in Index
    BY <1>1, <1>5, <1>6 DEF Slot, RxUsed, Used, Index
  <2>5. \A k \in 0..(RxUsed' - 1) : rx_buf'[Slot(Reader', k)] = Len(delivered') + k + 1
    <3> TAKE k \in 0..(RxUsed' - 1)
    <3>1. CASE k = RxUsed
      BY <1>1, <1>3, <1>5, <2>3, <2>4, <3>1
    <3>2. CASE k # RxUsed
      <4>1. k \in 0..(RxUsed - 1)
        BY <1>6, <3>2
      <4> QED
        BY <1>0, <1>1, <1>3, <1>5, <2>4, <4>1 DEF RxPlaced
    <3> QED
      BY <3>1, <3>2
  <2>6. \A j \in 1..Len(hwrx') : hwrx'[j] = Len(delivered') + RxUsed' + j
    <3> TAKE j \in 1..Len(hwrx')
    <3>1. j + 1 \in 1..Len(hwrx) /\ hwrx'[j] = hwrx[j + 1]
      BY <1>1, <1>2, <1>3
    <3> QED
      BY <1>0, <1>1, <1>3, <1>6, <3>1 DEF RxPlaced
  <2> QED
    BY <1>0, <2>1, <2>2, <2>5, <2>6 DEF RxPlaced
<1> QED
  BY <1>7, <1>8, <1>9 DEF RxInv

\* Measuring the contiguous run of characters.
LEMMA RxIndex ==
  ASSUME IInv, ReadIndex
  PROVE  RxInv'
<1> USE UartAssumption
<1>0. RxTypes /\ ReadFits /\ RxPlaced /\ op \in OpType
  BY DEF IInv, RxInv, ControlTypes
<1>1. /\ rx_in \in Index /\ rx_out \in Index /\ op.left \in Nat
      /\ UNCHANGED <<rxVars, hwrx, delivered, sent>>
      /\ pc = "r_index" /\ pc' \in {"r_copy", "r_wait", "r_end"}
  BY <1>0 DEF RxTypes, OpType, ReadIndex, hwVars
<1>a. op'.left = op.left /\ op.left > 0
  BY <1>0, <1>1 DEF ReadIndex, OpType, ReadFits
<1>2. CASE pc' # "r_copy"
  BY <1>1, <1>2, <1>a, RxFrame DEF IInv
<1>3. CASE pc' = "r_copy"
  <2> DEFINE run == IF rx_in >= rx_out THEN rx_in - rx_out ELSE BUF_LEN - rx_out
             n == IF run > op.left THEN op.left ELSE run
  <2>1. /\ op' = [op EXCEPT !.in = rx_in, !.out = rx_out, !.n = n]
        /\ run > 0
    <3>1. pc' = CASE run > 0 -> "r_copy"
                  [] run = 0 /\ op.done = 0 /\ ~op.nonblock -> "r_wait"
                  [] OTHER -> "r_end"
      BY DEF ReadIndex
    <3>2. run > 0
      BY <1>3, <3>1
    <3> QED
      BY <3>2 DEF ReadIndex
  <2>2. op'.out = rx_out /\ op'.n = n
    BY <1>0, <2>1 DEF OpType
  <2>3. ReadFits'
    BY <1>1, <1>3, <1>a, <2>1, <2>2 DEF ReadFits, Used, Index, rxVars
  <2>4. Reader' = Reader /\ RxUsed' = RxUsed
    BY <1>1, <1>3 DEF Reader, RxUsed, Used, rxVars
  <2>5. RxPlaced' /\ RxTypes'
    BY <1>0, <1>1, <2>4 DEF RxPlaced, RxTypes, Slot, rxVars
  <2> QED
    BY <2>3, <2>5 DEF RxInv
<1> QED
  BY <1>2, <1>3

\* Copying the run: what is delivered counts as read from now on.
LEMMA RxCopy ==
  ASSUME IInv, ReadCopy
  PROVE  RxInv'
<1> USE HwAssumption, UartAssumption
<1>0. RxTypes /\ ReadFits /\ RxPlaced /\ op \in OpType
  BY DEF IInv, RxInv, ControlTypes
<1>1. /\ rx_in \in Index /\ rx_out \in Index /\ rx_buf \in [Index -> 0..MaxRx]
      /\ delivered \in Seq(0..MaxRx) /\ Len(delivered) \in Nat
      /\ UNCHANGED <<rxVars, hwrx, sent>> /\ pc = "r_copy" /\ pc' = "r_free"
  BY <1>0, LenProperties DEF RxTypes, ReadCopy, hwVars
<1>2. /\ op.out = rx_out /\ op.n \in Nat /\ op.n > 0 /\ op.n <= Used(rx_in, rx_out)
      /\ rx_out + op.n <= BUF_LEN /\ op.n <= op.left
  BY <1>0, <1>1 DEF ReadFits, OpType
<1>3. op'.out = op.out /\ op'.n = op.n /\ op'.done = op.done + op.n /\ op.done \in Nat
  BY <1>0 DEF ReadCopy, OpType
<1>4. Used(rx_in, rx_out) \in Index /\ op.n \in Index /\ op.n \in 0..Used(rx_in, rx_out)
  <2>1. Used(rx_in, rx_out) \in Index
    BY <1>1, UsedIsMod
  <2> QED
    BY <1>2, <2>1 DEF Index
<1>5. /\ Reader = rx_out /\ RxUsed = Used(rx_in, rx_out)
      /\ Reader' = Slot(rx_out, op.n) /\ RxUsed' = RxUsed - op.n
  BY <1>1, <1>2, <1>3, <1>4, UsedShrinks DEF Reader, RxUsed, rxVars
<1> DEFINE new == [i \in 1..op.n |-> rx_buf[op.out + i - 1]]
<1>6. \A i \in 1..op.n : /\ op.out + i - 1 = Slot(rx_out, i - 1) /\ op.out + i - 1 \in Index
                         /\ i - 1 \in 0..(RxUsed - 1)
  <2>1. op.n <= RxUsed /\ RxUsed \in Nat
    BY <1>2, <1>4, <1>5 DEF Index
  <2> QED
    BY <1>1, <1>2, <2>1 DEF Slot, Index
<1>7. /\ new \in [1..op.n -> 0..MaxRx]
      /\ \A i \in 1..op.n : new[i] = Len(delivered) + i
  <2>1. new \in [1..op.n -> 0..MaxRx]
    BY <1>1, <1>6
  <2>2. ASSUME NEW i \in 1..op.n PROVE new[i] = Len(delivered) + i
    <3>1. rx_buf[Slot(Reader, i - 1)] = Len(delivered) + (i - 1) + 1
      BY <1>0, <1>6 DEF RxPlaced
    <3> QED
      BY <1>1, <1>2, <1>5, <1>6, <3>1
  <2> QED
    BY <2>1, <2>2
<1>8. new \in Seq(0..MaxRx) /\ Len(new) = op.n
  BY <1>2, <1>7, FunIsSeq
<1> HIDE DEF new
<1>9. /\ delivered' \in Seq(0..MaxRx) /\ Len(delivered') = Len(delivered) + op.n
      /\ \A i \in 1..(Len(delivered) + op.n) :
            delivered'[i] = IF i <= Len(delivered) THEN delivered[i] ELSE new[i - Len(delivered)]
  <2>1. delivered' = delivered \o new
    BY DEF ReadCopy, new
  <2>2. /\ delivered \o new \in Seq(0..MaxRx)
        /\ Len(delivered \o new) = Len(delivered) + Len(new)
        /\ \A i \in 1..(Len(delivered) + Len(new)) : (delivered \o new)[i] =
              IF i <= Len(delivered) THEN delivered[i] ELSE new[i - Len(delivered)]
    BY <1>1, <1>8, ConcatProperties, Zenon
  <2> QED
    BY <1>8, <2>1, <2>2, Zenon
<1>a. /\ Len(delivered) \in Nat /\ op.n \in Nat /\ op.n > 0 /\ RxUsed \in Nat
      /\ Len(delivered') = Len(delivered) + op.n /\ RxUsed' = RxUsed - op.n
  BY <1>1, <1>2, <1>4, <1>5, <1>9 DEF Index
<1>10. RxTypes' /\ ReadFits'
  <2>1. RxTypes'
    BY <1>0, <1>1, <1>9 DEF RxTypes, rxVars
  <2>2. op'.done > 0 /\ Used(rx_in, rx_out)' = Used(rx_in, rx_out)
    BY <1>1, <1>2, <1>3 DEF rxVars, Used
  <2>3. pc' = "r_free" /\ rx_out' = rx_out
    BY <1>0, <1>1 DEF ReadCopy, rxVars
  <2> QED
    BY <1>2, <1>3, <2>1, <2>2, <2>3 DEF ReadFits
<1>11. RxPlaced'
  <2>1. Len(delivered') + RxUsed' + Len(hwrx') = sent'
    <3>1. /\ Len(delivered) + RxUsed + Len(hwrx) = sent /\ Len(hwrx) \in Nat
          /\ hwrx' = hwrx /\ sent' = sent
      BY <1>0, <1>1, LenProperties DEF RxPlaced, RxTypes
    <3> QED
      BY <1>a, <3>1
  <2>2. \A i \in 1..Len(delivered') : delivered'[i] = i
    <3> TAKE i \in 1..Len(delivered')
    <3>1. i \in 1..(Len(delivered) + op.n)
      BY <1>9
    <3>2. CASE i <= Len(delivered)
      <4>1. i \in 1..Len(delivered)
        BY <1>a, <3>1, <3>2
      <4>2. delivered[i] = i
        BY <1>0, <4>1, Zenon DEF RxPlaced
      <4> QED
        BY <1>9, <4>1, <4>2
    <3>3. CASE i > Len(delivered)
      <4>1. i - Len(delivered) \in 1..op.n
        BY <1>1, <1>2, <3>1, <3>3
      <4> QED
        BY <1>1, <1>7, <1>9, <3>1, <3>3, <4>1
    <3> QED
      BY <1>1, <3>1, <3>2, <3>3
  <2>3. \A k \in 0..(RxUsed' - 1) : rx_buf'[Slot(Reader', k)] = Len(delivered') + k + 1
    <3> TAKE k \in 0..(RxUsed' - 1)
    <3>1. k \in Index /\ op.n + k \in 0..(RxUsed - 1) /\ op.n + k < BUF_LEN
      BY <1>2, <1>4, <1>5 DEF Index
    <3>2. Slot(Reader', k) = Slot(Reader, op.n + k)
      BY <1>1, <1>4, <1>5, <3>1, SlotsFollow
    <3>3. rx_buf[Slot(Reader, op.n + k)] = Len(delivered) + (op.n + k) + 1
      BY <1>0, <3>1 DEF RxPlaced
    <3>4. rx_buf'[Slot(Reader', k)] = Len(delivered) + (op.n + k) + 1
      BY <1>1, <3>2, <3>3 DEF rxVars
    <3>5. k \in Int
      BY <3>1, UartAssumption DEF Index
    <3>6. Len(delivered) + (op.n + k) + 1 = Len(delivered') + k + 1
      BY <1>a, <3>5
    <3> QED
      BY <3>4, <3>6
  <2>4. \A j \in 1..Len(hwrx') : hwrx'[j] = Len(delivered') + RxUsed' + j
    <3>1. Len(delivered') + RxUsed' = Len(delivered) + RxUsed
      BY <1>a
    <3> QED
      BY <1>0, <1>1, <3>1 DEF RxPlaced
  <2> QED
    BY <2>1, <2>2, <2>3, <2>4 DEF RxPlaced
<1> QED
  BY <1>10, <1>11 DEF RxInv

\* Freeing the run: the reader's position does not move.
LEMMA RxFree ==
  ASSUME IInv, ReadFree
  PROVE  RxInv'
<1> USE UartAssumption
<1>0. RxTypes /\ ReadFits /\ RxPlaced /\ op \in OpType
  BY DEF IInv, RxInv, ControlTypes
<1>1. /\ rx_in \in Index /\ rx_out \in Index /\ pc = "r_free" /\ pc' \in {"r_index", "r_end"}
      /\ UNCHANGED <<rx_in, rx_buf, hwrx, delivered, sent, op>>
      /\ rx_out' = (op.out + op.n) % BUF_LEN
      /\ pc' = "r_index" => op.left > 0
  BY <1>0 DEF RxTypes, ReadFree, hwVars
<1>2. rx_out' = Slot(op.out, op.n) /\ rx_out' \in Index
  BY <1>0, <1>1, WrapIsSlot DEF OpType
<1>3. Reader' = Reader /\ RxUsed' = RxUsed
  BY <1>1, <1>2 DEF Reader, RxUsed, Used
<1>4. RxTypes' /\ ReadFits'
  BY <1>0, <1>1, <1>2 DEF RxTypes, ReadFits
<1>5. RxPlaced'
  BY <1>0, <1>1, <1>3 DEF RxPlaced, Slot
<1> QED
  BY <1>4, <1>5 DEF RxInv

\* The host sends the next character.
LEMMA RxSend ==
  ASSUME IInv, HostSend, UNCHANGED <<rxVars, pc, op, delivered>>
  PROVE  RxInv'
<1> USE HwAssumption, UartAssumption
<1>0. RxTypes /\ ReadFits /\ RxPlaced
  BY DEF IInv, RxInv
<1>1. /\ hwrx \in Seq(0..MaxRx) /\ Len(hwrx) \in Nat /\ Len(delivered) \in Nat
      /\ sent \in Nat /\ sent + 1 \in 0..MaxRx /\ sent' = sent + 1
      /\ hwrx' = Append(hwrx, sent + 1)
  BY <1>0, LenProperties DEF RxTypes, HostSend
<1>2. /\ hwrx' \in Seq(0..MaxRx) /\ Len(hwrx') = Len(hwrx) + 1
      /\ \A j \in 1..Len(hwrx') : hwrx'[j] = IF j <= Len(hwrx) THEN hwrx[j] ELSE sent + 1
  BY <1>1, AppendProperties
<1>3. Reader' = Reader /\ RxUsed' = RxUsed
  BY DEF Reader, RxUsed, Used, Slot, rxVars
<1>4. RxUsed \in Nat
  <2>1. rx_in \in Index /\ Reader \in Index
    BY Types, WrapIsSlot DEF Reader
  <2>2. RxUsed \in Index
    BY <2>1, UsedIsMod DEF RxUsed
  <2> QED
    BY <2>2 DEF Index
<1>5. RxTypes' /\ ReadFits'
  BY <1>0, <1>1, <1>2 DEF RxTypes, ReadFits, Used, rxVars
<1>6. RxPlaced'
  <2>0. /\ Len(delivered) + RxUsed + Len(hwrx) = sent /\ delivered' = delivered
        /\ \A j \in 1..Len(hwrx) : hwrx[j] = Len(delivered) + RxUsed + j
    BY <1>0 DEF RxPlaced
  <2>1. Len(delivered') + RxUsed' + Len(hwrx') = sent'
    <3>1. /\ Len(delivered) + RxUsed + Len(hwrx) = sent /\ Len(hwrx') = Len(hwrx) + 1
          /\ Len(hwrx) \in Nat /\ Len(delivered) \in Nat /\ sent \in Nat
          /\ sent' = sent + 1 /\ delivered' = delivered
      BY <1>1, <1>2, <2>0
    <3> QED
      BY <1>3, <1>4, <3>1
  <2>2. \A j \in 1..Len(hwrx') : hwrx'[j] = Len(delivered') + RxUsed' + j
    <3> TAKE j \in 1..Len(hwrx')
    <3>1. CASE j <= Len(hwrx)
      BY <1>1, <1>2, <1>3, <2>0, <3>1
    <3>2. CASE j > Len(hwrx)
      <4>1. j = Len(hwrx) + 1 /\ hwrx'[j] = sent + 1
        BY <1>1, <1>2, <3>2
      <4> QED
        BY <1>1, <1>3, <1>4, <2>0, <4>1
    <3> QED
      BY <1>1, <1>2, <3>1, <3>2
  <2> QED
    BY <1>0, <1>3, <2>1, <2>2 DEF RxPlaced, Slot, rxVars
<1> QED
  BY <1>5, <1>6 DEF RxInv

----------------------------------------------------------------------------
(* The transmit side.                                                      *)

\* Steps that leave the transmit side alone, unless they start to fill or
\* finish to publish.
LEMMA TxFrame ==
  ASSUME TxInv, UNCHANGED <<txVars, hwtx, got, accepted>>,
         \/ UNCHANGED <<pc, op>>
         \/ /\ pc # "w_publish" /\ pc' \notin {"w_copy", "w_publish"}
            /\ pc' \in {"w_index", "w_wait", "w_check"} => op'.left > 0
            /\ pc' \in Writing => accepted + op'.left <= MaxTx
  PROVE  TxInv'
  BY DEF TxInv, TxTypes, WriteFits, TxPlaced, TxUsed, Writer, Used, Slot, txVars

\* A character moves from the ring into the space the interrupt routine knows.
LEMMA TxChar ==
  ASSUME IInv, IsrTxChar
  PROVE  TxInv'
<1> USE HwAssumption, UartAssumption
<1>0. TxTypes /\ WriteFits /\ TxPlaced /\ SpaceIsThere /\ isr \in IsrType
  BY DEF IInv, TxInv, ControlTypes
<1>a. op.in \in Index /\ op.n \in 0..BUF_LEN
  BY Types
<1>1. /\ tx_in \in Index /\ tx_out \in Index /\ tx_buf \in [Index -> 0..MaxTx]
      /\ hwtx \in Seq(0..MaxTx) /\ Len(hwtx) \in Nat /\ Len(got) \in Nat
      /\ accepted \in Nat /\ tx_buf[tx_out] \in 0..MaxTx
  BY <1>0, LenProperties DEF TxTypes
<1>2. /\ hwtx' = Append(hwtx, tx_buf[tx_out]) /\ tx_out # tx_in
      /\ UNCHANGED <<tx_in, tx_buf, got, accepted, pc, op>>
      /\ tx_out' = Slot(tx_out, 1) /\ tx_out' \in Index
  BY <1>1, IncIsSlot DEF IsrTxChar, callVars
<1>3. Len(hwtx) < FifoDepth
  <2>1. isr.at = "tx" /\ isr.space > 0 /\ isr.space \in 0..FifoDepth
    BY <1>0 DEF IsrTxChar, IsrType
  <2>2. Len(hwtx) + isr.space <= FifoDepth
    BY <1>0, <2>1 DEF SpaceIsThere
  <2> QED
    BY <1>1, <2>1, <2>2
<1>4. /\ hwtx' \in Seq(0..MaxTx) /\ Len(hwtx') = Len(hwtx) + 1
      /\ \A j \in 1..Len(hwtx') : hwtx'[j] = IF j <= Len(hwtx) THEN hwtx[j] ELSE tx_buf[tx_out]
  <2>1. hwtx \in Seq(0..MaxTx) /\ tx_buf[tx_out] \in 0..MaxTx /\ hwtx' = Append(hwtx, tx_buf[tx_out])
    BY <1>1, <1>2
  <2>2. /\ hwtx' \in Seq(0..MaxTx) /\ Len(hwtx') = Len(hwtx) + 1
        /\ \A j \in 1..Len(hwtx) : hwtx'[j] = hwtx[j]
        /\ hwtx'[Len(hwtx) + 1] = tx_buf[tx_out]
    BY <2>1, AppendProperties
  <2>3. \A j \in 1..(Len(hwtx) + 1) : j \in 1..Len(hwtx) \/ (j = Len(hwtx) + 1 /\ ~(j <= Len(hwtx)))
    BY <1>1
  <2>4. \A j \in 1..Len(hwtx) : j <= Len(hwtx)
    BY <1>1
  <2> QED
    BY <2>2, <2>3, <2>4, Zenon
<1>5. Writer' = Writer /\ Writer \in Index
  BY <1>1, <1>2, <1>a, WrapIsSlot DEF Writer
<1>6. /\ Used(tx_in, tx_out) \in 1..(BUF_LEN - 1)
      /\ Used(tx_in, tx_out') = Used(tx_in, tx_out) - 1
  <2>1. Used(tx_in, tx_out) \in Index /\ Used(tx_in, tx_out) # 0
    BY <1>1, <1>2, UsedIsMod DEF Used, Index
  <2>2. Used(tx_in, tx_out) \in 1..(BUF_LEN - 1) /\ 1 \in 0..Used(tx_in, tx_out)
    BY <2>1 DEF Index
  <2> QED
    BY <1>1, <1>2, <2>2, UsedShrinks
<1>7. TxUsed \in 1..(BUF_LEN - 1) /\ TxUsed' = TxUsed - 1
  <2>1. CASE pc = "w_publish"
    <3>1. /\ Writer = Slot(tx_in, op.n) /\ op.n \in Nat /\ op.n > 0
          /\ op.n + Used(tx_in, tx_out) < BUF_LEN
      BY <1>0, <1>a, <2>1 DEF Writer, WriteFits
    <3>2. Used(tx_in, tx_out) + op.n < BUF_LEN /\ Used(tx_in, tx_out') + op.n < BUF_LEN
      BY <1>6, <3>1
    <3>3. TxUsed = Used(tx_in, tx_out) + op.n /\ TxUsed' = Used(tx_in, tx_out') + op.n
      BY <1>1, <1>2, <1>5, <3>1, <3>2, UsedGrows DEF TxUsed
    <3> QED
      BY <1>6, <3>1, <3>3
  <2>2. CASE pc # "w_publish"
    BY <1>2, <1>6, <2>2 DEF TxUsed, Writer
  <2> QED
    BY <2>1, <2>2
<1>8. TxTypes'
  BY <1>0, <1>1, <1>2, <1>3, <1>4 DEF TxTypes
<1>9. WriteFits'
  BY <1>0, <1>2, <1>6, <1>a DEF WriteFits
<1>10. TxPlaced'
  <2>0. /\ Len(got) + Len(hwtx) + TxUsed = accepted
        /\ \A i \in 1..Len(got) : got[i] = i
        /\ \A j \in 1..Len(hwtx) : hwtx[j] = Len(got) + j
        /\ \A k \in 0..(TxUsed - 1) : tx_buf[Slot(tx_out, k)] = Len(got) + Len(hwtx) + k + 1
    BY <1>0 DEF TxPlaced
  <2>1. Len(got') + Len(hwtx') + TxUsed' = accepted'
    <3>1. /\ Len(got) + Len(hwtx) + TxUsed = accepted /\ Len(hwtx') = Len(hwtx) + 1
          /\ got' = got /\ accepted' = accepted /\ Len(hwtx) \in Nat /\ Len(got) \in Nat
      BY <1>1, <1>2, <1>4, <2>0
    <3> QED
      BY <1>7, <3>1
  <2>2. tx_buf[tx_out] = Len(got) + Len(hwtx) + 1
    <3>1. Slot(tx_out, 0) = tx_out /\ 0 \in 0..(TxUsed - 1)
      BY <1>1, <1>7 DEF Slot, Index
    <3>2. tx_buf[Slot(tx_out, 0)] = Len(got) + Len(hwtx) + 0 + 1
      BY <2>0, <3>1
    <3> QED
      BY <1>1, <3>1, <3>2
  <2>3. \A j \in 1..Len(hwtx') : hwtx'[j] = Len(got') + j
    <3> TAKE j \in 1..Len(hwtx')
    <3>0. /\ Len(hwtx) \in Nat /\ Len(got) \in Nat /\ got' = got /\ j \in 1..(Len(hwtx) + 1)
          /\ hwtx'[j] = IF j <= Len(hwtx) THEN hwtx[j] ELSE tx_buf[tx_out]
      BY <1>1, <1>2, <1>4
    <3>1. CASE j <= Len(hwtx)
      BY <2>0, <3>0, <3>1
    <3>2. CASE j > Len(hwtx)
      BY <2>2, <3>0, <3>2
    <3> QED
      BY <3>0, <3>1, <3>2
  <2>4. \A k \in 0..(TxUsed' - 1) : tx_buf'[Slot(tx_out', k)] = Len(got') + Len(hwtx') + k + 1
    <3> TAKE k \in 0..(TxUsed' - 1)
    <3>1. k \in Index /\ 1 \in Index /\ 1 + k < BUF_LEN /\ 1 + k \in 0..(TxUsed - 1)
      BY <1>7 DEF Index
    <3>2. Slot(tx_out', k) = Slot(tx_out, 1 + k)
      BY <1>1, <1>2, <3>1, SlotsFollow
    <3>3. tx_buf[Slot(tx_out, 1 + k)] = Len(got) + Len(hwtx) + (1 + k) + 1
      BY <2>0, <3>1
    <3>4. Len(hwtx') = Len(hwtx) + 1 /\ got' = got /\ tx_buf' = tx_buf
      BY <1>2, <1>4
    <3> QED
      BY <1>1, <3>1, <3>2, <3>3, <3>4 DEF Index
  <2> QED
    BY <1>2, <2>0, <2>1, <2>3, <2>4 DEF TxPlaced
<1> QED
  BY <1>8, <1>9, <1>10 DEF TxInv

\* Measuring the contiguous room.
LEMMA TxIndex ==
  ASSUME IInv, WriteIndex
  PROVE  TxInv'
<1> USE UartAssumption
<1>0. TxTypes /\ WriteFits /\ TxPlaced /\ op \in OpType
  BY DEF IInv, TxInv, ControlTypes
<1> DEFINE room == Room(tx_in, tx_out)
           n == IF room > op.left THEN op.left ELSE room
<1>1. /\ tx_in \in Index /\ tx_out \in Index /\ op.left \in Nat /\ op.left > 0
      /\ UNCHANGED <<txVars, hwtx, got, accepted>> /\ accepted + op.left <= MaxTx
      /\ pc = "w_index" /\ pc' = IF room = 0 THEN "w_kick" ELSE "w_copy"
      /\ op' = [op EXCEPT !.in = tx_in, !.out = tx_out, !.n = n]
  BY <1>0 DEF TxTypes, OpType, WriteIndex, WriteFits, Writing, hwVars
<1>2. op'.left = op.left /\ op'.in = tx_in /\ op'.n = n
  BY <1>0, <1>1 DEF OpType
<1>3. CASE room = 0
  <2>1. /\ pc # "w_publish" /\ pc' \notin {"w_copy", "w_publish"}
        /\ pc' \notin {"w_index", "w_wait", "w_check"} /\ accepted + op'.left <= MaxTx
    BY <1>1, <1>2, <1>3
  <2> QED
    BY <1>1, <2>1, TxFrame DEF IInv
<1>4. CASE room # 0
  <2>1. /\ room \in Nat /\ room + Used(tx_in, tx_out) < BUF_LEN
        /\ tx_in + room <= BUF_LEN
    BY <1>1 DEF Room, Used, Index
  <2>2. pc' = "w_copy" /\ n \in Nat /\ n > 0 /\ n <= room /\ n <= op.left
    BY <1>1, <1>4, <2>1
  <2>3. Used(tx_in, tx_out) \in Nat /\ tx_in \in Nat
    BY <1>1 DEF Used, Index
  <2>4. n + Used(tx_in, tx_out) < BUF_LEN /\ tx_in + n <= BUF_LEN
    BY <2>1, <2>2, <2>3
  <2>5. tx_in' = tx_in /\ tx_out' = tx_out /\ Used(tx_in, tx_out)' = Used(tx_in, tx_out)
    BY <1>1 DEF txVars, Used
  <2>6. WriteFits'
    BY <1>1, <1>2, <2>2, <2>4, <2>5 DEF WriteFits
  <2>7. Writer' = Writer /\ TxUsed' = TxUsed
    BY <1>1, <2>2, <2>5 DEF Writer, TxUsed, Used
  <2>8. TxPlaced' /\ TxTypes'
    BY <1>0, <1>1, <2>7 DEF TxPlaced, TxTypes, Slot, txVars
  <2> QED
    BY <2>6, <2>8 DEF TxInv
<1> QED
  BY <1>3, <1>4

\* Filling the room: what is copied counts as written from now on.
LEMMA TxCopy ==
  ASSUME IInv, WriteCopy
  PROVE  TxInv'
<1> USE HwAssumption, UartAssumption
<1>0. TxTypes /\ WriteFits /\ TxPlaced /\ op \in OpType
  BY DEF IInv, TxInv, ControlTypes
<1>1. /\ tx_in \in Index /\ tx_out \in Index /\ tx_buf \in [Index -> 0..MaxTx]
      /\ Len(hwtx) \in Nat /\ Len(got) \in Nat /\ accepted \in Nat
      /\ UNCHANGED <<tx_in, tx_out, hwtx, got>> /\ pc = "w_copy" /\ pc' = "w_publish"
      /\ accepted' = accepted + op.n
  BY <1>0, LenProperties DEF TxTypes, WriteCopy, hwVars
<1>2. /\ op.in = tx_in /\ op.n \in Nat /\ op.n > 0 /\ op.n + Used(tx_in, tx_out) < BUF_LEN
      /\ tx_in + op.n <= BUF_LEN /\ op.n <= op.left /\ op.left \in Nat
      /\ accepted + op.left <= MaxTx
  BY <1>0, <1>1 DEF WriteFits, OpType, Writing
<1>3. op'.in = op.in /\ op'.n = op.n /\ op'.left = op.left - op.n
  BY <1>0 DEF WriteCopy, OpType
<1>4. Used(tx_in, tx_out) \in Index /\ op.n \in Index
  <2>1. Used(tx_in, tx_out) \in Index
    BY <1>1, UsedIsMod
  <2> QED
    BY <1>2, <2>1 DEF Index
<1>5. /\ Writer = tx_in /\ TxUsed = Used(tx_in, tx_out)
      /\ Writer' = Slot(tx_in, op.n) /\ TxUsed' = TxUsed + op.n
  <2>1. Used(tx_in, tx_out) + op.n < BUF_LEN
    BY <1>2, <1>4 DEF Index
  <2> QED
    BY <1>1, <1>2, <1>3, <2>1, UsedGrows DEF Writer, TxUsed
<1>6. /\ tx_buf' \in [Index -> 0..MaxTx]
      /\ \A i \in Index : tx_buf'[i] = IF i \in tx_in..(tx_in + op.n - 1)
                                       THEN accepted + 1 + (i - tx_in) ELSE tx_buf[i]
  <2>1. tx_buf' = [i \in Index |-> IF i \in tx_in..(tx_in + op.n - 1)
                                   THEN accepted + 1 + (i - tx_in) ELSE tx_buf[i]]
    BY <1>2 DEF WriteCopy
  <2>2. ASSUME NEW i \in Index, i \in tx_in..(tx_in + op.n - 1)
        PROVE  accepted + 1 + (i - tx_in) \in 0..MaxTx
    <3>1. /\ accepted \in Nat /\ op.n \in Nat /\ op.left \in Nat /\ tx_in \in Int
          /\ accepted + op.left <= MaxTx /\ op.n <= op.left
      BY <1>1, <1>2 DEF Index
    <3> QED
      BY <2>2, <3>1
  <2> QED
    BY <1>1, <2>1, <2>2
<1>7. TxTypes' /\ WriteFits'
  <2>1. accepted' \in 0..MaxTx /\ accepted' + op'.left <= MaxTx
    <3>1. /\ accepted \in Nat /\ op.n \in Nat /\ op.left \in Nat /\ MaxTx \in Nat
          /\ op.n <= op.left /\ accepted + op.left <= MaxTx
      BY <1>1, <1>2
    <3>2. /\ accepted + op.n \in 0..MaxTx
          /\ (accepted + op.n) + (op.left - op.n) <= MaxTx
      BY <3>1
    <3>3. accepted' = accepted + op.n /\ op'.left = op.left - op.n
      BY <1>1, <1>3
    <3> QED
      BY <3>2, <3>3
  <2>2. TxTypes'
    BY <1>0, <1>1, <1>6, <2>1 DEF TxTypes
  <2>3. Used(tx_in, tx_out)' = Used(tx_in, tx_out)
    BY <1>1 DEF Used
  <2> QED
    BY <1>1, <1>2, <1>3, <2>1, <2>2, <2>3 DEF WriteFits
<1>8. TxPlaced'
  <2>0. /\ Len(got) + Len(hwtx) + TxUsed = accepted
        /\ \A k \in 0..(TxUsed - 1) : tx_buf[Slot(tx_out, k)] = Len(got) + Len(hwtx) + k + 1
    BY <1>0 DEF TxPlaced
  <2>a. /\ Len(got) + Len(hwtx) + TxUsed = accepted /\ TxUsed \in Nat /\ op.n \in Nat
        /\ TxUsed + op.n < BUF_LEN /\ Len(got) \in Nat /\ Len(hwtx) \in Nat
        /\ UNCHANGED <<got, hwtx, tx_out>>
    <3>1. TxUsed \in Nat /\ TxUsed + op.n < BUF_LEN
      BY <1>2, <1>4, <1>5 DEF Index
    <3> QED
      BY <1>1, <1>2, <2>0, <3>1
  <2>1. Len(got') + Len(hwtx') + TxUsed' = accepted'
    <3>1. TxUsed' = TxUsed + op.n /\ accepted' = accepted + op.n
      BY <1>1, <1>5
    <3> QED
      BY <2>a, <3>1
  <2>2. \A k \in 0..(TxUsed' - 1) : tx_buf'[Slot(tx_out', k)] = Len(got') + Len(hwtx') + k + 1
    <3> TAKE k \in 0..(TxUsed' - 1)
    <3>1. k \in 0..(TxUsed + op.n - 1) /\ k \in 0..BUF_LEN /\ k \in Index
      BY <1>5, <2>a DEF Index
    <3>2. Slot(tx_out, k) \in Index
      BY <1>1, <3>1, WrapIsSlot
    <3>3. CASE k < TxUsed
      <4>1. Slot(tx_out, k) \notin tx_in..(tx_in + op.n - 1)
        BY <1>1, <1>2, <1>5, <3>1, <3>3, SlotsOfRoom
      <4>2. k \in 0..(TxUsed - 1)
        BY <2>a, <3>1, <3>3
      <4> QED
        BY <1>6, <2>0, <2>a, <3>2, <4>1, <4>2
    <3>4. CASE k >= TxUsed
      <4>0. k < TxUsed + op.n
        BY <2>a, <3>1
      <4>1. Slot(tx_out, k) = tx_in + (k - TxUsed)
        <5>1. k >= Used(tx_in, tx_out) /\ k < Used(tx_in, tx_out) + op.n
          BY <1>5, <3>4, <4>0
        <5>2. /\ tx_in \in Index /\ tx_out \in Index /\ op.n \in Nat /\ k \in Index
              /\ tx_in + op.n <= BUF_LEN /\ op.n + Used(tx_in, tx_out) < BUF_LEN
          BY <1>1, <1>2, <3>1
        <5>3. Slot(tx_out, k) = tx_in + (k - Used(tx_in, tx_out))
          BY <5>1, <5>2, SlotsOfRoom
        <5> QED
          BY <1>5, <5>3
      <4>2. /\ Slot(tx_out, k) \in tx_in..(tx_in + op.n - 1)
            /\ Slot(tx_out, k) - tx_in = k - TxUsed
        <5>1. tx_in \in Int /\ TxUsed \in Int /\ op.n \in Int
          BY <1>1, <2>a DEF Index
        <5> QED
          BY <3>4, <4>0, <4>1, <5>1
      <4>3. tx_buf'[Slot(tx_out, k)] = accepted + 1 + (k - TxUsed)
        BY <1>6, <3>2, <4>2
      <4> QED
        BY <2>a, <3>1, <4>3
    <3> QED
      BY <2>a, <3>1, <3>3, <3>4
  <2> QED
    BY <1>0, <1>1, <2>1, <2>2 DEF TxPlaced
<1> QED
  BY <1>7, <1>8 DEF TxInv

\* Publishing the run: the writer's position does not move.
LEMMA TxPublish ==
  ASSUME IInv, WritePublish
  PROVE  TxInv'
<1> USE UartAssumption
<1>0. TxTypes /\ WriteFits /\ TxPlaced /\ op \in OpType
  BY DEF IInv, TxInv, ControlTypes
<1>1. /\ tx_in \in Index /\ tx_out \in Index
      /\ pc = "w_publish" /\ pc' \in {"w_index", "w_kick"}
      /\ UNCHANGED <<tx_out, tx_buf, hwtx, got, accepted, op>>
      /\ tx_in' = (op.in + op.n) % BUF_LEN
      /\ pc' = "w_index" => op.left > 0
  BY <1>0 DEF TxTypes, WritePublish, hwVars
<1>2. tx_in' = Slot(op.in, op.n) /\ tx_in' \in Index
  BY <1>0, <1>1, WrapIsSlot DEF OpType
<1>3. Writer' = Writer /\ TxUsed' = TxUsed
  BY <1>1, <1>2 DEF Writer, TxUsed, Used
<1>4. TxTypes' /\ WriteFits'
  BY <1>0, <1>1, <1>2 DEF TxTypes, WriteFits, Writing
<1>5. TxPlaced'
  BY <1>0, <1>1, <1>3 DEF TxPlaced, Slot
<1> QED
  BY <1>4, <1>5 DEF TxInv

\* The host takes the oldest character, when there is one.
LEMMA TxPoll ==
  ASSUME IInv, HostPoll, UNCHANGED <<txVars, pc, op, accepted>>
  PROVE  TxInv'
<1> USE HwAssumption, UartAssumption
<1>1. CASE hwtx = <<>>
  BY <1>1, TxFrame DEF IInv, HostPoll
<1>2. CASE hwtx # <<>>
  <2>0. TxTypes /\ WriteFits /\ TxPlaced
    BY DEF IInv, TxInv
  <2>1. /\ hwtx \in Seq(0..MaxTx) /\ Len(hwtx) \in Nat /\ Len(hwtx) # 0 /\ Len(hwtx) <= FifoDepth
        /\ got \in Seq(0..MaxTx) /\ Len(got) \in Nat
        /\ got' = Append(got, Head(hwtx)) /\ hwtx' = Tail(hwtx)
    BY <1>2, <2>0, LenProperties, EmptySeq DEF TxTypes, HostPoll
  <2>2. /\ hwtx' \in Seq(0..MaxTx) /\ Head(hwtx) \in 0..MaxTx /\ Head(hwtx) = hwtx[1]
        /\ Len(hwtx') = Len(hwtx) - 1
        /\ \A j \in 1..Len(hwtx') : hwtx'[j] = hwtx[j + 1]
    BY <1>2, <2>1, HeadTailProperties
  <2>3. /\ got' \in Seq(0..MaxTx) /\ Len(got') = Len(got) + 1
        /\ \A i \in 1..Len(got') : got'[i] = IF i <= Len(got) THEN got[i] ELSE Head(hwtx)
    <3>1. got \in Seq(0..MaxTx) /\ Head(hwtx) \in 0..MaxTx /\ got' = Append(got, Head(hwtx))
      BY <2>1, <2>2
    <3> QED
      BY <3>1, AppendProperties
  <2>4. Writer' = Writer /\ TxUsed' = TxUsed
    BY DEF Writer, TxUsed, Used, Slot, txVars
  <2>5. Len(hwtx') <= FifoDepth
    BY <2>1, <2>2
  <2>6. TxTypes' /\ WriteFits'
    BY <2>0, <2>2, <2>3, <2>5 DEF TxTypes, WriteFits, Used, txVars
  <2>7. TxPlaced'
    <3>0. /\ Len(got) + Len(hwtx) + TxUsed = accepted
          /\ \A i \in 1..Len(got) : got[i] = i
          /\ \A j \in 1..Len(hwtx) : hwtx[j] = Len(got) + j
          /\ \A k \in 0..(TxUsed - 1) : tx_buf[Slot(tx_out, k)] = Len(got) + Len(hwtx) + k + 1
      BY <2>0 DEF TxPlaced
    <3>1. /\ Len(got') + Len(hwtx') = Len(got) + Len(hwtx)
          /\ Len(hwtx') = Len(hwtx) - 1 /\ Len(got') = Len(got) + 1
          /\ Len(got) \in Nat /\ Len(hwtx) \in Nat /\ Len(hwtx) # 0
      BY <2>1, <2>2, <2>3
    <3>2. Head(hwtx) = Len(got) + 1
      BY <2>2, <3>0, <3>1
    <3>3. \A i \in 1..Len(got') : got'[i] = i
      <4> TAKE i \in 1..Len(got')
      <4>1. got'[i] = IF i <= Len(got) THEN got[i] ELSE Head(hwtx)
        BY <2>3
      <4> QED
        BY <3>0, <3>1, <3>2, <4>1
    <3>4. \A j \in 1..Len(hwtx') : hwtx'[j] = Len(got') + j
      <4> TAKE j \in 1..Len(hwtx')
      <4>1. hwtx'[j] = hwtx[j + 1] /\ j + 1 \in 1..Len(hwtx)
        BY <2>2, <3>1
      <4>2. hwtx[j + 1] = Len(got) + (j + 1)
        BY <3>0, <4>1
      <4> QED
        BY <3>1, <4>1, <4>2
    <3>5. \A k \in 0..(TxUsed' - 1) : tx_buf'[Slot(tx_out', k)] = Len(got') + Len(hwtx') + k + 1
      BY <2>4, <3>0, <3>1 DEF txVars
    <3>6. Len(got') + Len(hwtx') + TxUsed' = accepted'
      BY <2>4, <3>0, <3>1
    <3> QED
      BY <3>3, <3>4, <3>5, <3>6 DEF TxPlaced
  <2> QED
    BY <2>6, <2>7 DEF TxInv
<1> QED
  BY <1>1, <1>2

----------------------------------------------------------------------------
(* Control state and interrupts.                                           *)

\* The locals of no call.
LEMMA NoOpType == NoOp \in OpType
  BY UartAssumption DEF NoOp, OpType, Index

\* The types of the control state are kept.
LEMMA ControlStep ==
  ASSUME IInv, Next
  PROVE  ControlTypes'
<1> USE HwAssumption, UartAssumption DEF ControlTypes, Reading, Writing, hostVars, callVars
<1>0. ControlTypes /\ RxTypes /\ TxTypes /\ ReadFits /\ WriteFits
  BY DEF IInv, RxInv, TxInv
<1>1. CASE IsrControl
  <2>1. WSPACE \in 0..FifoDepth
    BY <1>0, LenProperties DEF TxTypes, WSPACE
  <2>2. isr' \in IsrType
    BY <1>1, <2>1 DEF IsrControl, NoIsr, IsrType, RI, WI
  <2> QED
    BY <1>0, <1>1, <2>2 DEF IsrControl
<1>2. CASE IsrRxChar
  <2>0. RAVAIL \in BOOLEAN /\ isr' = [isr EXCEPT !.more = RAVAIL]
    BY <1>2 DEF IsrRxChar, RAVAIL
  <2>1. isr' \in IsrType
    BY <1>0, <2>0 DEF IsrType
  <2> QED
    BY <1>0, <1>2, <2>1 DEF IsrRxChar
<1>3. CASE IsrRxEnd
  BY <1>0, <1>3 DEF IsrRxEnd, IsrType
<1>4. CASE IsrTxChar
  <2>1. isr.space > 0 /\ isr.space \in 0..FifoDepth /\ isr' = [isr EXCEPT !.space = isr.space - 1]
    BY <1>0, <1>4 DEF IsrTxChar, IsrType
  <2>2. isr.space - 1 \in 0..FifoDepth
    BY <2>1
  <2>3. isr' \in IsrType
    BY <1>0, <2>1, <2>2 DEF IsrType
  <2> QED
    BY <1>0, <1>4, <2>3 DEF IsrTxChar
<1>5. CASE IsrTxEnd
  BY <1>0, <1>5 DEF IsrTxEnd, IsrType
<1>6. CASE Timeout
  BY <1>0, <1>6 DEF Timeout, CountsOn
<1>7. CASE ReadIndex
  <2> DEFINE run == IF rx_in >= rx_out THEN rx_in - rx_out ELSE BUF_LEN - rx_out
             n == IF run > op.left THEN op.left ELSE run
  <2>1. rx_in \in Index /\ rx_out \in Index /\ op.left \in Nat
    BY <1>0 DEF RxTypes, OpType
  <2>2. n \in 0..BUF_LEN
    BY <2>1 DEF Index
  <2>3. op' = [op EXCEPT !.in = rx_in, !.out = rx_out, !.n = n]
    BY <1>7 DEF ReadIndex
  <2> HIDE DEF n
  <2>4. op' \in OpType
    BY <1>0, <2>1, <2>2, <2>3 DEF OpType
  <2> QED
    BY <1>0, <1>7, <2>4 DEF ReadIndex
<1>8. CASE ReadCopy
  <2>1. /\ op.n \in Nat /\ op.left \in Nat /\ op.done \in Nat /\ op.n <= op.left
        /\ op' = [op EXCEPT !.left = op.left - op.n, !.done = op.done + op.n]
    BY <1>0, <1>8 DEF ReadCopy, ReadFits, OpType
  <2>2. op.left - op.n \in Nat /\ op.done + op.n \in Nat
    BY <2>1
  <2>3. op' \in OpType
    BY <1>0, <2>1, <2>2 DEF OpType
  <2> QED
    BY <1>0, <1>8, <2>3 DEF ReadCopy
<1>9. CASE ReadFree
  BY <1>0, <1>9 DEF ReadFree
<1>10. CASE ReadWait
  BY <1>0, <1>10 DEF ReadWait
<1>11. CASE ReadCheck
  BY <1>0, <1>11 DEF ReadCheck
<1>12. CASE ReadEnd
  BY <1>0, <1>12 DEF ReadEnd, Return, NoOp, OpType, Index
<1>13. CASE WriteIndex
  <2> DEFINE room == Room(tx_in, tx_out)
             n == IF room > op.left THEN op.left ELSE room
  <2>1. tx_in \in Index /\ tx_out \in Index /\ op.left \in Nat
    BY <1>0 DEF TxTypes, OpType
  <2>2. n \in 0..BUF_LEN
    BY <2>1 DEF Room, Index
  <2>3. op' = [op EXCEPT !.in = tx_in, !.out = tx_out, !.n = n]
    BY <1>13 DEF WriteIndex
  <2> HIDE DEF n
  <2>4. op' \in OpType
    BY <1>0, <2>1, <2>2, <2>3 DEF OpType
  <2> QED
    BY <1>0, <1>13, <2>4 DEF WriteIndex
<1>14. CASE WriteCopy
  <2>1. /\ op.n \in Nat /\ op.left \in Nat /\ op.done \in Nat /\ op.n <= op.left
        /\ op' = [op EXCEPT !.left = op.left - op.n, !.done = op.done + op.n]
    BY <1>0, <1>14 DEF WriteCopy, WriteFits, OpType
  <2>2. op.left - op.n \in Nat /\ op.done + op.n \in Nat
    BY <2>1
  <2>3. op' \in OpType
    BY <1>0, <2>1, <2>2 DEF OpType
  <2> QED
    BY <1>0, <1>14, <2>3 DEF WriteCopy
<1>15. CASE WritePublish
  BY <1>0, <1>15 DEF WritePublish
<1>16. CASE WriteKick
  BY <1>0, <1>16 DEF WriteKick, Kicked
<1>17. CASE WriteWait
  BY <1>0, <1>17 DEF WriteWait
<1>18. CASE WriteCheck
  BY <1>0, <1>18 DEF WriteCheck
<1>19. CASE WriteEnd
  BY <1>0, <1>19 DEF WriteEnd, Return, NoOp, OpType, Index
<1>20. CASE CloseWait
  <2>1. op' \in OpType
    BY <1>20, NoOpType DEF CloseWait, Return
  <2> QED
    BY <1>0, <1>20, <2>1 DEF CloseWait, Return
<1>21. CASE ReadCall
  <2>0. PICK c \in Counts, nb \in BOOLEAN : op' = [NoOp EXCEPT !.left = c, !.nonblock = nb]
    BY <1>21 DEF ReadCall
  <2>1. op' \in OpType
    BY <2>0, NoOpType DEF OpType
  <2> QED
    BY <1>0, <1>21, <2>1 DEF ReadCall
<1>22. CASE WriteCall
  <2>0. PICK c \in Counts, nb \in BOOLEAN : op' = [NoOp EXCEPT !.left = c, !.nonblock = nb]
    BY <1>22 DEF WriteCall
  <2>1. op' \in OpType
    BY <2>0, NoOpType DEF OpType
  <2> QED
    BY <1>0, <1>22, <2>1 DEF WriteCall
<1>23. CASE SetTimeout
  BY <1>0, <1>23 DEF SetTimeout
<1>24. CASE GetConnected
  BY <1>0, <1>24 DEF GetConnected, Return, NoOp, OpType, Index
<1>25. CASE CloseCall
  BY <1>0, <1>25 DEF CloseCall, NoOp, OpType, Index
<1>26. CASE HostStep
  BY <1>0, <1>26 DEF HostStep
<1> QED
  BY <1>1, <1>2, <1>3, <1>4, <1>5, <1>6, <1>7, <1>8, <1>9, <1>10, <1>11, <1>12, <1>13, <1>14, <1>15, <1>16, <1>17, <1>18, <1>19, <1>20, <1>21, <1>22, <1>23, <1>24, <1>25, <1>26
     DEF Next, Isr, Thread, Call

\* The space read from CONTROL stays there: the host only makes more.
LEMMA SpaceStep ==
  ASSUME IInv, Next
  PROVE  SpaceIsThere'
<1> USE HwAssumption DEF SpaceIsThere
<1>0. /\ SpaceIsThere /\ isr \in IsrType /\ hwtx \in Seq(0..MaxTx) /\ Len(hwtx) \in Nat
  BY LenProperties DEF IInv, ControlTypes, TxInv, TxTypes
<1>1. CASE IsrControl
  <2>1. isr'.at \in {"rx", "tx"} => isr'.space = FifoDepth - Len(hwtx)
    BY <1>1 DEF IsrControl, NoIsr, WSPACE
  <2> QED
    BY <1>0, <1>1, <2>1 DEF IsrControl, hwVars
<1>2. CASE IsrRxChar
  BY <1>0, <1>2 DEF IsrRxChar, IsrType
<1>3. CASE IsrRxEnd
  BY <1>0, <1>3 DEF IsrRxEnd, IsrType, hwVars
<1>4. CASE IsrTxChar
  <2>1. /\ isr.at = "tx" /\ isr.space \in Nat
        /\ isr'.at = "tx" /\ isr'.space = isr.space - 1
    BY <1>0, <1>4 DEF IsrTxChar, IsrType
  <2>2. Len(hwtx') = Len(hwtx) + 1
    BY <1>0, <1>4 DEF IsrTxChar
  <2> QED
    BY <1>0, <2>1, <2>2
<1>5. CASE IsrTxEnd
  BY <1>0, <1>5 DEF IsrTxEnd, IsrType
<1>6. CASE Timeout \/ Thread \/ Call
  <2>1. UNCHANGED <<isr, hwtx>>
    BY <1>6 DEF Timeout, Thread, Call, ReadIndex, ReadCopy, ReadFree, ReadWait, ReadCheck,
       ReadEnd, WriteIndex, WriteCopy, WritePublish, WriteKick, WriteWait, WriteCheck,
       WriteEnd, CloseWait, ReadCall, WriteCall, SetTimeout, GetConnected, CloseCall, hwVars
  <2> QED
    BY <1>0, <2>1
<1>7. CASE HostStep
  <2>1. isr' = isr /\ Len(hwtx') <= Len(hwtx) /\ Len(hwtx') \in Nat
    <3>1. CASE hwtx' = hwtx
      BY <1>0, <1>7, <3>1 DEF HostStep
    <3>2. CASE hwtx # <<>> /\ hwtx' = Tail(hwtx)
      <4>1. Len(hwtx') = Len(hwtx) - 1 /\ hwtx' \in Seq(0..MaxTx)
        BY <1>0, <3>2, HeadTailProperties
      <4> QED
        BY <1>0, <1>7, <4>1, LenProperties DEF HostStep
    <3> QED
      BY <1>7, <3>1, <3>2 DEF HostStep, Host, HostSend, HostPoll
  <2>2. isr.at \in {"rx", "tx"} => isr.space \in Nat
    BY <1>0 DEF IsrType
  <2> QED
    BY <1>0, <2>1, <2>2
<1> QED
  BY <1>1, <1>2, <1>3, <1>4, <1>5, <1>6, <1>7 DEF Next, Isr

\* The receive interrupt is left armed.
LEMMA RxArmedStep ==
  ASSUME IInv, Next
  PROVE  RxArmed'
<1> USE UartAssumption DEF RxArmed
<1>0. /\ RxArmed /\ rx_in \in Index /\ rx_out \in Index /\ ReadFits /\ op \in OpType
      /\ op.n \in Nat /\ op.done \in Nat
  BY DEF IInv, ControlTypes, RxInv, RxTypes, OpType
<1>1. CASE IsrRxChar
  <2>1. rx_in' # rx_out
    BY <1>1 DEF IsrRxChar, RxFull
  <2> QED
    BY <1>1, <2>1 DEF IsrRxChar
<1>2. CASE IsrRxEnd
  <2>1. RxFull => rx_in # rx_out
    BY <1>0, IncIsSlot DEF RxFull, Slot, Index
  <2> QED
    BY <1>0, <1>2, <2>1 DEF IsrRxEnd, rxVars, callVars
<1>3. CASE IsrControl \/ IsrTxChar \/ IsrTxEnd \/ Timeout \/ HostStep \/ SetTimeout
  BY <1>0, <1>3 DEF IsrControl, IsrTxChar, IsrTxEnd, Timeout, HostStep, SetTimeout,
     rxVars, callVars
<1>4. CASE ReadIndex
  <2>1. pc' # "r_end" => rx_in # rx_out \/ op.done = 0
    BY <1>0, <1>4 DEF ReadIndex, Index
  <2>2. pc' = "r_end" => op'.done = op.done
    BY <1>0, <1>4 DEF ReadIndex, OpType
  <2> QED
    BY <1>0, <1>4, <2>1, <2>2 DEF ReadIndex, rxVars
<1>5. CASE ReadCopy
  <2>1. op.n > 0 /\ op.n <= Used(rx_in, rx_out)
    BY <1>0, <1>5 DEF ReadCopy, ReadFits
  <2>2. op'.done = op.done + op.n
    BY <1>0, <1>5 DEF ReadCopy, OpType
  <2> QED
    BY <1>0, <1>5, <2>1, <2>2 DEF ReadCopy
<1>6. CASE ReadFree
  BY <1>0, <1>6 DEF ReadFree, ReadFits
<1>7. CASE ReadEnd
  BY <1>0, <1>7 DEF ReadEnd, ReadArms, rxVars
<1>8. CASE ReadWait \/ ReadCheck \/ ReadCall
  BY <1>0, <1>8 DEF ReadWait, ReadCheck, ReadCall, rxVars
<1>9. CASE \/ WriteIndex \/ WriteCopy \/ WritePublish \/ WriteKick \/ WriteWait
           \/ WriteCheck \/ WriteEnd \/ CloseWait \/ WriteCall \/ GetConnected \/ CloseCall
  <2>1. /\ UNCHANGED rxVars /\ pc \notin {"r_free", "r_index", "r_end"}
        /\ "RE" \in irq_enable => "RE" \in irq_enable'
    BY <1>9 DEF WriteIndex, WriteCopy, WritePublish, WriteKick, WriteWait, WriteCheck,
       WriteEnd, CloseWait, WriteCall, GetConnected, CloseCall, Kicked
  <2> QED
    BY <1>0, <2>1 DEF rxVars
<1> QED
  BY <1>1, <1>2, <1>3, <1>4, <1>5, <1>6, <1>7, <1>8, <1>9 DEF Next, Isr, Thread, Call

\* The transmit interrupt is left armed.
LEMMA TxArmedStep ==
  ASSUME IInv, Next
  PROVE  TxArmed'
<1> USE DEF TxArmed
<1>0. TxArmed
  BY DEF IInv
<1>1. CASE Isr
  <2>1. CASE IsrControl \/ IsrRxChar \/ IsrRxEnd
    BY <1>0, <2>1 DEF IsrControl, IsrRxChar, IsrRxEnd, txVars, callVars
  <2>2. CASE IsrTxChar \/ IsrTxEnd
    BY <1>0, <2>2 DEF IsrTxChar, IsrTxEnd, txVars, callVars
  <2> QED
    BY <1>1, <2>1, <2>2 DEF Isr
<1>2. CASE Timeout \/ HostStep \/ SetTimeout
  BY <1>0, <1>2 DEF Timeout, HostStep, SetTimeout, txVars, callVars
<1>3. CASE \/ ReadIndex \/ ReadCopy \/ ReadFree \/ ReadWait \/ ReadCheck \/ ReadEnd
           \/ ReadCall \/ GetConnected \/ CloseCall \/ CloseWait \/ WriteCall
           \/ WriteWait \/ WriteCheck \/ WriteEnd
  <2>1. /\ UNCHANGED txVars /\ pc \notin {"w_index", "w_copy", "w_publish", "w_kick"}
        /\ "WE" \in irq_enable => "WE" \in irq_enable'
    BY <1>3 DEF ReadIndex, ReadCopy, ReadFree, ReadWait, ReadCheck, ReadEnd, ReadCall,
       GetConnected, CloseCall, CloseWait, WriteCall, WriteWait, WriteCheck, WriteEnd
  <2> QED
    BY <1>0, <2>1 DEF txVars
<1>4. CASE WriteIndex \/ WriteCopy \/ WritePublish \/ WriteKick
  BY <1>4 DEF WriteIndex, WriteCopy, WritePublish, WriteKick, Kicked
<1> QED
  BY <1>1, <1>2, <1>3, <1>4 DEF Next, Thread, Call

----------------------------------------------------------------------------
(* The theorems.                                                           *)

\* Every step keeps the receive side.
LEMMA RxStep ==
  ASSUME IInv, Next
  PROVE  RxInv'
<1>0. RxInv /\ ReadFits /\ op \in OpType
  BY DEF IInv, RxInv, ControlTypes
<1>1. CASE \/ IsrControl \/ IsrRxEnd \/ IsrTxChar \/ IsrTxEnd \/ Timeout \/ SetTimeout
  <2>1. UNCHANGED <<rxVars, hwrx, delivered, sent, pc, op>>
    BY <1>1 DEF IsrControl, IsrRxEnd, IsrTxChar, IsrTxEnd, Timeout, SetTimeout,
       hwVars, callVars
  <2> QED
    BY <1>0, <2>1, RxFrame
<1>2. CASE ReadCall
  <2>1. PICK c \in Counts, nb \in BOOLEAN : op' = [NoOp EXCEPT !.left = c, !.nonblock = nb]
    BY <1>2 DEF ReadCall
  <2>2. op'.left > 0
    BY <2>1, UartAssumption DEF NoOp
  <2>3. UNCHANGED <<rxVars, hwrx, delivered, sent>> /\ pc = "idle" /\ pc' = "r_index"
    BY <1>2 DEF ReadCall, hwVars
  <2> QED
    BY <1>0, <2>2, <2>3, RxFrame
<1>3. CASE ReadWait \/ ReadCheck
  <2>1. /\ UNCHANGED <<rxVars, hwrx, delivered, sent, op>> /\ pc \in {"r_wait", "r_check"}
        /\ pc' \in {"r_check", "r_end", "r_index"}
    BY <1>3 DEF ReadWait, ReadCheck, hwVars
  <2>2. op'.left > 0
    BY <1>0, <2>1 DEF ReadFits
  <2> QED
    BY <1>0, <2>1, <2>2, RxFrame
<1>4. CASE \/ ReadEnd \/ WriteIndex \/ WriteCopy \/ WritePublish \/ WriteKick \/ WriteWait
           \/ WriteCheck \/ WriteEnd \/ CloseWait \/ WriteCall \/ GetConnected \/ CloseCall
  <2>1. /\ UNCHANGED <<rxVars, hwrx, delivered, sent>> /\ pc # "r_free"
        /\ pc' \notin {"r_copy", "r_free", "r_index", "r_wait", "r_check"}
    BY <1>4 DEF ReadEnd, WriteIndex, WriteCopy, WritePublish, WriteKick, WriteWait,
       WriteCheck, WriteEnd, CloseWait, WriteCall, GetConnected, CloseCall, Return, hwVars
  <2> QED
    BY <1>0, <2>1, RxFrame
<1>5. CASE HostStep
  <2>1. CASE HostSend
    BY <1>5, <2>1, RxSend DEF HostStep, callVars
  <2>2. CASE HostPoll
    BY <1>0, <1>5, <2>2, RxFrame DEF HostStep, HostPoll, callVars
  <2> QED
    BY <1>5, <2>1, <2>2 DEF HostStep, Host
<1> QED
  BY <1>1, <1>2, <1>3, <1>4, <1>5, RxChar, RxIndex, RxCopy, RxFree DEF Next, Isr, Thread, Call

\* Every step keeps the transmit side.
LEMMA TxStep ==
  ASSUME IInv, Next
  PROVE  TxInv'
<1>0. TxInv /\ WriteFits /\ op \in OpType
  BY DEF IInv, TxInv, ControlTypes
<1>1. CASE \/ IsrControl \/ IsrRxChar \/ IsrRxEnd \/ IsrTxEnd \/ Timeout \/ SetTimeout
  <2>1. UNCHANGED <<txVars, hwtx, got, accepted, pc, op>>
    BY <1>1 DEF IsrControl, IsrRxChar, IsrRxEnd, IsrTxEnd, Timeout, SetTimeout,
       hwVars, callVars
  <2> QED
    BY <1>0, <2>1, TxFrame
<1>2. CASE WriteCall
  <2>1. PICK c \in Counts, nb \in BOOLEAN :
           accepted + c <= MaxTx /\ op' = [NoOp EXCEPT !.left = c, !.nonblock = nb]
    BY <1>2 DEF WriteCall
  <2>2. op'.left > 0 /\ accepted + op'.left <= MaxTx
    BY <2>1, UartAssumption DEF NoOp
  <2>3. UNCHANGED <<txVars, hwtx, got, accepted>> /\ pc = "idle" /\ pc' = "w_index"
    BY <1>2 DEF WriteCall, hwVars
  <2> QED
    BY <1>0, <2>2, <2>3, TxFrame
<1>3. CASE WriteKick \/ WriteWait \/ WriteCheck
  <2>1. /\ UNCHANGED <<txVars, hwtx, got, accepted, op>>
        /\ pc \in {"w_kick", "w_wait", "w_check"} /\ pc' \in {"w_wait", "w_check", "w_end", "w_index"}
        /\ pc = "w_kick" /\ pc' # "w_end" => op.left > 0
        /\ pc = "w_kick" => pc' \in {"w_wait", "w_end"}
    BY <1>3 DEF WriteKick, WriteWait, WriteCheck, hwVars
  <2>2. accepted + op'.left <= MaxTx /\ (pc' # "w_end" => op'.left > 0)
    BY <1>0, <2>1 DEF WriteFits, Writing
  <2> QED
    BY <1>0, <2>1, <2>2, TxFrame
<1>4. CASE \/ ReadIndex \/ ReadCopy \/ ReadFree \/ ReadWait \/ ReadCheck \/ ReadEnd \/ ReadCall
           \/ WriteEnd \/ CloseWait \/ GetConnected \/ CloseCall
  <2>1. UNCHANGED <<txVars, hwtx, got, accepted>> /\ pc # "w_publish" /\ pc' \notin Writing
    BY <1>4 DEF ReadIndex, ReadCopy, ReadFree, ReadWait, ReadCheck, ReadEnd, ReadCall,
       WriteEnd, CloseWait, GetConnected, CloseCall, Return, hwVars, Writing
  <2> QED
    BY <1>0, <2>1, TxFrame DEF Writing
<1>5. CASE HostStep
  <2>1. CASE HostSend
    BY <1>0, <1>5, <2>1, TxFrame DEF HostStep, HostSend, callVars
  <2>2. CASE HostPoll
    BY <1>5, <2>2, TxPoll DEF HostStep, callVars
  <2> QED
    BY <1>5, <2>1, <2>2 DEF HostStep, Host
<1> QED
  BY <1>1, <1>2, <1>3, <1>4, <1>5, TxChar, TxIndex, TxCopy, TxPublish DEF Next, Isr, Thread, Call

\* The invariant is inductive.
THEOREM UartInvariant == Spec => []IInv
<1>1. IInv /\ [Next]_vars => IInv'
  <2> SUFFICES ASSUME IInv, [Next]_vars PROVE IInv'
    OBVIOUS
  <2>1. CASE Next
    BY <2>1, ControlStep, SpaceStep, RxStep, RxArmedStep, TxStep, TxArmedStep DEF IInv
  <2>2. CASE UNCHANGED vars
    <3>1. ControlTypes' /\ SpaceIsThere' /\ RxArmed' /\ TxArmed'
      BY <2>2 DEF IInv, ControlTypes, SpaceIsThere, RxArmed, TxArmed, vars, hwVars, rxVars,
         txVars, hostVars, callVars
    <3>2. RxInv'
      BY <2>2, RxFrame DEF IInv, vars, hwVars, callVars
    <3>3. TxInv'
      BY <2>2, TxFrame DEF IInv, vars, hwVars, callVars
    <3> QED
      BY <3>1, <3>2, <3>3 DEF IInv
  <2> QED
    BY <2>1, <2>2
<1> QED
  BY <1>1, InitIInv, PTL DEF Spec

\* No character is lost, repeated or swapped in either direction, and no index
\* leaves its ring, for every size of the rings and of the FIFOs and whatever
\* the interrupt routine (jtag_uart_init.c:136) does between two steps of a
\* read or a write.
THEOREM RingsAreSound == Spec => []RingsSound
<1>1. IInv => RingsSound
  <2> SUFFICES ASSUME IInv PROVE RingsSound
    OBVIOUS
  <2>1. TypeOK
    BY DEF IInv, ControlTypes, RxInv, TxInv, RxTypes, TxTypes, IsrType, OpType, TypeOK
  <2> QED
    BY <2>1, RxPlacedIsConserved, TxPlacedIsConserved DEF RingsSound
<1> QED
  BY <1>1, UartInvariant, PTL

\* The receive interrupt is never left off with an empty ring, and no character
\* is stranded in the transmit ring: read.c and write.c switch the interrupts
\* on again after every race with the interrupt routine that switches them off.
THEOREM InterruptsStayArmed == Spec => []InterruptsArmed
<1>1. IInv => InterruptsArmed
  BY DEF IInv, InterruptsArmed
<1> QED
  BY <1>1, UartInvariant, PTL

\* A timeout out of range means "never": the count of seconds without the host
\* stops below it, for every INT_MAX and every argument of the ioctl.
THEOREM NeverIsNever == Spec => []NeverMeansNever
<1>1. IInv => NeverMeansNever
  BY UartAssumption DEF IInv, ControlTypes, NeverMeansNever
<1> QED
  BY <1>1, UartInvariant, PTL

----------------------------------------------------------------------------
(* The polled driver, on the same device.                                  *)

\* The n characters of a stream are the ones taken out at its far end and
\* the ones still in the FIFO, in order.
Stream(taken, fifo, n) ==
  /\ taken \in Seq(Nat) /\ fifo \in Seq(Nat) /\ n \in Nat
  /\ Len(taken) + Len(fifo) = n
  /\ \A i \in 1..Len(taken) : taken[i] = i
  /\ \A i \in 1..Len(fifo) : fifo[i] = Len(taken) + i

\* Room seen by the test of WSPACE is still there at the write of DATA.
PolledInv ==
  /\ Stream(got, hwtx, accepted)
  /\ Stream(delivered, hwrx, sent)
  /\ Len(hwtx) <= FifoDepth
  /\ s_pc = "put" => Len(hwtx) < FifoDepth

\* A stream is the numbers of its characters.
LEMMA StreamIsNumbers ==
  ASSUME NEW a, NEW b, NEW n, Stream(a, b, n)
  PROVE  a \o b = Numbers(1, n)
<1> USE DEF Stream
<1>1. /\ a \o b \in Seq(Nat) /\ Len(a \o b) = Len(a) + Len(b)
      /\ \A i \in 1..(Len(a) + Len(b)) :
            (a \o b)[i] = IF i <= Len(a) THEN a[i] ELSE b[i - Len(a)]
  BY ConcatProperties
<1>2. Len(a) \in Nat /\ Len(b) \in Nat
  BY LenProperties
<1>3. \A i \in 1..n : (a \o b)[i] = i
  BY <1>1, <1>2
<1> QED
  BY <1>1, <1>3, SeqIsNumbers

\* The next character enters the FIFO.
LEMMA StreamGrows ==
  ASSUME NEW a, NEW b, NEW n, Stream(a, b, n)
  PROVE  Stream(a, Append(b, n + 1), n + 1)
<1> DEFINE c == Append(b, n + 1)
<1>1. /\ Len(a) \in Nat /\ Len(b) \in Nat /\ n \in Nat /\ n = Len(a) + Len(b)
      /\ \A i \in 1..Len(b) : b[i] = Len(a) + i
  BY LenProperties DEF Stream
<1>2. /\ c \in Seq(Nat) /\ Len(c) = Len(b) + 1
      /\ \A i \in 1..Len(b) : c[i] = b[i]
      /\ c[Len(b) + 1] = n + 1
  <2>1. b \in Seq(Nat) /\ n + 1 \in Nat
    BY <1>1 DEF Stream
  <2> QED
    BY <2>1, AppendProperties
<1> HIDE DEF c
<1>3. \A i \in 1..Len(c) : c[i] = Len(a) + i
  <2> TAKE i \in 1..Len(c)
  <2>1. CASE i \in 1..Len(b)
    BY <2>1, <1>1, <1>2
  <2>2. CASE i = Len(b) + 1
    BY <2>2, <1>1, <1>2
  <2> QED
    BY <2>1, <2>2, <1>1, <1>2
<1>4. Len(a) + Len(c) = n + 1 /\ n + 1 \in Nat
  BY <1>1, <1>2
<1>5. Stream(a, c, n + 1)
  BY <1>2, <1>3, <1>4 DEF Stream
<1> QED
  BY <1>5 DEF c

\* The oldest character leaves the FIFO.
LEMMA StreamMoves ==
  ASSUME NEW a, NEW b, NEW n, Stream(a, b, n), b # <<>>
  PROVE  Stream(Append(a, Head(b)), Tail(b), n)
<1> DEFINE c == Append(a, Head(b))
           d == Tail(b)
<1>1. /\ Len(a) \in Nat /\ Len(b) \in Nat /\ n \in Nat /\ n = Len(a) + Len(b)
      /\ a \in Seq(Nat) /\ b \in Seq(Nat)
      /\ \A i \in 1..Len(a) : a[i] = i
      /\ \A i \in 1..Len(b) : b[i] = Len(a) + i
  BY LenProperties DEF Stream
<1>2. /\ Head(b) = b[1] /\ Head(b) \in Nat /\ Len(b) > 0
      /\ d \in Seq(Nat) /\ Len(d) = Len(b) - 1
      /\ \A i \in 1..Len(d) : d[i] = b[i + 1]
  BY <1>1, HeadTailProperties, EmptySeq
<1>3. /\ c \in Seq(Nat) /\ Len(c) = Len(a) + 1
      /\ \A i \in 1..Len(a) : c[i] = a[i]
      /\ c[Len(a) + 1] = Head(b)
  BY <1>1, <1>2, AppendProperties
<1> HIDE DEF c, d
<1>4. \A i \in 1..Len(c) : c[i] = i
  <2> TAKE i \in 1..Len(c)
  <2>1. CASE i \in 1..Len(a)
    BY <2>1, <1>1, <1>3
  <2>2. CASE i = Len(a) + 1
    BY <2>2, <1>1, <1>2, <1>3
  <2> QED
    BY <2>1, <2>2, <1>1, <1>3
<1>5. \A i \in 1..Len(d) : d[i] = Len(c) + i
  <2> TAKE i \in 1..Len(d)
  <2>1. i + 1 \in 1..Len(b) /\ i \in Nat
    BY <1>1, <1>2
  <2> QED
    BY <2>1, <1>1, <1>2, <1>3
<1>6. Len(c) + Len(d) = n
  BY <1>1, <1>2, <1>3
<1>7. Stream(c, d, n)
  BY <1>1, <1>2, <1>3, <1>4, <1>5, <1>6 DEF Stream
<1> QED
  BY <1>7 DEF c, d

\* Every register access of the polled driver and every step of the host
\* keeps the two streams: only the thread fills the transmit FIFO, so that
\* the device never drops the character at write.c:72.
LEMMA PolledStep ==
  ASSUME PolledInv, [Small!Next]_(Small!vars)
  PROVE  PolledInv'
<1> USE DEF PolledInv
<1>1. Len(hwtx) \in Nat
  BY LenProperties DEF Stream
<1>2. CASE Small!ReadChar
  BY <1>2, StreamMoves DEF Small!ReadChar, Small!RVALID
<1>3. CASE Small!WritePoll
  BY <1>1, <1>3, HwAssumption
     DEF Small!WritePoll, Small!HasSpace, Small!WSPACE, Small!hwVars
<1>4. CASE Small!WritePut
  <2>1. WSPACE > 0
    BY <1>1, <1>4, HwAssumption DEF Small!WritePut, WSPACE
  <2>2. /\ hwtx' = Append(hwtx, accepted + 1) /\ accepted' = accepted + 1
        /\ s_pc' = "write" /\ UNCHANGED <<got, delivered, hwrx, sent>>
    BY <1>4, <2>1 DEF Small!WritePut, Small!WSPACE, WSPACE
  <2>3. Stream(got, hwtx, accepted)' /\ Stream(delivered, hwrx, sent)'
    BY <2>2, StreamGrows
  <2>4. Len(hwtx') <= FifoDepth
    BY <1>1, <2>1, <2>2, HwAssumption, AppendProperties DEF Stream, WSPACE
  <2> QED
    BY <2>2, <2>3, <2>4
<1>5. CASE Small!ReadEnd \/ Small!WriteEnd \/ Small!Calls
  BY <1>5 DEF Small!ReadEnd, Small!WriteEnd, Small!Calls, Small!Call, Small!hwVars
<1>6. CASE Small!HostStep
  <2>1. CASE Small!HostSend
    BY <1>6, <2>1, StreamGrows DEF Small!HostStep, Small!HostSend
  <2>2. CASE Small!HostPoll /\ hwtx = <<>>
    BY <1>6, <2>2 DEF Small!HostStep, Small!HostPoll
  <2>3. CASE Small!HostPoll /\ hwtx # <<>>
    <3>1. /\ got' = Append(got, Head(hwtx)) /\ hwtx' = Tail(hwtx)
          /\ UNCHANGED <<hwrx, sent, s_pc, delivered, accepted>>
      BY <1>6, <2>3 DEF Small!HostStep, Small!HostPoll
    <3>2. Stream(got, hwtx, accepted)' /\ Stream(delivered, hwrx, sent)'
      BY <2>3, <3>1, StreamMoves
    <3>3. Len(hwtx') = Len(hwtx) - 1
      BY <2>3, <3>1, HeadTailProperties DEF Stream
    <3> QED
      BY <1>1, <3>1, <3>2, <3>3, HwAssumption
  <2> QED
    BY <1>6, <2>1, <2>2, <2>3 DEF Small!HostStep, Small!Host
<1>7. CASE UNCHANGED Small!vars
  BY <1>7 DEF Small!vars, Small!hwVars
<1> QED
  BY <1>2, <1>3, <1>4, <1>5, <1>6, <1>7 DEF Small!Next, Small!Thread

\* The driver the build selects, for every depth of the FIFOs and all byte
\* counts: no character the program writes is dropped by a full device, and
\* none the host sends is lost, repeated or swapped (write.c:70-72 and
\* read.c:72-83 without interrupts).
THEOREM PolledStreams == UartSpec => []StreamsConserved
<1> DEFINE I == load = "small" => PolledInv
<1>1. UartInit => I
  BY EmptySeq, HwAssumption DEF UartInit, Small!Init, Small!HwInit, PolledInv, Stream
<1>2. I /\ [UartNext]_uartVars => I'
  <2> SUFFICES ASSUME I, [UartNext]_uartVars, load' = "small" PROVE PolledInv'
    OBVIOUS
  <2>1. load = "small"
    BY DEF UartNext, uartVars
  <2>2. [Small!Next]_(Small!vars)
    BY <2>1 DEF UartNext, OutputStep, InputStep, SmallStep, uartVars, smallVars, vars, hwVars,
                callVars, Small!vars, Small!hwVars
  <2> QED
    BY <2>1, <2>2, PolledStep
<1>3. I => StreamsConserved
  BY StreamIsNumbers
     DEF PolledInv, StreamsConserved, Small!StreamsConserved, Small!Numbers, Numbers
<1> QED
  BY <1>1, <1>2, <1>3, PTL DEF UartSpec
=============================================================================
