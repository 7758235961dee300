---------------------------- MODULE MsgdmaProofs ----------------------------
(***************************************************************************)
(* Proofs about the mSGDMA driver: in dispatcher mode, for every depth of  *)
(* the descriptor FIFO, every number of polls and every set of requests    *)
(* and calls; in prefetcher mode, for every length of the list and of the  *)
(* runs.                                                                   *)
(***************************************************************************)
EXTENDS MCDma, SequenceTheorems, TLAPS

Descriptor == [id : Nat \ {0}, addr : Nat, d : HwDescriptor, async : BOOLEAN]

Types ==
  /\ TypeOK
  /\ made \in Nat /\ stage \in Nat /\ context \in BOOLEAN
  /\ desc.id \in Nat /\ (desc # None => desc.id # 0 /\ desc.d \in HwDescriptor)

\* The thread is alone between the stop and the start of the dispatcher: the
\* interrupt routine does not run, and none can start because the global
\* interrupt enable of the device is off.
Alone == pc \in {"put", "go", "run"} => isr = "off" /\ "Gie" \notin ctl

\* What is checked and staged in one step is still so when it is committed.
Staged == pc = "go" => desc # None /\ stage = desc.id /\ Len(fifo) < Depth

\* The descriptor of a synchronous call under way has been committed.
Committed ==
  pc \in {"run", "wait", "end"} => \E i \in 1..Len(accepted) : accepted[i] = desc.id

\* ExecutedInOrder, descriptor by descriptor.
Executing == IF cur = None THEN 0 ELSE 1
InOrder ==
  /\ Len(accepted) = Len(completed) + Executing + Len(fifo)
  /\ \A i \in 1..Len(completed) : accepted[i] = completed[i]
  /\ cur # None => accepted[Len(completed) + 1] = cur.id
  /\ \A j \in 1..Len(fifo) : accepted[Len(completed) + Executing + j] = fifo[j].id

NotTorn == \A i \in 1..Len(fifo) : fifo[i].addr = fifo[i].id

\* The descriptor queue of the device.
Queue ==
  /\ fifo \in Seq(Descriptor) /\ cur \in Descriptor \cup {None}
  /\ accepted \in Seq(Nat) /\ completed \in Seq(Nat)
  /\ Len(fifo) <= Depth
  /\ InOrder /\ NotTorn

IInv == Types /\ Queue /\ Alone /\ Staged /\ Committed /\ SyncMeansDone

----------------------------------------------------------------------------
(* Construction of descriptors.                                            *)

\* The direction changes leave a request a request.
LEMMA DirectionsAreRequests ==
  ASSUME NEW r \in TransferRequest
  PROVE  {st_to_mm(r), mm_to_st(r), mm_to_mm(r)} \subseteq TransferRequest
<1>1. st_to_mm(r) \in TransferRequest
  BY DEF TransferRequest, st_to_mm, NULL
<1>2. mm_to_st(r) \in TransferRequest
  BY DEF TransferRequest, mm_to_st, NULL
<1> QED
  BY <1>1, <1>2 DEF mm_to_mm

\* What the constructors make fits the hardware, for every request.
LEMMA ConstructFits ==
  ASSUME NEW r \in TransferRequest, NEW d \in Construct(r)
  PROVE  d \in HwDescriptor
<1> USE DescriptorAssumption DEF HwDescriptor, TransferRequest
<1>1. PICK q \in {st_to_mm(r), mm_to_st(r), mm_to_mm(r)} :
         d \in construct_standard_descriptor(q) \cup construct_extended_descriptor(q)
  BY DEF Construct
<1>2. q \in TransferRequest
  BY <1>1, DirectionsAreRequests
<1>3. q.control \cup {"GO"} \in SUBSET ControlBits
  BY <1>2 DEF ControlBits
<1>4. CASE d \in construct_standard_descriptor(q)
  BY <1>2, <1>3, <1>4 DEF construct_standard_descriptor, TooLong, StandardDescriptor
<1>5. CASE d \in construct_extended_descriptor(q)
  <2>1. /\ d = [q EXCEPT !.control = q.control \cup {"GO"}]
        /\ ~(max_byte < q.length) /\ ~(max_stride < q.read_stride)
        /\ ~(max_stride < q.write_stride) /\ enhanced_features = 1
    BY <1>5 DEF construct_extended_descriptor, TooLong, TooWide
  <2>2. /\ q.length \in 0..max_byte /\ q.read_stride \in 0..max_stride
        /\ q.write_stride \in 0..max_stride
    BY <1>2, <2>1
  <2> QED
    BY <1>2, <1>3, <2>1, <2>2 DEF ExtendedDescriptor
<1> QED
  BY <1>1, <1>4, <1>5

\* The descriptor that stands for none is not one the hardware executes.
LEMMA NoneIsNone == None \notin Descriptor /\ None.id = 0
  BY DEF None, Descriptor

----------------------------------------------------------------------------
(* The descriptor queue.                                                   *)

\* The lengths are numbers.
LEMMA QueueLengths ==
  ASSUME Queue
  PROVE  /\ Len(fifo) \in Nat /\ Len(accepted) \in Nat /\ Len(completed) \in Nat
         /\ Executing \in {0, 1}
  BY LenProperties DEF Queue, Executing

\* The hardware takes the oldest descriptor.
LEMMA QueueIssue ==
  ASSUME Queue, cur = None, fifo # <<>>, cur' = Head(fifo), fifo' = Tail(fifo),
         UNCHANGED <<accepted, completed>>
  PROVE  Queue'
<1> USE MsgdmaAssumption
<1>1. /\ fifo \in Seq(Descriptor) /\ accepted \in Seq(Nat) /\ completed \in Seq(Nat)
      /\ Len(fifo) <= Depth /\ NotTorn
      /\ Len(accepted) = Len(completed) + 0 + Len(fifo)
      /\ \A i \in 1..Len(completed) : accepted[i] = completed[i]
      /\ \A j \in 1..Len(fifo) : accepted[Len(completed) + 0 + j] = fifo[j].id
  BY DEF Queue, InOrder, Executing
<1>2. /\ Len(fifo) \in Nat /\ Len(completed) \in Nat /\ Len(accepted) \in Nat
  BY QueueLengths
<1>3. /\ Len(fifo) # 0 /\ cur' = fifo[1] /\ cur' \in Descriptor
      /\ fifo' \in Seq(Descriptor) /\ Len(fifo') = Len(fifo) - 1
      /\ \A j \in 1..Len(fifo') : fifo'[j] = fifo[j + 1]
  BY <1>1, HeadTailProperties, EmptySeq
<1>4. cur' # None /\ Executing' = 1
  BY <1>3, NoneIsNone DEF Executing
<1>5. accepted[Len(completed) + 1] = fifo[1].id
  <2>1. 1 \in 1..Len(fifo) /\ Len(completed) + 0 + 1 = Len(completed) + 1
    BY <1>2, <1>3
  <2> QED
    BY <1>1, <2>1
<1>6. Len(accepted) = Len(completed) + 1 + Len(fifo')
  <2>1. Len(accepted) = Len(completed) + 0 + Len(fifo) /\ Len(fifo') = Len(fifo) - 1
    BY <1>1, <1>3
  <2> QED
    BY <1>2, <2>1
<1>7. \A j \in 1..Len(fifo') : accepted[Len(completed) + 1 + j] = fifo'[j].id
  <2> TAKE j \in 1..Len(fifo')
  <2>1. Len(fifo') = Len(fifo) - 1
    BY <1>3
  <2>2. j + 1 \in 1..Len(fifo) /\ Len(completed) + 0 + (j + 1) = Len(completed) + 1 + j
    BY <1>2, <2>1
  <2>3. accepted[Len(completed) + 0 + (j + 1)] = fifo[j + 1].id
    BY <1>1, <2>2
  <2> QED
    BY <1>3, <2>2, <2>3
<1>8. InOrder'
  BY <1>1, <1>3, <1>4, <1>5, <1>6, <1>7 DEF InOrder
<1>9. NotTorn'
  <2> SUFFICES ASSUME NEW j \in 1..Len(fifo') PROVE fifo'[j].addr = fifo'[j].id
    BY DEF NotTorn
  <2>1. Len(fifo') = Len(fifo) - 1
    BY <1>3
  <2>2. j + 1 \in 1..Len(fifo)
    BY <1>2, <2>1
  <2> QED
    BY <1>1, <1>3, <2>2 DEF NotTorn
<1>10. Len(fifo') <= Depth
  <2>1. Len(fifo') = Len(fifo) - 1 /\ Len(fifo) <= Depth
    BY <1>1, <1>3
  <2> QED
    BY <1>2, <2>1
<1> QED
  BY <1>1, <1>3, <1>8, <1>9, <1>10 DEF Queue

\* A transfer ends.
LEMMA QueueDone ==
  ASSUME Queue, cur # None, cur' = None, completed' = Append(completed, cur.id),
         UNCHANGED <<fifo, accepted>>
  PROVE  Queue'
<1>1. /\ fifo \in Seq(Descriptor) /\ accepted \in Seq(Nat) /\ completed \in Seq(Nat)
      /\ cur \in Descriptor /\ Len(fifo) <= Depth /\ NotTorn
      /\ Len(accepted) = Len(completed) + 1 + Len(fifo)
      /\ \A i \in 1..Len(completed) : accepted[i] = completed[i]
      /\ accepted[Len(completed) + 1] = cur.id
      /\ \A j \in 1..Len(fifo) : accepted[Len(completed) + 1 + j] = fifo[j].id
  BY DEF Queue, InOrder, Executing
<1>2. /\ Len(fifo) \in Nat /\ Len(completed) \in Nat /\ Len(accepted) \in Nat
      /\ cur.id \in Nat
  BY <1>1, QueueLengths DEF Descriptor
<1>3. /\ completed' \in Seq(Nat) /\ Len(completed') = Len(completed) + 1
      /\ \A i \in 1..Len(completed) : completed'[i] = completed[i]
      /\ completed'[Len(completed) + 1] = cur.id
  BY <1>1, <1>2, AppendProperties
<1>4. Executing' = 0
  BY DEF Executing
<1>5. \A i \in 1..Len(completed') : accepted[i] = completed'[i]
  <2> TAKE i \in 1..Len(completed')
  <2>1. i \in 1..Len(completed) \/ i = Len(completed) + 1
    <3>1. Len(completed') = Len(completed) + 1
      BY <1>3
    <3> QED
      BY <1>2, <3>1
  <2> QED
    BY <1>1, <1>3, <2>1
<1>6. /\ Len(accepted) = Len(completed') + 0 + Len(fifo)
      /\ \A j \in 1..Len(fifo) : Len(completed') + 0 + j = Len(completed) + 1 + j
  <2>1. Len(accepted) = Len(completed) + 1 + Len(fifo) /\ Len(completed') = Len(completed) + 1
    BY <1>1, <1>3
  <2> QED
    BY <1>2, <2>1
<1>7. InOrder'
  BY <1>1, <1>4, <1>5, <1>6 DEF InOrder
<1> QED
  BY <1>1, <1>3, <1>7 DEF Queue, NotTorn

\* A descriptor is committed while the FIFO has room.
LEMMA QueuePush ==
  ASSUME Queue, NEW id \in Nat \ {0}, NEW d \in HwDescriptor, NEW async \in BOOLEAN,
         Len(fifo) < Depth,
         fifo' = Push(id, id, d, async), accepted' = Append(accepted, id),
         UNCHANGED <<cur, completed>>
  PROVE  Queue'
<1> USE MsgdmaAssumption
<1> DEFINE new == [id |-> id, addr |-> id, d |-> d, async |-> async]
<1>1. /\ fifo \in Seq(Descriptor) /\ accepted \in Seq(Nat) /\ completed \in Seq(Nat)
      /\ cur \in Descriptor \cup {None} /\ NotTorn
      /\ Len(accepted) = Len(completed) + Executing + Len(fifo)
      /\ \A i \in 1..Len(completed) : accepted[i] = completed[i]
      /\ cur # None => accepted[Len(completed) + 1] = cur.id
      /\ \A j \in 1..Len(fifo) : accepted[Len(completed) + Executing + j] = fifo[j].id
  BY DEF Queue, InOrder
<1>2. /\ Len(fifo) \in Nat /\ Len(completed) \in Nat /\ Len(accepted) \in Nat
      /\ Executing \in {0, 1} /\ Executing' = Executing
      /\ cur # None => Executing = 1
  BY QueueLengths DEF Executing
<1>3. new \in Descriptor /\ new.id = id /\ new.addr = id
  BY DEF Descriptor
<1>4. fifo' = Append(fifo, new)
  BY <1>2 DEF Push
<1> HIDE DEF new
<1>5. /\ fifo' \in Seq(Descriptor) /\ Len(fifo') = Len(fifo) + 1
      /\ \A j \in 1..Len(fifo) : fifo'[j] = fifo[j]
      /\ fifo'[Len(fifo) + 1] = new
  BY <1>1, <1>3, <1>4, AppendProperties
<1>6. /\ accepted' \in Seq(Nat) /\ Len(accepted') = Len(accepted) + 1
      /\ \A i \in 1..Len(accepted) : accepted'[i] = accepted[i]
      /\ accepted'[Len(accepted) + 1] = id
  BY <1>1, AppendProperties
<1>7. /\ Len(accepted) = Len(completed) + Executing + Len(fifo)
      /\ Len(fifo') = Len(fifo) + 1 /\ Len(accepted') = Len(accepted) + 1
  BY <1>1, <1>5, <1>6
<1>8. Len(accepted') = Len(completed) + Executing + Len(fifo')
  BY <1>2, <1>7
<1>9. \A i \in 1..Len(completed) : accepted'[i] = completed[i]
  <2> TAKE i \in 1..Len(completed)
  <2>1. i \in 1..Len(accepted)
    BY <1>2, <1>7
  <2> QED
    BY <1>1, <1>6, <2>1
<1>10. cur # None => accepted'[Len(completed) + 1] = cur.id
  <2> SUFFICES ASSUME cur # None PROVE accepted'[Len(completed) + 1] = cur.id
    OBVIOUS
  <2>1. Len(completed) + 1 \in 1..Len(accepted)
    BY <1>2, <1>7
  <2> QED
    BY <1>1, <1>6, <2>1
<1>11. \A j \in 1..Len(fifo') : accepted'[Len(completed) + Executing + j] = fifo'[j].id
  <2> TAKE j \in 1..Len(fifo')
  <2>1. j \in 1..Len(fifo) \/ j = Len(fifo) + 1
    BY <1>2, <1>7
  <2>2. CASE j \in 1..Len(fifo)
    <3>1. Len(completed) + Executing + j \in 1..Len(accepted)
      BY <1>2, <1>7, <2>2
    <3>2. fifo'[j] = fifo[j]
      BY <1>5, <2>2, Zenon
    <3>3. accepted'[Len(completed) + Executing + j] = accepted[Len(completed) + Executing + j]
      BY <1>6, <3>1, Zenon
    <3>4. accepted[Len(completed) + Executing + j] = fifo[j].id
      BY <1>1, <2>2, Zenon
    <3> QED
      BY <3>2, <3>3, <3>4, Zenon
  <2>3. CASE j = Len(fifo) + 1
    <3>1. Len(completed) + Executing + j = Len(accepted) + 1
      BY <1>2, <1>7, <2>3
    <3> QED
      BY <1>3, <1>5, <1>6, <2>3, <3>1
  <2> QED
    BY <2>1, <2>2, <2>3
<1>12. InOrder'
  BY <1>2, <1>8, <1>9, <1>10, <1>11 DEF InOrder
<1>13. NotTorn'
  <2> SUFFICES ASSUME NEW j \in 1..Len(fifo') PROVE fifo'[j].addr = fifo'[j].id
    BY DEF NotTorn
  <2>1. j \in 1..Len(fifo) \/ j = Len(fifo) + 1
    BY <1>2, <1>7
  <2> QED
    BY <1>1, <1>3, <1>5, <2>1 DEF NotTorn
<1>14. Len(fifo') <= Depth
  BY <1>2, <1>7
<1> QED
  BY <1>1, <1>5, <1>6, <1>12, <1>13, <1>14 DEF Queue

\* With nothing in the FIFO and nothing executing, everything is completed.
LEMMA QueueEmpty ==
  ASSUME Queue, fifo = <<>>, cur = None, NEW i \in 1..Len(accepted)
  PROVE  i \in 1..Len(completed) /\ completed[i] = accepted[i]
<1>1. Len(fifo) = 0 /\ Executing = 0 /\ Len(completed) \in Nat
  BY QueueLengths, EmptySeq DEF Executing
<1>2. Len(accepted) = Len(completed)
  BY <1>1 DEF Queue, InOrder
<1> QED
  BY <1>2 DEF Queue, InOrder

----------------------------------------------------------------------------
(* The invariant.                                                          *)

\* It holds after alt_msgdma_init.
LEMMA InitIInv == Init => IInv
<1> SUFFICES ASSUME Init PROVE IInv
  OBVIOUS
<1> USE MsgdmaAssumption DEF Init
<1>1. Types
  <2>1. Len(fifo) <= Depth
    <3>1. Len(fifo) = 0
      BY EmptySeq
    <3> QED
      BY <3>1
  <2>2. 0 \in 0..TIME_OUT
    OBVIOUS
  <2>3. TypeOK
    BY <2>1, <2>2 DEF TypeOK
  <2> QED
    BY <2>3, NoneIsNone DEF Types
<1>2. Queue
  BY EmptySeq DEF Queue, InOrder, NotTorn, Executing
<1> QED
  BY <1>1, <1>2 DEF IInv, Alone, Staged, Committed, SyncMeansDone

\* Every step keeps the queue.
LEMMA QueueStep ==
  ASSUME IInv, Next
  PROVE  Queue'
<1> USE MsgdmaAssumption
<1>0. Queue /\ Types
  BY DEF IInv
<1>1. CASE HwIssue
  BY <1>0, <1>1, QueueIssue DEF HwIssue
<1>2. CASE HwDone
  BY <1>0, <1>2, QueueDone DEF HwDone
<1>3. CASE IrqCallback
  <2>1. CASE UNCHANGED <<fifo, accepted>>
    BY <1>0, <1>3, <2>1 DEF IrqCallback, Queue, InOrder, NotTorn, Executing
  <2>2. CASE /\ ~LevelFull /\ accepted' = Append(accepted, made + 1)
             /\ \E r \in Requests : \E d \in Construct(r) :
                   fifo' = Push(made + 1, made + 1, d, TRUE)
    <3>1. PICK r \in Requests : \E d \in Construct(r) :
             fifo' = Push(made + 1, made + 1, d, TRUE)
      BY <2>2
    <3>2. PICK d \in Construct(r) : fifo' = Push(made + 1, made + 1, d, TRUE)
      BY <3>1
    <3>3. d \in HwDescriptor
      BY <3>2, ConstructFits
    <3>4. Len(fifo) < Depth /\ made + 1 \in Nat \ {0}
      BY <1>0, <2>2, QueueLengths DEF LevelFull, Types
    <3> QED
      BY <1>0, <1>3, <2>2, <3>2, <3>3, <3>4, QueuePush DEF IrqCallback
  <2> QED
    BY <1>3, <2>1, <2>2 DEF IrqCallback
<1>4. CASE CommitDescriptor
  <2>1. /\ desc.id \in Nat \ {0} /\ desc.d \in HwDescriptor
        /\ stage = desc.id /\ Len(fifo) < Depth
    BY <1>0, <1>4 DEF CommitDescriptor, IInv, Staged, Types
  <2> DEFINE async == call = "async" /\ callback
  <2>2. async \in BOOLEAN
    BY <1>0 DEF Types, TypeOK
  <2>3. /\ fifo' = Push(desc.id, desc.id, desc.d, async)
        /\ accepted' = Append(accepted, desc.id) /\ UNCHANGED <<cur, completed>>
    BY <1>4, <2>1 DEF CommitDescriptor
  <2> HIDE DEF async
  <2> QED
    BY <1>0, <2>1, <2>2, <2>3, QueuePush
<1>5. CASE \/ IrqMask \/ IrqUnmask \/ AsyncLevel \/ AsyncStop \/ AsyncPut \/ AsyncRun
           \/ SyncLevel \/ SyncStop \/ SyncPut \/ SyncRun \/ SyncWait \/ SyncEnd
           \/ AsyncCall \/ SyncCall \/ RegisterCallback
  <2>1. UNCHANGED <<fifo, cur, accepted, completed>>
    BY <1>5 DEF IrqMask, IrqUnmask, AsyncLevel, AsyncStop, AsyncPut, AsyncRun, SyncLevel,
       SyncStop, SyncPut, SyncRun, SyncWait, SyncEnd, AsyncCall, SyncCall, RegisterCallback,
       StopDispatcher, WriteDescriptor, Begin, hwVars
  <2> QED
    BY <1>0, <2>1 DEF Queue, InOrder, NotTorn, Executing
<1> QED
  BY <1>1, <1>2, <1>3, <1>4, <1>5 DEF Next, Hw, Isr, Thread

\* The outcomes of a waiting loop and of the returns.
LEMMA PollStep ==
  ASSUME IInv, Poll
  PROVE  /\ counter' \in 0..TIME_OUT /\ UNCHANGED <<desc, context>>
         /\ pc' = pc \/ pc' = "idle"
<1>1. counter \in 0..TIME_OUT
  BY DEF IInv, Types, TypeOK
<1>2. CASE GiveUp
  BY <1>2, MsgdmaAssumption DEF Poll, Return
<1>3. CASE ~GiveUp
  BY <1>1, <1>3, MsgdmaAssumption DEF Poll, GiveUp
<1> QED
  BY <1>2, <1>3

\* Every step keeps the types.
LEMMA TypesStep ==
  ASSUME IInv, Next
  PROVE  Types'
<1> USE MsgdmaAssumption DEF Types, TypeOK
<1>0. Types
  BY DEF IInv
<1>a. Len(fifo') <= Depth
  BY QueueStep DEF Queue
<1>1. CASE HwIssue
  BY <1>0, <1>1, <1>a DEF HwIssue, threadVars
<1>2. CASE HwDone
  <2>1. ctl' \subseteq {"Stop", "StopDesc", "Soe", "Gie"}
    BY <1>0, <1>2 DEF HwDone
  <2>2. irq' \in BOOLEAN
    BY <1>0, <1>2 DEF HwDone
  <2> QED
    BY <1>0, <1>2, <1>a, <2>1, <2>2 DEF HwDone, threadVars
<1>3. CASE IrqMask
  BY <1>0, <1>3, <1>a DEF IrqMask, threadVars
<1>4. CASE IrqCallback
  <2>1. /\ ctl' \subseteq {"Stop", "StopDesc", "Soe", "Gie"}
        /\ irq' \in BOOLEAN /\ made' \in Nat /\ stage' \in Nat
    <3>1. CASE UNCHANGED <<ctl, irq, stage, fifo, made, accepted>>
      BY <1>0, <3>1
    <3>2. CASE /\ made' = made + 1 /\ stage' = made + 1 /\ irq' = FALSE
               /\ ctl' = {"Soe", "Gie"}
      <4>1. made \in Nat
        BY <1>0
      <4>2. made' \in Nat /\ stage' \in Nat
        BY <3>2, <4>1
      <4>3. ctl' \subseteq {"Stop", "StopDesc", "Soe", "Gie"} /\ irq' \in BOOLEAN
        BY <3>2
      <4> QED
        BY <4>2, <4>3
    <3> QED
      BY <1>4, <3>1, <3>2 DEF IrqCallback
  <2> QED
    BY <1>0, <1>4, <1>a, <2>1 DEF IrqCallback, threadVars
<1>5. CASE IrqUnmask
  BY <1>0, <1>5, <1>a DEF IrqUnmask, IrqKept, threadVars
<1>6. CASE AsyncLevel \/ SyncLevel
  <2>1. counter' \in 0..TIME_OUT /\ UNCHANGED <<desc, context>> /\ pc' \in {"idle", "level", "stop"}
    BY <1>0, <1>6, PollStep DEF AsyncLevel, SyncLevel, Return, Goto
  <2> QED
    BY <1>0, <1>6, <1>a, <2>1 DEF AsyncLevel, SyncLevel, hwVars
<1>7. CASE AsyncStop \/ SyncStop
  <2>1. ctl' \subseteq {"Stop", "StopDesc", "Soe", "Gie"} /\ counter' \in 0..TIME_OUT
    BY <1>7 DEF AsyncStop, SyncStop, StopDispatcher, Stopped
  <2>2. irq' \in BOOLEAN /\ ie' \in BOOLEAN /\ context' \in BOOLEAN
    BY <1>0, <1>7 DEF AsyncStop, SyncStop, StopDispatcher
  <2> QED
    BY <1>0, <1>7, <1>a, <2>1, <2>2 DEF AsyncStop, SyncStop, StopDispatcher
<1>8. CASE AsyncPut \/ SyncPut
  <2>1. /\ counter' \in 0..TIME_OUT /\ UNCHANGED <<desc, context>> /\ pc' \in {"idle", "put", "go"}
        /\ stage' \in Nat
    BY <1>0, <1>8, PollStep DEF AsyncPut, SyncPut, WriteDescriptor, Return, Goto
  <2> QED
    BY <1>0, <1>8, <1>a, <2>1 DEF AsyncPut, SyncPut, WriteDescriptor
<1>9. CASE CommitDescriptor
  BY <1>0, <1>9, <1>a DEF CommitDescriptor, Goto
<1>10. CASE AsyncRun \/ SyncRun
  <2>1. ctl' \subseteq {"Stop", "StopDesc", "Soe", "Gie"}
    BY <1>10 DEF AsyncRun, SyncRun, Running
  <2>2. ie' \in BOOLEAN
    BY <1>0, <1>10 DEF AsyncRun, SyncRun
  <2> QED
    BY <1>0, <1>10, <1>a, <2>1, <2>2 DEF AsyncRun, SyncRun, Return
<1>11. CASE SyncWait
  <2>1. counter' \in 0..TIME_OUT /\ UNCHANGED <<desc, context>> /\ pc' \in {"idle", "wait", "end"}
    BY <1>0, <1>11, PollStep DEF SyncWait, Return, Goto
  <2> QED
    BY <1>0, <1>11, <1>a, <2>1 DEF SyncWait, hwVars
<1>12. CASE SyncEnd
  <2>1. ctl' \subseteq {"Stop", "StopDesc", "Soe", "Gie"} /\ counter' \in 0..TIME_OUT
    BY <1>0, <1>12 DEF SyncEnd, Return
  <2> QED
    BY <1>0, <1>12, <1>a, <2>1 DEF SyncEnd, Return
<1>13. CASE AsyncCall \/ SyncCall
  <2>1. PICK c \in {"async", "sync"} : Begin(c)
    BY <1>13 DEF AsyncCall, SyncCall
  <2>2. made' \in Nat /\ desc'.id \in Nat /\ (desc' # None => desc'.id # 0 /\ desc'.d \in HwDescriptor)
    <3>1. CASE desc' = None /\ made' = made
      BY <1>0, <3>1, NoneIsNone
    <3>2. ASSUME NEW r \in Requests, NEW d \in Construct(r),
                 desc' = [None EXCEPT !.id = made + 1, !.d = d], made' = made + 1
          PROVE  made' \in Nat /\ desc'.id \in Nat /\ desc'.id # 0 /\ desc'.d \in HwDescriptor
      <4>1. desc'.id = made + 1 /\ desc'.d = d
        BY <3>2 DEF None
      <4> QED
        BY <1>0, <3>2, <4>1, ConstructFits
    <3> QED
      BY <2>1, <3>1, <3>2 DEF Begin
  <2> QED
    <3>1. counter' \in 0..TIME_OUT
      <4>1. counter' = 0
        BY <2>1 DEF Begin
      <4> QED
        BY <4>1
    <3>2. /\ pc' = "level"
          /\ UNCHANGED <<ctl, irq, stage, ie, isr, callback, context>>
      BY <2>1 DEF Begin, hwVars
    <3> QED
      BY <1>0, <1>a, <2>2, <3>1, <3>2
<1>14. CASE RegisterCallback
  BY <1>0, <1>14, <1>a DEF RegisterCallback, hwVars, threadVars
<1> QED
  BY <1>1, <1>2, <1>3, <1>4, <1>5, <1>6, <1>7, <1>8, <1>9, <1>10, <1>11, <1>12, <1>13, <1>14
     DEF Next, Hw, Isr, Thread

\* No interrupt is served between the stop and the start of the dispatcher.
LEMMA AloneStep ==
  ASSUME IInv, Next
  PROVE  Alone'
<1> USE DEF Alone
<1>0. Alone
  BY DEF IInv
<1>1. CASE HwIssue
  BY <1>0, <1>1 DEF HwIssue, threadVars
<1>2. CASE HwDone
  <2>1. "Gie" \in ctl' => "Gie" \in ctl
    BY <1>2 DEF HwDone
  <2> QED
    BY <1>0, <1>2, <2>1 DEF HwDone, threadVars
<1>3. CASE Isr
  <2>1. pc \notin {"put", "go", "run"}
    BY <1>0, <1>3 DEF Isr, IrqMask, IrqCallback, IrqUnmask, IrqLine
  <2>2. pc' = pc
    BY <1>3 DEF Isr, IrqMask, IrqCallback, IrqUnmask, threadVars
  <2> QED
    BY <2>1, <2>2
<1>4. CASE isr = "off" /\ (AsyncStop \/ SyncStop)
  BY <1>4 DEF AsyncStop, SyncStop, StopDispatcher, Stopped
<1>5. CASE isr = "off" /\ (AsyncPut \/ SyncPut)
  <2>1. /\ pc = "put" /\ UNCHANGED <<ctl, isr>>
    BY <1>5 DEF AsyncPut, SyncPut, WriteDescriptor
  <2> QED
    BY <1>0, <2>1
<1>6. CASE CommitDescriptor
  BY <1>0, <1>6 DEF CommitDescriptor, Goto
<1>7. CASE AsyncLevel \/ SyncLevel
  <2>1. pc' \in {"idle", "level", "stop"}
    BY <1>7, PollStep DEF AsyncLevel, SyncLevel, Return, Goto
  <2> QED
    BY <2>1
<1>8. CASE SyncWait
  <2>1. pc' \in {"idle", "wait", "end"}
    BY <1>8, PollStep DEF SyncWait, Return, Goto
  <2> QED
    BY <2>1
<1>9. CASE AsyncRun \/ SyncRun \/ SyncEnd \/ AsyncCall \/ SyncCall
  <2>1. pc' \in {"idle", "wait", "level"}
    BY <1>9 DEF AsyncRun, SyncRun, SyncEnd, AsyncCall, SyncCall, Begin, Return
  <2> QED
    BY <2>1
<1>10. CASE RegisterCallback
  BY <1>0, <1>10 DEF RegisterCallback, hwVars, threadVars
<1> QED
  BY <1>1, <1>2, <1>3, <1>4, <1>5, <1>6, <1>7, <1>8, <1>9, <1>10 DEF Next, Hw, Thread

\* What WriteDescriptor found and staged is so until the commit: the thread is
\* alone, and the hardware only makes room.
LEMMA StagedStep ==
  ASSUME IInv, Next
  PROVE  Staged'
<1> USE DEF Staged
<1>0. Staged /\ Alone /\ Queue
  BY DEF IInv
<1>1. CASE HwIssue
  <2>1. SUFFICES ASSUME pc = "go" PROVE Len(fifo') < Depth
    BY <1>0, <1>1 DEF HwIssue, threadVars
  <2>2. Len(fifo') = Len(fifo) - 1
    BY <1>0, <1>1, HeadTailProperties DEF HwIssue, Queue
  <2>3. Len(fifo) < Depth /\ Len(fifo) \in Nat
    BY <1>0, <2>1, QueueLengths
  <2> QED
    BY <2>2, <2>3, MsgdmaAssumption
<1>2. CASE HwDone \/ RegisterCallback
  BY <1>0, <1>2 DEF HwDone, RegisterCallback, hwVars, threadVars
<1>3. CASE Isr
  <2>1. pc # "go"
    BY <1>0, <1>3 DEF Isr, IrqMask, IrqCallback, IrqUnmask, IrqLine, Alone
  <2>2. pc' = pc
    BY <1>3 DEF Isr, IrqMask, IrqCallback, IrqUnmask, threadVars
  <2> QED
    BY <2>1, <2>2
<1>4. CASE AsyncPut \/ SyncPut
  <2>1. SUFFICES ASSUME pc' = "go" PROVE desc' # None /\ stage' = desc'.id /\ Len(fifo') < Depth
    OBVIOUS
  <2>2. /\ pc = "put" /\ fifo' = fifo
        /\ ~(desc = None) /\ ~Full /\ desc' = desc /\ stage' = desc.id
    BY <1>4, <2>1, PollStep DEF AsyncPut, SyncPut, WriteDescriptor, Return, Goto
  <2>3. Len(fifo) # Depth /\ Len(fifo) <= Depth /\ Len(fifo) \in Nat
    BY <1>0, <2>2, QueueLengths DEF Full, Queue
  <2>4. Len(fifo) < Depth
    BY <2>3, MsgdmaAssumption
  <2> QED
    BY <2>2, <2>4
<1>5. CASE AsyncLevel \/ SyncLevel
  <2>1. pc' \in {"idle", "level", "stop"}
    BY <1>5, PollStep DEF AsyncLevel, SyncLevel, Return, Goto
  <2> QED
    BY <2>1
<1>6. CASE SyncWait
  <2>1. pc' \in {"idle", "wait", "end"}
    BY <1>6, PollStep DEF SyncWait, Return, Goto
  <2> QED
    BY <2>1
<1>7. CASE \/ AsyncStop \/ SyncStop \/ CommitDescriptor \/ AsyncRun \/ SyncRun
           \/ SyncEnd \/ AsyncCall \/ SyncCall
  <2>1. pc' # "go"
    BY <1>7 DEF AsyncStop, SyncStop, StopDispatcher, CommitDescriptor, AsyncRun, SyncRun,
       SyncEnd, AsyncCall, SyncCall, Begin, Return, Goto
  <2> QED
    BY <2>1
<1> QED
  BY <1>1, <1>2, <1>3, <1>4, <1>5, <1>6, <1>7 DEF Next, Hw, Thread

\* No step takes back a descriptor that was committed or executed.
LEMMA OnlyGrows ==
  ASSUME IInv, Next
  PROVE  /\ \A i \in 1..Len(accepted) : i \in 1..Len(accepted') /\ accepted'[i] = accepted[i]
         /\ \A i \in 1..Len(completed) : i \in 1..Len(completed') /\ completed'[i] = completed[i]
<1>0. /\ accepted \in Seq(Nat) /\ completed \in Seq(Nat) /\ cur \in Descriptor \cup {None}
      /\ Len(accepted) \in Nat /\ Len(completed) \in Nat
  BY QueueLengths DEF IInv, Queue
<1>1. ASSUME NEW s \in Seq(Nat), NEW x \in Nat, Len(s) \in Nat, NEW i \in 1..Len(s)
      PROVE  i \in 1..Len(Append(s, x)) /\ Append(s, x)[i] = s[i]
  <2>1. Len(Append(s, x)) = Len(s) + 1 /\ Append(s, x)[i] = s[i]
    BY <1>1, AppendProperties
  <2> QED
    BY <1>1, <2>1
<1>2. completed' = completed \/ (cur # None /\ completed' = Append(completed, cur.id))
  BY DEF Next, Hw, Isr, Thread, HwIssue, HwDone, IrqMask, IrqCallback, IrqUnmask, AsyncLevel,
     AsyncStop, AsyncPut, AsyncRun, SyncLevel, SyncStop, SyncPut, SyncRun, SyncWait, SyncEnd,
     CommitDescriptor, AsyncCall, SyncCall, RegisterCallback, StopDispatcher,
     WriteDescriptor, Begin
<1>3. \/ accepted' = accepted \/ accepted' = Append(accepted, made + 1)
      \/ accepted' = Append(accepted, desc.id)
  BY DEF Next, Hw, Isr, Thread, HwIssue, HwDone, IrqMask, IrqCallback, IrqUnmask, AsyncLevel,
     AsyncStop, AsyncPut, AsyncRun, SyncLevel, SyncStop, SyncPut, SyncRun, SyncWait, SyncEnd,
     CommitDescriptor, AsyncCall, SyncCall, RegisterCallback, StopDispatcher,
     WriteDescriptor, Begin
<1>4. made + 1 \in Nat /\ desc.id \in Nat /\ (cur # None => cur.id \in Nat)
  BY <1>0 DEF IInv, Types, Descriptor
<1>5. \A i \in 1..Len(accepted) : i \in 1..Len(accepted') /\ accepted'[i] = accepted[i]
  <2>1. CASE accepted' = accepted
    BY <2>1
  <2>2. CASE accepted' = Append(accepted, made + 1)
    BY <1>0, <1>1, <1>4, <2>2, Zenon
  <2>3. CASE accepted' = Append(accepted, desc.id)
    BY <1>0, <1>1, <1>4, <2>3, Zenon
  <2> QED
    BY <1>3, <2>1, <2>2, <2>3
<1>6. \A i \in 1..Len(completed) : i \in 1..Len(completed') /\ completed'[i] = completed[i]
  BY <1>0, <1>1, <1>2, <1>4
<1> QED
  BY <1>5, <1>6

\* The descriptor of a call stays committed until the call returns.
LEMMA CommittedStep ==
  ASSUME IInv, Next
  PROVE  Committed'
<1>0. Committed /\ Types
  BY DEF IInv
<1>1. CASE CommitDescriptor
  <2>1. /\ accepted' = Append(accepted, desc.id) /\ desc' = desc
    BY <1>1 DEF CommitDescriptor, Goto
  <2>2. accepted \in Seq(Nat) /\ desc.id \in Nat /\ Len(accepted) \in Nat
    BY QueueLengths DEF IInv, Queue, Types
  <2>3. Len(accepted') = Len(accepted) + 1 /\ accepted'[Len(accepted) + 1] = desc.id
    BY <2>1, <2>2, AppendProperties
  <2>4. Len(accepted) + 1 \in 1..Len(accepted')
    BY <2>2, <2>3
  <2> QED
    BY <2>1, <2>3, <2>4 DEF Committed
<1>2. ASSUME desc' = desc, pc' \in {"run", "wait", "end"} => pc \in {"run", "wait", "end"}
      PROVE  Committed'
  <2>1. SUFFICES ASSUME pc' \in {"run", "wait", "end"}
                 PROVE  \E i \in 1..Len(accepted') : accepted'[i] = desc'.id
    BY DEF Committed
  <2>2. PICK i \in 1..Len(accepted) : accepted[i] = desc.id
    BY <1>0, <1>2, <2>1 DEF Committed
  <2>3. i \in 1..Len(accepted') /\ accepted'[i] = desc.id
    BY <2>2, OnlyGrows
  <2> QED
    BY <1>2, <2>3
<1>3. CASE Hw \/ Isr \/ RegisterCallback
  <2>1. UNCHANGED <<pc, desc>>
    BY <1>3 DEF Hw, HwIssue, HwDone, Isr, IrqMask, IrqCallback, IrqUnmask, RegisterCallback,
       threadVars
  <2> QED
    BY <1>2, <2>1
<1>4. CASE AsyncStop \/ SyncStop \/ AsyncRun \/ SyncRun \/ SyncEnd
  <2>1. desc' = desc /\ (pc' \in {"run", "wait", "end"} => pc \in {"run", "wait", "end"})
    BY <1>4 DEF AsyncStop, SyncStop, StopDispatcher, AsyncRun, SyncRun, SyncEnd, Return
  <2> QED
    BY <1>2, <2>1
<1>5. CASE AsyncLevel \/ SyncLevel \/ AsyncPut \/ SyncPut \/ SyncWait
  <2>1. desc' = desc /\ (pc' \in {"run", "wait", "end"} => pc \in {"run", "wait", "end"})
    BY <1>5, PollStep DEF AsyncLevel, SyncLevel, AsyncPut, SyncPut, WriteDescriptor, SyncWait,
       Return, Goto
  <2> QED
    BY <1>2, <2>1
<1>6. CASE AsyncCall \/ SyncCall
  <2>1. pc' = "level"
    BY <1>6 DEF AsyncCall, SyncCall, Begin
  <2> QED
    BY <2>1 DEF Committed
<1> QED
  BY <1>1, <1>3, <1>4, <1>5, <1>6 DEF Next, Thread

\* A synchronous call leaves its last loop only when the queue is empty, and
\* then its own descriptor has been executed, whatever else was queued.
LEMMA SyncStep ==
  ASSUME IInv, Next
  PROVE  SyncMeansDone'
<1>0. SyncMeansDone /\ Committed /\ Queue /\ completed \in Seq(Nat)
  BY DEF IInv, Queue
<1>a. completed' \in Seq(Nat)
  BY QueueStep DEF Queue
<1>b. DOMAIN completed = 1..Len(completed) /\ DOMAIN completed' = 1..Len(completed')
  BY <1>0, <1>a, LenProperties
<1>1. CASE SyncWait /\ pc' = "end"
  <2>1. pc = "wait" /\ ~Busy /\ desc' = desc /\ completed' = completed
    BY <1>1, PollStep DEF SyncWait, Pending, Goto, Return
  <2>2. PICK i \in 1..Len(accepted) : accepted[i] = desc.id
    BY <1>0, <2>1 DEF Committed
  <2>3. i \in 1..Len(completed) /\ completed[i] = accepted[i]
    BY <1>0, <2>1, QueueEmpty DEF Busy
  <2> QED
    BY <1>b, <2>1, <2>2, <2>3 DEF SyncMeansDone
<1>2. ASSUME desc' = desc, pc' = "end" => pc = "end"
      PROVE  SyncMeansDone'
  <2>1. SUFFICES ASSUME pc' = "end"
                 PROVE  \E i \in 1..Len(completed') : completed'[i] = desc'.id
    BY <1>b DEF SyncMeansDone
  <2>2. PICK i \in 1..Len(completed) : completed[i] = desc.id
    BY <1>0, <1>b, <1>2, <2>1 DEF SyncMeansDone
  <2>3. i \in 1..Len(completed') /\ completed'[i] = desc.id
    BY <2>2, OnlyGrows
  <2> QED
    BY <1>2, <2>3
<1>3. CASE Hw \/ Isr \/ RegisterCallback
  <2>1. UNCHANGED <<pc, desc>>
    BY <1>3 DEF Hw, HwIssue, HwDone, Isr, IrqMask, IrqCallback, IrqUnmask, RegisterCallback,
       threadVars
  <2> QED
    BY <1>2, <2>1
<1>4. CASE \/ AsyncStop \/ SyncStop \/ AsyncRun \/ SyncRun \/ SyncEnd \/ CommitDescriptor
           \/ AsyncCall \/ SyncCall
  <2>1. pc' # "end"
    BY <1>4 DEF AsyncStop, SyncStop, StopDispatcher, AsyncRun, SyncRun, SyncEnd,
       CommitDescriptor, AsyncCall, SyncCall, Begin, Return, Goto
  <2> QED
    BY <2>1 DEF SyncMeansDone
<1>5. CASE AsyncLevel \/ SyncLevel \/ AsyncPut \/ SyncPut
  <2>1. desc' = desc /\ (pc' = "end" => pc = "end")
    BY <1>5, PollStep DEF AsyncLevel, SyncLevel, AsyncPut, SyncPut, WriteDescriptor,
       Return, Goto
  <2> QED
    BY <1>2, <2>1
<1>6. CASE pc' # "end"
  BY <1>6 DEF SyncMeansDone
<1> QED
  BY <1>1, <1>3, <1>4, <1>5, <1>6 DEF Next, Thread

\* Every step keeps the invariant.
LEMMA MsgdmaStep ==
  ASSUME IInv, Next
  PROVE  IInv'
  BY TypesStep, QueueStep, AloneStep, StagedStep, CommittedStep, SyncStep DEF IInv

LEMMA MsgdmaStutters ==
  ASSUME IInv, UNCHANGED vars
  PROVE  IInv'
<1>1. UNCHANGED <<ctl, irq, stage, fifo, cur, ie, isr, pc, counter, desc, context, callback,
                  made, accepted, completed>>
  BY DEF vars, hwVars, threadVars
<1> QED
  BY <1>1 DEF IInv, Types, TypeOK, Queue, InOrder, NotTorn, Executing, Alone, Staged,
     Committed, SyncMeansDone

\* The invariant holds of every reachable state, for every FIFO depth, every
\* time-out and every mix of asynchronous and synchronous calls, null
\* descriptors, failing transfers and callbacks that start transfers.
THEOREM MsgdmaInvariant == Spec => []IInv
<1>1. IInv /\ [Next]_vars => IInv'
  BY MsgdmaStep, MsgdmaStutters
<1> QED
  BY <1>1, InitIInv, PTL DEF Spec

\* InOrder says, element by element, that the accepted descriptors are the
\* executed ones, the one executing and those of the FIFO, in this order.
LEMMA InOrderIsOrder ==
  ASSUME Queue
  PROVE  ExecutedInOrder
<1> DEFINE mid == IF cur = None THEN <<>> ELSE <<cur.id>>
           last == [i \in DOMAIN fifo |-> fifo[i].id]
           front == completed \o mid
<1>1. /\ fifo \in Seq(Descriptor) /\ accepted \in Seq(Nat) /\ completed \in Seq(Nat)
      /\ cur \in Descriptor \cup {None}
      /\ Len(accepted) = Len(completed) + Executing + Len(fifo)
      /\ \A i \in 1..Len(completed) : accepted[i] = completed[i]
      /\ cur # None => accepted[Len(completed) + 1] = cur.id
      /\ \A j \in 1..Len(fifo) : accepted[Len(completed) + Executing + j] = fifo[j].id
  BY DEF Queue, InOrder
<1>2. /\ Len(fifo) \in Nat /\ Len(accepted) \in Nat /\ Len(completed) \in Nat
      /\ Executing \in {0, 1}
  BY QueueLengths
<1>3. mid \in Seq(Nat) /\ Len(mid) = Executing /\ (Executing = 1 => mid[1] = cur.id /\ cur # None)
  BY <1>1, EmptySeq DEF Executing, Descriptor
<1>4. DOMAIN fifo = 1..Len(fifo) /\ \A j \in 1..Len(fifo) : fifo[j].id \in Nat
  <2>1. \A j \in 1..Len(fifo) : fifo[j] \in Descriptor
    BY <1>1, ElementOfSeq, Zenon
  <2> QED
    BY <1>1, <2>1, LenProperties DEF Descriptor
<1>5. last \in Seq(Nat) /\ Len(last) = Len(fifo) /\ \A j \in 1..Len(fifo) : last[j] = fifo[j].id
  BY <1>2, <1>4
<1> HIDE DEF mid, last
<1>a. /\ front \in Seq(Nat) /\ Len(front) = Len(completed) + Len(mid)
      /\ \A i \in 1..(Len(completed) + Len(mid)) :
            front[i] = IF i <= Len(completed) THEN completed[i] ELSE mid[i - Len(completed)]
  <2>1. completed \in Seq(Nat) /\ mid \in Seq(Nat)
    BY <1>1, <1>3
  <2> QED
    BY <2>1, ConcatProperties
<1> HIDE DEF front
<1>6. /\ front \in Seq(Nat) /\ Len(front) = Len(completed) + Executing
      /\ \A i \in 1..Len(front) :
            front[i] = IF i <= Len(completed) THEN completed[i] ELSE mid[i - Len(completed)]
  BY <1>a, <1>3
<1>b. /\ front \o last \in Seq(Nat) /\ Len(front \o last) = Len(front) + Len(last)
      /\ \A i \in 1..(Len(front) + Len(last)) :
            (front \o last)[i] = IF i <= Len(front) THEN front[i] ELSE last[i - Len(front)]
  <2>1. front \in Seq(Nat) /\ last \in Seq(Nat)
    BY <1>5, <1>6
  <2> QED
    BY <2>1, ConcatProperties
<1>7. /\ front \o last \in Seq(Nat) /\ Len(front \o last) = Len(front) + Len(fifo)
      /\ \A i \in 1..(Len(front) + Len(fifo)) :
            (front \o last)[i] = IF i <= Len(front) THEN front[i] ELSE last[i - Len(front)]
  BY <1>5, <1>b
<1>8. Len(accepted) = Len(front \o last)
  BY <1>1, <1>6, <1>7
<1>9. ASSUME NEW i \in 1..Len(accepted)
      PROVE  accepted[i] = (front \o last)[i]
  <2>a. /\ Len(front) = Len(completed) + Executing
        /\ Len(accepted) = Len(completed) + Executing + Len(fifo)
    BY <1>1, <1>6
  <2>b. i \in 1..(Len(front) + Len(fifo))
    BY <1>2, <2>a
  <2>1. CASE i <= Len(completed)
    <3>1. i \in 1..Len(completed) /\ i \in 1..Len(front) /\ i <= Len(front)
      BY <1>2, <2>a, <2>1
    <3> QED
      BY <1>1, <1>6, <1>7, <2>b, <2>1, <3>1
  <2>2. CASE ~(i <= Len(completed)) /\ i <= Len(front)
    <3>1. Executing = 1 /\ i = Len(completed) + 1 /\ i - Len(completed) = 1 /\ i \in 1..Len(front)
      BY <1>2, <2>a, <2>2
    <3> QED
      BY <1>1, <1>3, <1>6, <1>7, <2>b, <2>2, <3>1
  <2>3. CASE ~(i <= Len(front))
    <3>1. /\ i - Len(front) \in 1..Len(fifo)
          /\ Len(completed) + Executing + (i - Len(front)) = i
      BY <1>2, <2>a, <2>3
    <3> QED
      BY <1>1, <1>5, <1>7, <2>b, <2>3, <3>1
  <2> QED
    BY <2>1, <2>2, <2>3
<1>10. accepted = front \o last
  BY <1>1, <1>7, <1>8, <1>9, SeqEqual
<1> QED
  BY <1>10 DEF ExecutedInOrder, front, mid, last

\* Descriptors are executed once each and in the order they were accepted,
\* and the registers of one are never mixed with those of another, although
\* alt_msgdma_write_standard_descriptor writes them with interrupts enabled
\* and the callback writes the same registers.
THEOREM TransfersAreSound == Spec => []TransfersSound
<1>1. IInv => TransfersSound
  <2> SUFFICES ASSUME IInv PROVE TransfersSound
    OBVIOUS
  <2>1. TypeOK /\ Queue
    BY DEF IInv, Types
  <2>2. ExecutedInOrder
    BY <2>1, InOrderIsOrder
  <2>3. DOMAIN fifo = 1..Len(fifo)
    BY <2>1, LenProperties DEF Queue
  <2>4. NoTornDescriptor
    BY <2>1, <2>3 DEF Queue, NotTorn, NoTornDescriptor
  <2> QED
    BY <2>1, <2>2, <2>4 DEF TransfersSound
<1> QED
  BY <1>1, MsgdmaInvariant, PTL

\* A synchronous call that returns success has had its descriptor executed.
THEOREM SyncIsDone == Spec => []SyncMeansDone
  BY MsgdmaInvariant, PTL DEF IInv

\* Descriptors in the FIFO fit the hardware.
LEMMA WithinLimitsKept ==
  ASSUME IInv
  PROVE  WithinLimits
<1> SUFFICES ASSUME NEW i \in DOMAIN fifo PROVE fifo[i].d \in HwDescriptor
  BY DEF WithinLimits
<1>1. fifo \in Seq(Descriptor)
  BY DEF IInv, Queue
<1>2. i \in 1..Len(fifo)
  BY <1>1, LenProperties
<1>3. fifo[i] \in Descriptor
  BY <1>1, <1>2, ElementOfSeq
<1> QED
  BY <1>3 DEF Descriptor

\* Whatever the program asks for, no descriptor in the FIFO exceeds what the
\* hardware was built with, nor has the format it does not take.
THEOREM LimitsKept == Spec => []WithinLimits
<1>1. IInv => WithinLimits
  BY WithinLimitsKept
<1> QED
  BY <1>1, MsgdmaInvariant, PTL

----------------------------------------------------------------------------
(* The prefetcher (MsgdmaPrefetcher), in its three uses.                   *)

Uses == {"build", "race", "start"}
Num(u) == IF u = "build" THEN BuildN ELSE RunN
Nodes(u) == 1 .. Num(u)
Bits == {"RUN", "POLL", "PARK", "GIE"}

\* What the processor reads.
Seen(d) == IF d \in dirty THEN cache[d] ELSE mem[d]

NodeType(u) ==
  [next : Nodes(u) \cup {NULL}, control : SUBSET ControlBits, length : 0 .. max_byte]

\* What belongs to the hardware points to a descriptor.
Owned(n) == "OWN_BY_HW" \in n.control
MemoryTypes(u) ==
  /\ mem \in [Nodes(u) -> NodeType(u)] /\ cache \in [Nodes(u) -> NodeType(u)]
  /\ dirty \subseteq Nodes(u)
  /\ \A d \in Nodes(u) : /\ Owned(mem[d]) => mem[d].next \in Nodes(u)
                         /\ Owned(Seen(d)) => Seen(d).next \in Nodes(u)

\* The prefetcher runs, or the interrupt routine is about to write RUN back.
MayRun == "RUN" \in reg \/ (p_isr \in {"mask", "unmask"} /\ "RUN" \in tmp)
RegisterTypes(u) ==
  /\ reg \subseteq Bits /\ tmp \subseteq Bits /\ p_ctl \subseteq Bits
  /\ "RUN" \in reg => fetch \in Nodes(u)
  /\ MayRun => ptr \in Nodes(u)
  /\ p_ret \in {"none", "ok", "EINVAL", "EBUSY"}

\* The list: one cycle through the descriptors that were added, each once.
After(i) == IF i = Len(added) THEN 1 ELSE i + 1
Links(u) ==
  /\ added \in Seq(Nodes(u))
  /\ \A i, j \in 1..Len(added) : added[i] = added[j] => i = j
  /\ list = IF Len(added) = 0 THEN NULL ELSE added[1]
  /\ \A i \in 1..Len(added) : Seen(added[i]).next = added[After(i)]

\* A call that starts the prefetcher has a list and walks along it.
Walk ==
  /\ p_pc # "idle" => Len(added) > 0
  /\ p_pc = "own" => \E i \in 1..Len(added) : at = added[i]
  /\ p_pc \in {"control", "run"} => "RUN" \notin p_ctl

ListInv(u) == MemoryTypes(u) /\ RegisterTypes(u) /\ Links(u) /\ Walk

\* With the descriptors added in array order and the recommended start: the
\* call owns, flushes and starts the whole list.
Call ==
  /\ \A i \in 1..Len(added) : added[i] = i
  /\ p_pc # "idle" => mode \in Recommended
  /\ p_pc = "own" => count \in Nat /\ at = count + 1 /\ at <= Len(added)
  /\ p_pc = "flush" => count = Len(added)
  /\ p_pc \in {"check", "control", "run"} => \A d \in 1..Len(added) : d \notin dirty
  /\ p_pc \in {"control", "run"} => ~MayRun

\* The last descriptor is never the hardware's, neither in memory nor in the
\* cache; while the prefetcher runs the links are in memory, and it has
\* executed the list up to where it is.
HwInv(u) ==
  /\ \A d \in Nodes(u) : Owned(mem[d]) \/ Owned(Seen(d)) => d < Len(added)
  /\ MayRun => /\ ptr = 1 /\ Len(added) > 0
               /\ \A d \in 1..Len(added) : mem[d].next = Seen(d).next
  /\ executed \in Seq(Nodes(u)) /\ \A i \in 1..Len(executed) : executed[i] = i
  /\ Len(executed) = 0 \/ Len(executed) < Len(added)
  /\ "RUN" \in reg => fetch = Len(executed) + 1 /\ fetch <= Len(added)

RunInv(u) == ListInv(u) /\ Call /\ HwInv(u)

\* The constants of a use.
LEMMA UseConstants ==
  ASSUME NEW u \in Uses
  PROVE  /\ Num(u) \in Nat \ {0} /\ Prefetcher(u)!Desc = Nodes(u) /\ NULL \notin Nodes(u)
         /\ max_byte \in Nat
<1>1. Prefetcher(u)!PrefetcherAssumption
  BY UsesAssumption DEF Uses
<1> QED
  BY <1>1, DescriptorAssumption
     DEF Prefetcher!PrefetcherAssumption, Prefetcher!Desc, Num, Nodes, NULL

\* What the processor reads is a descriptor.
LEMMA SeenType ==
  ASSUME NEW u \in Uses, MemoryTypes(u), NEW d \in Nodes(u)
  PROVE  Seen(d) \in NodeType(u) /\ mem[d] \in NodeType(u) /\ cache[d] \in NodeType(u)
  BY DEF MemoryTypes, Seen

\* The processor writes to the lines of s.
LEMMA Stored ==
  ASSUME NEW u \in Uses, MemoryTypes(u), NEW c, NEW s \in SUBSET Nodes(u),
         Prefetcher(u)!Store(c, s),
         \A d \in s : c[d] \in NodeType(u) /\ (Owned(c[d]) => c[d].next \in Nodes(u))
  PROVE  /\ MemoryTypes(u)' /\ mem' = mem /\ dirty' = dirty \cup s
         /\ \A d \in Nodes(u) : Seen(d)' = IF d \in s THEN c[d] ELSE Seen(d)
<1>1. /\ mem' = mem /\ dirty' = dirty \cup s
      /\ cache' = [d \in Nodes(u) |-> IF d \in s THEN c[d] ELSE cache[d]]
  BY UseConstants DEF Prefetcher!Store
<1>2. \A d \in Nodes(u) : Seen(d)' = IF d \in s THEN c[d] ELSE Seen(d)
  BY <1>1 DEF Seen
<1>3. cache' \in [Nodes(u) -> NodeType(u)]
  BY <1>1 DEF MemoryTypes
<1>4. ASSUME NEW d \in Nodes(u) PROVE Owned(Seen(d)') => Seen(d)'.next \in Nodes(u)
  BY <1>2 DEF MemoryTypes
<1> QED
  BY <1>1, <1>2, <1>3, <1>4 DEF MemoryTypes

\* Lines of the cache reach memory.
LEMMA WrittenBack ==
  ASSUME NEW u \in Uses, MemoryTypes(u), NEW s \in SUBSET dirty, cache' = cache,
         dirty' = dirty \ s,
         mem' = [d \in Nodes(u) |-> IF d \in s THEN cache[d] ELSE mem[d]]
  PROVE  /\ MemoryTypes(u)'
         /\ \A d \in Nodes(u) : Seen(d)' = Seen(d) /\ mem'[d] = IF d \in s THEN Seen(d) ELSE mem[d]
<1>1. \A d \in Nodes(u) : Seen(d)' = Seen(d) /\ mem'[d] = IF d \in s THEN Seen(d) ELSE mem[d]
  BY DEF Seen, MemoryTypes
<1>2. mem' \in [Nodes(u) -> NodeType(u)] /\ dirty' \subseteq Nodes(u)
  BY DEF MemoryTypes
<1> QED
  BY <1>1, <1>2 DEF MemoryTypes

\* The hardware gives a descriptor back, or leaves it.
LEMMA GivenBack ==
  ASSUME NEW u \in Uses, MemoryTypes(u), NEW n \in Nodes(u), UNCHANGED <<cache, dirty>>,
         \/ mem' = mem
         \/ mem' = [mem EXCEPT ![n].control = mem[n].control \ {"OWN_BY_HW"}]
  PROVE  /\ MemoryTypes(u)'
         /\ \A d \in Nodes(u) : /\ mem'[d].next = mem[d].next /\ Seen(d)'.next = Seen(d).next
                                /\ Owned(mem'[d]) => Owned(mem[d])
                                /\ Owned(Seen(d)') => Owned(Seen(d))
<1>1. CASE mem' = mem
  BY <1>1 DEF MemoryTypes, Seen
<1>2. CASE mem' = [mem EXCEPT ![n].control = mem[n].control \ {"OWN_BY_HW"}]
  <2> DEFINE e == [mem[n] EXCEPT !.control = mem[n].control \ {"OWN_BY_HW"}]
  <2>1. \A d \in Nodes(u) : mem'[d] = IF d = n THEN e ELSE mem[d]
    BY <1>2 DEF MemoryTypes
  <2>2. mem[n] \in NodeType(u)
    BY SeenType
  <2>3. e \in NodeType(u) /\ e.next = mem[n].next /\ ~Owned(e)
    BY <2>2 DEF NodeType, Owned
  <2> HIDE DEF e
  <2>4. mem' \in [Nodes(u) -> NodeType(u)]
    BY <1>2, <2>1, <2>3 DEF MemoryTypes
  <2>5. \A d \in Nodes(u) : Seen(d)' = IF d \in dirty THEN Seen(d) ELSE mem'[d]
    BY DEF Seen
  <2>6. \A d \in Nodes(u) : d \notin dirty => Seen(d) = mem[d]
    BY DEF Seen
  <2>7. \A d \in Nodes(u) : /\ mem'[d].next = mem[d].next /\ Seen(d)'.next = Seen(d).next
                            /\ Owned(mem'[d]) => Owned(mem[d])
                            /\ Owned(Seen(d)') => Owned(Seen(d))
    BY <2>1, <2>3, <2>5, <2>6
  <2> QED
    BY <2>4, <2>7 DEF MemoryTypes
<1> QED
  BY <1>1, <1>2

\* The list stays when no link of it changes.
LEMMA LinksStay ==
  ASSUME NEW u \in Uses, Links(u), UNCHANGED <<list, added>>,
         \A i \in 1..Len(added) : Seen(added[i])'.next = Seen(added[i]).next
  PROVE  Links(u)'
<1>1. \A i \in 1..Len(added) : After(i)' = After(i)
  BY DEF After
<1> QED
  BY <1>1 DEF Links

\* Elements of the list are descriptors.
LEMMA AddedType ==
  ASSUME NEW u \in Uses, Links(u)
  PROVE  /\ Len(added) \in Nat
         /\ \A i \in 1..Len(added) : added[i] \in Nodes(u) /\ After(i) \in 1..Len(added)
<1>1. Len(added) \in Nat
  BY LenProperties DEF Links
<1>2. \A i \in 1..Len(added) : added[i] \in Nodes(u)
  BY ElementOfSeq DEF Links
<1> QED
  BY <1>1, <1>2 DEF After

\* A descriptor that was constructed points to itself and is the program's.
LEMMA Constructed ==
  ASSUME NEW u \in Uses, NEW d \in Nodes(u),
         NEW c \in Prefetcher(u)!ConstructPrefetcher(d, Prefetcher(u)!Request)
  PROVE  c \in NodeType(u) /\ c.next = d /\ ~Owned(c)
<1> DEFINE R == Prefetcher(u)!Request
<1>1. PICK r \in {Prefetcher(u)!st_to_mm(R), Prefetcher(u)!mm_to_st(R), Prefetcher(u)!mm_to_mm(R)} :
        \/ c \in Prefetcher(u)!construct_prefetcher_standard_descriptor(d, r)
        \/ c \in Prefetcher(u)!construct_prefetcher_extended_descriptor(d, r)
  BY DEF Prefetcher!ConstructPrefetcher
<1>2. r.length = max_byte /\ r.control = {} /\ r \in TransferRequest
  <2>1. R \in TransferRequest /\ R.length = max_byte /\ R.control = {}
    BY UseConstants DEF Prefetcher!Request, TransferRequest
  <2> HIDE DEF R
  <2>2. \/ r = [R EXCEPT !.read = 0, !.read_burst = 0, !.read_stride = 0]
        \/ r = [R EXCEPT !.write = 0, !.write_burst = 0, !.write_stride = 0]
        \/ r = R
    BY <1>1 DEF Prefetcher!st_to_mm, Prefetcher!mm_to_st, Prefetcher!mm_to_mm, Prefetcher!NULL
  <2>3. CASE r = [R EXCEPT !.read = 0, !.read_burst = 0, !.read_stride = 0]
    BY <2>1, <2>3 DEF TransferRequest
  <2>4. CASE r = [R EXCEPT !.write = 0, !.write_burst = 0, !.write_stride = 0]
    BY <2>1, <2>4 DEF TransferRequest
  <2> QED
    BY <2>1, <2>2, <2>3, <2>4
<1> HIDE DEF R
<1>3. PICK e : /\ c = Prefetcher(u)!AsPrefetcher(d, e)
               /\ e.length = max_byte /\ e.control = {"GO"}
  <2>1. CASE c \in Prefetcher(u)!construct_prefetcher_standard_descriptor(d, r)
    BY <1>2, <2>1 DEF Prefetcher!construct_prefetcher_standard_descriptor,
                      Prefetcher!construct_standard_descriptor
  <2>2. CASE c \in Prefetcher(u)!construct_prefetcher_extended_descriptor(d, r)
    <3>1. PICK e : /\ c = Prefetcher(u)!AsPrefetcher(d, e)
                   /\ e = [r EXCEPT !.control = r.control \cup {"GO"}]
      BY <2>2 DEF Prefetcher!construct_prefetcher_extended_descriptor,
                  Prefetcher!construct_extended_descriptor
    <3> QED
      BY <1>2, <3>1 DEF TransferRequest
  <2> QED
    BY <1>1, <2>1, <2>2
<1>4. c = [next |-> d, control |-> ({"GO"} \ {"OWN_BY_HW"}) \cup {"GO"}, length |-> max_byte]
  BY <1>3 DEF Prefetcher!AsPrefetcher
<1> QED
  BY <1>4, UseConstants DEF NodeType, ControlBits, Owned

\* A step of the program that constructs a descriptor or adds one to the list.
LEMMA ConstructStep ==
  ASSUME NEW u \in Uses, ListInv(u), NEW d \in Nodes(u), Prefetcher(u)!ConstructDescriptor(d),
         p_pc = "idle"
  PROVE  /\ ListInv(u)' /\ mem' = mem /\ dirty' = dirty \cup {d}
         /\ \A i \in 1..Len(added) : added[i] # d
         /\ \A e \in Nodes(u) \ {d} : Seen(e)' = Seen(e)
         /\ ~Owned(Seen(d)') /\ p_pc' = "idle"
         /\ UNCHANGED <<list, added, reg, ptr, p_irq, disp, fetch, executed, p_isr, tmp, p_ctl>>
<1>1. PICK c \in Prefetcher(u)!ConstructPrefetcher(d, Prefetcher(u)!Request) :
        Prefetcher(u)!Store([e \in Nodes(u) |-> c], {d})
  BY UseConstants DEF Prefetcher!ConstructDescriptor
<1>2. c \in NodeType(u) /\ c.next = d /\ ~Owned(c)
  BY <1>1, Constructed
<1>3. MemoryTypes(u) /\ RegisterTypes(u) /\ Links(u) /\ Walk
  BY DEF ListInv
<1>4. /\ MemoryTypes(u)' /\ mem' = mem /\ dirty' = dirty \cup {d}
      /\ \A e \in Nodes(u) : Seen(e)' = IF e = d THEN c ELSE Seen(e)
  <2> DEFINE f == [e \in Nodes(u) |-> c]
  <2>1. f[d] = c
    OBVIOUS
  <2> HIDE DEF f
  <2>2. Prefetcher(u)!Store(f, {d})
    BY <1>1 DEF f
  <2>3. {d} \in SUBSET Nodes(u)
    OBVIOUS
  <2>4. \A e \in {d} : f[e] \in NodeType(u) /\ (Owned(f[e]) => f[e].next \in Nodes(u))
    BY <1>2, <2>1
  <2>5. /\ MemoryTypes(u)' /\ mem' = mem /\ dirty' = dirty \cup {d}
        /\ \A e \in Nodes(u) : Seen(e)' = IF e \in {d} THEN f[e] ELSE Seen(e)
    BY <1>3, <2>2, <2>3, <2>4, Stored
  <2> QED
    BY <2>1, <2>5
<1>5. /\ p_pc' = "idle" /\ p_ret' = "ok"
      /\ UNCHANGED <<list, added, reg, ptr, p_irq, disp, fetch, executed, p_isr, tmp, p_ctl>>
  BY DEF Prefetcher!ConstructDescriptor, Prefetcher!Reply, Prefetcher!hwVars
<1>6. \A i \in 1..Len(added) : added[i] # d
  <2>1. added \in Seq(Nodes(u)) /\ DOMAIN added = 1..Len(added)
    BY <1>3, LenProperties DEF Links
  <2> QED
    BY <2>1 DEF Prefetcher!ConstructDescriptor, Prefetcher!Range
<1>7. Links(u)'
  BY <1>3, <1>4, <1>5, <1>6, AddedType, LinksStay
<1>8. RegisterTypes(u)' /\ Walk'
  BY <1>3, <1>5 DEF RegisterTypes, Walk, MayRun
<1> QED
  BY <1>2, <1>4, <1>5, <1>6, <1>7, <1>8 DEF ListInv

\* Only a descriptor outside the list is added to it.
LEMMA NotAdded ==
  ASSUME NEW u \in Uses, Links(u), NEW d, Seen(d).next = d, d # list
  PROVE  \A i \in 1..Len(added) : added[i] # d
<1> SUFFICES ASSUME NEW i \in 1..Len(added), added[i] = d PROVE FALSE
  OBVIOUS
<1>1. Len(added) \in Nat /\ After(i) \in 1..Len(added)
  BY AddedType
<1>2. added[After(i)] = added[i]
  BY DEF Links
<1>3. After(i) = i
  BY <1>1, <1>2 DEF Links
<1>4. i = 1 /\ Len(added) # 0
  BY <1>1, <1>3 DEF After
<1> QED
  BY <1>4 DEF Links

\* The search along the pointers finds the last descriptor.
LEMMA LastFound ==
  ASSUME NEW u \in Uses, Links(u), Len(added) > 0
  PROVE  Prefetcher(u)!LastOfList = added[Len(added)]
<1>1. /\ Len(added) \in Nat /\ Len(added) \in 1..Len(added) /\ 1 \in 1..Len(added)
      /\ \A i \in 1..Len(added) : added[i] \in Nodes(u) /\ After(i) \in 1..Len(added)
  BY AddedType
<1>2. added \in Seq(Nodes(u)) /\ DOMAIN added = 1..Len(added)
  BY LenProperties DEF Links
<1>3. Prefetcher(u)!LastOfList =
        CHOOSE d \in Nodes(u) : (\E i \in 1..Len(added) : d = added[i]) /\ Seen(d).next = list
  BY <1>2, UseConstants DEF Prefetcher!LastOfList, Prefetcher!Range, Prefetcher!View, Seen
<1>4. list = added[1]
  BY <1>1 DEF Links
<1>5. After(Len(added)) = 1 /\ \A i \in 1..Len(added) : After(i) = 1 => i = Len(added)
  BY <1>1 DEF After
<1>6. Seen(added[Len(added)]).next = list
  BY <1>1, <1>4, <1>5 DEF Links
<1>7. ASSUME NEW i \in 1..Len(added), Seen(added[i]).next = list PROVE i = Len(added)
  <2>1. added[After(i)] = added[1]
    BY <1>4, <1>7 DEF Links
  <2>2. After(i) = 1
    BY <1>1, <2>1 DEF Links
  <2> QED
    BY <1>5, <2>2
<1> QED
  BY <1>1, <1>3, <1>6, <1>7

\* Adding a descriptor closes the cycle through it.
LEMMA AddStep ==
  ASSUME NEW u \in Uses, ListInv(u), NEW d \in Nodes(u) \cup {NULL}, Prefetcher(u)!AddToList(d),
         p_pc = "idle"
  PROVE  /\ ListInv(u)' /\ mem' = mem /\ p_pc' = "idle"
         /\ UNCHANGED <<reg, ptr, p_irq, disp, fetch, executed, p_isr, tmp, p_ctl>>
         /\ \A e \in Nodes(u) : Owned(Seen(e)') <=> Owned(Seen(e))
         /\ \/ UNCHANGED <<added, list, cache, dirty>>
            \/ /\ added' = Append(added, d) /\ d \in Nodes(u)
               /\ \A i \in 1..Len(added) : added[i] # d
<1>1. MemoryTypes(u) /\ RegisterTypes(u) /\ Links(u) /\ Walk
  BY DEF ListInv
<1>2. /\ Len(added) \in Nat
      /\ \A i \in 1..Len(added) : added[i] \in Nodes(u) /\ After(i) \in 1..Len(added)
  BY <1>1, AddedType
<1>3. CASE Prefetcher(u)!Refused(d)
  <2>1. /\ p_pc' = "idle" /\ p_ret' = "EINVAL"
        /\ UNCHANGED <<mem, cache, dirty, list, added, reg, ptr, p_irq, disp, fetch, executed,
                       p_isr, tmp, p_ctl>>
    BY <1>3 DEF Prefetcher!AddToList, Prefetcher!Reply, Prefetcher!hwVars, Prefetcher!memVars
  <2>2. \A e : Seen(e)' = Seen(e)
    BY <2>1 DEF Seen
  <2>3. MemoryTypes(u)' /\ RegisterTypes(u)' /\ Links(u)' /\ Walk'
    BY <1>1, <2>1, <2>2, LinksStay DEF MemoryTypes, RegisterTypes, Walk, MayRun
  <2> QED
    BY <2>1, <2>2, <2>3 DEF ListInv
<1>4. CASE ~Prefetcher(u)!Refused(d)
  <2>1. d \in Nodes(u) /\ Seen(d).next = d /\ d # list
    BY <1>4, UseConstants DEF Prefetcher!Refused, Prefetcher!NULL, NULL, Prefetcher!View, Seen
  <2>2. \A i \in 1..Len(added) : added[i] # d
    BY <1>1, <2>1, NotAdded
  <2>3. /\ added' = Append(added, d) /\ p_ret' = "ok" /\ p_pc' = "idle"
        /\ UNCHANGED <<reg, ptr, p_irq, disp, fetch, executed, p_isr, tmp, p_ctl>>
    BY <1>4 DEF Prefetcher!AddToList, Prefetcher!hwVars
  <2>4. /\ added' \in Seq(Nodes(u)) /\ Len(added') = Len(added) + 1
        /\ \A i \in 1..Len(added) : added'[i] = added[i]
        /\ added'[Len(added) + 1] = d
    BY <1>1, <1>2, <2>1, <2>3, AppendProperties DEF Links
  <2>5. ASSUME NEW i \in 1..Len(added'), NEW j \in 1..Len(added'), added'[i] = added'[j]
        PROVE  i = j
    <3>1. CASE i = Len(added) + 1 /\ j # Len(added) + 1
      <4>1. j \in 1..Len(added)
        BY <1>2, <2>4, <3>1
      <4> QED
        BY <2>2, <2>4, <2>5, <3>1, <4>1
    <3>2. CASE i # Len(added) + 1 /\ j = Len(added) + 1
      <4>1. i \in 1..Len(added)
        BY <1>2, <2>4, <3>2
      <4> QED
        BY <2>2, <2>4, <2>5, <3>2, <4>1
    <3>3. CASE i # Len(added) + 1 /\ j # Len(added) + 1
      <4>1. i \in 1..Len(added) /\ j \in 1..Len(added)
        BY <1>2, <2>4, <3>3
      <4> QED
        BY <1>1, <2>4, <2>5, <4>1 DEF Links
    <3> QED
      BY <3>1, <3>2, <3>3
  <2>6. RegisterTypes(u)' /\ Walk'
    BY <1>1, <2>3 DEF RegisterTypes, Walk, MayRun
  <2>7. CASE Len(added) = 0
    <3>1. list = NULL
      BY <1>1, <2>7 DEF Links
    <3>2. list' = d /\ UNCHANGED <<mem, cache, dirty>>
      BY <1>4, <3>1 DEF Prefetcher!AddToList, Prefetcher!NULL, NULL, Prefetcher!memVars
    <3>3. \A e : Seen(e)' = Seen(e)
      BY <3>2 DEF Seen
    <3>4. MemoryTypes(u)'
      BY <1>1, <3>2, <3>3 DEF MemoryTypes
    <3>5. Links(u)'
      <4>1. Len(added') = 1 /\ added'[1] = d
        BY <2>4, <2>7
      <4>2. \A i \in 1..Len(added') : i = 1 /\ After(i)' = 1
        BY <4>1 DEF After
      <4> QED
        BY <2>1, <2>4, <2>5, <3>2, <3>3, <4>1, <4>2 DEF Links
    <3> QED
      BY <2>1, <2>2, <2>3, <2>6, <3>2, <3>3, <3>4, <3>5 DEF ListInv
  <2>8. CASE Len(added) > 0
    <3> DEFINE z == added[Len(added)]
               c == [e \in Nodes(u) |-> [Seen(e) EXCEPT !.next = IF e = d THEN list ELSE d]]
    <3>1. /\ list = added[1] /\ list \in Nodes(u) /\ list # NULL /\ Len(added) \in 1..Len(added)
          /\ z \in Nodes(u) /\ z # d /\ z = Prefetcher(u)!LastOfList
      BY <1>1, <1>2, <2>2, <2>8, LastFound, UseConstants DEF Links
    <3>2. Prefetcher(u)!Store(c, {d, z}) /\ list' = list
      BY <1>4, <3>1, UseConstants
         DEF Prefetcher!AddToList, Prefetcher!Close, Prefetcher!NULL, NULL, Prefetcher!View, Seen
    <3>3. ASSUME NEW e \in {d, z}
          PROVE  /\ c[e] \in NodeType(u) /\ c[e].next = IF e = d THEN list ELSE d
                 /\ c[e].next \in Nodes(u) /\ (Owned(c[e]) <=> Owned(Seen(e)))
      <4>1. e \in Nodes(u) /\ Seen(e) \in NodeType(u)
        BY <1>1, <2>1, <3>1, SeenType
      <4>2. c[e] = [Seen(e) EXCEPT !.next = IF e = d THEN list ELSE d]
        BY <4>1
      <4> QED
        BY <2>1, <3>1, <4>1, <4>2 DEF NodeType, Owned
    <3> HIDE DEF c, z
    <3>4. {d, z} \in SUBSET Nodes(u)
      BY <2>1, <3>1
    <3>5. /\ MemoryTypes(u)' /\ mem' = mem
          /\ \A e \in Nodes(u) : Seen(e)' = IF e \in {d, z} THEN c[e] ELSE Seen(e)
      BY <1>1, <3>2, <3>3, <3>4, Stored
    <3>6. \A e \in Nodes(u) : Owned(Seen(e)') <=> Owned(Seen(e))
      BY <3>3, <3>5
    <3>7. Links(u)'
      <4>0. ASSUME NEW i, NEW e, added'[i] = e PROVE Seen(added[i])' = Seen(e)'
        BY <4>0 DEF Seen
      <4>1. ASSUME NEW i \in 1..Len(added')
            PROVE  (Seen(added[i]).next = added[After(i)])'
        <5>1. CASE i = Len(added) + 1
          <6>1. added'[i] = d /\ After(i)' = 1 /\ added'[1] = added[1]
            BY <1>2, <2>4, <2>8, <5>1 DEF After
          <6> QED
            BY <2>1, <3>1, <3>3, <3>5, <4>0, <6>1
        <5>2. CASE i = Len(added)
          <6>1. added'[i] = z /\ After(i)' = Len(added) + 1
            BY <1>2, <2>4, <2>8, <5>2 DEF After, z
          <6> QED
            BY <2>1, <2>4, <3>1, <3>3, <3>5, <4>0, <6>1
        <5>3. CASE i < Len(added)
          <6>1. i \in 1..Len(added) /\ i + 1 \in 1..Len(added) /\ added'[i] = added[i]
                /\ After(i)' = i + 1 /\ After(i) = i + 1 /\ added'[i + 1] = added[i + 1]
            BY <1>2, <2>4, <5>3 DEF After
          <6>2. added[i] # d /\ added[i] # z /\ added[i] \in Nodes(u)
            <7>1. Len(added) \in 1..Len(added) /\ i # Len(added)
              BY <1>2, <5>3, <6>1
            <7> QED
              BY <1>1, <1>2, <2>2, <6>1, <7>1 DEF Links, z
          <6> QED
            BY <1>1, <3>5, <4>0, <6>1, <6>2 DEF Links
        <5> QED
          BY <1>2, <2>4, <5>1, <5>2, <5>3
      <4>2. Len(added') # 0 /\ list' = added'[1]
        BY <1>2, <2>4, <2>8, <3>1, <3>2
      <4> QED
        BY <2>4, <2>5, <4>1, <4>2 DEF Links
    <3> QED
      BY <2>1, <2>2, <2>3, <2>6, <3>5, <3>6, <3>7 DEF ListInv
  <2> QED
    BY <1>2, <2>7, <2>8
<1> QED
  BY <1>3, <1>4

\* Steps that leave memory and the list alone.
LEMMA MemoryAlone ==
  ASSUME NEW u \in Uses, ListInv(u), UNCHANGED <<mem, cache, dirty, list, added>>
  PROVE  MemoryTypes(u)' /\ Links(u)' /\ \A d : Seen(d)' = Seen(d)
<1>1. \A d : Seen(d)' = Seen(d)
  BY DEF Seen
<1>2. MemoryTypes(u)'
  BY <1>1 DEF ListInv, MemoryTypes
<1>3. Links(u)'
  <2>1. \A i \in 1..Len(added) : Seen(added[i])'.next = Seen(added[i]).next
    BY DEF Seen
  <2> QED
    BY <2>1, LinksStay DEF ListInv
<1> QED
  BY <1>1, <1>2, <1>3

\* Writes of the control register.
LEMMA ControlWritten ==
  ASSUME NEW u \in Uses, RegisterTypes(u), NEW bits \in SUBSET Bits, NEW root,
         "RUN" \in bits => root \in Nodes(u), Prefetcher(u)!WriteControl(bits, root)
  PROVE  /\ reg' = bits /\ ("RUN" \in reg' => fetch' \in Nodes(u))
         /\ \/ "RUN" \in bits /\ "RUN" \notin reg /\ fetch' = root /\ executed' = <<>>
            \/ ~("RUN" \in bits /\ "RUN" \notin reg) /\ UNCHANGED <<fetch, executed>>
  BY DEF Prefetcher!WriteControl, RegisterTypes

\* The interrupt routine.
LEMMA IsrStep ==
  ASSUME NEW u \in Uses, ListInv(u), Prefetcher(u)!Isr
  PROVE  ListInv(u)'
<1>1. UNCHANGED <<mem, cache, dirty, list, added, ptr, p_ctl, p_ret, p_pc, at>>
  BY DEF Prefetcher!Isr, Prefetcher!IsrRead, Prefetcher!IsrWrite, Prefetcher!memVars,
         Prefetcher!hwVars, Prefetcher!threadVars
<1>2. MemoryTypes(u)' /\ Links(u)' /\ Walk'
  BY <1>1, MemoryAlone DEF ListInv, Walk
<1>3. RegisterTypes(u)'
  <2>1. RegisterTypes(u)
    BY DEF ListInv
  <2>2. ASSUME NEW from, NEW to, NEW bits, Prefetcher(u)!IsrRead(from, to, bits),
               bits \in SUBSET Bits, "RUN" \in bits => "RUN" \in reg
        PROVE  RegisterTypes(u)'
    <3>1. tmp' = bits /\ UNCHANGED <<reg, fetch>>
      BY <2>2 DEF Prefetcher!IsrRead, Prefetcher!hwVars
    <3> QED
      BY <1>1, <2>1, <2>2, <3>1 DEF RegisterTypes, MayRun
  <2>3. ASSUME NEW from \in {"mask", "unmask"}, NEW to \in {"callback", "off"}, NEW status,
               Prefetcher(u)!IsrWrite(from, to, status)
        PROVE  RegisterTypes(u)'
    <3>1. Prefetcher(u)!WriteControl(tmp, ptr) /\ p_isr = from /\ p_isr' = to /\ tmp' = tmp
      BY <2>3 DEF Prefetcher!IsrWrite
    <3>2. tmp \in SUBSET Bits /\ ("RUN" \in tmp => ptr \in Nodes(u))
      BY <2>1, <2>3, <3>1 DEF RegisterTypes, MayRun
    <3>3. reg' = tmp /\ ("RUN" \in reg' => fetch' \in Nodes(u))
      BY <2>1, <3>1, <3>2, ControlWritten
    <3>4. ~(p_isr' \in {"mask", "unmask"})
      BY <3>1
    <3> QED
      BY <1>1, <2>1, <3>1, <3>2, <3>3, <3>4 DEF RegisterTypes, MayRun
  <2>4. reg \ {"GIE"} \in SUBSET Bits /\ reg \cup {"GIE"} \in SUBSET Bits
    BY <2>1 DEF RegisterTypes, Bits
  <2> QED
    BY <2>2, <2>3, <2>4 DEF Prefetcher!Isr
<1> QED
  BY <1>2, <1>3 DEF ListInv

\* The start of a call, and its steps that do not touch memory.
LEMMA ControlStep ==
  ASSUME NEW u \in Uses, ListInv(u),
         \/ Prefetcher(u)!StartCall \/ Prefetcher(u)!CheckRun
         \/ Prefetcher(u)!SetControl \/ Prefetcher(u)!Run
  PROVE  ListInv(u)'
<1>1. /\ UNCHANGED <<mem, cache, dirty, list, added>> /\ p_isr = "off" /\ p_isr' = p_isr
  BY DEF Prefetcher!StartCall, Prefetcher!CheckRun, Prefetcher!SetControl, Prefetcher!Run,
         Prefetcher!Reply, Prefetcher!memVars, Prefetcher!hwVars
<1>2. MemoryTypes(u)' /\ Links(u)'
  BY <1>1, MemoryAlone
<1>3. RegisterTypes(u) /\ Links(u) /\ Walk /\ tmp' = tmp
  BY DEF ListInv, Prefetcher!StartCall, Prefetcher!CheckRun, Prefetcher!SetControl,
         Prefetcher!Run, Prefetcher!Reply, Prefetcher!memVars, Prefetcher!hwVars
<1>4. CASE Prefetcher(u)!StartCall
  <2>1. CASE list = NULL
    <3>1. p_pc' = "idle" /\ p_ret' = "EINVAL" /\ UNCHANGED <<reg, ptr, fetch, tmp, p_ctl>>
      BY <1>4, <2>1 DEF Prefetcher!StartCall, Prefetcher!Reply, Prefetcher!hwVars,
                        Prefetcher!NULL, NULL
    <3>2. RegisterTypes(u)' /\ Walk'
      BY <1>1, <1>3, <3>1 DEF RegisterTypes, Walk, MayRun
    <3> QED
      BY <1>2, <3>2 DEF ListInv
  <2>2. CASE list # NULL
    <3>1. p_pc' = "own" /\ at' = list /\ UNCHANGED <<reg, ptr, fetch, tmp, p_ctl, p_ret>>
      BY <1>4, <2>2 DEF Prefetcher!StartCall, Prefetcher!hwVars, Prefetcher!NULL, NULL
    <3>2. Len(added) \in Nat /\ Len(added) > 0 /\ list = added[1]
      BY <1>3, <2>2, AddedType DEF Links
    <3>3. Walk'
      BY <1>1, <3>1, <3>2 DEF Walk
    <3>4. RegisterTypes(u)'
      BY <1>1, <1>3, <3>1 DEF RegisterTypes, MayRun
    <3> QED
      BY <1>2, <3>3, <3>4 DEF ListInv
  <2> QED
    BY <2>1, <2>2
<1>5. CASE Prefetcher(u)!CheckRun
  <2>1. /\ p_pc = "check" /\ p_pc' \in {"idle", "control"} /\ p_ret' \in {p_ret, "EBUSY"}
        /\ p_ctl' \in {reg, p_ctl} /\ UNCHANGED <<reg, ptr, fetch>>
        /\ p_pc' = "control" => "RUN" \notin p_ctl'
    BY <1>5 DEF Prefetcher!CheckRun, Prefetcher!Reply, Prefetcher!hwVars
  <2>2. RegisterTypes(u)' /\ Walk'
    BY <1>1, <1>3, <2>1 DEF RegisterTypes, Walk, MayRun
  <2> QED
    BY <1>2, <2>2 DEF ListInv
<1>6. CASE Prefetcher(u)!SetControl
  <2>1. /\ p_pc = "control" /\ p_pc' = "run" /\ UNCHANGED <<ptr, p_ret>>
        /\ p_ctl' \in {p_ctl \cup {"GIE"}, p_ctl \ {"GIE"}}
        /\ Prefetcher(u)!WriteControl(p_ctl', ptr)
    BY <1>6 DEF Prefetcher!SetControl
  <2>2. p_ctl' \in SUBSET Bits /\ "RUN" \notin p_ctl'
    BY <1>3, <2>1 DEF RegisterTypes, Bits, Walk
  <2>3. reg' = p_ctl' /\ UNCHANGED fetch
    BY <1>3, <2>1, <2>2, ControlWritten
  <2>4. RegisterTypes(u)' /\ Walk'
    BY <1>1, <1>3, <2>1, <2>2, <2>3 DEF RegisterTypes, Walk, MayRun
  <2> QED
    BY <1>2, <2>4 DEF ListInv
<1>7. CASE Prefetcher(u)!Run
  <2>1. /\ p_pc = "run" /\ p_pc' = "idle" /\ ptr' = list /\ p_ret' = "ok" /\ UNCHANGED p_ctl
        /\ Prefetcher(u)!WriteControl((p_ctl \ {"PARK", "POLL"}) \cup Prefetcher(u)!ModeBits \cup {"RUN"}, list)
    BY <1>7 DEF Prefetcher!Run, Prefetcher!Root
  <2>2. Len(added) \in Nat /\ Len(added) > 0 /\ list = added[1] /\ list \in Nodes(u)
    BY <1>3, <2>1, AddedType DEF Links, Walk
  <2>3. (p_ctl \ {"PARK", "POLL"}) \cup Prefetcher(u)!ModeBits \cup {"RUN"} \in SUBSET Bits
    BY <1>3 DEF RegisterTypes, Bits, Prefetcher!ModeBits
  <2>4. reg' \in SUBSET Bits /\ fetch' \in Nodes(u)
    BY <1>3, <2>1, <2>2, <2>3, ControlWritten
  <2>5. RegisterTypes(u)' /\ Walk'
    BY <1>1, <1>3, <2>1, <2>2, <2>4 DEF RegisterTypes, Walk, MayRun
  <2> QED
    BY <1>2, <2>5 DEF ListInv
<1> QED
  BY <1>4, <1>5, <1>6, <1>7

\* Marking the owner of one descriptor of the list.
LEMMA OwnStep ==
  ASSUME NEW u \in Uses, ListInv(u), Prefetcher(u)!SetOwn
  PROVE  /\ ListInv(u)' /\ mem' = mem /\ dirty' = dirty \cup {at} /\ at \in Nodes(u)
         /\ \A e \in Nodes(u) : /\ Seen(e)'.next = Seen(e).next
                                /\ e # at => Seen(e)' = Seen(e)
         /\ Seen(at).next = list /\ mode.sw => ~Owned(cache'[at])
         /\ p_pc' = IF Seen(at).next # list THEN "own" ELSE IF mode.flush THEN "flush" ELSE "check"
         /\ at' = Seen(at).next /\ count' = count + 1
         /\ UNCHANGED <<list, added, reg, ptr, fetch, executed, p_isr, tmp, p_ctl, mode>>
         /\ p_isr = "off" /\ p_pc = "own"
<1> DEFINE o == Prefetcher(u)!Owner(Seen(at).next = list)
           n == [Seen(at) EXCEPT !.control = (Seen(at).control \ {"OWN_BY_HW"}) \cup o]
           c == [e \in Nodes(u) |-> n]
<1>1. /\ p_pc = "own" /\ p_isr = "off"
      /\ p_pc' = IF Seen(at).next # list THEN "own" ELSE IF mode.flush THEN "flush" ELSE "check"
      /\ at' = Seen(at).next /\ count' = count + 1
      /\ UNCHANGED <<list, added, reg, ptr, fetch, executed, p_isr, tmp, p_ctl, p_ret, mode>>
  BY DEF Prefetcher!SetOwn, Prefetcher!View, Seen, Prefetcher!hwVars
<1>2. Prefetcher(u)!Store(c, {at})
  BY UseConstants DEF Prefetcher!SetOwn, Prefetcher!View, Seen
<1>3. MemoryTypes(u) /\ RegisterTypes(u) /\ Links(u) /\ Walk
  BY DEF ListInv
<1>4. PICK i \in 1..Len(added) : at = added[i]
  BY <1>1, <1>3 DEF Walk
<1>5. /\ at \in Nodes(u) /\ After(i) \in 1..Len(added) /\ Seen(at).next = added[After(i)]
      /\ added[After(i)] \in Nodes(u)
  BY <1>3, <1>4, AddedType DEF Links
<1>6. Seen(at) \in NodeType(u)
  BY <1>3, <1>5, SeenType
<1>7. o \in SUBSET {"OWN_BY_HW"} /\ (Seen(at).next = list /\ mode.sw => o = {})
  BY DEF Prefetcher!Owner
<1> HIDE DEF o
<1>8. /\ n \in NodeType(u) /\ n.next = Seen(at).next
      /\ Seen(at).next = list /\ mode.sw => ~Owned(n)
  BY <1>6, <1>7 DEF NodeType, Owned, ControlBits
<1>9. c[at] = n
  BY <1>5
<1> HIDE DEF n, c
<1>10. /\ MemoryTypes(u)' /\ mem' = mem /\ dirty' = dirty \cup {at}
       /\ \A e \in Nodes(u) : Seen(e)' = IF e \in {at} THEN c[e] ELSE Seen(e)
  <2>1. {at} \in SUBSET Nodes(u)
    BY <1>5
  <2>2. \A e \in {at} : c[e] \in NodeType(u) /\ (Owned(c[e]) => c[e].next \in Nodes(u))
    BY <1>5, <1>8, <1>9
  <2> QED
    BY <1>2, <1>3, <2>1, <2>2, Stored
<1>11. \A e \in Nodes(u) : Seen(e)'.next = Seen(e).next /\ (e # at => Seen(e)' = Seen(e))
  BY <1>8, <1>9, <1>10
<1>12. cache'[at] = n
  BY <1>2, <1>5, <1>9, UseConstants DEF Prefetcher!Store
<1>13. Links(u)'
  <2>1. \A k \in 1..Len(added) : Seen(added[k])'.next = Seen(added[k]).next
    BY <1>1, <1>3, <1>11, AddedType DEF Seen
  <2> QED
    BY <1>1, <1>3, <2>1, LinksStay
<1>14. RegisterTypes(u)' /\ Walk'
  BY <1>1, <1>3, <1>4, <1>5 DEF RegisterTypes, Walk, MayRun
<1> QED
  BY <1>1, <1>5, <1>8, <1>10, <1>11, <1>12, <1>13, <1>14 DEF ListInv

\* The flush of the list, and the eviction of a line.
LEMMA FlushStep ==
  ASSUME NEW u \in Uses, ListInv(u),
         Prefetcher(u)!Flush \/ \E d \in Nodes(u) : Prefetcher(u)!Evict(d)
  PROVE  /\ ListInv(u)' /\ dirty' \subseteq dirty
         /\ \A e \in Nodes(u) : /\ Seen(e)' = Seen(e)
                                /\ mem'[e] = mem[e] \/ mem'[e] = Seen(e)
         /\ \/ /\ p_pc = "flush" /\ p_pc' = "check"
               /\ \A e \in Nodes(u) : e \in list .. list + count - 1 => e \notin dirty'
            \/ UNCHANGED p_pc
         /\ UNCHANGED <<list, added, reg, ptr, fetch, executed, p_isr, tmp, p_ctl, mode, at, count>>
<1>1. MemoryTypes(u) /\ RegisterTypes(u) /\ Links(u) /\ Walk
  BY DEF ListInv
<1>2. PICK s \in SUBSET dirty :
        /\ mem' = [d \in Nodes(u) |-> IF d \in s THEN cache[d] ELSE mem[d]]
        /\ cache' = cache /\ dirty' = dirty \ s
        /\ \/ /\ p_pc = "flush" /\ p_pc' = "check"
              /\ \A e \in dirty : e \in list .. list + count - 1 => e \in s
           \/ UNCHANGED p_pc
  <2>1. CASE Prefetcher(u)!Flush
    <3> DEFINE s == {d \in dirty : d \in list .. list + count - 1}
    <3>1. /\ mem' = [d \in Nodes(u) |-> IF d \in s THEN cache[d] ELSE mem[d]]
          /\ cache' = cache /\ dirty' = dirty \ s /\ p_pc = "flush" /\ p_pc' = "check"
      BY <2>1, UseConstants DEF Prefetcher!Flush, Prefetcher!Flushed
    <3> QED
      BY <3>1
  <2>2. ASSUME NEW d \in Nodes(u), Prefetcher(u)!Evict(d)
        PROVE  \E s \in SUBSET dirty :
                 /\ mem' = [e \in Nodes(u) |-> IF e \in s THEN cache[e] ELSE mem[e]]
                 /\ cache' = cache /\ dirty' = dirty \ s /\ UNCHANGED p_pc
    <3>1. /\ d \in dirty /\ mem' = [mem EXCEPT ![d] = cache[d]] /\ cache' = cache
          /\ dirty' = dirty \ {d} /\ p_pc' = p_pc
      BY <2>2 DEF Prefetcher!Evict, Prefetcher!threadVars
    <3>2. mem' = [e \in Nodes(u) |-> IF e \in {d} THEN cache[e] ELSE mem[e]]
      BY <1>1, <3>1 DEF MemoryTypes
    <3> QED
      BY <3>1, <3>2
  <2> QED
    BY <2>1, <2>2
<1>3. UNCHANGED <<list, added, reg, ptr, fetch, executed, p_isr, tmp, p_ctl, mode, at, count, p_ret>>
  BY DEF Prefetcher!Flush, Prefetcher!Evict, Prefetcher!hwVars, Prefetcher!threadVars
<1>4. /\ MemoryTypes(u)'
      /\ \A d \in Nodes(u) : Seen(d)' = Seen(d) /\ mem'[d] = IF d \in s THEN Seen(d) ELSE mem[d]
  BY <1>1, <1>2, WrittenBack
<1>5. Links(u)'
  <2>1. \A k \in 1..Len(added) : Seen(added[k])'.next = Seen(added[k]).next
    BY <1>1, <1>3, <1>4, AddedType DEF Seen
  <2> QED
    BY <1>1, <1>3, <2>1, LinksStay
<1>6. RegisterTypes(u)' /\ Walk'
  BY <1>1, <1>2, <1>3 DEF RegisterTypes, Walk, MayRun
<1> QED
  BY <1>2, <1>3, <1>4, <1>5, <1>6 DEF ListInv

\* The hardware executes a descriptor or ends the run.
LEMMA HwStep ==
  ASSUME NEW u \in Uses, ListInv(u), Prefetcher(u)!Hw
  PROVE  /\ ListInv(u)'
         /\ UNCHANGED <<cache, dirty, list, added, ptr, p_isr, tmp, p_ctl, mode, p_pc, at, count>>
         /\ \A d \in Nodes(u) : /\ mem'[d].next = mem[d].next /\ Seen(d)'.next = Seen(d).next
                                /\ Owned(mem'[d]) => Owned(mem[d])
                                /\ Owned(Seen(d)') => Owned(Seen(d))
         /\ \/ /\ "RUN" \in reg /\ reg' = reg /\ fetch \in Nodes(u) /\ Owned(mem[fetch])
               /\ executed' = Append(executed, fetch) /\ fetch' = mem[fetch].next
            \/ "RUN" \notin reg' /\ executed' = executed
<1>1. MemoryTypes(u) /\ RegisterTypes(u) /\ Links(u) /\ Walk
  BY DEF ListInv
<1>2. /\ UNCHANGED <<cache, dirty, list, added, ptr, p_isr, tmp, p_ctl, mode, p_pc, at, count, p_ret>>
      /\ "RUN" \in reg
  BY DEF Prefetcher!Hw, Prefetcher!HwExecute, Prefetcher!HwStop, Prefetcher!memVars,
         Prefetcher!threadVars
<1>3. fetch \in Nodes(u)
  BY <1>1, <1>2 DEF RegisterTypes
<1>4. /\ MemoryTypes(u)'
      /\ \A d \in Nodes(u) : /\ mem'[d].next = mem[d].next /\ Seen(d)'.next = Seen(d).next
                             /\ Owned(mem'[d]) => Owned(mem[d])
                             /\ Owned(Seen(d)') => Owned(Seen(d))
  <2>1. \/ mem' = mem
        \/ mem' = [mem EXCEPT ![fetch].control = mem[fetch].control \ {"OWN_BY_HW"}]
    BY DEF Prefetcher!Hw, Prefetcher!HwExecute, Prefetcher!HwStop, Prefetcher!memVars
  <2> QED
    BY <1>1, <1>2, <1>3, <2>1, GivenBack
<1>5. \/ /\ reg' = reg /\ Owned(mem[fetch])
         /\ executed' = Append(executed, fetch) /\ fetch' = mem[fetch].next
      \/ reg' = reg \ {"RUN"} /\ executed' = executed /\ fetch' = fetch
  BY DEF Prefetcher!Hw, Prefetcher!HwExecute, Prefetcher!HwStop, Owned
<1>6. Links(u)'
  <2>1. \A k \in 1..Len(added) : Seen(added[k])'.next = Seen(added[k]).next
    BY <1>1, <1>2, <1>4, AddedType DEF Seen
  <2> QED
    BY <1>1, <1>2, <2>1, LinksStay
<1>7. RegisterTypes(u)' /\ Walk'
  <2>1. "RUN" \in reg' => fetch' \in Nodes(u)
    BY <1>1, <1>3, <1>5 DEF MemoryTypes
  <2>2. reg' \subseteq reg
    BY <1>5
  <2> QED
    BY <1>1, <1>2, <2>1, <2>2 DEF RegisterTypes, Walk, MayRun
<1> QED
  BY <1>2, <1>3, <1>4, <1>5, <1>6, <1>7 DEF ListInv

\* What the interrupt routine does to a run: nothing, or it starts it again at
\* the root, when the run has ended between its read of the control register
\* and its write.
LEMMA IsrFacts ==
  ASSUME NEW u \in Uses, Prefetcher(u)!Isr
  PROVE  /\ UNCHANGED <<mem, cache, dirty, list, added, ptr, p_ctl, mode, p_pc, at, count>>
         /\ MayRun' => MayRun
         /\ \/ UNCHANGED <<fetch, executed>> /\ ("RUN" \in reg' => "RUN" \in reg)
            \/ MayRun /\ fetch' = ptr /\ executed' = <<>>
<1>1. UNCHANGED <<mem, cache, dirty, list, added, ptr, p_ctl, mode, p_pc, at, count>>
  BY DEF Prefetcher!Isr, Prefetcher!IsrRead, Prefetcher!IsrWrite, Prefetcher!memVars,
         Prefetcher!hwVars, Prefetcher!threadVars
<1>2. ASSUME NEW from, NEW to, NEW bits, Prefetcher(u)!IsrRead(from, to, bits),
             "RUN" \in bits => "RUN" \in reg
      PROVE  (MayRun' => MayRun) /\ UNCHANGED <<fetch, executed, reg>>
  BY <1>2 DEF Prefetcher!IsrRead, Prefetcher!hwVars, MayRun
<1>3. ASSUME NEW from \in {"mask", "unmask"}, NEW to \in {"callback", "off"}, NEW status,
             Prefetcher(u)!IsrWrite(from, to, status)
      PROVE  /\ MayRun' => MayRun
             /\ \/ UNCHANGED <<fetch, executed>> /\ ("RUN" \in reg' => "RUN" \in reg)
                \/ MayRun /\ fetch' = ptr /\ executed' = <<>>
  BY <1>3 DEF Prefetcher!IsrWrite, Prefetcher!WriteControl, MayRun
<1> QED
  BY <1>1, <1>2, <1>3 DEF Prefetcher!Isr

\* Every step of a use keeps the list.
LEMMA ListStep ==
  ASSUME NEW u \in Uses, ListInv(u), Prefetcher(u)!Next
  PROVE  ListInv(u)'
<1>1. CASE Prefetcher(u)!Build
  <2>1. p_pc = "idle"
    BY <1>1 DEF Prefetcher!Build
  <2>2. \/ \E d \in Nodes(u) : Prefetcher(u)!ConstructDescriptor(d)
        \/ \E d \in Nodes(u) \cup {NULL} : Prefetcher(u)!AddToList(d)
    BY <1>1, UseConstants DEF Prefetcher!Build, Prefetcher!NULL, NULL
  <2> QED
    BY <2>1, <2>2, ConstructStep, AddStep
<1>2. CASE Prefetcher(u)!StartCall
  BY <1>2, ControlStep
<1>3. CASE Prefetcher(u)!Thread
  BY <1>3, OwnStep, FlushStep, ControlStep DEF Prefetcher!Thread
<1>4. CASE Prefetcher(u)!Hw \/ Prefetcher(u)!Isr
  BY <1>4, HwStep, IsrStep
<1>5. CASE \E d \in Prefetcher(u)!Desc : Prefetcher(u)!Evict(d)
  BY <1>5, UseConstants, FlushStep
<1> QED
  BY <1>1, <1>2, <1>3, <1>4, <1>5 DEF Prefetcher!Next

\* In order, the list is the descriptors 1, 2, ... of the array.
LEMMA InArrayOrder ==
  ASSUME NEW u \in Uses, Links(u), Call
  PROVE  /\ Len(added) \in Nat /\ Len(added) <= Num(u)
         /\ \A d \in 1..Len(added) : d \in Nodes(u) /\ Seen(d).next = After(d)
         /\ Len(added) > 0 => list = 1
<1>1. Len(added) \in Nat /\ \A i \in 1..Len(added) : added[i] \in Nodes(u) /\ After(i) \in 1..Len(added)
  BY AddedType
<1>2. \A i \in 1..Len(added) : added[i] = i
  BY DEF Call
<1>3. \A d \in 1..Len(added) : d \in Nodes(u) /\ Seen(d).next = After(d)
  BY <1>1, <1>2 DEF Links
<1>4. Len(added) <= Num(u)
  BY <1>1, <1>3, UseConstants DEF Nodes
<1>5. Len(added) > 0 => list = 1
  BY <1>1, <1>2 DEF Links
<1> QED
  BY <1>1, <1>3, <1>4, <1>5

\* Building the list.
LEMMA BuildKeepsRuns ==
  ASSUME NEW u \in Uses \ {"build"}, RunInv(u), Prefetcher(u)!Build
  PROVE  Call' /\ HwInv(u)'
<1>1. ListInv(u) /\ Call /\ HwInv(u) /\ Links(u)
  BY DEF RunInv, ListInv
<1>2. p_pc = "idle" /\ p_isr = "off"
  BY DEF Prefetcher!Build
<1>3. Len(added) \in Nat
  BY <1>1, InArrayOrder
<1>4. ASSUME NEW d \in Nodes(u), Prefetcher(u)!ConstructDescriptor(d) PROVE Call' /\ HwInv(u)'
  <2>1. /\ mem' = mem /\ p_pc' = "idle" /\ \A i \in 1..Len(added) : added[i] # d
        /\ \A e \in Nodes(u) \ {d} : Seen(e)' = Seen(e)
        /\ ~Owned(Seen(d)')
        /\ UNCHANGED <<list, added, reg, ptr, fetch, executed, p_isr, tmp>>
    BY <1>1, <1>2, <1>4, ConstructStep
  <2>2. Call'
    BY <1>1, <2>1 DEF Call
  <2>3. MayRun' <=> MayRun
    BY <2>1 DEF MayRun
  <2>4. \A e \in 1..Len(added) : e \in Nodes(u) /\ e # d
    BY <1>1, <2>1, InArrayOrder DEF Call
  <2>5. MayRun' => \A e \in 1..Len(added) : mem'[e].next = Seen(e)'.next
    BY <1>1, <2>1, <2>3, <2>4 DEF HwInv
  <2>6. \A e \in Nodes(u) : Owned(mem'[e]) \/ Owned(Seen(e)') => e < Len(added)
    BY <1>1, <2>1 DEF HwInv
  <2> QED
    BY <1>1, <2>1, <2>2, <2>3, <2>5, <2>6 DEF HwInv
<1>5. ASSUME NEW d \in Nodes(u) \cup {NULL}, Prefetcher(u)!AddToList(d), "RUN" \notin reg,
             d # NULL => d = Len(added) + 1 \/ \E i \in 1..Len(added) : added[i] = d
      PROVE  Call' /\ HwInv(u)'
  <2>1. /\ mem' = mem /\ p_pc' = "idle"
        /\ UNCHANGED <<reg, ptr, fetch, executed, p_isr, tmp>>
        /\ \A e \in Nodes(u) : Owned(Seen(e)') <=> Owned(Seen(e))
        /\ \/ UNCHANGED <<added, list, cache, dirty>>
           \/ /\ added' = Append(added, d) /\ d \in Nodes(u)
              /\ \A i \in 1..Len(added) : added[i] # d
    BY <1>1, <1>2, <1>5, AddStep
  <2>2. ~MayRun'
    BY <1>2, <1>5, <2>1 DEF MayRun
  <2>3. /\ Len(added') \in Nat /\ Len(added') >= Len(added)
        /\ \A i \in 1..Len(added') : added'[i] = i
    <3>1. CASE added' = added
      BY <1>1, <1>3, <3>1 DEF Call
    <3>2. CASE added' = Append(added, d) /\ d \in Nodes(u) /\ \A i \in 1..Len(added) : added[i] # d
      <4>1. d = Len(added) + 1
        BY <1>5, <3>2, UseConstants
      <4>2. /\ Len(added') = Len(added) + 1 /\ added'[Len(added) + 1] = d
            /\ \A i \in 1..Len(added) : added'[i] = added[i]
        BY <1>1, <3>2, AppendProperties DEF Links
      <4> QED
        BY <1>1, <1>3, <4>1, <4>2 DEF Call
    <3> QED
      BY <2>1, <3>1, <3>2
  <2>4. Call'
    BY <2>1, <2>3 DEF Call
  <2>5. \A e \in Nodes(u) : Owned(mem'[e]) \/ Owned(Seen(e)') => e < Len(added')
    BY <1>1, <1>3, <2>1, <2>3, UseConstants DEF HwInv, Nodes
  <2>6. Len(executed) = 0 \/ Len(executed) < Len(added')
    <3>1. Len(executed) \in Nat
      BY <1>1, LenProperties DEF HwInv
    <3> QED
      BY <1>1, <1>3, <2>3, <3>1 DEF HwInv
  <2> QED
    BY <1>1, <1>5, <2>1, <2>2, <2>4, <2>5, <2>6 DEF HwInv
<1>6. ASSUME NEW d \in Prefetcher(u)!Desc \cup {Prefetcher(u)!NULL},
             TRUE /\ d # Prefetcher(u)!NULL => d = Len(added) + 1 \/ d \in Prefetcher(u)!Range(added),
             "RUN" \notin reg, Prefetcher(u)!AddToList(d)
      PROVE  Call' /\ HwInv(u)'
  <2>1. DOMAIN added = 1..Len(added)
    BY <1>1, LenProperties DEF Links
  <2>2. d \in Nodes(u) \cup {NULL}
    BY UseConstants DEF Prefetcher!NULL, NULL
  <2>3. d # NULL => d = Len(added) + 1 \/ \E i \in 1..Len(added) : added[i] = d
    BY <1>6, <2>1 DEF Prefetcher!NULL, NULL, Prefetcher!Range
  <2> QED
    BY <1>5, <1>6, <2>2, <2>3
<1>7. u # "build"
  OBVIOUS
<1> QED
  BY <1>4, <1>6, <1>7, UseConstants DEF Prefetcher!Build

\* What a step that moves no descriptor and starts no run must show.
LEMMA RunsStay ==
  ASSUME NEW u \in Uses, HwInv(u), added' = added,
         \A d \in Nodes(u) : Owned(mem'[d]) \/ Owned(Seen(d)') => d < Len(added),
         MayRun' => MayRun /\ ptr' = ptr,
         MayRun' => \A d \in 1..Len(added) : mem'[d].next = Seen(d)'.next,
         \/ executed' = executed /\ ("RUN" \in reg' => "RUN" \in reg /\ fetch' = fetch)
         \/ MayRun /\ fetch' = ptr /\ executed' = <<>>
  PROVE  HwInv(u)'
<1>1. executed' \in Seq(Nodes(u)) /\ \A i \in 1..Len(executed') : executed'[i] = i
  <2>1. <<>> \in Seq(Nodes(u)) /\ Len(<<>>) = 0
    BY EmptySeq
  <2>2. CASE executed' = executed
    BY <2>2 DEF HwInv
  <2>3. CASE executed' = <<>>
    BY <2>1, <2>3
  <2> QED
    BY <2>2, <2>3
<1>2. Len(executed') = 0 \/ Len(executed') < Len(added)
  BY EmptySeq DEF HwInv
<1>3. "RUN" \in reg' => fetch' = Len(executed') + 1 /\ fetch' <= Len(added)
  <2>1. CASE executed' = executed /\ ("RUN" \in reg' => "RUN" \in reg /\ fetch' = fetch)
    BY <2>1 DEF HwInv
  <2>2. CASE MayRun /\ fetch' = ptr /\ executed' = <<>>
    <3>1. ptr = 1 /\ Len(added) > 0 /\ added' = added
      BY <2>2 DEF HwInv
    <3>2. Len(executed') = 0
      BY <2>2, EmptySeq
    <3>3. Len(added) >= 1
      BY <3>1 DEF HwInv
    <3> QED
      BY <2>2, <3>1, <3>2, <3>3
  <2> QED
    BY <2>1, <2>2
<1> QED
  BY <1>1, <1>2, <1>3 DEF HwInv

\* Marking owners, flushing and evicting.
LEMMA MemoryKeepsRuns ==
  ASSUME NEW u \in Uses \ {"build"}, RunInv(u),
         \/ Prefetcher(u)!SetOwn \/ Prefetcher(u)!Flush
         \/ \E d \in Nodes(u) : Prefetcher(u)!Evict(d)
  PROVE  Call' /\ HwInv(u)'
<1>1. ListInv(u) /\ Call /\ HwInv(u) /\ Links(u) /\ u \in Uses /\ MemoryTypes(u)
  BY DEF RunInv, ListInv
<1>2. /\ Len(added) \in Nat /\ Len(added) > 0 => list = 1
      /\ \A d \in 1..Len(added) : d \in Nodes(u) /\ Seen(d).next = After(d)
  BY <1>1, InArrayOrder
<1>3. CASE Prefetcher(u)!SetOwn
  <2>1. /\ ListInv(u)' /\ mem' = mem /\ dirty' = dirty \cup {at} /\ at \in Nodes(u)
        /\ \A e \in Nodes(u) : /\ Seen(e)'.next = Seen(e).next
                               /\ e # at => Seen(e)' = Seen(e)
        /\ Seen(at).next = list /\ mode.sw => ~Owned(cache'[at])
        /\ p_pc' = IF Seen(at).next # list THEN "own" ELSE IF mode.flush THEN "flush" ELSE "check"
        /\ at' = Seen(at).next /\ count' = count + 1
        /\ UNCHANGED <<list, added, reg, ptr, fetch, executed, p_isr, tmp, p_ctl, mode>>
        /\ p_isr = "off" /\ p_pc = "own"
    BY <1>1, <1>3, OwnStep
  <2>2. /\ mode.sw /\ mode.flush /\ mode \in Recommended
        /\ count \in Nat /\ at = count + 1 /\ at <= Len(added)
    BY <1>1, <2>1 DEF Call, Recommended
  <2>3. at \in 1..Len(added) /\ list = 1 /\ Seen(at).next = After(at)
    BY <1>2, <2>2
  <2>4. (Seen(at).next = list) <=> at = Len(added)
    BY <1>2, <2>2, <2>3 DEF After
  <2>5. \A d \in Nodes(u) : d = at => Seen(d)' = cache'[at]
    BY <2>1 DEF Seen
  <2>6. \A d \in Nodes(u) : Owned(mem'[d]) \/ Owned(Seen(d)') => d < Len(added)
    <3> SUFFICES ASSUME NEW d \in Nodes(u), Owned(mem[d]) \/ Owned(Seen(d)') PROVE d < Len(added)
      BY <2>1
    <3>1. CASE d # at
      BY <1>1, <2>1, <3>1 DEF HwInv
    <3>2. CASE d = at
      <4>1. CASE at # Len(added)
        BY <1>2, <2>2, <3>2, <4>1
      <4>2. CASE at = Len(added)
        BY <1>1, <2>1, <2>2, <2>4, <2>5, <3>2, <4>2 DEF HwInv
      <4> QED
        BY <4>1, <4>2
    <3> QED
      BY <3>1, <3>2
  <2>7. MayRun' <=> MayRun
    BY <2>1 DEF MayRun
  <2>8. MayRun => \A d \in 1..Len(added) : mem'[d].next = Seen(d)'.next
    BY <1>1, <1>2, <2>1 DEF HwInv
  <2>9. HwInv(u)'
    BY <1>1, <2>1, <2>6, <2>7, <2>8, RunsStay
  <2>10. Call'
    <3>1. CASE at = Len(added)
      <4>1. p_pc' = "flush" /\ count' = Len(added)
        BY <2>1, <2>2, <2>4, <3>1
      <4> QED
        BY <1>1, <2>1, <2>2, <4>1 DEF Call
    <3>2. CASE at # Len(added)
      <4>1. p_pc' = "own" /\ at' = at + 1 /\ at + 1 <= Len(added)
        BY <1>2, <2>1, <2>2, <2>3, <2>4, <3>2 DEF After
      <4> QED
        BY <1>1, <2>1, <2>2, <4>1 DEF Call
    <3> QED
      BY <3>1, <3>2
  <2> QED
    BY <2>9, <2>10
<1>4. CASE Prefetcher(u)!Flush \/ \E d \in Nodes(u) : Prefetcher(u)!Evict(d)
  <2>1. /\ dirty' \subseteq dirty
        /\ \A e \in Nodes(u) : /\ Seen(e)' = Seen(e)
                               /\ mem'[e] = mem[e] \/ mem'[e] = Seen(e)
        /\ \/ /\ p_pc = "flush" /\ p_pc' = "check"
              /\ \A e \in Nodes(u) : e \in list .. list + count - 1 => e \notin dirty'
           \/ UNCHANGED p_pc
        /\ UNCHANGED <<list, added, reg, ptr, fetch, executed, p_isr, tmp, p_ctl, mode, at, count>>
    BY <1>1, <1>4, FlushStep
  <2>2. \A d \in Nodes(u) : Owned(mem'[d]) \/ Owned(Seen(d)') => d < Len(added)
    BY <1>1, <2>1 DEF HwInv
  <2>3. MayRun' <=> MayRun
    BY <2>1 DEF MayRun
  <2>4. MayRun => \A d \in 1..Len(added) : mem'[d].next = Seen(d)'.next
    BY <1>1, <1>2, <2>1 DEF HwInv
  <2>5. HwInv(u)'
    BY <1>1, <2>1, <2>2, <2>3, <2>4, RunsStay
  <2>6. p_pc' \in {"check", "control", "run"} => \A d \in 1..Len(added) : d \notin dirty'
    <3>1. CASE UNCHANGED p_pc
      BY <1>1, <2>1, <3>1 DEF Call
    <3>2. CASE p_pc = "flush" /\ \A e \in Nodes(u) : e \in list .. list + count - 1 => e \notin dirty'
      <4>1. count = Len(added)
        BY <1>1, <3>2 DEF Call
      <4>2. \A d \in 1..Len(added) : d \in list .. list + count - 1
        BY <1>2, <4>1
      <4> QED
        BY <1>2, <3>2, <4>2
    <3> QED
      BY <2>1, <3>1, <3>2
  <2>7. Call'
    BY <1>1, <2>1, <2>3, <2>6 DEF Call
  <2> QED
    BY <2>5, <2>7
<1> QED
  BY <1>3, <1>4

\* The calls' steps on the registers.
LEMMA ControlKeepsRuns ==
  ASSUME NEW u \in Uses \ {"build"}, RunInv(u),
         \/ Prefetcher(u)!StartCall \/ Prefetcher(u)!CheckRun
         \/ Prefetcher(u)!SetControl \/ Prefetcher(u)!Run
  PROVE  Call' /\ HwInv(u)'
<1>1. ListInv(u) /\ Call /\ HwInv(u) /\ Links(u) /\ u \in Uses /\ RegisterTypes(u) /\ Walk
  BY DEF RunInv, ListInv
<1>2. /\ Len(added) \in Nat /\ Len(added) > 0 => list = 1
      /\ \A d \in 1..Len(added) : d \in Nodes(u)
  BY <1>1, InArrayOrder
<1>3. /\ UNCHANGED <<mem, cache, dirty, list, added, tmp>> /\ p_isr = "off" /\ p_isr' = p_isr
  BY DEF Prefetcher!StartCall, Prefetcher!CheckRun, Prefetcher!SetControl, Prefetcher!Run,
         Prefetcher!Reply, Prefetcher!memVars, Prefetcher!hwVars
<1>4. \A d : Seen(d)' = Seen(d)
  BY <1>1, <1>3, MemoryAlone
<1>5. /\ \A d \in Nodes(u) : Owned(mem'[d]) \/ Owned(Seen(d)') => d < Len(added)
      /\ MayRun => \A d \in 1..Len(added) : mem'[d].next = Seen(d)'.next
  BY <1>1, <1>3, <1>4 DEF HwInv
<1>6. (MayRun <=> "RUN" \in reg) /\ (MayRun' <=> "RUN" \in reg')
  BY <1>3 DEF MayRun
<1>7. ASSUME UNCHANGED <<fetch, executed, ptr>>, "RUN" \in reg' => "RUN" \in reg PROVE HwInv(u)'
  BY <1>1, <1>3, <1>5, <1>6, <1>7, RunsStay
<1>8. CASE Prefetcher(u)!StartCall
  <2>1. UNCHANGED <<fetch, executed, ptr, reg>>
    BY <1>8 DEF Prefetcher!StartCall, Prefetcher!Reply, Prefetcher!hwVars
  <2>2. HwInv(u)'
    BY <1>7, <2>1
  <2>3. CASE list = NULL
    <3>1. p_pc' = "idle"
      BY <1>8, <2>3 DEF Prefetcher!StartCall, Prefetcher!Reply, Prefetcher!NULL, NULL
    <3> QED
      BY <1>1, <1>3, <2>2, <3>1 DEF Call
  <2>4. CASE list # NULL
    <3>1. p_pc' = "own" /\ at' = list /\ count' = 0 /\ mode' \in Recommended
      BY <1>8, <2>4 DEF Prefetcher!StartCall, Prefetcher!NULL, NULL
    <3>2. Len(added) > 0 /\ list = 1
      BY <1>1, <1>2, <2>4 DEF Links
    <3> QED
      BY <1>1, <1>2, <1>3, <2>2, <3>1, <3>2 DEF Call
  <2> QED
    BY <2>3, <2>4
<1>9. CASE Prefetcher(u)!CheckRun
  <2>1. UNCHANGED <<fetch, executed, ptr, reg, mode, at, count>> /\ p_pc = "check"
    BY <1>9 DEF Prefetcher!CheckRun, Prefetcher!Reply, Prefetcher!hwVars
  <2>2. p_pc' = "idle" \/ (p_pc' = "control" /\ "RUN" \notin reg)
    BY <1>9 DEF Prefetcher!CheckRun, Prefetcher!Reply
  <2>3. HwInv(u)'
    BY <1>7, <2>1
  <2>4. Call'
    BY <1>1, <1>3, <1>6, <2>1, <2>2 DEF Call
  <2> QED
    BY <2>3, <2>4
<1>10. CASE Prefetcher(u)!SetControl
  <2>1. /\ p_pc = "control" /\ p_pc' = "run" /\ UNCHANGED <<ptr, mode, at, count>>
        /\ p_ctl' \in {p_ctl \cup {"GIE"}, p_ctl \ {"GIE"}}
        /\ Prefetcher(u)!WriteControl(p_ctl', ptr)
    BY <1>10 DEF Prefetcher!SetControl
  <2>2. p_ctl' \in SUBSET Bits /\ "RUN" \notin p_ctl'
    BY <1>1, <2>1 DEF RegisterTypes, Bits, Walk
  <2>3. reg' = p_ctl' /\ UNCHANGED <<fetch, executed>>
    BY <1>1, <2>1, <2>2, ControlWritten
  <2>4. HwInv(u)'
    BY <1>7, <2>1, <2>2, <2>3
  <2>5. Call'
    BY <1>1, <1>3, <1>6, <2>1, <2>2, <2>3 DEF Call
  <2> QED
    BY <2>4, <2>5
<1>11. CASE Prefetcher(u)!Run
  <2>1. /\ p_pc = "run" /\ p_pc' = "idle" /\ ptr' = list
        /\ Prefetcher(u)!WriteControl((p_ctl \ {"PARK", "POLL"}) \cup Prefetcher(u)!ModeBits \cup {"RUN"}, list)
    BY <1>11 DEF Prefetcher!Run, Prefetcher!Root
  <2>2. Len(added) > 0 /\ list = 1 /\ "RUN" \notin reg
    BY <1>1, <1>2, <1>6, <2>1 DEF Walk, Call
  <2>3. (p_ctl \ {"PARK", "POLL"}) \cup Prefetcher(u)!ModeBits \cup {"RUN"} \in SUBSET Bits
    BY <1>1 DEF RegisterTypes, Bits, Prefetcher!ModeBits
  <2>4. list \in Nodes(u)
    BY <1>2, <2>2
  <2>5. fetch' = 1 /\ executed' = <<>>
    BY <1>1, <2>1, <2>2, <2>3, <2>4, ControlWritten
  <2>6. \A d \in 1..Len(added) : mem'[d].next = Seen(d)'.next
    BY <1>1, <1>3, <1>4, <2>1 DEF Call, Seen
  <2>7. Len(executed') = 0 /\ executed' \in Seq(Nodes(u)) /\ Len(added) >= 1
    BY <1>2, <2>2, <2>5, EmptySeq
  <2>8. HwInv(u)'
    BY <1>3, <1>5, <2>1, <2>2, <2>5, <2>6, <2>7 DEF HwInv
  <2>9. Call'
    BY <1>1, <1>3, <2>1 DEF Call
  <2> QED
    BY <2>8, <2>9
<1> QED
  BY <1>8, <1>9, <1>10, <1>11

\* The hardware and the interrupt routine.
LEMMA HardwareKeepsRuns ==
  ASSUME NEW u \in Uses \ {"build"}, RunInv(u), Prefetcher(u)!Hw \/ Prefetcher(u)!Isr
  PROVE  Call' /\ HwInv(u)'
<1>1. ListInv(u) /\ Call /\ HwInv(u) /\ Links(u) /\ u \in Uses
  BY DEF RunInv, ListInv
<1>2. /\ Len(added) \in Nat
      /\ \A d \in 1..Len(added) : d \in Nodes(u) /\ Seen(d).next = After(d)
  BY <1>1, InArrayOrder
<1>3. CASE Prefetcher(u)!Hw
  <2>1. /\ UNCHANGED <<cache, dirty, list, added, ptr, p_isr, tmp, p_ctl, mode, p_pc, at, count>>
        /\ \A d \in Nodes(u) : /\ mem'[d].next = mem[d].next /\ Seen(d)'.next = Seen(d).next
                               /\ Owned(mem'[d]) => Owned(mem[d])
                               /\ Owned(Seen(d)') => Owned(Seen(d))
        /\ \/ /\ "RUN" \in reg /\ reg' = reg /\ fetch \in Nodes(u) /\ Owned(mem[fetch])
              /\ executed' = Append(executed, fetch) /\ fetch' = mem[fetch].next
           \/ "RUN" \notin reg' /\ executed' = executed
    BY <1>1, <1>3, HwStep
  <2>2. \A d \in Nodes(u) : Owned(mem'[d]) \/ Owned(Seen(d)') => d < Len(added)
    BY <1>1, <2>1 DEF HwInv
  <2>3. MayRun' => MayRun
    BY <2>1 DEF MayRun
  <2>4. MayRun => \A d \in 1..Len(added) : mem'[d].next = Seen(d)'.next
    BY <1>1, <1>2, <2>1 DEF HwInv
  <2>5. Call'
    BY <1>1, <2>1, <2>3 DEF Call
  <2>6. CASE "RUN" \notin reg' /\ executed' = executed
    <3>1. HwInv(u)'
      BY <1>1, <2>1, <2>2, <2>3, <2>4, <2>6, RunsStay
    <3> QED
      BY <2>5, <3>1
  <2>7. CASE /\ "RUN" \in reg /\ reg' = reg /\ fetch \in Nodes(u) /\ Owned(mem[fetch])
             /\ executed' = Append(executed, fetch) /\ fetch' = mem[fetch].next
    <3>1. /\ MayRun /\ fetch < Len(added) /\ fetch = Len(executed) + 1
          /\ executed \in Seq(Nodes(u)) /\ \A i \in 1..Len(executed) : executed[i] = i
      BY <1>1, <2>7 DEF HwInv, MayRun
    <3>2. Len(executed) \in Nat
      BY <3>1, LenProperties
    <3>3. fetch \in 1..Len(added) /\ fetch' = fetch + 1
      <4>1. fetch \in 1..Len(added)
        BY <1>2, <3>1, <3>2
      <4>2. fetch' = After(fetch)
        BY <1>1, <1>2, <2>7, <3>1, <4>1 DEF HwInv
      <4> QED
        BY <1>2, <3>1, <4>1, <4>2 DEF After
    <3>4. /\ executed' \in Seq(Nodes(u)) /\ Len(executed') = Len(executed) + 1
          /\ executed'[Len(executed) + 1] = fetch
          /\ \A i \in 1..Len(executed) : executed'[i] = executed[i]
      BY <2>7, <3>1, AppendProperties
    <3>5. \A i \in 1..Len(executed') : executed'[i] = i
      BY <3>1, <3>2, <3>4
    <3>6. Len(executed') < Len(added) /\ fetch' = Len(executed') + 1 /\ fetch' <= Len(added)
      BY <1>2, <3>1, <3>2, <3>3, <3>4
    <3>7. HwInv(u)'
      BY <1>1, <2>1, <2>2, <2>3, <2>4, <3>1, <3>4, <3>5, <3>6 DEF HwInv
    <3> QED
      BY <2>5, <3>7
  <2> QED
    BY <2>1, <2>6, <2>7
<1>4. CASE Prefetcher(u)!Isr
  <2>1. /\ UNCHANGED <<mem, cache, dirty, list, added, ptr, p_ctl, mode, p_pc, at, count>>
        /\ MayRun' => MayRun
        /\ \/ UNCHANGED <<fetch, executed>> /\ ("RUN" \in reg' => "RUN" \in reg)
           \/ MayRun /\ fetch' = ptr /\ executed' = <<>>
    BY <1>1, <1>4, IsrFacts
  <2>2. \A d : Seen(d)' = Seen(d)
    BY <2>1 DEF Seen
  <2>3. \A d \in Nodes(u) : Owned(mem'[d]) \/ Owned(Seen(d)') => d < Len(added)
    BY <1>1, <2>1, <2>2 DEF HwInv
  <2>4. MayRun => \A d \in 1..Len(added) : mem'[d].next = Seen(d)'.next
    BY <1>1, <2>1, <2>2 DEF HwInv
  <2>5. HwInv(u)'
    BY <1>1, <2>1, <2>3, <2>4, RunsStay
  <2>6. Call'
    BY <1>1, <2>1 DEF Call
  <2> QED
    BY <2>5, <2>6
<1> QED
  BY <1>3, <1>4

\* Steps of nobody.
LEMMA PrefetcherStutters ==
  ASSUME NEW u, UNCHANGED <<mem, cache, dirty, list, added, reg, ptr, fetch, executed, p_isr, tmp,
                            p_pc, at, count, mode, p_ctl, p_ret>>
  PROVE  (ListInv(u) => ListInv(u)') /\ (RunInv(u) => RunInv(u)')
<1>1. ListInv(u) => ListInv(u)'
  BY DEF ListInv, MemoryTypes, RegisterTypes, Links, Walk, Seen, MayRun, After
<1>2. Call /\ HwInv(u) => Call' /\ HwInv(u)'
  BY DEF Call, HwInv, Seen, MayRun
<1> QED
  BY <1>1, <1>2 DEF RunInv

\* Every step of a use with the recommended start.
LEMMA RunStep ==
  ASSUME NEW u \in Uses \ {"build"}, RunInv(u), Prefetcher(u)!Next
  PROVE  RunInv(u)'
<1>1. ListInv(u)' /\ Prefetcher(u)!Desc = Nodes(u)
  BY ListStep, UseConstants DEF RunInv
<1>2. Call' /\ HwInv(u)'
  BY <1>1, BuildKeepsRuns, MemoryKeepsRuns, ControlKeepsRuns, HardwareKeepsRuns
     DEF Prefetcher!Next, Prefetcher!Thread
<1> QED
  BY <1>1, <1>2 DEF RunInv

\* After alt_msgdma_init there is no list and nothing runs.
LEMMA RunInit ==
  ASSUME NEW u \in Uses, Prefetcher(u)!Init
  PROVE  RunInv(u)
<1> DEFINE blank == [next |-> NULL, control |-> {}, length |-> 0]
<1>1. /\ mem = [d \in Nodes(u) |-> blank] /\ cache = mem /\ dirty = {}
      /\ list = NULL /\ added = <<>> /\ reg = {} /\ ptr = NULL /\ executed = <<>>
      /\ p_isr = "off" /\ tmp = {} /\ p_pc = "idle" /\ p_ctl = {} /\ p_ret = "none"
  BY UseConstants DEF Prefetcher!Init, Prefetcher!Blank, Prefetcher!NULL, NULL
<1>2. blank \in NodeType(u) /\ ~Owned(blank)
  BY UseConstants DEF NodeType, Owned
<1> HIDE DEF blank
<1>3. added \in Seq(Nodes(u)) /\ executed \in Seq(Nodes(u)) /\ Len(added) = 0 /\ Len(executed) = 0
  BY <1>1, EmptySeq
<1>4. \A d \in Nodes(u) : mem[d] = blank /\ Seen(d) = blank
  BY <1>1 DEF Seen
<1>5. MemoryTypes(u)
  BY <1>1, <1>2, <1>4 DEF MemoryTypes
<1>6. ~MayRun /\ RegisterTypes(u)
  BY <1>1 DEF RegisterTypes, MayRun
<1>7. Links(u) /\ Walk
  BY <1>1, <1>3 DEF Links, Walk
<1>8. Call /\ HwInv(u)
  BY <1>1, <1>2, <1>3, <1>4, <1>6 DEF Call, HwInv
<1> QED
  BY <1>5, <1>6, <1>7, <1>8 DEF RunInv, ListInv

\* The links are well formed and close the cycle.
LEMMA ListIsFit ==
  ASSUME NEW u \in Uses, ListInv(u)
  PROVE  Prefetcher(u)!TypeOK /\ Prefetcher(u)!ListIsCycle
<1>1. MemoryTypes(u) /\ RegisterTypes(u) /\ Links(u)
  BY DEF ListInv
<1>2. Prefetcher(u)!Desc = Nodes(u) /\ NULL \notin Nodes(u)
  BY UseConstants
<1>3. \A d : Prefetcher(u)!View(d) = Seen(d)
  BY DEF Prefetcher!View, Seen
<1>4. \A d \in Nodes(u) : Seen(d) \in Prefetcher(u)!PrefetcherDescriptor(Nodes(u) \cup {NULL})
  BY <1>1, SeenType DEF NodeType, Prefetcher!PrefetcherDescriptor, ControlBits, Prefetcher!ControlBits
<1>5. list \in Nodes(u) \cup {NULL}
  <2>1. Len(added) \in Nat /\ \A i \in 1..Len(added) : added[i] \in Nodes(u)
    BY <1>1, AddedType
  <2>2. Len(added) # 0 => added[1] \in Nodes(u)
    BY <2>1
  <2> QED
    BY <1>1, <2>2 DEF Links
<1>6. Prefetcher(u)!TypeOK
  BY <1>1, <1>2, <1>3, <1>4, <1>5
     DEF Prefetcher!TypeOK, RegisterTypes, MemoryTypes, Bits, Prefetcher!NULL, NULL
<1>7. Prefetcher(u)!ListIsCycle
  BY <1>1, <1>3 DEF Prefetcher!ListIsCycle, Links, After
<1> QED
  BY <1>6, <1>7

\* What has been executed is the list up to there, in memory as it was
\* written when the run began.
LEMMA RunIsInOrder ==
  ASSUME NEW u \in Uses \ {"build"}, RunInv(u)
  PROVE  /\ Prefetcher(u)!RunsInListOrder /\ Prefetcher(u)!LastNotExecuted
         /\ Prefetcher(u)!FlushedBeforeRun
<1>1. Call /\ HwInv(u) /\ Links(u) /\ u \in Uses
  BY DEF RunInv, ListInv
<1>2. Len(added) \in Nat /\ added \in Seq(Nodes(u)) /\ DOMAIN added = 1..Len(added)
  BY <1>1, InArrayOrder, LenProperties DEF Links
<1>3. /\ executed \in Seq(Nodes(u)) /\ Len(executed) \in Nat
      /\ DOMAIN executed = 1..Len(executed)
  BY <1>1, LenProperties DEF HwInv
<1>4. Len(executed) <= Len(added) /\ \A i \in 1..Len(executed) : executed[i] = i
  BY <1>1, <1>2, <1>3 DEF HwInv
<1>5. \A i \in 1..Len(added) : added[i] = i
  BY <1>1 DEF Call
<1>6. executed = SubSeq(added, 1, Len(executed))
  <2>1. \A i \in 1..Len(executed) : executed[i] = added[i]
    BY <1>2, <1>3, <1>4, <1>5
  <2>2. SubSeq(added, 1, Len(executed)) = [i \in 1..Len(executed) |-> added[i]]
    BY <1>2, <1>3, <1>4
  <2>3. executed = [i \in 1..Len(executed) |-> executed[i]]
    BY <1>3
  <2> QED
    BY <2>1, <2>2, <2>3
<1>7. Prefetcher(u)!LastNotExecuted
  <2>1. \A i \in 1..Len(executed) : executed[i] = i /\ i < Len(added)
    BY <1>1, <1>2, <1>3 DEF HwInv
  <2>2. \A i \in 1..Len(executed) : executed[i] # added[Len(added)]
    BY <1>2, <1>5, <2>1
  <2> QED
    BY <2>2 DEF Prefetcher!LastNotExecuted
<1>8. Prefetcher(u)!FlushedBeforeRun
  BY <1>1, <1>2, <1>5 DEF Prefetcher!FlushedBeforeRun, Prefetcher!Range, Call
<1> QED
  BY <1>4, <1>6, <1>7, <1>8 DEF Prefetcher!RunsInListOrder

----------------------------------------------------------------------------
(* Extended descriptors (use "async").                                     *)

AsyncDescriptor == [id : Nat, addr : Nat, d : ExtendedDescriptor, async : BOOLEAN]

\* The descriptors that the hardware and the call under way hold.
AsyncFits ==
  /\ fifo \in Seq(AsyncDescriptor)
  /\ made \in Nat /\ stage \in Nat /\ callback \in BOOLEAN
  /\ desc.id \in Nat /\ (desc # None => desc.d \in ExtendedDescriptor)
  /\ pc = "go" => desc # None

\* What the constructors make for hardware with the enhanced features.
LEMMA AsyncConstructFits ==
  ASSUME NEW r \in TransferRequest, NEW d \in Async!Construct(r)
  PROVE  d \in ExtendedDescriptor
<1> USE DescriptorAssumption DEF TransferRequest
<1>1. PICK q \in {st_to_mm(r), mm_to_st(r), mm_to_mm(r)} :
         d \in Async!construct_standard_descriptor(q) \cup Async!construct_extended_descriptor(q)
  BY DEF Async!Construct, Async!st_to_mm, Async!mm_to_st, Async!mm_to_mm, Async!NULL, NULL,
         st_to_mm, mm_to_st, mm_to_mm
<1>2. q \in TransferRequest
  BY <1>1, DirectionsAreRequests
<1>3. q.control \cup {"GO"} \in SUBSET ControlBits
  BY <1>2 DEF ControlBits
<1>4. d \in Async!construct_extended_descriptor(q)
  BY <1>1 DEF Async!construct_standard_descriptor
<1>5. /\ d = [q EXCEPT !.control = q.control \cup {"GO"}]
      /\ ~(max_byte < q.length) /\ ~(max_stride < q.read_stride) /\ ~(max_stride < q.write_stride)
  BY <1>4 DEF Async!construct_extended_descriptor, Async!TooLong, Async!TooWide
<1>6. /\ q.length \in 0..max_byte /\ q.read_stride \in 0..max_stride
      /\ q.write_stride \in 0..max_stride
  BY <1>2, <1>5
<1> QED
  BY <1>2, <1>3, <1>5, <1>6 DEF ExtendedDescriptor

LEMMA AsyncFitsStep ==
  ASSUME AsyncFits, Async!Next
  PROVE  AsyncFits'
<1> USE MsgdmaAssumption
<1>1. CASE Async!HwIssue
  <2>1. Tail(fifo) \in Seq(AsyncDescriptor)
    BY <1>1, HeadTailProperties DEF AsyncFits, Async!HwIssue
  <2> QED
    BY <1>1, <2>1 DEF AsyncFits, Async!HwIssue, Async!threadVars
<1>2. CASE Async!HwDone
  BY <1>2 DEF AsyncFits, Async!HwDone, Async!threadVars
<1>3. CASE Async!IrqMask \/ Async!IrqUnmask
  BY <1>3 DEF AsyncFits, Async!IrqMask, Async!IrqUnmask, Async!threadVars
<1>4. CASE Async!IrqCallback
  <2>1. UNCHANGED <<callback, desc, pc>>
    BY <1>4 DEF Async!IrqCallback, Async!threadVars
  <2>2. CASE UNCHANGED <<stage, fifo, made>>
    BY <2>1, <2>2 DEF AsyncFits
  <2>3. CASE /\ \E r \in Requests : \E d \in Async!Construct(r) :
                  fifo' = Async!Push(made + 1, made + 1, d, TRUE)
             /\ made' = made + 1 /\ stage' = made + 1
    <3>1. PICK r \in Requests : \E d \in Async!Construct(r) :
                  fifo' = Async!Push(made + 1, made + 1, d, TRUE)
      BY <2>3
    <3>2. PICK d \in Async!Construct(r) : fifo' = Async!Push(made + 1, made + 1, d, TRUE)
      BY <3>1
    <3> DEFINE e == [id |-> made + 1, addr |-> made + 1, d |-> d, async |-> TRUE]
    <3>3. made + 1 \in Nat
      BY DEF AsyncFits
    <3>4. e \in AsyncDescriptor
      BY <3>2, <3>3, AsyncConstructFits DEF AsyncDescriptor
    <3>5. fifo' = fifo \/ fifo' = Append(fifo, e)
      BY <3>2 DEF Async!Push
    <3> HIDE DEF e
    <3>6. fifo' \in Seq(AsyncDescriptor)
      BY <3>4, <3>5, AppendProperties DEF AsyncFits
    <3> QED
      BY <2>1, <2>3, <3>3, <3>6 DEF AsyncFits
  <2> QED
    BY <1>4, <2>2, <2>3 DEF Async!IrqCallback
<1>5. CASE Async!CommitDescriptor
  <2>1. desc # None /\ desc.d \in ExtendedDescriptor /\ desc.id \in Nat /\ stage \in Nat
    BY <1>5 DEF AsyncFits, Async!CommitDescriptor
  <2> DEFINE async == call = "async" /\ callback
             e == [id |-> desc.id, addr |-> stage, d |-> desc.d, async |-> async]
  <2>2. e \in AsyncDescriptor
    BY <2>1 DEF AsyncDescriptor, AsyncFits
  <2>3. fifo' = fifo \/ fifo' = Append(fifo, e)
    BY <1>5 DEF Async!CommitDescriptor, Async!Push
  <2> HIDE DEF e
  <2>4. fifo' \in Seq(AsyncDescriptor)
    BY <2>2, <2>3, AppendProperties DEF AsyncFits
  <2> QED
    BY <1>5, <2>4 DEF AsyncFits, Async!CommitDescriptor, Async!Goto
<1>6. CASE Async!AsyncLevel \/ Async!SyncLevel \/ Async!SyncWait \/ Async!SyncEnd
           \/ Async!AsyncRun \/ Async!SyncRun \/ Async!AsyncStop \/ Async!SyncStop
  <2>1. UNCHANGED <<fifo, made, stage, callback, desc>> /\ (pc' = "go" => pc = "go")
    BY <1>6 DEF Async!AsyncLevel, Async!SyncLevel, Async!SyncWait, Async!SyncEnd, Async!AsyncRun,
       Async!SyncRun, Async!AsyncStop, Async!SyncStop, Async!StopDispatcher, Async!Return,
       Async!Goto, Async!Poll, Async!hwVars
  <2> QED
    BY <2>1 DEF AsyncFits
<1>7. CASE Async!AsyncPut \/ Async!SyncPut
  <2>1. /\ UNCHANGED <<fifo, made, callback, desc>> /\ stage' \in {stage, desc.id}
        /\ pc' = "go" => desc # None
    <3>1. Async!None = None
      BY DEF Async!None, None
    <3>2. Async!WriteDescriptor
      BY <1>7 DEF Async!AsyncPut, Async!SyncPut
    <3>3. pc = "put"
      BY <3>2 DEF Async!WriteDescriptor
    <3> QED
      BY <3>1, <3>2, <3>3 DEF Async!WriteDescriptor, Async!Return, Async!Goto, Async!Poll
  <2> QED
    BY <2>1 DEF AsyncFits
<1>8. CASE Async!AsyncCall \/ Async!SyncCall
  <2>1. PICK c \in {"async", "sync"} : Async!Begin(c)
    BY <1>8 DEF Async!AsyncCall, Async!SyncCall
  <2>2. pc' = "level" /\ UNCHANGED <<fifo, stage, callback>>
    BY <2>1 DEF Async!Begin, Async!hwVars
  <2>3. CASE /\ \E r \in Requests : \E d \in Async!Construct(r) :
                  desc' = [Async!None EXCEPT !.id = made + 1, !.d = d]
             /\ made' = made + 1
    <3>1. PICK r \in Requests : \E d \in Async!Construct(r) :
             desc' = [Async!None EXCEPT !.id = made + 1, !.d = d]
      BY <2>3
    <3>2. PICK d \in Async!Construct(r) : desc' = [Async!None EXCEPT !.id = made + 1, !.d = d]
      BY <3>1
    <3>3. desc'.id = made + 1 /\ desc'.d = d /\ d \in ExtendedDescriptor
      BY <3>2, AsyncConstructFits DEF Async!None
    <3> QED
      BY <2>2, <2>3, <3>3 DEF AsyncFits
  <2>4. CASE desc' = Async!None /\ UNCHANGED made
    <3>1. Async!None = None /\ None.id = 0
      BY DEF Async!None, None
    <3> QED
      BY <2>2, <2>4, <3>1 DEF AsyncFits
  <2> QED
    BY <2>1, <2>3, <2>4 DEF Async!Begin
<1>9. CASE Async!RegisterCallback
  BY <1>9 DEF Async!RegisterCallback
<1> QED
  BY <1>1, <1>2, <1>3, <1>4, <1>5, <1>6, <1>7, <1>8, <1>9
     DEF Async!Next, Async!Hw, Async!Isr, Async!Thread

----------------------------------------------------------------------------
(* The uses together.                                                      *)

DmaInv ==
  /\ use \in {"mixed", "async"} \cup Uses
  /\ use = "mixed" => IInv
  /\ use = "async" => AsyncFits
  /\ use \in Uses => ListInv(use)
  /\ use \in {"race", "start"} => RunInv(use)

\* Each use of the driver keeps its invariant, in dispatcher mode and with the
\* prefetcher (altera_msgdma.c).
THEOREM DmaInvariant == DmaSpec => []DmaInv
<1>1. DmaInit => DmaInv
  <2> SUFFICES ASSUME DmaInit PROVE DmaInv
    OBVIOUS
  <2>1. use \in {"mixed", "async"} \cup Uses /\ Init
    BY DEF DmaInit, Uses
  <2>2. IInv
    BY <2>1, InitIInv
  <2>3. AsyncFits
    BY <2>1, EmptySeq DEF Init, AsyncFits, None
  <2>4. use \in Uses => RunInv(use)
    <3>1. CASE use = "build"
      BY <3>1, RunInit DEF DmaInit, Uses
    <3>2. CASE use = "race" \/ use = "start"
      <4>1. RunInv("race")
        BY <3>2, RunInit DEF DmaInit, Uses
      <4>2. RunInv("start")
        BY <4>1 DEF RunInv, ListInv, MemoryTypes, RegisterTypes, Links, HwInv, NodeType, Nodes, Num
      <4> QED
        BY <3>2, <4>1, <4>2
    <3> QED
      BY <3>1, <3>2 DEF Uses
  <2> QED
    BY <2>1, <2>2, <2>3, <2>4 DEF DmaInv, RunInv, Uses
<1>2. DmaInv /\ [DmaNext]_dmaVars => DmaInv'
  <2> SUFFICES ASSUME DmaInv, [DmaNext]_dmaVars PROVE DmaInv'
    OBVIOUS
  <2>1. CASE UNCHANGED dmaVars
    <3>1. UNCHANGED <<vars, use, mem, cache, dirty, list, added, reg, ptr, p_irq, disp, fetch,
                      executed, p_isr, tmp, p_pc, at, count, mode, p_ctl, p_ret>>
      BY <2>1 DEF dmaVars, prefetcherVars
    <3>2. IInv => IInv'
      BY <3>1, MsgdmaStutters
    <3>3. AsyncFits => AsyncFits'
      BY <3>1 DEF AsyncFits, vars, hwVars, threadVars
    <3>4. \A u : (ListInv(u) => ListInv(u)') /\ (RunInv(u) => RunInv(u)')
      BY <3>1, PrefetcherStutters
    <3> QED
      BY <3>1, <3>2, <3>3, <3>4 DEF DmaInv
  <2>2. CASE MixedStep /\ UNCHANGED use
    <3>1. IInv' /\ use' = "mixed"
      BY <2>2, MsgdmaStep DEF MixedStep, DmaInv
    <3> QED
      BY <3>1 DEF DmaInv, Uses
  <2>3. CASE AsyncStep /\ UNCHANGED use
    <3>1. AsyncFits' /\ use' = "async"
      BY <2>3, AsyncFitsStep DEF AsyncStep, DmaInv
    <3> QED
      BY <3>1 DEF DmaInv, Uses
  <2>4. CASE BuildStep /\ UNCHANGED use
    <3>1. ListInv("build")' /\ use' = "build"
      BY <2>4, ListStep DEF BuildStep, DmaInv, Uses
    <3> QED
      BY <3>1 DEF DmaInv, Uses
  <2>5. CASE (RaceStep \/ StartStep) /\ UNCHANGED use
    <3>1. PICK u \in {"race", "start"} : use = u /\ Prefetcher(u)!Next
      BY <2>5 DEF RaceStep, StartStep
    <3>2. RunInv(u)' /\ use' = u
      BY <2>5, <3>1, RunStep DEF DmaInv, Uses
    <3> QED
      BY <3>2 DEF DmaInv, Uses, RunInv
  <2> QED
    BY <2>1, <2>2, <2>3, <2>4, <2>5 DEF DmaNext
<1> QED
  BY <1>1, <1>2, PTL DEF DmaSpec

\* With the recommended start, the hardware executes the list from its root in
\* order, whatever races the run: no descriptor is skipped, repeated or
\* foreign, the one left to software is never executed, and what the hardware
\* reads was flushed (alt_msgdma_start_prefetcher_with_list_addr).
THEOREM PrefetcherRunsInOrder == DmaSpec => []RunsInListOrder
<1>1. DmaInv => RunsInListOrder
  BY RunIsInOrder DEF DmaInv, RunsInListOrder, Uses
<1> QED
  BY <1>1, DmaInvariant, PTL

\* Every descriptor the hardware is handed is well formed: within the limits
\* and in the format of the hardware in dispatcher mode, for standard and for
\* extended descriptors, and linked into one cycle of what was added in
\* prefetcher mode, in any order of calls and for every kind of start.
THEOREM DescriptorsAreFit == DmaSpec => []DescriptorsFit
<1>1. DmaInv => DescriptorsFit
  <2> SUFFICES ASSUME DmaInv PROVE DescriptorsFit
    OBVIOUS
  <2>1. CASE use = "mixed"
    BY <2>1, WithinLimitsKept DEF DescriptorsFit, DmaInv
  <2>2. CASE use = "async"
    <3>1. Async!HwDescriptor = ExtendedDescriptor
      BY DEF Async!HwDescriptor, Async!ExtendedDescriptor, ExtendedDescriptor, Async!ControlBits,
             ControlBits
    <3>2. fifo \in Seq(AsyncDescriptor)
      BY <2>2 DEF DmaInv, AsyncFits
    <3>3. ASSUME NEW i \in DOMAIN fifo PROVE fifo[i].d \in ExtendedDescriptor
      <4>1. i \in 1..Len(fifo)
        BY <3>2, LenProperties
      <4>2. fifo[i] \in AsyncDescriptor
        BY <3>2, <4>1, ElementOfSeq
      <4> QED
        BY <4>2 DEF AsyncDescriptor
    <3> QED
      BY <2>2, <3>1, <3>3 DEF DescriptorsFit, Async!WithinLimits
  <2>3. CASE use = "build"
    BY <2>3, ListIsFit DEF DescriptorsFit, DmaInv, Uses
  <2>4. CASE use \in {"race", "start"}
    <3>1. ListInv("race")
      BY <2>4 DEF DmaInv, Uses, ListInv, MemoryTypes, RegisterTypes, Links, NodeType, Nodes, Num
    <3>2. Prefetcher("race")!TypeOK /\ Prefetcher("race")!ListIsCycle
      BY <3>1, ListIsFit DEF Uses
    <3> QED
      BY <2>4, <3>2 DEF DescriptorsFit
  <2> QED
    BY <2>1, <2>2, <2>3, <2>4 DEF DmaInv, Uses
<1> QED
  BY <1>1, DmaInvariant, PTL
=============================================================================
