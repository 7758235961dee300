------------------------------- MODULE Msgdma -------------------------------
(***************************************************************************)
(* The mSGDMA driver in dispatcher mode: alt_msgdma_descriptor_async_      *)
(* transfer, _sync_transfer, the interrupt routine, and the registration   *)
(* of a callback, in drivers/src/altera_msgdma.c.                          *)
(*                                                                         *)
(* One thread starts transfers; the interrupt routine preempts it wherever *)
(* interrupts are enabled; the hardware moves data at any time.  The       *)
(* hardware is what altera_msgdma_csr_regs.h and _descriptor_regs.h say of *)
(* its registers.  A callback may start a transfer itself.                 *)
(***************************************************************************)
EXTENDS MsgdmaDescriptor, Sequences

CONSTANTS
  Depth,          \* descriptor_fifo_depth
  TIME_OUT,       \* polls before a loop gives up (5000)
  MaxDesc,        \* bound: descriptors the program makes
  Requests,       \* what the program asks for
  Calls,          \* subset of {"async", "sync"}
  MayPassNull,    \* the program may pass a null descriptor
  MayFail,        \* a transfer may end in an error
  Chains,         \* the callback starts a further transfer
  MayUnregister   \* the program may change the callback

ASSUME MsgdmaAssumption ==
  /\ Depth \in Nat \ {0} /\ TIME_OUT \in Nat /\ MaxDesc \in Nat
  /\ Requests \subseteq TransferRequest /\ Calls \subseteq {"async", "sync"}
  /\ {MayPassNull, MayFail, Chains, MayUnregister} \subseteq BOOLEAN

VARIABLES
  ctl,            \* CSR control: "Stop", "StopDesc", "Soe", "Gie"
  irq,            \* CSR status, IRQ
  stage,          \* descriptor registers written and not yet committed
  fifo, cur,      \* descriptor FIFO, and the descriptor being executed
  ie,             \* interrupts enabled at the processor
  isr,            \* where the interrupt routine is
  pc, call,       \* the thread: where it is, and the call
  counter, desc, context, \* locals of the call
  ret,            \* what the last call returned
  callback,       \* dev->callback is set
  made,           \* number of descriptors made
  accepted, completed, \* descriptors committed and executed, in order
  owed            \* asynchronous transfers that have completed since the
                  \* callback last ran

hwVars == <<ctl, irq, stage, fifo, cur>>
threadVars == <<pc, call, counter, desc, context, ret>>
vars == <<hwVars, ie, isr, threadVars, callback, made, accepted, completed, owed>>

None == [id |-> 0, addr |-> 0, d |-> {}, async |-> FALSE]
Busy == fifo # <<>> \/ cur # None
LevelFull == Len(fifo) >= Depth
\* The test of every write of a descriptor.  (FullBug: it is left out.)
FullBug == FALSE
Full == Len(fifo) = Depth
\* STOPPED_ON_ERROR and STOP_STATE follow the stop bit.
Error == "Stop" \in ctl
IrqLine == irq /\ "Gie" \in ctl

\* After alt_msgdma_init.
Init ==
  /\ ctl = {"StopDesc"} /\ irq = FALSE /\ stage = 0 /\ fifo = <<>> /\ cur = None
  /\ ie = TRUE /\ isr = "off"
  /\ pc = "idle" /\ call = "none" /\ counter = 0 /\ desc = None /\ context = TRUE
  /\ ret = "none"
  /\ callback = TRUE
  /\ made = 0 /\ accepted = <<>> /\ completed = <<>> /\ owed = {}

-----------------------------------------------------------------------------
(* The hardware.                                                           *)

HwIssue ==
  /\ cur = None /\ fifo # <<>> /\ ctl \cap {"StopDesc", "Stop"} = {}
  /\ cur' = Head(fifo) /\ fifo' = Tail(fifo)
  /\ UNCHANGED <<ctl, irq, stage, ie, isr, threadVars, callback, made, accepted,
                 completed, owed>>

\* A transfer ends; an error stops the engine when it was told so.
HwDone ==
  /\ cur # None
  /\ completed' = Append(completed, cur.id)
  /\ owed' = IF cur.async THEN owed \cup {cur.id} ELSE owed
  /\ cur' = None
  /\ irq' = (irq \/ "TRANSFER_COMPLETE_IRQ" \in cur.d.control)
  /\ ctl' \in IF MayFail /\ "Soe" \in ctl THEN {ctl, ctl \cup {"Stop"}} ELSE {ctl}
  /\ UNCHANGED <<stage, fifo, ie, isr, threadVars, callback, made, accepted>>

Hw == HwIssue \/ HwDone

-----------------------------------------------------------------------------
(* The interrupt routine.                                                  *)

\* The global interrupt is masked and the status cleared before the callback,
\* so that a completion during the callback interrupts again.
IrqMask ==
  /\ isr = "off" /\ ie /\ IrqLine
  /\ ctl' = ctl \ {"Gie"}
  /\ irq' = FALSE
  /\ isr' = IF callback THEN "callback" ELSE "unmask"
  /\ UNCHANGED <<stage, fifo, cur, ie, threadVars, callback, made, accepted,
                 completed, owed>>

\* A descriptor is lost when the FIFO has no room.
Push(id, addr, d, async) ==
  IF Len(fifo) = Depth THEN fifo
  ELSE Append(fifo, [id |-> id, addr |-> addr, d |-> d, async |-> async])

\* The callback looks at what has completed; it may start a transfer, which
\* no other handler can interrupt.
IrqCallback ==
  /\ isr = "callback"
  /\ owed' = {}
  /\ isr' = "unmask"
  /\ \/ UNCHANGED <<ctl, irq, stage, fifo, made, accepted>>
     \/ /\ Chains /\ made < MaxDesc /\ ~LevelFull
        /\ \E r \in Requests : \E d \in Construct(r) :
              fifo' = Push(made + 1, made + 1, d, TRUE)
        /\ made' = made + 1
        /\ accepted' = Append(accepted, made + 1)
        /\ stage' = made + 1
        /\ irq' = FALSE
        /\ ctl' = {"Soe", "Gie"}
  /\ UNCHANGED <<cur, ie, threadVars, callback, completed>>

\* (LateClearBug: the status is cleared after the callback.)
LateClearBug == FALSE
IrqKept == irq

IrqUnmask ==
  /\ isr = "unmask"
  /\ irq' = IrqKept
  /\ ctl' = ctl \cup {"Gie"}
  /\ isr' = "off"
  /\ UNCHANGED <<stage, fifo, cur, ie, threadVars, callback, made, accepted,
                 completed, owed>>

Isr == IrqMask \/ IrqCallback \/ IrqUnmask

-----------------------------------------------------------------------------
(* The thread.                                                             *)

Return(r) ==
  /\ pc' = "idle" /\ call' = "none" /\ ret' = r
  /\ counter' = 0 /\ UNCHANGED <<desc, context>>

Goto(label) == pc' = label /\ UNCHANGED <<call, desc, context, ret, counter>>

\* Construct a descriptor and start a transfer with it, or with none.
Begin(c) ==
  /\ c \in Calls /\ pc = "idle" /\ made < MaxDesc
  /\ call' = c
  /\ \/ /\ \E r \in Requests : \E d \in Construct(r) :
              desc' = [None EXCEPT !.id = made + 1, !.d = d]
        /\ made' = made + 1
     \/ MayPassNull /\ desc' = None /\ UNCHANGED made
  /\ pc' = "level" /\ ret' = "none" /\ counter' = 0 /\ UNCHANGED context
  /\ UNCHANGED <<hwVars, ie, isr, callback, accepted, completed, owed>>

AsyncCall == Begin("async")
SyncCall == Begin("sync")

\* (GiveUpBug: one turn too many.)
GiveUpBug == TIME_OUT < counter
GiveUp == TIME_OUT <= counter

\* One more turn of a waiting loop, or -ETIME.
Poll ==
  IF GiveUp THEN Return("ETIME")
  ELSE counter' = counter + 1 /\ UNCHANGED <<pc, call, desc, context, ret>>

\* The fill levels: an asynchronous call returns when the FIFO is full, a
\* synchronous one waits.
AsyncLevel ==
  /\ pc = "level" /\ call = "async"
  /\ IF LevelFull THEN Return("ENOSPC") ELSE Goto("stop")
  /\ UNCHANGED <<hwVars, ie, isr, callback, made, accepted, completed, owed>>

SyncLevel ==
  /\ pc = "level" /\ call = "sync"
  /\ IF LevelFull THEN Poll ELSE Goto("stop")
  /\ UNCHANGED <<hwVars, ie, isr, callback, made, accepted, completed, owed>>

\* The dispatcher is stopped and the status cleared with interrupts disabled;
\* a synchronous call leaves them disabled.
\* (StoppedBug: the global interrupt enable is kept.)
StoppedBug == (ctl \cap {"Gie"}) \cup {"StopDesc"}
Stopped == {"StopDesc"}

StopDispatcher(enabled) ==
  /\ pc = "stop"
  /\ ctl' = Stopped /\ irq' = FALSE
  /\ context' = ie /\ ie' = enabled
  /\ pc' = "put" /\ counter' = 0 /\ UNCHANGED <<call, desc, ret>>
  /\ UNCHANGED <<stage, fifo, cur, isr, callback, made, accepted, completed, owed>>

AsyncStop == call = "async" /\ StopDispatcher(ie)
SyncStop == call = "sync" /\ StopDispatcher(FALSE)

\* write_standard_descriptor, write_extended_descriptor: give up while the
\* FIFO is full, otherwise write the descriptor registers.
WriteDescriptor ==
  /\ pc = "put"
  /\ CASE desc = None -> Return("EPERM") /\ UNCHANGED stage
       [] desc # None /\ Full -> Poll /\ UNCHANGED stage
       [] OTHER -> Goto("go") /\ stage' = desc.id
  /\ UNCHANGED <<ctl, irq, fifo, cur, ie, isr, callback, made, accepted, completed,
                 owed>>

AsyncPut == call = "async" /\ WriteDescriptor
SyncPut == call = "sync" /\ WriteDescriptor

\* The write of the control word commits the registers as they now are.
CommitDescriptor ==
  /\ pc = "go"
  /\ fifo' = Push(desc.id, stage, desc.d, call = "async" /\ callback)
  /\ accepted' = Append(accepted, desc.id)
  /\ Goto("run")
  /\ UNCHANGED <<ctl, irq, stage, cur, ie, isr, callback, made, completed, owed>>

\* The dispatcher runs again: with interrupts for an asynchronous call with a
\* callback, without them otherwise.  (RunningBug: the stop bit stays.)
RunningBug ==
  IF call = "async" /\ callback THEN {"Soe", "Gie", "StopDesc"} ELSE {"Soe"}
Running == IF call = "async" /\ callback THEN {"Soe", "Gie"} ELSE {"Soe"}

AsyncRun ==
  /\ pc = "run" /\ call = "async"
  /\ ctl' = Running
  /\ Return("ok")
  /\ UNCHANGED <<irq, stage, fifo, cur, ie, isr, callback, made, accepted, completed,
                 owed>>

SyncRun ==
  /\ pc = "run" /\ call = "sync"
  /\ ctl' = Running
  /\ ie' = context
  /\ pc' = "wait" /\ counter' = 0 /\ UNCHANGED <<call, desc, context, ret>>
  /\ UNCHANGED <<irq, stage, fifo, cur, isr, callback, made, accepted, completed, owed>>

\* What a synchronous call waits for.  (PendingBug: only until the FIFO is
\* empty.)
PendingBug == fifo # <<>>
Pending == Busy

SyncWait ==
  /\ pc = "wait"
  /\ CASE Error -> Return("error")
       [] ~Error /\ Pending -> Poll
       [] OTHER -> Goto("end")
  /\ UNCHANGED <<hwVars, ie, isr, callback, made, accepted, completed, owed>>

\* Nothing is pending: the dispatcher is stopped and the status cleared.
SyncEnd ==
  /\ pc = "end"
  /\ ctl' = ctl \cup {"StopDesc"}
  /\ irq' = FALSE
  /\ Return("ok")
  /\ UNCHANGED <<stage, fifo, cur, ie, isr, callback, made, accepted, completed, owed>>

Thread ==
  /\ isr = "off"
  /\ \/ AsyncLevel \/ AsyncStop \/ AsyncPut \/ AsyncRun
     \/ SyncLevel \/ SyncStop \/ SyncPut \/ SyncRun \/ SyncWait \/ SyncEnd
     \/ CommitDescriptor

RegisterCallback ==
  /\ MayUnregister /\ pc = "idle"
  /\ callback' = ~callback
  /\ UNCHANGED <<hwVars, ie, isr, threadVars, made, accepted, completed, owed>>

Next == Hw \/ Isr \/ Thread \/ (isr = "off" /\ (AsyncCall \/ SyncCall \/ RegisterCallback))

Spec == Init /\ [][Next]_vars

\* The hardware finishes what it started, a pending interrupt is served and
\* the processor runs on.
FairSpec == Spec /\ WF_vars(Hw) /\ WF_vars(Isr) /\ WF_vars(Thread)

-----------------------------------------------------------------------------
(* Properties.                                                             *)

\* The registers hold known bits, the descriptor FIFO never holds more than
\* its depth, and the polling counter stays within the time-out.
TypeOK ==
  /\ ctl \subseteq {"Stop", "StopDesc", "Soe", "Gie"}
  /\ irq \in BOOLEAN /\ ie \in BOOLEAN /\ callback \in BOOLEAN
  /\ Len(fifo) <= Depth /\ counter \in 0..TIME_OUT
  /\ pc \in {"idle", "level", "stop", "put", "go", "run", "wait", "end"}
  /\ isr \in {"off", "callback", "unmask"}

\* Descriptors are executed once each, in the order they were committed,
\* whether the thread or the callback committed them.
ExecutedInOrder ==
  accepted = completed \o (IF cur = None THEN <<>> ELSE <<cur.id>>)
                       \o [i \in DOMAIN fifo |-> fifo[i].id]

\* No descriptor mixes the registers of two: the writes of
\* alt_msgdma_write_standard_descriptor (altera_msgdma.c:112) are not inside
\* a critical section, and a callback that starts a transfer uses the same
\* registers.
NoTornDescriptor ==
  \A i \in DOMAIN fifo : fifo[i].addr = fifo[i].id

\* Accepted descriptors are executed once, in the order of the calls, and
\* none mixes the words of two calls.
TransfersSound == TypeOK /\ ExecutedInOrder /\ NoTornDescriptor

\* A descriptor in the FIFO has the format this hardware takes and keeps to
\* its limits, whatever the program asked for.
HwDescriptor == IF enhanced_features = 0 THEN StandardDescriptor ELSE ExtendedDescriptor
WithinLimits == \A i \in DOMAIN fifo : fifo[i].d \in HwDescriptor

\* A synchronous transfer that reports success has been executed.
SyncMeansDone ==
  (pc = "end") => \E i \in DOMAIN completed : completed[i] = desc.id

\* The last call has given up after it stopped the dispatcher, or found it so:
\* the error returns of an asynchronous call do not start it again.
LeftStopped ==
  /\ pc = "idle"
  /\ \/ ret \in {"ETIME", "EPERM"}
     \/ ret = "ENOSPC" /\ "StopDesc" \in ctl

\* Every committed descriptor is executed, unless a transfer fails and the
\* engine stops on the error, or a call gives up and leaves the dispatcher
\* stopped.  A call that returns 0 leaves it running again, for the
\* descriptors of earlier calls too (alt_msgdma_descriptor_async_transfer).
AcceptedCompletes ==
  \A n \in 1..MaxDesc :
    (Len(accepted) >= n) ~> (Len(completed) >= n \/ Error \/ LeftStopped)

\* After the completion of an asynchronous transfer the callback runs
\* (alt_msgdma_irq), unless a call gives up and leaves the interrupt off.
CallbackFollows ==
  \A n \in 1..MaxDesc : (n \in owed) ~> (n \notin owed \/ LeftStopped)

\* "all non-blocking msgdma transfers will enable interrupts that will cause
\* the callback to be executed" (altera_msgdma.c:1633), without exception.
EveryTransferCallsBack ==
  \A n \in 1..MaxDesc :
    (Len(accepted) >= n) ~> (Len(completed) >= n /\ owed = {})
=============================================================================
