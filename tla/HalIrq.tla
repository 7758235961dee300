------------------------------- MODULE HalIrq -------------------------------
(***************************************************************************)
(* Interrupts and exceptions of the board support package: the exception   *)
(* entry (HAL/src/alt_exception_entry.S, alt_irq_entry.S), the dispatcher  *)
(* alt_irq_handler, registration (alt_iic.c, alt_iic_isr_register.c,       *)
(* alt_irq_register.c), the enable and disable calls of sys/alt_irq.h and  *)
(* priv/alt_legacy_irq.h, nested interrupt handlers, and the handler of    *)
(* instruction exceptions.                                                 *)
(*                                                                         *)
(* The processor runs one stack of frames: the program at the bottom, then *)
(* one frame per exception being handled.  Only the top frame moves, and   *)
(* an interrupt may be taken between any two of its steps.  Interrupt      *)
(* lines are level sensitive; a handler clears the line of its device.     *)
(***************************************************************************)
EXTENDS Integers, Sequences, FiniteSets, FiniteSetsExt, SequencesExt

CONSTANTS
  ALT_NIRQ,     \* interrupts of the internal controller
  Isrs,         \* interrupt handlers; each is registered with its context
  NoIsr,        \* a NULL handler
  Nesting,      \* TRUE: handlers may call alt_irq_interruptible
  NestedCalls,  \* TRUE: and other calls while a handler is interruptible
  Glitches,     \* TRUE: a device may withdraw its request by itself
  MaxRaises,    \* bound: requests the devices make
  MaxCalls,     \* bound: calls the program and the handlers make
  MaxTraps,     \* bound: instructions that raise an exception
  MaxFrames     \* bound: depth of the stack

ASSUME IrqAssumption ==
  /\ ALT_NIRQ \in Nat \ {0}
  /\ NoIsr \notin Isrs
  /\ {Nesting, NestedCalls, Glitches} \subseteq BOOLEAN
  /\ {MaxRaises, MaxCalls, MaxTraps, MaxFrames} \subseteq Nat

VARIABLES
  pie,       \* the PIE bit of the status register
  ienable,   \* the IENABLE register, as a set of interrupts
  lines,     \* interrupt requests of the devices
  alt_irq_active, alt_priority_mask,   \* the globals of alt_irq_vars.c
  alt_irq,   \* the handler table
  alt_instruction_exception_handler,   \* is one registered?
  stack,     \* the frames, the running one last
  left       \* what is left of each bound

vars == <<pie, ienable, lines, alt_irq_active, alt_priority_mask, alt_irq,
          alt_instruction_exception_handler, stack, left>>

Irqs == 0 .. ALT_NIRQ - 1
\* A handler that is not interruptible has saved no priority mask.
Unset == << >>

\* A frame: where it is; what caused the exception; the estatus it saved;
\* the list of pending interrupts it read; the handler it called, with its
\* context and interrupt; the priority mask that handler saved; the status
\* words saved by alt_irq_disable_all; the call being made; whether the
\* instruction it stands on raises an exception; whether it will return
\* after the instruction that caused it.
Frame(cause, est) ==
  [pc |-> "entry", cause |-> cause, est |-> est, active |-> {}, id |-> -1,
   isr |-> NoIsr, context |-> NoIsr, old |-> Unset, ctx |-> << >>,
   op |-> "none", arg |-> -1, new |-> NoIsr, trap |-> FALSE,
   skip |-> FALSE]

\* Out of reset the PIE bit is clear: nothing is registered,
\* interrupts are off, IENABLE holds anything and lines may be up.
Init ==
  /\ pie = FALSE
  /\ ienable \in SUBSET Irqs
  /\ lines \in SUBSET Irqs
  /\ alt_irq_active = {}
  /\ alt_priority_mask = Irqs
  /\ alt_irq = [i \in Irqs |-> [handler |-> NoIsr, context |-> NoIsr]]
  /\ alt_instruction_exception_handler = FALSE
  /\ stack = <<[Frame("none", FALSE) EXCEPT !.pc = "reset"]>>
  /\ left = [raises |-> MaxRaises, calls |-> MaxCalls, traps |-> MaxTraps]

Globals == <<alt_irq_active, alt_priority_mask, alt_irq,
             alt_instruction_exception_handler>>

Top == stack[Len(stack)]
At(p) == Top.pc = p
\* The top frame becomes f.
Becomes(f) == stack' = [stack EXCEPT ![Len(stack)] = f]
Goto(p) == Becomes([Top EXCEPT !.pc = p])
Spend(b) == left[b] > 0 /\ left' = [left EXCEPT ![b] = @ - 1]

\* Where a frame runs its own code: the program, or a handler that has
\* served its device.
Home == IF Top.isr = NoIsr THEN "code" ELSE "served"
InOwnCode == At("code") \/ At("served")

\* What the processor presents in IPENDING.
alt_irq_pending == lines \cap ienable

-----------------------------------------------------------------------------
(* Start: alt_irq_init, called first by alt_main.                          *)

altera_nios2_gen2_irq_init ==
  /\ At("reset")
  /\ ienable' = {}
  /\ Goto("irq_init")
  /\ UNCHANGED <<pie, lines, Globals, left>>

alt_irq_cpu_enable_interrupts ==
  /\ At("irq_init")
  /\ pie' = TRUE
  /\ Goto("code")
  /\ UNCHANGED <<ienable, lines, Globals, left>>

-----------------------------------------------------------------------------
(* alt_irq_disable_all and alt_irq_enable_all.  Status is read and then    *)
(* written, and an interrupt may come in between.  The saved words of the  *)
(* sections a frame is in form its ctx.  This processor has no further     *)
(* status bits, so alt_irq_enable_all writes the saved word back whole.    *)

\* The status word alt_irq_disable_all writes.
StatusOffBug == pie   \* the bit is kept
StatusOff == FALSE

ReadStatus(p) == Becomes([Top EXCEPT !.pc = p, !.ctx = Append(@, pie)])

\* The status word alt_irq_enable_all writes.
StatusBack == Last(Top.ctx)

RestoreStatus(p) ==
  /\ pie' = StatusBack
  /\ Becomes([Top EXCEPT !.pc = p, !.ctx = Front(@)])

\* A critical section of the program or of a handler; they nest.
EnterCritical ==
  /\ InOwnCode /\ ~Top.trap /\ Spend("calls")
  /\ ReadStatus("crit_off")
  /\ UNCHANGED <<pie, ienable, lines, Globals>>

alt_irq_disable_all ==
  /\ At("crit_off")
  /\ pie' = StatusOff
  /\ Goto(Home)
  /\ UNCHANGED <<ienable, lines, Globals, left>>

alt_irq_enable_all ==
  /\ InOwnCode /\ ~Top.trap /\ Top.ctx # << >>
  /\ RestoreStatus(Home)
  /\ UNCHANGED <<ienable, lines, Globals, left>>

-----------------------------------------------------------------------------
(* Registering, enabling and disabling an interrupt.                       *)

\* alt_ic_isr_register and the older alt_irq_register, called by the
\* program; a NULL handler disables the interrupt.
CallRegister(id, isr) ==
  /\ Len(stack) = 1 /\ At("code") /\ ~Top.trap /\ Spend("calls")
  /\ Becomes([Top EXCEPT !.op = IF isr = NoIsr THEN "unregister" ELSE "register",
                         !.arg = id, !.new = isr, !.ctx = Append(@, pie),
                         !.pc = "reg_off"])
  /\ UNCHANGED <<pie, ienable, lines, Globals>>

RegisterOff ==
  /\ At("reg_off")
  /\ pie' = StatusOff
  /\ Goto("reg_handler")
  /\ UNCHANGED <<ienable, lines, Globals, left>>

RegisterHandler ==
  /\ At("reg_handler")
  /\ alt_irq' = [alt_irq EXCEPT ![Top.arg].handler = Top.new]
  /\ Goto("reg_context")
  /\ UNCHANGED <<pie, ienable, lines, alt_irq_active, alt_priority_mask,
                 alt_instruction_exception_handler, left>>

RegisterContext ==
  /\ At("reg_context")
  /\ alt_irq' = [alt_irq EXCEPT ![Top.arg].context = Top.new]
  /\ ReadStatus("set_off")
  /\ UNCHANGED <<pie, ienable, lines, alt_irq_active, alt_priority_mask,
                 alt_instruction_exception_handler, left>>

\* alt_ic_irq_enable and alt_ic_irq_disable, by the program or by a handler
\* that has served its device.  A client enables only an interrupt that has
\* a handler.
CallSet(op, id) ==
  /\ InOwnCode /\ ~Top.trap /\ Spend("calls")
  /\ NestedCalls \/ \A k \in DOMAIN stack : stack[k].old = Unset
  /\ op = "enable" => alt_irq[id].handler # NoIsr
  /\ Becomes([Top EXCEPT !.op = op, !.arg = id, !.ctx = Append(@, pie),
                         !.pc = "set_off"])
  /\ UNCHANGED <<pie, ienable, lines, Globals>>

SetOff ==
  /\ At("set_off")
  /\ pie' = StatusOff
  /\ Goto("set_active")
  /\ UNCHANGED <<ienable, lines, Globals, left>>

SetActive ==
  /\ At("set_active")
  /\ alt_irq_active' = IF Top.op \in {"register", "enable"}
                       THEN alt_irq_active \cup {Top.arg}
                       ELSE alt_irq_active \ {Top.arg}
  /\ Goto("set_ienable")
  /\ UNCHANGED <<pie, ienable, lines, alt_priority_mask, alt_irq,
                 alt_instruction_exception_handler, left>>

\* The list of enabled interrupts goes to the register as it stands: the
\* priority mask of an interruptible handler is not applied.
SetIenable ==
  /\ At("set_ienable")
  /\ ienable' = alt_irq_active
  /\ Goto("set_on")
  /\ UNCHANGED <<pie, lines, Globals, left>>

SetOn ==
  /\ At("set_on")
  /\ RestoreStatus(IF Top.op \in {"register", "unregister"} THEN "reg_on" ELSE Home)
  /\ UNCHANGED <<ienable, lines, Globals, left>>

RegisterOn ==
  /\ At("reg_on")
  /\ RestoreStatus(Home)
  /\ UNCHANGED <<ienable, lines, Globals, left>>

\* What alt_ic_irq_enabled and alt_irq_enabled return.
alt_ic_irq_enabled(id) == id \in ienable
alt_irq_enabled == pie

-----------------------------------------------------------------------------
(* Exceptions.  The processor saves status in estatus and clears PIE.      *)

Push(f) == stack' = Append([stack EXCEPT ![Len(stack)].trap =
                              (f.cause = "inst") \/ @], f)

TakeInterrupt ==
  /\ pie /\ alt_irq_pending # {}
  /\ Len(stack) < MaxFrames
  /\ Push(Frame("irq", TRUE))
  /\ pie' = FALSE
  /\ UNCHANGED <<ienable, lines, Globals, left>>

\* An instruction of the program or of a handler raises an exception, for
\* the first time or issued again.
Trap ==
  /\ InOwnCode /\ ~Top.trap /\ Spend("traps")
  /\ Len(stack) < MaxFrames
  /\ Push(Frame("inst", pie))
  /\ pie' = FALSE
  /\ UNCHANGED <<ienable, lines, Globals>>

TrapAgain ==
  /\ InOwnCode /\ Top.trap
  /\ Push(Frame("inst", pie))
  /\ pie' = FALSE
  /\ UNCHANGED <<ienable, lines, Globals, left>>

\* alt_irq_entry.S: an interrupt, or something an instruction did?
IsInterruptBug == alt_irq_pending # {}   \* estatus is not looked at
IsInterruptInvertedBug == ~Top.est /\ alt_irq_pending # {}   \* test inverted
IsInterrupt == Top.est /\ alt_irq_pending # {}

alt_irq_entry ==
  /\ At("entry")
  /\ Goto(IF IsInterrupt THEN "handler" ELSE "instruction")
  /\ UNCHANGED <<pie, ienable, lines, Globals, left>>

\* alt_instruction_exception_entry: the registered handler says whether the
\* instruction is skipped or, after a repair, issued again.  Without one
\* the processor stops in the debugger.
alt_instruction_exception_entry ==
  /\ At("instruction")
  /\ \/ /\ alt_instruction_exception_handler
        /\ \E skip \in BOOLEAN : Becomes([Top EXCEPT !.pc = "repaired", !.skip = skip])
     \/ /\ ~alt_instruction_exception_handler
        /\ Goto("break")
  /\ UNCHANGED <<pie, ienable, lines, Globals, left>>

alt_instruction_exception_register(set) ==
  /\ Len(stack) = 1 /\ At("code") /\ ~Top.trap /\ Spend("calls")
  /\ alt_instruction_exception_handler' = set
  /\ UNCHANGED <<pie, ienable, lines, alt_irq_active, alt_priority_mask,
                 alt_irq, stack>>

\* eret, to the interrupted code or past the instruction that trapped.
eret ==
  /\ At("exit") \/ At("repaired")
  /\ pie' = Top.est
  /\ stack' = LET below == Front(stack) IN
              IF At("repaired")
              THEN [below EXCEPT ![Len(below)].trap = FALSE]
              ELSE below
  /\ UNCHANGED <<ienable, lines, Globals, left>>

-----------------------------------------------------------------------------
(* alt_irq_handler.                                                        *)

HandlerRead ==
  /\ At("handler")
  /\ Becomes([Top EXCEPT !.pc = "find", !.active = alt_irq_pending])
  /\ UNCHANGED <<pie, ienable, lines, Globals, left>>

\* The lowest bit of the list; with an empty list the loop runs for ever,
\* which is a frame that takes no step.
Chosen == Min(Top.active)

CallHandler ==
  /\ At("find") /\ Top.active # {}
  /\ Becomes([Top EXCEPT !.pc = "isr", !.id = Chosen,
                         !.isr = alt_irq[Chosen].handler,
                         !.context = alt_irq[Chosen].context])
  /\ UNCHANGED <<pie, ienable, lines, Globals, left>>

\* The handler serves its device, which drops its request.
IsrServe ==
  /\ At("isr")
  /\ lines' = lines \ {Top.id}
  /\ Goto("served")
  /\ UNCHANGED <<pie, ienable, Globals, left>>

\* The handler lets interrupts of higher priority in.  Interrupts are off
\* up to the last write.
PriorityMaskWideBug(p) == 0 .. p + 1   \* (4 << p) - 1
PriorityMaskBug(p) == 0 .. p   \* its own interrupt too
PriorityMask(p) == 0 .. p - 1

alt_irq_interruptible ==
  /\ Nesting /\ At("isr") /\ Top.old = Unset
  /\ alt_priority_mask' = PriorityMask(Top.id)
  /\ ienable' = alt_irq_active \cap alt_priority_mask'
  /\ pie' = TRUE
  /\ Becomes([Top EXCEPT !.old = <<alt_priority_mask>>])
  /\ UNCHANGED <<lines, alt_irq_active, alt_irq,
                 alt_instruction_exception_handler, left>>

\* IENABLE after alt_irq_non_interruptible has restored the mask.
UnmaskedBug == alt_irq_active \cap alt_priority_mask   \* the mask it had
Unmasked == alt_irq_active \cap Top.old[1]

alt_irq_non_interruptible ==
  /\ At("served") /\ ~Top.trap /\ Top.old # Unset /\ Top.ctx = << >>
  /\ pie' = FALSE
  /\ alt_priority_mask' = Top.old[1]
  /\ ienable' = Unmasked
  /\ Becomes([Top EXCEPT !.old = Unset])
  /\ UNCHANGED <<lines, alt_irq_active, alt_irq,
                 alt_instruction_exception_handler, left>>

\* The handler returns and the list of pending interrupts is read again;
\* the dispatcher goes round once more if there are any.
LoopsOnBug == lines # {}   \* disabled ones too
LoopsOn == alt_irq_pending # {}

IsrReturn ==
  /\ At("served") /\ ~Top.trap /\ Top.old = Unset /\ Top.ctx = << >>
  /\ Becomes([Top EXCEPT !.active = alt_irq_pending,
                         !.pc = IF LoopsOn THEN "find" ELSE "exit",
                         !.id = -1, !.isr = NoIsr, !.context = NoIsr])
  /\ UNCHANGED <<pie, ienable, lines, Globals, left>>

-----------------------------------------------------------------------------
(* The devices.                                                            *)

Raise(id) ==
  /\ id \notin lines /\ Spend("raises")
  /\ lines' = lines \cup {id}
  /\ UNCHANGED <<pie, ienable, Globals, stack>>

Withdraw(id) ==
  /\ Glitches /\ id \in lines /\ Spend("raises")
  /\ lines' = lines \ {id}
  /\ UNCHANGED <<pie, ienable, Globals, stack>>

-----------------------------------------------------------------------------
\* What the program and the handlers choose to do.
Choice ==
  \/ EnterCritical \/ Trap \/ alt_irq_interruptible
  \/ \E id \in Irqs, isr \in Isrs \cup {NoIsr} : CallRegister(id, isr)
  \/ \E id \in Irqs, op \in {"enable", "disable"} : CallSet(op, id)
  \/ \E set \in BOOLEAN : alt_instruction_exception_register(set)

\* What follows from what they chose; a section that was entered is left.
Proceed ==
  \/ altera_nios2_gen2_irq_init \/ alt_irq_cpu_enable_interrupts
  \/ alt_irq_disable_all \/ alt_irq_enable_all
  \/ RegisterOff \/ RegisterHandler \/ RegisterContext \/ RegisterOn
  \/ SetOff \/ SetActive \/ SetIenable \/ SetOn
  \/ TrapAgain \/ alt_irq_entry \/ alt_instruction_exception_entry \/ eret
  \/ HandlerRead \/ CallHandler \/ IsrServe
  \/ alt_irq_non_interruptible \/ IsrReturn

Device == \E id \in Irqs : Raise(id) \/ Withdraw(id)

Next == Choice \/ Proceed \/ TakeInterrupt \/ Device

Spec == Init /\ [][Next]_vars

\* The processor goes on with what it has begun and takes the interrupts
\* that are pending and enabled; nobody is obliged to call anything and no
\* device to interrupt.
FairSpec == Spec /\ WF_vars(Proceed) /\ WF_vars(TakeInterrupt)

-----------------------------------------------------------------------------
Bits == SUBSET Irqs
Handlers == Isrs \cup {NoIsr}
Ids == Irqs \cup {-1}
Masks == {Unset} \cup {<<m>> : m \in Bits}
Words == Seq(BOOLEAN)
Causes == {"none", "irq", "inst"}
Ops == {"none", "register", "unregister", "enable", "disable"}
Pcs == {"reset", "irq_init", "code", "crit_off", "reg_off", "reg_handler",
        "reg_context", "reg_on", "set_off", "set_active", "set_ienable",
        "set_on", "entry", "instruction", "repaired", "exit", "break",
        "handler", "find", "isr", "served"}
Frames ==
  [pc : Pcs, cause : Causes, est : BOOLEAN, active : Bits, id : Ids,
   isr : Handlers, context : Handlers, old : Masks, ctx : Words, op : Ops,
   arg : Ids, new : Handlers, trap : BOOLEAN, skip : BOOLEAN]

\* Every variable has its type, and the program is never out of the stack.
TypeOK ==
  /\ pie \in BOOLEAN
  /\ {ienable, lines, alt_irq_active, alt_priority_mask} \subseteq Bits
  /\ alt_irq \in [Irqs -> [handler : Handlers, context : Handlers]]
  /\ alt_instruction_exception_handler \in BOOLEAN
  /\ stack \in Seq(Frames) /\ stack # << >>
  /\ left \in [{"raises", "calls", "traps"} -> Nat]

\* A handler runs with the context it was registered with, and no NULL
\* handler is called: an interrupt never sees half of an update of the
\* table (alt_iic_isr_register, alt_irq_register).
HandlerWithContext ==
  \A k \in DOMAIN stack :
    stack[k].pc = "isr" => stack[k].isr # NoIsr /\ stack[k].isr = stack[k].context

\* A frame between alt_irq_disable_all and its alt_irq_enable_all.
Protected(f) ==
  Len(f.ctx) > (IF f.pc \in {"crit_off", "reg_off", "set_off"} THEN 1 ELSE 0)

\* No interrupt handler runs while the code below it is between
\* alt_irq_disable_all and the matching alt_irq_enable_all, however the
\* sections nest and whatever exceptions are raised inside them.
CriticalSections ==
  \A k \in DOMAIN stack : Protected(stack[k]) =>
    \A j \in DOMAIN stack : j > k => stack[j].isr = NoIsr

\* Interrupt handlers nest only by priority: the one on top has a lower
\* number than each one it interrupted (alt_irq_interruptible).
PriorityNesting ==
  \A j, k \in DOMAIN stack :
    j < k /\ stack[j].isr # NoIsr /\ stack[k].isr # NoIsr => stack[k].id < stack[j].id

\* Only an instruction that raised an exception is skipped: the code an
\* interrupt hit goes on with the very instruction it was at
\* (alt_exception_entry.S, 72(sp)).
OnlyTrapsSkipped ==
  \A k \in DOMAIN stack : stack[k].skip => stack[k].cause = "inst" /\ stack[k - 1].trap

\* An interrupt is transparent: a handler gets the context it was registered
\* with, and the code an interrupt hit goes on where it was, unless a device
\* withdrew its request before the dispatcher looked for it.
InterruptsTransparent ==
  TypeOK /\ HandlerWithContext /\ (~Glitches => OnlyTrapsSkipped)

\* A request of an enabled interrupt is served, unless somebody disables
\* the interrupt or the processor stops for want of an exception handler.
RequestServed ==
  \A i \in Irqs :
    (i \in lines /\ i \in alt_irq_active) ~>
      (i \notin lines \/ i \notin alt_irq_active \/ At("break"))

\* The dispatcher always finds what it was called for and comes back: the
\* program runs on, unless the processor stops for want of a handler.
ProgramResumes == []<>(Len(stack) = 1 \/ At("break"))
=============================================================================
