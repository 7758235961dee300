------------------------------ MODULE LegacyPe ------------------------------
(***************************************************************************)
(* verify_mac_pe (linux_software/npu_test/main.c, software/npu/main.c):    *)
(* the processor loads a weight into the legacy element and has it compute *)
(* one multiply-accumulate, by register accesses that reach the bus at any *)
(* pace.  The menu may call it again and again on the state it left.       *)
(***************************************************************************)
EXTENDS MacPeCtrl, Sequences

CONSTANT Operands   \* the <<weight, x, y>> triples tried; the code uses <<7, 3, 10>>

LegacyAssumption ==
  /\ BYTE \in Nat /\ BYTE > 0 /\ BYTE % 2 = 0
  /\ WORD = ACC   \* y_in and y_out are as wide as a bus word
  /\ Operands \subseteq Int \X Int \X Int

VARIABLES op, step, result,   \* verify_mac_pe's progress and answer
          pulsed              \* history: weight_latch_en has been high

vars == <<ctrlVars, peCtrlVars, op, step, result, pulsed>>

\* The accesses of verify_mac_pe, in order.  A negative value reaches the
\* bus as an unsigned word.
Script(o) ==
  << IOWR(REG_PE_X_IN, o[1] % WORD),
     IOWR(REG_PE_CTRL, 3), IOWR(REG_PE_CTRL, 0),
     IOWR(REG_LATCH, 1), IOWR(REG_LATCH, 0),
     IOWR(REG_PE_X_IN, o[2] % WORD), IOWR(REG_PE_Y_IN, o[3] % WORD),
     IOWR(REG_PE_CTRL, 2), IOWR(REG_PE_CTRL, 0),
     IORD(REG_PE_Y_OUT) >>

Init ==
  /\ CtrlReset /\ PeCtrlReset
  /\ op \in Operands /\ step = 1 /\ result = 0 /\ pulsed = FALSE

Edge(bus) == PeCtrlClock(bus) /\ pulsed' = (pulsed \/ weight_latch_en)

\* An edge without an access: the processor is between two instructions.
Pause ==
  /\ step <= Len(Script(op)) \/ (step = Len(Script(op)) + 1 /\ ~readdatavalid)
  /\ Edge(NoAccess)
  /\ UNCHANGED <<op, step, result>>

Access ==
  /\ step <= Len(Script(op))
  /\ Edge(Script(op)[step])
  /\ step' = step + 1
  /\ UNCHANGED <<op, result>>

\* The read completes: result = IORD(NPU_CTRL_BASE, REG_PE_Y_OUT).
Answer ==
  /\ step = Len(Script(op)) + 1 /\ readdatavalid
  /\ Edge(NoAccess)
  /\ result' = readdata
  /\ step' = step + 1
  /\ UNCHANGED op

CallAgain ==
  /\ step = Len(Script(op)) + 2
  /\ Edge(NoAccess)
  /\ op' \in Operands /\ step' = 1
  /\ UNCHANGED result

Next == Pause \/ Access \/ Answer \/ CallAgain

Spec == Init /\ [][Next]_vars /\ WF_vars(Access) /\ WF_vars(Answer)

----------------------------------------------------------------------------
(* Properties *)

\* verify_mac_pe reads weight * x + y, however fast or slow the processor
\* is: the element fires at every edge its valid bit is up, and each of the
\* accesses may be any number of edges after the one before.
LegacyResult ==
  step = Len(Script(op)) + 2 => result = (op[1] * op[2] + op[3]) % WORD

\* Every call gets its answer.
LegacyAnswers == step = 1 ~> step = Len(Script(op)) + 2

\* What main.c says of the latch: the element is double-buffered, and its
\* active weight stays 0 until software pulses weight_latch_en.
LatchCommitsWeight == mac.active # 0 => pulsed

============================================================================
