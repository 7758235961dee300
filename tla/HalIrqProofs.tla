---------------------------- MODULE HalIrqProofs ----------------------------
(***************************************************************************)
(* Proofs about interrupts and exceptions, for every number of interrupts, *)
(* every set of handlers and every depth of the stack of frames.           *)
(***************************************************************************)
EXTENDS HalIrq, SequenceTheorems, WellFoundedInduction, TLAPS

\* The PIE bit with which frame k runs, or ran when it was interrupted: the
\* estatus of an exception is the status of the code below it.
On(k) == IF k = Len(stack) THEN pie ELSE stack[k + 1].est

Setting == {"set_off", "set_active", "set_ienable", "set_on"}
Registering == {"reg_off", "reg_handler", "reg_context", "reg_on"}
\* Where an interrupt handler or a function it calls runs.
InHandler == {"isr", "served", "crit_off"} \cup Setting
Dispatching == {"exit", "handler", "find"}
Instruction == {"entry", "instruction", "repaired", "break"}

\* The saved status words of frame f, which runs with PIE = p: a section
\* disables interrupts, and only the outermost one can have found them enabled.
Sections(f, p) ==
  /\ Protected(f) => ~p
  /\ \A m \in 2 .. Len(f.ctx) : ~f.ctx[m]
  /\ f.pc \in {"reset", "irq_init", "isr"} \cup Dispatching \cup Instruction => f.ctx = << >>
  /\ f.pc \in {"crit_off"} \cup Registering \cup Setting => Len(f.ctx) >= 1
  /\ f.pc \in Setting /\ f.op \in {"register", "unregister"} => Len(f.ctx) >= 2

\* The program, at the bottom of the stack.
Program(f, p, top) ==
  /\ f.pc \in {"reset", "irq_init", "code", "crit_off"} \cup Registering \cup Setting
  /\ f.pc \in {"reset", "irq_init"} => ~p /\ top
  /\ f.isr = NoIsr /\ f.old = Unset /\ ~f.skip
  /\ f.pc \in Registering \cup Setting => f.arg \in Irqs /\ f.op # "none"
  /\ f.pc \in Registering => f.op \in {"register", "unregister"}
  /\ f.pc \in Registering \cup Setting /\ f.op = "register" => f.new # NoIsr
  /\ f.pc \in Registering \cup Setting /\ f.op = "unregister" => f.new = NoIsr

\* An exception.  One taken with interrupts off is not an interrupt and is
\* not interrupted; a handler is interrupted only after it has asked for it.
Exception(f, p, top) ==
  /\ f.pc \in InHandler \cup Dispatching \cup Instruction
  /\ f.isr # NoIsr <=> f.pc \in InHandler
  /\ f.pc \in InHandler => f.id \in Irqs
  /\ ~f.est => f.pc \in Instruction
  /\ p \/ (f.ctx # << >> /\ f.ctx[1]) => f.old # Unset
  /\ f.old # Unset \/ ~top => f.pc \in InHandler
  /\ f.pc = "isr" => f.isr = f.context
  /\ f.pc \in Setting => f.arg \in Irqs /\ f.op \in {"enable", "disable"}

FrameOK(k) ==
  /\ Sections(stack[k], On(k))
  /\ IF k = 1 THEN Program(stack[k], On(k), k = Len(stack))
              ELSE Exception(stack[k], On(k), k = Len(stack))

Stacked == \A k \in 1 .. Len(stack) : FrameOK(k)

----------------------------------------------------------------------------
(* The handler table.                                                      *)

\* The program is taking the handler of interrupt i away.
TakingAway(i, where) ==
  stack[1].op = "unregister" /\ stack[1].arg = i /\ stack[1].pc \in where
AlsoActive == {"reg_context", "set_off", "set_active"}
AlsoEnabled == AlsoActive \cup {"set_ienable"}

\* Interrupt i can be dispatched.
Ready(i) == alt_irq[i].handler # NoIsr /\ alt_irq[i].handler = alt_irq[i].context

Table ==
  /\ \A i \in Irqs : \/ alt_irq[i].handler = alt_irq[i].context
                     \/ stack[1].pc = "reg_context" /\ stack[1].arg = i
  /\ \A i \in alt_irq_active : alt_irq[i].handler # NoIsr \/ TakingAway(i, AlsoActive)
  /\ stack[1].pc # "reset" =>
       \A i \in ienable : alt_irq[i].handler # NoIsr \/ TakingAway(i, AlsoEnabled)
  /\ stack[1].pc = "reg_context" => alt_irq[stack[1].arg].handler = stack[1].new
  /\ \A k \in 1 .. Len(stack) : stack[k].pc \in {"set_off", "set_active"} =>
       /\ stack[k].op = "enable" => alt_irq[stack[k].arg].handler # NoIsr
       /\ stack[k].op = "register" => alt_irq[stack[k].arg].handler = stack[k].new
  /\ \A k \in 1 .. Len(stack) :
       stack[k].pc = "find" => \A i \in stack[k].active : Ready(i)

----------------------------------------------------------------------------
(* Causes.                                                                 *)

CausesKnown ==
  /\ \A k \in 2 .. Len(stack) :
       /\ stack[k].cause \in {"irq", "inst"}
       /\ stack[k].cause = "inst" => stack[k - 1].trap
       /\ stack[k].cause = "irq" => stack[k].est
       /\ stack[k].skip => stack[k].pc = "repaired"
       /\ ~Glitches /\ stack[k].cause = "irq" =>
            /\ stack[k].pc \notin {"instruction", "repaired", "break"}
            /\ stack[k].pc = "entry" => alt_irq_pending # {}

----------------------------------------------------------------------------
(* Priorities, when handlers call nothing while they are interruptible.    *)

Below(id) == 0 .. id - 1

Priorities ==
  /\ \A j, k \in 1 .. Len(stack) :
       j <= k /\ stack[k].pc \in Setting => stack[j].old = Unset
  /\ \A k \in 1 .. Len(stack) : stack[k].old # Unset =>
       alt_priority_mask \subseteq Below(stack[k].id) /\ ienable \subseteq Below(stack[k].id)
  /\ \A j, k \in 1 .. Len(stack) : j < k /\ stack[j].old # Unset =>
       /\ stack[k].old # Unset => stack[k].old[1] \subseteq Below(stack[j].id)
       /\ stack[k].pc = "find" => stack[k].active \subseteq Below(stack[j].id)
       /\ stack[k].isr # NoIsr => stack[k].id < stack[j].id

IInv == TypeOK /\ Stacked /\ Table /\ CausesKnown /\ (~NestedCalls => Priorities)

----------------------------------------------------------------------------
(* Saved status words.                                                     *)

\* Only the first of a frame's saved words may be TRUE.
Saved(s) == s \in Seq(BOOLEAN) /\ \A m \in 2 .. Len(s) : ~s[m]

\* Entering a section within a section saves a FALSE.
LEMMA SavePush ==
  ASSUME NEW s, Saved(s), NEW b \in BOOLEAN, Len(s) > 0 => ~b
  PROVE  /\ Saved(Append(s, b)) /\ Len(Append(s, b)) = Len(s) + 1
         /\ Append(s, b) # << >>
         /\ Append(s, b)[1] = IF s = << >> THEN b ELSE s[1]
<1> USE DEF Saved
<1> DEFINE t == Append(s, b)
<1>1. Len(s) \in Nat /\ (s = << >> <=> Len(s) = 0)
  BY LenProperties, EmptySeq
<1>2. /\ t \in Seq(BOOLEAN) /\ t # << >> /\ Len(t) = Len(s) + 1
      /\ \A i \in 1 .. Len(s) : t[i] = s[i]
      /\ t[Len(s) + 1] = b
  BY AppendProperties
<1> HIDE DEF t
<1>3. ASSUME NEW m \in 2 .. Len(t) PROVE ~t[m]
  <2>1. m \in 2 .. Len(s) \/ (m = Len(s) + 1 /\ Len(s) > 0)
    <3>1. Len(t) = Len(s) + 1
      BY <1>2
    <3> QED
      BY <1>1, <1>3, <3>1
  <2>2. CASE m \in 2 .. Len(s)
    <3>1. m \in 1 .. Len(s)
      BY <1>1, <2>2
    <3> QED
      BY <1>2, <2>2, <3>1
  <2>3. CASE m = Len(s) + 1 /\ Len(s) > 0
    BY <1>2, <2>3
  <2> QED
    BY <2>1, <2>2, <2>3
<1>4. t[1] = IF s = << >> THEN b ELSE s[1]
  <2>1. CASE s = << >>
    <3>1. Len(s) + 1 = 1
      BY <1>1, <2>1
    <3> QED
      BY <1>2, <2>1, <3>1
  <2>2. CASE s # << >>
    <3>1. 1 \in 1 .. Len(s)
      BY <1>1, <2>2
    <3> QED
      BY <1>2, <2>2, <3>1
  <2> QED
    BY <2>1, <2>2
<1> QED
  BY <1>2, <1>3, <1>4 DEF t

\* Arithmetic of the indices of a sequence without its last element.
LEMMA FrontIndices ==
  ASSUME NEW m \in Nat, m >= 1
  PROVE  /\ m - 1 \in Int /\ (IF 1 <= m - 1 THEN m - 1 - 1 + 1 ELSE 0) = m - 1
         /\ \A i \in 1 .. m - 1 :
              i \in 1 .. m /\ i \in 1 .. m - 1 - 1 + 1 /\ 1 + i - 1 = i
         /\ m # 1 => m >= 2 /\ m - 1 \in Nat \ {0} /\ 1 \in 1 .. m - 1 /\ m - 1 \in 1 .. m - 1
  OBVIOUS

\* Front drops the last element.
LEMMA FrontProperties ==
  ASSUME NEW S, NEW s \in Seq(S), Len(s) >= 1
  PROVE  /\ Front(s) \in Seq(S) /\ Len(Front(s)) = Len(s) - 1
         /\ \A i \in 1 .. Len(s) - 1 : Front(s)[i] = s[i]
<1> DEFINE n == Len(s) - 1
<1>1. Len(s) \in Nat
  BY LenProperties
<1>2. /\ n \in Int /\ (IF 1 <= n THEN n - 1 + 1 ELSE 0) = n
      /\ \A i \in 1 .. n : i \in 1 .. Len(s) /\ i \in 1 .. n - 1 + 1 /\ 1 + i - 1 = i
  BY <1>1, FrontIndices, Zenon
<1> HIDE DEF n
<1>3. \A i \in 1 .. n : s[i] \in S
  BY <1>2, ElementOfSeq
<1>4. /\ SubSeq(s, 1, n) \in Seq(S)
      /\ Len(SubSeq(s, 1, n)) = IF 1 <= n THEN n - 1 + 1 ELSE 0
      /\ \A i \in 1 .. n - 1 + 1 : SubSeq(s, 1, n)[i] = s[1 + i - 1]
  BY <1>2, <1>3, SubSeqProperties
<1>5. /\ SubSeq(s, 1, n) \in Seq(S) /\ Len(SubSeq(s, 1, n)) = n
      /\ \A i \in 1 .. n : SubSeq(s, 1, n)[i] = s[i]
  BY <1>2, <1>4
<1> QED
  BY <1>5 DEF Front, n

\* Leaving a section gives the word it saved, FALSE within another section.
LEMMA SavePop ==
  ASSUME NEW s, Saved(s), Len(s) >= 1
  PROVE  /\ Saved(Front(s)) /\ Len(Front(s)) = Len(s) - 1
         /\ Last(s) \in BOOLEAN
         /\ Len(s) >= 2 => ~Last(s)
         /\ Front(s) = << >> => Last(s) = s[1]
         /\ Front(s) # << >> => Len(s) >= 2 /\ Front(s)[1] = s[1]
<1> DEFINE t == Front(s)
<1>1. s \in Seq(BOOLEAN) /\ (\A m \in 2 .. Len(s) : ~s[m]) /\ Len(s) \in Nat
  BY LenProperties DEF Saved
<1>a. Len(s) \in Nat
  BY <1>1
<1>2. Len(s) \in 1 .. Len(s) /\ (Len(s) >= 2 => Len(s) \in 2 .. Len(s))
  BY <1>a
<1>3. Last(s) \in BOOLEAN /\ (Len(s) >= 2 => ~Last(s))
  BY <1>1, <1>2, ElementOfSeq DEF Last
<1>4. /\ t \in Seq(BOOLEAN) /\ Len(t) = Len(s) - 1
      /\ \A i \in 1 .. Len(s) - 1 : t[i] = s[i]
  BY <1>1, FrontProperties
<1> HIDE DEF t
<1>b. Len(t) = Len(s) - 1
  BY <1>4
<1>5. \A m \in 2 .. Len(t) : ~t[m]
  <2> TAKE m \in 2 .. Len(t)
  <2>1. m \in 1 .. Len(s) - 1 /\ m \in 2 .. Len(s)
    BY <1>a, <1>b
  <2> QED
    BY <1>1, <1>4, <2>1
<1>c. t = << >> <=> Len(t) = 0
  BY <1>4, EmptySeq
<1>6. t = << >> <=> Len(s) = 1
  BY <1>a, <1>b, <1>c
<1>7. t = << >> => Last(s) = s[1]
  BY <1>6 DEF Last
<1>8. t # << >> => Len(s) >= 2 /\ t[1] = s[1]
  <2>1. SUFFICES ASSUME t # << >> PROVE Len(s) >= 2 /\ t[1] = s[1]
    OBVIOUS
  <2>2. Len(s) # 1
    BY <1>6, <2>1, Zenon
  <2>3. Len(s) >= 2 /\ 1 \in 1 .. Len(s) - 1
    BY <1>a, <2>2, FrontIndices, Zenon
  <2> QED
    BY <1>4, <2>3
<1> QED
  BY <1>3, <1>4, <1>5, <1>7, <1>8 DEF t, Saved

----------------------------------------------------------------------------
(* The stack.                                                              *)

\* What the invariant says of the running frame.
LEMMA TopFacts ==
  ASSUME TypeOK
  PROVE  /\ Len(stack) \in Nat \ {0} /\ Len(stack) \in 1 .. Len(stack)
         /\ Top \in Frames /\ Top = stack[Len(stack)] /\ On(Len(stack)) = pie
         /\ \A k \in 1 .. Len(stack) : stack[k] \in Frames
<1>1. stack \in Seq(Frames) /\ stack # << >>
  BY DEF TypeOK
<1>2. Len(stack) \in Nat /\ Len(stack) # 0
  BY <1>1, LenProperties, EmptySeq
<1>3. Len(stack) \in 1 .. Len(stack)
  BY <1>2
<1>4. \A k \in 1 .. Len(stack) : stack[k] \in Frames
  BY <1>1, ElementOfSeq
<1> QED
  BY <1>2, <1>3, <1>4 DEF Top, On

\* The running frame changes.
LEMMA BecomesStack ==
  ASSUME TypeOK, NEW f \in Frames, Becomes(f)
  PROVE  /\ Len(stack') = Len(stack) /\ stack' \in Seq(Frames) /\ stack' # << >>
         /\ stack'[Len(stack)] = f
         /\ \A k \in 1 .. Len(stack) : k # Len(stack) => stack'[k] = stack[k]
<1>1. stack \in Seq(Frames) /\ stack # << >> /\ Len(stack) \in 1 .. Len(stack)
  BY TopFacts DEF TypeOK
<1>2. stack' = [stack EXCEPT ![Len(stack)] = f]
  BY DEF Becomes
<1>3. /\ stack' \in Seq(Frames) /\ Len(stack') = Len(stack)
      /\ stack'[Len(stack)] = f
      /\ \A k \in 1 .. Len(stack) : k # Len(stack) => stack'[k] = stack[k]
  BY <1>1, <1>2, ExceptSeq
<1>4. stack' # << >>
  BY <1>1, <1>3, EmptySeq
<1> QED
  BY <1>3, <1>4

\* An exception is taken.  The frame below only learns that its instruction
\* raised it.
LEMMA PushStack ==
  ASSUME TypeOK, NEW f \in Frames, Push(f)
  PROVE  /\ Len(stack') = Len(stack) + 1 /\ stack' \in Seq(Frames) /\ stack' # << >>
         /\ stack'[Len(stack) + 1] = f
         /\ stack'[Len(stack)] = [Top EXCEPT !.trap = (f.cause = "inst") \/ Top.trap]
         /\ \A k \in 1 .. Len(stack) : k # Len(stack) => stack'[k] = stack[k]
<1> DEFINE g == [Top EXCEPT !.trap = (f.cause = "inst") \/ Top.trap]
           s == [stack EXCEPT ![Len(stack)] = g]
<1>1. stack \in Seq(Frames) /\ stack # << >> /\ Len(stack) \in 1 .. Len(stack) /\ Top \in Frames
      /\ Len(stack) \in Nat
  BY TopFacts DEF TypeOK
<1>2. g \in Frames
  <2>1. ((f.cause = "inst") \/ Top.trap) \in BOOLEAN
    OBVIOUS
  <2> QED
    BY <1>1, <2>1 DEF Frames
<1>3. stack' = Append(s, f)
  BY <1>1 DEF Push, Top
<1> HIDE DEF g
<1>4. /\ s \in Seq(Frames) /\ Len(s) = Len(stack)
      /\ \A k \in 1 .. Len(stack) : s[k] = IF k = Len(stack) THEN g ELSE stack[k]
  BY <1>1, <1>2, ExceptSeq
<1> HIDE DEF s
<1>5. /\ stack' \in Seq(Frames) /\ stack' # << >> /\ Len(stack') = Len(s) + 1
      /\ \A k \in 1 .. Len(s) : stack'[k] = s[k]
      /\ stack'[Len(s) + 1] = f
  BY <1>3, <1>4, AppendProperties
<1> QED
  BY <1>1, <1>4, <1>5 DEF g

\* An exception returns, and the frame below may learn that its instruction
\* was done with.
LEMMA PopStack ==
  ASSUME TypeOK, eret, Len(stack) # 1
  PROVE  /\ Len(stack') = Len(stack) - 1 /\ stack' \in Seq(Frames) /\ stack' # << >>
         /\ \E b \in BOOLEAN : stack'[Len(stack) - 1] = [stack[Len(stack) - 1] EXCEPT !.trap = b]
         /\ \A k \in 1 .. Len(stack) - 1 : k # Len(stack) - 1 => stack'[k] = stack[k]
<1> DEFINE n == Len(stack) - 1
           below == Front(stack)
<1>1. stack \in Seq(Frames) /\ Len(stack) \in Nat \ {0} /\ \A k \in 1 .. Len(stack) : stack[k] \in Frames
  BY TopFacts DEF TypeOK
<1>a. Len(stack) \in Nat \ {0} /\ Len(stack) >= 1
  BY <1>1
<1>2. n \in Nat \ {0} /\ n \in 1 .. n /\ \A k \in 1 .. n : k \in 1 .. Len(stack)
  BY <1>a, FrontIndices, Zenon
<1>3. /\ below \in Seq(Frames) /\ Len(below) = n
      /\ \A k \in 1 .. n : below[k] = stack[k]
  BY <1>1, <1>a, FrontProperties
<1>4. stack[n] \in Frames /\ stack[n].trap \in BOOLEAN
      /\ stack[n] = [stack[n] EXCEPT !.trap = stack[n].trap]
  BY <1>1, <1>2 DEF Frames
<1>5. stack' = below \/ stack' = [below EXCEPT ![Len(below)].trap = FALSE]
  BY DEF eret
<1> HIDE DEF n, below
<1>6. CASE stack' = below
  <2>1. stack' # << >>
    BY <1>2, <1>3, <1>6, EmptySeq
  <2> QED
    BY <1>2, <1>3, <1>4, <1>6, <2>1 DEF n
<1>7. CASE stack' = [below EXCEPT ![Len(below)].trap = FALSE]
  <2> DEFINE g == [stack[n] EXCEPT !.trap = FALSE]
  <2>1. g \in Frames
    BY <1>4 DEF Frames
  <2>2. stack' = [below EXCEPT ![n] = g]
    BY <1>2, <1>3, <1>7
  <2> HIDE DEF g
  <2>3. /\ stack' \in Seq(Frames) /\ Len(stack') = n
        /\ \A k \in 1 .. n : stack'[k] = IF k = n THEN g ELSE below[k]
    BY <1>2, <1>3, <2>1, <2>2, ExceptSeq
  <2>4. stack' # << >>
    BY <1>2, <2>3, EmptySeq
  <2>5. stack'[n] = g /\ \A k \in 1 .. n : k # n => stack'[k] = stack[k]
    BY <1>2, <1>3, <2>3
  <2>6. \E b \in BOOLEAN : stack'[n] = [stack[n] EXCEPT !.trap = b]
    BY <2>5 DEF g
  <2> QED
    BY <2>3, <2>4, <2>5, <2>6 DEF n
<1> QED
  BY <1>5, <1>6, <1>7

\* The trap mark matters to none of the conditions on a frame.
LEMMA TrapSame ==
  ASSUME NEW g \in Frames, NEW b \in BOOLEAN
  PROVE  LET h == [g EXCEPT !.trap = b]
         IN  /\ h \in Frames
             /\ h.pc = g.pc /\ h.cause = g.cause /\ h.est = g.est /\ h.active = g.active
             /\ h.id = g.id /\ h.isr = g.isr /\ h.context = g.context /\ h.old = g.old
             /\ h.ctx = g.ctx /\ h.op = g.op /\ h.arg = g.arg /\ h.new = g.new
             /\ h.skip = g.skip /\ h.trap = b
  BY DEF Frames

\* The conditions on a frame carry over to one with the same fields.
LEMMA SoundSame ==
  ASSUME NEW g, NEW h, NEW p, NEW top,
         h.pc = g.pc, h.est = g.est, h.id = g.id, h.isr = g.isr, h.context = g.context,
         h.old = g.old, h.ctx = g.ctx, h.op = g.op, h.arg = g.arg, h.new = g.new,
         h.skip = g.skip
  PROVE  /\ Sections(g, p) => Sections(h, p)
         /\ Program(g, p, top) => Program(h, p, top)
         /\ Exception(g, p, top) => Exception(h, p, top)
<1>1. Sections(g, p) => Sections(h, p)
  BY DEF Sections, Protected
<1>2. Program(g, p, top) => Program(h, p, top)
  BY DEF Program
<1>3. Exception(g, p, top) => Exception(h, p, top)
  BY DEF Exception
<1> QED
  BY <1>1, <1>2, <1>3

\* The conditions hold when they hold of the new running frame.
LEMMA StackedTop ==
  ASSUME TypeOK, Stacked, NEW f \in Frames, Becomes(f), f.est = Top.est,
         Sections(f, pie'),
         Len(stack) = 1 => Program(f, pie', TRUE),
         Len(stack) # 1 => Exception(f, pie', TRUE)
  PROVE  Stacked'
<1>1. /\ Len(stack') = Len(stack) /\ stack'[Len(stack)] = f
      /\ \A k \in 1 .. Len(stack) : k # Len(stack) => stack'[k] = stack[k]
  BY BecomesStack
<1>2. Len(stack) \in Nat \ {0} /\ Top = stack[Len(stack)]
  BY TopFacts
<1>3. SUFFICES ASSUME NEW k \in 1 .. Len(stack) PROVE FrameOK(k)'
  BY <1>1 DEF Stacked
<1>4. FrameOK(k)
  BY <1>3 DEF Stacked
<1>5. CASE k = Len(stack)
  <2>1. stack'[k] = f /\ On(k)' = pie' /\ (k = Len(stack')) = TRUE
    BY <1>1, <1>5 DEF On
  <2> QED
    BY <1>5, <2>1 DEF FrameOK
<1>6. CASE k # Len(stack)
  <2>1. k + 1 \in 1 .. Len(stack)
    BY <1>2, <1>6
  <2>2. On(k)' = On(k)
    BY <1>1, <1>2, <1>6, <2>1 DEF On
  <2>3. stack'[k] = stack[k] /\ (k = Len(stack')) = (k = Len(stack))
    BY <1>1, <1>6
  <2> QED
    BY <1>4, <2>2, <2>3 DEF FrameOK
<1> QED
  BY <1>5, <1>6

\* They hold when an exception is taken from code that may be interrupted.
LEMMA StackedPush ==
  ASSUME TypeOK, Stacked, NEW c, NEW f \in Frames, f = Frame(c, pie), Push(f), pie' = FALSE,
         Len(stack) = 1 => Top.pc \notin {"reset", "irq_init"},
         Len(stack) # 1 => Top.pc \in InHandler
  PROVE  Stacked'
<1> DEFINE n == Len(stack)
<1>1. /\ Len(stack') = n + 1 /\ stack'[n + 1] = f
      /\ stack'[n] = [Top EXCEPT !.trap = (f.cause = "inst") \/ Top.trap]
      /\ \A k \in 1 .. n : k # n => stack'[k] = stack[k]
  BY PushStack
<1>2. n \in Nat \ {0} /\ Top = stack[n] /\ Top \in Frames /\ On(n) = pie /\ FrameOK(n)
  BY TopFacts DEF Stacked
<1>a. n \in Nat \ {0} /\ Len(stack') = n + 1
  BY <1>1, <1>2
<1>3. SUFFICES ASSUME NEW k \in 1 .. n + 1 PROVE FrameOK(k)'
  BY <1>1 DEF Stacked
<1> HIDE DEF n
<1>4. CASE k = n + 1
  <2>1. k # 1 /\ stack'[k] = f /\ On(k)' = FALSE /\ (k = Len(stack')) = TRUE
    BY <1>1, <1>a, <1>4 DEF On
  <2>2. Sections(f, FALSE)
    BY EmptySeq DEF Sections, Protected, Frame, Dispatching, Instruction, Registering, Setting
  <2>3. Exception(f, FALSE, TRUE)
    BY DEF Exception, Frame, InHandler, Dispatching, Instruction, Setting, Unset
  <2> QED
    BY <2>1, <2>2, <2>3 DEF FrameOK
<1>5. CASE k = n
  <2> DEFINE h == [Top EXCEPT !.trap = (f.cause = "inst") \/ Top.trap]
  <2>1. stack'[k] = h /\ On(k)' = On(k) /\ (k = Len(stack')) = FALSE
    <3>1. k # Len(stack') /\ k + 1 = n + 1
      BY <1>a, <1>5
    <3>2. f.est = pie
      BY DEF Frame
    <3> QED
      BY <1>1, <1>2, <1>5, <3>1, <3>2 DEF On
  <2>2. ((f.cause = "inst") \/ Top.trap) \in BOOLEAN
    OBVIOUS
  <2>3. /\ h.pc = Top.pc /\ h.est = Top.est /\ h.id = Top.id /\ h.isr = Top.isr
        /\ h.context = Top.context /\ h.old = Top.old /\ h.ctx = Top.ctx /\ h.op = Top.op
        /\ h.arg = Top.arg /\ h.new = Top.new /\ h.skip = Top.skip
    BY <1>2, <2>2, TrapSame
  <2> HIDE DEF h
  <2>4. Sections(h, On(k))
    BY <1>2, <1>5, <2>3, SoundSame DEF FrameOK
  <2>5. CASE n = 1
    <3>1. Program(Top, On(k), TRUE) /\ Top.pc \notin {"reset", "irq_init"}
      BY <1>2, <1>5, <2>5 DEF FrameOK, n
    <3>2. Program(Top, On(k), FALSE)
      BY <3>1 DEF Program
    <3>3. Program(h, On(k), FALSE)
      BY <2>3, <3>2, SoundSame
    <3> QED
      BY <1>5, <2>1, <2>4, <2>5, <3>3 DEF FrameOK
  <2>6. CASE n # 1
    <3>1. Exception(Top, On(k), TRUE) /\ Top.pc \in InHandler
      BY <1>2, <1>5, <2>6 DEF FrameOK, n
    <3>2. Exception(Top, On(k), FALSE)
      BY <3>1 DEF Exception
    <3>3. Exception(h, On(k), FALSE)
      BY <2>3, <3>2, SoundSame
    <3> QED
      BY <1>5, <2>1, <2>4, <2>6, <3>3 DEF FrameOK
  <2> QED
    BY <2>5, <2>6
<1>6. CASE k # n /\ k # n + 1
  <2>1. k \in 1 .. n /\ k + 1 \in 1 .. n /\ k # Len(stack') /\ k # n
    BY <1>a, <1>6
  <2>2. stack'[k] = stack[k] /\ stack'[k + 1].est = stack[k + 1].est
    <3>1. [Top EXCEPT !.trap = (f.cause = "inst") \/ Top.trap].est = Top.est
      BY <1>2 DEF Frames
    <3> QED
      BY <1>1, <1>2, <2>1, <3>1
  <2>3. On(k)' = On(k) /\ (k = Len(stack')) = FALSE /\ (k = n) = FALSE
    BY <2>1, <2>2 DEF On, n
  <2>4. FrameOK(k)
    BY <2>1 DEF Stacked, n
  <2> QED
    BY <2>2, <2>3, <2>4 DEF FrameOK, n
<1> QED
  BY <1>4, <1>5, <1>6

\* They hold when an exception returns.
LEMMA StackedPop ==
  ASSUME TypeOK, Stacked, eret, Len(stack) # 1
  PROVE  Stacked'
<1> DEFINE n == Len(stack)
<1>1. /\ Len(stack') = n - 1
      /\ \E b \in BOOLEAN : stack'[n - 1] = [stack[n - 1] EXCEPT !.trap = b]
      /\ \A k \in 1 .. n - 1 : k # n - 1 => stack'[k] = stack[k]
  BY PopStack
<1>2. n \in Nat \ {0} /\ Top = stack[n] /\ \A k \in 1 .. n : stack[k] \in Frames /\ FrameOK(k)
  BY TopFacts DEF Stacked
<1>a. n \in Nat \ {0} /\ n # 1 /\ Len(stack') = n - 1
  BY <1>1, <1>2
<1>3. SUFFICES ASSUME NEW k \in 1 .. n - 1 PROVE FrameOK(k)'
  BY <1>1 DEF Stacked
<1>4. pie' = Top.est
  BY DEF eret
<1> HIDE DEF n
<1>b. k \in 1 .. n /\ k # n /\ k + 1 \in 1 .. n
  BY <1>a, <1>3
<1>5. CASE k = n - 1
  <2>1. PICK b \in BOOLEAN : stack'[k] = [stack[k] EXCEPT !.trap = b]
    BY <1>1, <1>5
  <2>2. On(k)' = On(k) /\ (k = Len(stack')) = TRUE /\ (k = n) = FALSE
    <3>1. k + 1 = n
      BY <1>a, <1>5
    <3> QED
      BY <1>a, <1>2, <1>4, <1>5, <1>b, <3>1 DEF On, n
  <2> DEFINE h == [stack[k] EXCEPT !.trap = b]
  <2>3. /\ h.pc = stack[k].pc /\ h.est = stack[k].est /\ h.id = stack[k].id
        /\ h.isr = stack[k].isr /\ h.context = stack[k].context /\ h.old = stack[k].old
        /\ h.ctx = stack[k].ctx /\ h.op = stack[k].op /\ h.arg = stack[k].arg
        /\ h.new = stack[k].new /\ h.skip = stack[k].skip
    BY <1>2, <1>b, <2>1, TrapSame
  <2> HIDE DEF h
  <2>4. /\ Sections(stack[k], On(k))
        /\ IF k = 1 THEN Program(stack[k], On(k), FALSE) ELSE Exception(stack[k], On(k), FALSE)
    BY <1>2, <1>b, <2>2 DEF FrameOK, n
  <2>5. /\ Program(stack[k], On(k), FALSE) => Program(stack[k], On(k), TRUE)
        /\ Exception(stack[k], On(k), FALSE) => Exception(stack[k], On(k), TRUE)
    BY DEF Program, Exception
  <2>6. /\ Sections(h, On(k))
        /\ IF k = 1 THEN Program(h, On(k), TRUE) ELSE Exception(h, On(k), TRUE)
    BY <2>3, <2>4, <2>5, SoundSame
  <2>7. stack'[k] = h
    BY <2>1 DEF h
  <2> QED
    BY <2>2, <2>6, <2>7 DEF FrameOK
<1>6. CASE k # n - 1
  <2>1. k + 1 \in 1 .. n - 1 /\ k # Len(stack')
    BY <1>a, <1>3, <1>6
  <2>2. stack'[k] = stack[k] /\ stack'[k + 1].est = stack[k + 1].est
    <3>1. CASE k + 1 # n - 1
      BY <1>1, <1>6, <2>1, <3>1
    <3>2. CASE k + 1 = n - 1
      <4>1. PICK b \in BOOLEAN : stack'[n - 1] = [stack[n - 1] EXCEPT !.trap = b]
        BY <1>1
      <4> QED
        BY <1>1, <1>2, <1>6, <1>b, <3>2, <4>1 DEF Frames
    <3> QED
      BY <3>1, <3>2
  <2>3. On(k)' = On(k) /\ (k = Len(stack')) = FALSE /\ (k = n) = FALSE
    BY <1>b, <2>1, <2>2 DEF On, n
  <2> QED
    BY <1>2, <1>b, <2>2, <2>3 DEF FrameOK, n
<1> QED
  BY <1>5, <1>6

----------------------------------------------------------------------------
(* The running frame, action by action.                                    *)

\* What the invariant says of the running frame.
LEMMA Running ==
  ASSUME IInv
  PROVE  /\ TypeOK /\ Stacked /\ Top \in Frames /\ pie \in BOOLEAN
         /\ Sections(Top, pie) /\ Saved(Top.ctx)
         /\ Len(Top.ctx) \in Nat /\ (Top.ctx = << >> <=> Len(Top.ctx) = 0)
         /\ Len(stack) = 1 => Program(Top, pie, TRUE)
         /\ Len(stack) # 1 => Exception(Top, pie, TRUE)
<1>1. TypeOK /\ Stacked /\ pie \in BOOLEAN
  BY DEF IInv, TypeOK
<1>2. Top \in Frames /\ Top = stack[Len(stack)] /\ On(Len(stack)) = pie /\ FrameOK(Len(stack))
  BY <1>1, TopFacts DEF Stacked
<1>3. /\ Sections(Top, pie)
      /\ Len(stack) = 1 => Program(Top, pie, TRUE)
      /\ Len(stack) # 1 => Exception(Top, pie, TRUE)
  BY <1>2 DEF FrameOK
<1>4. Top.ctx \in Seq(BOOLEAN)
  BY <1>2 DEF Frames, Words
<1>5. Saved(Top.ctx)
  BY <1>3, <1>4 DEF Sections, Saved
<1>6. Len(Top.ctx) \in Nat /\ (Top.ctx = << >> <=> Len(Top.ctx) = 0)
  BY <1>4, LenProperties, EmptySeq
<1> QED
  BY <1>1, <1>2, <1>3, <1>5, <1>6

\* The frame that has moved on to p.
LEMMA MovedOn ==
  ASSUME NEW g \in Frames, NEW p \in Pcs
  PROVE  LET f == [g EXCEPT !.pc = p]
         IN  /\ f \in Frames /\ f.pc = p
             /\ f.cause = g.cause /\ f.est = g.est /\ f.active = g.active
             /\ f.id = g.id /\ f.isr = g.isr /\ f.context = g.context /\ f.old = g.old
             /\ f.ctx = g.ctx /\ f.op = g.op /\ f.arg = g.arg /\ f.new = g.new
             /\ f.skip = g.skip /\ f.trap = g.trap
  BY DEF Frames

\* The frame changes only its place.
LEMMA StackedGoto ==
  ASSUME IInv, NEW p \in Pcs, Goto(p),
         \/ /\ Top.pc = "reset" /\ p = "irq_init" /\ pie' = pie
         \/ /\ Top.pc = "irq_init" /\ p = "code" /\ pie' = TRUE
         \/ /\ Top.pc = "crit_off" /\ p = Home /\ pie' = FALSE
         \/ /\ Top.pc = "reg_off" /\ p = "reg_handler" /\ pie' = FALSE
         \/ /\ Top.pc = "reg_handler" /\ p = "reg_context" /\ pie' = pie
         \/ /\ Top.pc = "set_off" /\ p = "set_active" /\ pie' = FALSE
         \/ /\ Top.pc = "set_active" /\ p = "set_ienable" /\ pie' = pie
         \/ /\ Top.pc = "set_ienable" /\ p = "set_on" /\ pie' = pie
         \/ /\ Top.pc = "isr" /\ p = "served" /\ pie' = pie
         \/ /\ Top.pc = "entry" /\ p = "instruction" /\ pie' = pie
         \/ /\ Top.pc = "entry" /\ Top.est /\ p = "handler" /\ pie' = pie
         \/ /\ Top.pc = "instruction" /\ p = "break" /\ pie' = pie
  PROVE  Stacked'
<1> DEFINE f == [Top EXCEPT !.pc = p]
<1>1. /\ TypeOK /\ Stacked /\ Top \in Frames /\ pie \in BOOLEAN
      /\ Sections(Top, pie) /\ Len(Top.ctx) \in Nat /\ (Top.ctx = << >> <=> Len(Top.ctx) = 0)
      /\ Len(stack) = 1 => Program(Top, pie, TRUE)
      /\ Len(stack) # 1 => Exception(Top, pie, TRUE)
  BY Running
<1>2. /\ f \in Frames /\ f.pc = p /\ f.est = Top.est /\ f.id = Top.id /\ f.isr = Top.isr
      /\ f.context = Top.context /\ f.old = Top.old /\ f.ctx = Top.ctx /\ f.op = Top.op
      /\ f.arg = Top.arg /\ f.new = Top.new /\ f.skip = Top.skip
  BY <1>1, MovedOn
<1>3. Becomes(f)
  BY DEF Goto
<1> HIDE DEF f
<1>4. Sections(f, pie')
  BY <1>1, <1>2 DEF Sections, Protected, Home, Dispatching, Instruction, Registering, Setting
<1>5. Len(stack) = 1 => Program(f, pie', TRUE)
  BY <1>1, <1>2 DEF Program, Home, Registering, Setting
<1>6. Len(stack) # 1 => Exception(f, pie', TRUE)
  BY <1>1, <1>2 DEF Exception, Home, InHandler, Dispatching, Instruction, Setting
<1> QED
  BY <1>1, <1>2, <1>3, <1>4, <1>5, <1>6, StackedTop

\* The frame saves the status word: alt_irq_disable_all before it clears PIE.
LEMMA StackedSave ==
  ASSUME IInv, NEW f \in Frames, Becomes(f), pie' = pie, f.ctx = Append(Top.ctx, pie),
         f.est = Top.est, f.id = Top.id, f.isr = Top.isr, f.context = Top.context,
         f.old = Top.old, f.skip = Top.skip,
         \/ /\ Top.pc \in {"code", "served"} /\ f.pc = "crit_off"
         \/ /\ Top.pc = "code" /\ Len(stack) = 1 /\ f.pc = "reg_off" /\ f.arg \in Irqs
            /\ \/ f.op = "register" /\ f.new # NoIsr
               \/ f.op = "unregister" /\ f.new = NoIsr
         \/ /\ Top.pc = "reg_context" /\ f.pc = "set_off"
            /\ f.op = Top.op /\ f.arg = Top.arg /\ f.new = Top.new
         \/ /\ Top.pc \in {"code", "served"} /\ f.pc = "set_off"
            /\ f.op \in {"enable", "disable"} /\ f.arg \in Irqs
  PROVE  Stacked'
<1>1. /\ TypeOK /\ Stacked /\ Top \in Frames /\ pie \in BOOLEAN
      /\ Sections(Top, pie) /\ Saved(Top.ctx)
      /\ Len(Top.ctx) \in Nat /\ (Top.ctx = << >> <=> Len(Top.ctx) = 0)
      /\ Len(stack) = 1 => Program(Top, pie, TRUE)
      /\ Len(stack) # 1 => Exception(Top, pie, TRUE)
  BY Running
<1>2. Len(Top.ctx) > 0 => ~pie
  BY <1>1 DEF Sections, Protected
<1>3. /\ Saved(f.ctx) /\ Len(f.ctx) = Len(Top.ctx) + 1 /\ f.ctx # << >>
      /\ f.ctx[1] = IF Top.ctx = << >> THEN pie ELSE Top.ctx[1]
  BY <1>1, <1>2, SavePush
<1>4. Sections(f, pie')
  <2>1. Protected(f) => ~pie'
    BY <1>1, <1>2, <1>3 DEF Protected
  <2>2. Len(f.ctx) >= 1 /\ (Len(Top.ctx) >= 1 => Len(f.ctx) >= 2)
    BY <1>1, <1>3
  <2>3. Top.pc = "reg_context" => Len(Top.ctx) >= 1
    BY <1>1 DEF Sections, Registering
  <2> QED
    BY <1>3, <2>1, <2>2, <2>3 DEF Sections, Saved, Dispatching, Instruction, Registering, Setting
<1>5. Len(stack) = 1 => Program(f, pie', TRUE)
  BY <1>1 DEF Program, Registering, Setting
<1>6. Len(stack) # 1 => Exception(f, pie', TRUE)
  BY <1>1, <1>3 DEF Exception, InHandler, Dispatching, Instruction, Registering, Setting
<1> QED
  BY <1>1, <1>4, <1>5, <1>6, StackedTop

\* The frame leaves a section: alt_irq_enable_all.
LEMMA StackedRestore ==
  ASSUME IInv, NEW f \in Frames, Becomes(f), pie' = Last(Top.ctx), f.ctx = Front(Top.ctx),
         f.est = Top.est, f.id = Top.id, f.isr = Top.isr, f.context = Top.context,
         f.old = Top.old, f.skip = Top.skip, f.op = Top.op, f.arg = Top.arg, f.new = Top.new,
         \/ /\ Top.pc \in {"code", "served"} /\ Top.ctx # << >> /\ f.pc = Home
         \/ /\ Top.pc = "set_on" /\ f.pc = IF Top.op \in {"register", "unregister"}
                                           THEN "reg_on" ELSE Home
         \/ /\ Top.pc = "reg_on" /\ f.pc = Home
  PROVE  Stacked' /\ pie' \in BOOLEAN
<1>1. /\ TypeOK /\ Stacked /\ Top \in Frames /\ pie \in BOOLEAN
      /\ Sections(Top, pie) /\ Saved(Top.ctx)
      /\ Len(Top.ctx) \in Nat /\ (Top.ctx = << >> <=> Len(Top.ctx) = 0)
      /\ Len(stack) = 1 => Program(Top, pie, TRUE)
      /\ Len(stack) # 1 => Exception(Top, pie, TRUE)
  BY Running
<1>2. Len(Top.ctx) >= 1
  BY <1>1 DEF Sections, Registering, Setting
<1>3. /\ Saved(f.ctx) /\ Len(f.ctx) = Len(Top.ctx) - 1 /\ pie' \in BOOLEAN
      /\ Len(Top.ctx) >= 2 => ~pie'
      /\ f.ctx = << >> => pie' = Top.ctx[1]
      /\ f.ctx # << >> => Len(Top.ctx) >= 2 /\ f.ctx[1] = Top.ctx[1]
  BY <1>1, <1>2, SavePop
<1>4. Sections(f, pie')
  <2>1. Protected(f) => ~pie'
    BY <1>1, <1>3 DEF Protected
  <2>2. f.pc = "reg_on" => Len(f.ctx) >= 1
    <3>1. f.pc = "reg_on" => Len(Top.ctx) >= 2
      BY <1>1 DEF Sections, Home, Setting
    <3> QED
      BY <1>1, <1>3, <3>1
  <2> QED
    BY <1>3, <2>1, <2>2 DEF Sections, Saved, Home, Dispatching, Instruction, Registering, Setting
<1>5. Len(stack) = 1 => Program(f, pie', TRUE)
  BY <1>1 DEF Program, Home, Registering, Setting
<1>6. Len(stack) # 1 => Exception(f, pie', TRUE)
  <2>1. Len(stack) # 1 => Top.pc \in {"served", "set_on"} /\ f.pc = "served"
    BY <1>1 DEF Exception, Home, InHandler, Dispatching, Instruction, Setting
  <2>2. Len(stack) # 1 => (Top.ctx[1] => Top.old # Unset)
    BY <1>1, <1>2 DEF Exception
  <2> QED
    BY <1>1, <1>3, <2>1, <2>2 DEF Exception, InHandler, Dispatching, Instruction, Setting
<1> QED
  BY <1>1, <1>3, <1>4, <1>5, <1>6, StackedTop

\* The dispatcher, the handlers it calls and the exceptions of instructions.
LEMMA StackedHandler ==
  ASSUME IInv, NEW f \in Frames, Becomes(f), pie' \in BOOLEAN, f.est = Top.est, f.ctx = Top.ctx,
         f.op = Top.op, f.arg = Top.arg, f.new = Top.new,
         \/ /\ Top.pc = "handler" /\ f.pc = "find" /\ pie' = pie
            /\ f.isr = Top.isr /\ f.old = Top.old
         \/ /\ Top.pc = "find" /\ f.pc = "isr" /\ pie' = pie /\ f.id \in Irqs
            /\ f.isr # NoIsr /\ f.isr = f.context /\ f.old = Top.old
         \/ /\ Top.pc = "isr" /\ f.pc = "isr" /\ f.old # Unset
            /\ f.id = Top.id /\ f.isr = Top.isr /\ f.context = Top.context
         \/ /\ Top.pc = "served" /\ f.pc = "served" /\ f.ctx = << >> /\ pie' = FALSE
            /\ f.id = Top.id /\ f.isr = Top.isr /\ f.context = Top.context
         \/ /\ Top.pc = "served" /\ Top.ctx = << >> /\ Top.old = Unset /\ f.old = Unset
            /\ f.pc \in {"find", "exit"} /\ f.isr = NoIsr /\ pie' = pie
         \/ /\ Top.pc = "instruction" /\ f.pc = "repaired" /\ pie' = pie
            /\ f.id = Top.id /\ f.isr = Top.isr /\ f.context = Top.context /\ f.old = Top.old
  PROVE  Stacked'
<1>1. /\ TypeOK /\ Stacked /\ Top \in Frames /\ pie \in BOOLEAN
      /\ Sections(Top, pie) /\ Len(Top.ctx) \in Nat /\ (Top.ctx = << >> <=> Len(Top.ctx) = 0)
      /\ Len(stack) = 1 => Program(Top, pie, TRUE)
      /\ Len(stack) # 1 => Exception(Top, pie, TRUE)
  BY Running
<1>2. Len(stack) # 1
  BY <1>1 DEF Program, Registering, Setting
<1>3. f.ctx = << >> /\ Len(f.ctx) = 0
  BY <1>1 DEF Sections, Dispatching, Instruction
<1>4. Sections(f, pie')
  BY <1>1, <1>3 DEF Sections, Protected, Dispatching, Instruction, Registering, Setting
<1>5. Exception(f, pie', TRUE)
  BY <1>1, <1>2, <1>3 DEF Exception, InHandler, Dispatching, Instruction, Setting
<1> QED
  BY <1>1, <1>2, <1>4, <1>5, StackedTop

----------------------------------------------------------------------------
(* Every step keeps the stack in order.                                    *)

\* The order of the naturals, as a relation.
NatLess == {p \in Nat \X Nat : p[1] < p[2]}

\* It is well founded.
LEMMA NatLessFounded == IsWellFoundedOn(NatLess, Nat)
  BY NatLessThanWellFounded DEF OpToRel, NatLess

\* A set of interrupts that is not empty has a lowest one.
LEMMA MinExists ==
  ASSUME NEW T \in SUBSET Nat, T # {}
  PROVE  Min(T) \in T /\ \A y \in T : Min(T) <= y
<1>1. PICK x \in T : \A y \in T : ~(<<y, x>> \in NatLess)
  BY NatLessFounded, WFMin
<1>2. ASSUME NEW y \in T PROVE x <= y
  <2>1. x \in Nat /\ y \in Nat /\ ~(<<y, x>> \in NatLess)
    BY <1>1
  <2>2. y < x => <<y, x>> \in NatLess
    BY <2>1 DEF NatLess
  <2> QED
    BY <2>1, <2>2
<1>3. \E z \in T : \A y \in T : z <= y
  BY <1>2
<1> QED
  BY <1>3 DEF Min

\* The handler that alt_irq_handler calls is that of a pending interrupt.
LEMMA ChosenReady ==
  ASSUME IInv, At("find"), Top.active # {}
  PROVE  Chosen \in Top.active /\ Chosen \in Irqs /\ Ready(Chosen)
<1>1. Top \in Frames /\ Top = stack[Len(stack)] /\ Len(stack) \in 1 .. Len(stack)
  BY TopFacts DEF IInv
<1>2. Top.active \subseteq Irqs
  BY <1>1 DEF Frames, Bits
<1>3. Irqs \subseteq Nat
  BY IrqAssumption DEF Irqs
<1>4. Chosen \in Top.active
  BY <1>2, <1>3, MinExists DEF Chosen
<1>5. \A i \in Top.active : Ready(i)
  BY <1>1 DEF IInv, Table, At
<1> QED
  BY <1>2, <1>4, <1>5

\* Calls that save or restore the status word.
LEMMA StackSections ==
  ASSUME IInv,
         \/ EnterCritical \/ RegisterContext \/ alt_irq_enable_all \/ SetOn \/ RegisterOn
         \/ \E id \in Irqs, isr \in Isrs \cup {NoIsr} : CallRegister(id, isr)
         \/ \E id \in Irqs, op \in {"enable", "disable"} : CallSet(op, id)
  PROVE  Stacked' /\ stack' \in Seq(Frames) /\ stack' # << >> /\ pie' \in BOOLEAN
<1>1. /\ TypeOK /\ Top \in Frames /\ pie \in BOOLEAN /\ Saved(Top.ctx)
      /\ Sections(Top, pie) /\ Len(Top.ctx) \in Nat /\ (Top.ctx = << >> <=> Len(Top.ctx) = 0)
  BY Running
<1>2. Append(Top.ctx, pie) \in Words
  BY <1>1, AppendProperties DEF Saved, Words
<1>3. Home \in Pcs
  BY DEF Home, Pcs
<1>4. CASE EnterCritical
  <2> DEFINE f == [Top EXCEPT !.pc = "crit_off", !.ctx = Append(@, pie)]
  <2>1. /\ f \in Frames /\ f.pc = "crit_off" /\ f.ctx = Append(Top.ctx, pie) /\ f.est = Top.est
        /\ f.id = Top.id /\ f.isr = Top.isr /\ f.context = Top.context /\ f.old = Top.old
        /\ f.skip = Top.skip
    BY <1>1, <1>2 DEF Frames, Pcs
  <2>2. Becomes(f) /\ Top.pc \in {"code", "served"} /\ pie' = pie
    BY <1>4 DEF EnterCritical, ReadStatus, InOwnCode, At
  <2> QED
    BY <1>1, <2>1, <2>2, StackedSave, BecomesStack
<1>5. CASE RegisterContext
  <2> DEFINE f == [Top EXCEPT !.pc = "set_off", !.ctx = Append(@, pie)]
  <2>1. /\ f \in Frames /\ f.pc = "set_off" /\ f.ctx = Append(Top.ctx, pie) /\ f.est = Top.est
        /\ f.id = Top.id /\ f.isr = Top.isr /\ f.context = Top.context /\ f.old = Top.old
        /\ f.skip = Top.skip /\ f.op = Top.op /\ f.arg = Top.arg /\ f.new = Top.new
    BY <1>1, <1>2 DEF Frames, Pcs
  <2>2. Becomes(f) /\ Top.pc = "reg_context" /\ pie' = pie
    BY <1>5 DEF RegisterContext, ReadStatus, At
  <2> QED
    BY <1>1, <2>1, <2>2, StackedSave, BecomesStack
<1>6. ASSUME NEW id \in Irqs, NEW isr \in Isrs \cup {NoIsr}, CallRegister(id, isr)
      PROVE  Stacked' /\ stack' \in Seq(Frames) /\ stack' # << >> /\ pie' \in BOOLEAN
  <2> DEFINE op == IF isr = NoIsr THEN "unregister" ELSE "register"
             f == [Top EXCEPT !.op = op, !.arg = id, !.new = isr, !.ctx = Append(@, pie),
                              !.pc = "reg_off"]
  <2>2. Becomes(f) /\ Len(stack) = 1 /\ Top.pc = "code" /\ pie' = pie
    BY <1>6 DEF CallRegister, At
  <2>a. /\ op \in Ops /\ id \in Ids /\ isr \in Handlers /\ "reg_off" \in Pcs
        /\ \/ op = "register" /\ isr # NoIsr
           \/ op = "unregister" /\ isr = NoIsr
    BY <1>6 DEF Pcs, Ops, Ids, Handlers
  <2> HIDE DEF op
  <2>1. /\ f \in Frames /\ f.pc = "reg_off" /\ f.ctx = Append(Top.ctx, pie) /\ f.est = Top.est
        /\ f.id = Top.id /\ f.isr = Top.isr /\ f.context = Top.context /\ f.old = Top.old
        /\ f.skip = Top.skip /\ f.op = op /\ f.arg = id /\ f.new = isr
    BY <1>1, <1>2, <2>a DEF Frames
  <2> HIDE DEF f
  <2> QED
    BY <1>1, <1>6, <2>1, <2>2, <2>a, StackedSave, BecomesStack
<1>7. ASSUME NEW id \in Irqs, NEW op \in {"enable", "disable"}, CallSet(op, id)
      PROVE  Stacked' /\ stack' \in Seq(Frames) /\ stack' # << >> /\ pie' \in BOOLEAN
  <2> DEFINE f == [Top EXCEPT !.op = op, !.arg = id, !.ctx = Append(@, pie), !.pc = "set_off"]
  <2>1. /\ f \in Frames /\ f.pc = "set_off" /\ f.ctx = Append(Top.ctx, pie) /\ f.est = Top.est
        /\ f.id = Top.id /\ f.isr = Top.isr /\ f.context = Top.context /\ f.old = Top.old
        /\ f.skip = Top.skip /\ f.op = op /\ f.arg = id
    BY <1>1, <1>2, <1>7 DEF Frames, Pcs, Ops, Ids
  <2>2. Becomes(f) /\ Top.pc \in {"code", "served"} /\ pie' = pie
    BY <1>7 DEF CallSet, InOwnCode, At
  <2> HIDE DEF f
  <2> QED
    BY <1>1, <1>7, <2>1, <2>2, StackedSave, BecomesStack
<1>8. ASSUME NEW p \in Pcs, RestoreStatus(p), Len(Top.ctx) >= 1,
             \/ /\ Top.pc \in {"code", "served"} /\ Top.ctx # << >> /\ p = Home
             \/ /\ Top.pc = "set_on" /\ p = IF Top.op \in {"register", "unregister"}
                                            THEN "reg_on" ELSE Home
             \/ /\ Top.pc = "reg_on" /\ p = Home
      PROVE  Stacked' /\ stack' \in Seq(Frames) /\ stack' # << >> /\ pie' \in BOOLEAN
  <2> DEFINE f == [Top EXCEPT !.pc = p, !.ctx = Front(@)]
  <2>1. Front(Top.ctx) \in Words
    BY <1>1, <1>8, SavePop DEF Saved, Words
  <2>2. /\ f \in Frames /\ f.pc = p /\ f.ctx = Front(Top.ctx) /\ f.est = Top.est
        /\ f.id = Top.id /\ f.isr = Top.isr /\ f.context = Top.context /\ f.old = Top.old
        /\ f.skip = Top.skip /\ f.op = Top.op /\ f.arg = Top.arg /\ f.new = Top.new
    BY <1>1, <1>8, <2>1 DEF Frames
  <2>3. Becomes(f) /\ pie' = Last(Top.ctx)
    BY <1>8 DEF RestoreStatus, StatusBack
  <2> HIDE DEF f
  <2> QED
    BY <1>1, <1>8, <2>2, <2>3, StackedRestore, BecomesStack
<1>9. CASE alt_irq_enable_all
  BY <1>1, <1>3, <1>8, <1>9 DEF alt_irq_enable_all, InOwnCode, At
<1>10. CASE SetOn
  <2>1. Top.pc = "set_on" /\ RestoreStatus(IF Top.op \in {"register", "unregister"} THEN "reg_on" ELSE Home)
    BY <1>10 DEF SetOn, At
  <2>2. Len(Top.ctx) >= 1
    BY <1>1, <2>1 DEF Sections, Setting
  <2>3. (IF Top.op \in {"register", "unregister"} THEN "reg_on" ELSE Home) \in Pcs
    BY <1>3 DEF Pcs
  <2> QED
    BY <1>8, <2>1, <2>2, <2>3
<1>11. CASE RegisterOn
  <2>1. Top.pc = "reg_on" /\ RestoreStatus(Home)
    BY <1>11 DEF RegisterOn, At
  <2>2. Len(Top.ctx) >= 1
    BY <1>1, <2>1 DEF Sections, Registering
  <2> QED
    BY <1>3, <1>8, <2>1, <2>2
<1> QED
  BY <1>4, <1>5, <1>6, <1>7, <1>9, <1>10, <1>11

\* Steps that only move the running frame on.
LEMMA StackMoves ==
  ASSUME IInv,
         \/ altera_nios2_gen2_irq_init \/ alt_irq_cpu_enable_interrupts \/ alt_irq_disable_all
         \/ RegisterOff \/ RegisterHandler \/ SetOff \/ SetActive \/ SetIenable
         \/ IsrServe \/ alt_irq_entry
  PROVE  Stacked' /\ stack' \in Seq(Frames) /\ stack' # << >> /\ pie' \in BOOLEAN
<1>1. TypeOK /\ Top \in Frames /\ pie \in BOOLEAN
  BY Running
<1>2. ASSUME NEW p \in Pcs, Goto(p) PROVE stack' \in Seq(Frames) /\ stack' # << >>
  <2>1. [Top EXCEPT !.pc = p] \in Frames /\ Becomes([Top EXCEPT !.pc = p])
    BY <1>1, <1>2, MovedOn DEF Goto
  <2> QED
    BY <1>1, <2>1, BecomesStack
<1> USE DEF At
<1>3. CASE altera_nios2_gen2_irq_init
  <2>1. Top.pc = "reset" /\ Goto("irq_init") /\ pie' = pie /\ "irq_init" \in Pcs
    BY <1>3 DEF altera_nios2_gen2_irq_init, Pcs
  <2> QED
    BY <1>1, <1>2, <2>1, StackedGoto
<1>4. CASE alt_irq_cpu_enable_interrupts
  <2>1. Top.pc = "irq_init" /\ Goto("code") /\ pie' = TRUE /\ "code" \in Pcs
    BY <1>4 DEF alt_irq_cpu_enable_interrupts, Pcs
  <2> QED
    BY <1>1, <1>2, <2>1, StackedGoto
<1>5. CASE alt_irq_disable_all
  <2>1. Top.pc = "crit_off" /\ Goto(Home) /\ pie' = FALSE /\ Home \in Pcs
    BY <1>5 DEF alt_irq_disable_all, StatusOff, Home, Pcs
  <2> QED
    BY <1>1, <1>2, <2>1, StackedGoto
<1>6. CASE RegisterOff
  <2>1. Top.pc = "reg_off" /\ Goto("reg_handler") /\ pie' = FALSE /\ "reg_handler" \in Pcs
    BY <1>6 DEF RegisterOff, StatusOff, Pcs
  <2> QED
    BY <1>1, <1>2, <2>1, StackedGoto
<1>7. CASE RegisterHandler
  <2>1. Top.pc = "reg_handler" /\ Goto("reg_context") /\ pie' = pie /\ "reg_context" \in Pcs
    BY <1>7 DEF RegisterHandler, Pcs
  <2> QED
    BY <1>1, <1>2, <2>1, StackedGoto
<1>8. CASE SetOff
  <2>1. Top.pc = "set_off" /\ Goto("set_active") /\ pie' = FALSE /\ "set_active" \in Pcs
    BY <1>8 DEF SetOff, StatusOff, Pcs
  <2> QED
    BY <1>1, <1>2, <2>1, StackedGoto
<1>9. CASE SetActive
  <2>1. Top.pc = "set_active" /\ Goto("set_ienable") /\ pie' = pie /\ "set_ienable" \in Pcs
    BY <1>9 DEF SetActive, Pcs
  <2> QED
    BY <1>1, <1>2, <2>1, StackedGoto
<1>10. CASE SetIenable
  <2>1. Top.pc = "set_ienable" /\ Goto("set_on") /\ pie' = pie /\ "set_on" \in Pcs
    BY <1>10 DEF SetIenable, Pcs
  <2> QED
    BY <1>1, <1>2, <2>1, StackedGoto
<1>11. CASE IsrServe
  <2>1. Top.pc = "isr" /\ Goto("served") /\ pie' = pie /\ "served" \in Pcs
    BY <1>11 DEF IsrServe, Pcs
  <2> QED
    BY <1>1, <1>2, <2>1, StackedGoto
<1>12. CASE alt_irq_entry
  <2>1. /\ Top.pc = "entry" /\ pie' = pie
        /\ \/ Goto("handler") /\ Top.est
           \/ Goto("instruction")
    BY <1>12 DEF alt_irq_entry, IsInterrupt
  <2>2. "handler" \in Pcs /\ "instruction" \in Pcs
    BY DEF Pcs
  <2>3. CASE Goto("handler") /\ Top.est
    BY <1>1, <1>2, <2>1, <2>2, <2>3, StackedGoto
  <2>4. CASE Goto("instruction")
    BY <1>1, <1>2, <2>1, <2>2, <2>4, StackedGoto
  <2> QED
    BY <2>1, <2>3, <2>4
<1> QED
  BY <1>3, <1>4, <1>5, <1>6, <1>7, <1>8, <1>9, <1>10, <1>11, <1>12

\* Steps of the dispatcher, of handlers and of instruction exceptions.
LEMMA StackHandlers ==
  ASSUME IInv,
         \/ HandlerRead \/ CallHandler \/ alt_irq_interruptible \/ alt_irq_non_interruptible
         \/ IsrReturn \/ alt_instruction_exception_entry
  PROVE  Stacked' /\ stack' \in Seq(Frames) /\ stack' # << >> /\ pie' \in BOOLEAN
<1>1. TypeOK /\ Top \in Frames /\ pie \in BOOLEAN
  BY Running
<1>2. alt_irq_pending \in Bits /\ alt_priority_mask \in Bits
      /\ alt_irq \in [Irqs -> [handler : Handlers, context : Handlers]]
  BY <1>1 DEF TypeOK, alt_irq_pending, Bits
<1>a. {"find", "isr", "exit", "repaired", "break"} \subseteq Pcs /\ -1 \in Ids /\ NoIsr \in Handlers
      /\ Unset \in Masks
  BY DEF Pcs, Ids, Handlers, Masks
<1> USE DEF At
<1>3. CASE HandlerRead
  <2> DEFINE f == [Top EXCEPT !.pc = "find", !.active = alt_irq_pending]
  <2>1. Becomes(f) /\ Top.pc = "handler" /\ pie' = pie
    BY <1>3 DEF HandlerRead
  <2>2. /\ f \in Frames /\ f.pc = "find" /\ f.est = Top.est /\ f.ctx = Top.ctx
        /\ f.op = Top.op /\ f.arg = Top.arg /\ f.new = Top.new
        /\ f.isr = Top.isr /\ f.old = Top.old
    BY <1>1, <1>2, <1>a DEF Frames
  <2> HIDE DEF f
  <2> QED
    BY <1>1, <2>1, <2>2, StackedHandler, BecomesStack
<1>4. CASE CallHandler
  <2> DEFINE f == [Top EXCEPT !.pc = "isr", !.id = Chosen, !.isr = alt_irq[Chosen].handler,
                              !.context = alt_irq[Chosen].context]
  <2>1. Becomes(f) /\ Top.pc = "find" /\ pie' = pie /\ Chosen \in Irqs /\ Ready(Chosen)
    BY <1>4, ChosenReady DEF CallHandler
  <2>2. Chosen \in Ids /\ alt_irq[Chosen].handler \in Handlers /\ alt_irq[Chosen].context \in Handlers
    BY <1>2, <2>1 DEF Ids
  <2>3. /\ f \in Frames /\ f.pc = "isr" /\ f.est = Top.est /\ f.ctx = Top.ctx
        /\ f.op = Top.op /\ f.arg = Top.arg /\ f.new = Top.new
        /\ f.id = Chosen /\ f.isr = alt_irq[Chosen].handler
        /\ f.context = alt_irq[Chosen].context /\ f.old = Top.old
    BY <1>1, <1>a, <2>2 DEF Frames
  <2> HIDE DEF f
  <2>4. f.isr # NoIsr /\ f.isr = f.context /\ f.id \in Irqs
    BY <2>1, <2>3 DEF Ready
  <2> QED
    BY <1>1, <2>1, <2>3, <2>4, StackedHandler, BecomesStack
<1>5. CASE alt_irq_interruptible
  <2> DEFINE f == [Top EXCEPT !.old = <<alt_priority_mask>>]
  <2>1. Becomes(f) /\ Top.pc = "isr" /\ pie' = TRUE
    BY <1>5 DEF alt_irq_interruptible
  <2>2. <<alt_priority_mask>> \in Masks /\ <<alt_priority_mask>> # Unset
    BY <1>2 DEF Masks, Unset
  <2>3. /\ f \in Frames /\ f.pc = Top.pc /\ f.est = Top.est /\ f.ctx = Top.ctx
        /\ f.op = Top.op /\ f.arg = Top.arg /\ f.new = Top.new
        /\ f.id = Top.id /\ f.isr = Top.isr /\ f.context = Top.context
        /\ f.old = <<alt_priority_mask>>
    BY <1>1, <2>2 DEF Frames
  <2> HIDE DEF f
  <2>4. f.old # Unset
    BY <2>2, <2>3
  <2> QED
    BY <1>1, <2>1, <2>3, <2>4, StackedHandler, BecomesStack
<1>6. CASE alt_irq_non_interruptible
  <2> DEFINE f == [Top EXCEPT !.old = Unset]
  <2>1. Becomes(f) /\ Top.pc = "served" /\ Top.ctx = << >> /\ pie' = FALSE
    BY <1>6 DEF alt_irq_non_interruptible
  <2>2. /\ f \in Frames /\ f.pc = Top.pc /\ f.est = Top.est /\ f.ctx = Top.ctx
        /\ f.op = Top.op /\ f.arg = Top.arg /\ f.new = Top.new
        /\ f.id = Top.id /\ f.isr = Top.isr /\ f.context = Top.context
    BY <1>1, <1>a DEF Frames
  <2> HIDE DEF f
  <2> QED
    BY <1>1, <2>1, <2>2, StackedHandler, BecomesStack
<1>7. CASE IsrReturn
  <2> DEFINE p == IF LoopsOn THEN "find" ELSE "exit"
             f == [Top EXCEPT !.active = alt_irq_pending, !.pc = p, !.id = -1,
                              !.isr = NoIsr, !.context = NoIsr]
  <2>1. Becomes(f) /\ Top.pc = "served" /\ Top.ctx = << >> /\ Top.old = Unset /\ pie' = pie
    BY <1>7 DEF IsrReturn
  <2>2. p \in Pcs /\ p \in {"find", "exit"}
    BY <1>a
  <2> HIDE DEF p
  <2>3. /\ f \in Frames /\ f.pc = p /\ f.est = Top.est /\ f.ctx = Top.ctx
        /\ f.op = Top.op /\ f.arg = Top.arg /\ f.new = Top.new
        /\ f.isr = NoIsr /\ f.old = Top.old
    BY <1>1, <1>2, <1>a, <2>2 DEF Frames
  <2> HIDE DEF f
  <2> QED
    BY <1>1, <2>1, <2>2, <2>3, StackedHandler, BecomesStack
<1>8. CASE alt_instruction_exception_entry
  <2>1. /\ Top.pc = "instruction" /\ pie' = pie
        /\ \/ \E skip \in BOOLEAN : Becomes([Top EXCEPT !.pc = "repaired", !.skip = skip])
           \/ Goto("break")
    BY <1>8 DEF alt_instruction_exception_entry
  <2>2. ASSUME NEW skip \in BOOLEAN, Becomes([Top EXCEPT !.pc = "repaired", !.skip = skip])
        PROVE  Stacked' /\ stack' \in Seq(Frames) /\ stack' # << >>
    <3> DEFINE f == [Top EXCEPT !.pc = "repaired", !.skip = skip]
    <3>1. /\ f \in Frames /\ f.pc = "repaired" /\ f.est = Top.est /\ f.ctx = Top.ctx
          /\ f.op = Top.op /\ f.arg = Top.arg /\ f.new = Top.new /\ f.old = Top.old
          /\ f.id = Top.id /\ f.isr = Top.isr /\ f.context = Top.context
      BY <1>1, <1>a, <2>2 DEF Frames
    <3>2. Becomes(f)
      BY <2>2
    <3> HIDE DEF f
    <3> QED
      BY <1>1, <2>1, <3>1, <3>2, StackedHandler, BecomesStack
  <2>3. CASE Goto("break")
    <3>1. [Top EXCEPT !.pc = "break"] \in Frames /\ Becomes([Top EXCEPT !.pc = "break"])
      BY <1>1, <1>a, <2>3, MovedOn DEF Goto
    <3> QED
      BY <1>1, <1>a, <2>1, <2>3, <3>1, StackedGoto, BecomesStack
  <2> QED
    BY <1>1, <2>1, <2>2, <2>3
<1> QED
  BY <1>3, <1>4, <1>5, <1>6, <1>7, <1>8

\* Exceptions are taken and return.
LEMMA StackExceptions ==
  ASSUME IInv, TakeInterrupt \/ Trap \/ TrapAgain \/ eret
  PROVE  Stacked' /\ stack' \in Seq(Frames) /\ stack' # << >> /\ pie' \in BOOLEAN
<1>1. /\ TypeOK /\ Stacked /\ Top \in Frames /\ pie \in BOOLEAN
      /\ Len(stack) = 1 => Program(Top, pie, TRUE)
      /\ Len(stack) # 1 => Exception(Top, pie, TRUE)
  BY Running
<1>2. ASSUME NEW c \in Causes, NEW e \in BOOLEAN PROVE Frame(c, e) \in Frames
  <2>1. /\ {} \in Bits /\ -1 \in Ids /\ NoIsr \in Handlers /\ Unset \in Masks /\ << >> \in Words
        /\ "entry" \in Pcs /\ "none" \in Ops
    BY EmptySeq DEF Bits, Ids, Handlers, Masks, Words, Pcs, Ops
  <2> QED
    BY <1>2, <2>1 DEF Frame, Frames
<1>3. CASE TakeInterrupt
  <2>1. Push(Frame("irq", TRUE)) /\ pie' = FALSE /\ pie = TRUE /\ "irq" \in Causes
    BY <1>1, <1>3 DEF TakeInterrupt, Causes
  <2>2. Frame("irq", pie) \in Frames /\ Push(Frame("irq", pie))
    BY <1>1, <1>2, <2>1
  <2>3. /\ Len(stack) = 1 => Top.pc \notin {"reset", "irq_init"}
        /\ Len(stack) # 1 => Top.pc \in InHandler
    BY <1>1, <2>1 DEF Program, Exception
  <2> QED
    BY <1>1, <2>1, <2>2, <2>3, StackedPush, PushStack
<1>4. CASE Trap \/ TrapAgain
  <2>1. Push(Frame("inst", pie)) /\ pie' = FALSE /\ Top.pc \in {"code", "served"} /\ "inst" \in Causes
    BY <1>4 DEF Trap, TrapAgain, InOwnCode, At, Causes
  <2>2. Frame("inst", pie) \in Frames
    BY <1>1, <1>2, <2>1
  <2>3. /\ Len(stack) = 1 => Top.pc \notin {"reset", "irq_init"}
        /\ Len(stack) # 1 => Top.pc \in InHandler
    BY <1>1, <2>1 DEF Program, Exception, InHandler, Dispatching, Instruction, Setting
  <2> QED
    BY <1>1, <2>1, <2>2, <2>3, StackedPush, PushStack
<1>5. CASE eret
  <2>1. Top.pc \in {"exit", "repaired"} /\ pie' = Top.est
    BY <1>5 DEF eret, At
  <2>2. Len(stack) # 1
    BY <1>1, <2>1 DEF Program, Registering, Setting
  <2>3. pie' \in BOOLEAN
    BY <1>1, <2>1 DEF Frames
  <2> QED
    BY <1>1, <1>5, <2>2, <2>3, StackedPop, PopStack
<1> QED
  BY <1>3, <1>4, <1>5

\* Every step keeps the stack in order.
LEMMA StackStep ==
  ASSUME IInv, Next
  PROVE  Stacked' /\ stack' \in Seq(Frames) /\ stack' # << >> /\ pie' \in BOOLEAN
<1>1. CASE Device \/ \E set \in BOOLEAN : alt_instruction_exception_register(set)
  <2>1. UNCHANGED <<stack, pie>>
    BY <1>1 DEF Device, Raise, Withdraw, alt_instruction_exception_register
  <2>2. TypeOK /\ Stacked /\ pie \in BOOLEAN
    BY Running
  <2> QED
    BY <2>1, <2>2 DEF TypeOK, Stacked, FrameOK, On
<1> QED
  BY <1>1, StackSections, StackMoves, StackHandlers, StackExceptions DEF Next, Choice, Proceed

\* What the calls work on, and which handlers can be interruptible.
LEMMA CallFacts ==
  ASSUME IInv
  PROVE  /\ Top.pc \in Setting \cup Registering => Top.arg \in Irqs
         /\ Top.pc \in InHandler /\ Len(stack) # 1 => Top.id \in Irqs
         /\ Top.pc \in {"isr", "served"} \cup Dispatching \cup Instruction => Len(stack) # 1
         /\ Top.pc \in {"reset", "irq_init", "code"} \cup Registering => Len(stack) = 1
         /\ Top.new \in Handlers
         /\ Top.old # Unset => Top.old[1] \in Bits
<1>1. /\ Top \in Frames
      /\ Len(stack) = 1 => Program(Top, pie, TRUE)
      /\ Len(stack) # 1 => Exception(Top, pie, TRUE)
  BY Running
<1>2. Top.new \in Handlers /\ Top.old \in Masks
  BY <1>1 DEF Frames
<1>3. Top.old # Unset => Top.old[1] \in Bits
  BY <1>2 DEF Masks
<1>4. Len(stack) # 1 => /\ Top.pc \in Setting \cup Registering => Top.arg \in Irqs
                        /\ Top.pc \in InHandler => Top.id \in Irqs
                        /\ Top.pc \notin {"reset", "irq_init", "code"} \cup Registering
  BY <1>1 DEF Exception, InHandler, Dispatching, Instruction, Registering, Setting
<1>5. Len(stack) = 1 => /\ Top.pc \in Setting \cup Registering => Top.arg \in Irqs
                        /\ Top.pc \notin {"isr", "served"} \cup Dispatching \cup Instruction
  BY <1>1 DEF Program, Dispatching, Instruction, Registering, Setting
<1> QED
  BY <1>2, <1>3, <1>4, <1>5

\* Every step keeps the types.
LEMMA TypeStep ==
  ASSUME IInv, Next
  PROVE  TypeOK'
<1> USE IrqAssumption
<1>1. TypeOK /\ Top \in Frames
  BY Running
<1>2. /\ ienable \in Bits /\ lines \in Bits /\ alt_irq_active \in Bits /\ alt_priority_mask \in Bits
      /\ alt_irq \in [Irqs -> [handler : Handlers, context : Handlers]]
      /\ alt_instruction_exception_handler \in BOOLEAN
      /\ left \in [{"raises", "calls", "traps"} -> Nat]
  BY <1>1 DEF TypeOK
<1>3. stack' \in Seq(Frames) /\ stack' # << >> /\ pie' \in BOOLEAN
  BY StackStep
<1> DEFINE Regs == /\ ienable' \in Bits /\ lines' \in Bits /\ alt_irq_active' \in Bits
                   /\ alt_priority_mask' \in Bits
           Rest == /\ alt_irq' \in [Irqs -> [handler : Handlers, context : Handlers]]
                   /\ alt_instruction_exception_handler' \in BOOLEAN
           Left == left' \in [{"raises", "calls", "traps"} -> Nat]
<1>4. Left
  <2>1. ASSUME NEW b \in {"raises", "calls", "traps"}, Spend(b) PROVE Left
    <3>1. left[b] \in Nat /\ left[b] > 0 /\ left' = [left EXCEPT ![b] = left[b] - 1]
      BY <1>2, <2>1 DEF Spend
    <3>2. left[b] - 1 \in Nat
      BY <3>1
    <3> QED
      BY <1>2, <3>1, <3>2
  <2>2. CASE EnterCritical \/ Trap
    BY <2>1, <2>2 DEF EnterCritical, Trap
  <2>3. ASSUME NEW id \in Irqs, NEW isr \in Isrs \cup {NoIsr}, CallRegister(id, isr) PROVE Left
    BY <2>1, <2>3 DEF CallRegister
  <2>4. ASSUME NEW id \in Irqs, NEW op \in {"enable", "disable"}, CallSet(op, id) PROVE Left
    BY <2>1, <2>4 DEF CallSet
  <2>5. ASSUME NEW set \in BOOLEAN, alt_instruction_exception_register(set) PROVE Left
    BY <2>1, <2>5 DEF alt_instruction_exception_register
  <2>6. CASE Device
    BY <2>1, <2>6 DEF Device, Raise, Withdraw
  <2>7. CASE TakeInterrupt \/ Proceed \/ alt_irq_interruptible
    <3>1. left' = left
      BY <2>7 DEF TakeInterrupt, Proceed, alt_irq_interruptible,
         altera_nios2_gen2_irq_init, alt_irq_cpu_enable_interrupts, alt_irq_disable_all,
         alt_irq_enable_all, RegisterOff, RegisterHandler, RegisterContext, RegisterOn,
         SetOff, SetActive, SetIenable, SetOn, TrapAgain, alt_irq_entry,
         alt_instruction_exception_entry, eret, HandlerRead, CallHandler, IsrServe,
         alt_irq_non_interruptible, IsrReturn
    <3> QED
      BY <1>2, <3>1
  <2> QED
    BY <2>2, <2>3, <2>4, <2>5, <2>6, <2>7 DEF Next, Choice
<1>5. Regs
  <2>1. CASE altera_nios2_gen2_irq_init
    BY <1>2, <2>1 DEF altera_nios2_gen2_irq_init, Globals, Bits
  <2>2. CASE SetActive
    <3>1. Top.arg \in Irqs
      BY <2>2, CallFacts DEF SetActive, At, Setting
    <3> QED
      BY <1>2, <2>2, <3>1 DEF SetActive, Bits
  <2>3. CASE SetIenable
    BY <1>2, <2>3 DEF SetIenable, Globals
  <2>4. CASE IsrServe
    BY <1>2, <2>4 DEF IsrServe, Globals, Bits
  <2>5. CASE alt_irq_interruptible
    <3>1. Top.id \in Irqs
      BY <2>5, CallFacts DEF alt_irq_interruptible, At, InHandler
    <3>2. PriorityMask(Top.id) \in Bits
      BY <3>1 DEF PriorityMask, Irqs, Bits
    <3>3. /\ alt_priority_mask' = PriorityMask(Top.id)
          /\ ienable' = alt_irq_active \cap alt_priority_mask'
          /\ UNCHANGED <<lines, alt_irq_active>>
      BY <2>5 DEF alt_irq_interruptible
    <3> QED
      BY <1>2, <3>2, <3>3 DEF Bits
  <2>6. CASE alt_irq_non_interruptible
    <3>1. Top.old[1] \in Bits
      BY <2>6, CallFacts DEF alt_irq_non_interruptible
    <3> QED
      BY <1>2, <2>6, <3>1 DEF alt_irq_non_interruptible, Unmasked, Bits
  <2>7. CASE Device
    BY <1>2, <2>7 DEF Device, Raise, Withdraw, Globals, Bits
  <2>8. CASE \/ TakeInterrupt \/ EnterCritical \/ Trap
             \/ \E id \in Irqs, isr \in Isrs \cup {NoIsr} : CallRegister(id, isr)
             \/ \E id \in Irqs, op \in {"enable", "disable"} : CallSet(op, id)
             \/ \E set \in BOOLEAN : alt_instruction_exception_register(set)
    BY <1>2, <2>8 DEF TakeInterrupt, EnterCritical, Trap, CallRegister, CallSet,
       alt_instruction_exception_register, Globals
  <2>9. CASE \/ alt_irq_cpu_enable_interrupts \/ alt_irq_disable_all \/ alt_irq_enable_all
             \/ RegisterOff \/ RegisterHandler \/ RegisterContext \/ RegisterOn
             \/ SetOff \/ SetOn \/ TrapAgain \/ alt_irq_entry
             \/ alt_instruction_exception_entry \/ eret
             \/ HandlerRead \/ CallHandler \/ IsrReturn
    BY <1>2, <2>9 DEF alt_irq_cpu_enable_interrupts, alt_irq_disable_all, alt_irq_enable_all,
       RegisterOff, RegisterHandler, RegisterContext, RegisterOn, SetOff, SetOn, TrapAgain,
       alt_irq_entry, alt_instruction_exception_entry, eret, HandlerRead, CallHandler,
       IsrReturn, Globals
  <2> HIDE DEF Regs
  <2> QED
    BY <2>1, <2>2, <2>3, <2>4, <2>5, <2>6, <2>7, <2>8, <2>9 DEF Next, Choice, Proceed
<1>6. Rest
  <2>1. CASE RegisterHandler \/ RegisterContext
    <3>1. Top.arg \in Irqs /\ Top.new \in Handlers
      BY <2>1, CallFacts DEF RegisterHandler, RegisterContext, At, Registering
    <3>2. \/ alt_irq' = [alt_irq EXCEPT ![Top.arg].handler = Top.new]
          \/ alt_irq' = [alt_irq EXCEPT ![Top.arg].context = Top.new]
      BY <2>1 DEF RegisterHandler, RegisterContext
    <3>3. UNCHANGED alt_instruction_exception_handler
      BY <2>1 DEF RegisterHandler, RegisterContext
    <3> QED
      BY <1>2, <3>1, <3>2, <3>3
  <2>2. ASSUME NEW set \in BOOLEAN, alt_instruction_exception_register(set) PROVE Rest
    BY <1>2, <2>2 DEF alt_instruction_exception_register
  <2>3. CASE \/ TakeInterrupt \/ EnterCritical \/ Trap \/ alt_irq_interruptible \/ Device
             \/ \E id \in Irqs, isr \in Isrs \cup {NoIsr} : CallRegister(id, isr)
             \/ \E id \in Irqs, op \in {"enable", "disable"} : CallSet(op, id)
    BY <1>2, <2>3 DEF TakeInterrupt, EnterCritical, Trap, CallRegister, CallSet,
       alt_irq_interruptible, Device, Raise, Withdraw, Globals
  <2>4. CASE \/ altera_nios2_gen2_irq_init
             \/ alt_irq_cpu_enable_interrupts \/ alt_irq_disable_all \/ alt_irq_enable_all
             \/ RegisterOff \/ RegisterOn \/ SetActive \/ SetIenable
             \/ SetOff \/ SetOn \/ TrapAgain \/ alt_irq_entry
             \/ alt_instruction_exception_entry \/ eret
             \/ HandlerRead \/ CallHandler \/ IsrReturn \/ IsrServe \/ alt_irq_non_interruptible
    BY <1>2, <2>4 DEF altera_nios2_gen2_irq_init, alt_irq_cpu_enable_interrupts,
       alt_irq_disable_all, alt_irq_enable_all, RegisterOff, RegisterOn, SetActive, SetIenable,
       SetOff, SetOn, TrapAgain, alt_irq_entry, alt_instruction_exception_entry, eret,
       HandlerRead, CallHandler, IsrReturn, IsrServe, alt_irq_non_interruptible, Globals
  <2> HIDE DEF Rest
  <2> QED
    BY <2>1, <2>2, <2>3, <2>4 DEF Next, Choice, Proceed
<1> QED
  BY <1>3, <1>4, <1>5, <1>6 DEF TypeOK

----------------------------------------------------------------------------
(* Steps that leave the dispatcher's part of the running frame alone.      *)

\* Frame f is the running one after a step that neither reads the pending
\* interrupts nor calls a handler nor changes who may interrupt it.
Kept(f) ==
  /\ f.cause = Top.cause /\ f.est = Top.est /\ f.trap = Top.trap /\ f.active = Top.active
  /\ f.id = Top.id /\ f.isr = Top.isr /\ f.context = Top.context /\ f.old = Top.old

Quiet(f) ==
  /\ Kept(f)
  /\ f.pc \notin {"entry", "find", "isr"}
  /\ Len(stack) # 1 /\ f.skip => f.pc = "repaired"
  /\ f.pc \in {"instruction", "repaired", "break"} /\ ~Glitches /\ Len(stack) # 1 => Top.cause # "irq"
  /\ f.pc \in Setting => \/ Len(stack) = 1 \/ Top.pc \in Setting \/ NestedCalls
                         \/ \A k \in 1 .. Len(stack) : stack[k].old = Unset
  /\ f.pc \in {"set_off", "set_active"} /\ Len(stack) # 1 =>
       f.op # "register" /\ (f.op = "enable" => alt_irq[f.arg].handler # NoIsr)

\* What the invariant says of the cause of the running frame.
LEMMA TopCause ==
  ASSUME IInv, Len(stack) # 1
  PROVE  /\ Top.cause \in {"irq", "inst"}
         /\ Top.cause = "irq" => Top.est
         /\ Top.skip => Top.pc = "repaired"
         /\ ~Glitches /\ Top.cause = "irq" =>
              /\ Top.pc \notin {"instruction", "repaired", "break"}
              /\ Top.pc = "entry" => alt_irq_pending # {}
<1>1. Len(stack) \in Nat \ {0} /\ Top = stack[Len(stack)]
  BY TopFacts DEF IInv
<1>2. Len(stack) \in 2 .. Len(stack)
  BY <1>1
<1>3. CausesKnown
  BY DEF IInv
<1> QED
  BY <1>1, <1>2, <1>3 DEF CausesKnown

\* What the table holds for a call of the running frame.
LEMMA TopCall ==
  ASSUME IInv, Top.pc \in {"set_off", "set_active"}
  PROVE  /\ Top.op = "enable" => alt_irq[Top.arg].handler # NoIsr
         /\ Top.op = "register" => alt_irq[Top.arg].handler = Top.new
         /\ Len(stack) # 1 => Top.op \in {"enable", "disable"}
<1>1. Len(stack) \in 1 .. Len(stack) /\ Top = stack[Len(stack)]
  BY TopFacts DEF IInv
<1>2. Len(stack) # 1 => Exception(Top, pie, TRUE)
  BY Running
<1>3. Table
  BY DEF IInv
<1>4. Len(stack) # 1 => Top.op \in {"enable", "disable"}
  BY <1>2 DEF Exception, Setting
<1> QED
  BY <1>1, <1>3, <1>4 DEF Table

\* The frame only moves on.
LEMMA QuietGoto ==
  ASSUME IInv, NEW p \in Pcs, Goto(p), Top.pc # "repaired",
         p \notin {"entry", "find", "isr", "repaired"},
         p = "instruction" => Top.pc = "entry" /\ ~IsInterrupt,
         p = "break" => Top.pc = "instruction",
         p \in Setting => Top.pc \in Setting,
         p \in {"set_off", "set_active"} => Top.pc = "set_off"
  PROVE  \E f \in Frames : Becomes(f) /\ Quiet(f)
<1> DEFINE f == [Top EXCEPT !.pc = p]
<1>1. /\ f \in Frames /\ f.pc = p /\ Kept(f) /\ f.op = Top.op /\ f.arg = Top.arg /\ f.skip = Top.skip
  BY Running, MovedOn DEF Kept
<1>2. Becomes(f)
  BY DEF Goto
<1> HIDE DEF f
<1>3. Len(stack) # 1 => ~f.skip
  BY <1>1, TopCause
<1>4. f.pc \in {"instruction", "repaired", "break"} /\ ~Glitches /\ Len(stack) # 1 => Top.cause # "irq"
  BY <1>1, TopCause DEF IsInterrupt
<1>5. f.pc \in {"set_off", "set_active"} /\ Len(stack) # 1 =>
        f.op # "register" /\ (f.op = "enable" => alt_irq[f.arg].handler # NoIsr)
  BY <1>1, TopCall
<1>6. f.pc \in Setting => Top.pc \in Setting
  BY <1>1
<1>7. Quiet(f)
  BY <1>1, <1>3, <1>4, <1>5, <1>6 DEF Quiet
<1> QED
  BY <1>1, <1>2, <1>7

\* Every other call of the program and of handlers is quiet too.
LEMMA QuietStep ==
  ASSUME IInv,
         \/ altera_nios2_gen2_irq_init \/ alt_irq_cpu_enable_interrupts \/ alt_irq_disable_all
         \/ RegisterOff \/ RegisterHandler \/ SetOff \/ SetActive \/ SetIenable
         \/ IsrServe \/ alt_irq_entry \/ alt_instruction_exception_entry
         \/ EnterCritical \/ RegisterContext \/ alt_irq_enable_all \/ SetOn \/ RegisterOn
         \/ \E id \in Irqs, isr \in Isrs \cup {NoIsr} : CallRegister(id, isr)
         \/ \E id \in Irqs, op \in {"enable", "disable"} : CallSet(op, id)
  PROVE  \E f \in Frames : Becomes(f) /\ Quiet(f)
<1> DEFINE Goal == \E f \in Frames : Becomes(f) /\ Quiet(f)
<1>1. Top \in Frames /\ pie \in BOOLEAN /\ Saved(Top.ctx) /\ Sections(Top, pie)
      /\ Len(Top.ctx) \in Nat /\ (Top.ctx = << >> <=> Len(Top.ctx) = 0)
  BY Running
<1>2. Append(Top.ctx, pie) \in Words
  BY <1>1, AppendProperties DEF Saved, Words
<1>3. Home \in {"code", "served"} /\ Home \in Pcs
  BY DEF Home, Pcs
<1>4. CASE \/ altera_nios2_gen2_irq_init \/ alt_irq_cpu_enable_interrupts \/ alt_irq_disable_all
           \/ RegisterOff \/ RegisterHandler \/ SetOff \/ SetActive \/ SetIenable \/ IsrServe
  <2>1. \E p \in {"irq_init", "code", "served", "reg_handler", "reg_context", "set_active",
                  "set_ienable", "set_on"} :
          /\ Goto(p) /\ Top.pc # "repaired"
          /\ p \in Setting => Top.pc \in Setting
          /\ p = "set_active" => Top.pc = "set_off"
    BY <1>3, <1>4 DEF altera_nios2_gen2_irq_init, alt_irq_cpu_enable_interrupts,
       alt_irq_disable_all, RegisterOff, RegisterHandler, SetOff, SetActive, SetIenable,
       IsrServe, At, Setting
  <2>2. PICK p \in {"irq_init", "code", "served", "reg_handler", "reg_context", "set_active",
                    "set_ienable", "set_on"} :
          /\ Goto(p) /\ Top.pc # "repaired"
          /\ p \in Setting => Top.pc \in Setting
          /\ p = "set_active" => Top.pc = "set_off"
    BY <2>1
  <2>3. p \in Pcs
    BY DEF Pcs
  <2> QED
    BY <2>2, <2>3, QuietGoto
<1>5. CASE alt_irq_entry
  <2>1. /\ Top.pc = "entry"
        /\ \/ Goto("handler")
           \/ Goto("instruction") /\ ~IsInterrupt
    BY <1>5 DEF alt_irq_entry, At
  <2>2. "handler" \in Pcs /\ "instruction" \in Pcs
    BY DEF Pcs
  <2>3. "handler" \notin Setting /\ "instruction" \notin Setting
    BY DEF Setting
  <2>4. CASE Goto("handler")
    BY <2>1, <2>2, <2>3, <2>4, QuietGoto
  <2>5. CASE Goto("instruction") /\ ~IsInterrupt
    BY <2>1, <2>2, <2>3, <2>5, QuietGoto
  <2> QED
    BY <2>1, <2>4, <2>5
<1>6. CASE alt_instruction_exception_entry
  <2>1. /\ Top.pc = "instruction"
        /\ \/ \E skip \in BOOLEAN : Becomes([Top EXCEPT !.pc = "repaired", !.skip = skip])
           \/ Goto("break")
    BY <1>6 DEF alt_instruction_exception_entry, At
  <2>2. "repaired" \in Pcs /\ "break" \in Pcs /\ "break" \notin Setting /\ "repaired" \notin Setting
    BY DEF Pcs, Setting
  <2>3. ASSUME NEW skip \in BOOLEAN, Becomes([Top EXCEPT !.pc = "repaired", !.skip = skip])
        PROVE  Goal
    <3> DEFINE f == [Top EXCEPT !.pc = "repaired", !.skip = skip]
    <3>1. f \in Frames /\ f.pc = "repaired" /\ Kept(f)
      BY <1>1, <2>2, <2>3 DEF Frames, Kept
    <3>2. Becomes(f)
      BY <2>3
    <3> HIDE DEF f
    <3>3. Len(stack) # 1 /\ ~Glitches => Top.cause # "irq"
      BY <2>1, TopCause
    <3>4. Quiet(f)
      BY <2>2, <3>1, <3>3 DEF Quiet
    <3> QED
      BY <3>1, <3>2, <3>4
  <2>4. CASE Goto("break")
    BY <2>1, <2>2, <2>4, QuietGoto
  <2> QED
    BY <2>1, <2>3, <2>4
<1>7. ASSUME NEW f \in Frames, Becomes(f), Kept(f), f.skip = Top.skip, Top.pc # "repaired",
             \/ f.pc \in {"crit_off", "reg_off", "code", "served", "reg_on"}
             \/ f.pc = "set_off" /\ Len(stack) = 1
             \/ /\ f.pc = "set_off" /\ f.op # "register"
                /\ f.op = "enable" => alt_irq[f.arg].handler # NoIsr
                /\ \/ NestedCalls
                   \/ \A k \in 1 .. Len(stack) : stack[k].old = Unset
      PROVE  Goal
  <2>1. Len(stack) # 1 => ~f.skip
    BY <1>7, TopCause
  <2>2. Quiet(f)
    BY <1>7, <2>1 DEF Quiet, Setting
  <2> QED
    BY <1>7, <2>2
<1>8. CASE EnterCritical \/ RegisterContext
  <2>1. PICK p \in {"crit_off", "set_off"} :
          /\ ReadStatus(p) /\ Top.pc # "repaired"
          /\ p = "set_off" => Top.pc = "reg_context"
    BY <1>8 DEF EnterCritical, RegisterContext, InOwnCode, At
  <2> DEFINE f == [Top EXCEPT !.pc = p, !.ctx = Append(@, pie)]
  <2>2. p \in Pcs
    BY DEF Pcs
  <2>3. f \in Frames /\ f.pc = p /\ Kept(f) /\ f.skip = Top.skip
    BY <1>1, <1>2, <2>2 DEF Frames, Kept
  <2>4. Becomes(f)
    BY <2>1 DEF ReadStatus
  <2> HIDE DEF f
  <2>5. p = "set_off" => Len(stack) = 1
    BY <2>1, CallFacts DEF Registering
  <2> QED
    BY <1>7, <2>1, <2>3, <2>4, <2>5
<1>9. ASSUME NEW id \in Irqs, NEW isr \in Isrs \cup {NoIsr}, CallRegister(id, isr)
      PROVE  Goal
  <2> DEFINE op == IF isr = NoIsr THEN "unregister" ELSE "register"
             f == [Top EXCEPT !.op = op, !.arg = id, !.new = isr, !.ctx = Append(@, pie),
                              !.pc = "reg_off"]
  <2>1. Becomes(f) /\ Top.pc = "code"
    BY <1>9 DEF CallRegister, At
  <2>2. op \in Ops /\ id \in Ids /\ isr \in Handlers /\ "reg_off" \in Pcs
    BY <1>9 DEF Pcs, Ops, Ids, Handlers
  <2> HIDE DEF op
  <2>3. f \in Frames /\ f.pc = "reg_off" /\ Kept(f) /\ f.skip = Top.skip
    BY <1>1, <1>2, <2>2 DEF Frames, Kept
  <2> HIDE DEF f
  <2> QED
    BY <1>7, <2>1, <2>3
<1>10. ASSUME NEW id \in Irqs, NEW op \in {"enable", "disable"}, CallSet(op, id)
       PROVE  Goal
  <2> DEFINE f == [Top EXCEPT !.op = op, !.arg = id, !.ctx = Append(@, pie), !.pc = "set_off"]
  <2>1. /\ Becomes(f) /\ Top.pc \in {"code", "served"}
        /\ op = "enable" => alt_irq[id].handler # NoIsr
        /\ NestedCalls \/ \A k \in DOMAIN stack : stack[k].old = Unset
    BY <1>10 DEF CallSet, InOwnCode, At
  <2>2. DOMAIN stack = 1 .. Len(stack)
    BY Running, LenProperties DEF TypeOK
  <2>3. f \in Frames /\ f.pc = "set_off" /\ Kept(f) /\ f.skip = Top.skip /\ f.op = op /\ f.arg = id
    BY <1>1, <1>2, <1>10 DEF Frames, Pcs, Ops, Ids, Kept
  <2> HIDE DEF f
  <2>4. f.op # "register" /\ (f.op = "enable" => alt_irq[f.arg].handler # NoIsr)
    BY <1>10, <2>1, <2>3
  <2> QED
    BY <1>7, <2>1, <2>2, <2>3, <2>4
<1>11. CASE alt_irq_enable_all \/ SetOn \/ RegisterOn
  <2>1. PICK p \in {"code", "served", "reg_on"} : RestoreStatus(p) /\ Top.pc # "repaired"
    BY <1>3, <1>11 DEF alt_irq_enable_all, SetOn, RegisterOn, InOwnCode, At
  <2>2. Len(Top.ctx) >= 1
    BY <1>1, <1>11 DEF alt_irq_enable_all, SetOn, RegisterOn, At, Sections, Setting, Registering
  <2> DEFINE f == [Top EXCEPT !.pc = p, !.ctx = Front(@)]
  <2>3. Front(Top.ctx) \in Words
    BY <1>1, <2>2, SavePop DEF Saved, Words
  <2>4. p \in Pcs
    BY DEF Pcs
  <2>5. f \in Frames /\ f.pc = p /\ Kept(f) /\ f.skip = Top.skip
    BY <1>1, <2>3, <2>4 DEF Frames, Kept
  <2>6. Becomes(f)
    BY <2>1 DEF RestoreStatus
  <2> HIDE DEF f
  <2> QED
    BY <1>7, <2>1, <2>5, <2>6
<1> HIDE DEF Goal
<1>12. Goal
  BY <1>4, <1>5, <1>6, <1>8, <1>9, <1>10, <1>11 DEF Goal
<1> QED
  BY <1>12 DEF Goal

----------------------------------------------------------------------------
(* Causes.                                                                 *)

\* A frame that is not running is that of the program or of a handler.
LEMMA Waiting ==
  ASSUME IInv, NEW k \in 1 .. Len(stack), k # Len(stack)
  PROVE  /\ k = 1 => stack[k].old = Unset /\ stack[k].isr = NoIsr
         /\ k # 1 => stack[k].pc \in InHandler /\ stack[k].isr # NoIsr /\ stack[k].est
         /\ stack[k].pc \notin {"reset"} \cup Dispatching \cup Instruction
<1>1. FrameOK(k)
  BY DEF IInv, Stacked
<1>2. CASE k = 1
  BY <1>1, <1>2 DEF FrameOK, Program, Dispatching, Instruction, Registering, Setting
<1>3. CASE k # 1
  <2>1. Exception(stack[k], On(k), FALSE)
    BY <1>1, <1>3 DEF FrameOK
  <2> QED
    BY <1>3, <2>1 DEF Exception, InHandler, Dispatching, Instruction, Setting
<1> QED
  BY <1>2, <1>3

\* The running frame changes and keeps its cause.
LEMMA CausesTop ==
  ASSUME IInv, NEW f \in Frames, Becomes(f),
         f.cause = Top.cause, f.est = Top.est, f.trap = Top.trap, f.pc # "entry",
         Len(stack) # 1 /\ f.skip => f.pc = "repaired",
         f.pc \in {"instruction", "repaired", "break"} /\ ~Glitches /\ Len(stack) # 1
           => Top.cause # "irq"
  PROVE  CausesKnown'
<1> DEFINE n == Len(stack)
<1>1. /\ Len(stack') = n /\ stack'[n] = f
      /\ \A k \in 1 .. n : k # n => stack'[k] = stack[k]
  BY BecomesStack DEF IInv
<1>2. n \in Nat \ {0} /\ Top = stack[n]
  BY TopFacts DEF IInv
<1>3. SUFFICES ASSUME NEW k \in 2 .. n
               PROVE  /\ stack'[k].cause \in {"irq", "inst"}
                      /\ stack'[k].cause = "inst" => stack'[k - 1].trap
                      /\ stack'[k].cause = "irq" => stack'[k].est
                      /\ stack'[k].skip => stack'[k].pc = "repaired"
                      /\ ~Glitches /\ stack'[k].cause = "irq" =>
                           /\ stack'[k].pc \notin {"instruction", "repaired", "break"}
                           /\ stack'[k].pc # "entry"
  BY <1>1 DEF CausesKnown
<1>4. /\ stack[k].cause \in {"irq", "inst"}
      /\ stack[k].cause = "inst" => stack[k - 1].trap
      /\ stack[k].cause = "irq" => stack[k].est
      /\ stack[k].skip => stack[k].pc = "repaired"
      /\ ~Glitches /\ stack[k].cause = "irq" =>
            stack[k].pc \notin {"instruction", "repaired", "break"}
  BY <1>3 DEF IInv, CausesKnown
<1> HIDE DEF n
<1>5. k - 1 \in 1 .. n /\ k - 1 # n /\ k \in 1 .. n
  BY <1>2, <1>3
<1>6. stack'[k - 1] = stack[k - 1]
  BY <1>1, <1>5
<1>7. CASE k = n
  <2>1. n # 1
    BY <1>3, <1>7
  <2>2. stack'[k] = f /\ stack[k] = Top
    BY <1>1, <1>2, <1>7
  <2> QED
    BY <1>4, <1>6, <2>1, <2>2 DEF n
<1>8. CASE k # n
  <2>1. stack'[k] = stack[k]
    BY <1>1, <1>5, <1>8
  <2>2. stack[k].pc \notin Dispatching \cup Instruction
    BY <1>5, <1>8, Waiting DEF n
  <2> QED
    BY <1>4, <1>6, <2>1, <2>2 DEF Instruction
<1> QED
  BY <1>7, <1>8

\* An exception is taken: with interrupts on and one pending, or because the
\* running instruction raised it.
LEMMA CausesPush ==
  ASSUME IInv, NEW c, NEW f \in Frames, f = Frame(c, pie), Push(f), UNCHANGED <<lines, ienable>>,
         \/ c = "irq" /\ pie /\ alt_irq_pending # {}
         \/ c = "inst",
         Top.pc # "entry"
  PROVE  CausesKnown'
<1> DEFINE n == Len(stack)
           g == [Top EXCEPT !.trap = (f.cause = "inst") \/ Top.trap]
<1>1. /\ Len(stack') = n + 1 /\ stack'[n + 1] = f /\ stack'[n] = g
      /\ \A k \in 1 .. n : k # n => stack'[k] = stack[k]
  BY PushStack DEF IInv
<1>2. n \in Nat \ {0} /\ Top = stack[n] /\ Top \in Frames
  BY TopFacts DEF IInv
<1>3. ((f.cause = "inst") \/ Top.trap) \in BOOLEAN
  OBVIOUS
<1>4. /\ g.pc = Top.pc /\ g.cause = Top.cause /\ g.est = Top.est /\ g.skip = Top.skip
      /\ g.trap = ((f.cause = "inst") \/ Top.trap)
  BY <1>2, <1>3, TrapSame
<1>5. f.pc = "entry" /\ f.cause = c /\ f.est = pie /\ ~f.skip
  BY DEF Frame
<1>6. alt_irq_pending' = alt_irq_pending
  BY DEF alt_irq_pending
<1> HIDE DEF g
<1>7. SUFFICES ASSUME NEW k \in 2 .. n + 1
               PROVE  /\ stack'[k].cause \in {"irq", "inst"}
                      /\ stack'[k].cause = "inst" => stack'[k - 1].trap
                      /\ stack'[k].cause = "irq" => stack'[k].est
                      /\ stack'[k].skip => stack'[k].pc = "repaired"
                      /\ ~Glitches /\ stack'[k].cause = "irq" =>
                           /\ stack'[k].pc \notin {"instruction", "repaired", "break"}
                           /\ stack'[k].pc = "entry" => alt_irq_pending # {}
  BY <1>1, <1>6 DEF CausesKnown
<1>8. k \in 2 .. n =>
      /\ stack[k].cause \in {"irq", "inst"}
      /\ stack[k].cause = "inst" => stack[k - 1].trap
      /\ stack[k].cause = "irq" => stack[k].est
      /\ stack[k].skip => stack[k].pc = "repaired"
      /\ ~Glitches /\ stack[k].cause = "irq" =>
            /\ stack[k].pc \notin {"instruction", "repaired", "break"}
            /\ stack[k].pc = "entry" => alt_irq_pending # {}
  BY DEF IInv, CausesKnown
<1> HIDE DEF n
<1>9. CASE k = n + 1
  <2>1. k - 1 = n
    BY <1>2, <1>9
  <2> QED
    BY <1>1, <1>4, <1>5, <1>9, <2>1
<1>10. CASE k # n + 1
  <2>1. k \in 2 .. n /\ k \in 1 .. n /\ k - 1 \in 1 .. n /\ k - 1 # n
    BY <1>2, <1>7, <1>10
  <2>2. stack'[k - 1] = stack[k - 1]
    BY <1>1, <2>1
  <2>3. /\ stack'[k].pc = stack[k].pc /\ stack'[k].cause = stack[k].cause
        /\ stack'[k].est = stack[k].est /\ stack'[k].skip = stack[k].skip
    BY <1>1, <1>2, <1>4, <2>1
  <2> QED
    BY <1>8, <2>1, <2>2, <2>3
<1> QED
  BY <1>9, <1>10

\* An exception returns to code that raised none since.
LEMMA CausesPop ==
  ASSUME IInv, eret, Len(stack) # 1
  PROVE  CausesKnown'
<1> DEFINE n == Len(stack)
<1>1. /\ Len(stack') = n - 1
      /\ \E b \in BOOLEAN : stack'[n - 1] = [stack[n - 1] EXCEPT !.trap = b]
      /\ \A k \in 1 .. n - 1 : k # n - 1 => stack'[k] = stack[k]
  BY PopStack DEF IInv
<1>2. n \in Nat \ {0} /\ n # 1 /\ \A k \in 1 .. n : stack[k] \in Frames
  BY TopFacts DEF IInv
<1>3. PICK b \in BOOLEAN : stack'[n - 1] = [stack[n - 1] EXCEPT !.trap = b]
  BY <1>1
<1>4. SUFFICES ASSUME NEW k \in 2 .. n - 1
               PROVE  /\ stack'[k].cause \in {"irq", "inst"}
                      /\ stack'[k].cause = "inst" => stack'[k - 1].trap
                      /\ stack'[k].cause = "irq" => stack'[k].est
                      /\ stack'[k].skip => stack'[k].pc = "repaired"
                      /\ ~Glitches /\ stack'[k].cause = "irq" =>
                           /\ stack'[k].pc \notin {"instruction", "repaired", "break"}
                           /\ stack'[k].pc # "entry"
  BY <1>1 DEF CausesKnown
<1>a. n \in Nat /\ n # 1 /\ n # 0
  BY <1>2
<1> HIDE DEF n
<1>5. k \in 2 .. n /\ k \in 1 .. n /\ k # n /\ k \in 1 .. n - 1 /\ k - 1 \in 1 .. n - 1 /\ k - 1 # n - 1
  BY <1>a, <1>4
<1>6. /\ stack[k].cause \in {"irq", "inst"}
      /\ stack[k].cause = "inst" => stack[k - 1].trap
      /\ stack[k].cause = "irq" => stack[k].est
      /\ stack[k].skip => stack[k].pc = "repaired"
      /\ ~Glitches /\ stack[k].cause = "irq" =>
            stack[k].pc \notin {"instruction", "repaired", "break"}
  BY <1>5 DEF IInv, CausesKnown, n
<1>7. stack[k].pc \notin Dispatching \cup Instruction
  BY <1>5, Waiting DEF n
<1>8. stack'[k - 1] = stack[k - 1]
  BY <1>1, <1>5
<1>9. /\ stack'[k].pc = stack[k].pc /\ stack'[k].cause = stack[k].cause
      /\ stack'[k].est = stack[k].est /\ stack'[k].skip = stack[k].skip
  <2>1. CASE k = n - 1
    <3>1. stack[k] \in Frames /\ stack'[k] = [stack[k] EXCEPT !.trap = b]
      BY <1>2, <1>3, <1>5, <2>1
    <3> QED
      BY <3>1, TrapSame
  <2>2. CASE k # n - 1
    BY <1>1, <1>5, <2>2
  <2> QED
    BY <2>1, <2>2
<1> QED
  BY <1>6, <1>7, <1>8, <1>9 DEF Instruction

----------------------------------------------------------------------------
(* Steps of the dispatcher.                                                *)

Read(f) ==
  /\ HandlerRead /\ Top.pc = "handler" /\ f.pc = "find" /\ f.active = alt_irq_pending
  /\ f.old = Top.old /\ f.isr = Top.isr /\ f.id = Top.id
Called(f) ==
  /\ CallHandler /\ Top.pc = "find" /\ f.pc = "isr" /\ f.id \in Top.active
  /\ f.old = Top.old
Opened(f) ==
  /\ alt_irq_interruptible /\ Top.pc = "isr" /\ f.pc = "isr"
  /\ f.old = <<alt_priority_mask>> /\ f.isr = Top.isr /\ f.id = Top.id
Closed(f) ==
  /\ alt_irq_non_interruptible /\ Top.pc = "served" /\ f.pc = "served"
  /\ f.old = Unset /\ f.isr = Top.isr /\ f.id = Top.id
Returned(f) ==
  /\ IsrReturn /\ Top.pc = "served" /\ f.pc \in {"find", "exit"} /\ f.active = alt_irq_pending
  /\ f.old = Unset /\ f.isr = NoIsr

\* What these steps make of the running frame.
LEMMA DispatchStep ==
  ASSUME IInv,
         \/ HandlerRead \/ CallHandler \/ alt_irq_interruptible \/ alt_irq_non_interruptible
         \/ IsrReturn
  PROVE  \E f \in Frames :
           /\ Becomes(f) /\ f.cause = Top.cause /\ f.est = Top.est /\ f.trap = Top.trap
           /\ f.skip = Top.skip
           /\ Read(f) \/ Called(f) \/ Opened(f) \/ Closed(f) \/ Returned(f)
<1>1. TypeOK /\ Top \in Frames
  BY Running
<1>2. alt_irq_pending \in Bits /\ alt_priority_mask \in Bits
      /\ alt_irq \in [Irqs -> [handler : Handlers, context : Handlers]]
  BY <1>1 DEF TypeOK, alt_irq_pending, Bits
<1>a. {"find", "isr", "exit", "served"} \subseteq Pcs /\ -1 \in Ids /\ NoIsr \in Handlers
      /\ Unset \in Masks
  BY DEF Pcs, Ids, Handlers, Masks
<1> DEFINE Same(f) == /\ f.cause = Top.cause /\ f.est = Top.est /\ f.trap = Top.trap
                      /\ f.skip = Top.skip
<1>3. CASE HandlerRead
  <2> DEFINE f == [Top EXCEPT !.pc = "find", !.active = alt_irq_pending]
  <2>1. Becomes(f) /\ Top.pc = "handler"
    BY <1>3 DEF HandlerRead, At
  <2>2. /\ f \in Frames /\ Same(f) /\ f.pc = "find" /\ f.active = alt_irq_pending
        /\ f.old = Top.old /\ f.isr = Top.isr /\ f.id = Top.id
    BY <1>1, <1>2, <1>a DEF Frames
  <2> HIDE DEF f
  <2> QED
    BY <1>3, <2>1, <2>2 DEF Read
<1>4. CASE CallHandler
  <2> DEFINE f == [Top EXCEPT !.pc = "isr", !.id = Chosen, !.isr = alt_irq[Chosen].handler,
                              !.context = alt_irq[Chosen].context]
  <2>1. Becomes(f) /\ Top.pc = "find" /\ Chosen \in Irqs /\ Chosen \in Top.active
    BY <1>4, ChosenReady DEF CallHandler, At
  <2>2. Chosen \in Ids /\ alt_irq[Chosen].handler \in Handlers /\ alt_irq[Chosen].context \in Handlers
    BY <1>2, <2>1 DEF Ids
  <2>3. f \in Frames /\ Same(f) /\ f.pc = "isr" /\ f.id = Chosen /\ f.old = Top.old
    BY <1>1, <1>a, <2>2 DEF Frames
  <2> HIDE DEF f
  <2> QED
    BY <1>4, <2>1, <2>3 DEF Called
<1>5. CASE alt_irq_interruptible
  <2> DEFINE f == [Top EXCEPT !.old = <<alt_priority_mask>>]
  <2>1. Becomes(f) /\ Top.pc = "isr"
    BY <1>5 DEF alt_irq_interruptible, At
  <2>2. <<alt_priority_mask>> \in Masks
    BY <1>2 DEF Masks
  <2>3. /\ f \in Frames /\ Same(f) /\ f.pc = Top.pc /\ f.old = <<alt_priority_mask>>
        /\ f.isr = Top.isr /\ f.id = Top.id
    BY <1>1, <2>2 DEF Frames
  <2> HIDE DEF f
  <2> QED
    BY <1>5, <2>1, <2>3 DEF Opened
<1>6. CASE alt_irq_non_interruptible
  <2> DEFINE f == [Top EXCEPT !.old = Unset]
  <2>1. Becomes(f) /\ Top.pc = "served"
    BY <1>6 DEF alt_irq_non_interruptible, At
  <2>2. /\ f \in Frames /\ Same(f) /\ f.pc = Top.pc /\ f.old = Unset
        /\ f.isr = Top.isr /\ f.id = Top.id
    BY <1>1, <1>a DEF Frames
  <2> HIDE DEF f
  <2> QED
    BY <1>6, <2>1, <2>2 DEF Closed
<1>7. CASE IsrReturn
  <2> DEFINE p == IF LoopsOn THEN "find" ELSE "exit"
             f == [Top EXCEPT !.active = alt_irq_pending, !.pc = p, !.id = -1,
                              !.isr = NoIsr, !.context = NoIsr]
  <2>1. Becomes(f) /\ Top.pc = "served" /\ Top.old = Unset
    BY <1>7 DEF IsrReturn, At
  <2>2. p \in Pcs /\ p \in {"find", "exit"}
    BY <1>a
  <2> HIDE DEF p
  <2>3. /\ f \in Frames /\ Same(f) /\ f.pc = p /\ f.active = alt_irq_pending
        /\ f.isr = NoIsr /\ f.old = Top.old
    BY <1>1, <1>2, <1>a, <2>2 DEF Frames
  <2> HIDE DEF f
  <2> QED
    BY <1>7, <2>1, <2>2, <2>3 DEF Returned
<1> QED
  BY <1>3, <1>4, <1>5, <1>6, <1>7

\* Every step keeps what is known of the causes.
LEMMA CausesStep ==
  ASSUME IInv, Next
  PROVE  CausesKnown'
<1>1. /\ TypeOK /\ Top \in Frames /\ pie \in BOOLEAN
      /\ Len(stack) = 1 => Program(Top, pie, TRUE)
      /\ Len(stack) # 1 => Exception(Top, pie, TRUE)
  BY Running
<1>2. ASSUME NEW f \in Frames, Becomes(f), Quiet(f) PROVE CausesKnown'
  BY <1>2, CausesTop DEF Quiet, Kept
<1>3. CASE \/ HandlerRead \/ CallHandler \/ alt_irq_interruptible \/ alt_irq_non_interruptible
           \/ IsrReturn
  <2>1. PICK f \in Frames :
           /\ Becomes(f) /\ f.cause = Top.cause /\ f.est = Top.est /\ f.trap = Top.trap
           /\ f.skip = Top.skip
           /\ Read(f) \/ Called(f) \/ Opened(f) \/ Closed(f) \/ Returned(f)
    BY <1>3, DispatchStep
  <2>2. f.pc \in {"find", "isr", "served", "exit"} /\ Top.pc # "repaired"
    BY <2>1 DEF Read, Called, Opened, Closed, Returned
  <2>3. Len(stack) # 1 => ~f.skip
    BY <2>1, <2>2, TopCause
  <2> QED
    BY <2>1, <2>2, <2>3, CausesTop
<1>4. CASE TakeInterrupt \/ Trap \/ TrapAgain
  <2>1. PICK c \in {"irq", "inst"} :
          /\ Push(Frame(c, pie)) /\ UNCHANGED <<lines, ienable>>
          /\ c = "irq" => pie /\ alt_irq_pending # {}
          /\ pie \/ Top.pc \in {"code", "served"}
    BY <1>1, <1>4 DEF TakeInterrupt, Trap, TrapAgain, InOwnCode, At
  <2>2. Frame(c, pie) \in Frames
    <3>1. /\ {} \in Bits /\ -1 \in Ids /\ NoIsr \in Handlers /\ Unset \in Masks /\ << >> \in Words
          /\ "entry" \in Pcs /\ "none" \in Ops /\ c \in Causes
      BY EmptySeq DEF Bits, Ids, Handlers, Masks, Words, Pcs, Ops, Causes
    <3> QED
      BY <1>1, <3>1 DEF Frame, Frames
  <2>3. Top.pc # "entry"
    BY <1>1, <2>1 DEF Program, Exception, Registering, Setting, InHandler
  <2> QED
    BY <2>1, <2>2, <2>3, CausesPush
<1>5. CASE eret
  <2>1. Len(stack) # 1
    BY <1>5, CallFacts DEF eret, At, Dispatching, Instruction
  <2> QED
    BY <1>5, <2>1, CausesPop
<1>6. CASE Device \/ \E set \in BOOLEAN : alt_instruction_exception_register(set)
  <2>1. /\ stack' = stack
        /\ ~Glitches /\ alt_irq_pending # {} => alt_irq_pending' # {}
    BY <1>6 DEF Device, Raise, Withdraw, alt_instruction_exception_register, alt_irq_pending
  <2>2. CausesKnown
    BY DEF IInv
  <2> QED
    BY <2>1, <2>2 DEF CausesKnown
<1> QED
  BY <1>2, <1>3, <1>4, <1>5, <1>6, QuietStep DEF Next, Choice, Proceed

----------------------------------------------------------------------------
(* Priorities.                                                             *)

\* What a frame owes to the interruptible handlers below it.
Under(f, id) ==
  /\ f.old # Unset => f.old[1] \subseteq Below(id)
  /\ f.pc = "find" => f.active \subseteq Below(id)
  /\ f.isr # NoIsr => f.id < id

\* What the invariant says of the running frame and of those below it.
LEMMA TopPriorities ==
  ASSUME IInv, Priorities
  PROVE  /\ \A j \in 1 .. Len(stack) : j # Len(stack) /\ stack[j].old # Unset =>
              /\ Under(Top, stack[j].id)
              /\ alt_priority_mask \subseteq Below(stack[j].id) /\ ienable \subseteq Below(stack[j].id)
         /\ Top.old # Unset =>
              alt_priority_mask \subseteq Below(Top.id) /\ ienable \subseteq Below(Top.id)
         /\ Top.pc \in Setting => \A j \in 1 .. Len(stack) : stack[j].old = Unset
<1>1. Len(stack) \in Nat \ {0} /\ Top = stack[Len(stack)] /\ Len(stack) \in 1 .. Len(stack)
  BY TopFacts DEF IInv
<1>2. \A j \in 1 .. Len(stack) : j <= Len(stack) /\ (j # Len(stack) => j < Len(stack))
  BY <1>1
<1> QED
  BY <1>1, <1>2 DEF Priorities, Under

\* The running frame changes and goes on to owe it.
LEMMA PrioritiesTop ==
  ASSUME IInv, Priorities, NEW f \in Frames, Becomes(f),
         f.pc \in Setting => f.old = Unset /\ \A j \in 1 .. Len(stack) : stack[j].old = Unset,
         f.old # Unset => alt_priority_mask' \subseteq Below(f.id) /\ ienable' \subseteq Below(f.id),
         \A j \in 1 .. Len(stack) : j # Len(stack) /\ stack[j].old # Unset =>
           /\ Under(f, stack[j].id)
           /\ alt_priority_mask' \subseteq Below(stack[j].id) /\ ienable' \subseteq Below(stack[j].id)
  PROVE  Priorities'
<1> DEFINE n == Len(stack)
<1>1. /\ Len(stack') = n /\ stack'[n] = f
      /\ \A k \in 1 .. n : k # n => stack'[k] = stack[k]
  BY BecomesStack DEF IInv
<1>2. n \in Nat \ {0} /\ n \in 1 .. n
  BY TopFacts DEF IInv
<1>3. ASSUME NEW j \in 1 .. n, NEW k \in 1 .. n, j <= k, stack'[k].pc \in Setting
      PROVE  stack'[j].old = Unset
  <2>1. CASE k = n
    BY <1>1, <1>3, <2>1
  <2>2. CASE k # n
    <3>1. j # n
      BY <1>2, <1>3, <2>2
    <3> QED
      BY <1>1, <1>3, <2>2, <3>1 DEF Priorities
  <2> QED
    BY <2>1, <2>2
<1>4. ASSUME NEW k \in 1 .. n, stack'[k].old # Unset
      PROVE  alt_priority_mask' \subseteq Below(stack'[k].id) /\ ienable' \subseteq Below(stack'[k].id)
  BY <1>1, <1>4
<1>5. ASSUME NEW j \in 1 .. n, NEW k \in 1 .. n, j < k, stack'[j].old # Unset
      PROVE  Under(stack'[k], stack'[j].id)
  <2>1. j # n
    BY <1>2, <1>5
  <2>2. stack'[j] = stack[j]
    BY <1>1, <2>1
  <2>3. CASE k = n
    BY <1>1, <1>5, <2>1, <2>2, <2>3
  <2>4. CASE k # n
    BY <1>1, <1>5, <2>2, <2>4 DEF Priorities, Under
  <2> QED
    BY <2>3, <2>4
<1> QED
  BY <1>1, <1>3, <1>4, <1>5 DEF Priorities, Under

\* Frames with the same fields owe the same.
LEMMA PrioritiesSame ==
  ASSUME Priorities, UNCHANGED <<ienable, alt_priority_mask>>, NEW m \in Nat, Len(stack') = m,
         \A k \in 1 .. m :
           \/ /\ k \in 1 .. Len(stack)
              /\ stack'[k].pc = stack[k].pc /\ stack'[k].old = stack[k].old
              /\ stack'[k].id = stack[k].id /\ stack'[k].isr = stack[k].isr
              /\ stack'[k].active = stack[k].active
           \/ stack'[k].pc = "entry" /\ stack'[k].old = Unset /\ stack'[k].isr = NoIsr,
         \A j, k \in 1 .. m : j <= k /\ k \in 1 .. Len(stack) => j \in 1 .. Len(stack)
  PROVE  Priorities'
<1>1. ASSUME NEW j \in 1 .. m, NEW k \in 1 .. m, j <= k, stack'[k].pc \in Setting
      PROVE  stack'[j].old = Unset
  <2>1. k \in 1 .. Len(stack) /\ stack[k].pc \in Setting
    BY <1>1 DEF Setting
  <2> QED
    BY <1>1, <2>1 DEF Priorities
<1>2. ASSUME NEW k \in 1 .. m, stack'[k].old # Unset
      PROVE  alt_priority_mask' \subseteq Below(stack'[k].id) /\ ienable' \subseteq Below(stack'[k].id)
  BY <1>2 DEF Priorities
<1>3. ASSUME NEW j \in 1 .. m, NEW k \in 1 .. m, j < k, stack'[j].old # Unset
      PROVE  Under(stack'[k], stack'[j].id)
  <2>1. CASE stack'[k].pc = "entry" /\ stack'[k].old = Unset /\ stack'[k].isr = NoIsr
    BY <2>1 DEF Under
  <2>2. CASE k \in 1 .. Len(stack) /\ stack'[k].pc = stack[k].pc /\ stack'[k].old = stack[k].old
             /\ stack'[k].id = stack[k].id /\ stack'[k].isr = stack[k].isr
             /\ stack'[k].active = stack[k].active
    BY <1>3, <2>2 DEF Priorities, Under
  <2> QED
    BY <2>1, <2>2
<1> QED
  BY <1>1, <1>2, <1>3 DEF Priorities, Under

\* Every step keeps the priorities when no handler calls anything while it
\* may be interrupted.
LEMMA PrioritiesStep ==
  ASSUME IInv, ~NestedCalls, Next
  PROVE  Priorities'
<1> DEFINE n == Len(stack)
<1>1. /\ TypeOK /\ Top \in Frames /\ pie \in BOOLEAN
      /\ n = 1 => Program(Top, pie, TRUE)
      /\ n # 1 => Exception(Top, pie, TRUE)
  BY Running
<1>2. Priorities
  BY DEF IInv
<1>3. n \in Nat \ {0} /\ Top = stack[n] /\ n \in 1 .. n /\ \A k \in 1 .. n : stack[k] \in Frames
  BY TopFacts DEF IInv
<1>4. n = 1 => Top.old = Unset
  BY <1>1 DEF Program
<1>5. /\ \A j \in 1 .. n : j # n /\ stack[j].old # Unset =>
           /\ Under(Top, stack[j].id)
           /\ alt_priority_mask \subseteq Below(stack[j].id) /\ ienable \subseteq Below(stack[j].id)
      /\ Top.old # Unset =>
           alt_priority_mask \subseteq Below(Top.id) /\ ienable \subseteq Below(Top.id)
      /\ Top.pc \in Setting => \A j \in 1 .. n : stack[j].old = Unset
  BY <1>2, TopPriorities
<1>6. ASSUME NEW f \in Frames, Becomes(f), Quiet(f),
             \/ UNCHANGED <<ienable, alt_priority_mask>>
             \/ \A j \in 1 .. n : stack[j].old = Unset
      PROVE  Priorities'
  <2>1. f.pc \notin {"entry", "find", "isr"} /\ f.id = Top.id /\ f.isr = Top.isr /\ f.old = Top.old
    BY <1>6 DEF Quiet, Kept
  <2>2. f.pc \in Setting => \A j \in 1 .. n : stack[j].old = Unset
    <3>1. n = 1 => \A j \in 1 .. n : stack[j].old = Unset
      BY <1>3, <1>4
    <3> QED
      BY <1>5, <1>6, <3>1 DEF Quiet
  <2>3. \A j \in 1 .. n : j # n /\ stack[j].old # Unset =>
           /\ Under(f, stack[j].id)
           /\ alt_priority_mask' \subseteq Below(stack[j].id) /\ ienable' \subseteq Below(stack[j].id)
    BY <1>5, <1>6, <2>1 DEF Under
  <2>4. f.old # Unset => alt_priority_mask' \subseteq Below(f.id) /\ ienable' \subseteq Below(f.id)
    BY <1>3, <1>5, <1>6, <2>1
  <2>5. f.pc \in Setting => f.old = Unset
    BY <1>3, <2>1, <2>2
  <2> QED
    BY <1>2, <1>6, <2>2, <2>3, <2>4, <2>5, PrioritiesTop
<1>7. CASE \/ alt_irq_cpu_enable_interrupts \/ alt_irq_disable_all
           \/ RegisterOff \/ RegisterHandler \/ SetOff \/ SetActive
           \/ IsrServe \/ alt_irq_entry \/ alt_instruction_exception_entry
           \/ EnterCritical \/ RegisterContext \/ alt_irq_enable_all \/ SetOn \/ RegisterOn
           \/ \E id \in Irqs, isr \in Isrs \cup {NoIsr} : CallRegister(id, isr)
           \/ \E id \in Irqs, op \in {"enable", "disable"} : CallSet(op, id)
  <2>1. UNCHANGED <<ienable, alt_priority_mask>>
    BY <1>7 DEF alt_irq_cpu_enable_interrupts, alt_irq_disable_all,
       RegisterOff, RegisterHandler, SetOff, SetActive, IsrServe, alt_irq_entry,
       alt_instruction_exception_entry, EnterCritical, RegisterContext, alt_irq_enable_all,
       SetOn, RegisterOn, CallRegister, CallSet, Globals
  <2>2. PICK f \in Frames : Becomes(f) /\ Quiet(f)
    BY <1>7, QuietStep
  <2> QED
    BY <1>6, <2>1, <2>2
<1>8. CASE altera_nios2_gen2_irq_init \/ SetIenable
  <2>1. \A j \in 1 .. n : stack[j].old = Unset
    <3>1. CASE altera_nios2_gen2_irq_init
      <4>1. n = 1
        BY <3>1, CallFacts DEF altera_nios2_gen2_irq_init, At
      <4> QED
        BY <1>3, <1>4, <4>1
    <3>2. CASE SetIenable
      BY <1>5, <3>2 DEF SetIenable, At, Setting
    <3> QED
      BY <1>8, <3>1, <3>2
  <2>2. PICK f \in Frames : Becomes(f) /\ Quiet(f)
    BY <1>8, QuietStep
  <2> QED
    BY <1>6, <2>1, <2>2
<1>9. CASE \/ HandlerRead \/ CallHandler \/ alt_irq_interruptible \/ alt_irq_non_interruptible
           \/ IsrReturn
  <2>1. PICK f \in Frames :
           /\ Becomes(f) /\ f.cause = Top.cause /\ f.est = Top.est /\ f.trap = Top.trap
           /\ f.skip = Top.skip
           /\ Read(f) \/ Called(f) \/ Opened(f) \/ Closed(f) \/ Returned(f)
    BY <1>9, DispatchStep
  <2>2. f.pc \notin Setting
    BY <2>1 DEF Read, Called, Opened, Closed, Returned, Setting
  <2> DEFINE G == /\ f.old # Unset =>
                       alt_priority_mask' \subseteq Below(f.id) /\ ienable' \subseteq Below(f.id)
                  /\ \A j \in 1 .. n : j # n /\ stack[j].old # Unset =>
                       /\ Under(f, stack[j].id)
                       /\ alt_priority_mask' \subseteq Below(stack[j].id)
                       /\ ienable' \subseteq Below(stack[j].id)
  <2>3. alt_irq_pending \subseteq ienable
    BY DEF alt_irq_pending
  <2>4. ASSUME Read(f) \/ Returned(f) PROVE G
    <3>1. UNCHANGED <<ienable, alt_priority_mask>>
      BY <2>4 DEF Read, Returned, HandlerRead, IsrReturn, Globals
    <3> QED
      BY <1>5, <2>3, <2>4, <3>1 DEF Read, Returned, Under
  <2>5. ASSUME Called(f) PROVE G
    <3>1. UNCHANGED <<ienable, alt_priority_mask>>
      BY <2>5 DEF Called, CallHandler, Globals
    <3>2. Top.pc = "find" /\ f.pc = "isr" /\ f.old = Top.old /\ f.id \in Top.active
      BY <2>5 DEF Called
    <3>3. Top.old = Unset
      BY <1>1, <1>4, <3>2 DEF Exception, InHandler, Setting
    <3>4. ASSUME NEW j \in 1 .. n, j # n, stack[j].old # Unset PROVE f.id < stack[j].id
      <4>1. f.id \in 0 .. stack[j].id - 1
        BY <1>5, <3>2, <3>4 DEF Under, Below
      <4>2. stack[j].id \in Int
        <5>1. stack[j].id \in Ids
          BY <1>3, <3>4 DEF Frames
        <5> QED
          BY <5>1, IrqAssumption DEF Ids, Irqs
      <4> QED
        BY <4>1, <4>2
    <3> QED
      BY <1>5, <3>1, <3>2, <3>3, <3>4 DEF Under
  <2>6. ASSUME Opened(f) PROVE G
    <3>1. /\ alt_priority_mask' = Below(f.id) /\ ienable' \subseteq alt_priority_mask'
          /\ f.pc = "isr" /\ f.old = <<alt_priority_mask>> /\ f.isr = Top.isr /\ f.id = Top.id
          /\ Top.pc = "isr"
      BY <2>6 DEF Opened, alt_irq_interruptible, PriorityMask, Below
    <3>2. n # 1 /\ Top.isr # NoIsr /\ Top.id \in Irqs
      <4>1. n # 1
        BY <3>1, CallFacts
      <4> QED
        BY <1>1, <3>1, <4>1 DEF Exception, InHandler
    <3>3. f.old[1] = alt_priority_mask
      BY <3>1
    <3>4. ASSUME NEW j \in 1 .. n, j # n, stack[j].old # Unset
          PROVE  /\ Under(f, stack[j].id)
                 /\ alt_priority_mask' \subseteq Below(stack[j].id)
                 /\ ienable' \subseteq Below(stack[j].id)
      <4>1. f.id < stack[j].id /\ alt_priority_mask \subseteq Below(stack[j].id)
        BY <1>5, <3>1, <3>2, <3>4 DEF Under
      <4>2. stack[j].id \in Int /\ f.id \in Int
        <5>1. stack[j].id \in Ids
          BY <1>3, <3>4 DEF Frames
        <5> QED
          BY <3>1, <3>2, <5>1, IrqAssumption DEF Ids, Irqs
      <4>3. Below(f.id) \subseteq Below(stack[j].id)
        BY <4>1, <4>2 DEF Below
      <4> QED
        BY <3>1, <3>3, <4>1, <4>3 DEF Under
    <3> QED
      BY <3>1, <3>4
  <2>7. ASSUME Closed(f) PROVE G
    <3>1. /\ alt_priority_mask' = Top.old[1] /\ ienable' \subseteq alt_priority_mask'
          /\ f.pc = "served" /\ f.old = Unset /\ f.isr = Top.isr /\ f.id = Top.id
          /\ Top.old # Unset
      BY <2>7 DEF Closed, alt_irq_non_interruptible, Unmasked
    <3> QED
      BY <1>5, <3>1 DEF Under
  <2>8. G
    BY <2>1, <2>4, <2>5, <2>6, <2>7
  <2> QED
    BY <1>2, <2>1, <2>2, <2>8, PrioritiesTop
<1>10. CASE TakeInterrupt \/ Trap \/ TrapAgain
  <2>1. PICK c \in {"irq", "inst"} :
          Push(Frame(c, pie)) /\ UNCHANGED <<ienable, alt_priority_mask>>
    BY <1>1, <1>10 DEF TakeInterrupt, Trap, TrapAgain, Globals
  <2> DEFINE f == Frame(c, pie)
             g == [Top EXCEPT !.trap = (f.cause = "inst") \/ Top.trap]
  <2>2. f \in Frames
    <3>1. /\ {} \in Bits /\ -1 \in Ids /\ NoIsr \in Handlers /\ Unset \in Masks /\ << >> \in Words
          /\ "entry" \in Pcs /\ "none" \in Ops /\ c \in Causes
      BY EmptySeq DEF Bits, Ids, Handlers, Masks, Words, Pcs, Ops, Causes
    <3> QED
      BY <1>1, <3>1 DEF Frame, Frames
  <2>3. f.pc = "entry" /\ f.old = Unset /\ f.isr = NoIsr
    BY DEF Frame
  <2>4. Push(f)
    BY <2>1
  <2> HIDE DEF f
  <2>5. /\ Len(stack') = n + 1 /\ stack'[n + 1] = f /\ stack'[n] = g
        /\ \A k \in 1 .. n : k # n => stack'[k] = stack[k]
    BY <1>1, <2>2, <2>4, PushStack
  <2>6. ((f.cause = "inst") \/ Top.trap) \in BOOLEAN
    OBVIOUS
  <2>7. /\ g.pc = Top.pc /\ g.old = Top.old /\ g.id = Top.id /\ g.isr = Top.isr
        /\ g.active = Top.active
    BY <1>1, <2>6, TrapSame
  <2> HIDE DEF g, n
  <2>8. n + 1 \in Nat /\ (\A k \in 1 .. n + 1 : k = n + 1 \/ k \in 1 .. n)
        /\ \A j, k \in 1 .. n + 1 : j <= k /\ k \in 1 .. n => j \in 1 .. n
    BY <1>3
  <2>9. \A k \in 1 .. n + 1 :
           \/ /\ k \in 1 .. n
              /\ stack'[k].pc = stack[k].pc /\ stack'[k].old = stack[k].old
              /\ stack'[k].id = stack[k].id /\ stack'[k].isr = stack[k].isr
              /\ stack'[k].active = stack[k].active
           \/ stack'[k].pc = "entry" /\ stack'[k].old = Unset /\ stack'[k].isr = NoIsr
    BY <1>3, <2>3, <2>5, <2>7, <2>8
  <2> QED
    BY <1>2, <2>1, <2>5, <2>8, <2>9, PrioritiesSame DEF n
<1>11. CASE eret
  <2>1. n # 1 /\ UNCHANGED <<ienable, alt_priority_mask>>
    BY <1>11, CallFacts DEF eret, At, Dispatching, Instruction, Globals
  <2>2. /\ Len(stack') = n - 1
        /\ \E b \in BOOLEAN : stack'[n - 1] = [stack[n - 1] EXCEPT !.trap = b]
        /\ \A k \in 1 .. n - 1 : k # n - 1 => stack'[k] = stack[k]
    BY <1>1, <1>11, <2>1, PopStack
  <2>3. PICK b \in BOOLEAN : stack'[n - 1] = [stack[n - 1] EXCEPT !.trap = b]
    BY <2>2
  <2>a. n \in Nat /\ n # 0 /\ n # 1
    BY <1>3, <2>1
  <2> HIDE DEF n
  <2>4. /\ n - 1 \in Nat /\ n - 1 \in 1 .. n /\ \A k \in 1 .. n - 1 : k \in 1 .. n
        /\ \A j, k \in 1 .. n - 1 : j <= k /\ k \in 1 .. n => j \in 1 .. n
    BY <2>a
  <2>5. \A k \in 1 .. n - 1 :
           /\ k \in 1 .. n
           /\ stack'[k].pc = stack[k].pc /\ stack'[k].old = stack[k].old
           /\ stack'[k].id = stack[k].id /\ stack'[k].isr = stack[k].isr
           /\ stack'[k].active = stack[k].active
    <3> TAKE k \in 1 .. n - 1
    <3>1. CASE k = n - 1
      <4>1. stack[k] \in Frames /\ stack'[k] = [stack[k] EXCEPT !.trap = b]
        BY <1>3, <2>3, <2>4, <3>1
      <4> QED
        BY <2>4, <4>1, TrapSame
    <3>2. CASE k # n - 1
      BY <2>2, <2>4, <3>2
    <3> QED
      BY <3>1, <3>2
  <2> QED
    BY <1>2, <2>1, <2>2, <2>4, <2>5, PrioritiesSame DEF n
<1>12. CASE Device \/ \E set \in BOOLEAN : alt_instruction_exception_register(set)
  <2>1. UNCHANGED <<stack, ienable, alt_priority_mask>>
    BY <1>12 DEF Device, Raise, Withdraw, alt_instruction_exception_register, Globals
  <2> QED
    BY <1>2, <2>1 DEF Priorities
<1> QED
  BY <1>7, <1>8, <1>9, <1>10, <1>11, <1>12 DEF Next, Choice, Proceed

----------------------------------------------------------------------------
(* The handler table.                                                      *)

\* While an interrupt is dispatched the program is not changing the table:
\* every enabled interrupt can be dispatched.
LEMMA EnabledReady ==
  ASSUME IInv, Len(stack) # 1, Top.pc \notin Instruction
  PROVE  \A i \in ienable : Ready(i)
<1> DEFINE n == Len(stack)
<1>1. TypeOK /\ Stacked /\ Table /\ Exception(Top, pie, TRUE)
  BY Running DEF IInv
<1>2. n \in Nat \ {0} /\ n # 1 /\ Top = stack[n]
  BY <1>1, TopFacts
<1>a. n \in Nat /\ n # 0 /\ n # 1
  BY <1>2
<1> HIDE DEF n
<1>3. 1 \in 1 .. n /\ 2 \in 1 .. n /\ 1 + 1 = 2 /\ 2 # 1
  BY <1>a
<1> USE DEF n
<1>4. stack[2].est
  <2>1. CASE n = 2
    BY <1>1, <1>2, <2>1 DEF Exception
  <2>2. CASE n # 2
    <3>1. 2 \in 1 .. Len(stack) /\ 2 # Len(stack) /\ 2 # 1
      BY <1>3, <2>2
    <3> QED
      BY <3>1, Waiting
  <2> QED
    BY <2>1, <2>2
<1>5. On(1)
  BY <1>2, <1>3, <1>4 DEF On
<1>6. FrameOK(1)
  BY <1>1, <1>3 DEF Stacked
<1>7. Sections(stack[1], On(1)) /\ Program(stack[1], On(1), FALSE)
  BY <1>2, <1>6 DEF FrameOK
<1>8. ~Protected(stack[1]) /\ stack[1].pc # "reset"
  BY <1>5, <1>7 DEF Sections, Program
<1>9. Len(stack[1].ctx) \in Nat
  <2>1. stack[1] \in Frames
    BY <1>1, <1>3, TopFacts
  <2>2. stack[1].ctx \in Seq(BOOLEAN)
    BY <2>1 DEF Frames, Words
  <2> QED
    BY <2>2, LenProperties
<1>10. stack[1].pc \notin {"reg_context", "set_active", "set_ienable"}
  BY <1>7, <1>8, <1>9 DEF Sections, Protected, Registering, Setting
<1>11. ~(stack[1].op = "unregister" /\ stack[1].pc = "set_off")
  BY <1>7, <1>8, <1>9 DEF Sections, Protected, Setting
<1>12. SUFFICES ASSUME NEW i \in ienable PROVE Ready(i)
  OBVIOUS
<1>13. i \in Irqs
  BY <1>1 DEF TypeOK, Bits
<1>14. ~TakingAway(i, AlsoEnabled)
  BY <1>10, <1>11 DEF TakingAway, AlsoEnabled, AlsoActive
<1> QED
  BY <1>1, <1>8, <1>10, <1>13, <1>14 DEF Table, Ready

\* The running frame is that of an exception: the table stays as it is.
LEMMA TableException ==
  ASSUME IInv, Len(stack) # 1, NEW f \in Frames, Becomes(f), UNCHANGED alt_irq,
         \A i \in alt_irq_active' : i \in alt_irq_active \/ alt_irq[i].handler # NoIsr,
         ienable' \subseteq ienable \cup alt_irq_active,
         f.pc \in {"set_off", "set_active"} =>
           f.op # "register" /\ (f.op = "enable" => alt_irq[f.arg].handler # NoIsr),
         f.pc = "find" => f.active \subseteq ienable /\ Top.pc \notin Instruction
  PROVE  Table'
<1> DEFINE n == Len(stack)
<1>1. Table /\ n \in Nat \ {0} /\ n # 1
  BY TopFacts DEF IInv
<1>2. /\ Len(stack') = n /\ stack'[n] = f
      /\ \A k \in 1 .. n : k # n => stack'[k] = stack[k]
  BY BecomesStack DEF IInv
<1>3. 1 \in 1 .. n
  BY <1>1
<1>4. stack'[1] = stack[1]
  BY <1>1, <1>2, <1>3
<1>5. \A i, w : TakingAway(i, w)' = TakingAway(i, w)
  BY <1>4 DEF TakingAway
<1>6. \A i : TakingAway(i, AlsoActive) => TakingAway(i, AlsoEnabled)
  BY DEF TakingAway, AlsoEnabled
<1>7. stack[1].pc # "reset"
  BY <1>1, <1>3, Waiting
<1>8. \A k \in 1 .. n : k # n => stack[k].pc # "find"
  BY Waiting DEF Dispatching
<1>9. \A i : Ready(i)' = Ready(i)
  BY DEF Ready
<1>10. f.pc = "find" => \A i \in f.active : Ready(i)
  BY EnabledReady
<1>11. \A i \in alt_irq_active' : alt_irq[i].handler # NoIsr \/ TakingAway(i, AlsoActive)
  BY <1>1 DEF Table
<1>12. \A i \in ienable' : alt_irq[i].handler # NoIsr \/ TakingAway(i, AlsoEnabled)
  BY <1>1, <1>6, <1>7 DEF Table
<1>13. \A k \in 1 .. n : stack'[k].pc \in {"set_off", "set_active"} =>
         /\ stack'[k].op = "enable" => alt_irq[stack'[k].arg].handler # NoIsr
         /\ stack'[k].op = "register" => alt_irq[stack'[k].arg].handler = stack'[k].new
  BY <1>1, <1>2 DEF Table
<1>14. \A k \in 1 .. n : stack'[k].pc = "find" => \A i \in stack'[k].active : Ready(i)
  BY <1>2, <1>8, <1>10
<1>15. /\ \A i \in Irqs : \/ alt_irq[i].handler = alt_irq[i].context
                          \/ stack[1].pc = "reg_context" /\ stack[1].arg = i
       /\ stack[1].pc = "reg_context" => alt_irq[stack[1].arg].handler = stack[1].new
  BY <1>1 DEF Table
<1> QED
  BY <1>2, <1>4, <1>5, <1>9, <1>11, <1>12, <1>13, <1>14, <1>15 DEF Table

\* Frames with the same fields: the table stays as it is.
LEMMA TableSame ==
  ASSUME Table, UNCHANGED <<ienable, alt_irq_active, alt_irq>>,
         NEW m \in Nat, Len(stack') = m,
         /\ stack'[1].pc = stack[1].pc /\ stack'[1].op = stack[1].op
         /\ stack'[1].arg = stack[1].arg /\ stack'[1].new = stack[1].new,
         \A k \in 1 .. m :
           \/ /\ k \in 1 .. Len(stack)
              /\ stack'[k].pc = stack[k].pc /\ stack'[k].op = stack[k].op
              /\ stack'[k].arg = stack[k].arg /\ stack'[k].new = stack[k].new
              /\ stack'[k].active = stack[k].active
           \/ stack'[k].pc = "entry"
  PROVE  Table'
<1>1. \A i, w : TakingAway(i, w)' = TakingAway(i, w)
  BY DEF TakingAway
<1>2. \A i : Ready(i)' = Ready(i)
  BY DEF Ready
<1>3. \A k \in 1 .. m : stack'[k].pc \in {"set_off", "set_active"} =>
         /\ stack'[k].op = "enable" => alt_irq[stack'[k].arg].handler # NoIsr
         /\ stack'[k].op = "register" => alt_irq[stack'[k].arg].handler = stack'[k].new
  BY DEF Table
<1>4. \A k \in 1 .. m : stack'[k].pc = "find" => \A i \in stack'[k].active : Ready(i)
  BY DEF Table
<1>5. /\ \A i \in Irqs : \/ alt_irq[i].handler = alt_irq[i].context
                         \/ stack[1].pc = "reg_context" /\ stack[1].arg = i
      /\ \A i \in alt_irq_active : alt_irq[i].handler # NoIsr \/ TakingAway(i, AlsoActive)
      /\ stack[1].pc # "reset" =>
           \A i \in ienable : alt_irq[i].handler # NoIsr \/ TakingAway(i, AlsoEnabled)
      /\ stack[1].pc = "reg_context" => alt_irq[stack[1].arg].handler = stack[1].new
  BY DEF Table
<1> QED
  BY <1>1, <1>2, <1>3, <1>4, <1>5 DEF Table

\* The program is running, alone on the stack, and its frame becomes f.
LEMMA TableProgram ==
  ASSUME IInv, Len(stack) = 1, NEW f \in Frames, Becomes(f), f.pc # "find",
         \A i \in Irqs : \/ alt_irq'[i].handler = alt_irq'[i].context
                         \/ f.pc = "reg_context" /\ f.arg = i,
         \A i \in alt_irq_active' : \/ alt_irq'[i].handler # NoIsr
                                    \/ f.op = "unregister" /\ f.arg = i /\ f.pc \in AlsoActive,
         f.pc # "reset" => \A i \in ienable' :
           \/ alt_irq'[i].handler # NoIsr
           \/ f.op = "unregister" /\ f.arg = i /\ f.pc \in AlsoEnabled,
         f.pc = "reg_context" => alt_irq'[f.arg].handler = f.new,
         f.pc \in {"set_off", "set_active"} =>
           /\ f.op = "enable" => alt_irq'[f.arg].handler # NoIsr
           /\ f.op = "register" => alt_irq'[f.arg].handler = f.new
  PROVE  Table'
<1>1. Len(stack') = 1 /\ stack'[1] = f
  BY BecomesStack DEF IInv
<1>2. \A k \in 1 .. 1 : k = 1
  OBVIOUS
<1>3. \A i, w : TakingAway(i, w)' = (f.op = "unregister" /\ f.arg = i /\ f.pc \in w)
  BY <1>1 DEF TakingAway
<1> QED
  BY <1>1, <1>2, <1>3 DEF Table

\* What the invariant says of the table while the program runs alone.
LEMMA TableAlone ==
  ASSUME IInv, Len(stack) = 1
  PROVE  /\ \A i \in Irqs : \/ alt_irq[i].handler = alt_irq[i].context
                            \/ Top.pc = "reg_context" /\ Top.arg = i
         /\ \A i \in alt_irq_active : \/ alt_irq[i].handler # NoIsr
                                      \/ Top.op = "unregister" /\ Top.arg = i /\ Top.pc \in AlsoActive
         /\ Top.pc # "reset" => \A i \in ienable :
              \/ alt_irq[i].handler # NoIsr
              \/ Top.op = "unregister" /\ Top.arg = i /\ Top.pc \in AlsoEnabled
         /\ Top.pc = "reg_context" => alt_irq[Top.arg].handler = Top.new
         /\ Top.pc \in {"set_off", "set_active"} =>
              /\ Top.op = "enable" => alt_irq[Top.arg].handler # NoIsr
              /\ Top.op = "register" => alt_irq[Top.arg].handler = Top.new
<1>1. Top = stack[1] /\ Table /\ 1 \in 1 .. 1
  BY TopFacts DEF IInv
<1> QED
  BY <1>1 DEF Table, TakingAway

\* The frame moves on and may save or restore the status word.
LEMMA CallKept ==
  ASSUME IInv, NEW p \in Pcs,
         Goto(p) \/ ReadStatus(p) \/ (RestoreStatus(p) /\ Len(Top.ctx) >= 1)
  PROVE  \E f \in Frames : /\ Becomes(f) /\ f.pc = p
                           /\ f.op = Top.op /\ f.arg = Top.arg /\ f.new = Top.new
<1>1. Top \in Frames /\ pie \in BOOLEAN /\ Saved(Top.ctx)
  BY Running
<1>2. CASE Goto(p)
  <2>1. /\ [Top EXCEPT !.pc = p] \in Frames /\ Becomes([Top EXCEPT !.pc = p])
        /\ [Top EXCEPT !.pc = p].pc = p /\ [Top EXCEPT !.pc = p].op = Top.op
        /\ [Top EXCEPT !.pc = p].arg = Top.arg /\ [Top EXCEPT !.pc = p].new = Top.new
    BY <1>1, <1>2, MovedOn DEF Goto
  <2> QED
    BY <2>1
<1>3. ASSUME NEW c \in Words, Becomes([Top EXCEPT !.pc = p, !.ctx = c])
      PROVE  \E f \in Frames : /\ Becomes(f) /\ f.pc = p
                               /\ f.op = Top.op /\ f.arg = Top.arg /\ f.new = Top.new
  <2> DEFINE f == [Top EXCEPT !.pc = p, !.ctx = c]
  <2>1. f \in Frames /\ f.pc = p /\ f.op = Top.op /\ f.arg = Top.arg /\ f.new = Top.new
    BY <1>1, <1>3 DEF Frames
  <2> HIDE DEF f
  <2>2. Becomes(f)
    BY <1>3 DEF f
  <2> QED
    BY <2>1, <2>2
<1>4. CASE ReadStatus(p)
  <2>1. Append(Top.ctx, pie) \in Words
    BY <1>1, AppendProperties DEF Saved, Words
  <2> QED
    BY <1>3, <1>4, <2>1 DEF ReadStatus
<1>5. CASE RestoreStatus(p) /\ Len(Top.ctx) >= 1
  <2>1. Front(Top.ctx) \in Words
    BY <1>1, <1>5, SavePop DEF Saved, Words
  <2> QED
    BY <1>3, <1>5, <2>1 DEF RestoreStatus
<1> QED
  BY <1>2, <1>4, <1>5

\* The program's own steps keep the table consistent.
LEMMA TableOwnStep ==
  ASSUME IInv, Len(stack) = 1,
         \/ altera_nios2_gen2_irq_init \/ alt_irq_cpu_enable_interrupts \/ alt_irq_disable_all
         \/ RegisterOff \/ RegisterHandler \/ SetOff \/ SetActive \/ SetIenable
         \/ EnterCritical \/ RegisterContext \/ alt_irq_enable_all \/ SetOn \/ RegisterOn
         \/ \E id \in Irqs, isr \in Isrs \cup {NoIsr} : CallRegister(id, isr)
         \/ \E id \in Irqs, op \in {"enable", "disable"} : CallSet(op, id)
  PROVE  Table'
<1>1. /\ TypeOK /\ Top \in Frames /\ pie \in BOOLEAN /\ Program(Top, pie, TRUE)
      /\ Sections(Top, pie) /\ Saved(Top.ctx)
      /\ Len(Top.ctx) \in Nat /\ (Top.ctx = << >> <=> Len(Top.ctx) = 0)
  BY Running
<1>2. alt_irq \in [Irqs -> [handler : Handlers, context : Handlers]] /\ alt_irq_active \subseteq Irqs
      /\ ienable \subseteq Irqs
  BY <1>1 DEF TypeOK, Bits
<1>3. /\ \A i \in Irqs : \/ alt_irq[i].handler = alt_irq[i].context
                         \/ Top.pc = "reg_context" /\ Top.arg = i
      /\ \A i \in alt_irq_active : \/ alt_irq[i].handler # NoIsr
                                   \/ Top.op = "unregister" /\ Top.arg = i /\ Top.pc \in AlsoActive
      /\ Top.pc # "reset" => \A i \in ienable :
           \/ alt_irq[i].handler # NoIsr
           \/ Top.op = "unregister" /\ Top.arg = i /\ Top.pc \in AlsoEnabled
      /\ Top.pc = "reg_context" => alt_irq[Top.arg].handler = Top.new
      /\ Top.pc \in {"set_off", "set_active"} =>
           /\ Top.op = "enable" => alt_irq[Top.arg].handler # NoIsr
           /\ Top.op = "register" => alt_irq[Top.arg].handler = Top.new
  BY TableAlone
<1>4. /\ Top.pc \in Registering \cup Setting => Top.arg \in Irqs
      /\ Top.pc \in Registering => Top.op \in {"register", "unregister"}
      /\ Top.pc \in Registering \cup Setting /\ Top.op = "register" => Top.new # NoIsr
      /\ Top.isr = NoIsr
  BY <1>1 DEF Program
<1>5. Home = "code" /\ {"code", "crit_off", "irq_init", "reg_handler", "reg_context", "reg_on",
                        "set_off", "set_active", "set_ienable", "set_on"} \subseteq Pcs
  BY <1>4 DEF Home, Pcs
\* Where the table is not being changed, before or after.
<1> DEFINE Plain == {"irq_init", "code", "crit_off", "reg_off", "reg_handler", "set_on", "reg_on"}
<1>6. ASSUME NEW f \in Frames, Becomes(f), f.pc \in Plain, Top.pc \in Plain,
             UNCHANGED <<ienable, alt_irq_active, alt_irq>>
      PROVE  Table'
  BY <1>3, <1>6, TableProgram DEF AlsoActive, AlsoEnabled
<1>7. CASE alt_irq_cpu_enable_interrupts \/ alt_irq_disable_all \/ RegisterOff \/ EnterCritical
           \/ alt_irq_enable_all \/ SetOn \/ RegisterOn
  <2>1. UNCHANGED <<ienable, alt_irq_active, alt_irq>>
    BY <1>7 DEF alt_irq_cpu_enable_interrupts, alt_irq_disable_all, RegisterOff, EnterCritical,
       alt_irq_enable_all, SetOn, RegisterOn, Globals
  <2>2. Top.pc \in {"irq_init", "code", "crit_off", "reg_off", "set_on", "reg_on"}
    BY <1>1, <1>7 DEF alt_irq_cpu_enable_interrupts, alt_irq_disable_all, RegisterOff, EnterCritical,
       alt_irq_enable_all, SetOn, RegisterOn, InOwnCode, At, Program, Registering, Setting
  <2>3. SetOn \/ RegisterOn \/ alt_irq_enable_all => Len(Top.ctx) >= 1
    BY <1>1 DEF SetOn, RegisterOn, alt_irq_enable_all, At, Sections, Setting, Registering
  <2>4. PICK p \in {"code", "crit_off", "reg_handler", "reg_on"} :
          Goto(p) \/ ReadStatus(p) \/ (RestoreStatus(p) /\ Len(Top.ctx) >= 1)
    BY <1>5, <1>7, <2>3 DEF alt_irq_cpu_enable_interrupts, alt_irq_disable_all, RegisterOff,
       EnterCritical, alt_irq_enable_all, SetOn, RegisterOn
  <2>5. p \in Pcs
    BY <1>5
  <2>6. PICK f \in Frames : Becomes(f) /\ f.pc = p
    BY <2>4, <2>5, CallKept
  <2> QED
    BY <1>6, <2>1, <2>2, <2>4, <2>6
<1>8. ASSUME NEW id \in Irqs, NEW isr \in Isrs \cup {NoIsr}, CallRegister(id, isr)
      PROVE  Table'
  <2> DEFINE op == IF isr = NoIsr THEN "unregister" ELSE "register"
             f == [Top EXCEPT !.op = op, !.arg = id, !.new = isr, !.ctx = Append(@, pie),
                              !.pc = "reg_off"]
  <2>1. Becomes(f) /\ Top.pc = "code" /\ UNCHANGED <<ienable, alt_irq_active, alt_irq>>
    BY <1>8 DEF CallRegister, At, Globals
  <2>2. op \in Ops /\ id \in Ids /\ isr \in Handlers /\ "reg_off" \in Pcs /\ Append(Top.ctx, pie) \in Words
    BY <1>1, <1>8, AppendProperties DEF Pcs, Ops, Ids, Handlers, Saved, Words
  <2> HIDE DEF op
  <2>3. f \in Frames /\ f.pc = "reg_off"
    BY <1>1, <2>2 DEF Frames
  <2> HIDE DEF f
  <2> QED
    BY <1>6, <2>1, <2>3
<1>9. ASSUME NEW id \in Irqs, NEW op \in {"enable", "disable"}, CallSet(op, id)
      PROVE  Table'
  <2> DEFINE f == [Top EXCEPT !.op = op, !.arg = id, !.ctx = Append(@, pie), !.pc = "set_off"]
  <2>1. /\ Becomes(f) /\ Top.pc \in {"code", "served"}
        /\ op = "enable" => alt_irq[id].handler # NoIsr
        /\ UNCHANGED <<ienable, alt_irq_active, alt_irq>>
    BY <1>9 DEF CallSet, InOwnCode, At, Globals
  <2>2. op \in Ops /\ id \in Ids /\ Append(Top.ctx, pie) \in Words
    BY <1>1, <1>9, AppendProperties DEF Ops, Ids, Saved, Words
  <2>3. f \in Frames /\ f.pc = "set_off" /\ f.op = op /\ f.arg = id
    BY <1>1, <1>5, <2>2 DEF Frames
  <2> HIDE DEF f
  <2> QED
    BY <1>3, <1>9, <2>1, <2>3, TableProgram DEF AlsoActive, AlsoEnabled
<1>10. CASE altera_nios2_gen2_irq_init
  <2>1. Top.pc = "reset" /\ Goto("irq_init") /\ ienable' = {} /\ UNCHANGED <<alt_irq_active, alt_irq>>
    BY <1>10 DEF altera_nios2_gen2_irq_init, At, Globals
  <2>2. PICK f \in Frames : Becomes(f) /\ f.pc = "irq_init"
    BY <1>5, <2>1, CallKept
  <2> QED
    BY <1>3, <2>1, <2>2, TableProgram DEF AlsoActive
<1>11. CASE RegisterHandler
  <2>1. /\ Top.pc = "reg_handler" /\ Goto("reg_context") /\ UNCHANGED <<ienable, alt_irq_active>>
        /\ alt_irq' = [alt_irq EXCEPT ![Top.arg].handler = Top.new]
    BY <1>11 DEF RegisterHandler, At
  <2>2. PICK f \in Frames : /\ Becomes(f) /\ f.pc = "reg_context"
                            /\ f.op = Top.op /\ f.arg = Top.arg /\ f.new = Top.new
    BY <1>5, <2>1, CallKept
  <2>3. Top.arg \in Irqs /\ (Top.new = NoIsr => Top.op = "unregister")
    BY <1>4, <2>1 DEF Registering
  <2>4. /\ alt_irq'[Top.arg].handler = Top.new
        /\ \A i \in Irqs : i # Top.arg => alt_irq'[i] = alt_irq[i]
    BY <1>2, <2>1, <2>3
  <2>5. \A i \in Irqs : i # Top.arg => alt_irq[i].handler = alt_irq[i].context
    BY <1>3, <2>1
  <2>6. \A i \in alt_irq_active \cup ienable : i \in Irqs /\ alt_irq[i].handler # NoIsr
    BY <1>2, <1>3, <2>1 DEF AlsoActive, AlsoEnabled
  <2> QED
    BY <2>1, <2>2, <2>3, <2>4, <2>5, <2>6, TableProgram DEF AlsoActive, AlsoEnabled
<1>12. CASE RegisterContext
  <2>1. /\ Top.pc = "reg_context" /\ ReadStatus("set_off") /\ UNCHANGED <<ienable, alt_irq_active>>
        /\ alt_irq' = [alt_irq EXCEPT ![Top.arg].context = Top.new]
    BY <1>12 DEF RegisterContext, At
  <2>2. PICK f \in Frames : /\ Becomes(f) /\ f.pc = "set_off"
                            /\ f.op = Top.op /\ f.arg = Top.arg /\ f.new = Top.new
    BY <1>5, <2>1, CallKept
  <2>3. Top.arg \in Irqs /\ Top.op \in {"register", "unregister"}
    BY <1>4, <2>1 DEF Registering
  <2>4. /\ alt_irq'[Top.arg].context = Top.new /\ alt_irq'[Top.arg].handler = Top.new
        /\ \A i \in Irqs : i # Top.arg => alt_irq'[i] = alt_irq[i]
        /\ \A i \in Irqs : alt_irq'[i].handler = alt_irq[i].handler
    BY <1>2, <1>3, <2>1, <2>3
  <2>5. \A i \in Irqs : alt_irq'[i].handler = alt_irq'[i].context
    BY <1>3, <2>1, <2>4
  <2> QED
    BY <1>2, <1>3, <2>1, <2>2, <2>3, <2>4, <2>5, TableProgram DEF AlsoActive, AlsoEnabled
<1>13. CASE SetOff
  <2>1. /\ Top.pc = "set_off" /\ Goto("set_active") /\ UNCHANGED <<ienable, alt_irq_active, alt_irq>>
    BY <1>13 DEF SetOff, At, Globals
  <2>2. PICK f \in Frames : /\ Becomes(f) /\ f.pc = "set_active"
                            /\ f.op = Top.op /\ f.arg = Top.arg /\ f.new = Top.new
    BY <1>5, <2>1, CallKept
  <2> QED
    BY <1>3, <2>1, <2>2, TableProgram DEF AlsoActive, AlsoEnabled
<1>14. CASE SetActive
  <2>1. /\ Top.pc = "set_active" /\ Goto("set_ienable") /\ UNCHANGED <<ienable, alt_irq>>
        /\ alt_irq_active' = IF Top.op \in {"register", "enable"}
                             THEN alt_irq_active \cup {Top.arg}
                             ELSE alt_irq_active \ {Top.arg}
    BY <1>14 DEF SetActive, At
  <2>2. PICK f \in Frames : /\ Becomes(f) /\ f.pc = "set_ienable"
                            /\ f.op = Top.op /\ f.arg = Top.arg /\ f.new = Top.new
    BY <1>5, <2>1, CallKept
  <2>3. \A i \in alt_irq_active' : alt_irq[i].handler # NoIsr
    BY <1>3, <1>4, <2>1 DEF Setting
  <2> QED
    BY <1>3, <2>1, <2>2, <2>3, TableProgram DEF AlsoActive, AlsoEnabled
<1>15. CASE SetIenable
  <2>1. /\ Top.pc = "set_ienable" /\ Goto("set_on") /\ UNCHANGED <<alt_irq_active, alt_irq>>
        /\ ienable' = alt_irq_active
    BY <1>15 DEF SetIenable, At, Globals
  <2>2. PICK f \in Frames : Becomes(f) /\ f.pc = "set_on"
    BY <1>5, <2>1, CallKept
  <2> QED
    BY <1>3, <2>1, <2>2, TableProgram DEF AlsoActive, AlsoEnabled
<1> QED
  BY <1>7, <1>8, <1>9, <1>10, <1>11, <1>12, <1>13, <1>14, <1>15

\* Every step keeps the table consistent.
LEMMA TableStep ==
  ASSUME IInv, Next
  PROVE  Table'
<1> DEFINE n == Len(stack)
<1>1. /\ TypeOK /\ Top \in Frames /\ pie \in BOOLEAN /\ Table
      /\ n = 1 => Program(Top, pie, TRUE)
      /\ n # 1 => Exception(Top, pie, TRUE)
  BY Running DEF IInv
<1>2. n \in Nat \ {0} /\ Top = stack[n] /\ n \in 1 .. n /\ \A k \in 1 .. n : stack[k] \in Frames
  BY TopFacts DEF IInv
<1>3. CASE n = 1 /\ (Choice \/ Proceed) /\ ~Trap /\ ~TrapAgain
           /\ ~\E set \in BOOLEAN : alt_instruction_exception_register(set)
  <2>1. Top.pc \notin {"isr", "served"} \cup Dispatching \cup Instruction
    BY <1>3, CallFacts
  <2>2. /\ ~IsrServe /\ ~alt_irq_entry /\ ~alt_instruction_exception_entry /\ ~eret
        /\ ~HandlerRead /\ ~CallHandler /\ ~alt_irq_interruptible
        /\ ~alt_irq_non_interruptible /\ ~IsrReturn
    BY <2>1 DEF IsrServe, alt_irq_entry, alt_instruction_exception_entry, eret, HandlerRead,
       CallHandler, alt_irq_interruptible, alt_irq_non_interruptible, IsrReturn, At,
       Dispatching, Instruction
  <2> QED
    BY <1>3, <2>2, TableOwnStep DEF Choice, Proceed
<1>4. CASE /\ n # 1
           /\ \/ altera_nios2_gen2_irq_init \/ alt_irq_cpu_enable_interrupts \/ alt_irq_disable_all
              \/ RegisterOff \/ RegisterHandler \/ SetOff \/ SetActive \/ SetIenable
              \/ IsrServe \/ alt_irq_entry \/ alt_instruction_exception_entry
              \/ EnterCritical \/ RegisterContext \/ alt_irq_enable_all \/ SetOn \/ RegisterOn
              \/ \E id \in Irqs, isr \in Isrs \cup {NoIsr} : CallRegister(id, isr)
              \/ \E id \in Irqs, op \in {"enable", "disable"} : CallSet(op, id)
  <2>1. PICK f \in Frames : Becomes(f) /\ Quiet(f)
    BY <1>4, QuietStep
  <2>2. Top.pc \notin {"reset", "irq_init", "code"} \cup Registering
    BY <1>4, CallFacts
  <2>3. /\ ~altera_nios2_gen2_irq_init /\ ~RegisterHandler /\ ~RegisterContext
    BY <2>2 DEF altera_nios2_gen2_irq_init, RegisterHandler, RegisterContext, At, Registering
  <2>4. alt_irq' = alt_irq /\ ienable' \subseteq ienable \cup alt_irq_active
    BY <1>4, <2>3 DEF alt_irq_cpu_enable_interrupts, alt_irq_disable_all,
       RegisterOff, SetOff, SetActive, SetIenable, IsrServe, alt_irq_entry,
       alt_instruction_exception_entry, EnterCritical, alt_irq_enable_all,
       SetOn, RegisterOn, CallRegister, CallSet, Globals
  <2>5. \A i \in alt_irq_active' : i \in alt_irq_active \/ alt_irq[i].handler # NoIsr
    <3>1. CASE SetActive
      <4>1. /\ Top.op = "enable" => alt_irq[Top.arg].handler # NoIsr
            /\ Top.op \in {"enable", "disable"}
        BY <1>4, <3>1, TopCall DEF SetActive, At
      <4> QED
        BY <3>1, <4>1 DEF SetActive
    <3>2. CASE ~SetActive
      BY <1>4, <2>3, <3>2 DEF alt_irq_cpu_enable_interrupts, alt_irq_disable_all,
         RegisterOff, SetOff, SetIenable, IsrServe, alt_irq_entry,
         alt_instruction_exception_entry, EnterCritical, alt_irq_enable_all,
         SetOn, RegisterOn, CallRegister, CallSet, Globals
    <3> QED
      BY <3>1, <3>2
  <2>6. /\ f.pc # "find"
        /\ f.pc \in {"set_off", "set_active"} =>
             f.op # "register" /\ (f.op = "enable" => alt_irq[f.arg].handler # NoIsr)
    BY <1>4, <2>1 DEF Quiet
  <2> QED
    BY <1>4, <2>1, <2>4, <2>5, <2>6, TableException
<1>5. CASE \/ HandlerRead \/ CallHandler \/ alt_irq_interruptible \/ alt_irq_non_interruptible
           \/ IsrReturn
  <2>1. PICK f \in Frames :
           /\ Becomes(f) /\ f.cause = Top.cause /\ f.est = Top.est /\ f.trap = Top.trap
           /\ f.skip = Top.skip
           /\ Read(f) \/ Called(f) \/ Opened(f) \/ Closed(f) \/ Returned(f)
    BY <1>5, DispatchStep
  <2>2. /\ f.pc \notin {"set_off", "set_active"}
        /\ f.pc = "find" => f.active = alt_irq_pending
        /\ Top.pc \in {"handler", "find", "isr", "served"}
    BY <2>1 DEF Read, Called, Opened, Closed, Returned
  <2>3. n # 1 /\ Top.pc \notin Instruction
    BY <2>2, CallFacts DEF Dispatching, Instruction
  <2>4. UNCHANGED <<alt_irq, alt_irq_active>> /\ ienable' \subseteq ienable \cup alt_irq_active
    BY <1>5 DEF HandlerRead, CallHandler, alt_irq_interruptible, alt_irq_non_interruptible,
       IsrReturn, Unmasked, Globals
  <2>5. alt_irq_pending \subseteq ienable
    BY DEF alt_irq_pending
  <2> QED
    BY <2>1, <2>2, <2>3, <2>4, <2>5, TableException
<1>6. CASE TakeInterrupt \/ Trap \/ TrapAgain
  <2>1. PICK c \in {"irq", "inst"} :
          Push(Frame(c, pie)) /\ UNCHANGED <<ienable, alt_irq_active, alt_irq>>
    BY <1>1, <1>6 DEF TakeInterrupt, Trap, TrapAgain, Globals
  <2> DEFINE f == Frame(c, pie)
             g == [Top EXCEPT !.trap = (f.cause = "inst") \/ Top.trap]
  <2>2. f \in Frames
    <3>1. /\ {} \in Bits /\ -1 \in Ids /\ NoIsr \in Handlers /\ Unset \in Masks /\ << >> \in Words
          /\ "entry" \in Pcs /\ "none" \in Ops /\ c \in Causes
      BY EmptySeq DEF Bits, Ids, Handlers, Masks, Words, Pcs, Ops, Causes
    <3> QED
      BY <1>1, <3>1 DEF Frame, Frames
  <2>3. f.pc = "entry"
    BY DEF Frame
  <2>4. Push(f)
    BY <2>1
  <2> HIDE DEF f
  <2>5. /\ Len(stack') = n + 1 /\ stack'[n + 1] = f /\ stack'[n] = g
        /\ \A k \in 1 .. n : k # n => stack'[k] = stack[k]
    BY <1>1, <2>2, <2>4, PushStack
  <2>6. ((f.cause = "inst") \/ Top.trap) \in BOOLEAN
    OBVIOUS
  <2>7. /\ g.pc = Top.pc /\ g.op = Top.op /\ g.arg = Top.arg /\ g.new = Top.new
        /\ g.active = Top.active
    BY <1>1, <2>6, TrapSame
  <2> HIDE DEF g, n
  <2>8. n + 1 \in Nat /\ (\A k \in 1 .. n + 1 : k = n + 1 \/ k \in 1 .. n) /\ 1 \in 1 .. n
    BY <1>2
  <2>9. \A k \in 1 .. n :
           /\ stack'[k].pc = stack[k].pc /\ stack'[k].op = stack[k].op
           /\ stack'[k].arg = stack[k].arg /\ stack'[k].new = stack[k].new
           /\ stack'[k].active = stack[k].active
    BY <1>2, <2>5, <2>7
  <2>10. \A k \in 1 .. n + 1 : k \in 1 .. n \/ stack'[k].pc = "entry"
    BY <2>3, <2>5, <2>8
  <2> QED
    BY <1>1, <2>1, <2>5, <2>8, <2>9, <2>10, TableSame DEF n
<1>7. CASE eret
  <2>1. n # 1 /\ UNCHANGED <<ienable, alt_irq_active, alt_irq>>
    BY <1>7, CallFacts DEF eret, At, Dispatching, Instruction, Globals
  <2>2. /\ Len(stack') = n - 1
        /\ \E b \in BOOLEAN : stack'[n - 1] = [stack[n - 1] EXCEPT !.trap = b]
        /\ \A k \in 1 .. n - 1 : k # n - 1 => stack'[k] = stack[k]
    BY <1>1, <1>7, <2>1, PopStack
  <2>3. PICK b \in BOOLEAN : stack'[n - 1] = [stack[n - 1] EXCEPT !.trap = b]
    BY <2>2
  <2>a. n \in Nat /\ n # 0 /\ n # 1
    BY <1>2, <2>1
  <2> HIDE DEF n
  <2>4. n - 1 \in Nat /\ n - 1 \in 1 .. n /\ (\A k \in 1 .. n - 1 : k \in 1 .. n) /\ 1 \in 1 .. n - 1
    BY <2>a
  <2>5. \A k \in 1 .. n - 1 :
           /\ k \in 1 .. n
           /\ stack'[k].pc = stack[k].pc /\ stack'[k].op = stack[k].op
           /\ stack'[k].arg = stack[k].arg /\ stack'[k].new = stack[k].new
           /\ stack'[k].active = stack[k].active
    <3> TAKE k \in 1 .. n - 1
    <3>1. CASE k = n - 1
      <4>1. stack[k] \in Frames /\ stack'[k] = [stack[k] EXCEPT !.trap = b]
        BY <1>2, <2>3, <2>4, <3>1
      <4> QED
        BY <2>4, <4>1, TrapSame
    <3>2. CASE k # n - 1
      BY <2>2, <2>4, <3>2
    <3> QED
      BY <3>1, <3>2
  <2> QED
    BY <1>1, <2>1, <2>2, <2>4, <2>5, TableSame DEF n
<1>8. CASE Device \/ \E set \in BOOLEAN : alt_instruction_exception_register(set)
  <2>1. UNCHANGED <<stack, ienable, alt_irq_active, alt_irq>>
    BY <1>8 DEF Device, Raise, Withdraw, alt_instruction_exception_register, Globals
  <2> QED
    BY <1>1, <2>1 DEF Table, TakingAway, Ready
<1> QED
  BY <1>3, <1>4, <1>5, <1>6, <1>7, <1>8 DEF Next, Choice, Proceed

----------------------------------------------------------------------------
(* The theorems.                                                           *)

\* The invariant holds out of reset.
LEMMA InitIInv == Init => IInv
<1> SUFFICES ASSUME Init PROVE IInv
  OBVIOUS
<1> DEFINE f == [Frame("none", FALSE) EXCEPT !.pc = "reset"]
<1>1. /\ f.pc = "reset" /\ f.ctx = << >> /\ f.isr = NoIsr /\ f.old = Unset /\ ~f.skip
      /\ f.op = "none"
  BY DEF Frame
<1>2. f \in Frames
  <2>1. /\ {} \in Bits /\ -1 \in Ids /\ NoIsr \in Handlers /\ Unset \in Masks /\ << >> \in Words
        /\ "reset" \in Pcs /\ "none" \in Ops /\ "none" \in Causes
    BY EmptySeq DEF Bits, Ids, Handlers, Masks, Words, Pcs, Ops, Causes
  <2> QED
    BY <2>1 DEF Frame, Frames
<1>3. stack = <<f>>
  BY DEF Init
<1> HIDE DEF f
<1>4. stack \in Seq(Frames) /\ Len(stack) = 1 /\ stack[1] = f /\ stack # << >>
  BY <1>2, <1>3
<1>5. (\A k \in 1 .. 1 : k = 1) /\ 1 \in 1 .. 1 /\ 2 .. 1 = {}
  OBVIOUS
<1>6. TypeOK
  <2>1. left \in [{"raises", "calls", "traps"} -> Nat]
    BY IrqAssumption DEF Init
  <2>2. NoIsr \in Handlers /\ Irqs \in Bits /\ {} \in Bits
    BY DEF Handlers, Bits
  <2>3. alt_irq \in [Irqs -> [handler : Handlers, context : Handlers]]
    BY <2>2 DEF Init
  <2> QED
    BY <1>4, <2>1, <2>2, <2>3 DEF Init, TypeOK, Bits
<1>7. Stacked
  <2>1. On(1) = FALSE /\ Len(f.ctx) = 0 /\ 2 .. 0 = {}
    BY <1>1, <1>4 DEF On, Init
  <2>2. Sections(f, FALSE)
    BY <1>1, <2>1 DEF Sections, Protected, Registering, Setting
  <2>3. Program(f, FALSE, TRUE)
    BY <1>1 DEF Program, Registering, Setting
  <2> QED
    BY <1>4, <1>5, <2>1, <2>2, <2>3 DEF Stacked, FrameOK
<1>8. Table
  <2>1. (\A i \in Irqs : alt_irq[i].handler = alt_irq[i].context) /\ alt_irq_active = {}
    BY DEF Init
  <2>2. \A k \in 1 .. Len(stack) : stack[k].pc = "reset"
    BY <1>1, <1>4, <1>5
  <2> QED
    BY <1>1, <1>4, <2>1, <2>2 DEF Table
<1>9. CausesKnown
  BY <1>4, <1>5 DEF CausesKnown
<1>10. Priorities
  BY <1>1, <1>4, <1>5 DEF Priorities, Setting
<1> QED
  BY <1>6, <1>7, <1>8, <1>9, <1>10 DEF IInv

\* Every step keeps the invariant.
LEMMA StepIInv == IInv /\ [Next]_vars => IInv'
<1> SUFFICES ASSUME IInv, [Next]_vars PROVE IInv'
  OBVIOUS
<1>1. CASE Next
  BY <1>1, TypeStep, StackStep, TableStep, CausesStep, PrioritiesStep DEF IInv
<1>2. CASE UNCHANGED vars
  <2>1. TypeOK'
    BY <1>2 DEF IInv, TypeOK, vars
  <2>2. Stacked'
    BY <1>2 DEF IInv, Stacked, FrameOK, On, vars
  <2>3. Table'
    BY <1>2 DEF IInv, Table, TakingAway, Ready, vars
  <2>4. CausesKnown'
    BY <1>2 DEF IInv, CausesKnown, alt_irq_pending, vars
  <2>5. (~NestedCalls => Priorities)'
    BY <1>2 DEF IInv, Priorities, vars
  <2> QED
    BY <2>1, <2>2, <2>3, <2>4, <2>5 DEF IInv
<1> QED
  BY <1>1, <1>2

\* The inductive invariant: every frame stands where its saved status allows,
\* the handler table is consistent wherever an interrupt can look at it, the
\* causes of exceptions are known, and the handlers that may be interrupted
\* are open only to interrupts of higher priority.
THEOREM IrqInvariant == Spec => []IInv
  BY InitIInv, StepIInv, PTL DEF Spec

\* No interrupt handler runs above code that is between alt_irq_disable_all
\* and its alt_irq_enable_all, for any nesting of sections and exceptions.
THEOREM SectionsHold == Spec => []CriticalSections
<1>1. IInv => CriticalSections
  <2> SUFFICES ASSUME IInv, NEW k \in DOMAIN stack, Protected(stack[k]),
                      NEW j \in DOMAIN stack, j > k
               PROVE  stack[j].isr = NoIsr
    BY DEF CriticalSections
  <2> DEFINE n == Len(stack)
  <2>1. DOMAIN stack = 1 .. n /\ n \in Nat
    BY LenProperties DEF IInv, TypeOK
  <2>2. k \in 1 .. n /\ j \in 1 .. n
    BY <2>1
  <2>3. n \in Nat
    BY <2>1
  <2> HIDE DEF n
  <2>4. k + 1 \in 1 .. n /\ k # n /\ k + 1 # 1
    BY <2>2, <2>3
  <2> USE DEF n
  <2>5. FrameOK(k) /\ FrameOK(k + 1)
    BY <2>2, <2>4 DEF IInv, Stacked
  <2>6. ~stack[k + 1].est
    BY <2>4, <2>5 DEF FrameOK, Sections, On
  <2>7. k + 1 = n
    BY <2>4, <2>6, Waiting
  <2>8. j = k + 1
    <3> HIDE DEF n
    <3> QED
      BY <2>2, <2>3, <2>7
  <2>9. Exception(stack[j], On(j), j = n)
    BY <2>4, <2>5, <2>8 DEF FrameOK
  <2> QED
    BY <2>6, <2>8, <2>9 DEF Exception, Instruction, InHandler, Setting
<1> QED
  BY <1>1, IrqInvariant, PTL

\* A handler gets the context it was registered with and is never a NULL one,
\* and code hit by an interrupt goes on where it was unless a device withdraws
\* its request before the dispatcher looks.
THEOREM Transparent == Spec => []InterruptsTransparent
<1>1. IInv => InterruptsTransparent
  <2> SUFFICES ASSUME IInv PROVE InterruptsTransparent
    OBVIOUS
  <2>1. TypeOK /\ Stacked /\ CausesKnown /\ DOMAIN stack = 1 .. Len(stack) /\ Len(stack) \in Nat
    BY LenProperties DEF IInv, TypeOK
  <2>2. HandlerWithContext
    <3> SUFFICES ASSUME NEW k \in 1 .. Len(stack), stack[k].pc = "isr"
                 PROVE  stack[k].isr # NoIsr /\ stack[k].isr = stack[k].context
      BY <2>1 DEF HandlerWithContext
    <3>1. FrameOK(k)
      BY <2>1 DEF Stacked
    <3>2. CASE k = 1
      BY <3>1, <3>2 DEF FrameOK, Program, Registering, Setting
    <3>3. CASE k # 1
      BY <3>1, <3>3 DEF FrameOK, Exception, InHandler
    <3> QED
      BY <3>2, <3>3
  <2>3. ASSUME ~Glitches PROVE OnlyTrapsSkipped
    <3> SUFFICES ASSUME NEW k \in 1 .. Len(stack), stack[k].skip
                 PROVE  stack[k].cause = "inst" /\ stack[k - 1].trap
      BY <2>1 DEF OnlyTrapsSkipped
    <3>1. k # 1
      BY <2>1 DEF Stacked, FrameOK, Program
    <3>2. k \in 2 .. Len(stack)
      <4>1. Len(stack) \in Nat
        BY <2>1
      <4> QED
        BY <3>1, <4>1
    <3> QED
      BY <2>1, <2>3, <3>2 DEF CausesKnown
  <2> QED
    BY <2>1, <2>2, <2>3 DEF InterruptsTransparent
<1> QED
  BY <1>1, IrqInvariant, PTL

\* Interrupt handlers nest by priority alone, when an interruptible handler
\* makes none of the calls that rewrite IENABLE without its mask.
THEOREM PrioritiesNest == ASSUME ~NestedCalls PROVE Spec => []PriorityNesting
<1>1. IInv => PriorityNesting
  <2> SUFFICES ASSUME IInv, NEW j \in DOMAIN stack, NEW k \in DOMAIN stack, j < k,
                      stack[j].isr # NoIsr, stack[k].isr # NoIsr
               PROVE  stack[k].id < stack[j].id
    BY DEF PriorityNesting
  <2> DEFINE n == Len(stack)
  <2>1. DOMAIN stack = 1 .. n /\ n \in Nat
    BY LenProperties DEF IInv, TypeOK
  <2>2. j \in 1 .. n /\ k \in 1 .. n /\ n \in Nat
    BY <2>1
  <2> HIDE DEF n
  <2>3. j # n /\ j + 1 \in 1 .. n /\ j + 1 # 1 /\ (j + 1 = n => k = j + 1)
    BY <2>2
  <2> USE DEF n
  <2>4. j # 1
    BY <2>2, <2>3, Waiting
  <2>5. FrameOK(j) /\ FrameOK(j + 1)
    BY <2>2, <2>3 DEF IInv, Stacked
  <2>6. stack[j + 1].est
    <3>1. CASE j + 1 = n
      <4>1. Exception(stack[j + 1], On(j + 1), j + 1 = n) /\ stack[j + 1].isr # NoIsr
        BY <2>3, <2>5, <3>1 DEF FrameOK
      <4> QED
        BY <4>1 DEF Exception, Instruction, InHandler, Setting
    <3>2. CASE j + 1 # n
      BY <2>3, <3>2, Waiting
    <3> QED
      BY <3>1, <3>2
  <2>7. On(j)
    BY <2>3, <2>6 DEF On
  <2>8. stack[j].old # Unset
    BY <2>4, <2>5, <2>7 DEF FrameOK, Exception
  <2>9. Priorities
    BY DEF IInv
  <2> QED
    BY <2>2, <2>8, <2>9 DEF Priorities
<1> QED
  BY <1>1, IrqInvariant, PTL
=============================================================================
