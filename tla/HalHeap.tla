------------------------------ MODULE HalHeap -------------------------------
(***************************************************************************)
(* sbrk of the HAL (alt_sbrk.c) with its stack check (alt_stack.h): the    *)
(* heap grows towards the stack, whose limit register follows the end of   *)
(* the heap.  sbrk disables interrupts, so a call is one step; it is made  *)
(* by the program and, for profiling, by interrupt routines.               *)
(***************************************************************************)
EXTENDS Integers

CONSTANTS
  Limit,          \* __alt_heap_limit, the heap starting at 0
  Incrs,          \* increments that sbrk is called with
  Exception       \* the exception routines have a stack of their own

HeapAssumption ==
  /\ Limit \in Nat /\ Incrs \subseteq Int /\ Exception \in BOOLEAN

VARIABLES
  heap_end,
  stack_limit,    \* register et
  sp,             \* stack pointer of the program; the stack grows down
  old_limit,      \* alt_exception_old_stack_limit, 0 - 1 outside exceptions
  got,            \* blocks that sbrk returned, as <<first, end>>
  result,         \* what the last call returned: "none", "block" or "-1"
  overflow        \* a stack overflow was reported

vars == <<heap_end, stack_limit, sp, old_limit, got, result, overflow>>

InException == old_limit >= 0

Init ==
  /\ heap_end = 0 /\ stack_limit = 0 /\ sp = Limit + 4 /\ old_limit = -1
  /\ got = {} /\ result = "none" /\ overflow = FALSE

\* Data aligned on a word.
WordAligned(a) == ((a + 3) \div 4) * 4

\* The check against the end of the memory.  (NoLimitBug: left out.)
NoLimitBug(end) == FALSE
Beyond(end) == end > Limit

\* The default stack is in use: its limit is the end of the heap.  (NoTrackBug:
\* the limit is not moved.)
NoTrackBug(prev) == FALSE
Tracked(prev) == stack_limit = prev

\* The blocks that remain when memory is given back.
Remaining(end) == {b \in got : b[2] <= end}

\* A call that fails has aligned heap_end all the same.
ALT_SBRK(incr) ==
  LET prev == WordAligned(heap_end)
      end == prev + incr
      tracked == Tracked(prev)
      tracked2 == InException /\ old_limit = prev
  IN /\ ~overflow
     /\ IF Beyond(end)
        THEN /\ result' = "-1" /\ heap_end' = prev
             /\ UNCHANGED <<stack_limit, old_limit, got, overflow>>
        ELSE /\ result' = "block" /\ heap_end' = end
             /\ got' = Remaining(end) \cup
                         (IF incr > 0 THEN {<<prev, end>>} ELSE {})
             /\ stack_limit' = IF tracked THEN end ELSE stack_limit
             /\ old_limit' = IF tracked2 THEN end ELSE old_limit
             /\ overflow' = \/ tracked /\ ~InException /\ sp <= end
                            \/ tracked2 /\ old_limit <= end
     /\ UNCHANGED sp

\* Only a positive increment, or giving back memory that was obtained.
Sbrk(incr) == heap_end + incr >= 0 /\ ALT_SBRK(incr)

\* A function call or return moves the stack pointer; the compiler's check
\* compares it with the limit register.
MoveStack(p) ==
  /\ ~overflow /\ ~InException
  /\ sp' = p
  /\ overflow' = (p < stack_limit)
  /\ UNCHANGED <<heap_end, stack_limit, old_limit, got, result>>

\* An exception switches to its own stack and keeps the old limit.
Enter ==
  /\ Exception /\ ~InException /\ ~overflow
  /\ old_limit' = stack_limit /\ stack_limit' = -1
  /\ UNCHANGED <<heap_end, sp, got, result, overflow>>
Leave ==
  /\ InException /\ ~overflow
  /\ stack_limit' = old_limit /\ old_limit' = -1
  /\ UNCHANGED <<heap_end, sp, got, result, overflow>>

Next ==
  \/ \E incr \in Incrs : Sbrk(incr)
  \/ \E p \in 0..Limit+4 : MoveStack(p)
  \/ Enter \/ Leave
Spec == Init /\ [][Next]_vars

-----------------------------------------------------------------------------
\* The blocks sbrk has returned are word aligned, end in the heap and do not
\* overlap, after failures and returned memory too (alt_sbrk.c).  The code
\* refuses a block beyond the end of the memory, which its header comment
\* denies (NeverRefused).
BlocksSound ==
  \A b \in got : /\ b[1] % 4 = 0 /\ b[2] <= heap_end /\ b[2] <= Limit
                 /\ \A c \in got : b = c \/ b[2] <= c[1] \/ c[2] <= b[1]

\* While no overflow is reported the stack is above every block of the heap:
\* the limit follows the heap while the program and its returns of memory move
\* both (comment in ALT_SBRK on adjusting the stack limit).  It says nothing of
\* growth from an exception, which the code reports as an overflow whatever
\* the stack (OverflowIsReal); of calls from there it covers the failing ones
\* and those that give memory back.
StackAboveHeap == ~overflow => \A b \in got : b[2] <= sp

\* Both: blocks of sbrk are aligned, disjoint and inside the heap, and the
\* stack limit follows the heap.
HeapSound == BlocksSound /\ StackAboveHeap

\* "This simple implementation does not perform any bounds checking. Memory
\* will be allocated, even if the request region [...] overflows the available
\* physical memory" (header of ALT_SBRK): no call fails.
NeverRefused == result # "-1"

\* "must be safe if called from an interrupt context" (header of ALT_SBRK): an
\* overflow that is reported there is one, the heap has reached the stack that
\* was interrupted.
OverflowIsReal == overflow /\ InException => sp <= heap_end
=============================================================================
