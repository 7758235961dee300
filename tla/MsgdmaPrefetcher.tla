-------------------------- MODULE MsgdmaPrefetcher --------------------------
(***************************************************************************)
(* The mSGDMA driver in prefetcher mode: building a list of descriptors,   *)
(* handing it to the hardware and starting it, and the interrupt routine   *)
(* (drivers/src/altera_msgdma.c).                                          *)
(*                                                                         *)
(* Descriptors are the elements 1..N of an array, one data cache line      *)
(* each.  The processor writes to its cache; a dirty line reaches memory   *)
(* when it is flushed or evicted.  The hardware reads and writes memory.   *)
(***************************************************************************)
EXTENDS MsgdmaDescriptor, Sequences, Functions

CONSTANTS
  N,              \* descriptors in the array
  Callback,       \* a callback is registered
  Modes,          \* arguments of a start: [park, poll, sw, flush]
  InOrder,        \* the program adds the descriptors in array order
  WaitsForIdle,   \* the program starts the prefetcher only when RUN is clear
  MaxExec         \* bound: descriptors executed in one run of the prefetcher

PrefetcherAssumption ==
  /\ N \in Nat \ {0} /\ {Callback, InOrder, WaitsForIdle} \subseteq BOOLEAN /\ MaxExec \in Nat
  /\ Modes \subseteq [park : BOOLEAN, poll : BOOLEAN, sw : BOOLEAN, flush : BOOLEAN]

Desc == 1 .. N
Request == [read |-> 1, write |-> 1, length |-> max_byte, control |-> {},
            read_burst |-> 0, write_burst |-> 0, read_stride |-> 0, write_stride |-> 0]

VARIABLES
  mem, cache, dirty,      \* descriptors in memory, in the cache, and dirty lines
  list, added,            \* the root of the list, and what was added to it
  reg, ptr, irq,          \* control, next descriptor pointer, status of the prefetcher
  disp,                   \* the dispatcher runs
  fetch, executed,        \* hardware: next to fetch, executed since RUN was set
  isr, tmp,               \* the interrupt routine and its temporary_control
  pc, at, count, mode, ctl, ret   \* the thread and the locals of its call

memVars == <<mem, cache, dirty>>
hwVars == <<reg, ptr, irq, disp, fetch, executed>>
threadVars == <<pc, at, count, mode, ctl, ret>>
vars == <<memVars, list, added, hwVars, isr, tmp, threadVars>>

\* What the processor reads, and what a write leaves behind.
View(d) == IF d \in dirty THEN cache[d] ELSE mem[d]
Store(c, s) ==
  /\ cache' = [d \in Desc |-> IF d \in s THEN c[d] ELSE cache[d]]
  /\ dirty' = dirty \cup s /\ UNCHANGED mem

\* A write of the control register; hardware begins at ptr when RUN is set.
WriteControl(bits, root) ==
  /\ reg' = bits
  /\ IF "RUN" \in bits /\ "RUN" \notin reg
     THEN fetch' = root /\ executed' = <<>>
     ELSE UNCHANGED <<fetch, executed>>

Blank == [next |-> NULL, control |-> {}, length |-> 0]

\* After alt_msgdma_init has reset both cores.
Init ==
  /\ mem = [d \in Desc |-> Blank] /\ cache = mem /\ dirty = {}
  /\ list = NULL /\ added = <<>>
  /\ reg = {} /\ ptr = NULL /\ irq = FALSE /\ disp = FALSE
  /\ fetch = NULL /\ executed = <<>>
  /\ isr = "off" /\ tmp = {}
  /\ pc = "idle" /\ at = NULL /\ count = 0 /\ ctl = {} /\ ret = "none"
  /\ mode = [park |-> FALSE, poll |-> FALSE, sw |-> FALSE, flush |-> FALSE]

-----------------------------------------------------------------------------
(* The hardware, and the cache.                                            *)

\* A descriptor that belongs to the hardware is executed and, unless the
\* prefetcher parks, given back.
HwExecute ==
  /\ "RUN" \in reg /\ disp /\ Len(executed) < MaxExec
  /\ "OWN_BY_HW" \in mem[fetch].control
  /\ executed' = Append(executed, fetch)
  /\ fetch' = mem[fetch].next
  /\ mem' = IF "PARK" \in reg THEN mem
            ELSE [mem EXCEPT ![fetch].control = @ \ {"OWN_BY_HW"}]
  /\ irq' = TRUE
  /\ UNCHANGED <<cache, dirty, list, added, reg, ptr, disp, isr, tmp, threadVars>>

\* One that does not ends the run, unless the prefetcher polls.
HwStop ==
  /\ "RUN" \in reg /\ "POLL" \notin reg /\ "OWN_BY_HW" \notin mem[fetch].control
  /\ reg' = reg \ {"RUN"}
  /\ UNCHANGED <<memVars, list, added, ptr, irq, disp, fetch, executed, isr, tmp,
                 threadVars>>

Evict(d) ==
  /\ d \in dirty
  /\ mem' = [mem EXCEPT ![d] = cache[d]] /\ dirty' = dirty \ {d}
  /\ UNCHANGED <<cache, list, added, hwVars, isr, tmp, threadVars>>

Hw == HwExecute \/ HwStop

-----------------------------------------------------------------------------
(* The interrupt routine: two read-modify-writes of the control register   *)
(* around the callback; the hardware runs on between read and write.       *)

IsrRead(from, to, bits) ==
  /\ isr = from /\ isr' = to /\ tmp' = bits
  /\ UNCHANGED <<memVars, list, added, hwVars, threadVars>>

IsrWrite(from, to, status) ==
  /\ isr = from /\ isr' = to
  /\ WriteControl(tmp, ptr)
  /\ irq' = status
  /\ UNCHANGED <<memVars, list, added, ptr, disp, tmp, threadVars>>

Isr ==
  \/ irq /\ "GIE" \in reg /\ IsrRead("off", "mask", reg \ {"GIE"})
  \/ IsrWrite("mask", "callback", FALSE)
  \/ IsrRead("callback", "unmask", reg \cup {"GIE"})
  \/ IsrWrite("unmask", "off", irq)

-----------------------------------------------------------------------------
(* The thread: building the list.                                          *)

Reply(r) ==
  /\ pc' = "idle" /\ ret' = r
  /\ UNCHANGED <<list, added, hwVars, isr, tmp, at, count, mode, ctl>>

ConstructDescriptor(d) ==
  /\ d \notin Range(added)
  /\ \E c \in ConstructPrefetcher(d, Request) : Store([e \in Desc |-> c], {d})
  /\ Reply("ok")

\* (CloseBug: the new last descriptor is left pointing to itself.)
CloseBug(d) == d
Close(d) == list

\* The last node before the root, found along the pointers.
LastOfList == CHOOSE d \in Desc : d \in Range(added) /\ View(d).next = list

\* -EINVAL for no descriptor, one that does not point to itself (in a list
\* of several already), and the root itself.
Refused(d) == IF d = NULL THEN TRUE ELSE View(d).next # d \/ d = list

AddToList(d) ==
  IF Refused(d) THEN Reply("EINVAL") /\ UNCHANGED memVars
  ELSE /\ added' = Append(added, d) /\ ret' = "ok"
       /\ IF list = NULL
          THEN list' = d /\ UNCHANGED memVars
          ELSE /\ Store([e \in Desc |-> [View(e) EXCEPT !.next =
                                            IF e = d THEN Close(d) ELSE d]], {d, LastOfList})
               /\ UNCHANGED list
       /\ UNCHANGED <<hwVars, isr, tmp, pc, at, count, mode, ctl>>

Build ==
  /\ pc = "idle" /\ isr = "off"
  /\ \/ \E d \in Desc : ConstructDescriptor(d)
     \/ \E d \in Desc \cup {NULL} :
          /\ InOrder /\ d # NULL => d = Len(added) + 1 \/ d \in Range(added)
          /\ "RUN" \notin reg /\ AddToList(d)

-----------------------------------------------------------------------------
(* The thread: starting the prefetcher.                                    *)

StartCall ==
  /\ pc = "idle" /\ isr = "off" /\ (WaitsForIdle => "RUN" \notin reg)
  /\ \E m \in Modes :
       IF list = NULL THEN Reply("EINVAL")
       ELSE /\ mode' = m /\ at' = list /\ count' = 0 /\ pc' = "own"
            /\ UNCHANGED <<list, added, hwVars, isr, tmp, ctl, ret>>
  /\ UNCHANGED memVars

\* Which owner a descriptor is given.  (OwnerBug: the last one is not told
\* from the others.)
OwnerBug(last) == {"OWN_BY_HW"}
Owner(last) == IF last /\ mode.sw THEN {} ELSE {"OWN_BY_HW"}

SetOwn ==
  /\ pc = "own" /\ isr = "off"
  /\ LET last == View(at).next = list
     IN /\ Store([e \in Desc |-> [View(at) EXCEPT !.control =
                                     (@ \ {"OWN_BY_HW"}) \cup Owner(last)]], {at})
        /\ pc' = IF ~last THEN "own" ELSE IF mode.flush THEN "flush" ELSE "check"
        /\ at' = View(at).next
  /\ count' = count + 1
  /\ UNCHANGED <<list, added, hwVars, isr, tmp, mode, ctl, ret>>

\* alt_dcache_flush(list, count * sizeof(descriptor)).  (FlushedBug: the last
\* descriptor is not counted.)
FlushedBug == list .. list + count - 2
Flushed == list .. list + count - 1

Flush ==
  /\ pc = "flush" /\ isr = "off"
  /\ LET lines == {d \in dirty : d \in Flushed}
     IN /\ mem' = [d \in Desc |-> IF d \in lines THEN cache[d] ELSE mem[d]]
        /\ dirty' = dirty \ lines
  /\ pc' = "check"
  /\ UNCHANGED <<cache, list, added, hwVars, isr, tmp, at, count, mode, ctl, ret>>

\* -EBUSY, or stop the dispatcher and clear its status.
CheckRun ==
  /\ pc = "check" /\ isr = "off"
  /\ IF "RUN" \in reg THEN Reply("EBUSY")
     ELSE /\ ctl' = reg /\ disp' = FALSE /\ pc' = "control"
          /\ UNCHANGED <<list, added, reg, ptr, irq, fetch, executed, isr, tmp, at,
                         count, mode, ret>>
  /\ UNCHANGED memVars

\* (HeldBug: the dispatcher is left stopped.)
HeldBug == FALSE
Released == TRUE

\* Dispatcher and prefetcher control, by whether there is a callback.
SetControl ==
  /\ pc = "control" /\ isr = "off"
  /\ ctl' = IF Callback THEN ctl \cup {"GIE"} ELSE ctl \ {"GIE"}
  /\ disp' = Released
  /\ WriteControl(ctl', ptr)
  /\ pc' = "run"
  /\ UNCHANGED <<memVars, list, added, ptr, irq, isr, tmp, at, count, mode, ret>>

\* (ModeBug: a start that asks for neither park nor poll leaves polling on.)
ModeBug == {"POLL"}
ModeBits == (IF mode.park THEN {"PARK"} ELSE {}) \cup (IF mode.poll THEN {"POLL"} ELSE {})

\* (RootBug: the pointer register is left as it was.)
RootBug == ptr
Root == list

Run ==
  /\ pc = "run" /\ isr = "off"
  /\ ptr' = Root
  /\ WriteControl((ctl \ {"PARK", "POLL"}) \cup ModeBits \cup {"RUN"}, Root)
  /\ pc' = "idle" /\ ret' = "ok"
  /\ UNCHANGED <<memVars, list, added, irq, disp, isr, tmp, at, count, mode, ctl>>

Thread == SetOwn \/ Flush \/ CheckRun \/ SetControl \/ Run

Next == Build \/ StartCall \/ Thread \/ Hw \/ Isr \/ \E d \in Desc : Evict(d)

Spec == Init /\ [][Next]_vars

\* The processor executes a call to its end and serves interrupts, the
\* hardware proceeds; the program need not start anything.
FairSpec == Spec /\ WF_vars(Thread) /\ WF_vars(Isr) /\ WF_vars(HwExecute) /\ WF_vars(HwStop)

-----------------------------------------------------------------------------
(* Properties.                                                             *)

\* Every descriptor is well formed in the processor's view, links included,
\* and a running prefetcher fetches from a descriptor.
TypeOK ==
  /\ \A d \in Desc : View(d) \in PrefetcherDescriptor(Desc \cup {NULL})
  /\ reg \subseteq {"RUN", "POLL", "PARK", "GIE"} /\ dirty \subseteq Desc
  /\ list \in Desc \cup {NULL} /\ ("RUN" \in reg => fetch \in Desc)
  /\ ret \in {"none", "ok", "EINVAL", "EBUSY"}

\* The pointers, as the processor sees them, form one cycle through exactly
\* the descriptors that were added, in the order of the calls that added them
\* (alt_msgdma_prefetcher_add_standard_desc_to_list).
ListIsCycle ==
  \A i \in 1 .. Len(added) :
     View(added[i]).next = added[IF i = Len(added) THEN 1 ELSE i + 1]

\* With the starts the driver recommends, what the hardware executes in one
\* run is the list from its root on, in order: no descriptor is skipped,
\* repeated or foreign, even when a further start or the interrupt routine
\* races the run (alt_msgdma_start_prefetcher_with_list_addr).
RunsInListOrder ==
  Len(executed) <= Len(added) /\ executed = SubSeq(added, 1, Len(executed))

\* A start that gives the last descriptor to software, parks nothing and polls
\* nothing ends by itself, and never executes the last one (comment at
\* alt_msgdma_start_prefetcher_with_std_desc_list).
LastNotExecuted ==
  (\A m \in Modes : m.sw) => \A i \in 1 .. Len(executed) : executed[i] # added[Len(added)]

\* Every run comes to an end when no start asks for parking or polling.
RunEnds == ("RUN" \in reg) ~> ("RUN" \notin reg)

\* A list that is flushed is in memory as the processor wrote it when the
\* prefetcher starts ("flush the descriptor list from dcache before starting
\* the prefetcher").
FlushedBeforeRun ==
  pc \in {"check", "control", "run"} /\ mode.flush => Range(added) \cap dirty = {}

\* A start that returns success executes the list: from the call, the last
\* hardware-owned descriptor is reached.
StartExecutes ==
  (pc = "run") ~> (Len(executed) >= Len(added) - 1)
=============================================================================
