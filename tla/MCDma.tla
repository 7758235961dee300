------------------------------- MODULE MCDma -------------------------------
(***************************************************************************)
(* The mSGDMA driver for one run of TLC.  A behaviour belongs to one use   *)
(* of the driver, chosen in its initial state; the state of the other mode *)
(* stays as it starts.                                                     *)
(*                                                                         *)
(*   "mixed"   Msgdma: asynchronous and synchronous calls, failures, null  *)
(*             descriptors, callbacks that start transfers                 *)
(*   "async"   Msgdma: the same with asynchronous calls only, extended     *)
(*             descriptors, and one callback that stays registered         *)
(*   "build"   MsgdmaPrefetcher: lists in any order, every kind of start   *)
(*   "race"    MsgdmaPrefetcher: the starts the driver recommends, also    *)
(*             while the prefetcher runs                                   *)
(*   "start"   MsgdmaPrefetcher: the same starts, when it has stopped      *)
(***************************************************************************)
EXTENDS MCMsgdma

Async == INSTANCE Msgdma WITH
  enhanced_features <- 1, MaxDesc <- 4, Calls <- {"async"}, MayUnregister <- FALSE

CONSTANTS
  BuildN, BuildExec,  \* descriptors and bound of the runs in use "build"
  RunN, RunExec       \* and in uses "race" and "start"

VARIABLES
  use,
  mem, cache, dirty, list, added, reg, ptr, p_irq, disp, fetch, executed,
  p_isr, tmp, p_pc, at, count, mode, p_ctl, p_ret

AllModes == [park : BOOLEAN, poll : BOOLEAN, sw : BOOLEAN, flush : BOOLEAN]
\* The start that the comment of the driver recommends.
Recommended == {[park |-> FALSE, poll |-> FALSE, sw |-> TRUE, flush |-> TRUE]}

Prefetcher(u) == INSTANCE MsgdmaPrefetcher WITH
  N <- IF u = "build" THEN BuildN ELSE RunN,
  MaxExec <- IF u = "build" THEN BuildExec ELSE RunExec,
  Modes <- IF u = "build" THEN AllModes ELSE Recommended,
  Callback <- u # "build", InOrder <- u # "build", WaitsForIdle <- u # "race",
  irq <- p_irq, isr <- p_isr, pc <- p_pc, ctl <- p_ctl, ret <- p_ret

ASSUME UsesAssumption == \A u \in {"build", "race", "start"} : Prefetcher(u)!PrefetcherAssumption

prefetcherVars ==
  <<mem, cache, dirty, list, added, reg, ptr, p_irq, disp, fetch, executed,
    p_isr, tmp, p_pc, at, count, mode, p_ctl, p_ret>>
dmaVars == <<vars, use, prefetcherVars>>

DmaInit ==
  /\ use \in {"mixed", "async", "build", "race", "start"}
  /\ Init
  /\ IF use = "build" THEN Prefetcher("build")!Init ELSE Prefetcher("race")!Init

MixedStep == use = "mixed" /\ Next /\ UNCHANGED prefetcherVars
AsyncStep == use = "async" /\ Async!Next /\ UNCHANGED prefetcherVars
BuildStep == use = "build" /\ Prefetcher("build")!Next /\ UNCHANGED vars
RaceStep  == use = "race" /\ Prefetcher("race")!Next /\ UNCHANGED vars
StartStep == use = "start" /\ Prefetcher("start")!Next /\ UNCHANGED vars

DmaNext ==
  /\ MixedStep \/ AsyncStep \/ BuildStep \/ RaceStep \/ StartStep
  /\ UNCHANGED use

\* The processor runs on and serves interrupts, the hardware finishes what it
\* started; the program need not start anything.
DmaFairness ==
  /\ WF_vars(use = "async" /\ Async!Hw)
  /\ WF_vars(use = "async" /\ Async!Isr)
  /\ WF_vars(use = "async" /\ Async!Thread)
  /\ WF_prefetcherVars(use \in {"race", "start"} /\ Prefetcher("race")!Thread)
  /\ WF_prefetcherVars(use \in {"race", "start"} /\ Prefetcher("race")!Isr)
  /\ WF_prefetcherVars(use \in {"race", "start"} /\ Prefetcher("race")!HwExecute)
  /\ WF_prefetcherVars(use \in {"race", "start"} /\ Prefetcher("race")!HwStop)

DmaSpec == DmaInit /\ [][DmaNext]_dmaVars /\ DmaFairness

-----------------------------------------------------------------------------

\* Every descriptor handed to the hardware is well formed.  Msgdma: it has the
\* format this hardware takes and keeps to its limits, whatever the program
\* asked for.  MsgdmaPrefetcher: a list is one cycle through what was added,
\* in order (alt_msgdma_prefetcher_add_standard_desc_to_list), and a running
\* prefetcher fetches from a descriptor.
DescriptorsFit ==
  CASE use = "mixed" -> WithinLimits
    [] use = "async" -> Async!WithinLimits
    [] use = "build" -> Prefetcher("build")!TypeOK /\ Prefetcher("build")!ListIsCycle
    [] OTHER -> Prefetcher("race")!TypeOK /\ Prefetcher("race")!ListIsCycle

\* MsgdmaPrefetcher: with the recommended start, hardware executes the list
\* from its root in order, also when a start or the interrupt races the run;
\* it never executes the descriptor left to software, and it reads what the
\* program wrote (the flush in alt_msgdma_start_prefetcher_with_list_addr).
RunsInListOrder ==
  use = "race" => /\ Prefetcher("race")!RunsInListOrder
                  /\ Prefetcher("race")!LastNotExecuted
                  /\ Prefetcher("race")!FlushedBeforeRun

\* Msgdma: with asynchronous calls, every committed descriptor is executed and
\* the callback runs after every completion, until a transfer fails or a call
\* gives up and leaves the dispatcher stopped (altera_msgdma.c:415,442,456).
\* MsgdmaPrefetcher: every run ends, and a start of a stopped prefetcher
\* executes the list.
DmaCompletes ==
  /\ use = "async" => Async!AcceptedCompletes
  /\ use = "async" => Async!CallbackFollows
  /\ use = "race" => Prefetcher("race")!RunEnds
  /\ use = "start" => Prefetcher("start")!StartExecutes
=============================================================================
