------------------------------ MODULE MCFiles ------------------------------
(***************************************************************************)
(* Files and memory of the hardware abstraction layer, for one run of TLC. *)
(* The parts share no state; a behaviour belongs to one, chosen in its     *)
(* initial state, and the state of the others stays as it starts.          *)
(*                                                                         *)
(*   "threads"  HalFile: two threads on the UART of the small driver,      *)
(*              which provides read and write only                         *)
(*   "mounted"  HalFile: the main thread only, with a file system that     *)
(*              provides everything and whose open may refuse              *)
(*   "cache"    HalCache       "heap"  HalHeap                             *)
(*                                                                         *)
(* The pool holds the standard streams and two more descriptors, so that   *)
(* it fills up.                                                            *)
(***************************************************************************)
EXTENDS HalFile

MCNameOf == "null" :> <<"dev", "null">> @@ "uart" :> <<"dev", "jtag_uart">>
            @@ "fs" :> <<"mnt">>
MCProvides == "null" :> {"write"} @@ "uart" :> {"read", "write"}
              @@ "fs" :> {"open", "close", "read", "write", "lseek", "fstat", "ioctl"}
MCStdioName == [s \in Streams |-> IF s = "stdout" THEN <<"mnt", "log">>
                                            ELSE <<"dev", "absent">>]
MCPaths == {<<"dev", "jtag_uart">>, <<"mnt", "log">>}
MCFlags == {{"WRONLY", "NONBLOCK"}}

CONSTANTS
  SIZE, LINE, DLINES, ILINES, CodeStart, Sizes, MaxBlocks, \* of HalCache
  Limit, Incrs, Exception                                  \* of HalHeap

OnUart == INSTANCE HalFile WITH
  Filesystems <- {}, Paths <- {<<"dev", "jtag_uart">>},
  Calls <- {"open", "stat", "close", "lock", "unlock"}

VARIABLES
  part,
  mem, dcache, icache, blocks, given, loaded,
  heap_end, stack_limit, sp, old_limit, got, result, overflow

Cache == INSTANCE HalCache
Heap == INSTANCE HalHeap

ASSUME MemoryAssumption == Cache!CacheAssumption /\ Heap!HeapAssumption

\* Increments of whole words.
MCIncrs == {-4, 4, 8}

cacheVars == <<mem, dcache, icache, blocks, given, loaded>>
heapVars == <<heap_end, stack_limit, sp, old_limit, got, result, overflow>>
filesVars == <<vars, part, cacheVars, heapVars>>

FilesInit ==
  /\ part \in {"threads", "mounted", "cache", "heap"}
  /\ Init
  /\ Cache!Init /\ Heap!Init

ThreadsStep == part = "threads" /\ OnUart!Next /\ UNCHANGED <<cacheVars, heapVars>>
MountedStep == /\ part = "mounted" /\ Next /\ pc'["t2"] = "idle"
               /\ UNCHANGED <<cacheVars, heapVars>>
CacheStep   == part = "cache" /\ Cache!Next /\ UNCHANGED <<vars, heapVars>>
HeapStep    == part = "heap" /\ Heap!Next /\ UNCHANGED <<vars, cacheVars>>
\* A reported stack overflow stops the processor at a break.
Stopped     == part = "heap" /\ overflow /\ UNCHANGED <<vars, cacheVars, heapVars>>

FilesNext == (ThreadsStep \/ MountedStep \/ CacheStep \/ HeapStep \/ Stopped) /\ UNCHANGED part

\* A thread in a call goes on, and gets a semaphore that it keeps finding
\* free.
FilesFairness ==
  \A t \in Threads : /\ WF_vars(part = "threads" /\ Inside(t))
                     /\ SF_vars(part = "threads" /\ (GetPend(t) \/ LockPend(t)))

FilesSpec == FilesInit /\ [][FilesNext]_filesVars /\ FilesFairness

-----------------------------------------------------------------------------

\* HalCache: a flushed range is in memory, whatever its alignment; uncached
\* memory shares no line with cached data (alt_uncached_malloc,
\* alt_remap_uncached); code that was copied or patched is what is executed.
CachesCoherent ==
  Cache!GivenInMemory /\ Cache!UncachedCoherent /\ Cache!CodeCurrent

\* HalHeap: blocks of sbrk are aligned, disjoint and inside the heap, which
\* the code does check, and the program's stack stays above them while no
\* overflow is reported (growth from an exception always reports one, and is
\* not covered).
HeapSound == Heap!HeapSound

\* A thread of that part is inside a call.
Calling(t) == part = "threads" /\ pc[t] # "idle"

\* HalFile: every call returns, although threads wait for each other.
EveryCallReturns == \A t \in Threads : Calling(t) ~> ~Calling(t)
=============================================================================
