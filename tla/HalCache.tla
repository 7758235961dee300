------------------------------ MODULE HalCache ------------------------------
(***************************************************************************)
(* The caches of the Nios II and the HAL routines that keep memory         *)
(* coherent with them: alt_dcache_flush and its variants, the uncached     *)
(* heap, alt_icache_flush, and alt_load, which moves code.                 *)
(*                                                                         *)
(* The data cache is direct mapped and write back, the instruction cache   *)
(* direct mapped (external).  Instead of a value, a copy of a byte has a   *)
(* bit: it is the last one written.                                        *)
(***************************************************************************)
EXTENDS Naturals, FiniteSets

CONSTANTS
  SIZE,           \* bytes of memory
  LINE,           \* bytes of a cache line
  DLINES, ILINES, \* lines of the data and of the instruction cache
  CodeStart,      \* the section that alt_load copies: CodeStart .. SIZE-1
  Sizes,          \* sizes the program allocates and flushes
  MaxBlocks       \* bound: blocks allocated at a time

CacheAssumption ==
  /\ {SIZE, LINE, DLINES, ILINES} \subseteq Nat \ {0} /\ SIZE % LINE = 0
  /\ CodeStart \in 0..SIZE /\ CodeStart % LINE = 0 /\ Sizes \subseteq Nat \ {0}

VARIABLES
  mem,            \* bytes whose last value is in memory
  dcache,         \* line, dirty bit and up-to-date bytes of every index
  icache,         \* line of every index, and whether it is up to date
  blocks,         \* allocated blocks
  given,          \* bytes that were flushed for a device to read
  loaded          \* alt_load has run

vars == <<mem, dcache, icache, blocks, given, loaded>>

Bytes == 0..SIZE-1
LineOf(a) == a \div LINE
BytesOf(l) == l * LINE .. l * LINE + LINE - 1
Range(s, n) == s .. s + n - 1
None == SIZE \* a line that does not exist
Empty == [line |-> None, dirty |-> FALSE, ok |-> {}]

Init ==
  /\ mem = Bytes /\ dcache = [i \in 0..DLINES-1 |-> Empty]
  /\ icache = [i \in 0..ILINES-1 |-> [line |-> None, ok |-> TRUE]]
  /\ blocks = {} /\ given = {} /\ loaded = FALSE

-----------------------------------------------------------------------------
(* The hardware: effects on memory and data cache, as records of both.     *)

Now == [mem |-> mem, dc |-> dcache]
Holds(s, l) == s.dc[l % DLINES].line = l

\* Write a line back if it is dirty.
WriteBack(s, i) ==
  IF ~s.dc[i].dirty THEN s.mem
  ELSE (s.mem \ BytesOf(s.dc[i].line)) \cup s.dc[i].ok

\* The line of a is in the cache; the one it displaces is written back.
Fill(s, a) ==
  LET l == LineOf(a)  i == l % DLINES  m == WriteBack(s, i)
  IN IF Holds(s, l) THEN s
     ELSE [mem |-> m, dc |-> [s.dc EXCEPT ![i] =
              [line |-> l, dirty |-> FALSE, ok |-> m \cap BytesOf(l)]]]

Store(s, a) ==
  LET f == Fill(s, a)  i == LineOf(a) % DLINES
  IN [mem |-> f.mem \ {a},
      dc |-> [f.dc EXCEPT ![i].dirty = TRUE, ![i].ok = f.dc[i].ok \cup {a}]]

\* A store that bypasses the cache (bit 31 of the address, or a device).
Bypass(s, a) ==
  [mem |-> s.mem \cup {a},
   dc |-> [i \in 0..DLINES-1 |-> [s.dc[i] EXCEPT !.ok = @ \ {a}]]]

\* flushda, flushd and initda on the indices of I.
Drop(s, I, writeback) ==
  [mem |-> (s.mem \ UNION {BytesOf(s.dc[i].line) : i \in {j \in I : writeback /\ s.dc[j].dirty}})
           \cup UNION {s.dc[i].ok : i \in {j \in I : writeback /\ s.dc[j].dirty}},
   dc |-> [i \in 0..DLINES-1 |-> IF i \in I THEN Empty ELSE s.dc[i]]]

-----------------------------------------------------------------------------
(* The cache routines.                                                     *)

\* Addresses at which a loop over a region flushes: one per line length, and
\* one more when the region is not aligned.  (AlignedBug: never one more.)
Steps(len) == (len + LINE - 1) \div LINE
AlignedBug(start, len) == {start + k * LINE : k \in {j \in 0..len : j < Steps(len)}}
FlushPoints(start, len) ==
  {start + k * LINE : k \in {j \in 0..Steps(len) : j < Steps(len) \/ start % LINE # 0}}

\* flushda looks at the tag.
alt_dcache_flush(s, start, len, writeback) ==
  LET L == {LineOf(p) : p \in FlushPoints(start, len)}
  IN Drop(s, {i \in 0..DLINES-1 : s.dc[i].line \in L}, writeback)

\* flushd does not: one address per index.
alt_dcache_flush_all(s) == Drop(s, 0..DLINES-1, TRUE)

\* flushi does not either, so a long region needs no more than all indices.
alt_icache_flush(ic, start, len) ==
  LET n == IF len > ILINES * LINE THEN ILINES * LINE ELSE len
      I == {LineOf(p) % ILINES : p \in FlushPoints(start, n)}
  IN [i \in 0..ILINES-1 |-> IF i \in I THEN [line |-> None, ok |-> TRUE] ELSE ic[i]]

-----------------------------------------------------------------------------
(* The program.                                                            *)

Is(s) == mem' = s.mem /\ dcache' = s.dc
Free == Bytes \ ((UNION {Range(b.start, b.len) : b \in blocks})
                 \cup (CodeStart..SIZE-1))
Cached == UNION {Range(b.start, b.len) : b \in {c \in blocks : ~c.uncached}}
Uncached == UNION {Range(b.start, b.len) : b \in {c \in blocks : c.uncached}}

malloc(n) ==
  /\ Cardinality(blocks) < MaxBlocks
  /\ \E p \in Bytes : /\ Range(p, n) \subseteq Free
                      /\ blocks' = blocks \cup {[start |-> p, len |-> n, uncached |-> FALSE]}
  /\ UNCHANGED <<mem, dcache, icache, given, loaded>>

\* Whole lines are allocated, so that no cached byte is on a line of the block.
\* (SizeBug: the size is not rounded up.)
SizeBug(n) == n
AlignedSize(n) == ((n + LINE - 1) \div LINE) * LINE

\* The bytes of the new block are taken as written, in memory.
alt_uncached_malloc(n) ==
  /\ Cardinality(blocks) < MaxBlocks
  /\ \E p \in {a \in Bytes : a % LINE = 0} :
       LET k == AlignedSize(n)
           s == alt_dcache_flush(Now, p, k, TRUE)
       IN /\ Range(p, k) \subseteq Free
          /\ blocks' = blocks \cup {[start |-> p, len |-> k, uncached |-> TRUE]}
          /\ Is([s EXCEPT !.mem = @ \cup Range(p, k)])
  /\ UNCHANGED <<icache, given, loaded>>

\* free and alt_uncached_free
Release(b) ==
  /\ blocks' = blocks \ {b} /\ given' = given \ Range(b.start, b.len)
  /\ UNCHANGED <<mem, dcache, icache, loaded>>

CachedStore(a) ==
  /\ a \in Cached \ given /\ Is(Store(Now, a))
  /\ UNCHANGED <<icache, blocks, given, loaded>>

CachedLoad(a) ==
  /\ a \in Cached \ given /\ Is(Fill(Now, a))
  /\ UNCHANGED <<icache, blocks, given, loaded>>

\* By the processor with bit 31 set, or by a DMA engine.
UncachedStore(a) ==
  /\ a \in Uncached /\ Is(Bypass(Now, a))
  /\ UNCHANGED <<icache, blocks, given, loaded>>

\* The program flushes bytes of a cached block, or everything, and lets a device
\* read them.
GiveRange(b, start, len) ==
  /\ ~b.uncached /\ Range(start, len) \subseteq Range(b.start, b.len)
  /\ Is(alt_dcache_flush(Now, start, len, TRUE))
  /\ given' = given \cup Range(start, len)
  /\ UNCHANGED <<icache, blocks, loaded>>

GiveAll ==
  /\ Is(alt_dcache_flush_all(Now)) /\ given' = Cached
  /\ UNCHANGED <<icache, blocks, loaded>>

TakeBack == given # {} /\ given' = {} /\ UNCHANGED <<mem, dcache, icache, blocks, loaded>>

\* alt_dcache_flush_no_writeback on whole lines of a block whose contents are
\* given up: what memory holds becomes their value.
Discard(b) ==
  /\ ~b.uncached /\ b.start % LINE = 0 /\ b.len % LINE = 0
  /\ LET s == alt_dcache_flush(Now, b.start, b.len, FALSE)
     IN Is([s EXCEPT !.mem = @ \cup Range(b.start, b.len)])
  /\ UNCHANGED <<icache, blocks, given, loaded>>

\* Instructions are fetched through the instruction cache.
Fetch(a) ==
  LET l == LineOf(a)  i == l % ILINES IN
  /\ a >= CodeStart
  /\ icache' = IF icache[i].line = l THEN icache
               ELSE [icache EXCEPT ![i] = [line |-> l, ok |-> BytesOf(l) \subseteq mem]]
  /\ UNCHANGED <<mem, dcache, blocks, given, loaded>>

\* The last two calls of alt_load.  (SyncBug: the data cache is not flushed.)
SyncBug(s) == s
DataSynced(s) == alt_dcache_flush_all(s)

\* The section is copied through the data cache, one word per line here.
CopySection ==
  LET C == {a \in CodeStart..SIZE-1 : a % LINE = 0}
      ord[n \in 0..SIZE] == IF n = 0 THEN Now
                            ELSE IF n - 1 \in C THEN Store(ord[n - 1], n - 1) ELSE ord[n - 1]
  IN ord[SIZE]

alt_load ==
  /\ ~loaded /\ loaded' = TRUE
  /\ Is(DataSynced(CopySection))
  /\ icache' = alt_icache_flush([i \in 0..ILINES-1 |->
                  [icache[i] EXCEPT !.ok = @ /\ icache[i].line = None]], 0, ILINES * LINE)
  /\ UNCHANGED <<blocks, given>>

\* A program that writes code itself flushes what it wrote.
PatchCode(start, len) ==
  LET s == alt_dcache_flush(Store(Now, start), start, len, TRUE)
      touched == {LineOf(start)}
  IN /\ start >= CodeStart /\ start + len <= SIZE
     /\ Is(s)
     /\ icache' = alt_icache_flush([i \in 0..ILINES-1 |->
           [icache[i] EXCEPT !.ok = @ /\ icache[i].line \notin touched]], start, len)
     /\ UNCHANGED <<blocks, given, loaded>>

Next ==
  \/ \E n \in Sizes : malloc(n) \/ alt_uncached_malloc(n)
  \/ \E b \in blocks : \/ Release(b) \/ Discard(b)
                       \/ \E start \in Bytes, n \in Sizes : GiveRange(b, start, n)
  \/ \E a \in Bytes : CachedStore(a) \/ CachedLoad(a) \/ UncachedStore(a) \/ Fetch(a)
  \/ GiveAll \/ TakeBack \/ alt_load
  \/ \E start \in Bytes, n \in Sizes : PatchCode(start, n)

Spec == Init /\ [][Next]_vars

-----------------------------------------------------------------------------
(* Correctness.                                                            *)

\* A device reads what the processor wrote to every byte it was given, whatever
\* the alignment of the region that was flushed (alt_dcache_flush.c).
GivenInMemory == given \subseteq mem

\* No line of an uncached block is in the data cache, so that neither a
\* write-back nor a stale copy hides what is in memory (alt_uncached_malloc.c).
UncachedCoherent ==
  /\ Uncached \subseteq mem
  /\ \A a \in Uncached : ~Holds(Now, LineOf(a))

\* Instructions come from the code that was written last (alt_load.c,
\* alt_icache_flush.c).
CodeCurrent == \A i \in 0..ILINES-1 : icache[i].ok
=============================================================================
