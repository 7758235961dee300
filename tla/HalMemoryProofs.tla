--------------------------- MODULE HalMemoryProofs ---------------------------
(***************************************************************************)
(* Proofs about the memory of the hardware abstraction layer: the caches   *)
(* (HalCache), for every size of memory, lines and caches and every        *)
(* program, and sbrk (HalHeap), for every size of the heap, every sequence *)
(* of calls and every movement of the stack.                               *)
(***************************************************************************)
EXTENDS MCFiles, WellFoundedInduction, TLAPS

----------------------------------------------------------------------------
(* Lines.                                                                  *)

\* The constants of HalCache, one by one.
LEMMA CacheConstants ==
  /\ SIZE \in Nat \ {0} /\ LINE \in Nat \ {0} /\ DLINES \in Nat \ {0} /\ ILINES \in Nat \ {0}
  /\ SIZE % LINE = 0 /\ CodeStart \in 0..SIZE /\ CodeStart % LINE = 0
  /\ Sizes \subseteq Nat \ {0}
  BY MemoryAssumption DEF Cache!CacheAssumption

\* Larger lines start higher.
LEMMA Scaled ==
  ASSUME NEW k \in Int, NEW m \in Int, k < m
  PROVE  k * LINE + LINE <= m * LINE
<1>1. LINE \in Int /\ LINE >= 0 /\ m - k - 1 \in Int /\ m - k - 1 >= 0
  BY CacheConstants
<1>2. (m - k - 1) * LINE >= 0
  BY <1>1
<1>3. (m - k - 1) * LINE = m * LINE - k * LINE - LINE
  BY <1>1
<1>4. k * LINE \in Int /\ m * LINE \in Int
  BY <1>1
<1> QED
  BY <1>1, <1>2, <1>3, <1>4

\* A byte is on its line.
LEMMA OnLine ==
  ASSUME NEW a \in Nat
  PROVE  /\ Cache!LineOf(a) \in Nat
         /\ Cache!LineOf(a) * LINE <= a /\ a < Cache!LineOf(a) * LINE + LINE
         /\ a = Cache!LineOf(a) * LINE + (a % LINE)
<1> DEFINE q == a \div LINE
           r == a % LINE
<1>1. LINE \in Nat /\ LINE > 0
  BY CacheConstants
<1>2. q \in Int /\ r \in 0..LINE-1
  BY <1>1
<1>3. a = LINE * q + r
  BY <1>1
<1>4. q >= 0
  BY <1>1
<1> HIDE DEF q, r
<1>5. LINE * q = q * LINE /\ q * LINE \in Int
  BY <1>1, <1>2
<1>6. q \in Nat /\ q * LINE <= a /\ a < q * LINE + LINE /\ a = q * LINE + r
  BY <1>1, <1>2, <1>3, <1>4, <1>5
<1>7. Cache!LineOf(a) = q /\ a % LINE = r
  BY DEF q, r, Cache!LineOf
<1> QED
  BY <1>6, <1>7, Zenon

\* It is on no other one.
LEMMA LineUnique ==
  ASSUME NEW a \in Nat, NEW l \in Int, l * LINE <= a, a < l * LINE + LINE
  PROVE  Cache!LineOf(a) = l
<1> DEFINE m == Cache!LineOf(a)
<1>1. m \in Nat /\ m * LINE <= a /\ a < m * LINE + LINE
  BY OnLine
<1> HIDE DEF m
<1>2. m * LINE \in Int /\ l * LINE \in Int /\ LINE \in Int
  BY <1>1, CacheConstants
<1>3. ~(l < m)
  BY <1>1, <1>2, Scaled
<1>4. ~(m < l)
  BY <1>1, <1>2, Scaled
<1>5. m = l
  BY <1>1, <1>3, <1>4
<1> QED
  BY <1>5 DEF m

\* Lines and their bytes.
LEMMA LineBytes ==
  ASSUME NEW a \in Nat, NEW l \in Int
  PROVE  a \in Cache!BytesOf(l) <=> Cache!LineOf(a) = l
<1>1. l * LINE \in Int /\ LINE \in Int
  BY CacheConstants
<1>2. a \in Cache!BytesOf(l) <=> l * LINE <= a /\ a < l * LINE + LINE
  BY <1>1 DEF Cache!BytesOf
<1> QED
  BY <1>2, OnLine, LineUnique

\* A whole number of lines, as a multiple.
LEMMA Whole ==
  ASSUME NEW n \in Nat, n % LINE = 0
  PROVE  /\ n \div LINE \in Nat /\ n = (n \div LINE) * LINE
         /\ Cache!LineOf(n) = n \div LINE
<1>1. n = Cache!LineOf(n) * LINE + (n % LINE) /\ Cache!LineOf(n) \in Nat
  BY OnLine
<1>2. Cache!LineOf(n) = n \div LINE
  BY DEF Cache!LineOf
<1>3. Cache!LineOf(n) * LINE \in Nat
  BY <1>1, CacheConstants
<1>4. n = Cache!LineOf(n) * LINE
  BY <1>1, <1>3
<1> QED
  BY <1>1, <1>2, <1>4, Zenon

\* A region of whole lines contains the line of each of its bytes.
LEMMA WholeLines ==
  ASSUME NEW s \in Nat, NEW n \in Nat, s % LINE = 0, n % LINE = 0,
         NEW a \in Nat, a \in Cache!Range(s, n),
         NEW b \in Nat, Cache!LineOf(b) = Cache!LineOf(a)
  PROVE  b \in Cache!Range(s, n)
<1> DEFINE l == Cache!LineOf(a)
           u == s \div LINE
           v == n \div LINE
<1>1. /\ u \in Nat /\ v \in Nat /\ s = u * LINE /\ n = v * LINE
  BY Whole
<1>2. /\ l \in Nat /\ l * LINE <= a /\ a < l * LINE + LINE
      /\ l * LINE <= b /\ b < l * LINE + LINE
  BY OnLine
<1>3. s <= a /\ a < s + n
  BY DEF Cache!Range
<1> HIDE DEF l, u, v
<1>4. u * LINE \in Int /\ v * LINE \in Int /\ l * LINE \in Int /\ LINE \in Int
      /\ s + n = (u + v) * LINE
  BY <1>1, <1>2, CacheConstants
<1>5. ~(l < u)
  BY <1>1, <1>2, <1>3, <1>4, Scaled
<1>6. ~(u + v <= l)
  <2>1. u + v < l \/ u + v = l \/ l < u + v
    BY <1>1, <1>2
  <2>2. CASE u + v < l
    BY <1>1, <1>2, <1>3, <1>4, <2>2, Scaled
  <2>3. CASE u + v = l
    BY <1>1, <1>2, <1>3, <1>4, <2>3
  <2> QED
    BY <1>1, <1>2, <2>1, <2>2, <2>3
<1>7. s <= l * LINE
  <2>1. CASE u = l
    BY <1>1, <1>4, <2>1
  <2>2. CASE u < l
    BY <1>1, <1>2, <1>4, <2>2, Scaled, CacheConstants
  <2> QED
    BY <1>1, <1>2, <1>5, <2>1, <2>2
<1>8. l * LINE + LINE <= s + n
  BY <1>1, <1>2, <1>4, <1>6, Scaled
<1> QED
  BY <1>2, <1>4, <1>7, <1>8 DEF Cache!Range

\* Memory and lines are finite: the bytes of a line are in memory, and no line
\* is the one that stands for none.
LEMMA LineInMemory ==
  ASSUME NEW a \in Cache!Bytes
  PROVE  /\ a \in Nat /\ Cache!LineOf(a) \in Nat /\ Cache!LineOf(a) # Cache!None
         /\ Cache!BytesOf(Cache!LineOf(a)) \subseteq Cache!Bytes
         /\ a \in Cache!BytesOf(Cache!LineOf(a))
<1>1. a \in Nat /\ a < SIZE /\ SIZE \in Nat /\ LINE \in Nat /\ LINE > 0
  BY CacheConstants DEF Cache!Bytes
<1> DEFINE l == Cache!LineOf(a)
<1>2. l \in Nat /\ l * LINE <= a
  BY <1>1, OnLine
<1> HIDE DEF l
<1>3. l <= l * LINE /\ l * LINE \in Nat
  BY <1>1, <1>2
<1>4. l # SIZE
  BY <1>1, <1>2, <1>3
<1>5. a \in Cache!BytesOf(l)
  BY <1>1, <1>2, LineBytes DEF l
<1>6. ASSUME NEW b \in Cache!BytesOf(l) PROVE b \in Cache!Bytes
  <2>1. b \in Nat /\ l * LINE <= b
    BY <1>1, <1>2, <1>3, <1>6 DEF Cache!BytesOf
  <2>2. Cache!LineOf(b) = Cache!LineOf(a)
    BY <1>2, <1>6, <2>1, LineBytes DEF l
  <2>3. a \in Cache!Range(0, SIZE) /\ 0 % LINE = 0 /\ SIZE % LINE = 0
    BY <1>1, CacheConstants DEF Cache!Range
  <2>4. b \in Cache!Range(0, SIZE)
    BY <1>1, <2>1, <2>2, <2>3, WholeLines
  <2> QED
    BY <1>1, <2>4 DEF Cache!Range, Cache!Bytes
<1> QED
  BY <1>1, <1>2, <1>4, <1>5, <1>6 DEF l, Cache!None

\* The number of lines that a loop over n bytes counts.
LEMMA StepsCover ==
  ASSUME NEW n \in Nat
  PROVE  /\ Cache!Steps(n) \in Nat /\ n <= Cache!Steps(n) * LINE
         /\ n > 0 => Cache!Steps(n) > 0
         /\ n % LINE = 0 => Cache!Steps(n) * LINE = n
<1> DEFINE m == n + LINE - 1
           k == Cache!LineOf(m)
<1>1. LINE \in Nat /\ LINE > 0 /\ m \in Nat
  BY CacheConstants
<1>2. k \in Nat /\ k * LINE <= m /\ m < k * LINE + LINE
  BY <1>1, OnLine
<1>3. Cache!Steps(n) = k
  BY DEF Cache!Steps, Cache!LineOf
<1>4. n % LINE = 0 => k * LINE = n
  <2> SUFFICES ASSUME n % LINE = 0 PROVE k * LINE = n
    OBVIOUS
  <2> DEFINE v == n \div LINE
  <2>1. v \in Nat /\ n = v * LINE
    BY Whole
  <2> HIDE DEF v
  <2>2. v * LINE <= m /\ m < v * LINE + LINE
    BY <1>1, <2>1
  <2>3. k = v
    BY <1>1, <2>1, <2>2, LineUnique
  <2> QED
    BY <2>1, <2>3
<1> HIDE DEF k
<1>5. k * LINE \in Int
  BY <1>1, <1>2
<1>6. n <= k * LINE
  BY <1>1, <1>2, <1>5
<1>7. n > 0 => k > 0
  <2>1. k = 0 => k * LINE = 0
    BY <1>1
  <2> QED
    BY <1>2, <1>6, <2>1
<1> QED
  BY <1>2, <1>3, <1>4, <1>6, <1>7

\* The points of a loop, one line length apart.
LEMMA FlushPoint ==
  ASSUME NEW s \in Nat, NEW n \in Nat, NEW k \in 0..Cache!Steps(n),
         k < Cache!Steps(n) \/ s % LINE # 0
  PROVE  s + k * LINE \in Cache!FlushPoints(s, n)
  BY DEF Cache!FlushPoints

\* Flushing starts with the first byte of a region.
LEMMA FlushStarts ==
  ASSUME NEW s \in Nat, NEW n \in Nat \ {0}
  PROVE  s \in Cache!FlushPoints(s, n)
<1>1. 0 \in 0..Cache!Steps(n) /\ 0 < Cache!Steps(n)
  BY StepsCover
<1>2. s + 0 * LINE = s
  BY CacheConstants
<1> QED
  BY <1>1, <1>2, FlushPoint

\* It visits the line of every byte of the region, whatever the alignment.
LEMMA FlushCovers ==
  ASSUME NEW s \in Nat, NEW n \in Nat \ {0}, NEW a \in Cache!Range(s, n)
  PROVE  \E p \in Cache!FlushPoints(s, n) : Cache!LineOf(p) = Cache!LineOf(a)
<1> DEFINE u == Cache!LineOf(s)
           l == Cache!LineOf(a)
           N == Cache!Steps(n)
           k == l - u
           p == s + k * LINE
<1>1. a \in Nat /\ s <= a /\ a < s + n
  BY DEF Cache!Range
<1>2. /\ u \in Nat /\ u * LINE <= s /\ s < u * LINE + LINE /\ s = u * LINE + (s % LINE)
      /\ l \in Nat /\ l * LINE <= a /\ a < l * LINE + LINE
  BY <1>1, OnLine
<1>3. N \in Nat /\ n <= N * LINE
  BY StepsCover
<1> HIDE DEF u, l, N
<1>4. /\ LINE \in Nat /\ u * LINE \in Int /\ l * LINE \in Int /\ N * LINE \in Int
      /\ k \in Int /\ k * LINE \in Int /\ k * LINE = l * LINE - u * LINE
      /\ (u + N) \in Int /\ (u + N) * LINE = u * LINE + N * LINE
  BY <1>2, <1>3, CacheConstants
<1>5. ~(l < u)
  BY <1>1, <1>2, <1>4, Scaled
<1>6. ~(u + N < l)
  BY <1>1, <1>2, <1>3, <1>4, Scaled
<1>7. s % LINE = 0 => ~(u + N = l)
  <2> SUFFICES ASSUME s % LINE = 0, u + N = l PROVE FALSE
    OBVIOUS
  <2>1. l * LINE = u * LINE + N * LINE /\ s = u * LINE
    BY <1>2, <1>4
  <2> QED
    BY <1>1, <1>2, <1>3, <1>4, <2>1
<1>8. k \in 0..N /\ (k < N \/ s % LINE # 0)
  BY <1>2, <1>3, <1>5, <1>6, <1>7
<1>9. p \in Nat /\ l * LINE <= p /\ p < l * LINE + LINE
  BY <1>2, <1>4, <1>8
<1>10. p \in Cache!FlushPoints(s, n)
  BY <1>8, FlushPoint DEF N
<1>11. Cache!LineOf(p) = l
  BY <1>2, <1>9, LineUnique
<1> QED
  BY <1>10, <1>11 DEF l

\* On whole lines it visits no other line.
LEMMA FlushKeepsTo ==
  ASSUME NEW s \in Nat, NEW n \in Nat, s % LINE = 0, n % LINE = 0,
         NEW p \in Cache!FlushPoints(s, n)
  PROVE  p \in Nat /\ p \in Cache!Range(s, n)
<1> DEFINE N == Cache!Steps(n)
<1>1. N \in Nat /\ N * LINE = n
  BY StepsCover
<1> HIDE DEF N
<1>2. PICK k \in 0..N : k < N /\ p = s + k * LINE
  BY DEF Cache!FlushPoints, N
<1>3. LINE \in Nat /\ LINE > 0 /\ k * LINE \in Nat
  BY <1>1, <1>2, CacheConstants
<1>4. k * LINE + LINE <= n
  BY <1>1, <1>2, Scaled
<1> QED
  BY <1>2, <1>3, <1>4 DEF Cache!Range

----------------------------------------------------------------------------
(* The data cache.                                                         *)

Ways == 0 .. DLINES - 1
Way(l) == l % DLINES
Lines == {Cache!LineOf(a) : a \in Cache!Bytes}
EntryType == [line : Nat, dirty : BOOLEAN, ok : SUBSET Cache!Bytes]

\* An entry is empty or holds a line of its index, all bytes as last written;
\* memory has them too unless the entry is dirty.
EntrySound(e, i, m) ==
  \/ e.line = Cache!None /\ ~e.dirty
  \/ /\ e.line \in Lines /\ Way(e.line) = i /\ e.ok = Cache!BytesOf(e.line)
     /\ e.dirty \/ Cache!BytesOf(e.line) \subseteq m

\* What memory does not have is in a dirty entry.
Sound(m, d) ==
  /\ d \in [Ways -> EntryType]
  /\ \A i \in Ways : EntrySound(d[i], i, m)
  /\ \A a \in Cache!Bytes : \/ a \in m
                            \/ /\ d[Way(Cache!LineOf(a))].line = Cache!LineOf(a)
                               /\ d[Way(Cache!LineOf(a))].dirty

\* Lines have an index.
LEMMA WayOfLine ==
  ASSUME NEW l \in Nat
  PROVE  Way(l) \in Ways
  BY CacheConstants DEF Way, Ways

\* What is known of a line and of the bytes on it.
LEMMA LineFacts ==
  ASSUME NEW l \in Lines
  PROVE  /\ l \in Nat /\ l # Cache!None /\ Cache!BytesOf(l) \subseteq Cache!Bytes
         /\ \A b \in Cache!BytesOf(l) : Cache!LineOf(b) = l
<1>1. PICK a \in Cache!Bytes : l = Cache!LineOf(a)
  BY DEF Lines
<1>2. l \in Nat /\ l # Cache!None /\ Cache!BytesOf(l) \subseteq Cache!Bytes
  BY <1>1, LineInMemory
<1>3. ASSUME NEW b \in Cache!BytesOf(l) PROVE Cache!LineOf(b) = l
  <2>1. b \in Nat
    BY <1>2, LineInMemory
  <2> QED
    BY <1>2, <2>1, LineBytes
<1> QED
  BY <1>2, <1>3

\* Writing an entry back adds its bytes to memory.
LEMMA WriteBackAdds ==
  ASSUME NEW s, Sound(s.mem, s.dc), NEW i \in Ways
  PROVE  Cache!WriteBack(s, i) =
           s.mem \cup (IF s.dc[i].dirty THEN Cache!BytesOf(s.dc[i].line) ELSE {})
<1>1. CASE s.dc[i].dirty
  <2>1. s.dc[i].ok = Cache!BytesOf(s.dc[i].line)
    BY <1>1 DEF Sound, EntrySound
  <2> QED
    BY <1>1, <2>1 DEF Cache!WriteBack
<1>2. CASE ~s.dc[i].dirty
  BY <1>2 DEF Cache!WriteBack
<1> QED
  BY <1>1, <1>2

\* Filling a line keeps the cache sound and every byte of memory, and brings
\* no other line in.
LEMMA FillSound ==
  ASSUME NEW s, Sound(s.mem, s.dc), NEW a \in Cache!Bytes
  PROVE  LET f == Cache!Fill(s, a)
             l == Cache!LineOf(a)
         IN /\ Sound(f.mem, f.dc) /\ s.mem \subseteq f.mem
            /\ f.dc[Way(l)].line = l
            /\ \A i \in Ways : f.dc[i].line # l => f.dc[i] = s.dc[i]
<1> DEFINE f == Cache!Fill(s, a)
           l == Cache!LineOf(a)
           i == Way(l)
           m == Cache!WriteBack(s, i)
           new == [line |-> l, dirty |-> FALSE, ok |-> m \cap Cache!BytesOf(l)]
<1>1. l \in Lines /\ l \in Nat /\ i \in Ways /\ a \in Nat
  BY LineInMemory, WayOfLine DEF Lines
<1>2. CASE s.dc[i].line = l
  <2>1. f = s
    BY <1>2 DEF Cache!Fill, Cache!Holds, Way
  <2> QED
    BY <1>2, <2>1
<1>3. CASE s.dc[i].line # l
  <2>1. f.mem = m /\ f.dc = [s.dc EXCEPT ![i] = new]
    BY <1>3 DEF Cache!Fill, Cache!Holds, Way
  <2>2. m = s.mem \cup (IF s.dc[i].dirty THEN Cache!BytesOf(s.dc[i].line) ELSE {})
    BY <1>1, WriteBackAdds
  <2> HIDE DEF f, m
  <2>3. Cache!BytesOf(l) \subseteq m
    <3> SUFFICES ASSUME NEW b \in Cache!BytesOf(l) PROVE b \in m
      OBVIOUS
    <3>1. b \in Cache!Bytes /\ Cache!LineOf(b) = l
      BY <1>1, LineFacts
    <3>2. b \in s.mem
      BY <1>3, <3>1 DEF Sound
    <3> QED
      BY <2>2, <3>2
  <2>4. new \in EntryType /\ EntrySound(new, i, m)
    BY <1>1, <2>3, LineFacts DEF EntryType, EntrySound
  <2>5. f.dc \in [Ways -> EntryType] /\ f.dc[i] = new
        /\ \A j \in Ways : j # i => f.dc[j] = s.dc[j]
    BY <1>1, <2>1, <2>4 DEF Sound
  <2> HIDE DEF new
  <2>6. \A j \in Ways : EntrySound(f.dc[j], j, f.mem)
    BY <2>1, <2>2, <2>4, <2>5 DEF Sound, EntrySound
  <2>7. ASSUME NEW b \in Cache!Bytes, b \notin f.mem
        PROVE  /\ f.dc[Way(Cache!LineOf(b))].line = Cache!LineOf(b)
               /\ f.dc[Way(Cache!LineOf(b))].dirty
    <3> DEFINE j == Way(Cache!LineOf(b))
    <3>1. j \in Ways /\ Cache!LineOf(b) \in Nat /\ b \in Cache!BytesOf(Cache!LineOf(b))
      BY LineInMemory, WayOfLine
    <3>2. s.dc[j].line = Cache!LineOf(b) /\ s.dc[j].dirty
      BY <2>1, <2>2, <2>7 DEF Sound
    <3>3. j # i
      BY <2>1, <2>2, <2>7, <3>1, <3>2
    <3> QED
      BY <2>5, <3>1, <3>2, <3>3
  <2>8. Sound(f.mem, f.dc)
    BY <2>5, <2>6, <2>7 DEF Sound
  <2>9. f.dc[i].line = l
    BY <2>5 DEF new
  <2> QED
    BY <2>1, <2>2, <2>5, <2>8, <2>9 DEF f
<1> QED
  BY <1>2, <1>3

\* A store keeps the cache sound; only its byte leaves memory, and no other
\* line comes in.
LEMMA StoreSound ==
  ASSUME NEW s, Sound(s.mem, s.dc), NEW a \in Cache!Bytes
  PROVE  LET t == Cache!Store(s, a)
             l == Cache!LineOf(a)
         IN /\ Sound(t.mem, t.dc) /\ s.mem \ {a} \subseteq t.mem
            /\ \A i \in Ways : t.dc[i].line # l => t.dc[i] = s.dc[i]
<1> DEFINE t == Cache!Store(s, a)
           f == Cache!Fill(s, a)
           l == Cache!LineOf(a)
           i == Way(l)
<1>1. l \in Lines /\ l \in Nat /\ i \in Ways /\ a \in Cache!BytesOf(l)
  BY LineInMemory, WayOfLine DEF Lines
<1>2. /\ Sound(f.mem, f.dc) /\ s.mem \subseteq f.mem /\ f.dc[i].line = l
      /\ \A j \in Ways : f.dc[j].line # l => f.dc[j] = s.dc[j]
  BY FillSound
<1>3. /\ t.mem = f.mem \ {a}
      /\ t.dc = [f.dc EXCEPT ![i].dirty = TRUE, ![i].ok = f.dc[i].ok \cup {a}]
  BY DEF Cache!Store, Way
<1> HIDE DEF t, f
<1>4. f.dc[i].ok \cup {a} = f.dc[i].ok /\ f.dc[i].ok = Cache!BytesOf(l)
  BY <1>1, <1>2, LineFacts DEF Sound, EntrySound
<1>5. /\ t.dc \in [Ways -> EntryType]
      /\ t.dc[i].line = l /\ t.dc[i].dirty /\ t.dc[i].ok = Cache!BytesOf(l)
      /\ \A j \in Ways : j # i => t.dc[j] = f.dc[j]
  <2>1. f.dc \in [Ways -> EntryType]
    BY <1>2 DEF Sound
  <2> DEFINE e == [f.dc[i] EXCEPT !.dirty = TRUE, !.ok = f.dc[i].ok \cup {a}]
  <2>2. t.dc = [f.dc EXCEPT ![i] = e]
    BY <1>1, <1>3, <2>1
  <2>3. f.dc[i] \in EntryType /\ Cache!BytesOf(l) \subseteq Cache!Bytes
    BY <1>1, <2>1, LineFacts
  <2>4. e \in EntryType /\ e.line = l /\ e.dirty = TRUE /\ e.ok = Cache!BytesOf(l)
    BY <1>2, <1>4, <2>3 DEF EntryType
  <2> HIDE DEF e
  <2> QED
    BY <1>1, <2>1, <2>2, <2>4
<1>6. ASSUME NEW j \in Ways PROVE EntrySound(t.dc[j], j, t.mem)
  <2>1. CASE j = i
    BY <1>1, <1>5, <2>1 DEF EntrySound
  <2>2. CASE j # i
    <3>1. t.dc[j] = f.dc[j] /\ EntrySound(f.dc[j], j, f.mem)
      BY <1>2, <1>5, <2>2 DEF Sound
    <3>2. f.dc[j].line \in Lines /\ Way(f.dc[j].line) = j => a \notin Cache!BytesOf(f.dc[j].line)
      BY <2>2, LineFacts
    <3> QED
      BY <1>3, <3>1, <3>2 DEF EntrySound
  <2> QED
    BY <2>1, <2>2
<1>7. ASSUME NEW b \in Cache!Bytes, b \notin t.mem
      PROVE  /\ t.dc[Way(Cache!LineOf(b))].line = Cache!LineOf(b)
             /\ t.dc[Way(Cache!LineOf(b))].dirty
  <2>1. CASE b = a
    BY <1>5, <2>1
  <2>2. CASE b # a
    <3> DEFINE j == Way(Cache!LineOf(b))
    <3>1. f.dc[j].line = Cache!LineOf(b) /\ f.dc[j].dirty /\ j \in Ways
      BY <1>2, <1>3, <1>7, <2>2, LineInMemory, WayOfLine DEF Sound
    <3> QED
      BY <1>2, <1>5, <3>1
  <2> QED
    BY <2>1, <2>2
<1>8. Sound(t.mem, t.dc)
  BY <1>5, <1>6, <1>7 DEF Sound
<1>9. \A j \in Ways : t.dc[j].line # l => t.dc[j] = s.dc[j]
  BY <1>2, <1>5
<1> QED
  BY <1>2, <1>3, <1>8, <1>9 DEF t

\* A store that bypasses the cache, to a byte whose line is not in it.
LEMMA BypassSound ==
  ASSUME NEW s, Sound(s.mem, s.dc), NEW a \in Cache!Bytes,
         s.dc[Way(Cache!LineOf(a))].line # Cache!LineOf(a)
  PROVE  LET t == Cache!Bypass(s, a)
         IN /\ Sound(t.mem, t.dc) /\ s.mem \subseteq t.mem
            /\ \A i \in Ways : t.dc[i].line = s.dc[i].line
<1> DEFINE t == Cache!Bypass(s, a)
<1>1. /\ t.mem = s.mem \cup {a}
      /\ t.dc = [i \in Ways |-> [s.dc[i] EXCEPT !.ok = @ \ {a}]]
  BY DEF Cache!Bypass, Ways
<1> HIDE DEF t
<1>2. s.dc \in [Ways -> EntryType]
  BY DEF Sound
<1>3. ASSUME NEW i \in Ways
      PROVE  /\ t.dc[i].line = s.dc[i].line /\ t.dc[i].dirty = s.dc[i].dirty
             /\ t.dc[i].ok = s.dc[i].ok \ {a} /\ t.dc[i] \in EntryType
  BY <1>1, <1>2 DEF EntryType
<1>4. ASSUME NEW i \in Ways PROVE EntrySound(t.dc[i], i, t.mem)
  <2>1. EntrySound(s.dc[i], i, s.mem)
    BY DEF Sound
  <2>2. s.dc[i].line \in Lines /\ Way(s.dc[i].line) = i => a \notin Cache!BytesOf(s.dc[i].line)
    BY LineFacts
  <2>3. s.dc[i].line \in Lines /\ Way(s.dc[i].line) = i /\ s.dc[i].ok = Cache!BytesOf(s.dc[i].line)
          => t.dc[i].ok = Cache!BytesOf(t.dc[i].line)
    BY <1>3, <2>2
  <2> QED
    BY <1>1, <1>3, <2>1, <2>3 DEF EntrySound
<1>5. ASSUME NEW b \in Cache!Bytes, b \notin t.mem
      PROVE  /\ t.dc[Way(Cache!LineOf(b))].line = Cache!LineOf(b)
             /\ t.dc[Way(Cache!LineOf(b))].dirty
  <2>1. Way(Cache!LineOf(b)) \in Ways
    BY LineInMemory, WayOfLine
  <2> QED
    BY <1>1, <1>3, <1>5, <2>1 DEF Sound
<1>6. t.dc \in [Ways -> EntryType]
  BY <1>1, <1>3
<1> QED
  BY <1>1, <1>3, <1>4, <1>5, <1>6 DEF Sound, t

\* t is s without the entries of I: with write back (w) what they had is in
\* memory, and nothing else has changed.
Dropped(s, t, I, w) ==
  /\ s.mem \subseteq t.mem /\ (~w => t.mem = s.mem)
  /\ \A i \in Ways : t.dc[i] = IF i \in I THEN Cache!Empty ELSE s.dc[i]
  /\ w => Sound(t.mem, t.dc)
  /\ t.dc \in [Ways -> EntryType]
  /\ \A i \in Ways : EntrySound(t.dc[i], i, t.mem)
  /\ \A a \in Cache!Bytes : w /\ Way(Cache!LineOf(a)) \in I => a \in t.mem

\* Dropping entries loses no more than what it is asked to.
LEMMA DropSound ==
  ASSUME NEW s, Sound(s.mem, s.dc), NEW I \in SUBSET Ways, NEW w \in BOOLEAN
  PROVE  Dropped(s, Cache!Drop(s, I, w), I, w)
<1> DEFINE t == Cache!Drop(s, I, w)
           J == {j \in I : w /\ s.dc[j].dirty}
<1>1. /\ t.mem = (s.mem \ UNION {Cache!BytesOf(s.dc[i].line) : i \in J})
                   \cup UNION {s.dc[i].ok : i \in J}
      /\ t.dc = [i \in Ways |-> IF i \in I THEN Cache!Empty ELSE s.dc[i]]
  BY DEF Cache!Drop, Ways
<1>2. \A j \in J : /\ s.dc[j].ok = Cache!BytesOf(s.dc[j].line)
                   /\ s.dc[j].line \in Lines /\ Way(s.dc[j].line) = j
  BY DEF Sound, EntrySound
<1>3. t.mem = s.mem \cup UNION {Cache!BytesOf(s.dc[i].line) : i \in J}
  BY <1>1, <1>2
<1>4. ASSUME NEW a \in Cache!Bytes, w, Way(Cache!LineOf(a)) \in I PROVE a \in t.mem
  <2> SUFFICES ASSUME a \notin s.mem PROVE a \in t.mem
    BY <1>3
  <2> DEFINE j == Way(Cache!LineOf(a))
  <2>1. s.dc[j].line = Cache!LineOf(a) /\ s.dc[j].dirty
    BY DEF Sound
  <2>2. j \in J /\ a \in Cache!BytesOf(Cache!LineOf(a))
    BY <1>4, <2>1, LineInMemory
  <2> QED
    BY <1>3, <2>1, <2>2
<1>5. ~w => t.mem = s.mem
  BY <1>3
<1>6. Cache!Empty \in EntryType /\ Cache!Empty.line = Cache!None /\ ~Cache!Empty.dirty
  BY CacheConstants DEF Cache!Empty, Cache!None, EntryType
<1> HIDE DEF t, J
<1>7. t.dc \in [Ways -> EntryType]
  BY <1>1, <1>6 DEF Sound
<1>8. ASSUME NEW i \in Ways PROVE EntrySound(t.dc[i], i, t.mem)
  <2>1. EntrySound(s.dc[i], i, s.mem)
    BY DEF Sound
  <2> QED
    BY <1>1, <1>3, <1>6, <2>1 DEF EntrySound
<1>9. ASSUME w PROVE Sound(t.mem, t.dc)
  <2>1. ASSUME NEW b \in Cache!Bytes, b \notin t.mem
        PROVE  /\ t.dc[Way(Cache!LineOf(b))].line = Cache!LineOf(b)
               /\ t.dc[Way(Cache!LineOf(b))].dirty
    <3>1. Way(Cache!LineOf(b)) \in Ways /\ Way(Cache!LineOf(b)) \notin I
      BY <1>4, <1>9, <2>1, LineInMemory, WayOfLine
    <3> QED
      BY <1>1, <1>3, <2>1, <3>1 DEF Sound
  <2> QED
    BY <1>7, <1>8, <2>1 DEF Sound
<1> QED
  BY <1>1, <1>3, <1>4, <1>5, <1>7, <1>8, <1>9 DEF t, Dropped

\* Flushing a region writes all of it back and leaves none of its lines in the
\* cache, wherever it begins and ends (alt_dcache_flush.c).
LEMMA FlushSound ==
  ASSUME NEW s, Sound(s.mem, s.dc), NEW start \in Nat, NEW len \in Nat \ {0}
  PROVE  LET t == Cache!alt_dcache_flush(s, start, len, TRUE)
         IN /\ Sound(t.mem, t.dc) /\ s.mem \subseteq t.mem
            /\ \A i \in Ways : t.dc[i] \in {Cache!Empty, s.dc[i]}
            /\ \A a \in Cache!Bytes : a \in Cache!Range(start, len) =>
                  a \in t.mem /\ t.dc[Way(Cache!LineOf(a))].line # Cache!LineOf(a)
<1> DEFINE L == {Cache!LineOf(p) : p \in Cache!FlushPoints(start, len)}
           I == {i \in Ways : s.dc[i].line \in L}
           t == Cache!Drop(s, I, TRUE)
<1>1. Cache!alt_dcache_flush(s, start, len, TRUE) = t
  BY DEF Cache!alt_dcache_flush, Ways
<1>2. I \in SUBSET Ways /\ TRUE \in BOOLEAN
  OBVIOUS
<1>3. /\ s.mem \subseteq t.mem /\ Sound(t.mem, t.dc)
      /\ \A i \in Ways : t.dc[i] = IF i \in I THEN Cache!Empty ELSE s.dc[i]
      /\ \A a \in Cache!Bytes : Way(Cache!LineOf(a)) \in I => a \in t.mem
  <2>1. Dropped(s, t, I, TRUE)
    BY <1>2, DropSound, Zenon
  <2> HIDE DEF I, t
  <2> QED
    BY <2>1 DEF Dropped
<1>4. ASSUME NEW a \in Cache!Bytes, a \in Cache!Range(start, len)
      PROVE  a \in t.mem /\ t.dc[Way(Cache!LineOf(a))].line # Cache!LineOf(a)
  <2> DEFINE l == Cache!LineOf(a)
  <2>1. l \in L
    BY <1>4, FlushCovers
  <2>2. Way(l) \in Ways /\ l # Cache!None
    BY LineInMemory, WayOfLine
  <2>3. CASE s.dc[Way(l)].line = l
    <3>1. Way(l) \in I
      BY <2>1, <2>2, <2>3
    <3>2. Cache!Empty.line # l
      BY <2>2 DEF Cache!Empty
    <3> HIDE DEF I, t
    <3> QED
      BY <1>3, <2>2, <3>1, <3>2
  <2>4. CASE s.dc[Way(l)].line # l
    <3>1. a \in s.mem
      BY <2>4 DEF Sound
    <3>2. Cache!Empty.line # l
      BY <2>2 DEF Cache!Empty
    <3> HIDE DEF I, t
    <3> QED
      BY <1>3, <2>2, <2>4, <3>1, <3>2
  <2> QED
    BY <2>3, <2>4
<1> HIDE DEF I, t
<1> QED
  BY <1>1, <1>3, <1>4

\* Dropping the lines of a region of whole lines without writing them back
\* loses nothing outside the region.
LEMMA DiscardSound ==
  ASSUME NEW s, Sound(s.mem, s.dc), NEW start \in Nat, NEW len \in Nat,
         start % LINE = 0, len % LINE = 0
  PROVE  LET t == Cache!alt_dcache_flush(s, start, len, FALSE)
             m == t.mem \cup Cache!Range(start, len)
         IN /\ Sound(m, t.dc) /\ s.mem \subseteq m
            /\ \A i \in Ways : t.dc[i] \in {Cache!Empty, s.dc[i]}
<1> DEFINE L == {Cache!LineOf(p) : p \in Cache!FlushPoints(start, len)}
           I == {i \in Ways : s.dc[i].line \in L}
           t == Cache!Drop(s, I, FALSE)
           m == t.mem \cup Cache!Range(start, len)
<1>1. Cache!alt_dcache_flush(s, start, len, FALSE) = t
  BY DEF Cache!alt_dcache_flush, Ways
<1>2. I \in SUBSET Ways /\ FALSE \in BOOLEAN
  OBVIOUS
<1>3. /\ t.mem = s.mem /\ t.dc \in [Ways -> EntryType]
      /\ \A i \in Ways : t.dc[i] = IF i \in I THEN Cache!Empty ELSE s.dc[i]
      /\ \A i \in Ways : EntrySound(t.dc[i], i, t.mem)
  <2>1. Dropped(s, t, I, FALSE)
    BY <1>2, DropSound, Zenon
  <2> HIDE DEF I, t
  <2> QED
    BY <2>1 DEF Dropped
<1>4. ASSUME NEW a \in Cache!Bytes, a \notin m
      PROVE  /\ t.dc[Way(Cache!LineOf(a))].line = Cache!LineOf(a)
             /\ t.dc[Way(Cache!LineOf(a))].dirty
  <2> DEFINE l == Cache!LineOf(a)
  <2>1. Way(l) \in Ways /\ a \in Nat
    BY LineInMemory, WayOfLine
  <2>2. s.dc[Way(l)].line = l /\ s.dc[Way(l)].dirty
    BY <1>3, <1>4 DEF Sound
  <2>3. l \notin L
    <3> SUFFICES ASSUME NEW p \in Cache!FlushPoints(start, len), Cache!LineOf(p) = l
                 PROVE  FALSE
      OBVIOUS
    <3>1. p \in Nat /\ p \in Cache!Range(start, len)
      BY FlushKeepsTo
    <3>2. a \in Cache!Range(start, len)
      BY <2>1, <3>1, WholeLines
    <3> QED
      BY <1>4, <3>2
  <2>4. Way(l) \notin I
    BY <2>2, <2>3
  <2> HIDE DEF I, t
  <2> QED
    BY <1>3, <2>1, <2>2, <2>4
<1> HIDE DEF I, t
<1>5. \A i \in Ways : EntrySound(t.dc[i], i, m)
  BY <1>3 DEF EntrySound
<1>6. Sound(m, t.dc)
  BY <1>3, <1>4, <1>5 DEF Sound
<1> QED
  BY <1>1, <1>3, <1>6

\* Flushing everything leaves an empty cache and all bytes in memory.
LEMMA FlushAllSound ==
  ASSUME NEW s, Sound(s.mem, s.dc)
  PROVE  LET t == Cache!alt_dcache_flush_all(s)
         IN /\ Sound(t.mem, t.dc) /\ s.mem \cup Cache!Bytes \subseteq t.mem
            /\ \A i \in Ways : t.dc[i] = Cache!Empty
<1> DEFINE t == Cache!Drop(s, Ways, TRUE)
<1>1. Cache!alt_dcache_flush_all(s) = t
  BY DEF Cache!alt_dcache_flush_all, Ways
<1>2. /\ Sound(t.mem, t.dc) /\ s.mem \subseteq t.mem
      /\ \A i \in Ways : t.dc[i] = IF i \in Ways THEN Cache!Empty ELSE s.dc[i]
      /\ \A a \in Cache!Bytes : Way(Cache!LineOf(a)) \in Ways => a \in t.mem
  BY DropSound DEF Dropped
<1>3. \A a \in Cache!Bytes : Way(Cache!LineOf(a)) \in Ways
  BY LineInMemory, WayOfLine
<1> HIDE DEF t
<1> QED
  BY <1>1, <1>2, <1>3

----------------------------------------------------------------------------
(* The copy of a section by alt_load, word by word.                        *)

NatLess == {p \in Nat \X Nat : p[1] < p[2]}

\* Induction over the natural numbers, for a set in the place of a predicate.
LEMMA SetInduction ==
  ASSUME NEW S, 0 \in S, \A n \in Nat : n \in S => n + 1 \in S
  PROVE  Nat \subseteq S
<1> DEFINE T == {n \in Nat : n \notin S}
<1>1. SUFFICES ASSUME T # {} PROVE FALSE
  OBVIOUS
<1>2. IsWellFoundedOn(NatLess, Nat)
  BY NatLessThanWellFounded DEF OpToRel, NatLess
<1>3. PICK x \in T : \A y \in T : ~(<<y, x>> \in NatLess)
  BY <1>1, <1>2, WFMin
<1>4. x \in Nat /\ x # 0 /\ x - 1 \in Nat /\ (x - 1) + 1 = x
  OBVIOUS
<1>5. <<x - 1, x>> \in NatLess
  BY <1>4 DEF NatLess
<1>6. x - 1 \in S
  BY <1>3, <1>4, <1>5
<1> QED
  BY <1>4, <1>6

Words == {a \in CodeStart..SIZE-1 : a % LINE = 0}
Copied(n, r) == IF n - 1 \in Words THEN Cache!Store(r, n - 1) ELSE r
CopyEq(q) == q = [n \in 0..SIZE |-> IF n = 0 THEN Cache!Now ELSE Copied(n, q[n - 1])]

\* The copy is well defined: each word is stored after the one before.
LEMMA CopyExists == \E q : CopyEq(q)
<1> DEFINE Upto(q, m) == /\ q = [n \in 0..m |-> q[n]] /\ q[0] = Cache!Now
                         /\ \A n \in 1..m : q[n] = Copied(n, q[n - 1])
           S == {m \in Nat : \E q : Upto(q, m)}
<1>1. 0 \in S
  <2> DEFINE z == [n \in 0..0 |-> Cache!Now]
  <2>1. z = [n \in 0..0 |-> z[n]] /\ z[0] = Cache!Now /\ 1..0 = {}
    OBVIOUS
  <2>2. Upto(z, 0)
    BY <2>1
  <2> HIDE DEF z, Upto
  <2> QED
    BY <2>2
<1>2. ASSUME NEW m \in Nat, m \in S PROVE m + 1 \in S
  <2>1. PICK q : Upto(q, m)
    BY <1>2
  <2> DEFINE t == [n \in 0..m+1 |-> IF n = m + 1 THEN Copied(m + 1, q[m]) ELSE q[n]]
  <2>2. t = [n \in 0..m+1 |-> t[n]] /\ t[0] = Cache!Now
    BY <2>1
  <2>3. ASSUME NEW n \in 1..m+1 PROVE t[n] = Copied(n, t[n - 1])
    <3>1. CASE n = m + 1
      <4>1. t[n] = Copied(n, q[m]) /\ t[n - 1] = q[m]
        BY <3>1
      <4> QED
        BY <4>1
    <3>2. CASE n # m + 1
      <4>1. n \in 1..m /\ t[n] = q[n] /\ t[n - 1] = q[n - 1]
        BY <3>2
      <4> QED
        BY <4>1, <2>1
    <3> QED
      BY <3>1, <3>2
  <2>4. Upto(t, m + 1) /\ m + 1 \in Nat
    BY <2>2, <2>3
  <2> HIDE DEF t, Upto
  <2> QED
    BY <2>4
<1>3. SIZE \in Nat /\ Nat \subseteq S
  <2> HIDE DEF S
  <2> QED
    BY <1>1, <1>2, SetInduction, CacheConstants
<1>4. PICK q : Upto(q, SIZE)
  <2> HIDE DEF Upto
  <2> QED
    BY <1>3
<1>5. ASSUME NEW n \in 0..SIZE
      PROVE  q[n] = IF n = 0 THEN Cache!Now ELSE Copied(n, q[n - 1])
  <2>1. n # 0 => n \in 1..SIZE
    BY <1>3
  <2> QED
    BY <1>4, <2>1
<1>6. CopyEq(q)
  BY <1>4, <1>5 DEF CopyEq
<1> QED
  BY <1>6

\* The cache is sound at the end of the copy, which wrote to the section only.
LEMMA CopySound ==
  ASSUME Sound(mem, dcache)
  PROVE  LET c == Cache!CopySection
         IN Sound(c.mem, c.dc) /\ mem \subseteq c.mem \cup Words
<1> DEFINE q == CHOOSE r : CopyEq(r)
<1>1. Cache!CopySection = q[SIZE]
  BY DEF Cache!CopySection, CopyEq, Copied, Words
<1>2. CopyEq(q)
  BY CopyExists
<1> HIDE DEF q
<1>3. /\ q[0] = Cache!Now
      /\ \A n \in 1..SIZE : q[n] = Copied(n, q[n - 1])
  BY <1>2, CacheConstants DEF CopyEq
<1> DEFINE S == {n \in Nat : n <= SIZE => /\ Sound(q[n].mem, q[n].dc)
                                          /\ mem \subseteq q[n].mem \cup Words}
<1>4. 0 \in S
  BY <1>3 DEF Cache!Now
<1>5. ASSUME NEW n \in Nat, n \in S PROVE n + 1 \in S
  <2> SUFFICES ASSUME n + 1 <= SIZE
               PROVE  Sound(q[n + 1].mem, q[n + 1].dc) /\ mem \subseteq q[n + 1].mem \cup Words
    OBVIOUS
  <2>1. Sound(q[n].mem, q[n].dc) /\ mem \subseteq q[n].mem \cup Words
    BY <1>5, CacheConstants
  <2>2. q[n + 1] = IF n \in Words THEN Cache!Store(q[n], n) ELSE q[n]
    BY <1>3, CacheConstants DEF Copied
  <2>3. n \in Words => n \in Cache!Bytes
    BY CacheConstants DEF Words, Cache!Bytes
  <2> QED
    BY <2>1, <2>2, <2>3, StoreSound
<1>6. SIZE \in S
  <2> HIDE DEF S
  <2> QED
    BY <1>4, <1>5, SetInduction, CacheConstants
<1> QED
  BY <1>1, <1>6, CacheConstants

----------------------------------------------------------------------------
(* The program: the invariant.                                             *)

BlockType == [start : Nat, len : Nat \ {0}, uncached : BOOLEAN]
Span(b) == Cache!Range(b.start, b.len)
Code == CodeStart .. SIZE - 1

\* Blocks are apart from each other and from the code, and a block of uncached
\* memory is made of whole lines.
BlocksApart ==
  /\ blocks \subseteq BlockType
  /\ \A b \in blocks : b.start + b.len <= CodeStart
  /\ \A b \in blocks : b.uncached => b.start % LINE = 0 /\ b.len % LINE = 0
  /\ \A b, c \in blocks : b = c \/ Span(b) \cap Span(c) = {}

\* Every copy of code is in the entry its address selects and is the last one.
CodeSound ==
  /\ icache \in [0..ILINES-1 -> [line : Nat, ok : BOOLEAN]]
  /\ \A i \in 0..ILINES-1 : icache[i].line = Cache!None \/ icache[i].line % ILINES = i
  /\ Cache!CodeCurrent

CacheInv ==
  /\ Sound(mem, dcache) /\ BlocksApart /\ CodeSound
  /\ Cache!GivenInMemory /\ Cache!UncachedCoherent
  /\ Code \subseteq mem

\* What a byte belongs to.
LEMMA Owners ==
  /\ \A a : a \in Cache!Uncached <=> \E b \in blocks : b.uncached /\ a \in Span(b)
  /\ \A a : a \in Cache!Cached <=> \E b \in blocks : ~b.uncached /\ a \in Span(b)
  BY DEF Cache!Uncached, Cache!Cached, Span

\* Blocks are in memory, below the code.
LEMMA BelowCode ==
  ASSUME BlocksApart, NEW b \in blocks, NEW a \in Span(b)
  PROVE  a \in Nat /\ a < CodeStart /\ a \in Cache!Bytes /\ a \notin Code
<1>1. b.start \in Nat /\ b.len \in Nat /\ b.start + b.len <= CodeStart
  BY DEF BlocksApart, BlockType
<1> QED
  BY <1>1, CacheConstants DEF Span, Cache!Range, Cache!Bytes, Code

\* No line of uncached memory is shared with a cached byte or with code.
LEMMA LinesApart ==
  ASSUME BlocksApart, NEW u \in Cache!Uncached, NEW a \in Cache!Cached \cup Code
  PROVE  Cache!LineOf(a) # Cache!LineOf(u)
<1> SUFFICES ASSUME Cache!LineOf(a) = Cache!LineOf(u) PROVE FALSE
  OBVIOUS
<1>1. PICK c \in blocks : c.uncached /\ u \in Span(c)
  BY Owners
<1>2. u \in Nat /\ u < CodeStart
  BY <1>1, BelowCode
<1>3. CASE a \in Cache!Cached
  <2>1. PICK b \in blocks : ~b.uncached /\ a \in Span(b)
    BY <1>3, Owners
  <2>2. a \in Nat
    BY <2>1, BelowCode
  <2>3. c.start \in Nat /\ c.len \in Nat /\ c.start % LINE = 0 /\ c.len % LINE = 0
    BY <1>1 DEF BlocksApart, BlockType
  <2>4. a \in Span(c)
    BY <1>1, <1>2, <2>2, <2>3, WholeLines DEF Span
  <2> QED
    BY <1>1, <2>1, <2>4 DEF BlocksApart
<1>4. CASE a \in Code
  <2>1. a \in Nat /\ CodeStart \in Nat /\ CodeStart % LINE = 0 /\ 0 % LINE = 0 /\ ~(a < CodeStart)
    BY <1>4, CacheConstants DEF Code
  <2>2. u \in Cache!Range(0, CodeStart)
    BY <1>2, <2>1 DEF Cache!Range
  <2>3. a \in Cache!Range(0, CodeStart)
    BY <1>2, <2>1, <2>2, WholeLines
  <2> QED
    BY <2>1, <2>3 DEF Cache!Range
<1> QED
  BY <1>3, <1>4

\* Uncached memory and code, in the words of Sound.
LEMMA NotHeld ==
  Cache!UncachedCoherent <=>
    \A u \in Cache!Uncached : u \in mem /\ dcache[Way(Cache!LineOf(u))].line # Cache!LineOf(u)
  BY DEF Cache!UncachedCoherent, Cache!Holds, Cache!Now, Way

\* A step of the data cache that leaves blocks and code alone.
LEMMA DataStep ==
  ASSUME CacheInv, UNCHANGED <<blocks, icache>>, Sound(mem', dcache'),
         given' \subseteq mem', Code \subseteq mem', Cache!Uncached \subseteq mem',
         \A u \in Cache!Uncached : dcache'[Way(Cache!LineOf(u))].line # Cache!LineOf(u)
  PROVE  CacheInv'
<1>1. BlocksApart' /\ CodeSound'
  BY DEF CacheInv, BlocksApart, CodeSound, Cache!CodeCurrent, Span
<1>2. Cache!Uncached' = Cache!Uncached
  BY DEF Cache!Uncached
<1>3. Cache!UncachedCoherent'
  BY <1>2 DEF Cache!UncachedCoherent, Cache!Holds, Cache!Now, Way
<1> QED
  BY <1>1, <1>3 DEF CacheInv, Cache!GivenInMemory

\* Memory starts whole, the caches empty.
LEMMA CacheStarts ==
  ASSUME Cache!Init
  PROVE  CacheInv
<1>1. /\ mem = Cache!Bytes /\ dcache = [i \in Ways |-> Cache!Empty] /\ given = {}
      /\ icache = [i \in 0..ILINES-1 |-> [line |-> Cache!None, ok |-> TRUE]] /\ blocks = {}
  BY DEF Cache!Init, Ways
<1>2. Cache!Empty \in EntryType /\ Cache!Empty.line = Cache!None /\ ~Cache!Empty.dirty
  BY CacheConstants DEF Cache!Empty, Cache!None, EntryType
<1>3. Sound(mem, dcache)
  BY <1>1, <1>2 DEF Sound, EntrySound
<1>4. BlocksApart
  BY <1>1 DEF BlocksApart
<1>5. CodeSound
  BY <1>1, CacheConstants DEF CodeSound, Cache!CodeCurrent, Cache!None
<1>6. Cache!Uncached = {}
  BY <1>1, Owners
<1>7. Cache!GivenInMemory /\ Cache!UncachedCoherent
  BY <1>1, <1>6 DEF Cache!GivenInMemory, Cache!UncachedCoherent
<1>8. Code \subseteq mem
  BY <1>1, CacheConstants DEF Code, Cache!Bytes
<1> QED
  BY <1>3, <1>4, <1>5, <1>7, <1>8 DEF CacheInv

\* Loads, stores and stores of a device.
LEMMA AccessStep ==
  ASSUME CacheInv, NEW a \in Cache!Bytes,
         Cache!CachedStore(a) \/ Cache!CachedLoad(a) \/ Cache!UncachedStore(a)
  PROVE  CacheInv'
<1> DEFINE s == Cache!Now
<1>1. Sound(s.mem, s.dc) /\ s.mem = mem /\ s.dc = dcache
  BY DEF CacheInv, Cache!Now
<1>2. \A u \in Cache!Uncached : /\ u \in mem /\ Way(Cache!LineOf(u)) \in Ways
                                /\ dcache[Way(Cache!LineOf(u))].line # Cache!LineOf(u)
  BY NotHeld, Owners, BelowCode, LineInMemory, WayOfLine DEF CacheInv
<1>3. BlocksApart /\ given \subseteq mem /\ Code \subseteq mem
  BY DEF CacheInv, Cache!GivenInMemory
<1> HIDE DEF s
<1>4. CASE Cache!CachedStore(a)
  <2> DEFINE t == Cache!Store(s, a)
  <2>1. /\ a \in Cache!Cached /\ a \notin given /\ mem' = t.mem /\ dcache' = t.dc
        /\ UNCHANGED <<icache, blocks, given>>
    BY <1>4 DEF Cache!CachedStore, Cache!Is, s
  <2>2. /\ Sound(t.mem, t.dc) /\ mem \ {a} \subseteq t.mem
        /\ \A i \in Ways : t.dc[i].line # Cache!LineOf(a) => t.dc[i] = dcache[i]
    BY <1>1, StoreSound
  <2> HIDE DEF t
  <2>3. a \notin Code /\ \A u \in Cache!Uncached : Cache!LineOf(u) # Cache!LineOf(a)
    BY <1>3, <2>1, LinesApart, Owners, BelowCode
  <2>4. \A u \in Cache!Uncached : dcache'[Way(Cache!LineOf(u))].line # Cache!LineOf(u)
    BY <1>2, <2>1, <2>2, <2>3
  <2>5. Cache!Uncached \subseteq mem' /\ given' \subseteq mem' /\ Code \subseteq mem'
    BY <1>2, <1>3, <2>1, <2>2, <2>3
  <2> QED
    BY <2>1, <2>2, <2>4, <2>5, DataStep
<1>5. CASE Cache!CachedLoad(a)
  <2> DEFINE t == Cache!Fill(s, a)
  <2>1. /\ a \in Cache!Cached /\ mem' = t.mem /\ dcache' = t.dc
        /\ UNCHANGED <<icache, blocks, given>>
    BY <1>5 DEF Cache!CachedLoad, Cache!Is, s
  <2>2. /\ Sound(t.mem, t.dc) /\ mem \subseteq t.mem
        /\ \A i \in Ways : t.dc[i].line # Cache!LineOf(a) => t.dc[i] = dcache[i]
    BY <1>1, FillSound
  <2> HIDE DEF t
  <2>3. \A u \in Cache!Uncached : Cache!LineOf(u) # Cache!LineOf(a)
    BY <1>3, <2>1, LinesApart
  <2>4. \A u \in Cache!Uncached : dcache'[Way(Cache!LineOf(u))].line # Cache!LineOf(u)
    BY <1>2, <2>1, <2>2, <2>3
  <2>5. Cache!Uncached \subseteq mem' /\ given' \subseteq mem' /\ Code \subseteq mem'
    BY <1>2, <1>3, <2>1, <2>2
  <2> QED
    BY <2>1, <2>2, <2>4, <2>5, DataStep
<1>6. CASE Cache!UncachedStore(a)
  <2> DEFINE t == Cache!Bypass(s, a)
  <2>1. /\ a \in Cache!Uncached /\ mem' = t.mem /\ dcache' = t.dc
        /\ UNCHANGED <<icache, blocks, given>>
    BY <1>6 DEF Cache!UncachedStore, Cache!Is, s
  <2>2. /\ Sound(t.mem, t.dc) /\ mem \subseteq t.mem
        /\ \A i \in Ways : t.dc[i].line = dcache[i].line
    BY <1>1, <1>2, <2>1, BypassSound
  <2> HIDE DEF t
  <2>3. \A u \in Cache!Uncached : dcache'[Way(Cache!LineOf(u))].line # Cache!LineOf(u)
    BY <1>2, <2>1, <2>2
  <2>4. Cache!Uncached \subseteq mem' /\ given' \subseteq mem' /\ Code \subseteq mem'
    BY <1>2, <1>3, <2>1, <2>2
  <2> QED
    BY <2>1, <2>2, <2>3, <2>4, DataStep
<1> QED
  BY <1>4, <1>5, <1>6

\* What a flush that drops entries only leaves of uncached memory.
LEMMA StillNotHeld ==
  ASSUME CacheInv, NEW d, \A i \in Ways : d[i] \in {Cache!Empty, dcache[i]}
  PROVE  \A u \in Cache!Uncached : /\ u \in mem
                                   /\ d[Way(Cache!LineOf(u))].line # Cache!LineOf(u)
<1> TAKE u \in Cache!Uncached
<1>1. u \in mem /\ dcache[Way(Cache!LineOf(u))].line # Cache!LineOf(u)
  BY NotHeld DEF CacheInv
<1>2. Way(Cache!LineOf(u)) \in Ways /\ Cache!LineOf(u) # Cache!None
  BY Owners, BelowCode, LineInMemory, WayOfLine DEF CacheInv
<1>3. Cache!Empty.line = Cache!None
  BY DEF Cache!Empty
<1> QED
  BY <1>1, <1>2, <1>3

\* Flushes by the program.
LEMMA FlushStep ==
  ASSUME CacheInv,
         \/ \E b \in blocks, start \in Cache!Bytes, n \in Sizes : Cache!GiveRange(b, start, n)
         \/ \E b \in blocks : Cache!Discard(b)
         \/ Cache!GiveAll \/ Cache!TakeBack
  PROVE  CacheInv'
<1> DEFINE s == Cache!Now
<1>1. Sound(s.mem, s.dc) /\ s.mem = mem /\ s.dc = dcache
  BY DEF CacheInv, Cache!Now
<1>3. BlocksApart /\ given \subseteq mem /\ Code \subseteq mem
  BY DEF CacheInv, Cache!GivenInMemory
<1> HIDE DEF s
<1>4. ASSUME NEW b \in blocks, NEW start \in Cache!Bytes, NEW n \in Sizes, Cache!GiveRange(b, start, n)
      PROVE  CacheInv'
  <2> DEFINE t == Cache!alt_dcache_flush(s, start, n, TRUE)
  <2>1. /\ mem' = t.mem /\ dcache' = t.dc /\ UNCHANGED <<icache, blocks>>
        /\ given' = given \cup Cache!Range(start, n)
        /\ Cache!Range(start, n) \subseteq Span(b)
    BY <1>4 DEF Cache!GiveRange, Cache!Is, s, Span
  <2>2. start \in Nat /\ n \in Nat \ {0}
    BY CacheConstants DEF Cache!Bytes
  <2>3. /\ Sound(t.mem, t.dc) /\ mem \subseteq t.mem
        /\ \A i \in Ways : t.dc[i] \in {Cache!Empty, dcache[i]}
        /\ \A a \in Cache!Bytes : a \in Cache!Range(start, n) => a \in t.mem
    BY <1>1, <2>2, FlushSound
  <2> HIDE DEF t
  <2>4. Cache!Range(start, n) \subseteq Cache!Bytes
    BY <1>3, <2>1, BelowCode
  <2>5. \A u \in Cache!Uncached : u \in mem /\ dcache'[Way(Cache!LineOf(u))].line # Cache!LineOf(u)
    BY <2>1, <2>3, StillNotHeld
  <2>6. Cache!Uncached \subseteq mem' /\ given' \subseteq mem' /\ Code \subseteq mem'
    BY <1>3, <2>1, <2>3, <2>4, <2>5
  <2> QED
    BY <2>1, <2>3, <2>5, <2>6, DataStep
<1>5. ASSUME NEW b \in blocks, Cache!Discard(b) PROVE CacheInv'
  <2> DEFINE t == Cache!alt_dcache_flush(s, b.start, b.len, FALSE)
             m == t.mem \cup Cache!Range(b.start, b.len)
  <2>1. /\ b.start % LINE = 0 /\ b.len % LINE = 0
        /\ mem' = [t EXCEPT !.mem = @ \cup Cache!Range(b.start, b.len)].mem
        /\ dcache' = [t EXCEPT !.mem = @ \cup Cache!Range(b.start, b.len)].dc
        /\ UNCHANGED <<icache, blocks, given>>
    BY <1>5 DEF Cache!Discard, Cache!Is, s
  <2>2. mem' = m /\ dcache' = t.dc
    BY <2>1 DEF Cache!alt_dcache_flush, Cache!Drop
  <2>3. b.start \in Nat /\ b.len \in Nat
    BY <1>3 DEF BlocksApart, BlockType
  <2>4. /\ Sound(m, t.dc) /\ mem \subseteq m
        /\ \A i \in Ways : t.dc[i] \in {Cache!Empty, dcache[i]}
    BY <1>1, <2>1, <2>3, DiscardSound
  <2> HIDE DEF t, m
  <2>5. \A u \in Cache!Uncached : u \in mem /\ dcache'[Way(Cache!LineOf(u))].line # Cache!LineOf(u)
    BY <2>2, <2>4, StillNotHeld
  <2>6. Cache!Uncached \subseteq mem' /\ given' \subseteq mem' /\ Code \subseteq mem'
    BY <1>3, <2>1, <2>2, <2>4, <2>5
  <2> QED
    BY <2>1, <2>2, <2>4, <2>5, <2>6, DataStep
<1>6. CASE Cache!GiveAll
  <2> DEFINE t == Cache!alt_dcache_flush_all(s)
  <2>1. /\ mem' = t.mem /\ dcache' = t.dc /\ UNCHANGED <<icache, blocks>> /\ given' = Cache!Cached
    BY <1>6 DEF Cache!GiveAll, Cache!Is, s
  <2>2. /\ Sound(t.mem, t.dc) /\ Cache!Bytes \subseteq t.mem
        /\ \A i \in Ways : t.dc[i] = Cache!Empty
    BY <1>1, FlushAllSound
  <2> HIDE DEF t
  <2>3. \A u \in Cache!Uncached : u \in mem /\ dcache'[Way(Cache!LineOf(u))].line # Cache!LineOf(u)
    BY <2>1, <2>2, StillNotHeld
  <2>4. Cache!Uncached \subseteq mem' /\ given' \subseteq mem' /\ Code \subseteq mem'
    <3>1. Cache!Uncached \subseteq Cache!Bytes /\ Cache!Cached \subseteq Cache!Bytes
      BY <1>3, Owners, BelowCode
    <3>2. Code \subseteq Cache!Bytes
      BY CacheConstants DEF Code, Cache!Bytes
    <3> QED
      BY <2>1, <2>2, <3>1, <3>2
  <2> QED
    BY <2>1, <2>2, <2>3, <2>4, DataStep
<1>7. CASE Cache!TakeBack
  <2>1. given' = {} /\ UNCHANGED <<mem, dcache, icache, blocks>>
    BY <1>7 DEF Cache!TakeBack
  <2>2. \A u \in Cache!Uncached : u \in mem /\ dcache'[Way(Cache!LineOf(u))].line # Cache!LineOf(u)
    BY <2>1, NotHeld DEF CacheInv
  <2>3. Sound(mem', dcache')
    BY <1>1, <2>1
  <2> QED
    BY <1>3, <2>1, <2>2, <2>3, DataStep
<1> QED
  BY <1>4, <1>5, <1>6, <1>7

\* Free memory is memory without the code.
LEMMA FreeBytes == Cache!Free \subseteq Cache!Bytes \ Code
  BY DEF Cache!Free, Code

\* A new block of free memory is apart from the others and from the code.
LEMMA NewBlock ==
  ASSUME BlocksApart, NEW b \in BlockType, Span(b) \subseteq Cache!Free,
         b.uncached => b.start % LINE = 0 /\ b.len % LINE = 0,
         blocks' = blocks \cup {b}
  PROVE  BlocksApart'
<1>1. b.start \in Nat /\ b.len \in Nat \ {0}
  BY DEF BlockType
<1>2. ASSUME NEW c \in blocks PROVE Span(b) \cap Span(c) = {}
  BY DEF Cache!Free, Span
<1>3. b.start + b.len <= CodeStart
  <2>1. b.start + b.len - 1 \in Span(b)
    BY <1>1 DEF Span, Cache!Range
  <2> DEFINE z == b.start + b.len - 1
  <2>2. z \in Span(b)
    BY <2>1
  <2> HIDE DEF z
  <2>3. z \in Cache!Bytes /\ z \notin Code
    BY <2>2, FreeBytes
  <2> QED
    BY <1>1, <2>3, CacheConstants DEF Cache!Bytes, z, Code
<1> QED
  BY <1>2, <1>3 DEF BlocksApart, Span

\* Allocation and release.
LEMMA BlockStep ==
  ASSUME CacheInv,
         \/ \E n \in Sizes : Cache!malloc(n) \/ Cache!alt_uncached_malloc(n)
         \/ \E b \in blocks : Cache!Release(b)
  PROVE  CacheInv'
<1> DEFINE s == Cache!Now
<1>1. Sound(s.mem, s.dc) /\ s.mem = mem /\ s.dc = dcache
  BY DEF CacheInv, Cache!Now
<1>2. \A u \in Cache!Uncached : u \in mem /\ dcache[Way(Cache!LineOf(u))].line # Cache!LineOf(u)
  BY NotHeld DEF CacheInv
<1>3. BlocksApart /\ given \subseteq mem /\ Code \subseteq mem /\ CodeSound
  BY DEF CacheInv, Cache!GivenInMemory
<1> HIDE DEF s
<1>4. ASSUME NEW n \in Sizes, Cache!malloc(n) PROVE CacheInv'
  <2>1. PICK p \in Cache!Bytes :
          /\ Cache!Range(p, n) \subseteq Cache!Free
          /\ blocks' = blocks \cup {[start |-> p, len |-> n, uncached |-> FALSE]}
    BY <1>4 DEF Cache!malloc
  <2>2. UNCHANGED <<mem, dcache, icache, given>>
    BY <1>4 DEF Cache!malloc
  <2> DEFINE b == [start |-> p, len |-> n, uncached |-> FALSE]
  <2>3. b \in BlockType /\ b.start = p /\ b.len = n /\ ~b.uncached
    BY CacheConstants DEF BlockType, Cache!Bytes
  <2> HIDE DEF b
  <2>4. BlocksApart'
    <3>1. blocks' = blocks \cup {b}
      BY <2>1 DEF b
    <3> QED
      BY <1>3, <2>1, <2>3, <3>1, NewBlock DEF Span
  <2>5. Cache!Uncached' = Cache!Uncached
    <3>1. \A a : a \in Cache!Uncached' <=> \E c \in blocks' : c.uncached /\ a \in Span(c)
      BY DEF Cache!Uncached, Span
    <3>2. blocks' = blocks \cup {b}
      BY <2>1 DEF b
    <3> QED
      BY <2>3, <3>1, <3>2, Owners
  <2>6. CodeSound' /\ Cache!GivenInMemory' /\ Sound(mem, dcache)' /\ (Code \subseteq mem)'
    BY <1>1, <1>3, <2>2 DEF CodeSound, Cache!CodeCurrent, Cache!GivenInMemory, Code
  <2>7. Cache!UncachedCoherent'
    BY <1>2, <2>2, <2>5 DEF Cache!UncachedCoherent, Cache!Holds, Cache!Now, Way
  <2> QED
    BY <2>4, <2>6, <2>7 DEF CacheInv
<1>5. ASSUME NEW n \in Sizes, Cache!alt_uncached_malloc(n) PROVE CacheInv'
  <2> DEFINE k == Cache!AlignedSize(n)
  <2>1. k \in Nat \ {0} /\ k % LINE = 0
    <3> DEFINE v == Cache!Steps(n)
    <3>1. n \in Nat /\ n > 0
      BY CacheConstants
    <3>2. k = v * LINE
      BY DEF Cache!AlignedSize, Cache!Steps
    <3>3. v \in Nat /\ n <= v * LINE
      BY <3>1, StepsCover
    <3> HIDE DEF v, k
    <3>4. v * LINE \in Nat /\ LINE \in Nat /\ LINE > 0
      BY <3>3, CacheConstants
    <3>5. (v * LINE) % LINE = 0
      BY <3>3, <3>4
    <3> QED
      BY <3>1, <3>2, <3>3, <3>4, <3>5
  <2>2. PICK p \in {a \in Cache!Bytes : a % LINE = 0} :
          LET t == Cache!alt_dcache_flush(s, p, k, TRUE)
          IN /\ Cache!Range(p, k) \subseteq Cache!Free
             /\ blocks' = blocks \cup {[start |-> p, len |-> k, uncached |-> TRUE]}
             /\ Cache!Is([t EXCEPT !.mem = @ \cup Cache!Range(p, k)])
    BY <1>5 DEF Cache!alt_uncached_malloc, s
  <2>3. UNCHANGED <<icache, given>>
    BY <1>5 DEF Cache!alt_uncached_malloc
  <2> DEFINE t == Cache!alt_dcache_flush(s, p, k, TRUE)
             b == [start |-> p, len |-> k, uncached |-> TRUE]
  <2>4. mem' = t.mem \cup Cache!Range(p, k) /\ dcache' = t.dc
    BY <2>2 DEF Cache!Is, Cache!alt_dcache_flush, Cache!Drop
  <2> HIDE DEF k
  <2>5. /\ Sound(t.mem, t.dc) /\ mem \subseteq t.mem
        /\ \A i \in Ways : t.dc[i] \in {Cache!Empty, dcache[i]}
        /\ \A a \in Cache!Bytes : a \in Cache!Range(p, k) =>
              a \in t.mem /\ t.dc[Way(Cache!LineOf(a))].line # Cache!LineOf(a)
    <3>1. p \in Nat
      BY DEF Cache!Bytes
    <3> QED
      BY <1>1, <2>1, <3>1, FlushSound
  <2>6. b \in BlockType /\ b.start = p /\ b.len = k /\ b.uncached /\ blocks' = blocks \cup {b}
    BY <2>1, <2>2 DEF BlockType, Cache!Bytes
  <2> HIDE DEF t, b
  <2>7. Cache!Range(p, k) \subseteq Cache!Bytes
    BY <2>2 DEF Cache!Free
  <2>8. mem' = t.mem
    BY <2>4, <2>5, <2>7
  <2>9. BlocksApart'
    BY <1>3, <2>1, <2>2, <2>6, NewBlock DEF Span
  <2>10. Cache!Uncached' = Cache!Uncached \cup Cache!Range(p, k)
    <3>1. \A a : a \in Cache!Uncached' <=> \E c \in blocks' : c.uncached /\ a \in Span(c)
      BY DEF Cache!Uncached, Span
    <3> QED
      BY <2>6, <3>1, Owners DEF Span
  <2>11. \A u \in Cache!Uncached' : /\ u \in mem'
                                    /\ dcache'[Way(Cache!LineOf(u))].line # Cache!LineOf(u)
    <3>1. \A u \in Cache!Uncached : u \in mem /\ t.dc[Way(Cache!LineOf(u))].line # Cache!LineOf(u)
      BY <2>5, StillNotHeld
    <3> QED
      BY <2>4, <2>5, <2>7, <2>8, <2>10, <3>1
  <2>12. Cache!UncachedCoherent'
    BY <2>11 DEF Cache!UncachedCoherent, Cache!Holds, Cache!Now, Way
  <2>13. CodeSound' /\ Cache!GivenInMemory' /\ (Code \subseteq mem)'
    BY <1>3, <2>3, <2>5, <2>8 DEF CodeSound, Cache!CodeCurrent, Cache!GivenInMemory, Code
  <2>14. Sound(mem, dcache)'
    BY <2>4, <2>5, <2>8
  <2> QED
    BY <2>9, <2>12, <2>13, <2>14 DEF CacheInv
<1>6. ASSUME NEW b \in blocks, Cache!Release(b) PROVE CacheInv'
  <2>1. /\ blocks' = blocks \ {b} /\ given' \subseteq given
        /\ UNCHANGED <<mem, dcache, icache>>
    BY <1>6 DEF Cache!Release
  <2>2. BlocksApart'
    BY <1>3, <2>1 DEF BlocksApart, Span
  <2>3. Cache!Uncached' \subseteq Cache!Uncached
    BY <2>1 DEF Cache!Uncached
  <2>4. Cache!UncachedCoherent'
    BY <1>2, <2>1, <2>3 DEF Cache!UncachedCoherent, Cache!Holds, Cache!Now, Way
  <2>5. CodeSound' /\ Cache!GivenInMemory' /\ Sound(mem, dcache)' /\ (Code \subseteq mem)'
    BY <1>1, <1>3, <2>1 DEF CodeSound, Cache!CodeCurrent, Cache!GivenInMemory, Code
  <2> QED
    BY <2>2, <2>4, <2>5 DEF CacheInv
<1> QED
  BY <1>4, <1>5, <1>6

\* The entry of the instruction cache that a line selects.
LEMMA CodeWay ==
  ASSUME NEW l \in Nat
  PROVE  l % ILINES \in 0..ILINES-1
  BY CacheConstants

\* Flushing the instruction cache drops some entries, among them that of the
\* first byte of the region.
LEMMA InstructionFlush ==
  ASSUME NEW ic, NEW start \in Nat, NEW len \in Nat \ {0}
  PROVE  LET f == Cache!alt_icache_flush(ic, start, len)
         IN /\ f = [i \in 0..ILINES-1 |-> f[i]]
            /\ \A i \in 0..ILINES-1 : f[i] \in {ic[i], [line |-> Cache!None, ok |-> TRUE]}
            /\ f[Cache!LineOf(start) % ILINES] = [line |-> Cache!None, ok |-> TRUE]
<1> DEFINE n == IF len > ILINES * LINE THEN ILINES * LINE ELSE len
           I == {Cache!LineOf(p) % ILINES : p \in Cache!FlushPoints(start, n)}
           f == [i \in 0..ILINES-1 |-> IF i \in I THEN [line |-> Cache!None, ok |-> TRUE]
                                       ELSE ic[i]]
           j == Cache!LineOf(start) % ILINES
<1>1. Cache!alt_icache_flush(ic, start, len) = f
  BY DEF Cache!alt_icache_flush
<1>2. n \in Nat \ {0}
  <2>1. ILINES * LINE \in Nat \ {0}
    <3>1. ILINES \in Nat /\ ILINES >= 1 /\ LINE \in Nat /\ LINE >= 1
      BY CacheConstants
    <3>2. (ILINES - 1) * LINE >= 0 /\ (ILINES - 1) * LINE = ILINES * LINE - LINE
      BY <3>1
    <3>3. ILINES * LINE \in Int
      BY <3>1
    <3> QED
      BY <3>1, <3>2, <3>3
  <2> QED
    BY <2>1
<1> HIDE DEF n
<1>3. start \in Cache!FlushPoints(start, n)
  BY <1>2, FlushStarts
<1>4. j \in I
  BY <1>3
<1>5. j \in 0..ILINES-1
  BY OnLine, CodeWay
<1> HIDE DEF I, j
<1>6. /\ f = [i \in 0..ILINES-1 |-> f[i]]
      /\ \A i \in 0..ILINES-1 : f[i] \in {ic[i], [line |-> Cache!None, ok |-> TRUE]}
      /\ f[j] = [line |-> Cache!None, ok |-> TRUE]
  BY <1>4, <1>5
<1> QED
  BY <1>1, <1>6 DEF j

\* Flushing as many bytes as the instruction cache has drops every entry.
LEMMA InstructionFlushAll ==
  ASSUME NEW ic
  PROVE  Cache!alt_icache_flush(ic, 0, ILINES * LINE)
           = [i \in 0..ILINES-1 |-> [line |-> Cache!None, ok |-> TRUE]]
<1> DEFINE n == ILINES * LINE
           I == {Cache!LineOf(p) % ILINES : p \in Cache!FlushPoints(0, n)}
<1>1. n \in Nat /\ n % LINE = 0 /\ ILINES \in Nat /\ LINE \in Nat /\ LINE > 0
  BY CacheConstants
<1>2. Cache!alt_icache_flush(ic, 0, n) =
        [i \in 0..ILINES-1 |-> IF i \in I THEN [line |-> Cache!None, ok |-> TRUE] ELSE ic[i]]
  BY <1>1 DEF Cache!alt_icache_flush
<1>3. ASSUME NEW i \in 0..ILINES-1 PROVE i \in I
  <2> DEFINE p == i * LINE
  <2>1. p \in Nat /\ i * LINE <= p /\ p < i * LINE + LINE /\ i \in Int
    BY <1>1
  <2>2. Cache!LineOf(p) = i
    BY <2>1, LineUnique
  <2>3. i % ILINES = i
    BY <1>1
  <2>4. Cache!Steps(n) \in Nat /\ Cache!Steps(n) * LINE = n
    BY <1>1, StepsCover
  <2> DEFINE N == Cache!Steps(n)
  <2> HIDE DEF p
  <2>5. i < N
    <3>1. N \in Int /\ N * LINE = ILINES * LINE
      BY <2>4
    <3> HIDE DEF N, n
    <3>2. N < ILINES => N * LINE + LINE <= ILINES * LINE
      BY <1>1, <3>1, Scaled
    <3> QED
      BY <1>1, <3>1, <3>2
  <2>6. 0 + i * LINE \in Cache!FlushPoints(0, n)
    <3> HIDE DEF n
    <3> QED
      BY <1>1, <2>4, <2>5, FlushPoint
  <2>7. p \in Cache!FlushPoints(0, n)
    BY <1>1, <2>6 DEF p
  <2> QED
    BY <2>2, <2>3, <2>7
<1> HIDE DEF I
<1> QED
  BY <1>2, <1>3

\* A line of code is code only.
LEMMA CodeLines ==
  ASSUME NEW a \in Cache!Bytes, a >= CodeStart
  PROVE  Cache!BytesOf(Cache!LineOf(a)) \subseteq Code
<1>1. a \in Nat /\ CodeStart \in Nat /\ SIZE \in Nat /\ CodeStart <= a
  BY CacheConstants DEF Cache!Bytes
<1> SUFFICES ASSUME NEW b \in Cache!BytesOf(Cache!LineOf(a)) PROVE b \in Code
  OBVIOUS
<1>2. b \in Cache!Bytes /\ Cache!LineOf(a) \in Nat
  BY LineInMemory
<1>3. b \in Nat /\ b < SIZE
  BY <1>1, <1>2 DEF Cache!Bytes
<1>4. Cache!LineOf(b) = Cache!LineOf(a)
  BY <1>2, <1>3, LineBytes
<1>5. b < CodeStart => FALSE
  <2> SUFFICES ASSUME b < CodeStart PROVE FALSE
    OBVIOUS
  <2>1. b \in Cache!Range(0, CodeStart) /\ 0 % LINE = 0 /\ CodeStart % LINE = 0
    BY <1>1, <1>3, CacheConstants DEF Cache!Range
  <2>2. a \in Cache!Range(0, CodeStart)
    BY <1>1, <1>3, <1>4, <2>1, WholeLines
  <2> QED
    BY <1>1, <2>2 DEF Cache!Range
<1> QED
  BY <1>1, <1>3, <1>5 DEF Code

\* A step that changes both caches and no block.
LEMMA CodeStep ==
  ASSUME CacheInv, UNCHANGED <<blocks, given>>, Sound(mem', dcache'), CodeSound',
         given \subseteq mem', Code \subseteq mem', Cache!Uncached \subseteq mem',
         \A u \in Cache!Uncached : dcache'[Way(Cache!LineOf(u))].line # Cache!LineOf(u)
  PROVE  CacheInv'
<1>1. BlocksApart'
  BY DEF CacheInv, BlocksApart, Span
<1>2. Cache!Uncached' = Cache!Uncached
  BY DEF Cache!Uncached
<1>3. Cache!UncachedCoherent'
  BY <1>2 DEF Cache!UncachedCoherent, Cache!Holds, Cache!Now, Way
<1> QED
  BY <1>1, <1>3 DEF CacheInv, Cache!GivenInMemory

\* Instructions are fetched from memory, which has the code as last written.
LEMMA FetchStep ==
  ASSUME CacheInv, NEW a \in Cache!Bytes, Cache!Fetch(a)
  PROVE  CacheInv'
<1> DEFINE l == Cache!LineOf(a)
           i == l % ILINES
<1>1. UNCHANGED <<mem, dcache, blocks, given>> /\ a >= CodeStart
  BY DEF Cache!Fetch
<1>2. icache' = IF icache[i].line = l THEN icache
                ELSE [icache EXCEPT ![i] = [line |-> l, ok |-> Cache!BytesOf(l) \subseteq mem]]
  BY DEF Cache!Fetch
<1>3. l \in Nat /\ i \in 0..ILINES-1
  BY LineInMemory, CodeWay
<1>4. Cache!BytesOf(l) \subseteq mem
  BY <1>1, CodeLines DEF CacheInv
<1> HIDE DEF l
<1>5. icache' = icache \/ icache' = [icache EXCEPT ![i] = [line |-> l, ok |-> TRUE]]
  BY <1>2, <1>4
<1>6. CodeSound'
  <2>1. CodeSound
    BY DEF CacheInv
  <2>2. CASE icache' = icache
    BY <2>1, <2>2 DEF CodeSound, Cache!CodeCurrent
  <2>3. CASE icache' = [icache EXCEPT ![i] = [line |-> l, ok |-> TRUE]]
    <3>1. ASSUME NEW j \in 0..ILINES-1
          PROVE  icache'[j] = IF j = i THEN [line |-> l, ok |-> TRUE] ELSE icache[j]
      BY <2>1, <2>3 DEF CodeSound
    <3>2. icache' \in [0..ILINES-1 -> [line : Nat, ok : BOOLEAN]]
      BY <1>3, <2>1, <2>3 DEF CodeSound
    <3> QED
      BY <2>1, <3>1, <3>2 DEF CodeSound, Cache!CodeCurrent
  <2> QED
    BY <1>5, <2>2, <2>3
<1>7. \A u \in Cache!Uncached : u \in mem /\ dcache[Way(Cache!LineOf(u))].line # Cache!LineOf(u)
  BY NotHeld DEF CacheInv
<1>8. Sound(mem, dcache) /\ given \subseteq mem /\ Code \subseteq mem
  BY DEF CacheInv, Cache!GivenInMemory
<1> QED
  BY <1>1, <1>6, <1>7, <1>8, CodeStep

\* alt_load leaves both caches empty and everything in memory.
LEMMA LoadStep ==
  ASSUME CacheInv, Cache!alt_load
  PROVE  CacheInv'
<1> DEFINE c == Cache!CopySection
           t == Cache!alt_dcache_flush_all(c)
<1>1. /\ mem' = t.mem /\ dcache' = t.dc /\ UNCHANGED <<blocks, given>>
      /\ icache' = [i \in 0..ILINES-1 |-> [line |-> Cache!None, ok |-> TRUE]]
  BY InstructionFlushAll DEF Cache!alt_load, Cache!Is, Cache!DataSynced
<1>2. Sound(c.mem, c.dc) /\ mem \subseteq c.mem \cup Words
  BY CopySound DEF CacheInv
<1> HIDE DEF c
<1>3. /\ Sound(t.mem, t.dc) /\ c.mem \cup Cache!Bytes \subseteq t.mem
      /\ \A i \in Ways : t.dc[i] = Cache!Empty
  BY <1>2, FlushAllSound
<1> HIDE DEF t
<1>4. CodeSound'
  BY <1>1, CacheConstants DEF CodeSound, Cache!CodeCurrent, Cache!None
<1>5. BlocksApart
  BY DEF CacheInv
<1>6. Cache!Uncached \subseteq mem' /\ Code \subseteq mem' /\ given \subseteq mem'
  <2>1. Cache!Uncached \subseteq Cache!Bytes
    BY <1>5, Owners, BelowCode
  <2>2. Code \subseteq Cache!Bytes /\ Words \subseteq Cache!Bytes
    BY CacheConstants DEF Code, Words, Cache!Bytes
  <2>3. given \subseteq mem
    BY DEF CacheInv, Cache!GivenInMemory
  <2> QED
    BY <1>1, <1>2, <1>3, <2>1, <2>2, <2>3
<1>7. ASSUME NEW u \in Cache!Uncached
      PROVE  dcache'[Way(Cache!LineOf(u))].line # Cache!LineOf(u)
  <2>1. u \in Cache!Bytes
    BY <1>5, Owners, BelowCode
  <2>2. Cache!LineOf(u) \in Nat /\ Cache!LineOf(u) # Cache!None
    BY <2>1, LineInMemory
  <2> QED
    BY <1>1, <1>3, <2>2, WayOfLine DEF Cache!Empty
<1> QED
  BY <1>1, <1>3, <1>4, <1>6, <1>7, CodeStep

\* A patch of code is flushed from both caches.
LEMMA PatchStep ==
  ASSUME CacheInv, NEW start \in Cache!Bytes, NEW n \in Sizes, Cache!PatchCode(start, n)
  PROVE  CacheInv'
<1> DEFINE r == Cache!Store(Cache!Now, start)
           t == Cache!alt_dcache_flush(r, start, n, TRUE)
           l == Cache!LineOf(start)
           ic == [i \in 0..ILINES-1 |-> [icache[i] EXCEPT !.ok = @ /\ icache[i].line \notin {l}]]
           f == Cache!alt_icache_flush(ic, start, n)
           none == [line |-> Cache!None, ok |-> TRUE]
<1>1. start >= CodeStart /\ mem' = t.mem /\ dcache' = t.dc /\ icache' = f
      /\ UNCHANGED <<blocks, given>>
  BY DEF Cache!PatchCode, Cache!Is
<1>2. start \in Nat /\ n \in Nat \ {0} /\ start \in Cache!Range(start, n) /\ start \in Code
  BY <1>1, CacheConstants DEF Cache!Bytes, Cache!Range, Code
<1>3. /\ Sound(r.mem, r.dc) /\ mem \ {start} \subseteq r.mem
      /\ \A i \in Ways : r.dc[i].line # l => r.dc[i] = dcache[i]
  BY StoreSound DEF CacheInv, Cache!Now
<1> HIDE DEF r
<1>4. /\ Sound(t.mem, t.dc) /\ r.mem \subseteq t.mem /\ start \in t.mem
      /\ \A i \in Ways : t.dc[i] \in {Cache!Empty, r.dc[i]}
  BY <1>2, <1>3, FlushSound
<1> HIDE DEF t
<1>5. l \in Nat /\ l # Cache!None
  BY LineInMemory
<1>6. CodeSound'
  <2>1. /\ f = [i \in 0..ILINES-1 |-> f[i]]
        /\ \A i \in 0..ILINES-1 : f[i] \in {ic[i], none}
        /\ f[l % ILINES] = none
    BY <1>2, InstructionFlush
  <2>2. CodeSound
    BY DEF CacheInv
  <2>3. ASSUME NEW i \in 0..ILINES-1 PROVE f[i] \in {icache[i], none}
    <3>1. icache[i] \in [line : Nat, ok : BOOLEAN] /\ icache[i].ok
      BY <2>2 DEF CodeSound, Cache!CodeCurrent
    <3>2. CASE icache[i].line = l
      <4>1. l % ILINES = i
        BY <1>5, <2>2, <3>2 DEF CodeSound
      <4> QED
        BY <2>1, <4>1
    <3>3. CASE icache[i].line # l
      <4>1. ic[i] = icache[i]
        BY <3>1, <3>3
      <4> QED
        BY <2>1, <4>1
    <3> QED
      BY <3>2, <3>3
  <2> HIDE DEF f, ic
  <2>4. none \in [line : Nat, ok : BOOLEAN] /\ none.line = Cache!None /\ none.ok
    BY CacheConstants DEF Cache!None
  <2> HIDE DEF none
  <2>5. f \in [0..ILINES-1 -> [line : Nat, ok : BOOLEAN]]
    BY <2>1, <2>2, <2>3, <2>4 DEF CodeSound
  <2>6. \A i \in 0..ILINES-1 : f[i].ok /\ (f[i].line = Cache!None \/ f[i].line % ILINES = i)
    BY <2>2, <2>3, <2>4 DEF CodeSound, Cache!CodeCurrent
  <2> QED
    BY <1>1, <2>5, <2>6 DEF CodeSound, Cache!CodeCurrent
<1> HIDE DEF f, ic, none
<1>7. BlocksApart /\ given \subseteq mem /\ Code \subseteq mem
  BY DEF CacheInv, Cache!GivenInMemory
<1>8. \A u \in Cache!Uncached : u \in mem /\ dcache[Way(Cache!LineOf(u))].line # Cache!LineOf(u)
  BY NotHeld DEF CacheInv
<1>9. mem \subseteq mem'
  BY <1>1, <1>3, <1>4
<1>10. ASSUME NEW u \in Cache!Uncached
       PROVE  dcache'[Way(Cache!LineOf(u))].line # Cache!LineOf(u)
  <2>1. u \in Cache!Bytes
    BY <1>7, Owners, BelowCode
  <2>2. Cache!LineOf(u) \in Nat /\ Cache!LineOf(u) # Cache!None
    BY <2>1, LineInMemory
  <2>3. Cache!LineOf(u) # l
    BY <1>2, <1>7, LinesApart
  <2> QED
    BY <1>1, <1>3, <1>4, <1>8, <2>2, <2>3, WayOfLine DEF Cache!Empty
<1> QED
  BY <1>1, <1>4, <1>6, <1>7, <1>8, <1>9, <1>10, CodeStep

\* Every step of the program keeps the invariant.
LEMMA CacheKept ==
  ASSUME CacheInv, [Cache!Next]_cacheVars
  PROVE  CacheInv'
<1>1. CASE UNCHANGED cacheVars
  <2>1. UNCHANGED <<mem, dcache, icache, blocks, given>>
    BY <1>1 DEF cacheVars
  <2>2. \A u \in Cache!Uncached : u \in mem /\ dcache[Way(Cache!LineOf(u))].line # Cache!LineOf(u)
    BY NotHeld DEF CacheInv
  <2>3. Sound(mem, dcache) /\ given \subseteq mem /\ Code \subseteq mem
    BY DEF CacheInv, Cache!GivenInMemory
  <2> QED
    BY <2>1, <2>2, <2>3, DataStep
<1>2. CASE Cache!Next
  <2>1. CASE \/ \E n \in Sizes : Cache!malloc(n) \/ Cache!alt_uncached_malloc(n)
             \/ \E b \in blocks : Cache!Release(b)
    BY <2>1, BlockStep
  <2>2. CASE \/ \E b \in blocks : Cache!Discard(b)
             \/ \E b \in blocks, start \in Cache!Bytes, n \in Sizes : Cache!GiveRange(b, start, n)
             \/ Cache!GiveAll \/ Cache!TakeBack
    BY <2>2, FlushStep
  <2>3. CASE \E a \in Cache!Bytes : \/ Cache!CachedStore(a) \/ Cache!CachedLoad(a)
                                    \/ Cache!UncachedStore(a)
    BY <2>3, AccessStep
  <2>4. CASE \E a \in Cache!Bytes : Cache!Fetch(a)
    BY <2>4, FetchStep
  <2>5. CASE Cache!alt_load
    BY <2>5, LoadStep
  <2>6. CASE \E start \in Cache!Bytes, n \in Sizes : Cache!PatchCode(start, n)
    BY <2>6, PatchStep
  <2> QED
    BY <1>2, <2>1, <2>2, <2>3, <2>4, <2>5, <2>6 DEF Cache!Next
<1> QED
  BY <1>1, <1>2

\* Whatever the sizes of memory and caches and the alignment of what is
\* flushed: what a device was given is in memory (alt_dcache_flush), no line of
\* uncached memory is in the data cache (alt_uncached_malloc), and instructions
\* are the ones written last (alt_load, alt_icache_flush).
THEOREM CachesAreCoherent == FilesSpec => []CachesCoherent
<1>1. FilesInit => CacheInv
  BY CacheStarts DEF FilesInit
<1>2. CacheInv /\ [FilesNext]_filesVars => CacheInv'
  <2> SUFFICES ASSUME CacheInv, [FilesNext]_filesVars PROVE CacheInv'
    OBVIOUS
  <2>1. [Cache!Next]_cacheVars
    BY DEF FilesNext, filesVars, ThreadsStep, MountedStep, CacheStep, HeapStep, Stopped
  <2> QED
    BY <2>1, CacheKept
<1>3. CacheInv => CachesCoherent
  BY DEF CacheInv, CachesCoherent, CodeSound
<1> QED
  BY <1>1, <1>2, <1>3, PTL DEF FilesSpec

----------------------------------------------------------------------------
(* The heap: sbrk, for every size of the heap, every sequence of calls and *)
(* every movement of the stack.                                            *)

HeapTypes ==
  /\ {heap_end, stack_limit, sp, old_limit} \subseteq Int
  /\ got \in SUBSET (Int \X Int) /\ overflow \in BOOLEAN

\* The blocks, and the end of the heap above them.  A block keeps to the
\* memory although the end of the heap, aligned by a call that fails, may
\* leave it.
HeapBlocks == HeapTypes /\ heap_end >= 0 /\ Heap!BlocksSound

\* With whole words the alignment changes nothing, so the limit of the
\* program's stack is the end of the heap: in the register, or saved by the
\* exception that has switched stacks.
LimitFollows == (IF Heap!InException THEN old_limit ELSE stack_limit) = heap_end
HeapInv == HeapBlocks /\ heap_end % 4 = 0 /\ (~overflow => LimitFollows /\ heap_end <= sp)

WholeWords == \A incr \in Incrs : incr % 4 = 0

\* Alignment goes up, to a whole word, and leaves whole words alone.
LEMMA Alignment ==
  ASSUME NEW a \in Int
  PROVE  /\ Heap!WordAligned(a) \in Int /\ Heap!WordAligned(a) % 4 = 0 /\ Heap!WordAligned(a) >= a
         /\ a % 4 = 0 => Heap!WordAligned(a) = a
  BY DEF Heap!WordAligned

\* An empty heap, the stack at the end of the memory.
LEMMA HeapStarts ==
  ASSUME Heap!Init
  PROVE  HeapInv
<1>1. /\ heap_end = 0 /\ stack_limit = 0 /\ old_limit = -1 /\ got = {} /\ overflow = FALSE
      /\ sp = Limit + 4 /\ Limit \in Nat
  BY MemoryAssumption DEF Heap!Init, Heap!HeapAssumption
<1>2. sp \in Int /\ 0 <= sp /\ -1 \in Int /\ ~(-1 >= 0) /\ 0 % 4 = 0
  BY <1>1
<1>3. HeapTypes
  <2>1. {heap_end, stack_limit, sp, old_limit} \subseteq Int
    BY <1>1, <1>2
  <2>2. got \in SUBSET (Int \X Int)
    BY <1>1
  <2>3. overflow \in BOOLEAN
    BY <1>1
  <2> QED
    BY <2>1, <2>2, <2>3 DEF HeapTypes
<1>4. Heap!BlocksSound
  BY <1>1 DEF Heap!BlocksSound
<1> QED
  BY <1>1, <1>2, <1>3, <1>4 DEF HeapInv, HeapBlocks, LimitFollows, Heap!InException

\* The blocks that remain and the new one, whatever the call was for.
LEMMA HeapBlocksKept ==
  ASSUME HeapBlocks, [Heap!Next]_heapVars
  PROVE  HeapBlocks'
<1>0. Limit \in Int /\ Incrs \subseteq Int
  BY MemoryAssumption DEF Heap!HeapAssumption
<1>1. ASSUME NEW incr \in Incrs, Heap!Sbrk(incr) PROVE HeapBlocks'
  <2> DEFINE prev == Heap!WordAligned(heap_end)
             end == prev + incr
  <2>1. prev \in Int /\ prev % 4 = 0 /\ prev >= heap_end /\ incr \in Int /\ heap_end \in Int
    BY <1>0, Alignment DEF HeapBlocks, HeapTypes
  <2>2. end \in Int /\ end >= 0 /\ prev >= 0
    BY <1>1, <2>1 DEF Heap!Sbrk, HeapBlocks
  <2>3. CASE end > Limit
    <3>1. heap_end' = prev /\ UNCHANGED <<stack_limit, old_limit, got, overflow, sp>>
      BY <1>1, <2>3 DEF Heap!Sbrk, Heap!ALT_SBRK, Heap!Beyond
    <3>2. ASSUME NEW b \in got PROVE b[2] <= prev /\ b[2] \in Int
      BY <2>1 DEF HeapBlocks, HeapTypes, Heap!BlocksSound
    <3> HIDE DEF prev, end
    <3>3. HeapTypes'
      BY <2>1, <3>1 DEF HeapBlocks, HeapTypes
    <3> QED
      BY <2>2, <3>1, <3>2, <3>3 DEF HeapBlocks, Heap!BlocksSound
  <2>4. CASE ~(end > Limit)
    <3> DEFINE new == IF incr > 0 THEN {<<prev, end>>} ELSE {}
    <3>1. /\ heap_end' = end /\ sp' = sp /\ got' = Heap!Remaining(end) \cup new
          /\ stack_limit' \in {stack_limit, end} /\ old_limit' \in {old_limit, end}
          /\ overflow' \in BOOLEAN
      BY <1>1, <2>4 DEF Heap!Sbrk, Heap!ALT_SBRK, Heap!Beyond
    <3> HIDE DEF prev, end
    <3>2. ASSUME NEW b \in Heap!Remaining(end)
          PROVE  /\ b \in got /\ b \in Int \X Int /\ b[1] \in Int /\ b[2] \in Int
                 /\ b[2] <= end /\ b[2] <= prev /\ b[1] % 4 = 0 /\ b[2] <= Limit
      BY <2>1 DEF Heap!Remaining, HeapBlocks, HeapTypes, Heap!BlocksSound
    <3>3. ASSUME NEW b \in new
          PROVE  b = <<prev, end>> /\ b[1] = prev /\ b[2] = end
      OBVIOUS
    <3>4. HeapTypes'
      <4>1. got' \subseteq Int \X Int
        BY <2>1, <2>2, <3>1, <3>2, <3>3
      <4> QED
        BY <2>2, <3>1, <4>1 DEF HeapBlocks, HeapTypes
    <3>5. Heap!BlocksSound'
      <4>1. ASSUME NEW b \in got' PROVE b[1] % 4 = 0 /\ b[2] <= heap_end' /\ b[2] <= Limit
        BY <1>0, <2>1, <2>2, <2>4, <3>1, <3>2, <3>3
      <4>2. ASSUME NEW b \in got', NEW c \in got' PROVE b = c \/ b[2] <= c[1] \/ c[2] <= b[1]
        <5>1. CASE b \in Heap!Remaining(end) /\ c \in Heap!Remaining(end)
          BY <3>2, <5>1 DEF HeapBlocks, Heap!BlocksSound
        <5>2. CASE b \in Heap!Remaining(end) /\ c \in new
          BY <3>2, <3>3, <5>2
        <5>3. CASE b \in new /\ c \in Heap!Remaining(end)
          BY <3>2, <3>3, <5>3
        <5>4. CASE b \in new /\ c \in new
          BY <3>3, <5>4
        <5> QED
          BY <3>1, <5>1, <5>2, <5>3, <5>4
      <4> QED
        BY <4>1, <4>2 DEF Heap!BlocksSound
    <3> QED
      BY <2>2, <3>1, <3>4, <3>5 DEF HeapBlocks
  <2> QED
    BY <2>3, <2>4
<1>2. ASSUME NEW p \in 0 .. Limit + 4, Heap!MoveStack(p) PROVE HeapBlocks'
  BY <1>0, <1>2 DEF Heap!MoveStack, HeapBlocks, HeapTypes, Heap!BlocksSound
<1>3. CASE Heap!Enter \/ Heap!Leave
  BY <1>3 DEF Heap!Enter, Heap!Leave, HeapBlocks, HeapTypes, Heap!BlocksSound
<1>4. CASE UNCHANGED heapVars
  BY <1>4 DEF heapVars, HeapBlocks, HeapTypes, Heap!BlocksSound
<1> QED
  BY <1>1, <1>2, <1>3, <1>4 DEF Heap!Next

\* The blocks that sbrk returns are aligned, disjoint and inside the memory,
\* for every sequence of increments, odd ones, failures and memory given back
\* included (alt_sbrk.c).
THEOREM BlocksAreSound == FilesSpec => []Heap!BlocksSound
<1>1. FilesInit => HeapBlocks
  BY HeapStarts DEF FilesInit, HeapInv
<1>2. HeapBlocks /\ [FilesNext]_filesVars => HeapBlocks'
  <2> SUFFICES ASSUME HeapBlocks, [FilesNext]_filesVars PROVE HeapBlocks'
    OBVIOUS
  <2>1. [Heap!Next]_heapVars
    BY DEF FilesNext, filesVars, ThreadsStep, MountedStep, CacheStep, HeapStep, Stopped
  <2> QED
    BY <2>1, HeapBlocksKept
<1>3. HeapBlocks => Heap!BlocksSound
  BY DEF HeapBlocks
<1> QED
  BY <1>1, <1>2, <1>3, PTL DEF FilesSpec

\* Each step keeps the limit at the end of the heap.
LEMMA HeapKept ==
  ASSUME WholeWords, HeapInv, [Heap!Next]_heapVars
  PROVE  HeapInv'
<1>0. Limit \in Int /\ Incrs \subseteq Int /\ HeapTypes /\ heap_end >= 0
  BY MemoryAssumption DEF Heap!HeapAssumption, HeapInv, HeapBlocks
<1>b. HeapBlocks'
  BY HeapBlocksKept DEF HeapInv
<1>1. ASSUME NEW incr \in Incrs, Heap!Sbrk(incr) PROVE HeapInv'
  <2>1. incr \in Int /\ incr % 4 = 0 /\ heap_end \in Int /\ heap_end % 4 = 0
    BY <1>0 DEF WholeWords, HeapTypes, HeapInv
  <2>2. Heap!WordAligned(heap_end) = heap_end
    BY <2>1, Alignment
  <2>3. heap_end + incr \in Int /\ (heap_end + incr) % 4 = 0
    BY <2>1
  <2>4. ~overflow /\ LimitFollows /\ heap_end <= sp /\ sp \in Int /\ old_limit \in Int /\ stack_limit \in Int
    BY <1>0, <1>1 DEF Heap!Sbrk, Heap!ALT_SBRK, HeapInv, HeapTypes
  <2>5. CASE heap_end + incr > Limit
    <3>1. UNCHANGED <<heap_end, stack_limit, old_limit, got, overflow, sp>>
      BY <1>1, <2>2, <2>5 DEF Heap!Sbrk, Heap!ALT_SBRK, Heap!Beyond
    <3> QED
      BY <1>b, <2>1, <2>4, <3>1 DEF HeapInv, LimitFollows, Heap!InException
  <2>6. CASE ~(heap_end + incr > Limit)
    <3> DEFINE end == heap_end + incr
    <3>1. /\ heap_end' = end /\ sp' = sp
          /\ stack_limit' = IF stack_limit = heap_end THEN end ELSE stack_limit
          /\ old_limit' = IF Heap!InException /\ old_limit = heap_end THEN end ELSE old_limit
          /\ overflow' = \/ stack_limit = heap_end /\ ~Heap!InException /\ sp <= end
                         \/ Heap!InException /\ old_limit = heap_end /\ old_limit <= end
      BY <1>1, <2>2, <2>6 DEF Heap!Sbrk, Heap!ALT_SBRK, Heap!Beyond, Heap!Tracked
    <3>2. end >= 0
      BY <1>1 DEF Heap!Sbrk
    <3>3. end \in Int /\ end % 4 = 0
      BY <2>3
    <3> HIDE DEF end
    <3>4. CASE Heap!InException
      <4>1. old_limit = heap_end /\ old_limit' = end /\ old_limit >= 0
        BY <2>4, <3>1, <3>4 DEF LimitFollows, Heap!InException
      <4>2. Heap!InException' /\ LimitFollows'
        BY <3>1, <3>2, <4>1 DEF LimitFollows, Heap!InException
      <4>3. ~overflow' => end <= sp
        BY <2>1, <2>4, <3>1, <3>3, <3>4, <4>1
      <4> QED
        BY <1>b, <3>1, <3>3, <4>2, <4>3 DEF HeapInv
    <3>5. CASE ~Heap!InException
      <4>1. stack_limit = heap_end /\ stack_limit' = end /\ old_limit' = old_limit
        BY <2>4, <3>1, <3>5 DEF LimitFollows
      <4>2. ~Heap!InException' /\ LimitFollows'
        BY <3>1, <3>5, <4>1 DEF LimitFollows, Heap!InException
      <4>3. ~overflow' => end <= sp
        BY <2>4, <3>1, <3>3, <3>5, <4>1
      <4> QED
        BY <1>b, <3>1, <3>3, <4>2, <4>3 DEF HeapInv
    <3> QED
      BY <3>4, <3>5
  <2> QED
    BY <2>5, <2>6
<1>2. ASSUME NEW p \in 0 .. Limit + 4, Heap!MoveStack(p) PROVE HeapInv'
  <2>1. /\ UNCHANGED <<heap_end, stack_limit, old_limit>> /\ ~Heap!InException /\ ~overflow
        /\ sp' = p /\ (~overflow' => ~(p < stack_limit))
    BY <1>2 DEF Heap!MoveStack
  <2>2. stack_limit = heap_end /\ stack_limit \in Int /\ p \in Int
    BY <1>0, <2>1 DEF HeapInv, LimitFollows, HeapTypes
  <2>3. ~overflow' => heap_end <= p
    BY <2>1, <2>2
  <2> QED
    BY <1>b, <2>1, <2>2, <2>3 DEF HeapInv, LimitFollows, Heap!InException
<1>3. CASE Heap!Enter
  BY <1>0, <1>b, <1>3 DEF Heap!Enter, HeapInv, LimitFollows, Heap!InException
<1>4. CASE Heap!Leave
  BY <1>0, <1>b, <1>4 DEF Heap!Leave, HeapInv, LimitFollows, Heap!InException
<1>5. CASE UNCHANGED heapVars
  BY <1>b, <1>5 DEF heapVars, HeapInv, LimitFollows, Heap!InException
<1> QED
  BY <1>1, <1>2, <1>3, <1>4, <1>5 DEF Heap!Next

\* When sbrk is called for whole words the heap is sound: besides its blocks,
\* the limit of the program's stack follows the end of the heap, through
\* exceptions too, and the stack is above every block until an overflow is
\* reported (ALT_SBRK, the adjustment of the stack limit).
THEOREM HeapIsSound ==
  ASSUME WholeWords
  PROVE  FilesSpec => []HeapSound
<1>1. FilesInit => HeapInv
  BY HeapStarts DEF FilesInit
<1>2. HeapInv /\ [FilesNext]_filesVars => HeapInv'
  <2> SUFFICES ASSUME HeapInv, [FilesNext]_filesVars PROVE HeapInv'
    OBVIOUS
  <2>1. [Heap!Next]_heapVars
    BY DEF FilesNext, filesVars, ThreadsStep, MountedStep, CacheStep, HeapStep, Stopped
  <2> QED
    BY <2>1, HeapKept
<1>3. HeapInv => HeapSound
  <2> SUFFICES ASSUME HeapInv, ~overflow, NEW b \in got PROVE b[2] <= sp
    BY DEF HeapInv, HeapBlocks, HeapSound, Heap!HeapSound, Heap!StackAboveHeap
  <2>1. b[2] \in Int /\ b[2] <= heap_end /\ heap_end <= sp /\ heap_end \in Int /\ sp \in Int
    BY DEF HeapInv, HeapBlocks, HeapTypes, Heap!BlocksSound
  <2> QED
    BY <2>1
<1> QED
  BY <1>1, <1>2, <1>3, PTL DEF FilesSpec
=============================================================================
