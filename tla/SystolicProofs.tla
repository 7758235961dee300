--------------------------- MODULE SystolicProofs ---------------------------
(***************************************************************************)
(* Proofs about the systolic core, for every size of the array, every      *)
(* weight and input matrix, every width of the accumulators and every      *)
(* pattern of stalls on both sides.                                        *)
(*                                                                         *)
(* The argument: the skewed array is one elastic pipeline.  Its stages are *)
(* the diagonals d = i + j of the array, continued through the skew        *)
(* registers in front of it and the de-skew registers behind it.  All      *)
(* registers of a stage hold a token or none of them does, and they move   *)
(* together.  F[d] is the number of tokens that have entered stage d.      *)
(***************************************************************************)
EXTENDS SystolicBench, WellFoundedInduction, FiniteSetTheorems, TLAPS

End == 2 * N - 2
Stage == 0 .. End
Counts == [0 .. End + 1 -> Nat]

\* There is a token in stage d.
Full(F, d) == F[d] = F[d + 1] + 1

Elastic(F) ==
  F \in Counts /\ \A d \in Stage : F[d] = F[d + 1] \/ F[d] = F[d + 1] + 1

\* A token stands before stage d: v is the valid bit of the input.
In(F, v, d) == IF d = 0 THEN v ELSE Full(F, d - 1)

\* Stage d can take one: there is a free stage from d on, or the row leaves.
Room(F, ready, d) == ready \/ ~Full(F, End) \/ \E m \in d .. End : ~Full(F, m)

\* A token enters stage d at this edge.
Moves(F, v, ready, d) == In(F, v, d) /\ Room(F, ready, d)

\* The counts after the edge.
After(F, v, ready) ==
  [d \in 0 .. End + 1 |-> IF Moves(F, v, ready, d) THEN F[d] + 1 ELSE F[d]]

----------------------------------------------------------------------------
(* The state of the core, in terms of the counts.                          *)

Tokens == [v : BOOLEAN, lw : BOOLEAN, x : Int]
Results == [v : BOOLEAN, y : Int]
Elements == [shadow : Int, active : Int, x : Int, vx : BOOLEAN, ws : BOOLEAN,
             y : Int, vy : BOOLEAN]

CoreTyped ==
  /\ \A i \in Idx : \A s \in 0 .. i - 1 : skew[i][s] \in Tokens
  /\ pe \in [Idx \X Idx -> Elements]
  /\ \A j \in Idx : \A k \in 0 .. DELAY(j) - 1 : deskew[j][k] \in Results

\* The sum over the first n rows of column j, as the accumulators hold it.
Partial(b, k, j, n) == SignedAcc(Dot(b, k, j)[n])

\* Activations in flight: the token in stage d belongs to row F[d + 1].
SkewRows(F, b) ==
  \A i \in Idx : \A s \in 0 .. i - 1 :
    /\ skew[i][s].v <=> Full(F, s)
    /\ Full(F, s) => ~skew[i][s].lw /\ skew[i][s].x = Inputs[b][F[s + 1]][i]
ArrayRows(F, b) ==
  \A i, j \in Idx :
    /\ pe[<<i, j>>].active = Weights[b][<<i, j>>]
    /\ pe[<<i, j>>].vy <=> Full(F, i + j)
    /\ Full(F, i + j) => pe[<<i, j>>].y = Partial(b, F[i + j + 1], j, i + 1)
    /\ j # N - 1 => /\ pe[<<i, j>>].vx <=> Full(F, i + j)
                    /\ Full(F, i + j) => /\ ~pe[<<i, j>>].ws
                                         /\ pe[<<i, j>>].x = Inputs[b][F[i + j + 1]][i]
DeskewRows(F, b) ==
  \A j \in Idx : \A k \in 0 .. DELAY(j) - 1 :
    /\ deskew[j][k].v <=> Full(F, N + j + k)
    /\ Full(F, N + j + k) => deskew[j][k].y = Partial(b, F[N + j + k + 1], j, N)

RowsInFlight(F, b) == SkewRows(F, b) /\ ArrayRows(F, b) /\ DeskewRows(F, b)

\* Weights in flight: token n of a row carries column N - 1 - n, and every
\* element passes on the weight it had.
SkewWeights(F, b) ==
  \A i \in Idx : \A s \in 0 .. i - 1 :
    /\ skew[i][s].v <=> Full(F, s)
    /\ Full(F, s) => skew[i][s].lw /\ skew[i][s].x = Weights[b][<<i, N - 1 - F[s + 1]>>]
ArrayWeights(F, b) ==
  \A i, j \in Idx :
    /\ ~pe[<<i, j>>].vy
    /\ F[i + j] >= j + 1 => pe[<<i, j>>].shadow = Weights[b][<<i, N - F[i + j] + j>>]
    /\ j # N - 1 =>
         /\ pe[<<i, j>>].vx <=> Full(F, i + j)
         /\ Full(F, i + j) => pe[<<i, j>>].ws
         /\ Full(F, i + j) /\ F[i + j] >= j + 2 =>
              pe[<<i, j>>].x = Weights[b][<<i, N - F[i + j] + j + 1>>]
DeskewEmpty == \A j \in Idx : \A k \in 0 .. DELAY(j) - 1 : ~deskew[j][k].v

WeightsInFlight(F, b) == SkewWeights(F, b) /\ ArrayWeights(F, b) /\ DeskewEmpty

----------------------------------------------------------------------------
(* The inductive invariant.                                                *)

BenchTyped ==
  /\ job \in Jobs /\ phase \in {"weights", "rows"}
  /\ {gap, sent, accepted, got} \subseteq Nat

\* Rows of the earlier jobs, all collected.
Earlier == accepted - sent

LoadsWeights(F, b) ==
  /\ b = job /\ Elastic(F) /\ WeightsInFlight(F, b)
  /\ F[0] = sent /\ sent <= N /\ got = accepted
  /\ gap <= LATCH_GAP /\ (gap > 0 => sent = N)
  /\ sent = N => \A d \in 0 .. End + 1 : d <= gap => F[d] = N

StreamsRows(F, b) ==
  /\ b = job /\ Elastic(F) /\ RowsInFlight(F, b)
  /\ F[0] = sent /\ sent <= Rows(b) /\ F[End + 1] = got - Earlier /\ gap = 0

IInv ==
  /\ CoreTyped /\ BenchTyped
  /\ phase = "weights" => \E F \in Counts, b \in Jobs : LoadsWeights(F, b)
  /\ phase = "rows" => \E F \in Counts, b \in Jobs : StreamsRows(F, b)

----------------------------------------------------------------------------
(* Arithmetic and induction.                                               *)

NatLess == {p \in Nat \X Nat : p[1] < p[2]}

\* The order of the natural numbers is well founded.
LEMMA NatLessFounded == IsWellFoundedOn(NatLess, Nat)
  BY NatLessThanWellFounded DEF OpToRel, NatLess

\* A non-empty set of natural numbers has a least element.
LEMMA LeastExists ==
  ASSUME NEW T \in SUBSET Nat, T # {}
  PROVE  \E x \in T : \A y \in T : x <= y
<1>1. PICK x \in T : \A y \in T : ~(<<y, x>> \in NatLess)
  BY NatLessFounded, WFMin
<1>2. ASSUME NEW y \in T PROVE x <= y
  <2>1. x \in Nat /\ y \in Nat /\ ~(<<y, x>> \in NatLess)
    BY <1>1
  <2>2. y < x => <<y, x>> \in NatLess
    BY <2>1 DEF NatLess
  <2> QED
    BY <2>1, <2>2
<1> QED
  BY <1>2

\* Induction over the natural numbers, for a set in the place of a predicate.
LEMMA SetInduction ==
  ASSUME NEW S, 0 \in S, \A n \in Nat : n \in S => n + 1 \in S
  PROVE  Nat \subseteq S
<1> DEFINE T == {n \in Nat : n \notin S}
<1>1. SUFFICES ASSUME T # {} PROVE FALSE
  OBVIOUS
<1>2. PICK x \in T : \A y \in T : x <= y
  BY <1>1, LeastExists
<1>3. x \in Nat /\ x \notin S /\ x # 0
  OBVIOUS
<1>4. x - 1 \in Nat /\ x - 1 \notin T
  BY <1>2, <1>3
<1>5. x - 1 \in S /\ (x - 1) + 1 = x
  BY <1>3, <1>4
<1> QED
  BY <1>3, <1>4, <1>5

\* Among some elements of the array there is one that is furthest to the
\* bottom right.
LEMMA LastDiagonal ==
  ASSUME NEW B \in SUBSET (Idx \X Idx), B # {}
  PROVE  \E i, j \in Idx : /\ <<i, j>> \in B
                           /\ \A k, l \in Idx : <<k, l>> \in B => k + l <= i + j
<1> USE NAssumption
<1> DEFINE T == {n \in Nat : \E k, l \in Idx : <<k, l>> \in B /\ n = End - (k + l)}
<1>1. \A k, l \in Idx : End - (k + l) \in Nat /\ k + l \in Nat /\ End \in Nat
  BY DEF Idx, End
<1>2. PICK k0 \in Idx, l0 \in Idx : <<k0, l0>> \in B
  OBVIOUS
<1>3. End - (k0 + l0) \in T
  BY <1>1, <1>2
<1>4. PICK x \in T : \A y \in T : x <= y
  BY <1>3, LeastExists
<1>5. PICK i \in Idx, j \in Idx : <<i, j>> \in B /\ x = End - (i + j)
  BY <1>4
<1>6. ASSUME NEW k \in Idx, NEW l \in Idx, <<k, l>> \in B PROVE k + l <= i + j
  <2>1. End - (k + l) \in T
    BY <1>1, <1>6
  <2>2. End - (i + j) <= End - (k + l)
    BY <2>1, <1>4, <1>5
  <2>3. k + l \in Nat /\ i + j \in Nat /\ End \in Nat
    BY <1>1
  <2> QED
    BY <2>2, <2>3
<1> QED
  BY <1>5, <1>6

\* Division with remainder, for a positive divisor.
LEMMA DivMod ==
  ASSUME NEW u \in Int, NEW m \in Nat, m > 0
  PROVE  /\ u % m \in 0 .. m - 1 /\ u \div m \in Int
         /\ u = m * (u \div m) + (u % m)
  OBVIOUS

\* The remainder is determined by that equation.
LEMMA ModUnique ==
  ASSUME NEW u \in Int, NEW m \in Nat, m > 0,
         NEW q \in Int, NEW r \in 0 .. m - 1, u = m * q + r
  PROVE  u % m = r
  OBVIOUS

\* A multiple of the divisor does not change the remainder.
LEMMA ModShift ==
  ASSUME NEW u \in Int, NEW m \in Nat, m > 0, NEW q \in Int
  PROVE  (u - m * q) % m = u % m
<1>1. u % m \in 0 .. m - 1 /\ u \div m \in Int /\ u = m * (u \div m) + (u % m)
  BY DivMod
<1> DEFINE d == u \div m
<1> DEFINE r == u % m
<1>2. d \in Int /\ r \in 0 .. m - 1 /\ u = m * d + r
  BY <1>1
<1> HIDE DEF d, r
<1>3. m * (d - q) = m * d - m * q
  BY <1>2
<1>4. u - m * q = m * (d - q) + r /\ d - q \in Int /\ u - m * q \in Int
  BY <1>2, <1>3
<1>5. (u - m * q) % m = r
  BY <1>4, <1>2, ModUnique
<1> QED
  BY <1>5 DEF r

\* The accumulator keeps sums modulo its range: wrapping early is harmless.
LEMMA WrapAdd ==
  ASSUME NEW a \in Int, NEW b \in Int
  PROVE  /\ SignedAcc(a) \in Int
         /\ SignedAcc(SignedAcc(a) + b) = SignedAcc(a + b)
<1> DEFINE h == ACC \div 2
<1> DEFINE u == a + h
<1> DEFINE q == u \div ACC
<1>1. h \in Int /\ ACC \in Nat /\ ACC > 0
  BY AccAssumption
<1>2. u \in Int /\ q \in Int
  BY <1>1, DivMod
<1>3. SignedAcc(a) = (u % ACC) - h /\ u % ACC = u - ACC * q /\ u % ACC \in Int
  BY <1>1, <1>2, DivMod DEF SignedAcc
<1>4. SignedAcc(SignedAcc(a) + b) = (((u % ACC) - h + b + h) % ACC) - h
  BY <1>3 DEF SignedAcc
<1>5. SignedAcc(a + b) = ((a + b + h) % ACC) - h
  BY DEF SignedAcc
<1> HIDE DEF h, q
<1>6. (u % ACC) - h + b + h = (a + b + h) - ACC * q
  <2>1. ACC * q \in Int
    BY <1>1, <1>2
  <2> QED
    BY <1>1, <1>2, <1>3, <2>1
<1>7. a + b + h \in Int
  BY <1>1
<1>8. ((a + b + h) - ACC * q) % ACC = (a + b + h) % ACC
  BY <1>1, <1>2, <1>7, ModShift
<1>9. SignedAcc(a) \in Int
  BY <1>1, <1>3
<1> QED
  BY <1>4, <1>5, <1>6, <1>8, <1>9

----------------------------------------------------------------------------
(* The elastic pipeline by itself.                                         *)

\* The stages and the counts at them.
LEMMA StageFacts ==
  ASSUME NEW F, Elastic(F)
  PROVE  /\ End \in Nat /\ N \in Nat /\ N > 0 /\ End = 2 * N - 2
         /\ \A d \in 0 .. End + 1 : F[d] \in Nat
         /\ \A d \in Stage : /\ d \in 0 .. End + 1 /\ d + 1 \in 0 .. End + 1
                             /\ F[d] = F[d + 1] \/ F[d] = F[d + 1] + 1
  BY NAssumption DEF Elastic, Counts, End, Stage

\* Counts fall along the pipeline.
LEMMA Falling ==
  ASSUME NEW F, Elastic(F), NEW a \in 0 .. End + 1, NEW b \in 0 .. End + 1, a <= b
  PROVE  F[a] >= F[b]
<1> DEFINE S == {n \in Nat : a + n <= End + 1 => F[a] >= F[a + n]}
<1>0. End \in Nat /\ a \in Nat /\ \A d \in 0 .. End + 1 : F[d] \in Nat
  BY StageFacts
<1>1. 0 \in S
  BY <1>0
<1>2. ASSUME NEW n \in Nat, n \in S PROVE n + 1 \in S
  <2>1. SUFFICES ASSUME a + (n + 1) <= End + 1 PROVE F[a] >= F[a + (n + 1)]
    BY <1>2
  <2>2. a + n \in 0 .. End + 1 /\ a + n \in Stage /\ (a + n) + 1 = a + (n + 1)
        /\ a + (n + 1) \in 0 .. End + 1
    BY <1>0, <2>1 DEF Stage
  <2>3. F[a] >= F[a + n]
    BY <1>2, <2>1, <1>0
  <2>4. F[a + n] = F[(a + n) + 1] \/ F[a + n] = F[(a + n) + 1] + 1
    BY <2>2, StageFacts
  <2>5. F[a] \in Nat /\ F[a + n] \in Nat /\ F[a + (n + 1)] \in Nat
    BY <2>2, <1>0
  <2> QED
    BY <2>2, <2>3, <2>4, <2>5
<1>3. Nat \subseteq S
  BY <1>1, <1>2, SetInduction
<1>4. b - a \in Nat /\ a + (b - a) = b /\ b <= End + 1
  BY <1>0
<1>5. b - a \in S
  BY <1>3, <1>4
<1> QED
  BY <1>4, <1>5

\* The tokens between two stages are counted by the difference.
LEMMA TokensBetween ==
  ASSUME NEW F, Elastic(F), NEW a \in 0 .. End + 1, NEW n \in Nat, a + n <= End + 1
  PROVE  Cardinality({k \in 0 .. n - 1 : Full(F, a + k)}) = F[a] - F[a + n]
<1> DEFINE C(m) == {k \in 0 .. m - 1 : Full(F, a + k)}
<1> DEFINE S == {m \in Nat : a + m <= End + 1 =>
                   IsFiniteSet(C(m)) /\ Cardinality(C(m)) = F[a] - F[a + m]}
<1>0. End \in Nat /\ a \in Nat /\ \A d \in 0 .. End + 1 : F[d] \in Nat
  BY StageFacts
<1>1. 0 \in S
  <2>1. C(0) = {}
    OBVIOUS
  <2>2. IsFiniteSet(C(0)) /\ Cardinality(C(0)) = 0
    BY <2>1, FS_EmptySet
  <2>3. a + 0 = a /\ F[a] \in Nat
    BY <1>0
  <2> QED
    BY <2>2, <2>3
<1>2. ASSUME NEW m \in Nat, m \in S PROVE m + 1 \in S
  <2>1. SUFFICES ASSUME a + (m + 1) <= End + 1
                 PROVE  /\ IsFiniteSet(C(m + 1))
                        /\ Cardinality(C(m + 1)) = F[a] - F[a + (m + 1)]
    BY <1>2
  <2>2. a + m \in 0 .. End + 1 /\ a + m \in Stage /\ (a + m) + 1 = a + (m + 1)
        /\ a + (m + 1) \in 0 .. End + 1
    BY <1>0, <2>1 DEF Stage
  <2>3. IsFiniteSet(C(m)) /\ Cardinality(C(m)) = F[a] - F[a + m]
    BY <1>2, <2>1, <1>0
  <2>4. F[a + m] = F[(a + m) + 1] \/ F[a + m] = F[(a + m) + 1] + 1
    BY <2>2, StageFacts
  <2>5. F[a] \in Nat /\ F[a + m] \in Nat /\ F[a + (m + 1)] \in Nat
    BY <2>2, <1>0
  <2>6. CASE Full(F, a + m)
    <3>1. C(m + 1) = C(m) \cup {m} /\ m \notin C(m)
      BY <2>6
    <3>2. IsFiniteSet(C(m + 1)) /\ Cardinality(C(m + 1)) = Cardinality(C(m)) + 1
      BY <3>1, <2>3, FS_AddElement
    <3>3. F[a + m] = F[a + (m + 1)] + 1
      BY <2>6, <2>2 DEF Full
    <3> HIDE DEF C
    <3> QED
      BY <3>2, <3>3, <2>3, <2>5
  <2>7. CASE ~Full(F, a + m)
    <3>1. C(m + 1) = C(m)
      BY <2>7
    <3>3. F[a + m] = F[a + (m + 1)]
      BY <2>7, <2>2, <2>4 DEF Full
    <3> HIDE DEF C
    <3> QED
      BY <3>1, <3>3, <2>3, <2>5
  <2> QED
    BY <2>6, <2>7
<1>3. Nat \subseteq S
  BY <1>1, <1>2, SetInduction
<1> QED
  BY <1>3

\* Room at a stage comes from the stage itself or from the ones behind it.
LEMMA RoomNext ==
  ASSUME NEW F, NEW ready \in BOOLEAN, NEW d \in Stage
  PROVE  Room(F, ready, d) <=> ~Full(F, d) \/ Room(F, ready, d + 1)
<1>1. d .. End = {d} \cup (d + 1 .. End)
  BY NAssumption DEF Stage, End
<1> QED
  BY <1>1 DEF Room

\* Behind the last stage there is room when the row is taken.
LEMMA RoomEnd ==
  ASSUME NEW F, NEW ready \in BOOLEAN
  PROVE  Room(F, ready, End + 1) <=> ready \/ ~Full(F, End)
<1>1. End + 1 .. End = {}
  BY NAssumption DEF End
<1> QED
  BY <1>1 DEF Room

\* Before stage e there is room at stage d if a stage between is free.
LEMMA RoomBetween ==
  ASSUME NEW F, NEW ready \in BOOLEAN, NEW d \in Nat, NEW e \in Nat, d <= e, e <= End + 1
  PROVE  Room(F, ready, d) <=> (\E m \in d .. e - 1 : ~Full(F, m)) \/ Room(F, ready, e)
<1>1. d .. End = (d .. e - 1) \cup (e .. End)
  BY NAssumption DEF End
<1> QED
  BY <1>1 DEF Room

\* One edge of the pipeline: what stands in a stage afterwards and which
\* token it is.
LEMMA EdgeOfPipeline ==
  ASSUME NEW F, Elastic(F), NEW v \in BOOLEAN, NEW ready \in BOOLEAN,
         NEW G, G = After(F, v, ready)
  PROVE  /\ Elastic(G)
         /\ G[0] = IF Moves(F, v, ready, 0) THEN F[0] + 1 ELSE F[0]
         /\ G[End + 1] = IF ready /\ Full(F, End) THEN F[End + 1] + 1 ELSE F[End + 1]
         /\ \A d \in Stage :
              /\ Full(G, d) <=> \/ Moves(F, v, ready, d)
                                \/ Full(F, d) /\ ~Moves(F, v, ready, d + 1)
              /\ Moves(F, v, ready, d) => G[d + 1] = F[d]
              /\ ~Moves(F, v, ready, d + 1) => G[d + 1] = F[d + 1]
<1>0. /\ End \in Nat
      /\ \A d \in 0 .. End + 1 : F[d] \in Nat
      /\ \A d \in Stage : /\ d \in 0 .. End + 1 /\ d + 1 \in 0 .. End + 1 /\ d \in Nat
                          /\ F[d] = F[d + 1] \/ F[d] = F[d + 1] + 1
  BY StageFacts DEF Stage
<1>1. \A d \in 0 .. End + 1 : G[d] = IF Moves(F, v, ready, d) THEN F[d] + 1 ELSE F[d]
  BY DEF After
<1>2. G \in Counts
  <2>1. \A d \in 0 .. End + 1 : (IF Moves(F, v, ready, d) THEN F[d] + 1 ELSE F[d]) \in Nat
    BY <1>0
  <2> QED
    BY <2>1 DEF After, Counts
<1>3. \A d \in Stage : Moves(F, v, ready, d + 1) <=> Full(F, d) /\ Room(F, ready, d + 1)
  <2>1. \A d \in Stage : d + 1 # 0 /\ (d + 1) - 1 = d
    BY <1>0
  <2> QED
    BY <2>1 DEF Moves, In
<1>4. ASSUME NEW d \in Stage
      PROVE  /\ G[d] = G[d + 1] \/ G[d] = G[d + 1] + 1
             /\ Full(G, d) <=> \/ Moves(F, v, ready, d)
                               \/ Full(F, d) /\ ~Moves(F, v, ready, d + 1)
             /\ Moves(F, v, ready, d) => G[d + 1] = F[d]
             /\ ~Moves(F, v, ready, d + 1) => G[d + 1] = F[d + 1]
  <2>1. /\ F[d] \in Nat /\ F[d + 1] \in Nat
        /\ F[d] = F[d + 1] \/ F[d] = F[d + 1] + 1
    BY <1>0
  <2>2. /\ G[d] = IF Moves(F, v, ready, d) THEN F[d] + 1 ELSE F[d]
        /\ G[d + 1] = IF Moves(F, v, ready, d + 1) THEN F[d + 1] + 1 ELSE F[d + 1]
    BY <1>0, <1>1
  <2>3. Moves(F, v, ready, d) => ~Full(F, d) \/ Room(F, ready, d + 1)
    BY RoomNext DEF Moves
  <2>4. Moves(F, v, ready, d + 1) <=> Full(F, d) /\ Room(F, ready, d + 1)
    BY <1>3
  <2>5. Full(F, d) <=> F[d] = F[d + 1] + 1
    BY DEF Full
  <2>6. Full(G, d) <=> G[d] = G[d + 1] + 1
    BY DEF Full
  <2> QED
    BY <2>1, <2>2, <2>3, <2>4, <2>5, <2>6
<1>5. Elastic(G)
  BY <1>2, <1>4 DEF Elastic
<1>6. 0 \in 0 .. End + 1 /\ End + 1 \in 0 .. End + 1 /\ End \in Stage
  BY <1>0 DEF Stage
<1>7. Moves(F, v, ready, End + 1) <=> Full(F, End) /\ ready
  BY <1>3, <1>6, RoomEnd
<1> QED
  BY <1>1, <1>4, <1>5, <1>6, <1>7

----------------------------------------------------------------------------
(* The two recursive functions: the exact product and the ready wires.     *)

Term(b, k, j, n) == Inputs[b][k][n - 1] * Weights[b][<<n - 1, j>>]

DotEq(b, k, j, s) ==
  s = [n \in 0 .. N |-> IF n = 0 THEN 0
                        ELSE s[n - 1] + Inputs[b][k][n - 1] * Weights[b][<<n - 1, j>>]]

\* The exact sum, one product after the other.
LEMMA DotSum ==
  ASSUME NEW b \in Jobs, NEW k \in 0 .. Rows(b) - 1, NEW j \in Idx
  PROVE  /\ Dot(b, k, j)[0] = 0
         /\ \A i \in Idx : /\ Dot(b, k, j)[i] \in Int
                           /\ Inputs[b][k][i] \in Int /\ Weights[b][<<i, j>>] \in Int
                           /\ Dot(b, k, j)[i + 1] =
                                Dot(b, k, j)[i] + Inputs[b][k][i] * Weights[b][<<i, j>>]
<1>0. N \in Nat /\ N > 0
  BY NAssumption
<1>1. \A i \in Idx : Inputs[b][k][i] \in Int /\ Weights[b][<<i, j>>] \in Int
  BY BenchAssumption
<1> DEFINE T(n) == Term(b, k, j, n)
<1>2. \A n \in 1 .. N : T(n) \in Int
  <2>1. ASSUME NEW n \in 1 .. N PROVE T(n) \in Int
    <3>1. n - 1 \in Idx
      BY <1>0 DEF Idx
    <3>2. Inputs[b][k][n - 1] \in Int /\ Weights[b][<<n - 1, j>>] \in Int
      BY <3>1, <1>1
    <3> QED
      BY <3>2 DEF Term
  <2> QED
    BY <2>1
<1> HIDE DEF T
<1> DEFINE Sums(s, m) == /\ s \in [0 .. m -> Int] /\ s[0] = 0
                         /\ \A n \in 1 .. m : s[n] = s[n - 1] + T(n)
<1> DEFINE S == {m \in Nat : m <= N => \E s : Sums(s, m)}
<1>3. 0 \in S
  <2> DEFINE z == [n \in 0 .. 0 |-> 0]
  <2>1. z \in [0 .. 0 -> Int] /\ z[0] = 0
    OBVIOUS
  <2>2. 1 .. 0 = {}
    OBVIOUS
  <2>3. Sums(z, 0)
    BY <2>1, <2>2
  <2> QED
    BY <2>3
<1>4. ASSUME NEW m \in Nat, m \in S PROVE m + 1 \in S
  <2>1. SUFFICES ASSUME m + 1 <= N PROVE \E s : Sums(s, m + 1)
    <3> HIDE DEF Sums
    <3>1. m + 1 \in Nat
      OBVIOUS
    <3> QED
      BY <3>1
  <2>2. PICK s : Sums(s, m)
    BY <1>0, <1>4, <2>1
  <2> DEFINE t == [n \in 0 .. m + 1 |-> IF n = m + 1 THEN s[m] + T(m + 1) ELSE s[n]]
  <2>3. T(m + 1) \in Int /\ s[m] \in Int /\ \A n \in 0 .. m : s[n] \in Int
    BY <1>0, <1>2, <2>1, <2>2
  <2>4. t \in [0 .. m + 1 -> Int]
    BY <2>3
  <2>5. t[0] = 0
    BY <2>2
  <2>6. ASSUME NEW n \in 1 .. m + 1 PROVE t[n] = t[n - 1] + T(n)
    <3>1. CASE n = m + 1
      <4>1. t[n] = s[m] + T(m + 1) /\ t[n - 1] = s[m]
        BY <3>1
      <4> QED
        BY <4>1, <3>1
    <3>2. CASE n # m + 1
      <4>1. n \in 1 .. m /\ t[n] = s[n] /\ t[n - 1] = s[n - 1]
        BY <3>2
      <4> QED
        BY <4>1, <2>2
    <3> QED
      BY <3>1, <3>2
  <2> QED
    BY <2>4, <2>5, <2>6
<1>5. PICK s : Sums(s, N)
  <2>1. Nat \subseteq S
    <3> HIDE DEF S
    <3> QED
      BY <1>3, <1>4, SetInduction
  <2>2. N \in S
    BY <2>1, <1>0
  <2> HIDE DEF Sums
  <2> QED
    BY <2>2, <1>0
<1>6. DotEq(b, k, j, s)
  <2>1. s = [n \in 0 .. N |-> s[n]]
    BY <1>5
  <2>2. ASSUME NEW n \in 0 .. N
        PROVE  s[n] = IF n = 0 THEN 0
                      ELSE s[n - 1] + Inputs[b][k][n - 1] * Weights[b][<<n - 1, j>>]
    <3>1. n # 0 => n \in 1 .. N
      BY <1>0
    <3> QED
      BY <3>1, <1>5 DEF T, Term
  <2> QED
    BY <2>1, <2>2 DEF DotEq
<1>7. Dot(b, k, j) = CHOOSE t : DotEq(b, k, j, t)
  BY DEF Dot, DotEq
<1>8. DotEq(b, k, j, Dot(b, k, j))
  BY <1>6, <1>7
<1> DEFINE D == Dot(b, k, j)
<1>9. /\ D[0] = 0
      /\ \A n \in 1 .. N : D[n] = D[n - 1] + T(n)
  <2>1. D = [n \in 0 .. N |-> IF n = 0 THEN 0 ELSE D[n - 1] + T(n)]
    BY <1>8 DEF DotEq, T, Term
  <2> HIDE DEF D
  <2> QED
    BY <2>1, <1>0
<1> HIDE DEF D
<1> DEFINE Q == {n \in Nat : n <= N => D[n] \in Int}
<1>10. 0 \in Q
  BY <1>9
<1>11. ASSUME NEW n \in Nat, n \in Q PROVE n + 1 \in Q
  <2>1. SUFFICES ASSUME n + 1 <= N PROVE D[n + 1] \in Int
    OBVIOUS
  <2>2. n + 1 \in 1 .. N /\ (n + 1) - 1 = n /\ D[n] \in Int
    BY <1>0, <1>11, <2>1
  <2>3. D[n + 1] = D[n] + T(n + 1) /\ T(n + 1) \in Int
    BY <2>2, <1>9, <1>2
  <2> QED
    BY <2>2, <2>3
<1>12. Nat \subseteq Q
  BY <1>10, <1>11, SetInduction
<1>13. ASSUME NEW i \in Idx
       PROVE  D[i] \in Int /\ D[i + 1] = D[i] + Inputs[b][k][i] * Weights[b][<<i, j>>]
  <2>1. i \in Nat /\ i <= N /\ i + 1 \in 1 .. N /\ (i + 1) - 1 = i
    BY <1>0 DEF Idx
  <2>2. D[i] \in Int
    BY <2>1, <1>12
  <2>3. D[i + 1] = D[i] + T(i + 1)
    BY <2>1, <1>9
  <2>4. T(i + 1) = Inputs[b][k][i] * Weights[b][<<i, j>>]
    BY <2>1 DEF T, Term
  <2> QED
    BY <2>2, <2>3, <2>4
<1> QED
  BY <1>1, <1>9, <1>13 DEF D

\* An accumulator that adds the next product holds the next partial sum.
LEMMA PartialStep ==
  ASSUME NEW b \in Jobs, NEW k \in 0 .. Rows(b) - 1, NEW i \in Idx, NEW j \in Idx
  PROVE  /\ SignedAcc(0 + Inputs[b][k][0] * Weights[b][<<0, j>>]) = Partial(b, k, j, 1)
         /\ SignedAcc(Partial(b, k, j, i) + Inputs[b][k][i] * Weights[b][<<i, j>>])
              = Partial(b, k, j, i + 1)
         /\ Partial(b, k, j, i + 1) \in Int
<1> DEFINE D == Dot(b, k, j)
<1> DEFINE P(n) == Inputs[b][k][n] * Weights[b][<<n, j>>]
<1>1. D[0] = 0 /\ \A n \in Idx : D[n] \in Int /\ P(n) \in Int /\ D[n + 1] = D[n] + P(n)
  <2>1. D[0] = 0 /\ \A n \in Idx : /\ D[n] \in Int
                    /\ Inputs[b][k][n] \in Int /\ Weights[b][<<n, j>>] \in Int
                    /\ D[n + 1] = D[n] + Inputs[b][k][n] * Weights[b][<<n, j>>]
    BY DotSum
  <2>2. \A x, y \in Int : x * y \in Int
    OBVIOUS
  <2> HIDE DEF D
  <2> QED
    BY <2>1, <2>2
<1>2. 0 \in Idx /\ 0 + 1 = 1
  BY NAssumption DEF Idx
<1>3. \A n : Partial(b, k, j, n) = SignedAcc(D[n])
  BY DEF Partial
<1> HIDE DEF D, P
<1>4. SignedAcc(0 + P(0)) = Partial(b, k, j, 1)
  <2>1. D[1] = 0 + P(0)
    BY <1>1, <1>2
  <2> QED
    BY <2>1, <1>3
<1>5. SignedAcc(Partial(b, k, j, i) + P(i)) = Partial(b, k, j, i + 1)
  <2>1. SignedAcc(SignedAcc(D[i]) + P(i)) = SignedAcc(D[i] + P(i))
    BY <1>1, WrapAdd
  <2> QED
    BY <2>1, <1>1, <1>3
<1>6. Partial(b, k, j, i + 1) \in Int
  <2>1. D[i + 1] \in Int
    BY <1>1
  <2> QED
    BY <2>1, <1>3, WrapAdd
<1> QED
  BY <1>4, <1>5, <1>6 DEF P

\* The ready wires that come back to element (i, j), and its two cases.
RightReady(r, i, j) == IF j = N - 1 THEN right_edge_ready ELSE r[<<i, j + 1>>].x
DownReady(r, i, j, rd) == IF i = N - 1 THEN deskew_ready(j, 0, rd) ELSE r[<<i + 1, j>>].y
Calculates(in, rd, r, i, j) ==
  fire_calc(pe[<<i, j>>], x_wire(i, j, in), y_wire(i, j), RightReady(r, i, j), DownReady(r, i, j, rd))
Loads(in, r, i, j) == fire_load(pe[<<i, j>>], x_wire(i, j, in), RightReady(r, i, j))

Wire(in, rd, r, c) ==
  LET i == c[1]  j == c[2]
      rx == IF j = N - 1 THEN right_edge_ready ELSE r[<<i, j + 1>>].x
      ry == IF i = N - 1 THEN deskew_ready(j, 0, rd) ELSE r[<<i + 1, j>>].y
      calc == fire_calc(pe[c], x_wire(i, j, in), y_wire(i, j), rx, ry)
  IN  [x |-> calc \/ fire_load(pe[c], x_wire(i, j, in), rx), y |-> calc]

Wired(in, rd, r) == r = [c \in Idx \X Idx |-> Wire(in, rd, r, c)]

\* The wires of one element.
LEMMA WireAt ==
  ASSUME NEW in, NEW rd, NEW r, NEW i \in Idx, NEW j \in Idx
  PROVE  Wire(in, rd, r, <<i, j>>) = [x |-> Calculates(in, rd, r, i, j) \/ Loads(in, r, i, j),
                                      y |-> Calculates(in, rd, r, i, j)]
  BY DEF Wire, Calculates, Loads, RightReady, DownReady

\* The wires have only one solution: there is no combinational loop.
LEMMA WiresUnique ==
  ASSUME NEW in, NEW rd, NEW r, NEW q, Wired(in, rd, r), Wired(in, rd, q)
  PROVE  r = q
<1> DEFINE B == {c \in Idx \X Idx : r[c] # q[c]}
<1>0. \A i, j \in Idx : /\ r[<<i, j>>] = Wire(in, rd, r, <<i, j>>)
                        /\ q[<<i, j>>] = Wire(in, rd, q, <<i, j>>)
  BY DEF Wired
<1>1. CASE B = {}
  <2>1. \A c \in Idx \X Idx : r[c] = q[c]
    BY <1>1
  <2>2. r = [c \in Idx \X Idx |-> r[c]] /\ q = [c \in Idx \X Idx |-> q[c]]
    BY DEF Wired
  <2> QED
    BY <2>1, <2>2
<1>2. CASE B # {}
  <2>1. PICK i \in Idx, j \in Idx :
          /\ <<i, j>> \in B
          /\ \A k, l \in Idx : <<k, l>> \in B => k + l <= i + j
    <3>1. B \in SUBSET (Idx \X Idx)
      OBVIOUS
    <3> HIDE DEF B
    <3> QED
      BY <1>2, <3>1, LastDiagonal
  <2>2. j # N - 1 => r[<<i, j + 1>>] = q[<<i, j + 1>>]
    <3>1. SUFFICES ASSUME j # N - 1 PROVE <<i, j + 1>> \in (Idx \X Idx) \ B
      OBVIOUS
    <3>2. j + 1 \in Idx /\ ~(i + (j + 1) <= i + j)
      BY <3>1, NAssumption DEF Idx
    <3> QED
      BY <3>2, <2>1
  <2>3. i # N - 1 => r[<<i + 1, j>>] = q[<<i + 1, j>>]
    <3>1. SUFFICES ASSUME i # N - 1 PROVE <<i + 1, j>> \in (Idx \X Idx) \ B
      OBVIOUS
    <3>2. i + 1 \in Idx /\ ~((i + 1) + j <= i + j)
      BY <3>1, NAssumption DEF Idx
    <3> QED
      BY <3>2, <2>1
  <2>4. /\ RightReady(r, i, j) = RightReady(q, i, j)
        /\ DownReady(r, i, j, rd) = DownReady(q, i, j, rd)
    BY <2>2, <2>3 DEF RightReady, DownReady
  <2>5. Wire(in, rd, r, <<i, j>>) = Wire(in, rd, q, <<i, j>>)
    <3>1. /\ Calculates(in, rd, r, i, j) = Calculates(in, rd, q, i, j)
          /\ Loads(in, r, i, j) = Loads(in, q, i, j)
      BY <2>4 DEF Calculates, Loads
    <3>2. Wire(in, rd, r, <<i, j>>) = [x |-> Calculates(in, rd, r, i, j) \/ Loads(in, r, i, j),
                                       y |-> Calculates(in, rd, r, i, j)]
      BY WireAt
    <3>3. Wire(in, rd, q, <<i, j>>) = [x |-> Calculates(in, rd, q, i, j) \/ Loads(in, q, i, j),
                                       y |-> Calculates(in, rd, q, i, j)]
      BY WireAt
    <3> QED
      BY <3>1, <3>2, <3>3, Zenon
  <2>6. r[<<i, j>>] # q[<<i, j>>]
    BY <2>1
  <2> QED
    BY <2>5, <2>6, <1>0
<1> QED
  BY <1>1, <1>2

\* So a solution found by hand is the one the wires have.
LEMMA WiresAre ==
  ASSUME NEW in, NEW rd, NEW r, Wired(in, rd, r)
  PROVE  ready_wires(in, rd) = r
<1>1. ready_wires(in, rd) = CHOOSE q : Wired(in, rd, q)
  BY DEF ready_wires, Wired, Wire
<1>2. Wired(in, rd, ready_wires(in, rd))
  BY <1>1
<1> QED
  BY <1>2, WiresUnique

\* A solution is checked element by element.
LEMMA WiresByElement ==
  ASSUME NEW in, NEW rd, NEW r, r = [c \in Idx \X Idx |-> r[c]],
         \A i, j \in Idx : r[<<i, j>>] = [x |-> Calculates(in, rd, r, i, j) \/ Loads(in, r, i, j),
                                          y |-> Calculates(in, rd, r, i, j)]
  PROVE  ready_wires(in, rd) = r
<1>1. \A c \in Idx \X Idx : r[c] = Wire(in, rd, r, c)
  <2>1. ASSUME NEW c \in Idx \X Idx PROVE r[c] = Wire(in, rd, r, c)
    <3>1. PICK i \in Idx, j \in Idx : c = <<i, j>>
      OBVIOUS
    <3>2. Wire(in, rd, r, <<i, j>>) = [x |-> Calculates(in, rd, r, i, j) \/ Loads(in, r, i, j),
                                       y |-> Calculates(in, rd, r, i, j)]
      BY WireAt
    <3>3. r[<<i, j>>] = Wire(in, rd, r, <<i, j>>)
      BY <3>2, Zenon
    <3> QED
      BY <3>1, <3>3, Zenon
  <2> QED
    BY <2>1
<1>2. Wired(in, rd, r)
  BY <1>1 DEF Wired
<1> QED
  BY <1>2, WiresAre

----------------------------------------------------------------------------
(* One edge of the core, register by register.                             *)

Beats == [v : BOOLEAN, lw : BOOLEAN, x : [Idx -> Int]]

\* Indices and the stages they belong to.
LEMMA Indices ==
  /\ N \in Nat /\ N > 0 /\ End \in Nat /\ End = 2 * N - 2
  /\ 0 \in Idx /\ N - 1 \in Idx
  /\ \A i \in Idx : i \in Nat /\ i <= N - 1 /\ DELAY(i) = N - 1 - i /\ DELAY(i) \in Nat
  /\ \A i, j \in Idx : i + j \in Stage /\ i + j \in 0 .. End + 1 /\ i + j + 1 \in 0 .. End + 1
  /\ \A i \in Idx : \A s \in 0 .. i - 1 : s \in Stage /\ s \in Nat /\ s + 1 \in 0 .. i
  /\ \A j \in Idx : \A k \in 0 .. DELAY(j) - 1 :
       N + j + k \in Stage /\ k \in Nat /\ k + 1 \in 0 .. DELAY(j)
  BY NAssumption DEF Idx, DELAY, Stage, End

\* The wires between the registers carry tokens.
LEMMA WireTypes ==
  ASSUME CoreTyped, NEW in \in Beats, NEW i \in Idx, NEW j \in Idx
  PROVE  /\ \A s \in 0 .. i : x_pipe(i, s, in) \in Tokens
         /\ x_wire(i, j, in) \in Tokens /\ y_wire(i, j) \in Results
         /\ \A k \in 0 .. DELAY(j) : y_pipe(j, k) \in Results
<1>0. pe \in [Idx \X Idx -> Elements]
  BY DEF CoreTyped
<1>1. ASSUME NEW s \in 0 .. i PROVE x_pipe(i, s, in) \in Tokens
  <2>1. CASE s = 0
    BY <2>1 DEF x_pipe, Tokens, Beats
  <2>2. CASE s # 0
    <3>1. s - 1 \in 0 .. i - 1
      BY <2>2, Indices
    <3> QED
      BY <2>2, <3>1 DEF x_pipe, CoreTyped
  <2> QED
    BY <2>1, <2>2
<1>2. x_wire(i, j, in) \in Tokens
  <2>1. CASE j = 0
    <3>1. i \in 0 .. i
      BY Indices
    <3> QED
      BY <2>1, <3>1, <1>1 DEF x_wire
  <2>2. CASE j # 0
    <3>1. j - 1 \in Idx
      BY <2>2, Indices DEF Idx
    <3>2. pe[<<i, j - 1>>] \in Elements
      BY <3>1, <1>0
    <3> QED
      BY <2>2, <3>2 DEF x_wire, Elements, Tokens
  <2> QED
    BY <2>1, <2>2
<1>3. y_wire(i, j) \in Results
  <2>1. CASE i = 0
    BY <2>1 DEF y_wire, Results
  <2>2. CASE i # 0
    <3>1. i - 1 \in Idx
      BY <2>2, Indices DEF Idx
    <3>2. pe[<<i - 1, j>>] \in Elements
      BY <3>1, <1>0
    <3> QED
      BY <2>2, <3>2 DEF y_wire, Elements, Results
  <2> QED
    BY <2>1, <2>2
<1>4. ASSUME NEW k \in 0 .. DELAY(j) PROVE y_pipe(j, k) \in Results
  <2>1. CASE k = 0
    <3>1. pe[<<N - 1, j>>] \in Elements
      BY <1>0, Indices
    <3> QED
      BY <2>1, <3>1 DEF y_pipe, Elements, Results
  <2>2. CASE k # 0
    <3>1. k - 1 \in 0 .. DELAY(j) - 1
      BY <2>2, Indices
    <3> QED
      BY <2>2, <3>1 DEF y_pipe, CoreTyped
  <2> QED
    BY <2>1, <2>2
<1> QED
  BY <1>1, <1>2, <1>3, <1>4

\* Element p becomes q: it loads a weight, calculates or passes tokens on.
Stepped(p, xin, yin, rx, ry, lat, q) ==
  /\ q \in Elements
  /\ q.active = IF lat THEN p.shadow ELSE p.active
  /\ fire_load(p, xin, rx) =>
       q.shadow = xin.x /\ q.x = p.shadow /\ q.vx /\ ~q.vy /\ q.ws
  /\ ~fire_load(p, xin, rx) => q.shadow = p.shadow
  /\ ~fire_load(p, xin, rx) /\ fire_calc(p, xin, yin, rx, ry) =>
       q.x = xin.x /\ q.y = add_out(p, xin, yin) /\ q.vx /\ q.vy /\ ~q.ws
  /\ ~fire_load(p, xin, rx) /\ ~fire_calc(p, xin, yin, rx, ry) =>
       /\ q.x = p.x /\ q.y = p.y /\ q.ws = p.ws
       /\ q.vx = (p.vx /\ ~rx) /\ q.vy = (p.vy /\ ~ry)

\* What one element does at an edge.
LEMMA ElementStep ==
  ASSUME NEW p \in Elements, NEW xin \in Tokens, NEW yin \in Results,
         NEW rx \in BOOLEAN, NEW ry \in BOOLEAN, NEW lat \in BOOLEAN,
         NEW q, q = PeStep(p, xin, yin, rx, ry, lat)
  PROVE  Stepped(p, xin, yin, rx, ry, lat, q)
<1> USE DEF Stepped
<1>0. add_out(p, xin, yin) \in Int
  <2>1. yin.y \in Int /\ xin.x \in Int /\ p.active \in Int
    BY DEF Elements, Tokens, Results
  <2>2. xin.x * p.active \in Int
    BY <2>1
  <2>3. yin.y + xin.x * p.active \in Int
    BY <2>1, <2>2
  <2> QED
    BY <2>3, WrapAdd DEF add_out
<1>1. CASE fire_load(p, xin, rx)
  <2>1. q = [LoadStep(p, xin) EXCEPT !.active = IF lat THEN p.shadow ELSE p.active]
    BY <1>1 DEF PeStep
  <2> QED
    BY <1>1, <2>1 DEF LoadStep, Elements, Tokens
<1>2. CASE ~fire_load(p, xin, rx) /\ fire_calc(p, xin, yin, rx, ry)
  <2>1. q = [CalcStep(p, xin, yin) EXCEPT !.active = IF lat THEN p.shadow ELSE p.active]
    BY <1>2 DEF PeStep
  <2> QED
    BY <1>0, <1>2, <2>1 DEF CalcStep, Elements, Tokens
<1>3. CASE ~fire_load(p, xin, rx) /\ ~fire_calc(p, xin, yin, rx, ry)
  <2>1. q = [DrainStep(p, rx, ry) EXCEPT !.active = IF lat THEN p.shadow ELSE p.active]
    BY <1>3 DEF PeStep
  <2> QED
    BY <1>3, <2>1 DEF DrainStep, Elements
<1> QED
  BY <1>1, <1>2, <1>3

\* An edge of the core is an edge of every register.
LEMMA CoreRegisters ==
  ASSUME NEW in, NEW rd, NEW lat, CoreClock(in, rd, lat), NEW r, r = ready_wires(in, rd)
  PROVE  /\ pe' = [c \in Idx \X Idx |-> pe'[c]]
         /\ \A i, j \in Idx :
              pe'[<<i, j>>] = PeStep(pe[<<i, j>>], x_wire(i, j, in), y_wire(i, j),
                                     RightReady(r, i, j), DownReady(r, i, j, rd), lat)
         /\ \A i \in Idx : \A s \in 0 .. i - 1 : skew'[i][s] =
              IF skew_ready(i, s, r) /\ x_pipe(i, s, in).v THEN x_pipe(i, s, in)
              ELSE IF skew_ready(i, s + 1, r) THEN [skew[i][s] EXCEPT !.v = FALSE]
              ELSE skew[i][s]
         /\ \A j \in Idx : \A k \in 0 .. DELAY(j) - 1 : deskew'[j][k] =
              IF deskew_ready(j, k, rd) /\ y_pipe(j, k).v THEN y_pipe(j, k)
              ELSE IF deskew_ready(j, k + 1, rd) THEN [deskew[j][k] EXCEPT !.v = FALSE]
              ELSE deskew[j][k]
<1>1. SkewStep(in, rd) /\ ArrayStep(in, rd, lat) /\ DeskewStep(rd)
  BY DEF CoreClock
<1>2. pe' = [c \in Idx \X Idx |->
               PeStep(pe[c], x_wire(c[1], c[2], in), y_wire(c[1], c[2]),
                      RightReady(r, c[1], c[2]), DownReady(r, c[1], c[2], rd), lat)]
  BY <1>1 DEF ArrayStep, RightReady, DownReady
<1>3. \A i \in Idx : \A s \in 0 .. i - 1 : skew'[i][s] =
              IF skew_ready(i, s, r) /\ x_pipe(i, s, in).v THEN x_pipe(i, s, in)
              ELSE IF skew_ready(i, s + 1, r) THEN [skew[i][s] EXCEPT !.v = FALSE]
              ELSE skew[i][s]
  BY <1>1 DEF SkewStep
<1>4. \A j \in Idx : \A k \in 0 .. DELAY(j) - 1 : deskew'[j][k] =
              IF deskew_ready(j, k, rd) /\ y_pipe(j, k).v THEN y_pipe(j, k)
              ELSE IF deskew_ready(j, k + 1, rd) THEN [deskew[j][k] EXCEPT !.v = FALSE]
              ELSE deskew[j][k]
  BY <1>1 DEF DeskewStep
<1> QED
  BY <1>2, <1>3, <1>4

\* Valid tokens before a stage, while the registers of a stage agree.
LEMMA ValidBefore ==
  ASSUME NEW F, NEW b, WeightsInFlight(F, b) \/ RowsInFlight(F, b), CoreTyped,
         NEW in \in Beats, NEW i \in Idx, NEW j \in Idx
  PROVE  /\ \A s \in 0 .. i : x_pipe(i, s, in).v <=> In(F, in.v, s)
         /\ x_wire(i, j, in).v <=> In(F, in.v, i + j)
<1>1. ASSUME NEW s \in 0 .. i PROVE x_pipe(i, s, in).v <=> In(F, in.v, s)
  <2>1. CASE s = 0
    BY <2>1 DEF x_pipe, In
  <2>2. CASE s # 0
    <3>1. s - 1 \in 0 .. i - 1
      BY <2>2, Indices
    <3>2. skew[i][s - 1].v <=> Full(F, s - 1)
      BY <3>1 DEF WeightsInFlight, SkewWeights, RowsInFlight, SkewRows
    <3> QED
      BY <2>2, <3>2 DEF x_pipe, In
  <2> QED
    BY <2>1, <2>2
<1>2. x_wire(i, j, in).v <=> In(F, in.v, i + j)
  <2>1. CASE j = 0
    <3>1. i \in 0 .. i /\ i + j = i
      BY <2>1, Indices
    <3> QED
      BY <2>1, <3>1, <1>1 DEF x_wire
  <2>2. CASE j # 0
    <3>1. j - 1 \in Idx /\ j - 1 # N - 1 /\ i + j # 0 /\ i + (j - 1) = i + j - 1
      BY <2>2, Indices DEF Idx
    <3>2. pe[<<i, j - 1>>].vx <=> Full(F, i + (j - 1))
      BY <3>1 DEF WeightsInFlight, ArrayWeights, RowsInFlight, ArrayRows
    <3>3. x_wire(i, j, in).v = pe[<<i, j - 1>>].vx
      BY <2>2 DEF x_wire
    <3>4. In(F, in.v, i + j) <=> Full(F, i + (j - 1))
      <4>1. \A d : d # 0 => (In(F, in.v, d) <=> Full(F, d - 1))
        BY DEF In
      <4>2. In(F, in.v, i + j) <=> Full(F, (i + j) - 1)
        BY <3>1, <4>1
      <4>3. (i + j) - 1 = i + (j - 1)
        BY Indices
      <4> QED
        BY <4>2, <4>3
    <3> QED
      BY <3>2, <3>3, <3>4
  <2> QED
    BY <2>1, <2>2
<1> QED
  BY <1>1, <1>2

----------------------------------------------------------------------------
(* Weights: nothing ever stalls.                                           *)

Shifted(F, v) ==
  [d \in 0 .. End + 1 |-> IF d = 0 THEN (IF v THEN F[0] + 1 ELSE F[0]) ELSE F[d - 1]]

\* One edge of a pipeline that does not stall.
LEMMA ShiftStep ==
  ASSUME NEW F, Elastic(F), NEW v \in BOOLEAN, NEW G, G = Shifted(F, v)
  PROVE  /\ Elastic(G) /\ G[0] = IF v THEN F[0] + 1 ELSE F[0]
         /\ \A d \in Stage : /\ G[d + 1] = F[d]
                             /\ Full(G, d) <=> In(F, v, d)
                             /\ G[d] = IF In(F, v, d) THEN F[d] + 1 ELSE F[d]
<1>0. /\ End \in Nat
      /\ \A d \in 0 .. End + 1 : F[d] \in Nat
      /\ \A d \in Stage : /\ d \in 0 .. End + 1 /\ d + 1 \in 0 .. End + 1 /\ d \in Nat
                          /\ F[d] = F[d + 1] \/ F[d] = F[d + 1] + 1
  BY StageFacts DEF Stage
<1>1. G[0] = IF v THEN F[0] + 1 ELSE F[0]
  BY <1>0 DEF Shifted
<1>2. \A d \in Stage : G[d + 1] = F[d]
  <2>1. \A d \in Stage : d + 1 # 0 /\ (d + 1) - 1 = d /\ d + 1 \in 0 .. End + 1
    BY <1>0
  <2> QED
    BY <2>1 DEF Shifted
<1>3. ASSUME NEW d \in Stage
      PROVE  /\ G[d] = G[d + 1] \/ G[d] = G[d + 1] + 1
             /\ Full(G, d) <=> In(F, v, d)
             /\ G[d] = IF In(F, v, d) THEN F[d] + 1 ELSE F[d]
  <2>0. F[d] \in Nat
    BY <1>0
  <2>1. CASE d = 0
    BY <2>0, <2>1, <1>1, <1>2 DEF Full, In
  <2>2. CASE d # 0
    <3>1. d - 1 \in Stage /\ (d - 1) + 1 = d
      BY <1>0, <2>2 DEF Stage
    <3>2. G[d] = F[d - 1] /\ F[d - 1] \in Nat /\ (F[d - 1] = F[d] \/ F[d - 1] = F[d] + 1)
      BY <3>1, <1>0, <1>2
    <3>3. Full(F, d - 1) <=> F[d - 1] = F[d] + 1
      BY <3>1 DEF Full
    <3>4. In(F, v, d) <=> Full(F, d - 1)
      BY <2>2 DEF In
    <3>5. Full(G, d) <=> G[d] = G[d + 1] + 1
      BY DEF Full
    <3>6. G[d + 1] = F[d]
      BY <1>2
    <3> QED
      BY <2>0, <3>2, <3>3, <3>4, <3>5, <3>6
  <2> QED
    BY <2>1, <2>2
<1>4. G \in Counts
  <2>1. ASSUME NEW d \in 0 .. End + 1
        PROVE  (IF d = 0 THEN (IF v THEN F[0] + 1 ELSE F[0]) ELSE F[d - 1]) \in Nat
    <3>1. CASE d = 0
      BY <1>0, <3>1
    <3>2. CASE d # 0
      <4>1. d - 1 \in 0 .. End + 1
        BY <1>0, <3>2
      <4> QED
        BY <1>0, <3>2, <4>1
    <3> QED
      BY <3>1, <3>2
  <2> QED
    BY <2>1 DEF Shifted, Counts
<1> QED
  BY <1>1, <1>2, <1>3, <1>4 DEF Elastic

\* A weight beat, or an edge without one.
WeightIn(in, F, b) ==
  /\ in \in Beats /\ (in.v <=> in.lw)
  /\ in.v => \A i \in Idx : in.x[i] = Weights[b][<<i, N - 1 - F[0]>>]

\* Every token that arrives at an element is a weight, and is taken.
LEMMA WeightWires ==
  ASSUME CoreTyped, NEW b, NEW F, Elastic(F), WeightsInFlight(F, b),
         NEW in, WeightIn(in, F, b), NEW rd \in BOOLEAN
  PROVE  LET r == ready_wires(in, rd)
         IN  /\ \A i, j \in Idx :
                  /\ Loads(in, r, i, j) <=> x_wire(i, j, in).v
                  /\ ~Calculates(in, rd, r, i, j)
                  /\ RightReady(r, i, j) \in BOOLEAN /\ DownReady(r, i, j, rd) \in BOOLEAN
                  /\ j # N - 1 /\ pe[<<i, j>>].vx => RightReady(r, i, j)
             /\ \A i \in Idx : \A s \in 0 .. i - 1 : skew_ready(i, s, r)
             /\ \A i \in Idx : skew_ready(i, i, r) <=> x_pipe(i, i, in).v
<1> DEFINE X(i, j) == x_wire(i, j, in)
<1> DEFINE w == [c \in Idx \X Idx |-> [x |-> X(c[1], c[2]).v, y |-> FALSE]]
<1>0. in \in Beats /\ pe \in [Idx \X Idx -> Elements]
  BY DEF WeightIn, CoreTyped
<1>1. \A i, j \in Idx : w[<<i, j>>] = [x |-> X(i, j).v, y |-> FALSE]
  OBVIOUS
<1>1a. w = [c \in Idx \X Idx |-> w[c]]
  OBVIOUS
<1>1b. ASSUME NEW i \in Idx, NEW j \in Idx
       PROVE  w[<<i, j>>].x = X(i, j).v /\ w[<<i, j>>].y = FALSE
  <2>1. w[<<i, j>>] = [x |-> X(i, j).v, y |-> FALSE]
    BY <1>1, Zenon
  <2> HIDE DEF X
  <2> QED
    BY <2>1
<1> HIDE DEF w
<1>2. ASSUME NEW i \in Idx, NEW j \in Idx PROVE X(i, j) \in Tokens /\ (X(i, j).v => X(i, j).lw)
  <2>1. X(i, j) \in Tokens
    BY <1>0, WireTypes
  <2>2. CASE j = 0 /\ i = 0
    <3>1. X(i, j).v = in.v /\ X(i, j).lw = in.lw
      BY <2>2 DEF x_wire, x_pipe
    <3> QED
      BY <2>1, <3>1 DEF WeightIn
  <2>3. CASE j = 0 /\ i # 0
    <3>1. i - 1 \in 0 .. i - 1
      BY <2>3, Indices
    <3>2. skew[i][i - 1].v => skew[i][i - 1].lw
      BY <3>1 DEF WeightsInFlight, SkewWeights
    <3> QED
      BY <2>1, <2>3, <3>2 DEF x_wire, x_pipe
  <2>4. CASE j # 0
    <3>1. j - 1 \in Idx /\ j - 1 # N - 1
      BY <2>4, Indices DEF Idx
    <3>2. pe[<<i, j - 1>>].vx => pe[<<i, j - 1>>].ws
      BY <3>1 DEF WeightsInFlight, ArrayWeights
    <3> QED
      BY <2>1, <2>4, <3>2 DEF x_wire
  <2> QED
    BY <2>1, <2>2, <2>3, <2>4
<1>3. ASSUME NEW i \in Idx, NEW j \in Idx, j # N - 1
      PROVE  RightReady(w, i, j) = pe[<<i, j>>].vx
  <2>1. j + 1 \in Idx /\ j + 1 # 0 /\ (j + 1) - 1 = j
    BY <1>3, Indices DEF Idx
  <2>2. X(i, j + 1).v = pe[<<i, j>>].vx
    BY <2>1 DEF x_wire
  <2>3. RightReady(w, i, j) = w[<<i, j + 1>>].x
    BY <1>3 DEF RightReady
  <2>4. w[<<i, j + 1>>].x = X(i, j + 1).v
    BY <2>1, <1>1b
  <2> QED
    BY <2>2, <2>3, <2>4
<1>4. ASSUME NEW i \in Idx, NEW j \in Idx, j = N - 1
      PROVE  RightReady(w, i, j) = TRUE
  BY <1>4 DEF RightReady, right_edge_ready
<1>5. ASSUME NEW i \in Idx, NEW j \in Idx
      PROVE  /\ Loads(in, w, i, j) <=> X(i, j).v
             /\ ~Calculates(in, rd, w, i, j)
             /\ RightReady(w, i, j) \in BOOLEAN /\ DownReady(w, i, j, rd) \in BOOLEAN
             /\ w[<<i, j>>] = [x |-> Calculates(in, rd, w, i, j) \/ Loads(in, w, i, j),
                               y |-> Calculates(in, rd, w, i, j)]
  <2>1. pe[<<i, j>>] \in Elements /\ pe[<<i, j>>].vx \in BOOLEAN
    BY <1>0 DEF Elements
  <2>2. RightReady(w, i, j) \in BOOLEAN /\ (pe[<<i, j>>].vx => RightReady(w, i, j))
    BY <2>1, <1>3, <1>4
  <2>3. DownReady(w, i, j, rd) \in BOOLEAN
    <3>1. CASE i = N - 1
      BY <3>1 DEF DownReady, deskew_ready
    <3>2. CASE i # N - 1
      <4>1. i + 1 \in Idx
        BY <3>2, Indices DEF Idx
      <4> QED
        BY <3>2, <4>1, <1>1b DEF DownReady
    <3> QED
      BY <3>1, <3>2
  <2>4. Loads(in, w, i, j) <=> X(i, j).v
    BY <2>2, <1>2 DEF Loads, fire_load, can_fire_x
  <2>5. ~Calculates(in, rd, w, i, j)
    BY <1>2 DEF Calculates, fire_calc
  <2>6. X(i, j).v \in BOOLEAN
    BY <1>2 DEF Tokens
  <2>7. (Calculates(in, rd, w, i, j) \/ Loads(in, w, i, j)) = X(i, j).v
    BY <2>4, <2>5, <2>6
  <2>8. Calculates(in, rd, w, i, j) = FALSE
    BY <2>5
  <2> QED
    BY <1>1, <2>2, <2>3, <2>4, <2>5, <2>7, <2>8
<1>6. ready_wires(in, rd) = w
  BY <1>1a, <1>5, WiresByElement
<1>7. \A i \in Idx : w[<<i, 0>>].x = x_pipe(i, i, in).v
  <2>1. \A i \in Idx : X(i, 0) = x_pipe(i, i, in)
    BY DEF x_wire
  <2> QED
    BY <1>1b, <2>1, Indices
<1>8. ASSUME NEW i \in Idx, NEW s \in 0 .. i - 1 PROVE skew_ready(i, s, w)
  <2>1. SUFFICES ASSUME \A m \in s .. i - 1 : skew[i][m].v PROVE w[<<i, 0>>].x
    BY DEF skew_ready
  <2>0. i \in Nat
    BY Indices
  <2>2. i - 1 \in s .. i - 1 /\ i # 0
    BY <2>0
  <2>3. x_pipe(i, i, in) = skew[i][i - 1]
    BY <2>2 DEF x_pipe
  <2> QED
    BY <2>1, <2>2, <2>3, <1>7
<1>9. ASSUME NEW i \in Idx PROVE skew_ready(i, i, w) <=> x_pipe(i, i, in).v
  <2>1. i .. i - 1 = {}
    BY Indices
  <2> QED
    BY <2>1, <1>7 DEF skew_ready
<1>10. \A i, j \in Idx : j # N - 1 /\ pe[<<i, j>>].vx => RightReady(w, i, j)
  BY <1>3
<1> QED
  BY <1>5, <1>6, <1>8, <1>9, <1>10

\* While weights are loaded no result is announced.
LEMMA NoResults ==
  ASSUME NEW F, NEW b, WeightsInFlight(F, b)
  PROVE  ~valid_out
<1>1. ~pe[<<N - 1, N - 1>>].vy
  BY Indices DEF WeightsInFlight, ArrayWeights
<1>2. DELAY(N - 1) = 0
  BY Indices DEF DELAY
<1>3. y_pipe(N - 1, DELAY(N - 1)).v = pe[<<N - 1, N - 1>>].vy
  BY <1>2 DEF y_pipe
<1> QED
  BY <1>1, <1>3, Indices DEF valid_out

\* One edge while weights are loaded: every token moves one stage.
LEMMA WeightsEdge ==
  ASSUME CoreTyped, NEW b, NEW F, Elastic(F), WeightsInFlight(F, b),
         NEW in, WeightIn(in, F, b), NEW rd \in BOOLEAN, NEW lat \in BOOLEAN,
         CoreClock(in, rd, lat), NEW G, G = Shifted(F, in.v)
  PROVE  /\ CoreTyped' /\ WeightsInFlight(G, b)'
         /\ \A i, j \in Idx : pe'[<<i, j>>].active =
              IF lat THEN pe[<<i, j>>].shadow ELSE pe[<<i, j>>].active
<1> DEFINE r == ready_wires(in, rd)
<1>0. in \in Beats /\ in.v \in BOOLEAN /\ pe \in [Idx \X Idx -> Elements]
  BY DEF WeightIn, CoreTyped, Beats
<1>1. /\ \A i, j \in Idx :
                  /\ Loads(in, r, i, j) <=> x_wire(i, j, in).v
                  /\ ~Calculates(in, rd, r, i, j)
                  /\ RightReady(r, i, j) \in BOOLEAN /\ DownReady(r, i, j, rd) \in BOOLEAN
                  /\ j # N - 1 /\ pe[<<i, j>>].vx => RightReady(r, i, j)
      /\ \A i \in Idx : \A s \in 0 .. i - 1 : skew_ready(i, s, r)
      /\ \A i \in Idx : skew_ready(i, i, r) <=> x_pipe(i, i, in).v
  BY WeightWires
<1>2. /\ pe' = [c \in Idx \X Idx |-> pe'[c]]
      /\ \A i, j \in Idx :
              pe'[<<i, j>>] = PeStep(pe[<<i, j>>], x_wire(i, j, in), y_wire(i, j),
                                     RightReady(r, i, j), DownReady(r, i, j, rd), lat)
      /\ \A i \in Idx : \A s \in 0 .. i - 1 : skew'[i][s] =
              IF skew_ready(i, s, r) /\ x_pipe(i, s, in).v THEN x_pipe(i, s, in)
              ELSE IF skew_ready(i, s + 1, r) THEN [skew[i][s] EXCEPT !.v = FALSE]
              ELSE skew[i][s]
      /\ \A j \in Idx : \A k \in 0 .. DELAY(j) - 1 : deskew'[j][k] =
              IF deskew_ready(j, k, rd) /\ y_pipe(j, k).v THEN y_pipe(j, k)
              ELSE IF deskew_ready(j, k + 1, rd) THEN [deskew[j][k] EXCEPT !.v = FALSE]
              ELSE deskew[j][k]
  BY CoreRegisters
<1> HIDE DEF r
<1>3. /\ Elastic(G) /\ G[0] = IF in.v THEN F[0] + 1 ELSE F[0]
      /\ \A d \in Stage : /\ G[d + 1] = F[d]
                          /\ Full(G, d) <=> In(F, in.v, d)
                          /\ G[d] = IF In(F, in.v, d) THEN F[d] + 1 ELSE F[d]
  BY <1>0, ShiftStep
<1>4. \A d \in 0 .. End + 1 : F[d] \in Nat
  BY StageFacts
<1>5. ASSUME NEW i \in Idx, NEW s \in 0 .. i - 1
      PROVE  /\ skew'[i][s] \in Tokens
             /\ skew'[i][s].v <=> Full(G, s)
             /\ Full(G, s) => skew'[i][s].lw /\ skew'[i][s].x = Weights[b][<<i, N - 1 - G[s + 1]>>]
  <2>0. s \in Stage /\ s + 1 \in 0 .. i /\ s \in Nat /\ s \in 0 .. i /\ i \in Nat
    BY Indices
  <2>1. skew[i][s] \in Tokens
    BY DEF CoreTyped
  <2>2. x_pipe(i, s, in) \in Tokens /\ (x_pipe(i, s, in).v <=> In(F, in.v, s))
    BY <1>0, <2>0, WireTypes, ValidBefore
  <2>3. G[s + 1] = F[s] /\ (Full(G, s) <=> In(F, in.v, s))
    BY <1>3, <2>0
  <2>4. skew_ready(i, s, r)
    BY <1>1
  <2>5. CASE x_pipe(i, s, in).v
    <3>1. skew'[i][s] = x_pipe(i, s, in)
      BY <2>4, <2>5, <1>2
    <3>2. x_pipe(i, s, in).lw /\ x_pipe(i, s, in).x = Weights[b][<<i, N - 1 - F[s]>>]
      <4>1. CASE s = 0
        <5>1. x_pipe(i, s, in).v = in.v /\ x_pipe(i, s, in).lw = in.lw /\ x_pipe(i, s, in).x = in.x[i]
          BY <4>1 DEF x_pipe
        <5> QED
          BY <5>1, <2>5, <4>1 DEF WeightIn
      <4>2. CASE s # 0
        <5>1. s - 1 \in 0 .. i - 1 /\ (s - 1) + 1 = s
          BY <2>0, <4>2
        <5>2. x_pipe(i, s, in) = skew[i][s - 1]
          BY <4>2 DEF x_pipe
        <5>3. skew[i][s - 1].v => /\ skew[i][s - 1].lw
                                  /\ skew[i][s - 1].x = Weights[b][<<i, N - 1 - F[(s - 1) + 1]>>]
          BY <5>1 DEF WeightsInFlight, SkewWeights
        <5> QED
          BY <5>1, <5>2, <5>3, <2>5
      <4> QED
        BY <4>1, <4>2
    <3> QED
      BY <3>1, <3>2, <2>2, <2>3, <2>5
  <2>6. CASE ~x_pipe(i, s, in).v
    <3>1. ~Full(G, s)
      BY <2>2, <2>3, <2>6
    <3>2. skew_ready(i, s + 1, r) \/ ~skew[i][s].v
      <4>1. CASE s + 1 = i
        <5>1. x_pipe(i, i, in) = skew[i][s]
          BY <4>1, <2>0 DEF x_pipe
        <5> QED
          BY <5>1, <4>1, <1>1
      <4>2. CASE s + 1 # i
        <5>1. s + 1 \in 0 .. i - 1
          BY <4>2, <2>0
        <5> QED
          BY <5>1, <1>1
      <4> QED
        BY <4>1, <4>2
    <3>3. skew'[i][s] = [skew[i][s] EXCEPT !.v = FALSE] \/ (skew'[i][s] = skew[i][s] /\ ~skew[i][s].v)
      BY <3>2, <2>6, <1>2
    <3>4. skew'[i][s] \in Tokens /\ ~skew'[i][s].v
      BY <3>3, <2>1 DEF Tokens
    <3> QED
      BY <3>1, <3>4
  <2> QED
    BY <2>5, <2>6

<1>6. ASSUME NEW i \in Idx, NEW j \in Idx
      PROVE  /\ pe'[<<i, j>>] \in Elements
             /\ pe'[<<i, j>>].active = IF lat THEN pe[<<i, j>>].shadow ELSE pe[<<i, j>>].active
             /\ ~pe'[<<i, j>>].vy
             /\ G[i + j] >= j + 1 => pe'[<<i, j>>].shadow = Weights[b][<<i, N - G[i + j] + j>>]
             /\ j # N - 1 =>
                  /\ pe'[<<i, j>>].vx <=> Full(G, i + j)
                  /\ Full(G, i + j) => pe'[<<i, j>>].ws
                  /\ Full(G, i + j) /\ G[i + j] >= j + 2 =>
                       pe'[<<i, j>>].x = Weights[b][<<i, N - G[i + j] + j + 1>>]
  <2> DEFINE p == pe[<<i, j>>]
  <2> DEFINE q == pe'[<<i, j>>]
  <2> DEFINE xin == x_wire(i, j, in)
  <2> DEFINE yin == y_wire(i, j)
  <2> DEFINE rx == RightReady(r, i, j)
  <2> DEFINE ry == DownReady(r, i, j, rd)
  <2> DEFINE d == i + j
  <2>1. p \in Elements /\ xin \in Tokens /\ yin \in Results /\ rx \in BOOLEAN /\ ry \in BOOLEAN
    BY <1>0, <1>1, WireTypes
  <2>2. q = PeStep(p, xin, yin, rx, ry, lat)
    BY <1>2
  <2>3. /\ fire_load(p, xin, rx) <=> xin.v
        /\ ~fire_calc(p, xin, yin, rx, ry)
        /\ j # N - 1 /\ p.vx => rx
    BY <1>1 DEF Loads, Calculates
  <2>4. xin.v <=> In(F, in.v, d)
    BY <1>0, ValidBefore
  <2>5. /\ ~p.vy
        /\ F[d] >= j + 1 => p.shadow = Weights[b][<<i, N - F[d] + j>>]
    BY DEF WeightsInFlight, ArrayWeights
  <2>6. d \in Stage /\ d \in Nat /\ F[d] \in Nat /\ i \in Nat /\ j \in Nat /\ N \in Nat
    <3>1. i \in Nat /\ j \in Nat /\ N \in Nat /\ d \in Stage /\ d \in 0 .. End + 1
      BY Indices
    <3> QED
      BY <3>1, <1>4
  <2>6a. Stepped(p, xin, yin, rx, ry, lat, q)
    <3> HIDE DEF p, q, xin, yin, rx, ry
    <3> QED
      BY <2>1, <2>2, ElementStep
  <2>7. /\ G[d] = IF xin.v THEN F[d] + 1 ELSE F[d]
        /\ Full(G, d) <=> xin.v
    BY <1>3, <2>4, <2>6
  <2>8. CASE xin.v
    <3>1. /\ q \in Elements /\ q.active = IF lat THEN p.shadow ELSE p.active
          /\ q.shadow = xin.x /\ q.x = p.shadow /\ q.vx /\ ~q.vy /\ q.ws
      BY <2>3, <2>6a, <2>8 DEF Stepped
    <3>2. F[d] + 1 >= j + 1 => xin.x = Weights[b][<<i, N - (F[d] + 1) + j>>]
      <4>1. CASE i = 0 /\ j = 0
        <5>1. xin.x = in.x[i] /\ xin.v = in.v /\ d = 0
          BY <4>1 DEF x_wire, x_pipe
        <5>2. xin.x = Weights[b][<<i, N - 1 - F[d]>>]
          BY <5>1, <2>8 DEF WeightIn
        <5>3. N - 1 - F[d] = N - (F[d] + 1) + j
          BY <4>1, <2>6
        <5> QED
          BY <5>2, <5>3
      <4>2. CASE i # 0 /\ j = 0
        <5>1. i - 1 \in 0 .. i - 1 /\ (i - 1) + 1 = i /\ d = i
          BY <4>2, <2>6
        <5>2. xin = skew[i][i - 1]
          BY <4>2 DEF x_wire, x_pipe
        <5>3. skew[i][i - 1].v => skew[i][i - 1].x = Weights[b][<<i, N - 1 - F[(i - 1) + 1]>>]
          BY <5>1 DEF WeightsInFlight, SkewWeights
        <5>4. N - 1 - F[d] = N - (F[d] + 1) + j
          BY <4>2, <2>6
        <5> QED
          BY <5>1, <5>2, <5>3, <5>4, <2>8
      <4>3. CASE j # 0
        <5>1. /\ j - 1 \in Idx /\ j - 1 # N - 1 /\ i + (j - 1) \in Stage
              /\ (i + (j - 1)) + 1 = d
          <6>1. j - 1 \in Idx /\ j - 1 # N - 1
            BY <4>3, <2>6 DEF Idx
          <6>2. (i + (j - 1)) + 1 = d
            BY <2>6
          <6> QED
            BY <6>1, <6>2, Indices
        <5>2. xin.x = pe[<<i, j - 1>>].x /\ xin.v = pe[<<i, j - 1>>].vx
          BY <4>3 DEF x_wire
        <5>3. /\ pe[<<i, j - 1>>].vx <=> Full(F, i + (j - 1))
              /\ Full(F, i + (j - 1)) /\ F[i + (j - 1)] >= (j - 1) + 2 =>
                   pe[<<i, j - 1>>].x = Weights[b][<<i, N - F[i + (j - 1)] + (j - 1) + 1>>]
          BY <5>1 DEF WeightsInFlight, ArrayWeights
        <5>4. Full(F, i + (j - 1))
          BY <5>2, <5>3, <2>8
        <5>5. F[i + (j - 1)] = F[d] + 1
          BY <5>1, <5>4 DEF Full
        <5>6. F[d] + 1 >= (j - 1) + 2 => xin.x = Weights[b][<<i, N - (F[d] + 1) + (j - 1) + 1>>]
          BY <5>2, <5>3, <5>4, <5>5
        <5>7. /\ N - (F[d] + 1) + (j - 1) + 1 = N - (F[d] + 1) + j
              /\ (j - 1) + 2 = j + 1
          BY <2>6
        <5> QED
          BY <5>6, <5>7
      <4> QED
        BY <4>1, <4>2, <4>3
    <3>3. G[d] = F[d] + 1
      BY <2>7, <2>8
    <3>4. G[d] >= j + 2 => /\ F[d] >= j + 1
                           /\ N - F[d] + j = N - G[d] + j + 1
      BY <3>3, <2>6
    <3>5. G[d] >= j + 2 => q.x = Weights[b][<<i, N - G[d] + j + 1>>]
      BY <3>1, <3>4, <2>5
    <3>6. G[d] >= j + 1 => q.shadow = Weights[b][<<i, N - G[d] + j>>]
      BY <3>1, <3>2, <3>3
    <3>7. Full(G, d)
      BY <2>7, <2>8
    <3> QED
      BY <3>1, <3>5, <3>6, <3>7
  <2>9. CASE ~xin.v
    <3>1. /\ q \in Elements /\ q.active = IF lat THEN p.shadow ELSE p.active
          /\ q.shadow = p.shadow /\ q.vx = (p.vx /\ ~rx) /\ q.vy = (p.vy /\ ~ry)
      BY <2>3, <2>6a, <2>9 DEF Stepped
    <3>2. ~q.vy /\ (j # N - 1 => ~q.vx)
      <4> HIDE DEF p, q, xin, yin, rx, ry
      <4> QED
        BY <3>1, <2>3, <2>5
    <3>3. G[d] = F[d] /\ ~Full(G, d)
      BY <2>7, <2>9
    <3>4. G[d] >= j + 1 => q.shadow = Weights[b][<<i, N - G[d] + j>>]
      BY <3>1, <3>3, <2>5
    <3> QED
      BY <3>1, <3>2, <3>3, <3>4
  <2> QED
    BY <2>8, <2>9
<1>7. ASSUME NEW j \in Idx, NEW k \in 0 .. DELAY(j) - 1
      PROVE  deskew'[j][k] \in Results /\ ~deskew'[j][k].v
  <2>1. deskew[j][k] \in Results /\ ~deskew[j][k].v
    BY DEF CoreTyped, WeightsInFlight, DeskewEmpty
  <2>2. ~y_pipe(j, k).v
    <3>1. CASE k = 0
      <4>1. ~pe[<<N - 1, j>>].vy
        BY Indices DEF WeightsInFlight, ArrayWeights
      <4> QED
        BY <3>1, <4>1 DEF y_pipe
    <3>2. CASE k # 0
      <4>1. k - 1 \in 0 .. DELAY(j) - 1
        BY <3>2, Indices
      <4> QED
        BY <3>2, <4>1 DEF y_pipe, WeightsInFlight, DeskewEmpty
    <3> QED
      BY <3>1, <3>2
  <2>3. deskew'[j][k] = [deskew[j][k] EXCEPT !.v = FALSE] \/ deskew'[j][k] = deskew[j][k]
    BY <2>2, <1>2
  <2> QED
    BY <2>1, <2>3 DEF Results
<1>8. pe' \in [Idx \X Idx -> Elements]
  <2>1. \A c \in Idx \X Idx : pe'[c] \in Elements
    <3>1. ASSUME NEW c \in Idx \X Idx PROVE pe'[c] \in Elements
      <4>1. PICK i \in Idx, j \in Idx : c = <<i, j>>
        OBVIOUS
      <4> QED
        BY <4>1, <1>6
    <3> QED
      BY <3>1
  <2> QED
    BY <2>1, <1>2
<1>9. CoreTyped'
  BY <1>5, <1>7, <1>8 DEF CoreTyped, Idx, DELAY
<1>10. SkewWeights(G, b)'
  BY <1>5 DEF SkewWeights, Idx
<1>11. ArrayWeights(G, b)'
  BY <1>6 DEF ArrayWeights, Idx
<1>12. DeskewEmpty'
  BY <1>7 DEF DeskewEmpty, Idx, DELAY
<1> QED
  BY <1>6, <1>9, <1>10, <1>11, <1>12 DEF WeightsInFlight

----------------------------------------------------------------------------
(* Rows: the ready wires are the room in the pipeline.                     *)

\* A token moves into a stage behind the first one out of the one before.
LEMMA MovesOn ==
  ASSUME NEW F, NEW v \in BOOLEAN, NEW rd \in BOOLEAN, NEW d \in Stage
  PROVE  Moves(F, v, rd, d + 1) <=> Full(F, d) /\ Room(F, rd, d + 1)
<1>1. d + 1 # 0 /\ (d + 1) - 1 = d
  BY NAssumption DEF Stage
<1>2. \A e : e # 0 => (In(F, v, e) <=> Full(F, e - 1))
  BY DEF In
<1>3. In(F, v, d + 1) <=> Full(F, (d + 1) - 1)
  BY <1>1, <1>2
<1>4. In(F, v, d + 1) <=> Full(F, d)
  BY <1>1, <1>3
<1> QED
  BY <1>4 DEF Moves

\* The de-skew pipelines are the last stages.
LEMMA DeskewRoom ==
  ASSUME CoreTyped, NEW b, NEW F, Elastic(F), RowsInFlight(F, b), NEW rd \in BOOLEAN
  PROVE  /\ valid_out <=> Full(F, End)
         /\ \A j \in Idx : \A k \in 0 .. DELAY(j) :
              /\ y_pipe(j, k).v <=> Full(F, (N - 1) + j + k)
              /\ deskew_ready(j, k, rd) <=> Room(F, rd, N + j + k)
<1>0. /\ N \in Nat /\ N > 0 /\ End = 2 * N - 2 /\ 0 \in Idx /\ N - 1 \in Idx
      /\ \A j \in Idx : j \in Nat /\ DELAY(j) \in Nat /\ DELAY(j) = (N - 1) - j
  BY Indices
<1>1. ASSUME NEW j \in Idx, NEW k \in 0 .. DELAY(j)
      PROVE  y_pipe(j, k).v <=> Full(F, (N - 1) + j + k)
  <2>0. j \in Nat /\ k \in Nat
    BY <1>0
  <2>1. CASE k = 0
    <3>1. pe[<<N - 1, j>>].vy <=> Full(F, (N - 1) + j)
      BY <1>0 DEF RowsInFlight, ArrayRows
    <3>2. (N - 1) + j + k = (N - 1) + j
      BY <1>0, <2>0, <2>1
    <3>3. y_pipe(j, k).v = pe[<<N - 1, j>>].vy
      BY <2>1 DEF y_pipe
    <3> QED
      BY <3>1, <3>2, <3>3
  <2>2. CASE k # 0
    <3>1. k - 1 \in 0 .. DELAY(j) - 1
      BY <1>0, <2>0, <2>2
    <3>2. deskew[j][k - 1].v <=> Full(F, N + j + (k - 1))
      BY <3>1 DEF RowsInFlight, DeskewRows
    <3>3. N + j + (k - 1) = (N - 1) + j + k
      BY <1>0, <2>0
    <3>4. y_pipe(j, k) = deskew[j][k - 1]
      BY <2>2 DEF y_pipe
    <3> QED
      BY <3>2, <3>3, <3>4
  <2> QED
    BY <2>1, <2>2
<1>2. ASSUME NEW j \in Idx PROVE y_pipe(j, DELAY(j)).v <=> Full(F, End)
  <2>0. j \in Nat /\ DELAY(j) \in Nat /\ DELAY(j) = (N - 1) - j
    BY <1>0
  <2>1. DELAY(j) \in 0 .. DELAY(j) /\ (N - 1) + j + DELAY(j) = End
    BY <1>0, <2>0
  <2> QED
    BY <2>1, <1>1
<1>3. valid_out <=> Full(F, End)
  BY <1>0, <1>2 DEF valid_out
<1>4. ASSUME NEW j \in Idx, NEW k \in 0 .. DELAY(j)
      PROVE  deskew_ready(j, k, rd) <=> Room(F, rd, N + j + k)
  <2>0. j \in Nat /\ k \in Nat
    BY <1>0
  <2>1. (\E m \in k .. DELAY(j) - 1 : ~deskew[j][m].v) <=> \E m \in N + j + k .. End : ~Full(F, m)
    <3>1. ASSUME NEW m \in k .. DELAY(j) - 1, ~deskew[j][m].v
          PROVE  N + j + m \in N + j + k .. End /\ ~Full(F, N + j + m)
      <4>1. m \in 0 .. DELAY(j) - 1 /\ N + j + m \in N + j + k .. End
        BY <1>0, <2>0
      <4> QED
        BY <3>1, <4>1 DEF RowsInFlight, DeskewRows
    <3>2. ASSUME NEW m \in N + j + k .. End, ~Full(F, m)
          PROVE  m - (N + j) \in k .. DELAY(j) - 1 /\ ~deskew[j][m - (N + j)].v
      <4>1. m - (N + j) \in 0 .. DELAY(j) - 1 /\ m - (N + j) \in k .. DELAY(j) - 1
            /\ N + j + (m - (N + j)) = m
        BY <1>0, <2>0
      <4>2. deskew[j][m - (N + j)].v <=> Full(F, N + j + (m - (N + j)))
        BY <4>1 DEF RowsInFlight, DeskewRows
      <4> QED
        BY <3>2, <4>1, <4>2
    <3> QED
      BY <3>1, <3>2
  <2> QED
    BY <2>1, <1>2, <1>3 DEF deskew_ready, Room
<1> QED
  BY <1>1, <1>3, <1>4

\* A row of activations, or an edge without one.
RowIn(in, F, b) ==
  /\ in \in Beats /\ ~in.lw
  /\ in.v => F[0] < Rows(b) /\ \A i \in Idx : in.x[i] = Inputs[b][F[0]][i]

\* An element calculates exactly when a token moves into its stage.
LEMMA RowWires ==
  ASSUME CoreTyped, NEW b, NEW F, Elastic(F), RowsInFlight(F, b),
         NEW in, RowIn(in, F, b), NEW rd \in BOOLEAN
  PROVE  LET r == ready_wires(in, rd)
         IN  /\ \A i, j \in Idx :
                  /\ ~Loads(in, r, i, j)
                  /\ Calculates(in, rd, r, i, j) <=> Moves(F, in.v, rd, i + j)
                  /\ RightReady(r, i, j) \in BOOLEAN /\ DownReady(r, i, j, rd) \in BOOLEAN
                  /\ j # N - 1 => (RightReady(r, i, j) <=> Moves(F, in.v, rd, i + j + 1))
                  /\ Full(F, i + j) => (DownReady(r, i, j, rd) <=> Moves(F, in.v, rd, i + j + 1))
             /\ \A i \in Idx : \A s \in 0 .. i - 1 : skew_ready(i, s, r) <=> Room(F, rd, s)
             /\ \A i \in Idx : skew_ready(i, i, r) <=> Moves(F, in.v, rd, i)
<1> DEFINE M(d) == Moves(F, in.v, rd, d)
<1> DEFINE w == [c \in Idx \X Idx |-> [x |-> M(c[1] + c[2]), y |-> M(c[1] + c[2])]]
<1>0. in \in Beats /\ in.v \in BOOLEAN /\ pe \in [Idx \X Idx -> Elements]
  BY DEF RowIn, CoreTyped, Beats
<1>1. \A d : M(d) \in BOOLEAN
  BY DEF Moves
<1>2. w = [c \in Idx \X Idx |-> w[c]]
  OBVIOUS
<1>3. ASSUME NEW i \in Idx, NEW j \in Idx
      PROVE  w[<<i, j>>] = [x |-> M(i + j), y |-> M(i + j)]
  OBVIOUS
<1> HIDE DEF w, M
<1>4. ASSUME NEW i \in Idx, NEW j \in Idx PROVE w[<<i, j>>].x = M(i + j) /\ w[<<i, j>>].y = M(i + j)
  <2>1. w[<<i, j>>] = [x |-> M(i + j), y |-> M(i + j)]
    BY <1>3
  <2> QED
    BY <2>1
<1>5. ASSUME NEW i \in Idx, NEW j \in Idx
      PROVE  /\ ~Loads(in, w, i, j)
             /\ Calculates(in, rd, w, i, j) <=> M(i + j)
             /\ RightReady(w, i, j) \in BOOLEAN /\ DownReady(w, i, j, rd) \in BOOLEAN
             /\ j # N - 1 => (RightReady(w, i, j) <=> M(i + j + 1))
             /\ Full(F, i + j) => (DownReady(w, i, j, rd) <=> M(i + j + 1))
  <2> DEFINE p == pe[<<i, j>>]
  <2> DEFINE xin == x_wire(i, j, in)
  <2> DEFINE yin == y_wire(i, j)
  <2> DEFINE rx == RightReady(w, i, j)
  <2> DEFINE ry == DownReady(w, i, j, rd)
  <2> DEFINE d == i + j
  <2>0. i \in Nat /\ j \in Nat /\ N \in Nat /\ N > 0 /\ d \in Stage /\ d \in Nat /\ i <= N - 1 /\ j <= N - 1
    BY Indices
  <2>1. p \in Elements /\ xin \in Tokens /\ yin \in Results
    BY <1>0, WireTypes
  <2>2. xin.v <=> In(F, in.v, d)
    BY <1>0, ValidBefore
  <2>3. xin.v => ~xin.lw
    <3>1. CASE i = 0 /\ j = 0
      BY <3>1 DEF x_wire, x_pipe, RowIn
    <3>2. CASE i # 0 /\ j = 0
      <4>1. i - 1 \in 0 .. i - 1
        BY <2>0, <3>2
      <4>2. skew[i][i - 1].v => ~skew[i][i - 1].lw
        BY <4>1 DEF RowsInFlight, SkewRows
      <4> QED
        BY <3>2, <4>2 DEF x_wire, x_pipe
    <3>3. CASE j # 0
      <4>1. j - 1 \in Idx /\ j - 1 # N - 1
        BY <2>0, <3>3 DEF Idx
      <4>2. pe[<<i, j - 1>>].vx => ~pe[<<i, j - 1>>].ws
        BY <4>1 DEF RowsInFlight, ArrayRows
      <4> QED
        BY <3>3, <4>2 DEF x_wire
    <3> QED
      BY <3>1, <3>2, <3>3
  <2>4. xin.v => yin.v
    <3>1. CASE i = 0
      BY <3>1 DEF y_wire
    <3>2. CASE i # 0
      <4>1. i - 1 \in Idx /\ (i - 1) + j = d - 1 /\ d # 0
        BY <2>0, <3>2 DEF Idx
      <4>2. pe[<<i - 1, j>>].vy <=> Full(F, (i - 1) + j)
        BY <4>1 DEF RowsInFlight, ArrayRows
      <4>3. \A e : e # 0 => (In(F, in.v, e) <=> Full(F, e - 1))
        BY DEF In
      <4>4. In(F, in.v, d) <=> Full(F, d - 1)
        BY <4>1, <4>3
      <4>5. yin.v = pe[<<i - 1, j>>].vy
        BY <3>2 DEF y_wire
      <4> HIDE DEF d, xin, yin
      <4> QED
        BY <4>1, <4>2, <4>4, <4>5, <2>2
    <3> QED
      BY <3>1, <3>2
  <2>5. /\ p.vy <=> Full(F, d)
        /\ j # N - 1 => (p.vx <=> Full(F, d))
    BY DEF RowsInFlight, ArrayRows
  <2>6. M(d + 1) <=> Full(F, d) /\ Room(F, rd, d + 1)
    BY <1>0, <2>0, MovesOn DEF M
  <2>7. M(d) <=> In(F, in.v, d) /\ (~Full(F, d) \/ Room(F, rd, d + 1))
    BY <2>0, RoomNext DEF M, Moves
  <2>8. rx \in BOOLEAN /\ (j # N - 1 => rx = M(d + 1)) /\ (j = N - 1 => rx)
    <3>1. CASE j = N - 1
      BY <3>1 DEF RightReady, right_edge_ready
    <3>2. CASE j # N - 1
      <4>1. j + 1 \in Idx /\ i + (j + 1) = d + 1
        BY <3>2, <2>0 DEF Idx
      <4>2. w[<<i, j + 1>>].x = M(i + (j + 1))
        BY <4>1, <1>4
      <4>3. rx = w[<<i, j + 1>>].x
        BY <3>2 DEF RightReady
      <4> QED
        BY <3>2, <4>1, <4>2, <4>3, <1>1
    <3> QED
      BY <3>1, <3>2
  <2>9. /\ ry \in BOOLEAN /\ (i # N - 1 => ry = M(d + 1))
        /\ i = N - 1 => (ry <=> Room(F, rd, d + 1))
    <3>1. CASE i = N - 1
      <4>1. 0 \in 0 .. DELAY(j) /\ N + j + 0 = d + 1
        <5>1. DELAY(j) \in Nat
          BY Indices
        <5> QED
          BY <5>1, <3>1, <2>0
      <4>2. deskew_ready(j, 0, rd) <=> Room(F, rd, N + j + 0)
        BY <4>1, DeskewRoom
      <4>3. ry = deskew_ready(j, 0, rd)
        BY <3>1 DEF DownReady
      <4>4. deskew_ready(j, 0, rd) \in BOOLEAN
        BY DEF deskew_ready
      <4> QED
        BY <3>1, <4>1, <4>2, <4>3, <4>4
    <3>2. CASE i # N - 1
      <4>1. i + 1 \in Idx /\ (i + 1) + j = d + 1
        BY <3>2, <2>0 DEF Idx
      <4>2. w[<<i + 1, j>>].y = M((i + 1) + j)
        BY <4>1, <1>4
      <4>3. ry = w[<<i + 1, j>>].y
        BY <3>2 DEF DownReady
      <4> QED
        BY <3>2, <4>1, <4>2, <4>3, <1>1
    <3> QED
      BY <3>1, <3>2
  <2>10. ~Loads(in, w, i, j)
    BY <2>3 DEF Loads, fire_load
  <2>11. Calculates(in, rd, w, i, j) <=>
           /\ xin.v /\ yin.v /\ ~xin.lw
           /\ ~(p.vx /\ ~rx) /\ ~(p.vy /\ ~ry)
    BY DEF Calculates, fire_calc, can_fire_x, can_fire_y
  <2>12. p.vx \in BOOLEAN /\ p.vy \in BOOLEAN /\ xin.v \in BOOLEAN
    BY <2>1 DEF Elements, Tokens
  <2>13. i + j + 1 = d + 1
    OBVIOUS
  <2> HIDE DEF p, xin, yin, rx, ry, d
  <2>14. Calculates(in, rd, w, i, j) <=> M(d)
    BY <2>2, <2>3, <2>4, <2>5, <2>6, <2>7, <2>8, <2>9, <2>11, <2>12
  <2>15. Full(F, d) => (ry <=> M(d + 1))
    BY <2>6, <2>9
  <2> QED
    BY <2>8, <2>9, <2>10, <2>13, <2>14, <2>15 DEF d, rx, ry
<1>6. ready_wires(in, rd) = w
  <2>1. ASSUME NEW i \in Idx, NEW j \in Idx
        PROVE  w[<<i, j>>] = [x |-> Calculates(in, rd, w, i, j) \/ Loads(in, w, i, j),
                              y |-> Calculates(in, rd, w, i, j)]
    <3>1. w[<<i, j>>] = [x |-> M(i + j), y |-> M(i + j)]
      BY <1>3
    <3>2. ~Loads(in, w, i, j) /\ (Calculates(in, rd, w, i, j) <=> M(i + j))
      BY <1>5
    <3>3. (Calculates(in, rd, w, i, j) \/ Loads(in, w, i, j)) = M(i + j)
      BY <3>2, <1>1
    <3>4. Calculates(in, rd, w, i, j) = M(i + j)
      BY <3>2, <1>1 DEF Calculates, fire_calc
    <3> QED
      BY <3>1, <3>3, <3>4
  <2> QED
    BY <1>2, <2>1, WiresByElement
<1>7. ASSUME NEW i \in Idx PROVE w[<<i, 0>>].x = M(i)
  <2>1. 0 \in Idx /\ i + 0 = i
    BY Indices
  <2> QED
    BY <1>4, <2>1
<1>8. ASSUME NEW i \in Idx, NEW s \in 0 .. i - 1 PROVE skew_ready(i, s, w) <=> Room(F, rd, s)
  <2>0. i \in Nat /\ s \in Nat /\ N \in Nat /\ N > 0 /\ i <= N - 1 /\ End = 2 * N - 2
    BY Indices
  <2>1. s <= i /\ i <= End + 1 /\ i # 0 /\ i - 1 \in s .. i - 1 /\ i - 1 \in Stage
    BY <2>0 DEF Stage
  <2>2. Room(F, rd, s) <=> (\E m \in s .. i - 1 : ~Full(F, m)) \/ Room(F, rd, i)
    BY <2>0, <2>1, RoomBetween
  <2>3. \A m \in s .. i - 1 : skew[i][m].v <=> Full(F, m)
    <3>1. \A m \in s .. i - 1 : m \in 0 .. i - 1
      BY <2>0
    <3> QED
      BY <3>1 DEF RowsInFlight, SkewRows
  <2>4. M(i) <=> Full(F, i - 1) /\ Room(F, rd, i)
    <3>1. (i - 1) + 1 = i
      BY <2>0
    <3>2. Moves(F, in.v, rd, (i - 1) + 1) <=> Full(F, i - 1) /\ Room(F, rd, (i - 1) + 1)
      BY <1>0, <2>1, MovesOn
    <3> QED
      BY <3>1, <3>2 DEF M
  <2>5. skew_ready(i, s, w) <=> (\E m \in s .. i - 1 : ~skew[i][m].v) \/ M(i)
    BY <1>7 DEF skew_ready
  <2> QED
    BY <2>1, <2>2, <2>3, <2>4, <2>5
<1>9. ASSUME NEW i \in Idx PROVE skew_ready(i, i, w) <=> M(i)
  <2>1. i .. i - 1 = {}
    BY Indices
  <2> QED
    BY <2>1, <1>7 DEF skew_ready
<1> QED
  BY <1>5, <1>6, <1>8, <1>9 DEF M

\* A token in flight belongs to a row of the job.
LEMMA TokenOfJob ==
  ASSUME NEW b \in Jobs, NEW F, Elastic(F), F[0] <= Rows(b),
         NEW in, RowIn(in, F, b), NEW d \in Stage, In(F, in.v, d)
  PROVE  F[d] \in 0 .. Rows(b) - 1
<1>0. /\ Rows(b) \in Nat /\ End \in Nat /\ F[0] \in Nat /\ F[d] \in Nat
      /\ d \in 0 .. End + 1 /\ d \in Nat /\ 0 \in 0 .. End + 1
  BY StageFacts, BenchAssumption DEF Stage
<1>1. CASE d = 0
  <2>1. in.v
    BY <1>1 DEF In
  <2>2. F[0] < Rows(b)
    BY <2>1 DEF RowIn
  <2> QED
    BY <1>0, <1>1, <2>2
<1>2. CASE d # 0
  <2>1. d - 1 \in 0 .. End + 1 /\ 0 <= d - 1 /\ (d - 1) + 1 = d
    BY <1>0, <1>2
  <2>2. Full(F, d - 1)
    BY <1>2 DEF In
  <2>3. F[d - 1] = F[d] + 1
    BY <2>1, <2>2 DEF Full
  <2>4. F[0] >= F[d - 1]
    BY <2>1, <1>0, Falling
  <2> QED
    BY <1>0, <2>3, <2>4
<1> QED
  BY <1>1, <1>2

\* One edge while rows stream: every token that has room moves one stage, all
\* registers of a stage together, and takes the product of its element along.
LEMMA RowsEdge ==
  ASSUME CoreTyped, NEW b \in Jobs, NEW F, Elastic(F), RowsInFlight(F, b), F[0] <= Rows(b),
         NEW in, RowIn(in, F, b), NEW rd \in BOOLEAN,
         CoreClock(in, rd, FALSE), NEW G, G = After(F, in.v, rd)
  PROVE  CoreTyped' /\ RowsInFlight(G, b)'
<1> DEFINE r == ready_wires(in, rd)
<1> DEFINE M(d) == Moves(F, in.v, rd, d)
<1>0. in \in Beats /\ in.v \in BOOLEAN /\ pe \in [Idx \X Idx -> Elements]
  BY DEF RowIn, CoreTyped, Beats
<1>1. /\ \A i, j \in Idx :
           /\ ~Loads(in, r, i, j)
           /\ Calculates(in, rd, r, i, j) <=> M(i + j)
           /\ RightReady(r, i, j) \in BOOLEAN /\ DownReady(r, i, j, rd) \in BOOLEAN
           /\ j # N - 1 => (RightReady(r, i, j) <=> M(i + j + 1))
           /\ Full(F, i + j) => (DownReady(r, i, j, rd) <=> M(i + j + 1))
      /\ \A i \in Idx : \A s \in 0 .. i - 1 : skew_ready(i, s, r) <=> Room(F, rd, s)
      /\ \A i \in Idx : skew_ready(i, i, r) <=> M(i)
  BY RowWires
<1>2. /\ pe' = [c \in Idx \X Idx |-> pe'[c]]
      /\ \A i, j \in Idx :
              pe'[<<i, j>>] = PeStep(pe[<<i, j>>], x_wire(i, j, in), y_wire(i, j),
                                     RightReady(r, i, j), DownReady(r, i, j, rd), FALSE)
      /\ \A i \in Idx : \A s \in 0 .. i - 1 : skew'[i][s] =
              IF skew_ready(i, s, r) /\ x_pipe(i, s, in).v THEN x_pipe(i, s, in)
              ELSE IF skew_ready(i, s + 1, r) THEN [skew[i][s] EXCEPT !.v = FALSE]
              ELSE skew[i][s]
      /\ \A j \in Idx : \A k \in 0 .. DELAY(j) - 1 : deskew'[j][k] =
              IF deskew_ready(j, k, rd) /\ y_pipe(j, k).v THEN y_pipe(j, k)
              ELSE IF deskew_ready(j, k + 1, rd) THEN [deskew[j][k] EXCEPT !.v = FALSE]
              ELSE deskew[j][k]
  BY CoreRegisters
<1> HIDE DEF r
<1>3. \A d \in Stage : /\ Full(G, d) <=> M(d) \/ (Full(F, d) /\ ~M(d + 1))
                       /\ M(d) => G[d + 1] = F[d]
                       /\ ~M(d + 1) => G[d + 1] = F[d + 1]
  BY <1>0, EdgeOfPipeline
<1>4. \A d \in Stage : M(d + 1) <=> Full(F, d) /\ Room(F, rd, d + 1)
  BY <1>0, MovesOn
<1>5. \A d \in Stage : M(d) <=> In(F, in.v, d) /\ Room(F, rd, d)
  BY DEF Moves
<1>6. \A d \in Stage : M(d) => F[d] \in 0 .. Rows(b) - 1
  BY <1>5, TokenOfJob
<1> HIDE DEF M
<1>7. ASSUME NEW i \in Idx, NEW s \in 0 .. i - 1
      PROVE  /\ skew'[i][s] \in Tokens
             /\ skew'[i][s].v <=> Full(G, s)
             /\ Full(G, s) => ~skew'[i][s].lw /\ skew'[i][s].x = Inputs[b][G[s + 1]][i]
  <2>0. s \in Stage /\ s + 1 \in 0 .. i /\ s \in Nat /\ s \in 0 .. i /\ i \in Nat
    BY Indices
  <2>1. /\ skew[i][s] \in Tokens /\ (skew[i][s].v <=> Full(F, s))
        /\ Full(F, s) => ~skew[i][s].lw /\ skew[i][s].x = Inputs[b][F[s + 1]][i]
    BY DEF CoreTyped, RowsInFlight, SkewRows
  <2>2. x_pipe(i, s, in) \in Tokens /\ (x_pipe(i, s, in).v <=> In(F, in.v, s))
    BY <1>0, <2>0, WireTypes, ValidBefore
  <2>3. skew_ready(i, s, r) /\ x_pipe(i, s, in).v <=> M(s)
    BY <2>0, <2>2, <1>1, <1>5
  <2>4. /\ Full(G, s) <=> M(s) \/ (Full(F, s) /\ ~M(s + 1))
        /\ M(s) => G[s + 1] = F[s]
        /\ ~M(s + 1) => G[s + 1] = F[s + 1]
    BY <2>0, <1>3
  <2>5. Full(F, s) => (skew_ready(i, s + 1, r) <=> M(s + 1))
    <3>1. CASE s + 1 = i
      BY <3>1, <1>1
    <3>2. CASE s + 1 # i
      <4>1. s + 1 \in 0 .. i - 1
        BY <3>2, <2>0
      <4>2. skew_ready(i, s + 1, r) <=> Room(F, rd, s + 1)
        BY <4>1, <1>1
      <4> QED
        BY <4>2, <2>0, <1>4
    <3> QED
      BY <3>1, <3>2
  <2>6. CASE M(s)
    <3>1. skew'[i][s] = x_pipe(i, s, in)
      BY <2>3, <2>6, <1>2
    <3>2. ~x_pipe(i, s, in).lw /\ x_pipe(i, s, in).x = Inputs[b][F[s]][i]
      <4>0. x_pipe(i, s, in).v
        BY <2>3, <2>6
      <4>1. CASE s = 0
        <5>1. x_pipe(i, s, in).v = in.v /\ x_pipe(i, s, in).lw = in.lw /\ x_pipe(i, s, in).x = in.x[i]
          BY <4>1 DEF x_pipe
        <5> QED
          BY <5>1, <4>0, <4>1 DEF RowIn
      <4>2. CASE s # 0
        <5>1. s - 1 \in 0 .. i - 1 /\ (s - 1) + 1 = s
          BY <2>0, <4>2
        <5>2. x_pipe(i, s, in) = skew[i][s - 1]
          BY <4>2 DEF x_pipe
        <5>3. skew[i][s - 1].v => /\ ~skew[i][s - 1].lw
                                  /\ skew[i][s - 1].x = Inputs[b][F[(s - 1) + 1]][i]
          BY <5>1 DEF RowsInFlight, SkewRows
        <5> QED
          BY <5>1, <5>2, <5>3, <4>0
      <4> QED
        BY <4>1, <4>2
    <3> QED
      BY <3>1, <3>2, <2>2, <2>3, <2>4, <2>6
  <2>7. CASE ~M(s) /\ Full(F, s) /\ ~M(s + 1)
    <3>1. skew'[i][s] = skew[i][s]
      BY <2>3, <2>5, <2>7, <1>2
    <3> QED
      BY <3>1, <2>1, <2>4, <2>7
  <2>8. CASE ~M(s) /\ ~(Full(F, s) /\ ~M(s + 1))
    <3>1. skew'[i][s] = [skew[i][s] EXCEPT !.v = FALSE] \/ (skew'[i][s] = skew[i][s] /\ ~skew[i][s].v)
      BY <2>1, <2>3, <2>5, <2>8, <1>2
    <3>2. skew'[i][s] \in Tokens /\ ~skew'[i][s].v
      BY <3>1, <2>1 DEF Tokens
    <3> QED
      BY <3>2, <2>4, <2>8
  <2> QED
    BY <2>6, <2>7, <2>8
<1>8. ASSUME NEW j \in Idx, NEW k \in 0 .. DELAY(j) - 1
      PROVE  /\ deskew'[j][k] \in Results
             /\ deskew'[j][k].v <=> Full(G, N + j + k)
             /\ Full(G, N + j + k) => deskew'[j][k].y = Partial(b, G[N + j + k + 1], j, N)
  <2> DEFINE d == N + j + k
  <2>0. /\ d \in Stage /\ k \in 0 .. DELAY(j) /\ k + 1 \in 0 .. DELAY(j) /\ k \in Nat /\ j \in Nat
        /\ N \in Nat /\ N > 0 /\ N - 1 \in Idx
    <3>1. DELAY(j) \in Nat /\ k \in Nat /\ j \in Nat
      BY Indices
    <3> QED
      BY <3>1, Indices
  <2>1. /\ deskew[j][k] \in Results /\ (deskew[j][k].v <=> Full(F, d))
        /\ Full(F, d) => deskew[j][k].y = Partial(b, F[d + 1], j, N)
    BY DEF CoreTyped, RowsInFlight, DeskewRows
  <2>2. y_pipe(j, k) \in Results
    BY <1>0, <2>0, WireTypes
  <2>3. y_pipe(j, k).v <=> Full(F, (N - 1) + j + k)
    BY <2>0, DeskewRoom
  <2>4. deskew_ready(j, k, rd) <=> Room(F, rd, d)
    BY <2>0, DeskewRoom
  <2>5. deskew_ready(j, k + 1, rd) <=> Room(F, rd, d + 1)
    <3>1. deskew_ready(j, k + 1, rd) <=> Room(F, rd, N + j + (k + 1))
      BY <2>0, DeskewRoom
    <3>2. N + j + (k + 1) = d + 1
      BY <2>0
    <3> QED
      BY <3>1, <3>2
  <2>6. d # 0 /\ d - 1 = (N - 1) + j + k /\ d \in Nat
    BY <2>0
  <2>7. In(F, in.v, d) <=> Full(F, d - 1)
    <3>1. \A e : e # 0 => (In(F, in.v, e) <=> Full(F, e - 1))
      BY DEF In
    <3> QED
      BY <3>1, <2>6
  <2>8. deskew_ready(j, k, rd) /\ y_pipe(j, k).v <=> M(d)
    <3> HIDE DEF d
    <3> QED
      BY <2>0, <2>3, <2>4, <2>6, <2>7, <1>5
  <2>9. /\ Full(G, d) <=> M(d) \/ (Full(F, d) /\ ~M(d + 1))
        /\ M(d) => G[d + 1] = F[d]
        /\ ~M(d + 1) => G[d + 1] = F[d + 1]
        /\ M(d + 1) <=> Full(F, d) /\ Room(F, rd, d + 1)
    BY <2>0, <1>3, <1>4
  <2>10. deskew'[j][k] =
              IF deskew_ready(j, k, rd) /\ y_pipe(j, k).v THEN y_pipe(j, k)
              ELSE IF deskew_ready(j, k + 1, rd) THEN [deskew[j][k] EXCEPT !.v = FALSE]
              ELSE deskew[j][k]
    BY <1>2
  <2>11. CASE M(d)
    <3>1. deskew'[j][k] = y_pipe(j, k) /\ y_pipe(j, k).v
      BY <2>8, <2>10, <2>11
    <3>2. y_pipe(j, k).y = Partial(b, F[d], j, N)
      <4>1. CASE k = 0
        <5>1. pe[<<N - 1, j>>].vy => pe[<<N - 1, j>>].y = Partial(b, F[(N - 1) + j + 1], j, (N - 1) + 1)
          BY <2>0 DEF RowsInFlight, ArrayRows
        <5>2. y_pipe(j, k).v = pe[<<N - 1, j>>].vy /\ y_pipe(j, k).y = pe[<<N - 1, j>>].y
          BY <4>1 DEF y_pipe
        <5>3. (N - 1) + j + 1 = d /\ (N - 1) + 1 = N
          BY <2>0, <4>1
        <5> QED
          BY <3>1, <5>1, <5>2, <5>3
      <4>2. CASE k # 0
        <5>1. k - 1 \in 0 .. DELAY(j) - 1 /\ N + j + (k - 1) + 1 = d
          <6>1. DELAY(j) \in Nat
            BY Indices
          <6> QED
            BY <4>2, <2>0, <6>1
        <5>2. y_pipe(j, k) = deskew[j][k - 1]
          BY <4>2 DEF y_pipe
        <5>3. deskew[j][k - 1].v => deskew[j][k - 1].y = Partial(b, F[N + j + (k - 1) + 1], j, N)
          BY <5>1 DEF RowsInFlight, DeskewRows
        <5> QED
          BY <3>1, <5>1, <5>2, <5>3
      <4> QED
        BY <4>1, <4>2
    <3>3. G[d + 1] = F[d] /\ Full(G, d)
      BY <2>9, <2>11
    <3> QED
      BY <3>1, <3>2, <3>3, <2>2
  <2>12. CASE ~M(d) /\ Full(F, d) /\ ~M(d + 1)
    <3>1. deskew'[j][k] = deskew[j][k]
      BY <2>5, <2>8, <2>9, <2>10, <2>12
    <3> QED
      BY <3>1, <2>1, <2>9, <2>12
  <2>13. CASE ~M(d) /\ ~(Full(F, d) /\ ~M(d + 1))
    <3>1. deskew'[j][k] = [deskew[j][k] EXCEPT !.v = FALSE]
          \/ (deskew'[j][k] = deskew[j][k] /\ ~deskew[j][k].v)
      BY <2>1, <2>5, <2>8, <2>9, <2>10, <2>13
    <3>2. deskew'[j][k] \in Results /\ ~deskew'[j][k].v
      BY <3>1, <2>1 DEF Results
    <3>3. ~Full(G, d)
      BY <2>9, <2>13
    <3> QED
      BY <3>2, <3>3
  <2> QED
    BY <2>11, <2>12, <2>13
<1>9. ASSUME NEW i \in Idx, NEW j \in Idx
      PROVE  /\ pe'[<<i, j>>] \in Elements
             /\ pe'[<<i, j>>].active = Weights[b][<<i, j>>]
             /\ pe'[<<i, j>>].vy <=> Full(G, i + j)
             /\ Full(G, i + j) => pe'[<<i, j>>].y = Partial(b, G[i + j + 1], j, i + 1)
             /\ j # N - 1 => /\ pe'[<<i, j>>].vx <=> Full(G, i + j)
                             /\ Full(G, i + j) => /\ ~pe'[<<i, j>>].ws
                                                  /\ pe'[<<i, j>>].x = Inputs[b][G[i + j + 1]][i]
  <2> DEFINE p == pe[<<i, j>>]
  <2> DEFINE q == pe'[<<i, j>>]
  <2> DEFINE xin == x_wire(i, j, in)
  <2> DEFINE yin == y_wire(i, j)
  <2> DEFINE rx == RightReady(r, i, j)
  <2> DEFINE ry == DownReady(r, i, j, rd)
  <2> DEFINE d == i + j
  <2>0. d \in Stage /\ d \in Nat /\ i \in Nat /\ j \in Nat /\ N \in Nat /\ N > 0 /\ i + j + 1 = d + 1
    BY Indices
  <2>1. p \in Elements /\ xin \in Tokens /\ yin \in Results /\ rx \in BOOLEAN /\ ry \in BOOLEAN
    BY <1>0, <1>1, WireTypes
  <2>2. q = PeStep(p, xin, yin, rx, ry, FALSE)
    BY <1>2
  <2>3. /\ ~fire_load(p, xin, rx)
        /\ fire_calc(p, xin, yin, rx, ry) <=> M(d)
        /\ j # N - 1 => (rx <=> M(d + 1))
        /\ Full(F, d) => (ry <=> M(d + 1))
    BY <1>1, <2>0 DEF Loads, Calculates
  <2>4. Stepped(p, xin, yin, rx, ry, FALSE, q)
    <3> HIDE DEF p, q, xin, yin, rx, ry
    <3>1. FALSE \in BOOLEAN
      OBVIOUS
    <3> QED
      BY <2>1, <2>2, <3>1, ElementStep
  <2>5. /\ p.active = Weights[b][<<i, j>>]
        /\ p.vy <=> Full(F, d)
        /\ Full(F, d) => p.y = Partial(b, F[d + 1], j, i + 1)
        /\ j # N - 1 => /\ p.vx <=> Full(F, d)
                        /\ Full(F, d) => ~p.ws /\ p.x = Inputs[b][F[d + 1]][i]
    <3>1. /\ pe[<<i, j>>].active = Weights[b][<<i, j>>]
          /\ pe[<<i, j>>].vy <=> Full(F, i + j)
          /\ Full(F, i + j) => pe[<<i, j>>].y = Partial(b, F[i + j + 1], j, i + 1)
          /\ j # N - 1 => /\ pe[<<i, j>>].vx <=> Full(F, i + j)
                          /\ Full(F, i + j) => /\ ~pe[<<i, j>>].ws
                                               /\ pe[<<i, j>>].x = Inputs[b][F[i + j + 1]][i]
      BY DEF RowsInFlight, ArrayRows
    <3> QED
      BY <3>1, <2>0
  <2>6. /\ Full(G, d) <=> M(d) \/ (Full(F, d) /\ ~M(d + 1))
        /\ M(d) => G[d + 1] = F[d]
        /\ ~M(d + 1) => G[d + 1] = F[d + 1]
    BY <2>0, <1>3
  <2>7. CASE M(d)
    <3>1. /\ q \in Elements /\ q.active = p.active
          /\ q.x = xin.x /\ q.y = add_out(p, xin, yin) /\ q.vx /\ q.vy /\ ~q.ws
      <4> HIDE DEF p, q, xin, yin, rx, ry, d
      <4> QED
        BY <2>3, <2>4, <2>7 DEF Stepped
    <3>2. F[d] \in 0 .. Rows(b) - 1
      BY <1>6, <2>0, <2>7
    <3>3. xin.v /\ yin.v
      <4> HIDE DEF p, q, xin, yin, rx, ry, d
      <4> QED
        BY <2>3, <2>7 DEF fire_calc
    <3>4. xin.x = Inputs[b][F[d]][i]
      <4>1. CASE i = 0 /\ j = 0
        <5>1. xin.x = in.x[i] /\ xin.v = in.v /\ d = 0
          BY <4>1 DEF x_wire, x_pipe
        <5> QED
          BY <5>1, <3>3 DEF RowIn
      <4>2. CASE i # 0 /\ j = 0
        <5>1. i - 1 \in 0 .. i - 1 /\ (i - 1) + 1 = d
          BY <4>2, <2>0
        <5>2. xin = skew[i][i - 1]
          BY <4>2 DEF x_wire, x_pipe
        <5>3. skew[i][i - 1].v => skew[i][i - 1].x = Inputs[b][F[(i - 1) + 1]][i]
          BY <5>1 DEF RowsInFlight, SkewRows
        <5> QED
          BY <5>1, <5>2, <5>3, <3>3
      <4>3. CASE j # 0
        <5>1. j - 1 \in Idx /\ j - 1 # N - 1 /\ i + (j - 1) + 1 = d
          BY <4>3, <2>0 DEF Idx
        <5>2. xin.x = pe[<<i, j - 1>>].x /\ xin.v = pe[<<i, j - 1>>].vx
          BY <4>3 DEF x_wire
        <5>3. pe[<<i, j - 1>>].vx => pe[<<i, j - 1>>].x = Inputs[b][F[i + (j - 1) + 1]][i]
          BY <5>1 DEF RowsInFlight, ArrayRows
        <5> QED
          BY <5>1, <5>2, <5>3, <3>3
      <4> QED
        BY <4>1, <4>2, <4>3
    <3>5. add_out(p, xin, yin) = Partial(b, F[d], j, i + 1)
      <4>0. add_out(p, xin, yin) = SignedAcc(yin.y + Inputs[b][F[d]][i] * Weights[b][<<i, j>>])
        BY <3>4, <2>5 DEF add_out
      <4>1. CASE i = 0
        <5>1. yin.y = 0 /\ i + 1 = 1
          BY <4>1 DEF y_wire
        <5>2. SignedAcc(0 + Inputs[b][F[d]][0] * Weights[b][<<0, j>>]) = Partial(b, F[d], j, 1)
          BY <3>2, PartialStep
        <5> QED
          BY <4>0, <4>1, <5>1, <5>2
      <4>2. CASE i # 0
        <5>1. i - 1 \in Idx /\ (i - 1) + j + 1 = d /\ (i - 1) + 1 = i
          BY <4>2, <2>0 DEF Idx
        <5>2. yin.v = pe[<<i - 1, j>>].vy /\ yin.y = pe[<<i - 1, j>>].y
          BY <4>2 DEF y_wire
        <5>3. pe[<<i - 1, j>>].vy => pe[<<i - 1, j>>].y = Partial(b, F[(i - 1) + j + 1], j, (i - 1) + 1)
          BY <5>1 DEF RowsInFlight, ArrayRows
        <5>4. yin.y = Partial(b, F[d], j, i)
          BY <5>1, <5>2, <5>3, <3>3
        <5>5. SignedAcc(Partial(b, F[d], j, i) + Inputs[b][F[d]][i] * Weights[b][<<i, j>>])
                = Partial(b, F[d], j, i + 1)
          BY <3>2, PartialStep
        <5> QED
          BY <4>0, <5>4, <5>5
      <4> QED
        BY <4>1, <4>2
    <3>6. G[d + 1] = F[d] /\ Full(G, d)
      BY <2>6, <2>7
    <3> QED
      <4> HIDE DEF xin, yin, rx, ry
      <4>1. /\ q \in Elements /\ q.active = Weights[b][<<i, j>>] /\ q.vx /\ q.vy /\ ~q.ws
            /\ q.x = Inputs[b][G[d + 1]][i] /\ q.y = Partial(b, G[d + 1], j, i + 1)
        BY <3>1, <3>4, <3>5, <3>6, <2>5
      <4> QED
        BY <4>1, <3>6, <2>0
  <2>8. CASE ~M(d)
    <3>1. /\ q \in Elements /\ q.active = p.active /\ q.x = p.x /\ q.y = p.y /\ q.ws = p.ws
          /\ q.vx = (p.vx /\ ~rx) /\ q.vy = (p.vy /\ ~ry)
      <4> HIDE DEF p, q, xin, yin, rx, ry, d
      <4> QED
        BY <2>3, <2>4, <2>8 DEF Stepped
    <3>2. q.vy <=> Full(F, d) /\ ~M(d + 1)
      <4> HIDE DEF p, q, xin, yin, rx, ry, d
      <4> QED
        BY <3>1, <2>3, <2>5
    <3>3. j # N - 1 => (q.vx <=> Full(F, d) /\ ~M(d + 1))
      <4> HIDE DEF p, q, xin, yin, rx, ry, d
      <4> QED
        BY <3>1, <2>3, <2>5
    <3>4. Full(G, d) <=> Full(F, d) /\ ~M(d + 1)
      BY <2>6, <2>8
    <3>5. /\ q.active = Weights[b][<<i, j>>] /\ (q.vy <=> Full(G, d))
          /\ Full(G, d) => q.y = Partial(b, G[d + 1], j, i + 1)
          /\ j # N - 1 => /\ q.vx <=> Full(G, d)
                          /\ Full(G, d) => ~q.ws /\ q.x = Inputs[b][G[d + 1]][i]
      <4> HIDE DEF p, q, xin, yin, rx, ry, d
      <4> QED
        BY <3>1, <3>2, <3>3, <3>4, <2>5, <2>6
    <3> QED
      BY <3>1, <3>5, <2>0
  <2> QED
    BY <2>7, <2>8
<1>10. pe' \in [Idx \X Idx -> Elements]
  <2>1. \A c \in Idx \X Idx : pe'[c] \in Elements
    <3>1. ASSUME NEW c \in Idx \X Idx PROVE pe'[c] \in Elements
      <4>1. PICK i \in Idx, j \in Idx : c = <<i, j>>
        OBVIOUS
      <4> QED
        BY <4>1, <1>9
    <3> QED
      BY <3>1
  <2> QED
    BY <2>1, <1>2
<1>11. CoreTyped'
  BY <1>7, <1>8, <1>10 DEF CoreTyped, Idx, DELAY
<1>12. SkewRows(G, b)'
  BY <1>7 DEF SkewRows, Idx
<1>13. ArrayRows(G, b)'
  BY <1>9 DEF ArrayRows, Idx
<1>14. DeskewRows(G, b)'
  BY <1>8 DEF DeskewRows, Idx, DELAY, Partial, Dot
<1> QED
  BY <1>11, <1>12, <1>13, <1>14 DEF RowsInFlight

----------------------------------------------------------------------------
(* The bench: every step keeps the invariant.                              *)

\* While weights are loaded every beat is accepted by every row.
LEMMA WeightsAccepted ==
  ASSUME CoreTyped, NEW b, NEW F, Elastic(F), WeightsInFlight(F, b),
         NEW in, WeightIn(in, F, b), NEW rd \in BOOLEAN, in.v
  PROVE  ready_out(in, rd) /\ \A i \in Idx : skew_ready(i, 0, ready_wires(in, rd))
<1> DEFINE r == ready_wires(in, rd)
<1>1. /\ \A i \in Idx : \A s \in 0 .. i - 1 : skew_ready(i, s, r)
      /\ \A i \in Idx : skew_ready(i, i, r) <=> x_pipe(i, i, in).v
  BY WeightWires
<1> HIDE DEF r
<1>2. ASSUME NEW i \in Idx PROVE skew_ready(i, 0, r)
  <2>1. CASE i = 0
    <3>1. x_pipe(i, i, in).v = in.v
      BY <2>1 DEF x_pipe
    <3> QED
      BY <1>1, <2>1, <3>1
  <2>2. CASE i # 0
    <3>0. i \in Nat
      BY Indices
    <3>1. 0 \in 0 .. i - 1
      BY <2>2, <3>0
    <3> QED
      BY <1>1, <3>1
  <2> QED
    BY <2>1, <2>2
<1> QED
  BY <1>2 DEF ready_out, r

\* While rows stream, all rows of the core accept a beat or none does.
LEMMA RowsAccepted ==
  ASSUME CoreTyped, NEW b, NEW F, Elastic(F), RowsInFlight(F, b),
         NEW in, RowIn(in, F, b), NEW rd \in BOOLEAN
  PROVE  /\ in.v => \A i \in Idx : skew_ready(i, 0, ready_wires(in, rd)) <=> Room(F, rd, 0)
         /\ in.v /\ ready_out(in, rd) <=> Moves(F, in.v, rd, 0)
<1> DEFINE r == ready_wires(in, rd)
<1>1. /\ \A i \in Idx : \A s \in 0 .. i - 1 : skew_ready(i, s, r) <=> Room(F, rd, s)
      /\ \A i \in Idx : skew_ready(i, i, r) <=> Moves(F, in.v, rd, i)
  BY RowWires
<1> HIDE DEF r
<1>2. Moves(F, in.v, rd, 0) <=> in.v /\ Room(F, rd, 0)
  BY DEF Moves, In
<1>3. ASSUME NEW i \in Idx, in.v PROVE skew_ready(i, 0, r) <=> Room(F, rd, 0)
  <2>1. CASE i = 0
    BY <1>1, <1>2, <1>3, <2>1
  <2>2. CASE i # 0
    <3>0. i \in Nat
      BY Indices
    <3>1. 0 \in 0 .. i - 1
      BY <2>2, <3>0
    <3> QED
      BY <1>1, <3>1
  <2> QED
    BY <2>1, <2>2
<1>4. ready_out(in, rd) <=> \A i \in Idx : skew_ready(i, 0, r)
  BY DEF ready_out, r
<1>5. 0 \in Idx
  BY Indices
<1> QED
  BY <1>2, <1>3, <1>4, <1>5 DEF r

\* The counts of an empty pipeline.
Zero == [d \in 0 .. End + 1 |-> 0]

\* An empty pipeline is one, and has no token in it.
LEMMA ZeroEmpty ==
  /\ Elastic(Zero) /\ Zero \in Counts /\ Zero[0] = 0 /\ Zero[End + 1] = 0
  /\ \A d \in Stage : ~Full(Zero, d) /\ Zero[d] = 0
<1>1. End \in Nat
  BY Indices
<1>2. \A d \in 0 .. End + 1 : Zero[d] = 0
  BY DEF Zero
<1>3. Zero \in Counts
  BY DEF Zero, Counts
<1>4. \A d \in Stage : d \in 0 .. End + 1 /\ d + 1 \in 0 .. End + 1
  BY <1>1 DEF Stage
<1>5. 0 \in 0 .. End + 1 /\ End + 1 \in 0 .. End + 1
  BY <1>1
<1>6. \A d \in Stage : Zero[d] = 0 /\ Zero[d + 1] = 0
  BY <1>2, <1>4
<1> QED
  BY <1>2, <1>3, <1>5, <1>6 DEF Elastic, Full

\* The first job exists.
LEMMA FirstJob == 0 \in Jobs /\ Cardinality(Jobs) \in Nat
<1>1. Cardinality(Jobs) \in Nat
  BY BenchAssumption, FS_CardinalityType
<1>2. PICK x \in Jobs : TRUE
  BY BenchAssumption
<1>3. x \in 0 .. Cardinality(Jobs) - 1
  BY BenchAssumption
<1>4. 0 \in 0 .. Cardinality(Jobs) - 1
  BY <1>1, <1>3
<1> QED
  BY <1>1, <1>4, BenchAssumption

\* Reset leaves the core empty.
LEMMA InitIInv == Init => IInv
<1>1. SUFFICES ASSUME Init PROVE IInv
  OBVIOUS
<1>2. CoreTyped
  <2>1. \A i \in Idx : \A s \in 0 .. i - 1 : skew[i][s] \in Tokens
    BY <1>1 DEF Init, CoreReset, Tokens
  <2>2. PeReset \in Elements
    BY DEF PeReset, Elements
  <2>3. pe \in [Idx \X Idx -> Elements]
    BY <1>1, <2>2 DEF Init, CoreReset
  <2>4. \A j \in Idx : \A k \in 0 .. DELAY(j) - 1 : deskew[j][k] \in Results
    BY <1>1 DEF Init, CoreReset, Results
  <2> QED
    BY <2>1, <2>3, <2>4 DEF CoreTyped
<1>3. BenchTyped
  BY <1>1, FirstJob DEF Init, BenchTyped
<1>4. WeightsInFlight(Zero, 0)
  <2>1. SkewWeights(Zero, 0)
    <3>1. \A i \in Idx : \A s \in 0 .. i - 1 : ~skew[i][s].v /\ ~Full(Zero, s)
      BY <1>1, ZeroEmpty, Indices DEF Init, CoreReset
    <3> QED
      BY <3>1 DEF SkewWeights
  <2>2. ArrayWeights(Zero, 0)
    <3>1. ASSUME NEW i \in Idx, NEW j \in Idx
          PROVE  /\ ~pe[<<i, j>>].vy /\ ~pe[<<i, j>>].vx /\ ~Full(Zero, i + j)
                 /\ ~(Zero[i + j] >= j + 1)
      <4>1. ~pe[<<i, j>>].vy /\ ~pe[<<i, j>>].vx
        BY <1>1 DEF Init, CoreReset, PeReset
      <4>2. i + j \in Stage /\ j \in Nat
        BY Indices
      <4>3. ~Full(Zero, i + j) /\ Zero[i + j] = 0
        BY <4>2, ZeroEmpty
      <4> QED
        BY <4>1, <4>2, <4>3
    <3> QED
      BY <3>1 DEF ArrayWeights
  <2>3. DeskewEmpty
    BY <1>1 DEF Init, CoreReset, DeskewEmpty
  <2> QED
    BY <2>1, <2>2, <2>3 DEF WeightsInFlight
<1>5. LoadsWeights(Zero, 0)
  <2>1. N \in Nat /\ N > 0 /\ LATCH_GAP \in Nat
    BY NAssumption, BenchAssumption
  <2> QED
    BY <1>1, <1>4, <2>1, ZeroEmpty DEF LoadsWeights, Init
<1>6. phase = "weights" /\ Zero \in Counts /\ 0 \in Jobs
  BY <1>1, ZeroEmpty, FirstJob DEF Init
<1> QED
  BY <1>2, <1>3, <1>5, <1>6 DEF IInv

\* An edge without a beat fits both phases.
LEMMA NoBeatFits ==
  ASSUME NEW F, NEW b
  PROVE  WeightIn(NoBeat, F, b) /\ RowIn(NoBeat, F, b) /\ NoBeat.v = FALSE /\ NoBeat.lw = FALSE
<1>1. [i \in Idx |-> 0] \in [Idx -> Int]
  OBVIOUS
<1>2. NoBeat \in Beats
  BY <1>1 DEF NoBeat, Beats
<1>3. NoBeat.v = FALSE /\ NoBeat.lw = FALSE
  BY DEF NoBeat
<1> QED
  BY <1>2, <1>3 DEF WeightIn, RowIn

\* An edge in the weight phase: the counts shift, nothing is collected.
LEMMA EdgeLoads ==
  ASSUME CoreTyped, BenchTyped, NEW F, NEW b, LoadsWeights(F, b),
         NEW in, WeightIn(in, F, b), NEW rd \in BOOLEAN, Edge(in, rd),
         NEW G, G = Shifted(F, in.v)
  PROVE  /\ CoreTyped' /\ WeightsInFlight(G, b)' /\ Elastic(G) /\ G[0] = sent'
         /\ sent' = IF in.v THEN sent + 1 ELSE sent
         /\ got' = got /\ accepted' = accepted
         /\ \A d \in Stage : G[d + 1] = F[d]
<1>1. /\ b = job /\ Elastic(F) /\ WeightsInFlight(F, b) /\ F[0] = sent
      /\ sent \in Nat /\ accepted \in Nat /\ got \in Nat
  BY DEF LoadsWeights, BenchTyped
<1>2. in \in Beats /\ in.v \in BOOLEAN /\ (in.v <=> in.lw)
  BY DEF WeightIn, Beats
<1>3. CoreClock(in, rd, FALSE) /\ TakeRow(rd)
  BY DEF Edge
<1>4. CoreTyped' /\ WeightsInFlight(G, b)'
  <2>1. FALSE \in BOOLEAN
    OBVIOUS
  <2> QED
    BY <1>1, <1>3, <2>1, WeightsEdge
<1>5. /\ Elastic(G) /\ G[0] = IF in.v THEN F[0] + 1 ELSE F[0]
      /\ \A d \in Stage : G[d + 1] = F[d]
  BY <1>1, <1>2, ShiftStep
<1>6. got' = got
  BY <1>1, <1>3, NoResults DEF TakeRow
<1>7. in.v => ready_out(in, rd)
  BY <1>1, WeightsAccepted
<1> DEFINE taken == IF in.v /\ ready_out(in, rd) THEN 1 ELSE 0
<1>8. sent' = sent + taken /\ accepted' = IF in.lw THEN accepted ELSE accepted + taken
  BY DEF Edge
<1>9. taken = IF in.v THEN 1 ELSE 0
  BY <1>7
<1> HIDE DEF taken
<1>10. sent' = (IF in.v THEN sent + 1 ELSE sent) /\ accepted' = accepted
  BY <1>1, <1>2, <1>8, <1>9
<1> QED
  BY <1>1, <1>4, <1>5, <1>6, <1>10

\* The weights of a job go in one column after the other.
LEMMA LoadWeightsKeeps ==
  ASSUME IInv, NEW valid \in BOOLEAN, NEW ready \in BOOLEAN, LoadWeights(valid, ready)
  PROVE  IInv'
<1>1. /\ CoreTyped /\ BenchTyped /\ phase = "weights" /\ sent < N
      /\ UNCHANGED <<job, phase, gap>> /\ Edge(WeightBeat(valid), ready)
  BY DEF IInv, LoadWeights
<1>2. PICK F \in Counts, b \in Jobs : LoadsWeights(F, b)
  BY <1>1 DEF IInv
<1> DEFINE in == WeightBeat(valid)
<1> DEFINE G == Shifted(F, valid)
<1>3. /\ sent \in Nat /\ gap \in Nat /\ accepted \in Nat /\ got \in Nat /\ N \in Nat /\ b = job
      /\ F[0] = sent /\ got = accepted /\ gap = 0 /\ End \in Nat /\ LATCH_GAP \in Nat
  <2>1. sent \in Nat /\ gap \in Nat /\ accepted \in Nat /\ got \in Nat
    BY <1>1 DEF BenchTyped
  <2>2. N \in Nat /\ End \in Nat /\ LATCH_GAP \in Nat
    BY Indices, BenchAssumption
  <2>3. b = job /\ F[0] = sent /\ got = accepted /\ (gap > 0 => sent = N)
    BY <1>2 DEF LoadsWeights
  <2> QED
    BY <1>1, <2>1, <2>2, <2>3
<1>4. in.v = valid /\ in.lw = valid /\ in.x = [i \in Idx |-> Weights[job][<<i, N - 1 - sent>>]]
  BY DEF WeightBeat
<1>5. WeightIn(in, F, b)
  <2>1. N - 1 - sent \in Idx
    BY <1>1, <1>3 DEF Idx
  <2>2. in.x \in [Idx -> Int]
    BY <1>3, <1>4, <2>1, BenchAssumption
  <2>3. in = [v |-> valid, lw |-> valid, x |-> in.x]
    BY DEF WeightBeat
  <2>4. in \in Beats
    <3> HIDE DEF in
    <3> QED
      BY <2>2, <2>3 DEF Beats
  <2>5. \A i \in Idx : in.x[i] = Weights[b][<<i, N - 1 - F[0]>>]
    BY <1>3, <1>4
  <2> QED
    BY <1>4, <2>4, <2>5 DEF WeightIn
<1>6. G = Shifted(F, in.v)
  BY <1>4
<1> HIDE DEF in, G
<1>7. /\ CoreTyped' /\ WeightsInFlight(G, b)' /\ Elastic(G) /\ G[0] = sent'
      /\ sent' = IF in.v THEN sent + 1 ELSE sent
      /\ got' = got /\ accepted' = accepted
      /\ \A d \in Stage : G[d + 1] = F[d]
  BY <1>1, <1>2, <1>5, <1>6, EdgeLoads DEF in
<1>8. BenchTyped'
  BY <1>1, <1>3, <1>7 DEF BenchTyped
<1>9. LoadsWeights(G, b)'
  <2>1. sent' <= N /\ gap' = 0 /\ got' = accepted' /\ b = job'
    BY <1>1, <1>3, <1>7
  <2>2. \A d \in 0 .. End + 1 : d <= 0 => d = 0
    BY <1>3
  <2> QED
    BY <1>3, <1>7, <2>1, <2>2 DEF LoadsWeights
<1>10. G \in Counts /\ phase' = "weights"
  BY <1>1, <1>7 DEF Elastic
<1> QED
  BY <1>2, <1>7, <1>8, <1>9, <1>10 DEF IInv

\* While the software polls, the last weights travel on.
LEMMA PollIdleKeeps ==
  ASSUME IInv, NEW ready \in BOOLEAN, PollIdle(ready)
  PROVE  IInv'
<1>1. /\ CoreTyped /\ BenchTyped /\ phase = "weights" /\ sent = N /\ gap < LATCH_GAP
      /\ UNCHANGED <<job, phase>> /\ gap' = gap + 1 /\ Edge(NoBeat, ready)
  BY DEF IInv, PollIdle
<1>2. PICK F \in Counts, b \in Jobs : LoadsWeights(F, b)
  BY <1>1 DEF IInv
<1> DEFINE G == Shifted(F, FALSE)
<1>3. /\ sent \in Nat /\ gap \in Nat /\ accepted \in Nat /\ got \in Nat /\ N \in Nat /\ b = job
      /\ F[0] = sent /\ got = accepted /\ End \in Nat /\ LATCH_GAP \in Nat
      /\ \A d \in 0 .. End + 1 : d <= gap => F[d] = N
  BY <1>1, <1>2, Indices, BenchAssumption DEF BenchTyped, LoadsWeights
<1>4. WeightIn(NoBeat, F, b) /\ G = Shifted(F, NoBeat.v) /\ NoBeat.v = FALSE
  BY NoBeatFits
<1> HIDE DEF G
<1>5. /\ CoreTyped' /\ WeightsInFlight(G, b)' /\ Elastic(G) /\ G[0] = sent'
      /\ sent' = IF NoBeat.v THEN sent + 1 ELSE sent
      /\ got' = got /\ accepted' = accepted
      /\ \A d \in Stage : G[d + 1] = F[d]
  BY <1>1, <1>2, <1>4, EdgeLoads
<1>6. sent' = sent
  BY <1>4, <1>5
<1>7. BenchTyped'
  BY <1>1, <1>3, <1>5, <1>6 DEF BenchTyped
<1>8. ASSUME NEW d \in 0 .. End + 1, d <= gap' PROVE G[d] = N
  <2>1. CASE d = 0
    BY <1>1, <1>5, <1>6, <2>1
  <2>2. CASE d # 0
    <3>1. d - 1 \in Stage /\ (d - 1) + 1 = d /\ d - 1 \in 0 .. End + 1 /\ d - 1 <= gap
      BY <1>1, <1>3, <1>8, <2>2 DEF Stage
    <3> QED
      BY <3>1, <1>3, <1>5
  <2> QED
    BY <2>1, <2>2
<1>9. LoadsWeights(G, b)'
  <2>1. sent' <= N /\ sent' = N /\ gap' <= LATCH_GAP /\ got' = accepted' /\ b = job'
    BY <1>1, <1>3, <1>5, <1>6
  <2> QED
    BY <1>3, <1>5, <1>8, <2>1 DEF LoadsWeights
<1>10. G \in Counts /\ phase' = "weights"
  BY <1>1, <1>5 DEF Elastic
<1> QED
  BY <1>2, <1>5, <1>7, <1>9, <1>10 DEF IInv

\* When the latch is written, every weight has arrived.
LEMMA LatchKeeps ==
  ASSUME LATCH_GAP >= 2 * N - 2, IInv, NEW ready \in BOOLEAN, Latch(ready)
  PROVE  IInv'
<1>1. /\ CoreTyped /\ BenchTyped /\ phase = "weights" /\ sent = N /\ gap = LATCH_GAP
      /\ UNCHANGED <<job, accepted>> /\ phase' = "rows" /\ sent' = 0 /\ gap' = 0
      /\ CoreClock(NoBeat, ready, TRUE) /\ TakeRow(ready)
  BY DEF IInv, Latch
<1>2. PICK F \in Counts, b \in Jobs : LoadsWeights(F, b)
  BY <1>1 DEF IInv
<1> DEFINE G == Shifted(F, FALSE)
<1>3. /\ accepted \in Nat /\ got \in Nat /\ b = job /\ got = accepted
      /\ Elastic(F) /\ WeightsInFlight(F, b)
  BY <1>1, <1>2 DEF BenchTyped, LoadsWeights
<1>4. N \in Nat /\ N > 0 /\ End \in Nat /\ End = 2 * N - 2 /\ LATCH_GAP \in Nat
  BY Indices, BenchAssumption
<1>5. \A d \in Stage : F[d] = N
  <2>1. \A d \in 0 .. End + 1 : d <= LATCH_GAP => F[d] = N
    BY <1>1, <1>2 DEF LoadsWeights
  <2>2. \A d \in Stage : d \in 0 .. End + 1 /\ d <= LATCH_GAP
    BY <1>4 DEF Stage
  <2> QED
    BY <2>1, <2>2
<1>6. WeightIn(NoBeat, F, b) /\ G = Shifted(F, NoBeat.v) /\ NoBeat.v = FALSE
  BY NoBeatFits
<1>7. Elastic(G) /\ G[0] = F[0] /\ \A d \in Stage : G[d + 1] = F[d]
  <2>1. PICK v \in BOOLEAN : v = FALSE
    OBVIOUS
  <2>2. G = Shifted(F, v)
    BY <2>1
  <2>3. /\ Elastic(G) /\ G[0] = IF v THEN F[0] + 1 ELSE F[0]
        /\ \A d \in Stage : G[d + 1] = F[d]
    <3> HIDE DEF G
    <3> QED
      BY <1>3, <2>2, ShiftStep
  <2> QED
    BY <2>1, <2>3
<1> HIDE DEF G
<1>8. \A d \in Stage : ~Full(G, d) /\ G[d] = N
  <2>1. ASSUME NEW d \in Stage PROVE G[d] = N /\ G[d + 1] = N
    <3>1. G[d + 1] = N
      BY <1>5, <1>7
    <3>2. CASE d = 0
      BY <3>1, <3>2, <1>5, <1>6, <1>7
    <3>3. CASE d # 0
      <4>1. d - 1 \in Stage /\ (d - 1) + 1 = d
        BY <1>4, <3>3 DEF Stage
      <4> QED
        BY <4>1, <3>1, <1>5, <1>7
    <3> QED
      BY <3>2, <3>3
  <2> QED
    BY <2>1, <1>4 DEF Full
<1>9. /\ CoreTyped' /\ WeightsInFlight(G, b)'
      /\ \A i, j \in Idx : pe'[<<i, j>>].active = pe[<<i, j>>].shadow
  <2>1. TRUE \in BOOLEAN
    OBVIOUS
  <2> QED
    BY <1>1, <1>3, <1>6, <2>1, WeightsEdge
<1>10. ASSUME NEW i \in Idx, NEW j \in Idx
       PROVE  pe'[<<i, j>>].active = Weights[b][<<i, j>>]
  <2>1. i + j \in Stage /\ j \in Nat /\ j <= N - 1
    BY Indices
  <2>2. F[i + j] = N
    BY <1>5, <2>1
  <2>3. F[i + j] >= j + 1 /\ N - F[i + j] + j = j
    BY <1>4, <2>1, <2>2
  <2>4. pe[<<i, j>>].shadow = Weights[b][<<i, N - F[i + j] + j>>]
    BY <1>3, <2>3 DEF WeightsInFlight, ArrayWeights
  <2> QED
    BY <2>3, <2>4, <1>9
<1>11. RowsInFlight(Zero, b)'
  <2>1. SkewRows(Zero, b)'
    <3>1. \A i \in Idx : \A s \in 0 .. i - 1 : ~skew'[i][s].v /\ ~Full(Zero, s)
      <4>1. \A i \in Idx : \A s \in 0 .. i - 1 : skew'[i][s].v <=> Full(G, s)
        BY <1>9 DEF WeightsInFlight, SkewWeights, Idx
      <4>2. \A i \in Idx : \A s \in 0 .. i - 1 : s \in Stage
        BY Indices
      <4> QED
        BY <4>1, <4>2, <1>8, ZeroEmpty
    <3> QED
      BY <3>1 DEF SkewRows, Idx
  <2>2. ArrayRows(Zero, b)'
    <3>1. ASSUME NEW i \in Idx, NEW j \in Idx
          PROVE  /\ ~pe'[<<i, j>>].vy /\ ~Full(Zero, i + j)
                 /\ j # N - 1 => ~pe'[<<i, j>>].vx
      <4>1. i + j \in Stage
        BY Indices
      <4>2. ~pe'[<<i, j>>].vy /\ (j # N - 1 => (pe'[<<i, j>>].vx <=> Full(G, i + j)))
        BY <1>9 DEF WeightsInFlight, ArrayWeights, Idx
      <4> QED
        BY <4>1, <4>2, <1>8, ZeroEmpty
    <3> QED
      BY <3>1, <1>10 DEF ArrayRows, Idx
  <2>3. DeskewRows(Zero, b)'
    <3>1. \A j \in Idx : \A k \in 0 .. DELAY(j) - 1 : ~deskew'[j][k].v /\ ~Full(Zero, N + j + k)
      <4>1. \A j \in Idx : \A k \in 0 .. DELAY(j) - 1 : ~deskew'[j][k].v
        BY <1>9 DEF WeightsInFlight, DeskewEmpty, Idx, DELAY
      <4>2. \A j \in Idx : \A k \in 0 .. DELAY(j) - 1 : N + j + k \in Stage
        BY Indices
      <4> QED
        BY <4>1, <4>2, ZeroEmpty
    <3> QED
      BY <3>1 DEF DeskewRows, Idx, DELAY
  <2> QED
    BY <2>1, <2>2, <2>3 DEF RowsInFlight
<1>12. got' = got
  BY <1>1, <1>3, NoResults DEF TakeRow
<1>13. StreamsRows(Zero, b)'
  <2>1. Rows(b) \in Nat
    BY BenchAssumption
  <2>2. b = job' /\ sent' = 0 /\ sent' <= Rows(b) /\ gap' = 0 /\ got' - (accepted' - sent') = 0
    BY <1>1, <1>3, <1>12, <2>1
  <2> QED
    BY <1>11, <2>2, ZeroEmpty DEF StreamsRows, Earlier
<1>14. BenchTyped'
  BY <1>1, <1>3, <1>12 DEF BenchTyped
<1>15. Zero \in Counts /\ phase' = "rows"
  BY <1>1, ZeroEmpty
<1> QED
  BY <1>2, <1>9, <1>13, <1>14, <1>15 DEF IInv

\* An edge in the row phase: what moves into the first stage is accepted,
\* what moves out of the last one is collected.
LEMMA EdgeStreams ==
  ASSUME CoreTyped, BenchTyped, NEW F, NEW b \in Jobs, StreamsRows(F, b),
         NEW in, RowIn(in, F, b), NEW rd \in BOOLEAN, Edge(in, rd),
         UNCHANGED <<job, phase, gap>>,
         NEW G, G = After(F, in.v, rd)
  PROVE  CoreTyped' /\ BenchTyped' /\ StreamsRows(G, b)'
<1>1. /\ b = job /\ Elastic(F) /\ RowsInFlight(F, b) /\ F[0] = sent /\ sent <= Rows(b)
      /\ F[End + 1] = got - (accepted - sent) /\ gap = 0
  BY DEF StreamsRows, Earlier
<1>2. sent \in Nat /\ accepted \in Nat /\ got \in Nat /\ Rows(b) \in Nat
  BY BenchAssumption DEF BenchTyped
<1>3. in \in Beats /\ in.v \in BOOLEAN /\ in.lw = FALSE
  BY DEF RowIn, Beats
<1>4. CoreClock(in, rd, FALSE) /\ TakeRow(rd)
  BY DEF Edge
<1>5. CoreTyped' /\ RowsInFlight(G, b)'
  BY <1>1, <1>4, RowsEdge
<1>6. /\ Elastic(G)
      /\ G[0] = IF Moves(F, in.v, rd, 0) THEN F[0] + 1 ELSE F[0]
      /\ G[End + 1] = IF rd /\ Full(F, End) THEN F[End + 1] + 1 ELSE F[End + 1]
  BY <1>1, <1>3, EdgeOfPipeline
<1>7. in.v /\ ready_out(in, rd) <=> Moves(F, in.v, rd, 0)
  BY <1>1, RowsAccepted
<1>8. valid_out <=> Full(F, End)
  BY <1>1, DeskewRoom
<1>9. got' = IF rd /\ Full(F, End) THEN got + 1 ELSE got
  BY <1>4, <1>8 DEF TakeRow
<1> DEFINE taken == IF in.v /\ ready_out(in, rd) THEN 1 ELSE 0
<1>10. sent' = sent + taken /\ accepted' = accepted + taken
  BY <1>3 DEF Edge
<1>11. taken = IF Moves(F, in.v, rd, 0) THEN 1 ELSE 0
  BY <1>7
<1>12. Moves(F, in.v, rd, 0) => F[0] < Rows(b)
  BY DEF Moves, In, RowIn
<1> HIDE DEF taken
<1>13. /\ G[0] = sent' /\ sent' <= Rows(b) /\ sent' \in Nat /\ accepted' \in Nat /\ got' \in Nat
       /\ G[End + 1] = got' - (accepted' - sent')
  <2>1. taken \in {0, 1}
    BY <1>11
  <2>2. G[0] = sent + taken
    BY <1>1, <1>2, <1>6, <1>11
  <2>3. sent + taken <= Rows(b)
    BY <1>1, <1>2, <1>11, <1>12
  <2>4. got' - ((accepted + taken) - (sent + taken)) = got' - (accepted - sent) /\ got' \in Nat
    BY <1>2, <1>9, <2>1
  <2>5. G[End + 1] = got' - (accepted - sent)
    BY <1>1, <1>2, <1>6, <1>9
  <2> QED
    BY <1>2, <1>10, <2>1, <2>2, <2>3, <2>4, <2>5
<1>14. b = job' /\ gap' = 0
  BY <1>1
<1>15. StreamsRows(G, b)'
  BY <1>5, <1>6, <1>13, <1>14 DEF StreamsRows, Earlier
<1>16. BenchTyped'
  BY <1>13 DEF BenchTyped
<1> QED
  BY <1>5, <1>15, <1>16

\* Rows stream in, and results stream out.
LEMMA StreamRowsKeeps ==
  ASSUME IInv, NEW valid \in BOOLEAN, NEW ready \in BOOLEAN, StreamRows(valid, ready)
  PROVE  IInv'
<1>1. /\ CoreTyped /\ BenchTyped /\ phase = "rows" /\ sent < Rows(job)
      /\ UNCHANGED <<job, phase, gap>> /\ Edge(RowBeat(valid), ready)
  BY DEF IInv, StreamRows
<1>2. PICK F \in Counts, b \in Jobs : StreamsRows(F, b)
  BY <1>1 DEF IInv
<1> DEFINE in == RowBeat(valid)
<1> DEFINE G == After(F, in.v, ready)
<1>3. sent \in Nat /\ b = job /\ F[0] = sent /\ Rows(b) \in Nat
  BY <1>1, <1>2, BenchAssumption DEF BenchTyped, StreamsRows
<1>4. in.v = valid /\ in.lw = FALSE /\ in.x = Inputs[b][sent]
  BY <1>3 DEF RowBeat
<1>5. RowIn(in, F, b)
  <2>1. sent \in 0 .. Rows(b) - 1
    BY <1>1, <1>3
  <2>2. Inputs[b][sent] \in [Idx -> Int]
    BY <2>1, BenchAssumption
  <2>3. in = [v |-> valid, lw |-> FALSE, x |-> Inputs[b][sent]]
    BY <1>3 DEF RowBeat
  <2>4. in \in Beats
    <3> HIDE DEF in
    <3> QED
      BY <2>2, <2>3 DEF Beats
  <2> QED
    BY <1>1, <1>3, <1>4, <2>4 DEF RowIn
<1> HIDE DEF in
<1>6. PICK H : H = G
  OBVIOUS
<1>7. CoreTyped' /\ BenchTyped' /\ StreamsRows(H, b)'
  BY <1>1, <1>2, <1>5, <1>6, EdgeStreams DEF in
<1>8. H \in Counts /\ phase' = "rows"
  BY <1>1, <1>7 DEF StreamsRows, Elastic
<1> QED
  BY <1>2, <1>7, <1>8 DEF IInv

\* The results that are left are collected.
LEMMA CollectKeeps ==
  ASSUME IInv, NEW ready \in BOOLEAN, Collect(ready)
  PROVE  IInv'
<1>1. /\ CoreTyped /\ BenchTyped /\ phase = "rows"
      /\ UNCHANGED <<job, phase, gap>> /\ Edge(NoBeat, ready)
  BY DEF IInv, Collect
<1>2. PICK F \in Counts, b \in Jobs : StreamsRows(F, b)
  BY <1>1 DEF IInv
<1>3. RowIn(NoBeat, F, b)
  BY NoBeatFits
<1>4. PICK G : G = After(F, NoBeat.v, ready)
  OBVIOUS
<1>5. CoreTyped' /\ BenchTyped' /\ StreamsRows(G, b)'
  BY <1>1, <1>2, <1>3, <1>4, EdgeStreams
<1>6. G \in Counts /\ phase' = "rows"
  BY <1>1, <1>5 DEF StreamsRows, Elastic
<1> QED
  BY <1>2, <1>5, <1>6 DEF IInv

\* When all results are collected the core is empty.
LEMMA NextJobKeeps ==
  ASSUME IInv, NextJob
  PROVE  IInv'
<1>1. /\ CoreTyped /\ BenchTyped /\ phase = "rows" /\ sent = Rows(job) /\ got = accepted
      /\ job + 1 \in Jobs /\ job' = job + 1 /\ phase' = "weights" /\ sent' = 0
      /\ skew' = skew /\ pe' = pe /\ deskew' = deskew
      /\ gap' = gap /\ accepted' = accepted /\ got' = got
  BY DEF IInv, NextJob, coreVars
<1>2. PICK F \in Counts, b \in Jobs : StreamsRows(F, b)
  BY <1>1 DEF IInv
<1>3. /\ Elastic(F) /\ RowsInFlight(F, b) /\ F[0] = sent /\ gap = 0
      /\ F[End + 1] = got - (accepted - sent)
      /\ sent \in Nat /\ accepted \in Nat /\ got \in Nat
  BY <1>1, <1>2 DEF StreamsRows, Earlier, BenchTyped
<1>4. F[End + 1] = F[0]
  BY <1>1, <1>3
<1>5. ASSUME NEW d \in Stage PROVE ~Full(F, d)
  <2>1. /\ d \in 0 .. End + 1 /\ d + 1 \in 0 .. End + 1 /\ d \in Nat /\ End \in Nat
        /\ F[d] \in Nat /\ F[d + 1] \in Nat /\ F[0] \in Nat
        /\ 0 \in 0 .. End + 1 /\ End + 1 \in 0 .. End + 1
    BY <1>3, StageFacts DEF Stage
  <2>2. 0 <= d /\ d + 1 <= End + 1
    BY <2>1
  <2>3. F[0] >= F[d] /\ F[d + 1] >= F[End + 1]
    BY <1>3, <2>1, <2>2, Falling
  <2> QED
    BY <1>4, <2>1, <2>3 DEF Full
<1>6. PICK c \in Jobs : c = job + 1
  BY <1>1
<1>7. WeightsInFlight(Zero, c)'
  <2>1. SkewWeights(Zero, c)'
    <3>1. \A i \in Idx : \A s \in 0 .. i - 1 : ~skew'[i][s].v /\ ~Full(Zero, s)
      <4>1. \A i \in Idx : \A s \in 0 .. i - 1 : skew[i][s].v <=> Full(F, s)
        BY <1>3 DEF RowsInFlight, SkewRows
      <4>2. \A i \in Idx : \A s \in 0 .. i - 1 : s \in Stage
        BY Indices
      <4> QED
        BY <4>1, <4>2, <1>1, <1>5, ZeroEmpty
    <3> QED
      BY <3>1 DEF SkewWeights, Idx
  <2>2. ArrayWeights(Zero, c)'
    <3>1. ASSUME NEW i \in Idx, NEW j \in Idx
          PROVE  /\ ~pe'[<<i, j>>].vy /\ ~Full(Zero, i + j) /\ ~(Zero[i + j] >= j + 1)
                 /\ j # N - 1 => ~pe'[<<i, j>>].vx
      <4>1. i + j \in Stage /\ j \in Nat
        BY Indices
      <4>2. /\ pe[<<i, j>>].vy <=> Full(F, i + j)
            /\ j # N - 1 => (pe[<<i, j>>].vx <=> Full(F, i + j))
        BY <1>3 DEF RowsInFlight, ArrayRows
      <4>3. ~Full(Zero, i + j) /\ Zero[i + j] = 0
        BY <4>1, ZeroEmpty
      <4>4. ~(Zero[i + j] >= j + 1)
        BY <4>1, <4>3
      <4> QED
        BY <4>1, <4>2, <4>3, <4>4, <1>1, <1>5
    <3> QED
      BY <3>1 DEF ArrayWeights, Idx
  <2>3. DeskewEmpty'
    <3>1. \A j \in Idx : \A k \in 0 .. DELAY(j) - 1 : ~deskew'[j][k].v
      <4>1. \A j \in Idx : \A k \in 0 .. DELAY(j) - 1 : deskew[j][k].v <=> Full(F, N + j + k)
        BY <1>3 DEF RowsInFlight, DeskewRows
      <4>2. \A j \in Idx : \A k \in 0 .. DELAY(j) - 1 : N + j + k \in Stage
        BY Indices
      <4> QED
        BY <4>1, <4>2, <1>1, <1>5
    <3> QED
      BY <3>1 DEF DeskewEmpty, Idx, DELAY
  <2> QED
    BY <2>1, <2>2, <2>3 DEF WeightsInFlight
<1>8. LoadsWeights(Zero, c)'
  <2>1. N \in Nat /\ N > 0 /\ LATCH_GAP \in Nat
    BY NAssumption, BenchAssumption
  <2>2. c = job' /\ sent' = 0 /\ got' = accepted' /\ gap' = 0
    BY <1>1, <1>3, <1>6
  <2>3. sent' <= N /\ sent' # N /\ gap' <= LATCH_GAP /\ ~(gap' > 0)
    BY <2>1, <2>2
  <2> QED
    BY <1>7, <2>2, <2>3, ZeroEmpty DEF LoadsWeights
<1>9. CoreTyped'
  BY <1>1 DEF CoreTyped, Idx, DELAY
<1>10. BenchTyped'
  BY <1>1, <1>3 DEF BenchTyped
<1>11. Zero \in Counts /\ phase' = "weights"
  BY <1>1, ZeroEmpty
<1> QED
  BY <1>6, <1>8, <1>9, <1>10, <1>11 DEF IInv

\* A step that changes nothing keeps the invariant.
LEMMA StutterKeeps ==
  ASSUME IInv, UNCHANGED vars
  PROVE  IInv'
<1>1. /\ skew' = skew /\ pe' = pe /\ deskew' = deskew /\ job' = job /\ phase' = phase
      /\ gap' = gap /\ sent' = sent /\ accepted' = accepted /\ got' = got
  BY DEF vars, coreVars, benchVars
<1>2. CoreTyped' /\ BenchTyped'
  BY <1>1 DEF IInv, CoreTyped, BenchTyped, Idx, DELAY
<1>3. ASSUME NEW F, NEW b, LoadsWeights(F, b) PROVE LoadsWeights(F, b)'
  BY <1>1, <1>3 DEF LoadsWeights, WeightsInFlight, SkewWeights, ArrayWeights, DeskewEmpty, Idx, DELAY
<1>4. ASSUME NEW F, NEW b, StreamsRows(F, b) PROVE StreamsRows(F, b)'
  BY <1>1, <1>4 DEF StreamsRows, RowsInFlight, SkewRows, ArrayRows, DeskewRows, Earlier, Idx, DELAY
<1> QED
  BY <1>1, <1>2, <1>3, <1>4 DEF IInv

\* The core is one elastic pipeline in every reachable state, whatever the
\* size of the array, the matrices and the stalls: systolic_core.v keeps the
\* registers of a diagonal in step.  The latch must wait the 2 * N - 2 edges
\* that the last weight needs to reach the far corner.
THEOREM SystolicInvariant ==
  ASSUME LATCH_GAP >= 2 * N - 2
  PROVE  Spec => []IInv
<1>1. Init => IInv
  BY InitIInv
<1>2. IInv /\ [Next]_vars => IInv'
  <2>1. SUFFICES ASSUME IInv, [Next]_vars PROVE IInv'
    OBVIOUS
  <2>2. ASSUME NEW valid \in BOOLEAN, NEW ready \in BOOLEAN, LoadWeights(valid, ready) PROVE IInv'
    BY <2>1, <2>2, LoadWeightsKeeps
  <2>3. ASSUME NEW valid \in BOOLEAN, NEW ready \in BOOLEAN, StreamRows(valid, ready) PROVE IInv'
    BY <2>1, <2>3, StreamRowsKeeps
  <2>4. ASSUME NEW ready \in BOOLEAN, PollIdle(ready) PROVE IInv'
    BY <2>1, <2>4, PollIdleKeeps
  <2>5. ASSUME NEW ready \in BOOLEAN, Latch(ready) PROVE IInv'
    BY <2>1, <2>5, LatchKeeps
  <2>6. ASSUME NEW ready \in BOOLEAN, Collect(ready) PROVE IInv'
    BY <2>1, <2>6, CollectKeeps
  <2>7. CASE NextJob
    BY <2>1, <2>7, NextJobKeeps
  <2>8. CASE Finished \/ UNCHANGED vars
    BY <2>1, <2>8, StutterKeeps DEF Finished
  <2> QED
    BY <2>1, <2>2, <2>3, <2>4, <2>5, <2>6, <2>7, <2>8 DEF Next
<1> QED
  BY <1>1, <1>2, PTL DEF Spec

----------------------------------------------------------------------------
(* What the runs check, for every instance.                                *)

\* A row that is announced is the product of the oldest row in flight.
LEMMA ResultsFollow == IInv => ResultsCorrect
<1>1. SUFFICES ASSUME IInv, phase = "rows", valid_out
               PROVE  got < accepted /\ y_out = Product(job, got - (accepted - sent))
  BY DEF ResultsCorrect
<1>2. PICK F \in Counts, b \in Jobs : StreamsRows(F, b)
  BY <1>1 DEF IInv
<1>3. /\ b = job /\ Elastic(F) /\ RowsInFlight(F, b) /\ F[0] = sent
      /\ F[End + 1] = got - (accepted - sent) /\ CoreTyped
      /\ sent \in Nat /\ accepted \in Nat /\ got \in Nat
  BY <1>1, <1>2 DEF StreamsRows, Earlier, IInv, BenchTyped
<1>4. Full(F, End)
  BY <1>1, <1>3, DeskewRoom
<1>5. got < accepted
  <2>1. /\ End \in Nat /\ 0 \in 0 .. End + 1 /\ End \in 0 .. End + 1 /\ 0 <= End
        /\ F[End] \in Nat /\ F[0] \in Nat
    <3>1. End \in Nat /\ \A d \in 0 .. End + 1 : F[d] \in Nat
      BY <1>3, StageFacts
    <3> QED
      BY <3>1
  <2>2. F[0] >= F[End]
    BY <1>3, <2>1, Falling
  <2>3. F[End] = F[End + 1] + 1
    BY <1>4 DEF Full
  <2> QED
    BY <1>3, <2>1, <2>2, <2>3
<1>6. ASSUME NEW j \in Idx PROVE y_pipe(j, DELAY(j)).y = Partial(b, F[End + 1], j, N)
  <2>0. /\ N \in Nat /\ N > 0 /\ End = 2 * N - 2 /\ N - 1 \in Idx /\ j \in Nat /\ j <= N - 1
        /\ DELAY(j) = N - 1 - j /\ DELAY(j) \in Nat
    BY Indices
  <2>1. CASE DELAY(j) = 0
    <3>1. (N - 1) + j = End /\ (N - 1) + j + 1 = End + 1 /\ (N - 1) + 1 = N
      BY <2>0, <2>1
    <3>2. Full(F, (N - 1) + j) => pe[<<N - 1, j>>].y = Partial(b, F[(N - 1) + j + 1], j, (N - 1) + 1)
      BY <1>3, <2>0 DEF RowsInFlight, ArrayRows
    <3>3. y_pipe(j, DELAY(j)).y = pe[<<N - 1, j>>].y
      BY <2>1 DEF y_pipe
    <3> QED
      BY <1>4, <3>1, <3>2, <3>3
  <2>2. CASE DELAY(j) # 0
    <3>1. /\ DELAY(j) - 1 \in 0 .. DELAY(j) - 1
          /\ N + j + (DELAY(j) - 1) = End /\ N + j + (DELAY(j) - 1) + 1 = End + 1
      BY <2>0, <2>2
    <3>2. Full(F, N + j + (DELAY(j) - 1)) =>
            deskew[j][DELAY(j) - 1].y = Partial(b, F[N + j + (DELAY(j) - 1) + 1], j, N)
      BY <1>3, <3>1 DEF RowsInFlight, DeskewRows
    <3>3. y_pipe(j, DELAY(j)) = deskew[j][DELAY(j) - 1]
      BY <2>2 DEF y_pipe
    <3> QED
      BY <1>4, <3>1, <3>2, <3>3
  <2> QED
    BY <2>1, <2>2
<1>7. y_out = Product(b, F[End + 1])
  BY <1>6 DEF y_out, Product, Partial
<1> QED
  BY <1>3, <1>5, <1>7

\* The latched weights are those of the job.
LEMMA LatchFollows == IInv => WeightsLatched
<1>1. SUFFICES ASSUME IInv, phase = "rows", NEW c \in Idx \X Idx
               PROVE  pe[c].active = Weights[job][c]
  BY DEF WeightsLatched
<1>2. PICK F \in Counts, b \in Jobs : StreamsRows(F, b)
  BY <1>1 DEF IInv
<1>3. PICK i \in Idx, j \in Idx : c = <<i, j>>
  OBVIOUS
<1>4. pe[<<i, j>>].active = Weights[b][<<i, j>>] /\ b = job
  BY <1>2 DEF StreamsRows, RowsInFlight, ArrayRows
<1> QED
  BY <1>3, <1>4

\* Along every column, the tokens add up.
LEMMA ColumnsFollow == IInv => ColumnConserved
<1>1. SUFFICES ASSUME IInv, NEW j \in Idx
               PROVE  accepted = got + Ones({m \in 0 .. j - 1 : pe[<<0, m>>].vx /\ ~pe[<<0, m>>].ws})
                                     + Ones({i \in Idx : pe[<<i, j>>].vy})
                                     + Ones({k \in 0 .. DELAY(j) - 1 : deskew[j][k].v})
  BY DEF ColumnConserved
<1> DEFINE X == {m \in 0 .. j - 1 : pe[<<0, m>>].vx /\ ~pe[<<0, m>>].ws}
<1> DEFINE Y == {i \in Idx : pe[<<i, j>>].vy}
<1> DEFINE Z == {k \in 0 .. DELAY(j) - 1 : deskew[j][k].v}
<1>2. /\ N \in Nat /\ N > 0 /\ End \in Nat /\ End = 2 * N - 2 /\ 0 \in Idx
      /\ j \in Nat /\ j <= N - 1 /\ DELAY(j) = N - 1 - j /\ DELAY(j) \in Nat
  BY Indices
<1>3. \A m \in 0 .. j - 1 : m \in Idx /\ m # N - 1
  BY <1>2 DEF Idx
<1>4. /\ sent \in Nat /\ accepted \in Nat /\ got \in Nat /\ phase \in {"weights", "rows"}
      /\ CoreTyped
  BY <1>1 DEF IInv, BenchTyped
<1>5. CASE phase = "weights"
  <2>1. PICK F \in Counts, b \in Jobs : LoadsWeights(F, b)
    BY <1>1, <1>5 DEF IInv
  <2>2. WeightsInFlight(F, b) /\ got = accepted
    BY <2>1 DEF LoadsWeights
  <2>3. X = {}
    <3>1. ASSUME NEW m \in 0 .. j - 1 PROVE pe[<<0, m>>].vx => pe[<<0, m>>].ws
      BY <1>2, <1>3, <2>2 DEF WeightsInFlight, ArrayWeights
    <3> QED
      BY <3>1
  <2>4. Y = {}
    BY <2>2 DEF WeightsInFlight, ArrayWeights
  <2>5. Z = {}
    BY <2>2 DEF WeightsInFlight, DeskewEmpty
  <2>6. Ones(X) = 0 /\ Ones(Y) = 0 /\ Ones(Z) = 0
    BY <2>3, <2>4, <2>5, FS_EmptySet DEF Ones
  <2> HIDE DEF X, Y, Z
  <2>7. accepted = got + Ones(X) + Ones(Y) + Ones(Z)
    BY <1>4, <2>2, <2>6
  <2> QED
    BY <2>7 DEF X, Y, Z
<1>6. CASE phase = "rows"
  <2>1. PICK F \in Counts, b \in Jobs : StreamsRows(F, b)
    BY <1>1, <1>6 DEF IInv
  <2>2. /\ RowsInFlight(F, b) /\ Elastic(F) /\ F[0] = sent
        /\ F[End + 1] = got - (accepted - sent)
    BY <2>1 DEF StreamsRows, Earlier
  <2>3. /\ 0 \in 0 .. End + 1 /\ j \in 0 .. End + 1 /\ j + N \in 0 .. End + 1 /\ N + j \in 0 .. End + 1
        /\ 0 + j <= End + 1 /\ j + N <= End + 1 /\ (N + j) + DELAY(j) <= End + 1
        /\ (N + j) + DELAY(j) = End + 1 /\ j + N = N + j /\ 0 + j = j
    BY <1>2
  <2>4. X = {m \in 0 .. j - 1 : Full(F, 0 + m)}
    <3>1. ASSUME NEW m \in 0 .. j - 1
          PROVE  pe[<<0, m>>].vx /\ ~pe[<<0, m>>].ws <=> Full(F, 0 + m)
      <4>1. m \in Idx /\ m # N - 1
        BY <1>3
      <4>2. /\ pe[<<0, m>>].vx <=> Full(F, 0 + m)
            /\ Full(F, 0 + m) => ~pe[<<0, m>>].ws
        BY <1>2, <2>2, <4>1 DEF RowsInFlight, ArrayRows
      <4> QED
        BY <4>2
    <3> QED
      BY <3>1
  <2>5. Y = {i \in 0 .. N - 1 : Full(F, j + i)}
    <3>1. ASSUME NEW i \in Idx PROVE pe[<<i, j>>].vy <=> Full(F, j + i)
      <4>1. pe[<<i, j>>].vy <=> Full(F, i + j)
        BY <2>2 DEF RowsInFlight, ArrayRows
      <4>2. i + j = j + i
        BY <1>2, Indices
      <4> QED
        BY <4>1, <4>2
    <3> QED
      BY <3>1 DEF Idx
  <2>6. Z = {k \in 0 .. DELAY(j) - 1 : Full(F, (N + j) + k)}
    BY <2>2 DEF RowsInFlight, DeskewRows
  <2>7. Cardinality(X) = F[0] - F[0 + j]
    <3>1. Cardinality({m \in 0 .. j - 1 : Full(F, 0 + m)}) = F[0] - F[0 + j]
      <4> HIDE DEF X
      <4> QED
        BY <2>2, <2>3, <1>2, TokensBetween
    <3> HIDE DEF X
    <3> QED
      BY <2>4, <3>1
  <2>8. Cardinality(Y) = F[j] - F[j + N]
    <3>1. Cardinality({i \in 0 .. N - 1 : Full(F, j + i)}) = F[j] - F[j + N]
      BY <2>2, <2>3, <1>2, TokensBetween
    <3> HIDE DEF Y
    <3> QED
      BY <2>5, <3>1
  <2>9. Cardinality(Z) = F[N + j] - F[(N + j) + DELAY(j)]
    BY <2>2, <2>3, <2>6, <1>2, TokensBetween
  <2>10. F[0] \in Nat /\ F[j] \in Nat /\ F[N + j] \in Nat /\ F[End + 1] \in Nat
    <3>1. \A d \in 0 .. End + 1 : F[d] \in Nat
      BY <2>2, StageFacts
    <3>2. End + 1 \in 0 .. End + 1
      BY <1>2
    <3> QED
      BY <3>1, <3>2, <2>3
  <2> HIDE DEF X, Y, Z
  <2>11. /\ Ones(X) = F[0] - F[j] /\ Ones(Y) = F[j] - F[N + j]
         /\ Ones(Z) = F[N + j] - F[End + 1]
    BY <2>3, <2>7, <2>8, <2>9 DEF Ones
  <2>12. accepted = got + Ones(X) + Ones(Y) + Ones(Z)
    BY <1>4, <2>2, <2>10, <2>11
  <2> QED
    BY <2>12 DEF X, Y, Z
<1> QED
  BY <1>4, <1>5, <1>6

\* The rows of the core are ready together.
LEMMA StepFollows == IInv => RowsInStep
<1>1. SUFFICES ASSUME IInv, NextBeat.v, NEW ready \in BOOLEAN
               PROVE  LET r == ready_wires(NextBeat, ready)
                      IN  \/ \A i \in Idx : skew_ready(i, 0, r)
                          \/ \A i \in Idx : ~skew_ready(i, 0, r)
  BY DEF RowsInStep
<1>2. CoreTyped /\ sent \in Nat /\ N \in Nat
  BY <1>1, Indices DEF IInv, BenchTyped
<1>3. CASE phase = "weights" /\ sent < N
  <2>1. PICK F \in Counts, b \in Jobs : LoadsWeights(F, b)
    BY <1>1, <1>3 DEF IInv
  <2>2. Elastic(F) /\ WeightsInFlight(F, b) /\ F[0] = sent /\ b = job
    BY <2>1 DEF LoadsWeights
  <2> DEFINE x == [i \in Idx |-> Weights[b][<<i, N - 1 - sent>>]]
  <2>3. NextBeat = [v |-> TRUE, lw |-> TRUE, x |-> x]
    BY <1>3, <2>2 DEF NextBeat, WeightBeat
  <2>4. N - 1 - sent \in Idx
    BY <1>2, <1>3 DEF Idx
  <2>5. x \in [Idx -> Int] /\ \A i \in Idx : x[i] = Weights[b][<<i, N - 1 - F[0]>>]
    BY <2>2, <2>4, BenchAssumption
  <2> HIDE DEF x
  <2>6. WeightIn(NextBeat, F, b)
    BY <2>3, <2>5 DEF WeightIn, Beats
  <2>7. \A i \in Idx : skew_ready(i, 0, ready_wires(NextBeat, ready))
    BY <1>1, <1>2, <2>2, <2>6, WeightsAccepted
  <2> QED
    BY <2>7
<1>4. CASE phase = "rows" /\ sent < Rows(job)
  <2>1. PICK F \in Counts, b \in Jobs : StreamsRows(F, b)
    BY <1>1, <1>4 DEF IInv
  <2>2. Elastic(F) /\ RowsInFlight(F, b) /\ F[0] = sent /\ b = job /\ Rows(b) \in Nat
    BY <2>1, BenchAssumption DEF StreamsRows
  <2>3. NextBeat = [v |-> TRUE, lw |-> FALSE, x |-> Inputs[b][sent]]
    BY <1>4, <2>2 DEF NextBeat, RowBeat
  <2>4. sent \in 0 .. Rows(b) - 1
    BY <1>2, <1>4, <2>2
  <2>5. Inputs[b][sent] \in [Idx -> Int]
    BY <2>4, BenchAssumption
  <2>6. RowIn(NextBeat, F, b)
    BY <1>4, <2>2, <2>3, <2>5 DEF RowIn, Beats
  <2>7. \A i \in Idx : skew_ready(i, 0, ready_wires(NextBeat, ready)) <=> Room(F, ready, 0)
    BY <1>1, <1>2, <2>2, <2>6, RowsAccepted
  <2> QED
    BY <2>7
<1>5. CASE ~(phase = "weights" /\ sent < N) /\ ~(phase = "rows" /\ sent < Rows(job))
  <2>1. NextBeat = NoBeat
    BY <1>5 DEF NextBeat
  <2> QED
    BY <1>1, <2>1 DEF NoBeat
<1> QED
  BY <1>3, <1>4, <1>5

\* Every announced result row is the product of its input row with the job's
\* weights, modulo the width of the accumulators (ResultsCorrect).
THEOREM ResultsAreCorrect ==
  ASSUME LATCH_GAP >= 2 * N - 2
  PROVE  Spec => []ResultsCorrect
  BY SystolicInvariant, ResultsFollow, PTL

\* Rows are only ever multiplied with a complete weight matrix.
THEOREM WeightsAreLatched ==
  ASSUME LATCH_GAP >= 2 * N - 2
  PROVE  Spec => []WeightsLatched
  BY SystolicInvariant, LatchFollows, PTL

\* No partial sum is lost or duplicated in any column.
THEOREM ColumnsConserve ==
  ASSUME LATCH_GAP >= 2 * N - 2
  PROVE  Spec => []ColumnConserved
  BY SystolicInvariant, ColumnsFollow, PTL

\* The rows of the core never disagree about a beat.
THEOREM RowsStayInStep ==
  ASSUME LATCH_GAP >= 2 * N - 2
  PROVE  Spec => []RowsInStep
  BY SystolicInvariant, StepFollows, PTL
=============================================================================
