--------------------------- MODULE SystolicBench ---------------------------
(***************************************************************************)
(* The systolic core between a read DMA that offers beats and a stream     *)
(* controller that takes result rows, each whenever it likes.  Software    *)
(* runs jobs: load N weight columns, pulse the latch, stream rows, collect *)
(* the results (npu_load_weights, npu_load_matrix, npu_wait_execution).    *)
(***************************************************************************)
EXTENDS SystolicCore, FiniteSets

CONSTANTS
  Weights,    \* Weights[b][<<i, j>>]: the weight matrix of job b
  Inputs,     \* Inputs[b][k]:     the k-th activation row of job b
  LATCH_GAP   \* clock edges that pass between the last weight and the latch

Jobs == DOMAIN Weights
Rows(b) == Cardinality(DOMAIN Inputs[b])

ASSUME BenchAssumption ==
  /\ IsFiniteSet(Jobs) /\ Jobs = 0 .. Cardinality(Jobs) - 1 /\ Jobs # {}
  /\ \A b \in Jobs : /\ Weights[b] \in [Idx \X Idx -> Int]
                     /\ DOMAIN Inputs[b] = 0 .. Rows(b) - 1 /\ Rows(b) \in Nat
                     /\ \A k \in DOMAIN Inputs[b] : Inputs[b][k] \in [Idx -> Int]
  /\ LATCH_GAP \in Nat

VARIABLES job, phase, gap,
          sent,       \* beats of this phase the core has accepted
          accepted,   \* rows of all jobs the core has accepted
          got         \* result rows of all jobs that were collected

benchVars == <<job, phase, gap, sent, accepted, got>>
vars == <<coreVars, benchVars>>

Init ==
  /\ CoreReset
  /\ job = 0 /\ phase = "weights" /\ gap = 0
  /\ sent = 0 /\ accepted = 0 /\ got = 0

\* npu_format_weights sends the columns from the last to the first.
WeightBeat(v) == [v |-> v, lw |-> v,     x |-> [i \in Idx |-> Weights[job][<<i, N - 1 - sent>>]]]
RowBeat(v)    == [v |-> v, lw |-> FALSE, x |-> Inputs[job][sent]]
NoBeat        == [v |-> FALSE, lw |-> FALSE, x |-> [i \in Idx |-> 0]]

TakeRow(ready) == got' = IF ready /\ valid_out THEN got + 1 ELSE got

\* An edge at which the read DMA shows `in', which is accepted or not.
Edge(in, ready) ==
  LET taken == IF in.v /\ ready_out(in, ready) THEN 1 ELSE 0
  IN  /\ CoreClock(in, ready, FALSE)
      /\ sent' = sent + taken
      /\ accepted' = IF in.lw THEN accepted ELSE accepted + taken
      /\ TakeRow(ready)

LoadWeights(valid, ready) ==
  /\ phase = "weights" /\ sent < N
  /\ Edge(WeightBeat(valid), ready)
  /\ UNCHANGED <<job, phase, gap>>

\* The read DMA has gone idle; software polls and then writes the latch.
PollIdle(ready) ==
  /\ phase = "weights" /\ sent = N /\ gap < LATCH_GAP
  /\ Edge(NoBeat, ready)
  /\ gap' = gap + 1
  /\ UNCHANGED <<job, phase>>

Latch(ready) ==
  /\ phase = "weights" /\ sent = N /\ gap = LATCH_GAP
  /\ CoreClock(NoBeat, ready, TRUE)
  /\ phase' = "rows" /\ sent' = 0 /\ gap' = 0
  /\ TakeRow(ready)
  /\ UNCHANGED <<job, accepted>>

StreamRows(valid, ready) ==
  /\ phase = "rows" /\ sent < Rows(job)
  /\ Edge(RowBeat(valid), ready)
  /\ UNCHANGED <<job, phase, gap>>

Collect(ready) ==
  /\ phase = "rows" /\ sent = Rows(job) /\ got < accepted
  /\ Edge(NoBeat, ready)
  /\ UNCHANGED <<job, phase, gap>>

\* Mutant: the next weights are loaded without waiting for the results.
NextJob_hasty ==
  /\ phase = "rows" /\ sent = Rows(job)
  /\ job + 1 \in Jobs
  /\ job' = job + 1 /\ phase' = "weights" /\ sent' = 0
  /\ UNCHANGED <<coreVars, gap, accepted, got>>

\* npu_wait_execution lets the next job start when all results are stored.
NextJob ==
  /\ phase = "rows" /\ sent = Rows(job) /\ got = accepted
  /\ job + 1 \in Jobs
  /\ job' = job + 1 /\ phase' = "weights" /\ sent' = 0
  /\ UNCHANGED <<coreVars, gap, accepted, got>>

Finished ==
  /\ phase = "rows" /\ sent = Rows(job) /\ got = accepted /\ job + 1 \notin Jobs
  /\ UNCHANGED vars

Next ==
  \/ \E valid, ready \in BOOLEAN : LoadWeights(valid, ready) \/ StreamRows(valid, ready)
  \/ \E ready \in BOOLEAN : PollIdle(ready) \/ Latch(ready) \/ Collect(ready)
  \/ NextJob
  \/ Finished

Spec == Init /\ [][Next]_vars

\* The clock runs; the read DMA offers its beats and the stream controller
\* makes room again and again.
FairSpec ==
  /\ Spec
  /\ WF_vars(LoadWeights(TRUE, TRUE) \/ StreamRows(TRUE, TRUE)
             \/ PollIdle(TRUE) \/ Latch(TRUE) \/ Collect(TRUE))
  /\ WF_vars(NextJob)

----------------------------------------------------------------------------
(* Properties *)

\* The exact sum of the first n products of a row with column j.
Dot(b, k, j) ==
  LET sum[n \in 0 .. N] ==
        IF n = 0 THEN 0
        ELSE sum[n - 1] + Inputs[b][k][n - 1] * Weights[b][<<n - 1, j>>]
  IN  sum

Product(b, k) == [j \in Idx |-> SignedAcc(Dot(b, k, j)[N])]

\* A result row that the core announces is the product of the oldest row not
\* yet collected with the weights of the job, whatever stalls the two sides
\* cause on the way: no partial sum meets an activation of another row.
ResultsCorrect ==
  phase = "rows" /\ valid_out =>
    got < accepted /\ y_out = Product(job, got - (accepted - sent))

\* The latch catches a complete weight matrix: software starts the rows only
\* after every weight token has reached its element.
WeightsLatched ==
  phase = "rows" => \A c \in Idx \X Idx : pe[c].active = Weights[job][c]

Ones(S) == Cardinality(S)

\* No partial sum is lost or made twice: in every column, the rows accepted
\* are the results collected, those waiting on the way down, and the
\* activations that have not yet reached the column.
ColumnConserved ==
  \A j \in Idx :
    accepted = got + Ones({m \in 0 .. j - 1 : pe[<<0, m>>].vx /\ ~pe[<<0, m>>].ws})
                   + Ones({i \in Idx : pe[<<i, j>>].vy})
                   + Ones({k \in 0 .. DELAY(j) - 1 : deskew[j][k].v})

NextBeat == IF phase = "weights" /\ sent < N THEN WeightBeat(TRUE)
            ELSE IF phase = "rows" /\ sent < Rows(job) THEN RowBeat(TRUE)
            ELSE NoBeat

\* The rows accept a beat all together or not at all.  Each row takes the
\* beat on its own ready, while the read DMA looks at the conjunction: a row
\* that ran ahead would take the same beat again.
RowsInStep ==
  NextBeat.v =>
    \A ready \in BOOLEAN :
      LET r == ready_wires(NextBeat, ready)
      IN  \/ \A i \in Idx : skew_ready(i, 0, r)
          \/ \A i \in Idx : ~skew_ready(i, 0, r)

\* Every job ends: no stall blocks the core for good.
JobsFinish ==
  <>(/\ job = Cardinality(Jobs) - 1 /\ phase = "rows"
     /\ sent = Rows(job) /\ got = accepted)

============================================================================
