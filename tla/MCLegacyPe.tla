---------------------------- MODULE MCLegacyPe ----------------------------
(***************************************************************************)
(* verify_mac_pe on the operands of the code and on the extremes of a byte *)
(* and of a word, with a history of what Y_OUT held when the element was   *)
(* started and of whether the processor has paused since.                  *)
(***************************************************************************)
EXTENDS LegacyPe

MCOperands == {<<7, 3, 10>>, <<-8, -8, 0>>, <<7, -8, -500>>}

VARIABLES
  previous,   \* Y_OUT when REG_PE_CTRL was last written with valid
  atOnce      \* no edge has gone by without an access since then

\* The access that starts the multiply-accumulate.
Starting == step <= Len(Script(op)) /\ Script(op)[step] = IOWR(REG_PE_CTRL, 2)

PacedInit == Init /\ previous = 0 /\ atOnce = FALSE
PacedNext ==
  /\ Next
  /\ previous' = IF Starting /\ step' # step THEN mac.y % ACC ELSE previous
  /\ atOnce' = IF Starting THEN step' # step
               ELSE atOnce /\ (step > Len(Script(op)) \/ step' # step)
PacedSpec == PacedInit /\ [][PacedNext]_<<vars, previous, atOnce>>

\* main.c says that the processor is so fast that, when it reads Y_OUT right
\* after the writes, it gets the previous value, and that only usleep gives
\* the element its time: a read without a pause after the start returns what
\* Y_OUT held before.
EarlyReadIsStale ==
  step = Len(Script(op)) + 2 /\ atOnce => result = previous

============================================================================
