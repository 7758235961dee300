--------------------------- MODULE HalClockProofs ---------------------------
(***************************************************************************)
(* Proofs about the ticks and times of the hardware abstraction layer, for *)
(* every number of alarms, every width of a counter, every period, tick    *)
(* rate and speed of the processor.                                        *)
(***************************************************************************)
EXTENDS MCClock, WellFoundedInduction, TLAPS

----------------------------------------------------------------------------
(* Arithmetic.                                                             *)

\* Products keep the order.
LEMMA Scaled ==
  ASSUME NEW x \in Int, NEW y \in Int, NEW m \in Nat, x <= y
  PROVE  x * m <= y * m /\ x * m \in Int /\ y * m \in Int
<1>1. y - x \in Nat /\ (y - x) * m \in Nat
  OBVIOUS
<1>2. y * m = x * m + (y - x) * m
  OBVIOUS
<1>3. x * m \in Int /\ y * m \in Int
  OBVIOUS
<1> QED
  BY <1>1, <1>2, <1>3

LEMMA Distributes ==
  ASSUME NEW x \in Int, NEW y \in Int, NEW m \in Int
  PROVE  /\ x * m \in Int /\ y * m \in Int /\ x * m = m * x
         /\ (x - y) * m = x * m - y * m /\ (x + y) * m = x * m + y * m
  OBVIOUS

\* Division with remainder, for a positive divisor.
LEMMA DivMod ==
  ASSUME NEW x \in Int, NEW m \in Nat, m > 0
  PROVE  /\ x % m \in 0 .. m - 1 /\ x \div m \in Int
         /\ x = m * (x \div m) + (x % m)
  OBVIOUS

\* Quotient and remainder are determined by that equation.
LEMMA DivModUnique ==
  ASSUME NEW x \in Int, NEW m \in Nat, m > 0,
         NEW q \in Int, NEW r \in 0 .. m - 1, x = m * q + r
  PROVE  x % m = r /\ x \div m = q
  OBVIOUS

\* Numbers below the divisor.
LEMMA Below ==
  ASSUME NEW m \in Nat, NEW x \in 0 .. m - 1
  PROVE  x % m = x
  OBVIOUS

----------------------------------------------------------------------------
(* BusySleep.                                                              *)

LEMMA SleepConstants ==
  /\ Sleep!BigUs \in Nat \ {0} /\ Sleep!INT_MAX \in Nat \ {0} /\ Sleep!PerUs \in Nat \ {0}
  /\ SleepW \in Nat /\ Sleep!INT_MAX < SleepW /\ Sleep!BigUs * Sleep!PerUs <= Sleep!INT_MAX
<1> DEFINE M == Sleep!INT_MAX
           B == Sleep!BigUs
<1>1. SleepW \in Nat /\ Sleep!PerUs \in 1 .. M /\ M = SleepW \div 2 - 1
  BY SleepsAssumption DEF Sleep!SleepAssumption, Sleep!INT_MAX
<1>2. M \in Nat \ {0} /\ M < SleepW /\ Sleep!PerUs \in Nat \ {0} /\ Sleep!PerUs <= M
  BY <1>1
<1>3. B = M \div Sleep!PerUs
  BY DEF Sleep!BigUs
<1> HIDE DEF M, B
<1>4. M % Sleep!PerUs \in 0 .. Sleep!PerUs - 1 /\ B \in Int /\ M = Sleep!PerUs * B + (M % Sleep!PerUs)
  BY <1>2, <1>3, DivMod
<1>5. B >= 1
  <2> SUFFICES ASSUME B <= 0 PROVE FALSE
    BY <1>4
  <2>1. B * Sleep!PerUs <= 0 * Sleep!PerUs /\ B * Sleep!PerUs \in Int
    BY <1>2, <1>4, Scaled
  <2>2. Sleep!PerUs * B = B * Sleep!PerUs
    BY <1>2, <1>4
  <2> QED
    BY <1>2, <1>4, <2>1, <2>2
<1>6. B * Sleep!PerUs <= M
  <2>1. Sleep!PerUs * B = B * Sleep!PerUs /\ B * Sleep!PerUs \in Int
    BY <1>2, <1>4
  <2> QED
    BY <1>2, <1>4, <2>1
<1> QED
  BY <1>1, <1>2, <1>4, <1>5, <1>6 DEF M, B

\* A sleep counts the turns that the code has computed for it.
TurnsCounted == s_pc = "done" => turns >= asked * Sleep!PerUs

\* In a full loop, what is counted and what is left to count in the register
\* cover the microseconds that are over and this loop; in the last loop, all
\* that was asked for.
SleepInv ==
  /\ asked \in Nat /\ us \in Nat /\ i \in Nat /\ turns \in Nat /\ reg \in 0 .. SleepW - 1
  /\ us <= asked
  /\ s_pc = "big" => /\ i >= 1 /\ i * Sleep!BigUs <= us /\ us < (i + 1) * Sleep!BigUs
                     /\ reg \in 1 .. Sleep!INT_MAX
                     /\ turns + reg >= (asked - us) * Sleep!PerUs + Sleep!INT_MAX
  /\ s_pc \in {"bne", "bgt"} => turns + reg >= asked * Sleep!PerUs
  /\ s_pc = "bgt" => reg <= Sleep!INT_MAX
  /\ TurnsCounted

LEMMA SleepInit ==
  ASSUME Sleep!Init
  PROVE  SleepInv
  BY SleepConstants DEF Sleep!Init, SleepInv, TurnsCounted

\* The product that a last loop counts down fits the register.
LEMMA RestFits ==
  ASSUME NEW n \in Nat, n < Sleep!BigUs
  PROVE  /\ n * Sleep!PerUs \in Nat /\ n * Sleep!PerUs <= Sleep!INT_MAX
         /\ (n * Sleep!PerUs) % SleepW = n * Sleep!PerUs
<1>1. /\ Sleep!BigUs \in Nat /\ Sleep!PerUs \in Nat /\ Sleep!BigUs * Sleep!PerUs <= Sleep!INT_MAX
      /\ Sleep!INT_MAX \in Nat /\ Sleep!INT_MAX < SleepW /\ SleepW \in Nat
  BY SleepConstants
<1>2. n * Sleep!PerUs <= Sleep!BigUs * Sleep!PerUs /\ n * Sleep!PerUs \in Int /\ Sleep!BigUs * Sleep!PerUs \in Int
  BY <1>1, Scaled
<1>3. n * Sleep!PerUs \in Nat
  BY <1>1
<1>4. n * Sleep!PerUs <= Sleep!INT_MAX /\ n * Sleep!PerUs \in 0 .. SleepW - 1
  BY <1>1, <1>2, <1>3
<1> QED
  BY <1>1, <1>3, <1>4, Below

LEMMA SleepKept ==
  ASSUME SleepInv, Sleep!Next
  PROVE  SleepInv'
<1> DEFINE M == Sleep!INT_MAX
           B == Sleep!BigUs
<1>1. /\ B \in Nat \ {0} /\ M \in Nat \ {0} /\ Sleep!PerUs \in Nat \ {0}
      /\ SleepW \in Nat /\ M < SleepW /\ B * Sleep!PerUs <= M
  BY SleepConstants
<1>2. /\ asked \in Nat /\ us \in Nat /\ i \in Nat /\ turns \in Nat /\ reg \in 0 .. SleepW - 1
      /\ us <= asked
  BY DEF SleepInv
<1> HIDE DEF M, B
<1>3. ASSUME NEW n \in 0 .. SleepW - 1, Sleep!Sleep(n) PROVE SleepInv'
  <2> DEFINE q == n \div B
  <2>1. n % B \in 0 .. B - 1 /\ q \in Int /\ n = B * q + (n % B)
    BY <1>1, DivMod
  <2>2. /\ asked' = n /\ us' = n /\ i' = q /\ turns' = 0 /\ Sleep!BigLoops(n) = q
        /\ IF q > 0 THEN s_pc' = "big" /\ reg' = M
           ELSE s_pc' = "bgt" /\ reg' = (n * Sleep!PerUs) % SleepW
    BY <1>3 DEF Sleep!Sleep, Sleep!BigLoops, M, B
  <2> HIDE DEF q
  <2>3. q >= 0
    <3> SUFFICES ASSUME q <= 0 - 1 PROVE FALSE
      BY <2>1
    <3>1. q * B <= (0 - 1) * B /\ q * B \in Int
      BY <1>1, <2>1, Scaled
    <3>2. B * q = q * B /\ (0 - 1) * B = 0 - B
      BY <1>1, <2>1
    <3> QED
      BY <1>1, <2>1, <3>1, <3>2
  <2>4. q * B <= n /\ n < (q + 1) * B
    <3>1. B * q = q * B /\ (q + 1) * B = q * B + B /\ q * B \in Int
      BY <1>1, <2>1
    <3> QED
      BY <1>1, <2>1, <3>1
  <2>5. CASE q > 0
    <3>1. s_pc' = "big" /\ reg' = M /\ (n - n) * Sleep!PerUs = 0
      BY <1>1, <2>2, <2>5
    <3> QED
      BY <1>1, <2>1, <2>2, <2>3, <2>4, <2>5, <3>1 DEF SleepInv, TurnsCounted, M, B
  <2>6. CASE q = 0
    <3>1. n < B
      BY <1>1, <2>4, <2>6
    <3>2. n * Sleep!PerUs \in Nat /\ n * Sleep!PerUs <= M /\ (n * Sleep!PerUs) % SleepW = n * Sleep!PerUs
      BY <3>1, RestFits DEF M, B
    <3>3. s_pc' = "bgt" /\ reg' = n * Sleep!PerUs
      BY <2>2, <2>6, <3>2
    <3> QED
      BY <1>1, <2>2, <2>6, <3>2, <3>3 DEF SleepInv, TurnsCounted, M
  <2> QED
    BY <2>1, <2>3, <2>5, <2>6
<1>4. CASE Sleep!BigTurn
  <2>1. /\ s_pc = "big" /\ turns' = turns + 1 /\ asked' = asked
        /\ i >= 1 /\ i * B <= us /\ us < (i + 1) * B /\ reg \in 1 .. M
        /\ turns + reg >= (asked - us) * Sleep!PerUs + M
    BY <1>4 DEF Sleep!BigTurn, SleepInv, M, B
  <2>2. (reg - 1) % SleepW = reg - 1
    BY <1>1, <2>1, Below
  <2>3. CASE reg # 1
    <3>1. reg' = reg - 1 /\ UNCHANGED <<s_pc, us, i>>
      BY <1>4, <2>1, <2>2, <2>3 DEF Sleep!BigTurn
    <3>2. reg' \in 1 .. M /\ reg' \in 0 .. SleepW - 1 /\ turns' \in Nat
      BY <1>1, <1>2, <2>1, <2>3, <3>1
    <3>3. turns' + reg' >= (asked - us) * Sleep!PerUs + M
      <4>1. (asked - us) * Sleep!PerUs \in Int
        BY <1>1, <1>2
      <4> QED
        BY <1>1, <1>2, <2>1, <3>1, <4>1
    <3> QED
      BY <1>2, <2>1, <3>1, <3>2, <3>3 DEF SleepInv, TurnsCounted, M, B
  <2>4. CASE reg = 1
    <3>1. us' = us - B /\ i' = i - 1
      BY <1>4, <2>2, <2>4 DEF Sleep!BigTurn, B
    <3>2. /\ i * B \in Int /\ (i - 1) * B = i * B - B /\ (i + 1) * B = i * B + B
          /\ ((i - 1) + 1) * B = i * B
      BY <1>1, <1>2
    <3>3. (i - 1) * B <= us' /\ us' < i * B
      BY <1>1, <1>2, <2>1, <3>1, <3>2
    <3>4. i - 1 \in Nat /\ (i - 1) * B \in Nat
      BY <1>1, <1>2, <2>1
    <3>5. us' \in Nat /\ us' <= asked
      BY <1>1, <1>2, <3>1, <3>3, <3>4
    <3>6. turns' >= (asked - us') * Sleep!PerUs /\ (asked - us') * Sleep!PerUs \in Int
      <4>1. asked - us' = (asked - us) + B
        BY <1>1, <1>2, <3>1
      <4>2. (asked - us') * Sleep!PerUs = (asked - us) * Sleep!PerUs + B * Sleep!PerUs
        BY <1>1, <1>2, <4>1
      <4>3. (asked - us) * Sleep!PerUs \in Int /\ B * Sleep!PerUs \in Int
        BY <1>1, <1>2
      <4> QED
        BY <1>1, <1>2, <2>1, <2>4, <4>2, <4>3
    <3>7. CASE i > 1
      <4>1. s_pc' = "big" /\ reg' = M
        BY <1>4, <2>2, <2>4, <3>7 DEF Sleep!BigTurn, M
      <4>2. us' < (i' + 1) * B /\ i' * B <= us' /\ i' >= 1 /\ i' \in Nat
        BY <1>2, <3>1, <3>2, <3>3, <3>7
      <4>3. turns' + reg' >= (asked - us') * Sleep!PerUs + M /\ reg' \in 1 .. M /\ reg' \in 0 .. SleepW - 1
        BY <1>1, <1>2, <2>1, <3>6, <4>1
      <4> QED
        BY <1>2, <2>1, <3>5, <4>1, <4>2, <4>3 DEF SleepInv, TurnsCounted, M, B
    <3>8. CASE i = 1
      <4>1. us' < B
        BY <1>1, <3>3, <3>8
      <4>2. us' * Sleep!PerUs \in Nat /\ us' * Sleep!PerUs <= M /\ (us' * Sleep!PerUs) % SleepW = us' * Sleep!PerUs
        BY <3>5, <4>1, RestFits DEF M, B
      <4>3. s_pc' = "bne" /\ reg' = us' * Sleep!PerUs
        BY <1>4, <2>2, <2>4, <3>8, <4>2 DEF Sleep!BigTurn
      <4>4. (asked - us') * Sleep!PerUs + us' * Sleep!PerUs = asked * Sleep!PerUs
        <5>1. /\ (asked - us') * Sleep!PerUs = asked * Sleep!PerUs - us' * Sleep!PerUs
              /\ asked * Sleep!PerUs \in Int /\ us' * Sleep!PerUs \in Int
          <6>1. asked \in Int /\ us' \in Int /\ Sleep!PerUs \in Int
            BY <1>1, <1>2, <3>5
          <6> QED
            BY <6>1, Distributes
        <5> QED
          BY <5>1
      <4>5. turns' + reg' >= asked * Sleep!PerUs
        <5>1. asked * Sleep!PerUs \in Int
          BY <1>1, <1>2
        <5> QED
          BY <1>2, <2>1, <3>6, <4>2, <4>3, <4>4, <5>1
      <4>6. reg' \in 0 .. SleepW - 1 /\ i' \in Nat /\ turns' \in Nat
        BY <1>1, <1>2, <2>1, <3>1, <3>8, <4>2, <4>3
      <4> QED
        BY <1>2, <2>1, <3>5, <4>3, <4>5, <4>6 DEF SleepInv, TurnsCounted
    <3> QED
      BY <1>2, <2>1, <3>7, <3>8
  <2> QED
    BY <2>3, <2>4
<1>5. CASE Sleep!RestTurn \/ Sleep!ShortTurn
  <2>1. /\ s_pc \in {"bne", "bgt"} /\ turns' = turns + 1 /\ reg' = (reg - 1) % SleepW
        /\ UNCHANGED <<asked, us, i>> /\ turns + reg >= asked * Sleep!PerUs
        /\ s_pc = "bgt" => reg <= M
    BY <1>5 DEF Sleep!RestTurn, Sleep!ShortTurn, Sleep!Counted, SleepInv, M
  <2>2. asked * Sleep!PerUs \in Nat
    BY <1>1, <1>2
  <2>3. s_pc' \in {s_pc, "done"} /\ (s_pc' = "done" => reg' = 0 \/ reg = 0)
    <3>1. CASE Sleep!RestTurn
      BY <3>1 DEF Sleep!RestTurn
    <3>2. CASE Sleep!ShortTurn
      <4>1. reg # 0 => reg' = reg - 1
        BY <1>1, <1>2, <2>1, Below
      <4>2. s_pc = "bgt" /\ s_pc' = IF reg' \in 1 .. M THEN "bgt" ELSE "done"
        BY <3>2 DEF Sleep!ShortTurn, M
      <4> QED
        BY <1>1, <1>2, <2>1, <4>1, <4>2
    <3> QED
      BY <1>5, <3>1, <3>2
  <2>4. CASE reg = 0
    <3>1. reg' = SleepW - 1
      <4>1. 0 - 1 = SleepW * (0 - 1) + (SleepW - 1) /\ SleepW - 1 \in 0 .. SleepW - 1
        BY <1>1
      <4>2. (0 - 1) % SleepW = SleepW - 1
        BY <1>1, <4>1, DivModUnique
      <4> QED
        BY <2>1, <2>4, <4>2
    <3>2. s_pc' # "bgt"
      <4>1. CASE Sleep!RestTurn
        BY <4>1 DEF Sleep!RestTurn
      <4>2. CASE Sleep!ShortTurn
        <5>1. SleepW - 1 > M
          BY SleepsAssumption DEF Sleep!SleepAssumption, Sleep!INT_MAX, M
        <5> QED
          BY <1>1, <3>1, <4>2, <5>1 DEF Sleep!ShortTurn, M
      <4> QED
        BY <1>5, <4>1, <4>2
    <3>3. turns' >= asked * Sleep!PerUs /\ turns' + reg' >= asked * Sleep!PerUs /\ reg' \in 0 .. SleepW - 1
      BY <1>1, <1>2, <2>1, <2>2, <2>4, <3>1
    <3> QED
      BY <1>2, <2>1, <2>3, <3>2, <3>3 DEF SleepInv, TurnsCounted
  <2>5. CASE reg # 0
    <3>1. reg' = reg - 1
      BY <1>1, <1>2, <2>1, <2>5, Below
    <3>2. /\ turns' + reg' >= asked * Sleep!PerUs /\ (reg' = 0 => turns' >= asked * Sleep!PerUs)
          /\ reg' \in 0 .. SleepW - 1 /\ (s_pc = "bgt" => reg' <= M)
      BY <1>1, <1>2, <2>1, <2>2, <2>5, <3>1
    <3> QED
      BY <1>2, <2>1, <2>3, <2>5, <3>2 DEF SleepInv, TurnsCounted, M
  <2> QED
    BY <2>4, <2>5
<1>6. CASE Sleep!Return
  BY <1>6 DEF Sleep!Return, SleepInv, TurnsCounted
<1> QED
  BY <1>3, <1>4, <1>5, <1>6 DEF Sleep!Next

\* The turns that are counted are short by less than one in each microsecond.
LEMMA TurnsAreTime ==
  ASSUME SleepInv
  PROVE  Sleep!WithinATurn
<1> SUFFICES ASSUME s_pc = "done" PROVE Sleep!WithinATurn
  BY DEF Sleep!WithinATurn
<1> DEFINE K == cycles_per_loop * US
           U == Sleep!PerUs
           F == ALT_CPU_FREQ
<1>1. K \in Nat /\ K > 0 /\ F \in Nat /\ U = F \div K
  BY SleepsAssumption DEF Sleep!SleepAssumption, Sleep!PerUs
<1>2. asked \in Nat /\ turns \in Nat /\ turns >= asked * U /\ U \in Nat
  BY SleepConstants DEF SleepInv, TurnsCounted
<1>3. Sleep!Due = asked * F /\ \A x : Sleep!Slept(x) = x * K
  BY DEF Sleep!Due, Sleep!Slept
<1>4. F % K = 0 <=> ALT_CPU_FREQ % (cycles_per_loop * US) = 0
  OBVIOUS
<1> HIDE DEF K, U, F
<1>5. F % K \in 0 .. K - 1 /\ F = K * U + (F % K) /\ K * U \in Int /\ K * U = U * K
  BY <1>1, <1>2, DivMod
<1>6. (asked * U) * K <= turns * K /\ (asked * U) * K \in Int /\ turns * K \in Int
  <2>1. asked * U \in Int
    BY <1>2
  <2> QED
    BY <1>1, <1>2, <2>1, Scaled
<1>7. (asked * U) * K = asked * (U * K) /\ asked * (U * K) = (U * K) * asked
  BY <1>1, <1>2
<1>8. F * asked <= (U * K + K) * asked /\ F * asked = asked * F
  <2>1. F <= U * K + K /\ U * K + K \in Int /\ F \in Int
    BY <1>1, <1>5
  <2> QED
    BY <1>2, <2>1, Scaled
<1>9. /\ (U * K + K) * asked = (U * K) * asked + K * asked
      /\ (turns + asked) * K = turns * K + asked * K /\ asked * K = K * asked
      /\ K * asked \in Int /\ (U * K) * asked \in Int
  BY <1>1, <1>2, <1>5, Distributes
<1>10. (turns + asked) * K >= asked * F
  <2>1. asked * F \in Int /\ (turns + asked) * K \in Int
    BY <1>1, <1>2
  <2> QED
    BY <1>5, <1>6, <1>7, <1>8, <1>9, <2>1
<1>11. F % K = 0 => turns * K >= asked * F
  <2>1. F % K = 0 => F = U * K
    BY <1>1, <1>5
  <2> QED
    BY <1>6, <1>7, <2>1
<1> QED
  BY <1>3, <1>4, <1>10, <1>11 DEF Sleep!WithinATurn

----------------------------------------------------------------------------
(* TimeOfDay.                                                              *)

\* Microseconds in a tick.
TickUs == ALT_US \div tod_rate

LEMMA TodConstants ==
  ASSUME tod_rate # 0
  PROVE  /\ tod_rate \in Nat /\ tod_rate > 0 /\ ALT_US \in Nat /\ ALT_US > 0
         /\ TickUs \in Nat /\ TickUs > 0 /\ ALT_US = tod_rate * TickUs
         /\ TodW \in Nat /\ Uptime \in Nat /\ Uptime * TickUs < TodW
<1>1. /\ tod_rate \in Nat /\ tod_rate > 0 /\ ALT_US \in Nat /\ ALT_US > 0 /\ ALT_US % tod_rate = 0
      /\ TodW \in Nat /\ Uptime \in Nat /\ Uptime * TickUs < TodW
  BY TimesAssumption DEF Tod!TodAssumption, TickUs
<1>2. TickUs \in Int /\ ALT_US = tod_rate * TickUs + 0
  BY <1>1, DivMod DEF TickUs
<1>3. TickUs > 0
  <2> SUFFICES ASSUME TickUs <= 0 PROVE FALSE
    BY <1>2
  <2>1. TickUs * tod_rate <= 0 * tod_rate /\ TickUs * tod_rate \in Int
    BY <1>1, <1>2, Scaled
  <2>2. tod_rate * TickUs = TickUs * tod_rate /\ 0 * tod_rate = 0
    BY <1>1, <1>2
  <2> QED
    BY <1>1, <1>2, <2>1, <2>2
<1>4. ALT_US = tod_rate * TickUs
  <2>1. tod_rate * TickUs \in Int
    BY <1>1, <1>2
  <2> QED
    BY <1>2, <2>1
<1> QED
  BY <1>1, <1>2, <1>3, <1>4

\* A number of ticks, as seconds, ticks and microseconds.
LEMMA TicksAsTime ==
  ASSUME tod_rate # 0, NEW n \in Nat
  PROVE  \E q \in Int, r \in 0 .. tod_rate - 1 :
           /\ n \div tod_rate = q /\ (n * TickUs) % ALT_US = r * TickUs
           /\ n * TickUs = ALT_US * q + r * TickUs
<1> DEFINE q == n \div tod_rate
           r == n % tod_rate
<1>1. /\ tod_rate \in Nat /\ tod_rate > 0 /\ ALT_US \in Nat /\ ALT_US > 0
      /\ TickUs \in Nat /\ TickUs > 0 /\ ALT_US = tod_rate * TickUs
  BY TodConstants
<1>2. r \in 0 .. tod_rate - 1 /\ q \in Int /\ n = tod_rate * q + r
  BY <1>1, DivMod
<1> HIDE DEF q, r, TickUs
<1>3. n * TickUs = (tod_rate * q) * TickUs + r * TickUs
  <2>1. tod_rate * q \in Int /\ r \in Int
    BY <1>1, <1>2
  <2> QED
    BY <1>1, <1>2, <2>1, Distributes
<1>4. (tod_rate * q) * TickUs = (tod_rate * TickUs) * q
  BY <1>1, <1>2
<1>5. n * TickUs = ALT_US * q + r * TickUs
  BY <1>1, <1>3, <1>4
<1>6. r * TickUs \in 0 .. ALT_US - 1
  <2>1. r * TickUs <= (tod_rate - 1) * TickUs /\ r * TickUs \in Int
    BY <1>1, <1>2, Scaled
  <2>2. (tod_rate - 1) * TickUs = tod_rate * TickUs - 1 * TickUs
    BY <1>1, Distributes
  <2>3. r * TickUs >= 0
    BY <1>1, <1>2
  <2>4. 1 * TickUs = TickUs
    BY <1>1
  <2>5. (tod_rate - 1) * TickUs = ALT_US - TickUs
    BY <1>1, <2>2, <2>4
  <2> QED
    BY <1>1, <2>1, <2>3, <2>5
<1>7. (n * TickUs) % ALT_US = r * TickUs
  <2>1. n * TickUs \in Int
    BY <1>1
  <2> QED
    BY <1>1, <1>2, <1>5, <1>6, <2>1, DivModUnique
<1> QED
  BY <1>2, <1>5, <1>7 DEF q

\* Whole seconds do not change the microseconds.
LEMMA SecondsShift ==
  ASSUME NEW x \in Int, NEW q \in Int, NEW m \in Nat, m > 0
  PROVE  (x + m * q) % m = x % m /\ (x + m * q) \div m = x \div m + q
<1> DEFINE d == x \div m
           r == x % m
<1>1. r \in 0 .. m - 1 /\ d \in Int /\ x = m * d + r
  BY DivMod
<1> HIDE DEF d, r
<1>2. m * (d + q) = m * d + m * q /\ m * d \in Int /\ m * q \in Int
  BY <1>1
<1>3. x + m * q = m * (d + q) + r /\ d + q \in Int /\ x + m * q \in Int
  BY <1>1, <1>2
<1>4. (x + m * q) % m = r /\ (x + m * q) \div m = d + q
  BY <1>1, <1>3, DivModUnique
<1> QED
  BY <1>4 DEF d, r

\* The offset is the time that was set less the time since reset at that
\* moment.
TodInv ==
  /\ t_nticks \in 0 .. Uptime /\ at \in 0 .. t_nticks
  /\ set.sec \in Nat /\ set.usec \in 0 .. ALT_US - 1
  /\ tod_rate # 0 => /\ reset.sec = set.sec - at \div tod_rate
                     /\ reset.usec = set.usec - ((at * TickUs) % ALT_US)

LEMMA TodInit ==
  ASSUME Tod!Init
  PROVE  TodInv
<1>1. /\ t_nticks = 0 /\ at = 0 /\ set.sec = 0 /\ set.usec = 0 /\ reset.sec = 0 /\ reset.usec = 0
  BY DEF Tod!Init, Tod!Zero
<1>2. Uptime \in Nat /\ ALT_US \in Nat \ {0}
  BY TimesAssumption DEF Tod!TodAssumption
<1>3. ASSUME tod_rate # 0
      PROVE  reset.sec = set.sec - at \div tod_rate /\ reset.usec = set.usec - ((at * TickUs) % ALT_US)
  <2>1. tod_rate \in Nat /\ tod_rate > 0 /\ TickUs \in Nat /\ ALT_US > 0 /\ ALT_US \in Nat
    BY <1>3, TodConstants
  <2>2. 0 \div tod_rate = 0 /\ 0 % ALT_US = 0 /\ 0 * TickUs = 0
    BY <2>1
  <2> QED
    BY <1>1, <2>2
<1> QED
  BY <1>1, <1>2, <1>3 DEF TodInv

LEMMA TodKept ==
  ASSUME TodInv, Tod!Next
  PROVE  TodInv'
<1>1. CASE Tod!Tick
  <2>1. /\ t_nticks < Uptime /\ t_nticks' = t_nticks + 1 /\ UNCHANGED <<reset, set, at>>
    BY <1>1 DEF Tod!Tick
  <2>2. Uptime \in Nat
    BY TimesAssumption DEF Tod!TodAssumption
  <2>3. t_nticks' \in 0 .. Uptime /\ at' \in 0 .. t_nticks'
    BY <2>1, <2>2 DEF TodInv
  <2> QED
    BY <2>1, <2>3 DEF TodInv
<1>2. CASE Tod!ALT_GETTIMEOFDAY \/ Tod!ALT_TIMES
  BY <1>2 DEF Tod!ALT_GETTIMEOFDAY, Tod!ALT_TIMES, TodInv
<1>3. ASSUME NEW s \in Seconds, NEW u \in 0 .. ALT_US - 1, NEW tz \in Zones,
             Tod!ALT_SETTIMEOFDAY([sec |-> s, usec |-> u], tz)
      PROVE  TodInv'
  <2>1. CASE tod_rate = 0
    BY <1>3, <2>1 DEF Tod!ALT_SETTIMEOFDAY, TodInv
  <2>2. CASE tod_rate # 0
    <3>1. /\ set'.sec = s /\ set'.usec = u /\ at' = t_nticks /\ t_nticks' = t_nticks
          /\ reset'.sec = s - t_nticks \div tod_rate
          /\ reset'.usec = u - (((t_nticks * TickUs) % TodW) % ALT_US)
      BY <1>3, <2>2 DEF Tod!ALT_SETTIMEOFDAY, Tod!SettimeofdayOffset, TickUs
    <3>2. (t_nticks * TickUs) % TodW = t_nticks * TickUs
      <4>1. /\ TickUs \in Nat /\ TodW \in Nat /\ Uptime \in Nat /\ Uptime * TickUs < TodW
            /\ t_nticks \in Nat /\ t_nticks <= Uptime
        BY <2>2, TodConstants DEF TodInv
      <4>2. t_nticks * TickUs <= Uptime * TickUs /\ t_nticks * TickUs \in Int /\ Uptime * TickUs \in Int
        BY <4>1, Scaled
      <4>3. t_nticks * TickUs \in Nat
        BY <4>1
      <4> QED
        BY <4>1, <4>2, <4>3, Below
    <3>3. s \in Nat
      BY TimesAssumption DEF Tod!TodAssumption
    <3>4. t_nticks' \in 0 .. Uptime /\ at' \in 0 .. t_nticks'
      BY <3>1 DEF TodInv
    <3> QED
      BY <3>1, <3>2, <3>3, <3>4 DEF TodInv
  <2> QED
    BY <2>1, <2>2
<1> QED
  BY <1>1, <1>2, <1>3 DEF Tod!Next

\* The time read is the time that was set plus the ticks since.
LEMMA TodTracks ==
  ASSUME TodInv
  PROVE  Tod!TimeTracksTicks
<1> SUFFICES ASSUME tod_rate # 0
             PROVE  LET usec == set.usec + (t_nticks - at) * (ALT_US \div tod_rate)
                    IN Tod!GettimeofdayValue = [sec |-> set.sec + usec \div ALT_US, usec |-> usec % ALT_US]
  BY DEF Tod!TimeTracksTicks
<1>1. /\ tod_rate \in Nat /\ tod_rate > 0 /\ ALT_US \in Nat /\ ALT_US > 0
      /\ TickUs \in Nat /\ TickUs > 0
  BY TodConstants
<1>2. /\ t_nticks \in Nat /\ at \in Nat /\ at <= t_nticks /\ set.sec \in Nat /\ set.usec \in Nat
      /\ reset.sec = set.sec - at \div tod_rate
      /\ reset.usec = set.usec - ((at * TickUs) % ALT_US)
  <2>1. Uptime \in Nat
    BY TodConstants
  <2> QED
    BY <1>1, <2>1 DEF TodInv
<1>3. PICK qn \in Int, rn \in 0 .. tod_rate - 1 :
        /\ t_nticks \div tod_rate = qn /\ (t_nticks * TickUs) % ALT_US = rn * TickUs
        /\ t_nticks * TickUs = ALT_US * qn + rn * TickUs
  BY <1>2, TicksAsTime
<1>4. PICK qa \in Int, ra \in 0 .. tod_rate - 1 :
        /\ at \div tod_rate = qa /\ (at * TickUs) % ALT_US = ra * TickUs
        /\ at * TickUs = ALT_US * qa + ra * TickUs
  BY <1>2, TicksAsTime
<1> DEFINE usec == set.usec + (t_nticks - at) * TickUs
           u == (set.usec - ra * TickUs) + rn * TickUs
           sec == (set.sec - qa) + qn
<1>5. Tod!GettimeofdayValue = Tod!Normalised(sec, u)
  BY <1>2, <1>3, <1>4 DEF Tod!GettimeofdayValue, TickUs
<1>6. /\ rn * TickUs \in Int /\ ra * TickUs \in Int /\ u \in Int /\ sec \in Int
      /\ (t_nticks - at) * TickUs \in Nat /\ usec \in Nat
  <2>1. rn \in Int /\ ra \in Int /\ t_nticks - at \in Nat
    BY <1>2, <1>3, <1>4
  <2> HIDE DEF TickUs
  <2>2. rn * TickUs \in Int /\ ra * TickUs \in Int /\ (t_nticks - at) * TickUs \in Nat
    BY <1>1, <2>1
  <2> QED
    BY <1>2, <1>3, <1>4, <2>2
<1>7. usec = u + ALT_US * (qn - qa)
  <2>1. (t_nticks - at) * TickUs = t_nticks * TickUs - at * TickUs
    BY <1>1, <1>2, Distributes
  <2>2. ALT_US * (qn - qa) = ALT_US * qn - ALT_US * qa /\ ALT_US * qn \in Int /\ ALT_US * qa \in Int
    BY <1>1, <1>3, <1>4
  <2> QED
    BY <1>2, <1>3, <1>4, <1>6, <2>1, <2>2
<1> HIDE DEF usec, u, sec
<1>8. usec % ALT_US = u % ALT_US /\ usec \div ALT_US = u \div ALT_US + (qn - qa)
  <2>1. qn - qa \in Int
    BY <1>3, <1>4
  <2> QED
    BY <1>1, <1>6, <1>7, <2>1, SecondsShift
<1>9. u \div ALT_US \in Int /\ usec \div ALT_US \in Nat
  <2>1. usec % ALT_US \in 0 .. ALT_US - 1 /\ usec \div ALT_US \in Int /\ u \div ALT_US \in Int
        /\ usec = ALT_US * (usec \div ALT_US) + (usec % ALT_US)
    BY <1>1, <1>6, DivMod
  <2>2. usec \div ALT_US >= 0
    BY <1>1, <1>6
  <2> QED
    BY <2>1, <2>2
<1>10. sec + u \div ALT_US = set.sec + usec \div ALT_US
  BY <1>2, <1>3, <1>4, <1>8, <1>9 DEF sec
<1>11. ~(sec < -(u \div ALT_US))
  BY <1>2, <1>6, <1>9, <1>10
<1>12. Tod!Normalised(sec, u) = [sec |-> sec + u \div ALT_US, usec |-> u % ALT_US]
  BY <1>11 DEF Tod!Normalised
<1> QED
  BY <1>5, <1>8, <1>10, <1>12 DEF usec, TickUs

----------------------------------------------------------------------------
(* CycleCounter.                                                           *)

Round == P * CycleW
Phase == P - 1 - counter
Pending == IF c_to THEN 1 ELSE 0

\* Ticks and counter together are the number of cycles: with the interrupt
\* pending the tick count is one behind.
Steady ==
  IF cont THEN now = ((c_nticks + Pending) % CycleW) * P + Phase
  ELSE c_nticks = 0 /\ pc \notin {"t1", "snap"} /\ (~c_to => now = Phase)

\* Since t1 was read, so few ticks were counted that the count did not come
\* round: m of them, and q cycles were over in the period when it was read.
FewTicks ==
  \E m \in 0 .. CycleW - 1, q \in 0 .. 2 * P - 1 :
     /\ c_nticks = (t1 + m) % CycleW
     /\ (m + Pending) * P + Phase - q <= since

\* The cycles of a snapshot, and that they are those of a moment of the call.
Base == (IF cont THEN t1 * P ELSE 0) + (P - 1 - snap)
ThenTrue == \E d \in 0 .. since : now = (Base + d) % Round

\* The types, one by one.
CycleTypes ==
  /\ counter \in 0 .. P - 1 /\ snap \in 0 .. P - 1 /\ c_nticks \in 0 .. CycleW - 1
  /\ cont \in BOOLEAN /\ running \in BOOLEAN /\ c_to \in BOOLEAN /\ late \in BOOLEAN
  /\ pc \in {"idle", "t1", "snap", "low", "high", "t2", "done"}
  /\ t1 \in 0 .. CycleW - 1 /\ low \in 0 .. H - 1 /\ high \in 0 .. P - 1
  /\ ret \in 0 .. Round - 1 /\ now \in 0 .. Round - 1 /\ since \in 0 .. Span

\* What a call in progress has read.
CallInv ==
  /\ pc = "idle" => since = 0
  /\ cont /\ pc \in {"snap", "low", "high", "t2"} => FewTicks
  /\ cont /\ pc \in {"low", "high", "t2"} /\ c_nticks = t1 =>
       ThenTrue \/ (pc = "low" /\ c_to /\ late)
  /\ ~cont /\ ~c_to /\ pc \in {"low", "high", "t2"} => ThenTrue
  /\ pc \in {"high", "t2"} => low = snap % H
  /\ pc = "t2" => high = snap \div H

CycleInv == CycleTypes /\ Steady /\ CallInv /\ Cycles!CyclesExact

LEMMA CycleTypesAre == Cycles!TypeOK <=> CycleTypes
  BY DEF Cycles!TypeOK, CycleTypes, Round

LEMMA CycleConstants ==
  /\ P \in Nat /\ P > 0 /\ H \in Nat /\ H > 0 /\ CycleW \in Nat /\ CycleW > 1
  /\ Span \in Nat /\ Span <= P * (CycleW - 2) /\ Round \in Nat /\ Round > 0 /\ Round = CycleW * P
<1>1. /\ P \in Nat /\ P > 0 /\ H \in Nat /\ H > 0 /\ CycleW \in Nat /\ CycleW > 0
      /\ Span \in 0 .. P * (CycleW - 2)
  BY CyclesAssumption DEF Cycles!CounterAssumption
<1>2. P * (CycleW - 2) \in Int
  BY <1>1
<1>3. Span \in Nat /\ Span <= P * (CycleW - 2)
  BY <1>1, <1>2
<1>4. CycleW > 1
  <2> SUFFICES ASSUME CycleW = 1 PROVE FALSE
    BY <1>1
  <2>1. P * (CycleW - 2) = 0 - P
    BY <1>1
  <2> QED
    BY <1>1, <1>3, <2>1
<1>5. Round \in Nat /\ Round > 0 /\ Round = CycleW * P
  BY <1>1 DEF Round
<1> QED
  BY <1>1, <1>3, <1>4, <1>5

\* A tick count and a phase make a number of cycles.
LEMMA CyclesInRange ==
  ASSUME NEW x \in 0 .. CycleW - 1, NEW y \in 0 .. P - 1
  PROVE  x * P + y \in 0 .. Round - 1 /\ x * P \in Nat
<1>1. P \in Nat /\ CycleW \in Nat /\ Round = CycleW * P /\ Round \in Nat
  BY CycleConstants
<1>2. x * P <= (CycleW - 1) * P /\ x * P \in Int
  BY <1>1, Scaled
<1>3. (CycleW - 1) * P = CycleW * P - 1 * P /\ 1 * P = P
  BY <1>1, Distributes
<1>4. x * P \in Nat
  BY <1>1
<1>5. x * P <= Round - P
  BY <1>1, <1>2, <1>3
<1> QED
  BY <1>1, <1>4, <1>5

\* One more, modulo m.
LEMMA ModNext ==
  ASSUME NEW x \in Int, NEW m \in Nat, m > 0
  PROVE  ((x % m) + 1) % m = (x + 1) % m
<1> DEFINE d == x \div m
           r == x % m
<1>1. r \in 0 .. m - 1 /\ d \in Int /\ x = m * d + r
  BY DivMod
<1> HIDE DEF d, r
<1>2. m * d \in Int
  BY <1>1
<1>3. x + 1 = (r + 1) + m * d /\ r + 1 \in Int
  BY <1>1, <1>2
<1>4. ((r + 1) + m * d) % m = (r + 1) % m
  BY <1>1, <1>3, SecondsShift
<1> QED
  BY <1>3, <1>4 DEF r

\* A snapshot that was exact stays so when a cycle passes.
LEMMA ThenTrueLater ==
  ASSUME ThenTrue, since \in Nat, since' = since + 1, now' = (now + 1) % Round,
         UNCHANGED <<cont, t1, snap>>, snap \in 0 .. P - 1, t1 \in 0 .. CycleW - 1
  PROVE  ThenTrue'
<1>1. PICK d \in 0 .. since : now = (Base + d) % Round
  BY DEF ThenTrue
<1>2. P \in Nat /\ Round \in Nat /\ Round > 0 /\ CycleW \in Nat
  BY CycleConstants
<1>3. Base \in Int /\ Base' = Base
  <2>1. t1 * P \in Int
    BY <1>2
  <2> QED
    BY <1>2, <2>1 DEF Base
<1> HIDE DEF Base
<1>4. Base + d \in Int /\ (Base + d) + 1 = Base + (d + 1)
  BY <1>3
<1>5. now' = (Base + (d + 1)) % Round
  BY <1>1, <1>2, <1>4, ModNext
<1>6. d + 1 \in 0 .. since'
  OBVIOUS
<1> QED
  BY <1>3, <1>5, <1>6 DEF ThenTrue

\* Ticks since t1 was read: as many as fit into the cycles of the call.
LEMMA TicksBounded ==
  ASSUME NEW m \in Nat, NEW q \in 0 .. 2 * P - 1, NEW b \in {0, 1}, NEW x \in 0 .. P - 1,
         NEW s \in 0 .. Span, (m + b) * P + x - q <= s
  PROVE  m < CycleW
<1>1. P \in Nat /\ P > 0 /\ CycleW \in Nat /\ Span \in Nat /\ Span <= P * (CycleW - 2)
  BY CycleConstants
<1>2. m * P <= (m + b) * P /\ m * P \in Int /\ (m + b) * P \in Int
  BY <1>1, Scaled
<1>3. P * (CycleW - 2) = CycleW * P - 2 * P /\ CycleW * P \in Int
  BY <1>1
<1>4. m * P < CycleW * P
  BY <1>1, <1>2, <1>3
<1> SUFFICES ASSUME CycleW <= m PROVE FALSE
  BY <1>1
<1>5. CycleW * P <= m * P
  BY <1>1, Scaled
<1> QED
  BY <1>2, <1>3, <1>4, <1>5

\* Fewer ticks than the count has values do not bring it back.
LEMMA NotRound ==
  ASSUME NEW x \in 0 .. CycleW - 1, NEW m \in 1 .. CycleW - 1
  PROVE  (x + m) % CycleW # x
<1>1. CycleW \in Nat /\ CycleW > 0
  BY CycleConstants
<1>2. CASE x + m < CycleW
  <2>1. (x + m) % CycleW = x + m
    BY <1>1, <1>2, Below
  <2> QED
    BY <1>1, <2>1
<1>3. CASE x + m >= CycleW
  <2>1. x + m = CycleW * 1 + (x + m - CycleW) /\ x + m - CycleW \in 0 .. CycleW - 1
    BY <1>1, <1>3
  <2>2. (x + m) % CycleW = x + m - CycleW
    BY <1>1, <2>1, DivModUnique
  <2> QED
    BY <1>1, <2>2
<1> QED
  BY <1>1, <1>2, <1>3

LEMMA CycleInit ==
  ASSUME Cycles!Init
  PROVE  CycleInv
<1>1. /\ counter = P - 1 /\ snap = 0 /\ cont = TRUE /\ running = TRUE /\ c_to = FALSE
      /\ c_nticks = 0 /\ late = FALSE /\ pc = "idle" /\ t1 = 0 /\ low = 0 /\ high = 0 /\ ret = 0
      /\ now = 0 /\ since = 0
  BY DEF Cycles!Init
<1>2. /\ P \in Nat /\ P > 0 /\ H \in Nat /\ H > 0 /\ CycleW \in Nat /\ CycleW > 1
      /\ Span \in Nat /\ Round \in Nat /\ Round > 0 /\ Round = P * CycleW
  BY CycleConstants DEF Round
<1>3. CycleTypes
  <2>1. /\ P - 1 \in 0 .. P - 1 /\ 0 \in 0 .. P - 1 /\ 0 \in 0 .. CycleW - 1 /\ 0 \in 0 .. H - 1
        /\ 0 \in 0 .. Round - 1 /\ 0 \in 0 .. Span
    BY <1>2
  <2> QED
    BY <1>1, <2>1 DEF CycleTypes
<1>4. Steady
  <2>1. Phase = 0 /\ Pending = 0
    BY <1>1, <1>2 DEF Phase, Pending
  <2>2. (0 + 0) % CycleW = 0 /\ 0 * P = 0
    BY <1>2
  <2> QED
    BY <1>1, <2>1, <2>2 DEF Steady
<1> QED
  BY <1>1, <1>3, <1>4 DEF CycleInv, CallInv, Cycles!CyclesExact

\* A cycle of the timer.
LEMMA HwCycleKept ==
  ASSUME CycleInv, Cycles!HwCycle
  PROVE  CycleInv'
<1>1. /\ P \in Nat /\ P > 0 /\ CycleW \in Nat /\ CycleW > 1 /\ Span \in Nat
      /\ Round \in Nat /\ Round > 0 /\ Round = CycleW * P
  BY CycleConstants
<1>2. CycleTypes /\ Steady
  BY DEF CycleInv
<1>3. /\ ~(counter = 0 /\ c_to) /\ (pc = "idle" \/ since < Span)
      /\ counter' = IF counter = 0 THEN P - 1 ELSE counter - 1
      /\ c_to' = (c_to \/ counter = 0) /\ running' = (counter # 0 \/ cont)
      /\ now' = (now + 1) % Round
      /\ since' = IF pc = "idle" THEN 0 ELSE since + 1
      /\ UNCHANGED <<snap, cont, c_nticks, late, pc, t1, low, high, ret>>
  BY DEF Cycles!HwCycle, Cycles!callVars, Round
<1>4. CycleTypes'
  <2>1. now' \in 0 .. Round - 1
    BY <1>1, <1>2, <1>3, DivMod DEF CycleTypes
  <2>2. counter' \in 0 .. P - 1 /\ since' \in 0 .. Span
    BY <1>1, <1>2, <1>3 DEF CycleTypes
  <2>3. c_to' \in BOOLEAN /\ running' \in BOOLEAN
    BY <1>3
  <2> QED
    BY <1>2, <1>3, <2>1, <2>2, <2>3 DEF CycleTypes
<1>5. /\ Phase \in 0 .. P - 1 /\ Phase' \in 0 .. P - 1
      /\ \/ counter # 0 /\ Phase' = Phase + 1 /\ Pending' = Pending /\ c_to' = c_to
         \/ counter = 0 /\ ~c_to /\ c_to' /\ Phase = P - 1 /\ Phase' = 0 /\ Pending = 0 /\ Pending' = 1
  <2>1. counter \in 0 .. P - 1 /\ counter' \in 0 .. P - 1 /\ c_to \in BOOLEAN
    BY <1>2, <1>4 DEF CycleTypes
  <2>2. Phase \in 0 .. P - 1 /\ Phase' \in 0 .. P - 1
    <3>1. Phase \in 0 .. P - 1
      BY <1>1, <2>1, SMT DEF Phase
    <3>2. Phase' = P - 1 - counter'
      BY DEF Phase
    <3>3. \A x \in 0 .. P - 1 : P - 1 - x \in 0 .. P - 1
      BY <1>1
    <3>4. Phase' \in 0 .. P - 1
      BY <2>1, <3>2, <3>3, Zenon
    <3> QED
      BY <3>1, <3>4
  <2>3. CASE counter # 0
    <3>1. c_to' = c_to
      BY <1>3, <2>1, <2>3
    <3>2. Phase' = Phase + 1
      BY <1>1, <1>3, <2>1, <2>3 DEF Phase
    <3>3. Pending' = Pending
      BY <3>1 DEF Pending
    <3> QED
      BY <2>2, <2>3, <3>1, <3>2, <3>3
  <2>4. CASE counter = 0
    <3>1. ~c_to /\ c_to'
      BY <1>3, <2>4
    <3>2. Phase = P - 1 /\ Phase' = 0
      BY <1>1, <1>3, <2>1, <2>4 DEF Phase
    <3>3. Pending = 0 /\ Pending' = 1
      BY <3>1 DEF Pending
    <3> QED
      BY <2>2, <2>4, <3>1, <3>2, <3>3
  <2> QED
    BY <2>3, <2>4
<1>6. Pending \in {0, 1} /\ Pending' \in {0, 1}
  BY DEF Pending
<1>7. Steady'
  <2>1. CASE cont
    <3> DEFINE T == (c_nticks + Pending) % CycleW
    <3>1. now = T * P + Phase /\ T \in 0 .. CycleW - 1
      BY <1>1, <1>2, <1>6, <2>1, DivMod DEF Steady, CycleTypes
    <3>2. CASE counter # 0
      <4>1. T' = T /\ Phase + 1 \in 0 .. P - 1 /\ Phase' = Phase + 1
        BY <1>3, <1>5, <3>2
      <4> HIDE DEF T
      <4>2. T * P + (Phase + 1) \in 0 .. Round - 1 /\ T * P \in Nat
        BY <3>1, <4>1, CyclesInRange
      <4>3. now + 1 = T * P + (Phase + 1)
        BY <1>5, <3>1, <4>2
      <4>4. now' = T * P + (Phase + 1)
        BY <1>1, <1>3, <4>2, <4>3, Below
      <4>5. now' = T' * P + Phase'
        BY <4>1, <4>4
      <4> QED
        BY <1>3, <2>1, <4>5 DEF Steady, T
    <3>3. CASE counter = 0
      <4>1. T = c_nticks /\ Phase = P - 1 /\ Pending' = 1 /\ Phase' = 0 /\ T' = (c_nticks + 1) % CycleW
        BY <1>1, <1>2, <1>3, <1>5, <3>3, Below DEF CycleTypes
      <4> HIDE DEF T
      <4>2. c_nticks * P \in Nat /\ now = c_nticks * P + (P - 1)
        BY <1>2, <3>1, <4>1, CyclesInRange DEF CycleTypes
      <4>3. (c_nticks + 1) * P = c_nticks * P + 1 * P /\ 1 * P = P
        BY <1>1, <1>2, Distributes DEF CycleTypes
      <4>4. now + 1 = (c_nticks + 1) * P
        BY <1>1, <4>2, <4>3
      <4>5. CASE c_nticks + 1 < CycleW
        <5>1. T' = c_nticks + 1 /\ c_nticks + 1 \in 0 .. CycleW - 1 /\ 0 \in 0 .. P - 1
          BY <1>1, <1>2, <4>1, <4>5, Below DEF CycleTypes
        <5>2. (c_nticks + 1) * P + 0 \in 0 .. Round - 1 /\ (c_nticks + 1) * P \in Nat
          BY <5>1, CyclesInRange
        <5>3. now' = (c_nticks + 1) * P
          BY <1>1, <1>3, <4>4, <5>2, Below
        <5>4. now' = T' * P + Phase'
          BY <4>1, <5>1, <5>2, <5>3
        <5> QED
          BY <1>3, <2>1, <5>4 DEF Steady, T
      <4>6. CASE c_nticks + 1 = CycleW
        <5>1. CycleW = CycleW * 1 + 0 /\ Round = Round * 1 + 0
          BY <1>1
        <5>2. CycleW % CycleW = 0 /\ Round % Round = 0
          BY <1>1, <5>1, DivModUnique
        <5>3. T' = 0 /\ now' = 0
          BY <1>1, <1>3, <4>1, <4>4, <4>6, <5>2
        <5>4. now' = T' * P + Phase'
          BY <1>1, <4>1, <5>3
        <5> QED
          BY <1>3, <2>1, <5>4 DEF Steady, T
      <4> QED
        BY <1>1, <1>2, <4>5, <4>6 DEF CycleTypes
    <3> QED
      BY <3>2, <3>3
  <2>2. CASE ~cont
    <3>1. c_nticks = 0 /\ pc \notin {"t1", "snap"} /\ (~c_to => now = Phase)
      BY <1>2, <2>2 DEF Steady
    <3>2. ~c_to' => now' = Phase'
      <4> SUFFICES ASSUME ~c_to' PROVE now' = Phase'
        OBVIOUS
      <4>1. ~c_to /\ Phase' = Phase + 1 /\ now = Phase /\ Phase + 1 \in 0 .. P - 1
        BY <1>3, <1>5, <3>1
      <4>2. 0 \in 0 .. CycleW - 1
        BY <1>1
      <4>3. 0 * P + (Phase + 1) \in 0 .. Round - 1 /\ 0 * P = 0
        BY <1>1, <4>1, <4>2, CyclesInRange
      <4> QED
        BY <1>1, <1>3, <4>1, <4>3, Below
    <3> QED
      BY <1>3, <2>2, <3>1, <3>2 DEF Steady
  <2> QED
    BY <1>2, <2>1, <2>2 DEF CycleTypes
<1>8. ASSUME pc # "idle", FewTicks PROVE FewTicks'
  <2>1. PICK m \in 0 .. CycleW - 1, q \in 0 .. 2 * P - 1 :
          c_nticks = (t1 + m) % CycleW /\ (m + Pending) * P + Phase - q <= since
    BY <1>8 DEF FewTicks
  <2>2. (m + Pending') * P + Phase' = (m + Pending) * P + Phase + 1
    <3>1. (m + 0) * P \in Int /\ (m + 1) * P \in Int /\ (m + 1) * P = (m + 0) * P + P
      BY <1>1
    <3>2. CASE Phase' = Phase + 1 /\ Pending' = Pending
      <4>1. (m + Pending) * P \in Int
        BY <1>1, <1>6
      <4> QED
        BY <1>1, <1>5, <3>2, <4>1
    <3>3. CASE Phase = P - 1 /\ Phase' = 0 /\ Pending = 0 /\ Pending' = 1
      BY <1>1, <3>1, <3>3
    <3> QED
      BY <1>5, <3>2, <3>3
  <2>3. (m + Pending) * P \in Int
    BY <1>1, <1>6
  <2>4. (m + Pending') * P + Phase' - q <= since'
    BY <1>1, <1>2, <1>3, <1>5, <1>8, <2>1, <2>2, <2>3 DEF CycleTypes
  <2> QED
    BY <1>3, <2>1, <2>4 DEF FewTicks
<1>9. ASSUME pc # "idle", ThenTrue PROVE ThenTrue'
  <2>1. since \in Nat /\ since' = since + 1
    BY <1>1, <1>2, <1>3, <1>9 DEF CycleTypes
  <2> QED
    BY <1>2, <1>3, <1>9, <2>1, ThenTrueLater DEF CycleTypes
<1>10. ~c_to' => ~c_to
  BY <1>3
<1>11. c_to /\ late => c_to' /\ late'
  BY <1>3
<1>12. Cycles!CyclesExact'
  <2> SUFFICES ASSUME pc = "done", cont \/ ~c_to
               PROVE  \E d \in 0 .. since' : (ret + d) % Round = now'
    BY <1>3, <1>10 DEF Cycles!CyclesExact, Round
  <2>1. PICK d \in 0 .. since : (ret + d) % Round = now
    BY DEF CycleInv, Cycles!CyclesExact, Round
  <2>2. ret + d \in Int /\ (ret + d) + 1 = ret + (d + 1)
    BY <1>2 DEF CycleTypes
  <2>3. (ret + (d + 1)) % Round = now'
    BY <1>1, <1>3, <2>1, <2>2, ModNext
  <2>4. d + 1 \in 0 .. since'
    BY <1>1, <1>2, <1>3 DEF CycleTypes
  <2> QED
    BY <2>3, <2>4
<1>13. pc' = "idle" => since' = 0
  BY <1>3
<1>14. CallInv'
  BY <1>3, <1>4, <1>7, <1>8, <1>9, <1>10, <1>11, <1>12, <1>13 DEF CallInv, CycleInv
<1> QED
  BY <1>3, <1>4, <1>7, <1>8, <1>9, <1>10, <1>11, <1>12, <1>13, <1>14 DEF CycleInv

\* The interrupt counts the tick that was pending.
LEMMA InterruptKept ==
  ASSUME CycleInv, Cycles!Interrupt
  PROVE  CycleInv'
<1>1. /\ P \in Nat /\ P > 0 /\ CycleW \in Nat /\ CycleW > 1 /\ Span \in Nat
  BY CycleConstants
<1>2. CycleTypes /\ Steady
  BY DEF CycleInv
<1>3. /\ c_to /\ cont /\ c_to' = FALSE /\ late' = FALSE /\ c_nticks' = (c_nticks + 1) % CycleW
      /\ UNCHANGED <<counter, snap, cont, running, pc, t1, low, high, ret, now, since>>
  BY DEF Cycles!Interrupt, Cycles!callVars
<1>4. c_nticks' \in 0 .. CycleW - 1
  BY <1>1, <1>2, <1>3, DivMod DEF CycleTypes
<1>5. CycleTypes'
  BY <1>2, <1>3, <1>4 DEF CycleTypes
<1>6. Phase' = Phase /\ Phase \in 0 .. P - 1 /\ Pending = 1 /\ Pending' = 0
  BY <1>1, <1>2, <1>3 DEF Phase, Pending, CycleTypes
<1>7. Steady'
  <2>1. (c_nticks' + 0) % CycleW = (c_nticks + 1) % CycleW
    BY <1>1, <1>3, <1>4, Below
  <2> QED
    BY <1>2, <1>3, <1>6, <2>1 DEF Steady
<1>8. ASSUME FewTicks PROVE FewTicks' /\ c_nticks' # t1
  <2>1. PICK m \in 0 .. CycleW - 1, q \in 0 .. 2 * P - 1 :
          c_nticks = (t1 + m) % CycleW /\ (m + 1) * P + Phase - q <= since
    BY <1>6, <1>8 DEF FewTicks
  <2>2. c_nticks' = (t1 + (m + 1)) % CycleW
    <3>1. t1 + m \in Int /\ (t1 + m) + 1 = t1 + (m + 1)
      BY <1>2 DEF CycleTypes
    <3> QED
      BY <1>1, <1>3, <2>1, <3>1, ModNext
  <2>3. m + 1 \in Nat /\ ((m + 1) + 0) * P + Phase - q <= since /\ since \in 0 .. Span
    BY <1>1, <1>2, <2>1 DEF CycleTypes
  <2>4. m + 1 < CycleW
    BY <1>6, <2>3, TicksBounded
  <2>5. m + 1 \in 1 .. CycleW - 1
    BY <1>1, <2>4
  <2>6. FewTicks'
    BY <1>3, <1>6, <2>2, <2>3, <2>5 DEF FewTicks
  <2>7. (t1 + (m + 1)) % CycleW # t1
    BY <1>2, <2>5, NotRound DEF CycleTypes
  <2> QED
    BY <2>2, <2>6, <2>7
<1>9. Cycles!CyclesExact'
  BY <1>3 DEF Cycles!CyclesExact, CycleInv
<1>14. CallInv'
  BY <1>3, <1>5, <1>7, <1>8, <1>9 DEF CallInv, CycleInv
<1> QED
  BY <1>3, <1>5, <1>7, <1>8, <1>9, <1>14 DEF CycleInv

\* The result of a call.
LEMMA SnapshotIsCycles ==
  ASSUME CycleTypes, low = snap % H, high = snap \div H, NEW x \in 0 .. CycleW - 1
  PROVE  /\ Cycles!Cycles(x) = x * P + (P - 1 - snap)
         /\ Cycles!Cycles(x) \in 0 .. Round - 1
<1>1. P \in Nat /\ H \in Nat /\ H > 0 /\ snap \in 0 .. P - 1
  BY CycleConstants DEF CycleTypes
<1>2. snap % H \in 0 .. H - 1 /\ snap \div H \in Int /\ snap = H * (snap \div H) + (snap % H)
  BY <1>1, DivMod
<1>3. high * H + low = snap
  BY <1>1, <1>2
<1>4. Cycles!Cycles(x) = x * P + (P - 1 - snap)
  BY <1>3 DEF Cycles!Cycles
<1>5. P - 1 - snap \in 0 .. P - 1
  BY <1>1
<1> QED
  BY <1>4, <1>5, CyclesInRange

\* The reads of get_total_cycles.
LEMMA ReadKept ==
  ASSUME CycleInv,
         \/ Cycles!ReadT1 \/ Cycles!TakeSnap \/ Cycles!ReadLow \/ Cycles!ReadHigh
         \/ Cycles!ReadT2 \/ Cycles!Return
  PROVE  CycleInv'
<1>1. /\ P \in Nat /\ P > 0 /\ H \in Nat /\ H > 0 /\ CycleW \in Nat /\ CycleW > 1 /\ Span \in Nat
      /\ Round \in Nat /\ Round > 0
  BY CycleConstants
<1>2. CycleTypes /\ Steady
  BY DEF CycleInv
<1>3. /\ UNCHANGED <<counter, cont, running, c_to, c_nticks, now>>
      /\ (cont /\ c_to => ~late) /\ late' = (cont /\ c_to)
  BY DEF Cycles!ReadT1, Cycles!TakeSnap, Cycles!ReadLow, Cycles!ReadHigh, Cycles!ReadT2,
         Cycles!Return, Cycles!Step, Cycles!hwVars
<1>4. /\ Phase' = Phase /\ Phase \in 0 .. P - 1 /\ Pending' = Pending /\ Pending \in {0, 1}
      /\ late' \in BOOLEAN
  BY <1>1, <1>2, <1>3 DEF Phase, Pending, CycleTypes
<1>5. CASE Cycles!ReadT1
  <2>1. /\ pc \in {"idle", "t1"} /\ cont /\ t1' = c_nticks /\ pc' = "snap"
        /\ since' = (IF pc = "idle" THEN 0 ELSE since) /\ UNCHANGED <<snap, low, high, ret>>
    BY <1>5 DEF Cycles!ReadT1, Cycles!hwVars
  <2>2. CycleTypes'
    BY <1>1, <1>2, <1>3, <1>4, <2>1 DEF CycleTypes
  <2>3. Steady'
    BY <1>2, <1>3, <1>4, <2>1 DEF Steady
  <2>4. FewTicks'
    <3> DEFINE q == Pending * P + Phase
    <3>1. Pending * P \in {0, P}
      BY <1>1, <1>4
    <3>2. q \in 0 .. 2 * P - 1
      BY <1>1, <1>4, <3>1
    <3>3. (0 + Pending) * P + Phase - q <= since'
      <4>1. 0 + Pending = Pending
        BY <1>4
      <4>2. since' \in Nat
        BY <1>1, <2>2 DEF CycleTypes
      <4> QED
        BY <1>1, <1>4, <3>1, <4>1, <4>2
    <3>4. c_nticks = (c_nticks + 0) % CycleW
      BY <1>1, <1>2, Below DEF CycleTypes
    <3>5. 0 \in 0 .. CycleW - 1
      BY <1>1
    <3> HIDE DEF q
    <3> QED
      BY <1>3, <1>4, <2>1, <3>2, <3>3, <3>4, <3>5 DEF FewTicks
  <2>8. CallInv'
    BY <1>3, <2>1, <2>2, <2>3, <2>4 DEF CallInv, CycleInv
  <2>9. Cycles!CyclesExact'
    BY <1>3, <2>1, <2>2, <2>3, <2>4 DEF Cycles!CyclesExact, CycleInv
  <2> QED
    BY <1>3, <2>1, <2>2, <2>3, <2>4, <2>8, <2>9 DEF CycleInv
<1>6. CASE Cycles!TakeSnap
  <2>1. /\ pc = "snap" /\ snap' = counter /\ pc' = "low" /\ UNCHANGED <<t1, low, high, ret, since>>
    BY <1>6 DEF Cycles!TakeSnap, Cycles!Snapshot
  <2>2. CycleTypes' /\ cont
    BY <1>2, <1>3, <1>4, <2>1 DEF CycleTypes, Steady
  <2>3. Steady' /\ FewTicks'
    BY <1>2, <1>3, <1>4, <2>1, <2>2 DEF Steady, FewTicks, CallInv, CycleInv
  <2>4. ASSUME c_nticks = t1, ~c_to PROVE ThenTrue'
    <3>1. (t1 + 0) % CycleW = t1 /\ Pending = 0
      BY <1>1, <1>2, <2>4, Below DEF CycleTypes, Pending
    <3>2. now = t1 * P + Phase
      BY <1>2, <2>2, <2>4, <3>1 DEF Steady
    <3>3. Base' = now /\ Base' \in Int /\ now \in 0 .. Round - 1
      BY <1>1, <1>2, <1>3, <2>1, <2>2, <3>2 DEF Base, Phase, CycleTypes
    <3>4. (Base' + 0) % Round = now /\ 0 \in 0 .. since'
      BY <1>1, <1>2, <2>1, <3>3, Below DEF CycleTypes
    <3> QED
      BY <1>3, <3>4 DEF ThenTrue
  <2>8. CallInv'
    BY <1>3, <2>1, <2>2, <2>3, <2>4 DEF CallInv, CycleInv
  <2>9. Cycles!CyclesExact'
    BY <1>3, <2>1, <2>2, <2>3, <2>4 DEF Cycles!CyclesExact, CycleInv
  <2> QED
    BY <1>3, <2>1, <2>2, <2>3, <2>4, <2>8, <2>9 DEF CycleInv
<1>7. CASE Cycles!ReadLow
  <2>1. /\ pc = "low" /\ low' = snap % H /\ pc' = "high" /\ UNCHANGED <<snap, t1, high, ret, since>>
    BY <1>7 DEF Cycles!ReadLow, Cycles!hwVars
  <2>2. snap % H \in 0 .. H - 1
    BY <1>1, <1>2, DivMod DEF CycleTypes
  <2>3. CycleTypes'
    BY <1>2, <1>3, <1>4, <2>1, <2>2 DEF CycleTypes
  <2>4. Steady' /\ (FewTicks => FewTicks') /\ (ThenTrue => ThenTrue')
    BY <1>2, <1>3, <1>4, <2>1 DEF Steady, FewTicks, ThenTrue, Base
  <2>8. CallInv'
    BY <1>3, <2>1, <2>3, <2>4 DEF CallInv, CycleInv
  <2>9. Cycles!CyclesExact'
    BY <1>3, <2>1, <2>3, <2>4 DEF Cycles!CyclesExact, CycleInv
  <2> QED
    BY <1>3, <2>1, <2>3, <2>4, <2>8, <2>9 DEF CycleInv
<1>8. CASE Cycles!ReadHigh
  <2>1. /\ pc = "high" /\ high' = snap \div H /\ pc' = "t2" /\ UNCHANGED <<snap, t1, low, ret, since>>
    BY <1>8 DEF Cycles!ReadHigh, Cycles!hwVars
  <2>2. snap \div H \in 0 .. P - 1
    <3>1. snap \in 0 .. P - 1 /\ snap \in Nat
      BY <1>1, <1>2 DEF CycleTypes
    <3>2. snap \div H \in Nat /\ snap \div H <= snap
      BY <1>1, <3>1
    <3> QED
      BY <1>1, <3>1, <3>2
  <2>3. CycleTypes'
    BY <1>2, <1>3, <1>4, <2>1, <2>2 DEF CycleTypes
  <2>4. Steady' /\ (FewTicks => FewTicks') /\ (ThenTrue => ThenTrue')
    BY <1>2, <1>3, <1>4, <2>1 DEF Steady, FewTicks, ThenTrue, Base
  <2>8. CallInv'
    BY <1>3, <2>1, <2>3, <2>4 DEF CallInv, CycleInv
  <2>9. Cycles!CyclesExact'
    BY <1>3, <2>1, <2>3, <2>4 DEF Cycles!CyclesExact, CycleInv
  <2> QED
    BY <1>3, <2>1, <2>3, <2>4, <2>8, <2>9 DEF CycleInv
<1>9. CASE Cycles!ReadT2
  <2>1. /\ pc = "t2" /\ cont /\ UNCHANGED <<snap, t1, low, high, since>>
        /\ \/ t1 = c_nticks /\ pc' = "done" /\ ret' = Cycles!Cycles(t1)
           \/ pc' = "t1" /\ ret' = ret
    BY <1>9 DEF Cycles!ReadT2, Cycles!SameTick, Cycles!hwVars
  <2>2. low = snap % H /\ high = snap \div H
    BY <2>1 DEF CallInv, CycleInv
  <2>3. Cycles!Cycles(t1) = t1 * P + (P - 1 - snap) /\ Cycles!Cycles(t1) \in 0 .. Round - 1
    BY <1>2, <2>2, SnapshotIsCycles DEF CycleTypes
  <2>4. CycleTypes'
    BY <1>2, <1>3, <1>4, <2>1, <2>3 DEF CycleTypes
  <2>5. Steady'
    BY <1>2, <1>3, <1>4, <2>1 DEF Steady
  <2>6. ASSUME pc' = "done" PROVE \E d \in 0 .. since' : (ret' + d) % Round = now'
    <3>1. t1 = c_nticks /\ ret' = Cycles!Cycles(t1)
      BY <2>1, <2>6
    <3>2. ThenTrue
      BY <2>1, <3>1 DEF CallInv, CycleInv
    <3>3. Base = ret'
      BY <2>1, <2>3, <3>1 DEF Base
    <3> QED
      BY <1>3, <2>1, <3>2, <3>3 DEF ThenTrue
  <2>8. CallInv'
    BY <1>3, <2>1, <2>4, <2>5, <2>6 DEF CallInv, CycleInv
  <2>9. Cycles!CyclesExact'
    BY <1>3, <2>1, <2>4, <2>5, <2>6 DEF Cycles!CyclesExact, CycleInv, Round
  <2> QED
    BY <1>3, <2>1, <2>4, <2>5, <2>6, <2>8, <2>9 DEF CycleInv
<1>10. CASE Cycles!Return
  <2>1. pc' = "idle" /\ since' = 0 /\ UNCHANGED <<snap, t1, low, high, ret>>
    BY <1>10 DEF Cycles!Return, Cycles!hwVars
  <2>2. CycleTypes'
    BY <1>1, <1>2, <1>3, <1>4, <2>1 DEF CycleTypes
  <2>3. Steady'
    BY <1>2, <1>3, <1>4, <2>1 DEF Steady
  <2>8. CallInv'
    BY <1>3, <2>1, <2>2, <2>3 DEF CallInv, CycleInv
  <2>9. Cycles!CyclesExact'
    BY <1>3, <2>1, <2>2, <2>3 DEF Cycles!CyclesExact, CycleInv
  <2> QED
    BY <1>3, <2>1, <2>2, <2>3, <2>8, <2>9 DEF CycleInv
<1> QED
  BY <1>5, <1>6, <1>7, <1>8, <1>9, <1>10

\* The timestamp driver.
LEMMA TimestampKept ==
  ASSUME CycleInv,
         Cycles!alt_timestamp_start \/ Cycles!ReadTimestamp \/ Cycles!alt_timestamp
  PROVE  CycleInv'
<1>1. /\ P \in Nat /\ P > 0 /\ H \in Nat /\ H > 0 /\ CycleW \in Nat /\ CycleW > 1 /\ Span \in Nat
      /\ Round \in Nat /\ Round > 0
  BY CycleConstants
<1>2. CycleTypes /\ Steady
  BY DEF CycleInv
<1>3. CASE Cycles!alt_timestamp_start
  <2>1. /\ pc = "idle" /\ c_nticks = 0 /\ ~c_to /\ counter' = P - 1 /\ running' = TRUE
        /\ cont' = FALSE /\ now' = 0
        /\ UNCHANGED <<snap, c_to, c_nticks, late, pc, t1, low, high, ret, since>>
    BY <1>3 DEF Cycles!alt_timestamp_start, Cycles!callVars
  <2>2. CycleTypes'
    <3>1. counter' \in 0 .. P - 1 /\ now' \in 0 .. Round - 1
      BY <1>1, <2>1
    <3> QED
      BY <1>2, <2>1, <3>1 DEF CycleTypes
  <2>3. Steady'
    BY <1>1, <2>1 DEF Steady, Phase
  <2>8. CallInv'
    BY <2>1, <2>2, <2>3 DEF CallInv, CycleInv
  <2>9. Cycles!CyclesExact'
    BY <2>1, <2>2, <2>3 DEF Cycles!CyclesExact, CycleInv
  <2> QED
    BY <2>1, <2>2, <2>3, <2>8, <2>9 DEF CycleInv
<1>4. CASE Cycles!ReadTimestamp
  <2>1. /\ pc = "idle" /\ ~cont /\ snap' = counter /\ pc' = "low"
        /\ UNCHANGED <<counter, cont, running, c_to, c_nticks, late, t1, low, high, ret, now, since>>
    BY <1>4 DEF Cycles!ReadTimestamp, Cycles!Snapshot
  <2>2. CycleTypes'
    BY <1>2, <2>1 DEF CycleTypes
  <2>3. Steady'
    BY <1>2, <2>1 DEF Steady, Phase
  <2>4. ASSUME ~c_to PROVE ThenTrue'
    <3>1. now = Phase /\ now \in 0 .. Round - 1 /\ Phase \in Int
      BY <1>1, <1>2, <2>1, <2>4 DEF Steady, CycleTypes, Phase
    <3>2. Base' = Phase
      BY <1>1, <1>2, <2>1 DEF Base, Phase, CycleTypes
    <3>3. (Base' + 0) % Round = now /\ 0 \in 0 .. since'
      BY <1>1, <1>2, <2>1, <3>1, <3>2, Below DEF CycleTypes
    <3> QED
      BY <2>1, <3>3 DEF ThenTrue
  <2>8. CallInv'
    BY <2>1, <2>2, <2>3, <2>4 DEF CallInv, CycleInv
  <2>9. Cycles!CyclesExact'
    BY <2>1, <2>2, <2>3, <2>4 DEF Cycles!CyclesExact, CycleInv
  <2> QED
    BY <2>1, <2>2, <2>3, <2>4, <2>8, <2>9 DEF CycleInv
<1>5. CASE Cycles!alt_timestamp
  <2>1. /\ pc = "t2" /\ ~cont /\ ret' = Cycles!Cycles(0) /\ pc' = "done"
        /\ UNCHANGED <<counter, snap, cont, running, c_to, c_nticks, late, t1, low, high, now, since>>
    BY <1>5 DEF Cycles!alt_timestamp, Cycles!hwVars
  <2>2. low = snap % H /\ high = snap \div H /\ 0 \in 0 .. CycleW - 1
    BY <1>1, <2>1 DEF CallInv, CycleInv
  <2>3. Cycles!Cycles(0) = 0 * P + (P - 1 - snap) /\ Cycles!Cycles(0) \in 0 .. Round - 1
    BY <1>2, <2>2, SnapshotIsCycles
  <2>4. CycleTypes'
    BY <1>2, <2>1, <2>3 DEF CycleTypes
  <2>5. Steady'
    BY <1>2, <2>1 DEF Steady, Phase
  <2>6. ASSUME ~c_to PROVE \E d \in 0 .. since' : (ret' + d) % Round = now'
    <3>1. ThenTrue
      BY <2>1, <2>6 DEF CallInv, CycleInv
    <3>2. Base = ret'
      BY <1>1, <2>1, <2>3 DEF Base
    <3> QED
      BY <2>1, <3>1, <3>2 DEF ThenTrue
  <2>8. CallInv'
    BY <2>1, <2>4, <2>5, <2>6 DEF CallInv, CycleInv
  <2>9. Cycles!CyclesExact'
    BY <2>1, <2>4, <2>5, <2>6 DEF Cycles!CyclesExact, CycleInv, Round
  <2> QED
    BY <2>1, <2>4, <2>5, <2>6, <2>8, <2>9 DEF CycleInv
<1> QED
  BY <1>3, <1>4, <1>5

LEMMA CyclesKept ==
  ASSUME CycleInv, Cycles!Next
  PROVE  CycleInv'
  BY HwCycleKept, InterruptKept, ReadKept, TimestampKept DEF Cycles!Next

----------------------------------------------------------------------------
(* HalAlarm.                                                               *)

Entries == Alarms \cup {alt_alarm_list}
LinkType == [next : [Entries -> Entries], previous : [Entries -> Entries]]
After(j, n) == IF j = n THEN 0 ELSE j + 1

\* The entries of a list, in order, from its head.
Order(lk, s, g, n) ==
  /\ g \in [0 .. n -> s \cup {alt_alarm_list}] /\ g[0] = alt_alarm_list
  /\ \A j, k \in 0 .. n : g[j] = g[k] => j = k
  /\ \A e \in s \cup {alt_alarm_list} : \E j \in 0 .. n : g[j] = e
  /\ \A j \in 0 .. n : /\ lk.next[g[j]] = g[After(j, n)]
                       /\ lk.previous[g[After(j, n)]] = g[j]
\* An entry that is in no list points to itself.
Loose(lk, s) == \A a \in Alarms \ s : lk.next[a] = a /\ lk.previous[a] = a

\* An alarm that has been looked at since the last tick: the flag tells
\* whether the count will roll over before its time.
Settled(a) ==
  /\ a_left[a] \in 1 .. AlarmW - 1
  /\ time[a] = nticks + a_left[a] - (IF rollover[a] THEN AlarmW ELSE 0)
\* One that alt_tick has still to visit: the flag is that of the tick before.
Unseen(a) ==
  /\ a_left[a] \in 0 .. AlarmW - 2
  /\ time[a] = nticks + a_left[a] - (IF rollover[a] /\ nticks # 0 THEN AlarmW ELSE 0)

Position(g, n, k) ==
  /\ alarm = g[k]
  /\ \A j \in 1 .. n : IF k # 0 /\ k <= j THEN Unseen(g[j]) ELSE Settled(g[j])

InOrder ==
  \E n, g, k : n \in Nat /\ k \in 0 .. n /\ Order(L, live, g, n) /\ Position(g, n, k)

\* The types, one by one.
AlarmTypes ==
  /\ tick_rate \in {0, Rate} /\ nticks \in 0 .. AlarmW - 1 /\ periods \in 0 .. AlarmW - 1
  /\ L \in LinkType
  /\ time \in [Alarms -> 0 .. AlarmW - 1] /\ rollover \in [Alarms -> BOOLEAN]
  /\ a_left \in [Alarms -> 0 .. AlarmW]
  /\ alarm \in Entries /\ to \in BOOLEAN /\ early = FALSE
  /\ a_ret \in {"none", "ok", "EINVAL", "ENOTSUP"}
  /\ live \subseteq used /\ used \subseteq Alarms

AlarmInv == AlarmTypes /\ Alarm!TicksCounted /\ Loose(L, live) /\ InOrder

LEMMA AlarmTypesAre == AlarmTypes => Alarm!TypeOK
  BY DEF Alarm!TypeOK, AlarmTypes, LinkType, Entries

LEMMA AlarmConstants ==
  /\ AlarmW \in Nat /\ AlarmW > 1 /\ Rate \in Nat \ {0} /\ Returns \subseteq 0 .. AlarmW - 1
  /\ Delays \subseteq 0 .. AlarmW - 2 /\ alt_alarm_list \notin Alarms
  BY AlarmsAssumption DEF Alarm!AlarmAssumption

\* What an order says of its entries.
Ordered(lk, s, g, n) ==
  /\ g \in [0 .. n -> s \cup {alt_alarm_list}] /\ g[0] = alt_alarm_list
  /\ 0 \in 0 .. n
  /\ \A j \in 0 .. n : g[j] \in Entries
  /\ \A j \in 1 .. n : g[j] \in s /\ g[j] # alt_alarm_list
  /\ \A j, m \in 0 .. n : g[j] = g[m] => j = m
  /\ \A e \in s : \E j \in 1 .. n : g[j] = e
  /\ \A j \in 0 .. n : After(j, n) \in 0 .. n
  /\ \A j \in 0 .. n : lk.next[g[j]] = g[After(j, n)] /\ lk.previous[g[After(j, n)]] = g[j]

LEMMA OrderEntries ==
  ASSUME NEW lk, NEW s \in SUBSET Alarms, NEW n \in Nat, NEW g, Order(lk, s, g, n)
  PROVE  Ordered(lk, s, g, n)
<1>1. /\ g \in [0 .. n -> s \cup {alt_alarm_list}] /\ g[0] = alt_alarm_list
      /\ \A j, m \in 0 .. n : g[j] = g[m] => j = m
      /\ \A e \in s \cup {alt_alarm_list} : \E j \in 0 .. n : g[j] = e
      /\ \A j \in 0 .. n : lk.next[g[j]] = g[After(j, n)] /\ lk.previous[g[After(j, n)]] = g[j]
  BY DEF Order
<1>2. 0 \in 0 .. n /\ \A j \in 1 .. n : j \in 0 .. n /\ j # 0
  OBVIOUS
<1>3. \A j \in 0 .. n : g[j] \in s \cup {alt_alarm_list} /\ g[j] \in Entries
  BY <1>1 DEF Entries
<1>4. \A j \in 1 .. n : g[j] # alt_alarm_list
  BY <1>1, <1>2
<1>5. \A j \in 1 .. n : g[j] \in s
  BY <1>2, <1>3, <1>4
<1>6. \A e \in s : \E j \in 1 .. n : g[j] = e
  <2> TAKE e \in s
  <2>1. PICK j \in 0 .. n : g[j] = e
    BY <1>1
  <2>2. j # 0
    BY <1>1, <2>1, AlarmConstants
  <2> QED
    BY <2>1, <2>2
<1>7. \A j \in 0 .. n : After(j, n) \in 0 .. n
  BY DEF After
<1> QED
  BY <1>1, <1>2, <1>3, <1>4, <1>5, <1>6, <1>7 DEF Ordered

\* The entry that follows each one when a is put in front.
LEMMA Inserted ==
  ASSUME NEW lk \in LinkType, NEW s \in SUBSET Alarms, NEW n \in Nat, NEW g,
         Order(lk, s, g, n), Loose(lk, s), NEW a \in Alarms \ s,
         NEW lk2, lk2 = Alarm!alt_llist_insert(lk, alt_alarm_list, a),
         NEW g2, g2 = [j \in 0 .. n + 1 |-> IF j = 0 THEN alt_alarm_list
                                            ELSE IF j = 1 THEN a ELSE g[j - 1]]
  PROVE  lk2 \in LinkType /\ Order(lk2, s \cup {a}, g2, n + 1) /\ Loose(lk2, s \cup {a})
<1> DEFINE f == g[After(0, n)]
<1>1. /\ g \in [0 .. n -> s \cup {alt_alarm_list}] /\ g[0] = alt_alarm_list
      /\ 0 \in 0 .. n
      /\ \A j \in 0 .. n : g[j] \in Entries
      /\ \A j \in 1 .. n : g[j] \in s /\ g[j] # alt_alarm_list
      /\ \A j, m \in 0 .. n : g[j] = g[m] => j = m
      /\ \A e \in s : \E j \in 1 .. n : g[j] = e
      /\ \A j \in 0 .. n : After(j, n) \in 0 .. n
      /\ \A j \in 0 .. n : lk.next[g[j]] = g[After(j, n)] /\ lk.previous[g[After(j, n)]] = g[j]
  <2>1. Ordered(lk, s, g, n)
    BY OrderEntries
  <2> QED
    BY <2>1 DEF Ordered
<1>2. /\ alt_alarm_list \in Entries /\ a \in Entries /\ a # alt_alarm_list /\ f \in Entries
      /\ lk.next[alt_alarm_list] = f
  BY <1>1, AlarmConstants DEF Entries
<1>3. \A j \in 0 .. n : g[j] # a
  BY <1>1, <1>2
<1>4. f # a
  BY <1>1, <1>3
<1>5. /\ lk.next \in [Entries -> Entries] /\ lk.previous \in [Entries -> Entries]
  BY DEF LinkType
<1>6. lk2 = [next |-> [lk.next EXCEPT ![a] = lk.next[alt_alarm_list], ![alt_alarm_list] = a],
             previous |-> [[lk.previous EXCEPT ![a] = alt_alarm_list]
                             EXCEPT ![lk.next[alt_alarm_list]] = a]]
  BY DEF Alarm!alt_llist_insert
<1> HIDE DEF f
<1>7. /\ lk2.next = [[lk.next EXCEPT ![a] = f] EXCEPT ![alt_alarm_list] = a]
      /\ lk2.previous = [[lk.previous EXCEPT ![a] = alt_alarm_list] EXCEPT ![f] = a]
      /\ lk2 = [next |-> lk2.next, previous |-> lk2.previous]
  BY <1>2, <1>6
<1>8. lk2.next \in [Entries -> Entries] /\ lk2.previous \in [Entries -> Entries]
  <2>1. \A h \in [Entries -> Entries], e \in Entries, v \in Entries :
          [h EXCEPT ![e] = v] \in [Entries -> Entries]
    OBVIOUS
  <2>2. /\ [lk.next EXCEPT ![a] = f] \in [Entries -> Entries]
        /\ [lk.previous EXCEPT ![a] = alt_alarm_list] \in [Entries -> Entries]
    BY <1>2, <1>5, <2>1
  <2> QED
    BY <1>2, <1>7, <2>1, <2>2
<1>9. \A e \in Entries :
        /\ lk2.next[e] = IF e = alt_alarm_list THEN a ELSE IF e = a THEN f ELSE lk.next[e]
        /\ lk2.previous[e] = IF e = f THEN a ELSE IF e = a THEN alt_alarm_list ELSE lk.previous[e]
  BY <1>2, <1>4, <1>5, <1>7
<1>10. lk2 \in LinkType
  BY <1>7, <1>8 DEF LinkType
<1>11. /\ g2[0] = alt_alarm_list /\ g2[1] = a
       /\ \A j \in 2 .. n + 1 : g2[j] = g[j - 1] /\ j - 1 \in 1 .. n /\ j - 1 \in 0 .. n
  OBVIOUS
<1>12. \A j \in 0 .. n + 1 : j = 0 \/ j = 1 \/ j \in 2 .. n + 1
  OBVIOUS
<1>13. g2 \in [0 .. n + 1 -> (s \cup {a}) \cup {alt_alarm_list}]
  <2>1. \A j \in 0 .. n + 1 : g2[j] \in (s \cup {a}) \cup {alt_alarm_list}
    BY <1>1, <1>11, <1>12
  <2>2. g2 = [j \in 0 .. n + 1 |-> g2[j]]
    OBVIOUS
  <2> QED
    BY <2>1, <2>2
<1>14. \A j, m \in 0 .. n + 1 : g2[j] = g2[m] => j = m
  <2> TAKE j, m \in 0 .. n + 1
  <2> HAVE g2[j] = g2[m]
  <2>1. CASE j \in 2 .. n + 1 /\ m \in 2 .. n + 1
    BY <1>1, <1>11, <2>1
  <2>2. CASE j \in 2 .. n + 1 /\ m \notin 2 .. n + 1
    BY <1>1, <1>3, <1>11, <1>12, <2>2
  <2>3. CASE j \notin 2 .. n + 1 /\ m \in 2 .. n + 1
    BY <1>1, <1>3, <1>11, <1>12, <2>3
  <2>4. CASE j \notin 2 .. n + 1 /\ m \notin 2 .. n + 1
    BY <1>2, <1>11, <1>12, <2>4
  <2> QED
    BY <2>1, <2>2, <2>3, <2>4
<1>15. \A e \in (s \cup {a}) \cup {alt_alarm_list} : \E j \in 0 .. n + 1 : g2[j] = e
  <2> TAKE e \in (s \cup {a}) \cup {alt_alarm_list}
  <2>1. CASE e \in s
    <3>1. PICK j \in 1 .. n : g[j] = e
      BY <1>1, <2>1
    <3>2. j + 1 \in 2 .. n + 1 /\ j + 1 \in 0 .. n + 1 /\ (j + 1) - 1 = j
      OBVIOUS
    <3>3. g2[j + 1] = e
      BY <1>11, <3>1, <3>2
    <3> QED
      BY <3>2, <3>3
  <2>2. 0 \in 0 .. n + 1 /\ 1 \in 0 .. n + 1
    OBVIOUS
  <2> QED
    BY <1>11, <2>1, <2>2
<1>16. \A j \in 0 .. n + 1 : /\ lk2.next[g2[j]] = g2[After(j, n + 1)]
                             /\ lk2.previous[g2[After(j, n + 1)]] = g2[j]
  <2> TAKE j \in 0 .. n + 1
  <2>1. CASE j = 0
    <3>1. After(j, n + 1) = 1
      BY <2>1 DEF After
    <3> QED
      BY <1>2, <1>4, <1>9, <1>11, <2>1, <3>1
  <2>2. CASE j = 1
    <3>1. g2[After(j, n + 1)] = f
      BY <1>1, <1>11, <2>2 DEF After, f
    <3> QED
      BY <1>2, <1>9, <1>11, <2>2, <3>1
  <2>3. CASE j \in 2 .. n + 1
    <3>1. /\ g2[j] = g[j - 1] /\ j - 1 \in 1 .. n /\ j - 1 \in 0 .. n
      BY <1>11, <2>3
    <3>2. g2[After(j, n + 1)] = g[After(j - 1, n)]
      <4>1. CASE j = n + 1
        <5>1. After(j, n + 1) = 0 /\ After(j - 1, n) = 0
          BY <4>1 DEF After
        <5> QED
          BY <1>1, <1>11, <5>1
      <4>2. CASE j # n + 1
        <5>1. After(j, n + 1) = j + 1 /\ After(j - 1, n) = j /\ j + 1 \in 2 .. n + 1 /\ (j + 1) - 1 = j
          BY <2>3, <4>2 DEF After
        <5> QED
          BY <1>11, <5>1
      <4> QED
        BY <4>1, <4>2
    <3>3. g[j - 1] # alt_alarm_list /\ g[j - 1] # a /\ g[j - 1] \in Entries
      BY <1>1, <1>3, <3>1
    <3>4. After(j - 1, n) # After(0, n) /\ After(j - 1, n) \in 0 .. n /\ After(0, n) \in 0 .. n
      BY <1>1, <2>3, <3>1 DEF After
    <3>5. g[After(j - 1, n)] # f /\ g[After(j - 1, n)] # a /\ g[After(j - 1, n)] \in Entries
      BY <1>1, <1>3, <3>4 DEF f
    <3>6. /\ lk.next[g[j - 1]] = g[After(j - 1, n)]
          /\ lk.previous[g[After(j - 1, n)]] = g[j - 1]
      BY <1>1, <3>1
    <3> QED
      BY <1>9, <3>1, <3>2, <3>3, <3>5, <3>6
  <2> QED
    BY <1>12, <2>1, <2>2, <2>3
<1>17. Order(lk2, s \cup {a}, g2, n + 1)
  BY <1>11, <1>13, <1>14, <1>15, <1>16 DEF Order
<1>18. Loose(lk2, s \cup {a})
  <2> SUFFICES ASSUME NEW b \in Alarms \ (s \cup {a})
               PROVE  lk2.next[b] = b /\ lk2.previous[b] = b
    BY DEF Loose
  <2>1. lk.next[b] = b /\ lk.previous[b] = b
    BY DEF Loose
  <2>2. b \in Entries /\ b # alt_alarm_list /\ b # a
    BY AlarmConstants DEF Entries
  <2>3. b # f
    <3>1. \A j \in 0 .. n : g[j] # b
      BY <1>1, <2>2
    <3> QED
      BY <1>1, <3>1 DEF f
  <2> QED
    BY <1>9, <2>1, <2>2, <2>3
<1> QED
  BY <1>10, <1>17, <1>18

\* Functions with one value replaced, and how an entry is taken out.
LEMMA Replaced ==
  \A h \in [Entries -> Entries], e \in Entries, v \in Entries :
     /\ [h EXCEPT ![e] = v] \in [Entries -> Entries]
     /\ \A x \in Entries : [h EXCEPT ![e] = v][x] = IF x = e THEN v ELSE h[x]
  OBVIOUS

TakenOut(lk, a, lk2) ==
  \A e \in Entries :
     /\ lk2.next[e] = IF e = a THEN a
                      ELSE IF e = lk.previous[a] THEN lk.next[a] ELSE lk.next[e]
     /\ lk2.previous[e] = IF e = a THEN a
                          ELSE IF e = lk.next[a] THEN lk.previous[a] ELSE lk.previous[e]

LEMMA RemoveLinks ==
  ASSUME NEW lk \in LinkType, NEW a \in Entries,
         NEW lk2, lk2 = Alarm!alt_llist_remove(lk, a)
  PROVE  /\ lk2 \in LinkType
         /\ TakenOut(lk, a, lk2)
<1>1. /\ lk.next \in [Entries -> Entries] /\ lk.previous \in [Entries -> Entries]
      /\ lk.next[a] \in Entries /\ lk.previous[a] \in Entries
  BY DEF LinkType
<1> DEFINE nx == [lk.next EXCEPT ![lk.previous[a]] = lk.next[a]]
           pv == [lk.previous EXCEPT ![lk.next[a]] = lk.previous[a]]
<1>2. lk2 = [next |-> [nx EXCEPT ![a] = a], previous |-> [pv EXCEPT ![a] = a]]
  BY DEF Alarm!alt_llist_remove, Alarm!SelfPointing
<1>3. /\ nx \in [Entries -> Entries] /\ pv \in [Entries -> Entries]
      /\ \A x \in Entries : /\ nx[x] = IF x = lk.previous[a] THEN lk.next[a] ELSE lk.next[x]
                            /\ pv[x] = IF x = lk.next[a] THEN lk.previous[a] ELSE lk.previous[x]
  BY <1>1, Replaced
<1> HIDE DEF nx, pv
<1>4. lk2.next = [nx EXCEPT ![a] = a] /\ lk2.previous = [pv EXCEPT ![a] = a]
  BY <1>2
<1>5. /\ [nx EXCEPT ![a] = a] \in [Entries -> Entries] /\ [pv EXCEPT ![a] = a] \in [Entries -> Entries]
      /\ \A x \in Entries : /\ [nx EXCEPT ![a] = a][x] = IF x = a THEN a ELSE nx[x]
                            /\ [pv EXCEPT ![a] = a][x] = IF x = a THEN a ELSE pv[x]
  BY <1>3, Replaced
<1>6. lk2 \in LinkType
  BY <1>2, <1>5 DEF LinkType
<1>7. \A x \in Entries : /\ lk2.next[x] = IF x = a THEN a ELSE nx[x]
                         /\ lk2.previous[x] = IF x = a THEN a ELSE pv[x]
  BY <1>4, <1>5
<1> QED
  BY <1>3, <1>6, <1>7 DEF TakenOut

\* Taking out an entry that is in no list changes nothing.
LEMMA RemoveLoose ==
  ASSUME NEW lk \in LinkType, NEW a \in Entries, lk.next[a] = a, lk.previous[a] = a
  PROVE  Alarm!alt_llist_remove(lk, a) = lk
<1> DEFINE lk2 == Alarm!alt_llist_remove(lk, a)
<1>1. /\ lk2 \in LinkType
      /\ \A e \in Entries :
           /\ lk2.next[e] = IF e = a THEN a
                            ELSE IF e = lk.previous[a] THEN lk.next[a] ELSE lk.next[e]
           /\ lk2.previous[e] = IF e = a THEN a
                                ELSE IF e = lk.next[a] THEN lk.previous[a] ELSE lk.previous[e]
  BY RemoveLinks DEF TakenOut
<1> HIDE DEF lk2
<1>2. \A e \in Entries : lk2.next[e] = lk.next[e] /\ lk2.previous[e] = lk.previous[e]
  BY <1>1
<1>3. /\ lk.next \in [Entries -> Entries] /\ lk.previous \in [Entries -> Entries]
      /\ lk2.next \in [Entries -> Entries] /\ lk2.previous \in [Entries -> Entries]
      /\ lk = [next |-> lk.next, previous |-> lk.previous]
      /\ lk2 = [next |-> lk2.next, previous |-> lk2.previous]
  BY <1>1 DEF LinkType
<1>4. lk2.next = lk.next /\ lk2.previous = lk.previous
  BY <1>2, <1>3
<1>5. lk2 = lk
  BY <1>3, <1>4
<1> QED
  BY <1>5 DEF lk2

\* An entry taken out of the order; those behind it move up.
LEMMA Removed ==
  ASSUME NEW lk \in LinkType, NEW s \in SUBSET Alarms, NEW n \in Nat, NEW g,
         Order(lk, s, g, n), Loose(lk, s), NEW q \in 1 .. n,
         NEW lk2, lk2 = Alarm!alt_llist_remove(lk, g[q]),
         NEW g2, g2 = [j \in 0 .. n - 1 |-> IF j < q THEN g[j] ELSE g[j + 1]]
  PROVE  lk2 \in LinkType /\ Order(lk2, s \ {g[q]}, g2, n - 1) /\ Loose(lk2, s \ {g[q]})
<1> DEFINE a == g[q]
           f == g[After(q, n)]
           p == g[q - 1]
<1>1. /\ g \in [0 .. n -> s \cup {alt_alarm_list}] /\ g[0] = alt_alarm_list
      /\ 0 \in 0 .. n
      /\ \A j \in 0 .. n : g[j] \in Entries
      /\ \A j \in 1 .. n : g[j] \in s /\ g[j] # alt_alarm_list
      /\ \A j, m \in 0 .. n : g[j] = g[m] => j = m
      /\ \A e \in s : \E j \in 1 .. n : g[j] = e
      /\ \A j \in 0 .. n : After(j, n) \in 0 .. n
      /\ \A j \in 0 .. n : lk.next[g[j]] = g[After(j, n)] /\ lk.previous[g[After(j, n)]] = g[j]
  <2>1. Ordered(lk, s, g, n)
    BY OrderEntries
  <2> QED
    BY <2>1 DEF Ordered
<1>2. q \in 0 .. n /\ q - 1 \in 0 .. n /\ After(q - 1, n) = q /\ After(q, n) # q
  BY DEF After
<1>3. lk.next[a] = f /\ lk.previous[a] = p
  BY <1>1, <1>2
<1>4. /\ a \in Entries /\ f \in Entries /\ p \in Entries /\ f # a /\ p # a
  BY <1>1, <1>2
<1>5. /\ lk2 \in LinkType
      /\ \A e \in Entries :
           /\ lk2.next[e] = IF e = a THEN a ELSE IF e = p THEN f ELSE lk.next[e]
           /\ lk2.previous[e] = IF e = a THEN a ELSE IF e = f THEN p ELSE lk.previous[e]
  <2>1. lk2 = Alarm!alt_llist_remove(lk, a)
    OBVIOUS
  <2> HIDE DEF a
  <2>2. lk2 \in LinkType /\ TakenOut(lk, a, lk2)
    BY <1>4, <2>1, RemoveLinks
  <2> QED
    BY <1>3, <2>2 DEF TakenOut
<1> DEFINE o(j) == IF j < q THEN j ELSE j + 1
<1>6. \A j \in 0 .. n - 1 : g2[j] = g[o(j)] /\ o(j) \in 0 .. n /\ o(j) # q
  OBVIOUS
<1>7. g2[0] = alt_alarm_list /\ 0 \in 0 .. n - 1
  BY <1>1
<1>8. \A j \in 0 .. n : j # q => \E m \in 0 .. n - 1 : o(m) = j
  <2> TAKE j \in 0 .. n
  <2> HAVE j # q
  <2>1. CASE j < q
    <3>1. j \in 0 .. n - 1 /\ o(j) = j
      BY <2>1
    <3> QED
      BY <3>1
  <2>2. CASE j > q
    <3>1. j - 1 \in 0 .. n - 1 /\ o(j - 1) = j
      BY <2>2
    <3> QED
      BY <3>1
  <2> QED
    BY <2>1, <2>2
<1>9. g2 \in [0 .. n - 1 -> (s \ {a}) \cup {alt_alarm_list}]
  <2>1. \A j \in 0 .. n - 1 : g2[j] \in (s \ {a}) \cup {alt_alarm_list}
    BY <1>1, <1>2, <1>6
  <2>2. g2 = [j \in 0 .. n - 1 |-> g2[j]]
    OBVIOUS
  <2> QED
    BY <2>1, <2>2
<1>10. \A j, m \in 0 .. n - 1 : g2[j] = g2[m] => j = m
  <2> TAKE j, m \in 0 .. n - 1
  <2> HAVE g2[j] = g2[m]
  <2>1. o(j) = o(m)
    BY <1>1, <1>6
  <2> QED
    BY <2>1
<1>11. \A e \in (s \ {a}) \cup {alt_alarm_list} : \E j \in 0 .. n - 1 : g2[j] = e
  <2> TAKE e \in (s \ {a}) \cup {alt_alarm_list}
  <2>1. CASE e = alt_alarm_list
    BY <1>7, <2>1
  <2>2. CASE e \in s \ {a}
    <3>1. PICK j \in 1 .. n : g[j] = e
      BY <1>1, <2>2
    <3>2. j \in 0 .. n /\ j # q
      BY <2>2, <3>1
    <3>3. PICK m \in 0 .. n - 1 : o(m) = j
      BY <1>8, <3>2
    <3> QED
      BY <1>6, <3>1, <3>3
  <2> QED
    BY <2>1, <2>2
<1>12. \A j \in 0 .. n - 1 : /\ lk2.next[g2[j]] = g2[After(j, n - 1)]
                             /\ lk2.previous[g2[After(j, n - 1)]] = g2[j]
  <2> TAKE j \in 0 .. n - 1
  <2>1. After(j, n - 1) \in 0 .. n - 1
    BY DEF After
  <2>2. CASE j = q - 1
    <3>1. g2[j] = p
      BY <1>6, <2>2
    <3>2. g2[After(j, n - 1)] = f
      <4>1. o(After(j, n - 1)) = After(q, n)
        BY <2>2 DEF After
      <4> QED
        BY <1>6, <2>1, <4>1
    <3> QED
      BY <1>4, <1>5, <3>1, <3>2
  <2>3. CASE j # q - 1
    <3> DEFINE m == o(j)
               w == g[m]
               v == g[After(m, n)]
    <3>1. m \in 0 .. n /\ m # q /\ m # q - 1 /\ g2[j] = w
      BY <1>6, <2>3
    <3>2. g2[After(j, n - 1)] = v
      <4>1. o(After(j, n - 1)) = After(m, n)
        BY <2>3 DEF After
      <4> QED
        BY <1>6, <2>1, <4>1
    <3> HIDE DEF m
    <3>3. lk.next[w] = v /\ lk.previous[v] = w /\ w \in Entries /\ v \in Entries
      BY <1>1, <3>1
    <3>4. w # a /\ w # p
      BY <1>1, <1>2, <3>1
    <3>5. After(m, n) # q /\ After(m, n) # After(q, n) /\ After(m, n) \in 0 .. n /\ After(q, n) \in 0 .. n
      BY <1>1, <1>2, <3>1 DEF After
    <3>6. v # a /\ v # f
      BY <1>1, <1>2, <3>5
    <3> HIDE DEF w, v
    <3> QED
      BY <1>5, <3>1, <3>2, <3>3, <3>4, <3>6
  <2> QED
    BY <2>2, <2>3
<1>13. Order(lk2, s \ {a}, g2, n - 1)
  BY <1>7, <1>9, <1>10, <1>11, <1>12 DEF Order
<1>14. Loose(lk2, s \ {a})
  <2> SUFFICES ASSUME NEW b \in Alarms \ (s \ {a})
               PROVE  lk2.next[b] = b /\ lk2.previous[b] = b
    BY DEF Loose
  <2>1. b \in Entries /\ b # alt_alarm_list
    BY AlarmConstants DEF Entries
  <2>2. CASE b = a
    BY <1>5, <2>1, <2>2
  <2>3. CASE b # a
    <3>1. lk.next[b] = b /\ lk.previous[b] = b /\ b \notin s
      BY <2>3 DEF Loose
    <3>2. \A j \in 0 .. n : g[j] # b
      BY <1>1, <2>1, <3>1
    <3>3. b # f /\ b # p
      BY <1>1, <1>2, <3>2
    <3> QED
      BY <1>5, <2>1, <2>3, <3>1, <3>3
  <2> QED
    BY <2>2, <2>3
<1> QED
  BY <1>5, <1>13, <1>14

\* A time r ticks ahead, and the flag that goes with it.
LEMMA TimeAhead ==
  ASSUME NEW x \in 0 .. AlarmW - 1, NEW r \in 1 .. AlarmW - 1,
         NEW t, t = (x + r) % AlarmW
  PROVE  t \in 0 .. AlarmW - 1 /\ t = x + r - (IF t < x THEN AlarmW ELSE 0)
<1>1. AlarmW \in Nat /\ AlarmW > 0
  BY AlarmConstants
<1>2. CASE x + r < AlarmW
  <2>1. t = x + r
    BY <1>1, <1>2, Below
  <2> QED
    BY <1>1, <1>2, <2>1
<1>3. CASE x + r >= AlarmW
  <2>1. x + r = AlarmW * 1 + (x + r - AlarmW) /\ x + r - AlarmW \in 0 .. AlarmW - 1
    BY <1>1, <1>3
  <2>2. t = x + r - AlarmW
    BY <1>1, <2>1, DivModUnique
  <2> QED
    BY <1>1, <2>2
<1> QED
  BY <1>1, <1>2, <1>3

LEMMA AlarmsStart ==
  ASSUME Alarm!Init
  PROVE  AlarmInv
<1>1. /\ tick_rate = 0 /\ nticks = 0 /\ L = Alarm!EmptyList(Entries)
      /\ time = [a \in Alarms |-> 0] /\ rollover = [a \in Alarms |-> FALSE]
      /\ to = FALSE /\ alarm = alt_alarm_list /\ a_ret = "none"
      /\ live = {} /\ used = {} /\ a_left = [a \in Alarms |-> 0] /\ early = FALSE
      /\ periods = 0
  BY DEF Alarm!Init, Entries
<1>2. AlarmW \in Nat /\ AlarmW > 1
  BY AlarmConstants
<1>3. alt_alarm_list \in Entries /\ Alarms \subseteq Entries
  BY DEF Entries
<1>4. L = [next |-> [e \in Entries |-> e], previous |-> [e \in Entries |-> e]]
  BY <1>1 DEF Alarm!EmptyList
<1>5. L \in LinkType /\ \A e \in Entries : L.next[e] = e /\ L.previous[e] = e
  BY <1>4 DEF LinkType
<1>6. AlarmTypes
  <2>1. 0 \in 0 .. AlarmW - 1 /\ 0 \in 0 .. AlarmW
    BY <1>2
  <2> QED
    BY <1>1, <1>3, <1>5, <2>1 DEF AlarmTypes
<1>7. Alarm!TicksCounted
  <2>1. (0 + 0) % AlarmW = 0
    BY <1>2
  <2> QED
    BY <1>1, <2>1 DEF Alarm!TicksCounted
<1>8. Loose(L, live)
  BY <1>3, <1>5 DEF Loose
<1>9. InOrder
  <2> DEFINE g == [j \in 0 .. 0 |-> alt_alarm_list]
  <2>1. 0 .. 0 = {0} /\ 0 \in Nat
    OBVIOUS
  <2>2. /\ g \in [0 .. 0 -> live \cup {alt_alarm_list}] /\ g[0] = alt_alarm_list /\ 0 \in 0 .. 0
    BY <2>1
  <2>3. After(0, 0) = 0
    BY DEF After
  <2> HIDE DEF g
  <2>4. Order(L, live, g, 0)
    BY <1>1, <1>3, <1>5, <2>1, <2>2, <2>3 DEF Order
  <2>5. Position(g, 0, 0)
    BY <1>1, <2>2 DEF Position
  <2> QED
    BY <2>1, <2>2, <2>4, <2>5 DEF InOrder
<1> QED
  BY <1>6, <1>7, <1>8, <1>9 DEF AlarmInv

\* Steps that leave the list and the times alone.
LEMMA QuietKeeps ==
  ASSUME AlarmInv, AlarmTypes', Alarm!TicksCounted',
         UNCHANGED <<nticks, L, time, rollover, alarm, live, a_left>>
  PROVE  AlarmInv'
<1>1. Loose(L, live)'
  BY DEF AlarmInv, Loose
<1>2. InOrder'
  <2>1. PICK n, g, k : n \in Nat /\ k \in 0 .. n /\ Order(L, live, g, n) /\ Position(g, n, k)
    BY DEF AlarmInv, InOrder
  <2>2. \A a : Settled(a)' <=> Settled(a)
    BY DEF Settled
  <2>3. \A a : Unseen(a)' <=> Unseen(a)
    BY DEF Unseen
  <2>4. Position(g, n, k)'
    BY <2>1, <2>2, <2>3 DEF Position
  <2>5. Order(L, live, g, n)'
    BY <2>1 DEF Order
  <2> QED
    BY <2>1, <2>4, <2>5 DEF InOrder
<1> QED
  BY <1>1, <1>2 DEF AlarmInv

\* The program's calls find alt_tick at rest, and every alarm settled.
LEMMA AtRest ==
  ASSUME AlarmInv, alarm = alt_alarm_list
  PROVE  \E n, g : /\ n \in Nat /\ Order(L, live, g, n)
                   /\ \A j \in 1 .. n : g[j] \in live /\ Settled(g[j])
<1>1. PICK n, g, k : n \in Nat /\ k \in 0 .. n /\ Order(L, live, g, n) /\ Position(g, n, k)
  BY DEF AlarmInv, InOrder
<1>2. live \in SUBSET Alarms
  BY DEF AlarmInv, AlarmTypes
<1>3. Ordered(L, live, g, n)
  BY <1>1, <1>2, OrderEntries
<1>4. k = 0
  BY <1>1, <1>3 DEF Ordered, Position
<1>5. \A j \in 1 .. n : g[j] \in live /\ Settled(g[j])
  BY <1>1, <1>3, <1>4 DEF Ordered, Position
<1> QED
  BY <1>1, <1>5

\* Nothing is left of a step at rest but the order.
LEMMA RestKeeps ==
  ASSUME alarm' = alt_alarm_list, NEW n \in Nat, NEW g,
         g[0] = alt_alarm_list, Order(L', live', g, n),
         \A j \in 1 .. n : Settled(g[j])'
  PROVE  InOrder'
<1>1. 0 \in 0 .. n
  OBVIOUS
<1>2. Position(g, n, 0)'
  BY DEF Position
<1> QED
  BY <1>1, <1>2 DEF InOrder

\* alt_alarm_start.
LEMMA AlarmStartKeeps ==
  ASSUME AlarmInv, NEW a \in Alarms, NEW x \in Delays, Alarm!alt_alarm_start(a, x)
  PROVE  AlarmInv'
<1> DEFINE t == (x + nticks + 1) % AlarmW
<1>1. AlarmW \in Nat /\ AlarmW > 1 /\ x \in 0 .. AlarmW - 2 /\ alt_alarm_list \notin Alarms
  BY AlarmConstants
<1>2. AlarmTypes /\ Alarm!TicksCounted /\ Loose(L, live)
  BY DEF AlarmInv
<1>3. /\ alarm = alt_alarm_list /\ a \notin live
      /\ UNCHANGED <<tick_rate, nticks, to, alarm, early, periods>>
      /\ \/ a_ret' = "ENOTSUP" /\ UNCHANGED <<L, time, rollover, live, used, a_left>>
         \/ /\ a_ret' = "ok"
            /\ time' = [time EXCEPT ![a] = t]
            /\ rollover' = [rollover EXCEPT ![a] = t < nticks]
            /\ L' = Alarm!alt_llist_insert(L, alt_alarm_list, a)
            /\ live' = live \cup {a} /\ used' = used \cup {a}
            /\ a_left' = [a_left EXCEPT ![a] = x + 1]
  BY DEF Alarm!alt_alarm_start, Alarm!Idle, Alarm!RollsOver, Alarm!StartTime
<1>4. Alarm!TicksCounted'
  BY <1>2, <1>3 DEF Alarm!TicksCounted
<1>5. CASE a_ret' = "ENOTSUP" /\ UNCHANGED <<L, time, rollover, live, used, a_left>>
  <2>1. AlarmTypes'
    BY <1>2, <1>3, <1>5 DEF AlarmTypes
  <2> QED
    BY <1>3, <1>4, <1>5, <2>1, QuietKeeps
<1>6. CASE /\ a_ret' = "ok"
           /\ time' = [time EXCEPT ![a] = t]
           /\ rollover' = [rollover EXCEPT ![a] = t < nticks]
           /\ L' = Alarm!alt_llist_insert(L, alt_alarm_list, a)
           /\ live' = live \cup {a} /\ used' = used \cup {a}
           /\ a_left' = [a_left EXCEPT ![a] = x + 1]
  <2>1. x + 1 \in 1 .. AlarmW - 1 /\ nticks \in 0 .. AlarmW - 1 /\ x + nticks + 1 = nticks + (x + 1)
    BY <1>1, <1>2 DEF AlarmTypes
  <2>2. t \in 0 .. AlarmW - 1 /\ t = nticks + (x + 1) - (IF t < nticks THEN AlarmW ELSE 0)
    BY <2>1, TimeAhead
  <2> HIDE DEF t
  <2>3. /\ time' \in [Alarms -> 0 .. AlarmW - 1] /\ rollover' \in [Alarms -> BOOLEAN]
        /\ a_left' \in [Alarms -> 0 .. AlarmW]
    <3>1. x + 1 \in 0 .. AlarmW
      BY <1>1, <2>1
    <3>2. time' \in [Alarms -> 0 .. AlarmW - 1]
      BY <1>2, <1>6, <2>2 DEF AlarmTypes
    <3>3. rollover' \in [Alarms -> BOOLEAN]
      BY <1>2, <1>6 DEF AlarmTypes
    <3>4. a_left' \in [Alarms -> 0 .. AlarmW]
      BY <1>2, <1>6, <3>1 DEF AlarmTypes
    <3> QED
      BY <3>2, <3>3, <3>4
  <2>4. PICK n, g : /\ n \in Nat /\ Order(L, live, g, n)
                    /\ \A j \in 1 .. n : g[j] \in live /\ Settled(g[j])
    BY <1>3, AtRest
  <2> DEFINE h == [j \in 0 .. n + 1 |-> IF j = 0 THEN alt_alarm_list
                                        ELSE IF j = 1 THEN a ELSE g[j - 1]]
  <2>5. L' \in LinkType /\ Order(L', live', h, n + 1) /\ Loose(L', live')
    <3>1. L \in LinkType /\ live \in SUBSET Alarms /\ a \in Alarms \ live
      BY <1>2, <1>3 DEF AlarmTypes
    <3> QED
      BY <1>2, <1>6, <2>4, <3>1, Inserted
  <2>6. AlarmTypes'
    BY <1>2, <1>3, <1>6, <2>3, <2>5 DEF AlarmTypes
  <2>7. Settled(a)'
    <3>1. time'[a] = t /\ a_left'[a] = x + 1 /\ rollover'[a] = (t < nticks) /\ nticks' = nticks
      BY <1>2, <1>3, <1>6 DEF AlarmTypes
    <3> QED
      BY <2>1, <2>2, <3>1 DEF Settled
  <2>8. ASSUME NEW b \in live, Settled(b) PROVE Settled(b)'
    <3>1. b # a /\ b \in Alarms
      BY <1>2, <1>3 DEF AlarmTypes
    <3>2. time'[b] = time[b] /\ a_left'[b] = a_left[b] /\ rollover'[b] = rollover[b] /\ nticks' = nticks
      BY <1>2, <1>3, <1>6, <3>1 DEF AlarmTypes
    <3> QED
      BY <2>8, <3>2 DEF Settled
  <2>9. \A j \in 1 .. n + 1 : Settled(h[j])'
    <3> TAKE j \in 1 .. n + 1
    <3>1. CASE j = 1
      BY <2>7, <3>1
    <3>2. CASE j # 1
      <4>1. j - 1 \in 1 .. n /\ h[j] = g[j - 1]
        BY <2>4, <3>2
      <4> HIDE DEF h
      <4> QED
        BY <2>4, <2>8, <4>1
    <3> QED
      BY <3>1, <3>2
  <2>10. n + 1 \in Nat /\ alarm' = alt_alarm_list
    BY <1>3, <2>4
  <2> HIDE DEF h
  <2>11. h[0] = alt_alarm_list
    BY <2>5 DEF Order
  <2>12. InOrder'
    BY <2>5, <2>9, <2>10, <2>11, RestKeeps
  <2>13. Loose(L, live)'
    BY <2>5 DEF Loose
  <2> QED
    BY <1>4, <2>6, <2>12, <2>13 DEF AlarmInv
<1> QED
  BY <1>3, <1>5, <1>6

\* alt_alarm_stop, of an alarm that is registered or is not any more.
LEMMA AlarmStopKeeps ==
  ASSUME AlarmInv, NEW a \in Alarms, Alarm!alt_alarm_stop(a)
  PROVE  AlarmInv'
<1>1. AlarmTypes /\ Alarm!TicksCounted /\ Loose(L, live)
  BY DEF AlarmInv
<1>2. /\ alarm = alt_alarm_list
      /\ L' = Alarm!alt_llist_remove(L, a) /\ live' = live \ {a}
      /\ UNCHANGED <<tick_rate, nticks, time, rollover, to, alarm, a_ret, used, a_left, early, periods>>
  BY DEF Alarm!alt_alarm_stop, Alarm!Idle
<1>3. Alarm!TicksCounted'
  BY <1>1, <1>2 DEF Alarm!TicksCounted
<1>4. L \in LinkType /\ live \in SUBSET Alarms /\ a \in Entries
  BY <1>1 DEF AlarmTypes, Entries
<1>5. CASE a \notin live
  <2>1. L' = L /\ live' = live
    <3>1. L.next[a] = a /\ L.previous[a] = a
      BY <1>1, <1>5 DEF Loose
    <3> QED
      BY <1>2, <1>4, <1>5, <3>1, RemoveLoose
  <2>2. AlarmTypes'
    BY <1>1, <1>2, <2>1 DEF AlarmTypes
  <2> QED
    BY <1>2, <1>3, <2>1, <2>2, QuietKeeps
<1>6. CASE a \in live
  <2>1. PICK n, g : /\ n \in Nat /\ Order(L, live, g, n)
                    /\ \A j \in 1 .. n : g[j] \in live /\ Settled(g[j])
    BY <1>2, AtRest
  <2>2. PICK q \in 1 .. n : g[q] = a
    BY <1>4, <1>6, <2>1, OrderEntries DEF Ordered
  <2> DEFINE h == [j \in 0 .. n - 1 |-> IF j < q THEN g[j] ELSE g[j + 1]]
  <2>3. L' \in LinkType /\ Order(L', live', h, n - 1) /\ Loose(L', live')
    BY <1>1, <1>2, <1>4, <2>1, <2>2, Removed
  <2>4. AlarmTypes'
    BY <1>1, <1>2, <2>3 DEF AlarmTypes
  <2>5. \A e : Settled(e)' <=> Settled(e)
    BY <1>2 DEF Settled
  <2>6. \A j \in 1 .. n - 1 : Settled(h[j])'
    <3> TAKE j \in 1 .. n - 1
    <3>1. j \in 1 .. n /\ j + 1 \in 1 .. n /\ h[j] = IF j < q THEN g[j] ELSE g[j + 1]
      BY <2>1
    <3> HIDE DEF h
    <3> QED
      BY <2>1, <2>5, <3>1
  <2>7. n - 1 \in Nat /\ alarm' = alt_alarm_list
    BY <1>2, <2>1
  <2> HIDE DEF h
  <2>8. h[0] = alt_alarm_list
    BY <2>3 DEF Order
  <2>9. InOrder'
    BY <2>3, <2>6, <2>7, <2>8, RestKeeps
  <2>10. Loose(L, live)'
    BY <2>3 DEF Loose
  <2> QED
    BY <1>3, <2>4, <2>9, <2>10 DEF AlarmInv
<1> QED
  BY <1>5, <1>6

\* The timer's period ends; the rate is set; a null alarm is refused.
LEMMA HardwareKeepsAlarms ==
  ASSUME AlarmInv, Alarm!alt_sysclk_init \/ Alarm!StartNull \/ Alarm!HwTimeout
  PROVE  AlarmInv'
<1>1. AlarmTypes /\ Alarm!TicksCounted /\ AlarmW \in Nat /\ AlarmW > 1 /\ Rate \in Nat
  BY AlarmConstants DEF AlarmInv
<1>2. UNCHANGED <<nticks, L, time, rollover, alarm, live, used, a_left, early>>
  BY DEF Alarm!alt_sysclk_init, Alarm!StartNull, Alarm!HwTimeout, Alarm!ghosts
<1>3. CASE Alarm!alt_sysclk_init \/ Alarm!StartNull
  <2>1. UNCHANGED <<to, periods>> /\ tick_rate' \in {0, Rate}
        /\ a_ret' \in {"none", "ok", "EINVAL", "ENOTSUP"}
    BY <1>1, <1>3 DEF Alarm!alt_sysclk_init, Alarm!StartNull, AlarmTypes
  <2>2. Alarm!TicksCounted'
    BY <1>1, <1>2, <2>1 DEF Alarm!TicksCounted
  <2>3. AlarmTypes'
    BY <1>1, <1>2, <2>1 DEF AlarmTypes
  <2> QED
    BY <1>2, <2>2, <2>3, QuietKeeps
<1>4. CASE Alarm!HwTimeout
  <2>1. ~to /\ to' = TRUE /\ periods' = (periods + 1) % AlarmW /\ UNCHANGED <<tick_rate, a_ret>>
    BY <1>4 DEF Alarm!HwTimeout
  <2>2. nticks \in 0 .. AlarmW - 1 /\ periods \in 0 .. AlarmW - 1
    BY <1>1 DEF AlarmTypes
  <2>3. periods = nticks
    <3>1. (nticks + 0) % AlarmW = periods
      BY <1>1, <2>1 DEF Alarm!TicksCounted
    <3> QED
      BY <1>1, <2>2, <3>1, Below
  <2>4. Alarm!TicksCounted'
    BY <1>2, <2>1, <2>3 DEF Alarm!TicksCounted
  <2>5. periods' \in 0 .. AlarmW - 1
    BY <1>1, <2>1, <2>2, DivMod
  <2>6. AlarmTypes'
    BY <1>1, <1>2, <2>1, <2>5 DEF AlarmTypes
  <2> QED
    BY <1>2, <2>4, <2>6, QuietKeeps
<1> QED
  BY <1>3, <1>4

\* A tick: every alarm is one nearer to its time and not yet looked at.
LEMMA TickNears ==
  ASSUME AlarmTypes, NEW a \in live, Settled(a), nticks' = (nticks + 1) % AlarmW,
         UNCHANGED <<time, rollover>>, a_left'[a] = a_left[a] - 1
  PROVE  Unseen(a)'
<1>1. /\ AlarmW \in Nat /\ AlarmW > 1 /\ nticks \in 0 .. AlarmW - 1 /\ a \in Alarms
      /\ time[a] \in 0 .. AlarmW - 1 /\ rollover[a] \in BOOLEAN
  BY AlarmConstants DEF AlarmTypes
<1>2. /\ a_left[a] \in 1 .. AlarmW - 1
      /\ time[a] = nticks + a_left[a] - (IF rollover[a] THEN AlarmW ELSE 0)
  BY DEF Settled
<1>3. a_left'[a] \in 0 .. AlarmW - 2 /\ time'[a] = time[a] /\ rollover'[a] = rollover[a]
  BY <1>1, <1>2
<1>4. CASE nticks + 1 < AlarmW
  <2>1. nticks' = nticks + 1
    BY <1>1, <1>4, Below
  <2>2. time[a] = nticks' + a_left'[a] - (IF rollover[a] /\ nticks' # 0 THEN AlarmW ELSE 0)
    BY <1>1, <1>2, <2>1
  <2> QED
    BY <1>3, <2>2 DEF Unseen
<1>5. CASE nticks + 1 = AlarmW
  <2>1. nticks' = 0
    <3>1. AlarmW = AlarmW * 1 + 0 /\ 0 \in 0 .. AlarmW - 1
      BY <1>1
    <3> QED
      BY <1>1, <1>5, <3>1, DivModUnique
  <2>2. rollover[a] /\ time[a] = a_left[a] - 1
    BY <1>1, <1>2, <1>5
  <2>3. time[a] = nticks' + a_left'[a] - (IF rollover[a] /\ nticks' # 0 THEN AlarmW ELSE 0)
    BY <1>1, <1>2, <2>1, <2>2
  <2> QED
    BY <1>3, <2>3 DEF Unseen
<1> QED
  BY <1>1, <1>4, <1>5

LEMMA TickStartKeeps ==
  ASSUME AlarmInv, Alarm!TickStart
  PROVE  AlarmInv'
<1>1. AlarmTypes /\ Alarm!TicksCounted /\ AlarmW \in Nat /\ AlarmW > 1 /\ Loose(L, live)
  BY AlarmConstants DEF AlarmInv
<1>2. /\ alarm = alt_alarm_list /\ to /\ nticks' = (nticks + 1) % AlarmW
      /\ alarm' = L.next[alt_alarm_list] /\ to' = FALSE
      /\ a_left' = [a \in Alarms |-> IF a \in live /\ a_left[a] > 0 THEN a_left[a] - 1 ELSE a_left[a]]
      /\ UNCHANGED <<tick_rate, L, time, rollover, a_ret, live, used, early, periods>>
  BY DEF Alarm!TickStart, Alarm!Idle, Alarm!ClearsFirst, Alarm!Incremented
<1>3. nticks' \in 0 .. AlarmW - 1
  BY <1>1, <1>2, DivMod DEF AlarmTypes
<1>4. Alarm!TicksCounted'
  <2>1. (nticks + 1) % AlarmW = periods
    BY <1>1, <1>2 DEF Alarm!TicksCounted
  <2>2. (nticks' + 0) % AlarmW = nticks'
    <3>1. \A x \in 0 .. AlarmW - 1 : (x + 0) % AlarmW = x
      BY <1>1, Below
    <3> QED
      BY <1>3, <3>1, Zenon
  <2> QED
    BY <1>2, <2>1, <2>2 DEF Alarm!TicksCounted
<1>5. PICK n, g : /\ n \in Nat /\ Order(L, live, g, n)
                  /\ \A j \in 1 .. n : g[j] \in live /\ Settled(g[j])
  BY <1>2, AtRest
<1>6. live \in SUBSET Alarms /\ Ordered(L, live, g, n)
  BY <1>1, <1>5, OrderEntries DEF AlarmTypes
<1>7. AlarmTypes'
  <2>1. a_left' \in [Alarms -> 0 .. AlarmW]
    <3>1. \A a \in Alarms : a_left[a] \in 0 .. AlarmW
      BY <1>1 DEF AlarmTypes
    <3>2. \A a \in Alarms : (IF a \in live /\ a_left[a] > 0 THEN a_left[a] - 1 ELSE a_left[a]) \in 0 .. AlarmW
      BY <1>1, <3>1
    <3> QED
      BY <1>2, <3>2
  <2>2. alarm' \in Entries
    BY <1>1, <1>2 DEF AlarmTypes, LinkType, Entries
  <2> QED
    BY <1>1, <1>2, <1>3, <2>1, <2>2 DEF AlarmTypes
<1>8. \A j \in 1 .. n : Unseen(g[j])'
  <2> TAKE j \in 1 .. n
  <2>1. g[j] \in live /\ Settled(g[j]) /\ g[j] \in Alarms
    BY <1>5, <1>6
  <2>2. a_left'[g[j]] = a_left[g[j]] - 1
    <3>1. a_left[g[j]] > 0
      BY <1>1, <2>1 DEF Settled
    <3> QED
      BY <1>2, <2>1, <3>1
  <2> QED
    BY <1>1, <1>2, <2>1, <2>2, TickNears
<1>9. alarm' = g[After(0, n)] /\ After(0, n) \in 0 .. n
  BY <1>2, <1>6 DEF Ordered
<1>10. Position(g, n, After(0, n))'
  <2>1. \A j \in 1 .. n : After(0, n) # 0 /\ After(0, n) <= j
    BY <1>5 DEF After
  <2> QED
    BY <1>8, <1>9, <2>1 DEF Position
<1>11. InOrder'
  <2>1. Order(L', live', g, n)
    BY <1>2, <1>5
  <2> QED
    BY <1>5, <1>9, <1>10, <2>1 DEF InOrder
<1>12. Loose(L, live)'
  BY <1>1, <1>2 DEF Loose
<1> QED
  BY <1>4, <1>7, <1>11, <1>12 DEF AlarmInv

\* An alarm that is due is due at this very tick, and the others are not.
LEMMA VisitTells ==
  ASSUME AlarmTypes, NEW a \in live, Unseen(a), NEW roll, roll = (rollover[a] /\ nticks # 0)
  PROVE  /\ Alarm!Expired(a, roll) => a_left[a] = 0 /\ time[a] = nticks
         /\ ~Alarm!Expired(a, roll) =>
              /\ a_left[a] \in 1 .. AlarmW - 1
              /\ time[a] = nticks + a_left[a] - (IF roll THEN AlarmW ELSE 0)
<1>1. /\ AlarmW \in Nat /\ AlarmW > 1 /\ nticks \in 0 .. AlarmW - 1 /\ time[a] \in 0 .. AlarmW - 1
  BY AlarmConstants DEF AlarmTypes
<1>2. a_left[a] \in 0 .. AlarmW - 2 /\ time[a] = nticks + a_left[a] - (IF roll THEN AlarmW ELSE 0)
  BY DEF Unseen
<1>3. CASE roll
  <2>1. ~Alarm!Expired(a, roll)
    BY <1>3 DEF Alarm!Expired
  <2>2. a_left[a] \in 1 .. AlarmW - 1
    BY <1>1, <1>2, <1>3
  <2> QED
    BY <1>2, <2>1, <2>2
<1>4. CASE ~roll
  <2>1. Alarm!Expired(a, roll) <=> time[a] <= nticks
    BY <1>4 DEF Alarm!Expired
  <2>2. time[a] = nticks + a_left[a]
    BY <1>1, <1>2, <1>4
  <2>3. /\ time[a] <= nticks => a_left[a] = 0 /\ time[a] = nticks
        /\ ~(time[a] <= nticks) => a_left[a] \in 1 .. AlarmW - 1
    BY <1>1, <1>2, <2>2
  <2> QED
    BY <1>2, <2>1, <2>3
<1> QED
  BY <1>3, <1>4

\* An alarm that the step leaves alone.
LEMMA LeftAlone ==
  ASSUME NEW b, nticks' = nticks, time'[b] = time[b], rollover'[b] = rollover[b],
         a_left'[b] = a_left[b]
  PROVE  (Settled(b) => Settled(b)') /\ (Unseen(b) => Unseen(b)')
<1>1. Settled(b) => Settled(b)'
  BY DEF Settled
<1>2. Unseen(b) => Unseen(b)'
  BY DEF Unseen
<1> QED
  BY <1>1, <1>2

\* A list that alt_tick walks: it is at the p-th entry, a, and goes on to nx.
Walk(lk, s, h, m, p, a, nx) ==
  /\ lk \in LinkType /\ s \in SUBSET Alarms /\ Loose(lk, s)
  /\ m \in Nat /\ p \in 1 .. m /\ Order(lk, s, h, m)
  /\ h[p] = a /\ h[After(p, m)] = nx
\* The alarms around the one it is at.
Others(h, m, p) ==
  \A j \in 1 .. m : j # p => IF p <= j THEN Unseen(h[j]) ELSE Settled(h[j])

\* alt_tick goes on to the next alarm; the one it leaves stays in the list.
LEMMA VisitStays ==
  ASSUME NEW lk, NEW s, NEW g, NEW n, NEW k, NEW a, Walk(lk, s, g, n, k, a, alarm'),
         Others(g, n, k)', L' = lk, live' = s, Settled(a)'
  PROVE  L' \in LinkType /\ Loose(L', live') /\ InOrder'
<1>1. /\ lk \in LinkType /\ s \in SUBSET Alarms /\ Loose(lk, s) /\ n \in Nat /\ k \in 1 .. n
      /\ Order(lk, s, g, n) /\ g[k] = a /\ g[After(k, n)] = alarm'
  BY DEF Walk
<1>2. After(k, n) \in 0 .. n
  BY <1>1 DEF After
<1>3. ASSUME NEW j \in 1 .. n
      PROVE  IF After(k, n) # 0 /\ After(k, n) <= j THEN Unseen(g[j])' ELSE Settled(g[j])'
  <2>1. CASE j = k
    <3>1. ~(After(k, n) # 0 /\ After(k, n) <= j)
      BY <1>1, <2>1 DEF After
    <3> QED
      BY <1>1, <2>1, <3>1
  <2>2. CASE j # k
    <3>1. (After(k, n) # 0 /\ After(k, n) <= j) <=> k <= j
      BY <1>1, <2>2 DEF After
    <3>2. IF k <= j THEN Unseen(g[j])' ELSE Settled(g[j])'
      BY <2>2 DEF Others
    <3> QED
      BY <3>1, <3>2
  <2> QED
    BY <2>1, <2>2
<1>4. Position(g, n, After(k, n))'
  BY <1>1, <1>3 DEF Position
<1>5. Order(L', live', g, n)
  BY <1>1
<1>6. InOrder'
  BY <1>1, <1>2, <1>4, <1>5 DEF InOrder
<1> QED
  BY <1>1, <1>6

\* The alarm it leaves is taken out of the list.
LEMMA VisitDrops ==
  ASSUME NEW lk, NEW s, NEW g, NEW n, NEW k, NEW a, Walk(lk, s, g, n, k, a, alarm'),
         Others(g, n, k)', L' = Alarm!alt_llist_remove(lk, a), live' = s \ {a}
  PROVE  L' \in LinkType /\ Loose(L', live') /\ InOrder'
<1>1. /\ lk \in LinkType /\ s \in SUBSET Alarms /\ Loose(lk, s) /\ n \in Nat /\ k \in 1 .. n
      /\ Order(lk, s, g, n) /\ g[k] = a /\ g[After(k, n)] = alarm'
  BY DEF Walk
<1> DEFINE h == [j \in 0 .. n - 1 |-> IF j < k THEN g[j] ELSE g[j + 1]]
           p == IF k = n THEN 0 ELSE k
<1>2. L' \in LinkType /\ Order(L', live', h, n - 1) /\ Loose(L', live')
  BY <1>1, Removed
<1>3. p \in 0 .. n - 1 /\ n - 1 \in Nat
  BY <1>1
<1>4. g[0] = alt_alarm_list
  BY <1>1 DEF Order
<1>5. alarm' = h[p]
  BY <1>1, <1>4 DEF After
<1>6. ASSUME NEW j \in 1 .. n - 1
      PROVE  IF p # 0 /\ p <= j THEN Unseen(h[j])' ELSE Settled(h[j])'
  <2>1. CASE j < k
    <3>1. h[j] = g[j] /\ ~(p # 0 /\ p <= j) /\ j \in 1 .. n /\ j # k /\ ~(k <= j)
      BY <1>1, <2>1
    <3> HIDE DEF h, p
    <3>2. Settled(g[j])'
      BY <3>1 DEF Others
    <3> QED
      BY <3>1, <3>2
  <2>2. CASE j >= k
    <3>1. h[j] = g[j + 1] /\ p # 0 /\ p <= j /\ j + 1 \in 1 .. n /\ j + 1 # k /\ k <= j + 1
      BY <1>1, <2>2
    <3> HIDE DEF h, p
    <3>2. Unseen(g[j + 1])'
      BY <3>1 DEF Others
    <3> QED
      BY <3>1, <3>2
  <2> QED
    BY <1>1, <2>1, <2>2
<1> HIDE DEF h, p
<1>7. Position(h, n - 1, p)'
  BY <1>5, <1>6 DEF Position
<1>8. InOrder'
  BY <1>2, <1>3, <1>7 DEF InOrder
<1> QED
  BY <1>2, <1>8

\* What a stop, and a start, of the alarm b leaves of a walk.
StopPasses(lk, s, g, n, k, a, nx, b) ==
  \E h, p : /\ Walk(Alarm!alt_llist_remove(lk, b), s \ {b}, h, n - 1, p, a, nx)
            /\ \A j \in 1 .. n - 1 :
                 j # p => \E z \in 1 .. n : z # k /\ h[j] = g[z] /\ (p <= j <=> k <= z)
StartPasses(lk, s, g, n, k, a, nx, b) ==
  \E h, p : /\ Walk(Alarm!alt_llist_insert(lk, alt_alarm_list, b), s \cup {b}, h, n + 1, p, a, nx)
            /\ \A j \in 1 .. n + 1 :
                 j # p => \/ h[j] = b /\ ~(p <= j)
                          \/ \E z \in 1 .. n : z # k /\ h[j] = g[z] /\ (p <= j <=> k <= z)

\* A callback stops an alarm that is neither its own nor the next one: the walk
\* goes on as before, and each of the others keeps its side of it.
LEMMA StopsAnother ==
  ASSUME NEW lk, NEW s, NEW g, NEW n, NEW k, NEW a, NEW nx, Walk(lk, s, g, n, k, a, nx),
         NEW b \in s, b # a, b # nx
  PROVE  StopPasses(lk, s, g, n, k, a, nx, b)
<1> DEFINE lk2 == Alarm!alt_llist_remove(lk, b)
<1>1. /\ lk \in LinkType /\ s \in SUBSET Alarms /\ Loose(lk, s) /\ n \in Nat /\ k \in 1 .. n
      /\ Order(lk, s, g, n) /\ g[k] = a /\ g[After(k, n)] = nx
  BY DEF Walk
<1>2. Ordered(lk, s, g, n)
  BY <1>1, OrderEntries
<1>3. PICK q \in 1 .. n : g[q] = b
  BY <1>2 DEF Ordered
<1>4. q # k /\ q # After(k, n) /\ g[0] = alt_alarm_list
  BY <1>1, <1>2, <1>3 DEF Ordered
<1> DEFINE h == [j \in 0 .. n - 1 |-> IF j < q THEN g[j] ELSE g[j + 1]]
           p == IF q < k THEN k - 1 ELSE k
<1>5. lk2 \in LinkType /\ Order(lk2, s \ {b}, h, n - 1) /\ Loose(lk2, s \ {b})
  BY <1>1, <1>3, Removed
<1>6. n - 1 \in Nat /\ p \in 1 .. n - 1
  BY <1>1, <1>4
<1>7. h[p] = a
  BY <1>1, <1>4
<1>8. h[After(p, n - 1)] = nx
  <2>1. CASE k = n
    <3>1. After(k, n) = 0 /\ After(p, n - 1) = 0 /\ 0 < q /\ 0 \in 0 .. n - 1
      BY <1>1, <1>4, <2>1 DEF After
    <3> QED
      BY <1>1, <3>1
  <2>2. CASE k # n /\ q < k
    <3>1. After(k, n) = k + 1 /\ After(p, n - 1) = k /\ ~(k < q) /\ k \in 0 .. n - 1
      BY <1>1, <1>4, <2>2 DEF After
    <3> QED
      BY <1>1, <3>1
  <2>3. CASE k # n /\ ~(q < k)
    <3>1. After(k, n) = k + 1
      BY <2>3 DEF After
    <3>2. q > k + 1
      BY <1>1, <1>4, <2>3, <3>1
    <3>3. After(p, n - 1) = k + 1 /\ k + 1 < q /\ k + 1 \in 0 .. n - 1
      BY <1>1, <2>3, <3>2 DEF After
    <3> QED
      BY <1>1, <3>1, <3>3
  <2> QED
    BY <2>1, <2>2, <2>3
<1>9. ASSUME NEW j \in 1 .. n - 1, j # p
      PROVE  \E z \in 1 .. n : z # k /\ h[j] = g[z] /\ (p <= j <=> k <= z)
  <2>1. CASE j < q
    <3>1. j \in 1 .. n /\ j # k /\ h[j] = g[j] /\ (p <= j <=> k <= j)
      BY <1>1, <1>4, <1>9, <2>1
    <3> QED
      BY <3>1
  <2>2. CASE j >= q
    <3>1. j + 1 \in 1 .. n /\ j + 1 # k /\ h[j] = g[j + 1] /\ (p <= j <=> k <= j + 1)
      BY <1>1, <1>4, <1>9, <2>2
    <3> QED
      BY <3>1
  <2> QED
    BY <1>1, <2>1, <2>2
<1>10. s \ {b} \in SUBSET Alarms
  BY <1>1
<1> HIDE DEF h, p
<1>11. Walk(lk2, s \ {b}, h, n - 1, p, a, nx)
  BY <1>5, <1>6, <1>7, <1>8, <1>10 DEF Walk
<1> QED
  BY <1>9, <1>11 DEF StopPasses

\* A callback starts an alarm, which comes first in the list and is not met by
\* this walk.
LEMMA StartsAnother ==
  ASSUME NEW lk, NEW s, NEW g, NEW n, NEW k, NEW a, NEW nx, Walk(lk, s, g, n, k, a, nx),
         NEW b \in Alarms \ s
  PROVE  StartPasses(lk, s, g, n, k, a, nx, b)
<1> DEFINE lk2 == Alarm!alt_llist_insert(lk, alt_alarm_list, b)
<1>1. /\ lk \in LinkType /\ s \in SUBSET Alarms /\ Loose(lk, s) /\ n \in Nat /\ k \in 1 .. n
      /\ Order(lk, s, g, n) /\ g[k] = a /\ g[After(k, n)] = nx
  BY DEF Walk
<1>2. g[0] = alt_alarm_list
  BY <1>1 DEF Order
<1> DEFINE h == [j \in 0 .. n + 1 |-> IF j = 0 THEN alt_alarm_list
                                      ELSE IF j = 1 THEN b ELSE g[j - 1]]
           p == k + 1
<1>3. lk2 \in LinkType /\ Order(lk2, s \cup {b}, h, n + 1) /\ Loose(lk2, s \cup {b})
  BY <1>1, Inserted
<1>4. n + 1 \in Nat /\ p \in 1 .. n + 1 /\ s \cup {b} \in SUBSET Alarms
  BY <1>1
<1>5. h[p] = a
  <2>1. p \in 0 .. n + 1 /\ p # 0 /\ p # 1 /\ p - 1 = k
    BY <1>1
  <2> QED
    BY <1>1, <2>1
<1>6. h[After(p, n + 1)] = nx
  <2>1. CASE k = n
    <3>1. After(k, n) = 0 /\ After(p, n + 1) = 0 /\ 0 \in 0 .. n + 1
      BY <1>1, <2>1 DEF After
    <3> QED
      BY <1>1, <1>2, <3>1
  <2>2. CASE k # n
    <3>1. /\ After(k, n) = k + 1 /\ After(p, n + 1) = k + 2 /\ k + 2 \in 0 .. n + 1
          /\ k + 2 # 0 /\ k + 2 # 1 /\ (k + 2) - 1 = k + 1
      BY <1>1, <2>2 DEF After
    <3> QED
      BY <1>1, <3>1
  <2> QED
    BY <2>1, <2>2
<1>7. ASSUME NEW j \in 1 .. n + 1, j # p
      PROVE  \/ h[j] = b /\ ~(p <= j)
             \/ \E z \in 1 .. n : z # k /\ h[j] = g[z] /\ (p <= j <=> k <= z)
  <2>1. CASE j = 1
    <3>1. h[j] = b /\ ~(p <= j)
      BY <1>1, <2>1
    <3> QED
      BY <3>1
  <2>2. CASE j # 1
    <3>1. j - 1 \in 1 .. n /\ j - 1 # k /\ h[j] = g[j - 1] /\ (p <= j <=> k <= j - 1)
      BY <1>1, <1>7, <2>2
    <3> QED
      BY <3>1
  <2> QED
    BY <2>1, <2>2
<1> HIDE DEF h, p
<1>8. Walk(lk2, s \cup {b}, h, n + 1, p, a, nx)
  BY <1>3, <1>4, <1>5, <1>6 DEF Walk
<1> QED
  BY <1>7, <1>8 DEF StartPasses

\* What the end of a callback does with the list, the times and the flags that
\* its call has left.
Ended(a, r, lk, s, t) ==
  \/ r # 0 /\ L' = lk /\ live' = s /\ time'[a] = t
  \/ L' = Alarm!alt_llist_remove(lk, a) /\ live' = s \ {a}

\* The same with the fields of the alarms.
Finished(a, r, lk, s, T, F, R, t) ==
  /\ early' = (early \/ a_left[a] # 0)
  /\ time' \in [Alarms -> 0 .. AlarmW - 1] /\ rollover' \in [Alarms -> BOOLEAN]
  /\ a_left' \in [Alarms -> 0 .. AlarmW]
  /\ \A b \in Alarms : b # a => time'[b] = T[b] /\ rollover'[b] = F[b] /\ a_left'[b] = R[b]
  /\ rollover'[a] = (r # 0 /\ t < nticks) /\ a_left'[a] = r
  /\ Ended(a, r, lk, s, t)

\* What Finish assigns to each field.
LEMMA FinishTells ==
  ASSUME NEW a \in Alarms, NEW r \in Returns, NEW lk, NEW s,
         NEW T \in [Alarms -> 0 .. AlarmW - 1], NEW F \in [Alarms -> BOOLEAN],
         NEW R \in [Alarms -> 0 .. AlarmW],
         Alarm!Finish(a, r, lk, s, T, F, R)
  PROVE  Finished(a, r, lk, s, T, F, R, (T[a] + r) % AlarmW)
<1> DEFINE t == (T[a] + r) % AlarmW
<1>1. AlarmW \in Nat /\ AlarmW > 1 /\ r \in 0 .. AlarmW - 1 /\ r \in 0 .. AlarmW
  BY AlarmConstants
<1>2. /\ early' = (early \/ a_left[a] # 0)
      /\ IF r = 0
         THEN L' = Alarm!alt_llist_remove(lk, a) /\ live' = s \ {a} /\ time' = T
         ELSE L' = lk /\ live' = s /\ time' = [T EXCEPT ![a] = t]
      /\ rollover' = [F EXCEPT ![a] = r # 0 /\ t < nticks]
      /\ a_left' = [R EXCEPT ![a] = r]
  BY DEF Alarm!Finish, Alarm!RollsOver
<1>3. t \in 0 .. AlarmW - 1
  BY <1>1, DivMod
<1> HIDE DEF t
<1>4. /\ rollover' \in [Alarms -> BOOLEAN] /\ rollover'[a] = (r # 0 /\ t < nticks)
      /\ \A b \in Alarms : b # a => rollover'[b] = F[b]
  BY <1>2
<1>5. /\ a_left' \in [Alarms -> 0 .. AlarmW] /\ a_left'[a] = r
      /\ \A b \in Alarms : b # a => a_left'[b] = R[b]
  BY <1>1, <1>2
<1>6. /\ time' \in [Alarms -> 0 .. AlarmW - 1]
      /\ \A b \in Alarms : b # a => time'[b] = T[b]
  BY <1>2, <1>3
<1>7. Ended(a, r, lk, s, t)
  BY <1>2 DEF Ended
<1> QED
  BY <1>2, <1>4, <1>5, <1>6, <1>7 DEF Finished, t

\* A callback leaves the list that alt_tick walks, with or without its own
\* alarm, and every other alarm on its side of the walk.
Left(a, r, nx, t) ==
  /\ early' = (early \/ a_left[a] # 0)
  /\ time' \in [Alarms -> 0 .. AlarmW - 1] /\ rollover' \in [Alarms -> BOOLEAN]
  /\ a_left' \in [Alarms -> 0 .. AlarmW]
  /\ rollover'[a] = (r # 0 /\ t < nticks) /\ a_left'[a] = r
  /\ a_ret' \in {a_ret, "ok"} /\ live' \subseteq used' /\ used' \subseteq Alarms
  /\ \E lk, s, h, m, p : Walk(lk, s, h, m, p, a, nx) /\ Others(h, m, p)' /\ Ended(a, r, lk, s, t)

\* The alarms of a walk, and what becomes of those that a step leaves alone.
LEMMA OthersStay ==
  ASSUME NEW lk, NEW s, NEW g, NEW n, NEW k, NEW a, NEW nx, Walk(lk, s, g, n, k, a, nx),
         Others(g, n, k), nticks' = nticks,
         \A b \in s : b # a => /\ time'[b] = time[b] /\ rollover'[b] = rollover[b]
                               /\ a_left'[b] = a_left[b]
  PROVE  \A z \in 1 .. n : z # k => IF k <= z THEN Unseen(g[z])' ELSE Settled(g[z])'
<1>1. Ordered(lk, s, g, n) /\ k \in 1 .. n /\ g[k] = a /\ k \in 0 .. n
  BY OrderEntries DEF Walk
<1> TAKE z \in 1 .. n
<1>2. z # k => g[z] \in s /\ g[z] # a
  <2>1. z \in 0 .. n
    BY <1>1
  <2> QED
    BY <1>1, <2>1 DEF Ordered
<1>3. z # k => (Settled(g[z]) => Settled(g[z])') /\ (Unseen(g[z]) => Unseen(g[z])')
  BY <1>2, LeftAlone
<1> QED
  BY <1>3 DEF Others

\* No alarm but its own has been stopped.
OwnAtMost(lk, s, a) ==
  \/ lk = L /\ s = live
  \/ lk = Alarm!alt_llist_remove(L, a) /\ s = live \ {a}

\* A callback that makes no call, stops its own alarm, or one that has stopped
\* already.
LEMMA CallsNone ==
  ASSUME AlarmTypes, NEW g, NEW n, NEW k, NEW a, NEW nx, Walk(L, live, g, n, k, a, nx),
         Others(g, n, k), nticks' = nticks, NEW r \in Returns, UNCHANGED <<a_ret, used>>,
         NEW lk, NEW s, OwnAtMost(lk, s, a),
         Alarm!Finish(a, r, lk, s, time, rollover, a_left)
  PROVE  Left(a, r, nx, (time[a] + r) % AlarmW)
<1> DEFINE t == (time[a] + r) % AlarmW
<1>1. /\ time \in [Alarms -> 0 .. AlarmW - 1] /\ rollover \in [Alarms -> BOOLEAN]
      /\ a_left \in [Alarms -> 0 .. AlarmW] /\ L \in LinkType
      /\ live \subseteq used /\ used \subseteq Alarms
  BY DEF AlarmTypes
<1>2. a \in Alarms /\ a \in live /\ a \in Entries
  <2>1. Ordered(L, live, g, n) /\ k \in 1 .. n /\ g[k] = a
    BY OrderEntries DEF Walk
  <2> QED
    BY <1>1, <2>1 DEF Ordered, Entries
<1>3. /\ early' = (early \/ a_left[a] # 0)
      /\ time' \in [Alarms -> 0 .. AlarmW - 1] /\ rollover' \in [Alarms -> BOOLEAN]
      /\ a_left' \in [Alarms -> 0 .. AlarmW]
      /\ \A b \in Alarms : b # a => /\ time'[b] = time[b] /\ rollover'[b] = rollover[b]
                                    /\ a_left'[b] = a_left[b]
      /\ rollover'[a] = (r # 0 /\ t < nticks) /\ a_left'[a] = r
      /\ Ended(a, r, lk, s, t)
  <2>1. Finished(a, r, lk, s, time, rollover, a_left, t)
    BY <1>1, <1>2, FinishTells
  <2> HIDE DEF t
  <2> QED
    BY <2>1 DEF Finished
<1>4. Others(g, n, k)'
  <2>1. \A b \in live : b # a => /\ time'[b] = time[b] /\ rollover'[b] = rollover[b]
                                 /\ a_left'[b] = a_left[b]
    BY <1>1, <1>3
  <2>2. \A z \in 1 .. n : z # k => IF k <= z THEN Unseen(g[z])' ELSE Settled(g[z])'
    BY <2>1, OthersStay
  <2> QED
    BY <2>2 DEF Others
<1> HIDE DEF t
<1>5. Ended(a, r, L, live, t)
  <2>1. CASE lk = L /\ s = live
    BY <1>3, <2>1
  <2>2. CASE lk = Alarm!alt_llist_remove(L, a) /\ s = live \ {a}
    <3>1. lk \in LinkType /\ TakenOut(L, a, lk)
      BY <1>1, <1>2, <2>2, RemoveLinks
    <3>2. lk.next[a] = a /\ lk.previous[a] = a
      BY <1>2, <3>1 DEF TakenOut
    <3>3. Alarm!alt_llist_remove(lk, a) = lk /\ s \ {a} = s
      BY <1>2, <2>2, <3>1, <3>2, RemoveLoose
    <3> QED
      BY <1>3, <2>2, <3>3 DEF Ended
  <2> QED
    BY <2>1, <2>2 DEF OwnAtMost
<1>6. live' \subseteq used' /\ used' \subseteq Alarms
  BY <1>1, <1>5 DEF Ended
<1> QED
  BY <1>3, <1>4, <1>5, <1>6 DEF Left, t

\* A callback that stops another registered alarm, but not the next one.
LEMMA CallsStop ==
  ASSUME AlarmTypes, NEW g, NEW n, NEW k, NEW a, NEW nx, Walk(L, live, g, n, k, a, nx),
         Others(g, n, k), nticks' = nticks, NEW r \in Returns, UNCHANGED <<a_ret, used>>,
         NEW b \in live, b # a, b # nx,
         Alarm!Finish(a, r, Alarm!alt_llist_remove(L, b), live \ {b}, time, rollover, a_left)
  PROVE  Left(a, r, nx, (time[a] + r) % AlarmW)
<1> DEFINE t == (time[a] + r) % AlarmW
           lk == Alarm!alt_llist_remove(L, b)
<1>1. /\ time \in [Alarms -> 0 .. AlarmW - 1] /\ rollover \in [Alarms -> BOOLEAN]
      /\ a_left \in [Alarms -> 0 .. AlarmW] /\ live \subseteq used /\ used \subseteq Alarms
  BY DEF AlarmTypes
<1>2. a \in Alarms
  <2>1. Ordered(L, live, g, n) /\ k \in 1 .. n /\ g[k] = a
    BY OrderEntries DEF Walk
  <2> QED
    BY <1>1, <2>1 DEF Ordered
<1>3. /\ early' = (early \/ a_left[a] # 0)
      /\ time' \in [Alarms -> 0 .. AlarmW - 1] /\ rollover' \in [Alarms -> BOOLEAN]
      /\ a_left' \in [Alarms -> 0 .. AlarmW]
      /\ \A c \in Alarms : c # a => /\ time'[c] = time[c] /\ rollover'[c] = rollover[c]
                                    /\ a_left'[c] = a_left[c]
      /\ rollover'[a] = (r # 0 /\ t < nticks) /\ a_left'[a] = r
      /\ Ended(a, r, lk, live \ {b}, t)
  <2>1. Finished(a, r, lk, live \ {b}, time, rollover, a_left, t)
    BY <1>1, <1>2, FinishTells
  <2> HIDE DEF t, lk
  <2> QED
    BY <2>1 DEF Finished
<1>4. \A z \in 1 .. n : z # k => IF k <= z THEN Unseen(g[z])' ELSE Settled(g[z])'
  <2>1. \A c \in live : c # a => /\ time'[c] = time[c] /\ rollover'[c] = rollover[c]
                                 /\ a_left'[c] = a_left[c]
    BY <1>1, <1>3
  <2> QED
    BY <2>1, OthersStay
<1> HIDE DEF t
<1>5. PICK h, p : /\ Walk(lk, live \ {b}, h, n - 1, p, a, nx)
                  /\ \A j \in 1 .. n - 1 :
                       j # p => \E z \in 1 .. n : z # k /\ h[j] = g[z] /\ (p <= j <=> k <= z)
  <2>1. StopPasses(L, live, g, n, k, a, nx, b)
    BY StopsAnother
  <2> QED
    BY <2>1 DEF StopPasses
<1> HIDE DEF lk
<1>6. Others(h, n - 1, p)'
  <2>1. ASSUME NEW j \in 1 .. n - 1, j # p
        PROVE  IF p <= j THEN Unseen(h[j])' ELSE Settled(h[j])'
    <3>1. PICK z \in 1 .. n : z # k /\ h[j] = g[z] /\ (p <= j <=> k <= z)
      BY <1>5, <2>1
    <3>2. IF k <= z THEN Unseen(g[z])' ELSE Settled(g[z])'
      BY <1>4, <3>1
    <3> QED
      BY <3>1, <3>2
  <2> QED
    BY <2>1 DEF Others
<1>7. live' \subseteq used' /\ used' \subseteq Alarms
  BY <1>1, <1>3 DEF Ended
<1> QED
  BY <1>3, <1>5, <1>6, <1>7 DEF Left, t

\* A callback that starts an alarm.
LEMMA CallsStart ==
  ASSUME AlarmTypes, NEW g, NEW n, NEW k, NEW a, NEW nx, Walk(L, live, g, n, k, a, nx),
         Others(g, n, k), nticks' = nticks, NEW r \in Returns,
         NEW b \in Alarms \ live, NEW x \in Delays, a_ret' = "ok", used' = used \cup {b},
         NEW d, d = (x + nticks + 1) % AlarmW,
         Alarm!Finish(a, r, Alarm!alt_llist_insert(L, alt_alarm_list, b), live \cup {b},
                      [time EXCEPT ![b] = d], [rollover EXCEPT ![b] = d < nticks],
                      [a_left EXCEPT ![b] = x + 1])
  PROVE  Left(a, r, nx, (time[a] + r) % AlarmW)
<1> DEFINE t == (time[a] + r) % AlarmW
           lk == Alarm!alt_llist_insert(L, alt_alarm_list, b)
           T == [time EXCEPT ![b] = d]
           F == [rollover EXCEPT ![b] = d < nticks]
           R == [a_left EXCEPT ![b] = x + 1]
<1>1. /\ time \in [Alarms -> 0 .. AlarmW - 1] /\ rollover \in [Alarms -> BOOLEAN]
      /\ a_left \in [Alarms -> 0 .. AlarmW] /\ live \subseteq used /\ used \subseteq Alarms
      /\ nticks \in 0 .. AlarmW - 1 /\ AlarmW \in Nat /\ AlarmW > 1 /\ x \in 0 .. AlarmW - 2
  BY AlarmConstants DEF AlarmTypes
<1>2. a \in Alarms /\ a \in live /\ a # b
  <2>1. Ordered(L, live, g, n) /\ k \in 1 .. n /\ g[k] = a
    BY OrderEntries DEF Walk
  <2> QED
    BY <1>1, <2>1 DEF Ordered
<1>3. /\ x + 1 \in 1 .. AlarmW - 1 /\ x + 1 \in 0 .. AlarmW
      /\ d \in 0 .. AlarmW - 1 /\ d = nticks + (x + 1) - (IF d < nticks THEN AlarmW ELSE 0)
  <2>1. x + 1 \in 1 .. AlarmW - 1 /\ x + 1 \in 0 .. AlarmW /\ x + nticks + 1 = nticks + (x + 1)
    BY <1>1
  <2>2. d = (nticks + (x + 1)) % AlarmW
    BY <2>1
  <2> QED
    BY <1>1, <2>1, <2>2, TimeAhead
<1>4. /\ T \in [Alarms -> 0 .. AlarmW - 1] /\ T[b] = d
      /\ \A c \in Alarms : c # b => T[c] = time[c]
  BY <1>1, <1>3
<1>5. /\ F \in [Alarms -> BOOLEAN] /\ F[b] = (d < nticks)
      /\ \A c \in Alarms : c # b => F[c] = rollover[c]
  BY <1>1
<1>6. /\ R \in [Alarms -> 0 .. AlarmW] /\ R[b] = x + 1
      /\ \A c \in Alarms : c # b => R[c] = a_left[c]
  BY <1>1, <1>3
<1>7. Alarm!Finish(a, r, lk, live \cup {b}, T, F, R)
  OBVIOUS
<1> HIDE DEF T, F, R, lk
<1>8. Finished(a, r, lk, live \cup {b}, T, F, R, t)
  <2>1. Finished(a, r, lk, live \cup {b}, T, F, R, (T[a] + r) % AlarmW)
    BY <1>2, <1>4, <1>5, <1>6, <1>7, FinishTells
  <2>2. T[a] = time[a]
    BY <1>2, <1>4
  <2> QED
    BY <2>1, <2>2
<1> HIDE DEF t
<1>9. /\ early' = (early \/ a_left[a] # 0)
      /\ time' \in [Alarms -> 0 .. AlarmW - 1] /\ rollover' \in [Alarms -> BOOLEAN]
      /\ a_left' \in [Alarms -> 0 .. AlarmW]
      /\ \A c \in Alarms : c # a => time'[c] = T[c] /\ rollover'[c] = F[c] /\ a_left'[c] = R[c]
      /\ rollover'[a] = (r # 0 /\ t < nticks) /\ a_left'[a] = r
      /\ Ended(a, r, lk, live \cup {b}, t)
  BY <1>8 DEF Finished
<1>10. \A z \in 1 .. n : z # k => IF k <= z THEN Unseen(g[z])' ELSE Settled(g[z])'
  <2>1. \A c \in live : c # a => /\ time'[c] = time[c] /\ rollover'[c] = rollover[c]
                                 /\ a_left'[c] = a_left[c]
    <3> TAKE c \in live
    <3>1. c \in Alarms /\ c # b
      BY <1>1
    <3> QED
      BY <1>4, <1>5, <1>6, <1>9, <3>1
  <2> QED
    BY <2>1, OthersStay
<1>11. Settled(b)'
  <2>1. time'[b] = d /\ rollover'[b] = (d < nticks) /\ a_left'[b] = x + 1 /\ nticks' = nticks
    BY <1>2, <1>4, <1>5, <1>6, <1>9
  <2> QED
    BY <1>3, <2>1 DEF Settled
<1>12. PICK h, p : /\ Walk(lk, live \cup {b}, h, n + 1, p, a, nx)
                   /\ \A j \in 1 .. n + 1 :
                        j # p => \/ h[j] = b /\ ~(p <= j)
                                 \/ \E z \in 1 .. n : z # k /\ h[j] = g[z] /\ (p <= j <=> k <= z)
  <2>1. StartPasses(L, live, g, n, k, a, nx, b)
    BY StartsAnother
  <2> QED
    BY <2>1 DEF StartPasses, lk
<1>13. Others(h, n + 1, p)'
  <2>1. ASSUME NEW j \in 1 .. n + 1, j # p
        PROVE  IF p <= j THEN Unseen(h[j])' ELSE Settled(h[j])'
    <3>1. CASE h[j] = b /\ ~(p <= j)
      BY <1>11, <3>1
    <3>2. CASE \E z \in 1 .. n : z # k /\ h[j] = g[z] /\ (p <= j <=> k <= z)
      <4>1. PICK z \in 1 .. n : z # k /\ h[j] = g[z] /\ (p <= j <=> k <= z)
        BY <3>2
      <4>2. IF k <= z THEN Unseen(g[z])' ELSE Settled(g[z])'
        BY <1>10, <4>1
      <4> QED
        BY <4>1, <4>2
    <3> QED
      BY <1>12, <2>1, <3>1, <3>2
  <2> QED
    BY <2>1 DEF Others
<1>14. live' \subseteq used' /\ used' \subseteq Alarms
  BY <1>1, <1>9 DEF Ended
<1> QED
  BY <1>9, <1>12, <1>13, <1>14 DEF Left, t

\* A callback, with any call it may make.
LEMMA CallbackLeaves ==
  ASSUME AlarmTypes, NEW g, NEW n, NEW k, NEW a, NEW nx, Walk(L, live, g, n, k, a, nx),
         Others(g, n, k), nticks' = nticks, NEW r \in Returns, Alarm!Callback(a, r)
  PROVE  Left(a, r, nx, (time[a] + r) % AlarmW)
<1>1. /\ live \subseteq used /\ used \subseteq Alarms /\ Loose(L, live) /\ L \in LinkType
      /\ L.next[a] = nx
  <2>1. Ordered(L, live, g, n) /\ k \in 1 .. n /\ g[k] = a /\ g[After(k, n)] = nx /\ k \in 0 .. n
    BY OrderEntries DEF Walk
  <2> QED
    BY <2>1 DEF Ordered, AlarmTypes, Walk
<1>2. ASSUME Alarm!Finish(a, r, L, live, time, rollover, a_left), UNCHANGED <<a_ret, used>>
      PROVE  Left(a, r, nx, (time[a] + r) % AlarmW)
  <2>1. OwnAtMost(L, live, a)
    BY DEF OwnAtMost
  <2> QED
    BY <1>2, <2>1, CallsNone
<1>3. ASSUME NEW b \in Alarm!Stoppable(a), UNCHANGED <<a_ret, used>>,
             Alarm!Finish(a, r, Alarm!alt_llist_remove(L, b), live \ {b}, time, rollover, a_left)
      PROVE  Left(a, r, nx, (time[a] + r) % AlarmW)
  <2>1. b = a \/ (b \in used /\ b # a /\ b # nx)
    BY <1>1, <1>3 DEF Alarm!Stoppable
  <2>2. CASE b = a
    <3>1. OwnAtMost(Alarm!alt_llist_remove(L, b), live \ {b}, a)
      BY <2>2 DEF OwnAtMost
    <3> QED
      BY <1>3, <3>1, CallsNone
  <2>3. CASE b \in live /\ b # a /\ b # nx
    BY <1>3, <2>3, CallsStop
  <2>4. CASE b \in used /\ b \notin live
    <3>1. b \in Entries /\ L.next[b] = b /\ L.previous[b] = b
      BY <1>1, <2>4 DEF Loose, Entries
    <3>2. Alarm!alt_llist_remove(L, b) = L /\ live \ {b} = live
      BY <1>1, <2>4, <3>1, RemoveLoose
    <3>3. Alarm!Finish(a, r, L, live, time, rollover, a_left)
      BY <1>3, <3>2
    <3> QED
      BY <1>2, <1>3, <3>3
  <2> QED
    BY <2>1, <2>2, <2>3, <2>4
<1>4. ASSUME NEW b \in Alarm!Startable, NEW x \in Delays,
             Alarm!Finish(a, r, Alarm!alt_llist_insert(L, alt_alarm_list, b), live \cup {b},
                          [time EXCEPT ![b] = Alarm!StartTime(x)],
                          [rollover EXCEPT ![b] = Alarm!RollsOver(Alarm!StartTime(x), nticks)],
                          [a_left EXCEPT ![b] = x + 1]),
             a_ret' = "ok", used' = used \cup {b}
      PROVE  Left(a, r, nx, (time[a] + r) % AlarmW)
  <2>1. b \in Alarms \ live
    BY DEF Alarm!Startable
  <2>2. Alarm!StartTime(x) = (x + nticks + 1) % AlarmW
    BY DEF Alarm!StartTime
  <2>3. Alarm!Finish(a, r, Alarm!alt_llist_insert(L, alt_alarm_list, b), live \cup {b},
                     [time EXCEPT ![b] = Alarm!StartTime(x)],
                     [rollover EXCEPT ![b] = Alarm!StartTime(x) < nticks],
                     [a_left EXCEPT ![b] = x + 1])
    BY <1>4 DEF Alarm!RollsOver
  <2> QED
    BY <1>4, <2>1, <2>2, <2>3, CallsStart
<1> QED
  BY <1>2, <1>3, <1>4 DEF Alarm!Callback

\* One turn of the loop of alt_tick.
LEMMA TickVisitKeeps ==
  ASSUME AlarmInv, Alarm!TickVisit
  PROVE  AlarmInv'
<1>0. PICK a : a = alarm
  OBVIOUS
<1> DEFINE roll == rollover[a] /\ nticks # 0
<1>1. /\ AlarmTypes /\ Alarm!TicksCounted /\ Loose(L, live)
      /\ AlarmW \in Nat /\ AlarmW > 1 /\ Returns \subseteq 0 .. AlarmW - 1
  BY AlarmConstants DEF AlarmInv
<1>2. /\ a # alt_alarm_list /\ alarm' = L.next[a]
      /\ UNCHANGED <<tick_rate, nticks, periods>>
      /\ \/ Alarm!Expired(a, roll) /\ \E r \in Returns : Alarm!Callback(a, r)
         \/ /\ ~Alarm!Expired(a, roll) /\ rollover' = [rollover EXCEPT ![a] = roll]
            /\ UNCHANGED <<L, time, a_ret, live, used, a_left, early>>
  BY <1>0 DEF Alarm!TickVisit, Alarm!Idle
<1>3. to' = to
  <2>1. to' = (to /\ TRUE)
    BY DEF Alarm!TickVisit, Alarm!ClearsFirst
  <2> QED
    BY <1>1, <2>1 DEF AlarmTypes
<1>4. Alarm!TicksCounted'
  BY <1>1, <1>2, <1>3 DEF Alarm!TicksCounted
<1>5. PICK n, g, k : n \in Nat /\ k \in 0 .. n /\ Order(L, live, g, n) /\ Position(g, n, k)
  BY DEF AlarmInv, InOrder
<1>6. live \in SUBSET Alarms /\ Ordered(L, live, g, n) /\ L \in LinkType
  BY <1>1, <1>5, OrderEntries DEF AlarmTypes
<1>7. a = g[k] /\ k \in 1 .. n
  <2>1. a = g[k]
    BY <1>0, <1>5 DEF Position
  <2>2. k # 0
    BY <1>2, <1>6, <2>1 DEF Ordered
  <2> QED
    BY <1>5, <2>1, <2>2
<1>8. a \in live /\ Unseen(a) /\ alarm' = g[After(k, n)] /\ a \in Alarms
  <2>1. k # 0 /\ k <= k
    BY <1>7
  <2>2. Unseen(g[k])
    BY <1>5, <1>7, <2>1 DEF Position
  <2> QED
    BY <1>2, <1>6, <1>7, <2>2 DEF Ordered
<1>9. /\ Alarm!Expired(a, roll) => a_left[a] = 0 /\ time[a] = nticks
      /\ ~Alarm!Expired(a, roll) =>
           /\ a_left[a] \in 1 .. AlarmW - 1
           /\ time[a] = nticks + a_left[a] - (IF roll THEN AlarmW ELSE 0)
  BY <1>1, <1>8, VisitTells
<1>10. alarm' \in Entries
  BY <1>5, <1>6, <1>8 DEF Ordered
<1>11. Walk(L, live, g, n, k, a, alarm') /\ Others(g, n, k)
  <2>1. Others(g, n, k)
    BY <1>5, <1>7 DEF Position, Others
  <2> QED
    BY <1>1, <1>5, <1>6, <1>7, <1>8, <2>1 DEF Walk
<1>12. CASE /\ ~Alarm!Expired(a, roll) /\ rollover' = [rollover EXCEPT ![a] = roll]
            /\ UNCHANGED <<L, time, a_ret, live, used, a_left, early>>
  <2>1. roll \in BOOLEAN
    BY <1>1, <1>8 DEF AlarmTypes
  <2> HIDE DEF roll
  <2>2. rollover' \in [Alarms -> BOOLEAN] /\ rollover'[a] = roll
        /\ \A b \in Alarms : b # a => rollover'[b] = rollover[b]
    BY <1>1, <1>8, <1>12, <2>1 DEF AlarmTypes
  <2>3. AlarmTypes'
    BY <1>1, <1>2, <1>3, <1>10, <1>12, <2>2 DEF AlarmTypes
  <2>4. Settled(a)'
    <3>1. a_left'[a] = a_left[a] /\ time'[a] = time[a] /\ rollover'[a] = roll /\ nticks' = nticks
      BY <1>2, <1>12, <2>2
    <3> QED
      BY <1>9, <1>12, <3>1 DEF Settled
  <2>5. Others(g, n, k)'
    <3>1. \A b \in live : b # a => /\ time'[b] = time[b] /\ rollover'[b] = rollover[b]
                                   /\ a_left'[b] = a_left[b]
      BY <1>6, <1>12, <2>2
    <3>2. \A z \in 1 .. n : z # k => IF k <= z THEN Unseen(g[z])' ELSE Settled(g[z])'
      BY <1>2, <1>11, <3>1, OthersStay
    <3> QED
      BY <3>2 DEF Others
  <2>6. Loose(L', live') /\ InOrder'
    BY <1>11, <1>12, <2>4, <2>5, VisitStays
  <2>7. Loose(L, live)'
    BY <2>6 DEF Loose
  <2> QED
    BY <1>4, <2>3, <2>6, <2>7 DEF AlarmInv
<1>13. CASE Alarm!Expired(a, roll) /\ \E r \in Returns : Alarm!Callback(a, r)
  <2>1. PICK r \in Returns : Alarm!Callback(a, r)
    BY <1>13
  <2> DEFINE t == (time[a] + r) % AlarmW
  <2>2. Left(a, r, alarm', t)
    BY <1>1, <1>2, <1>11, <2>1, CallbackLeaves
  <2>3. early' = FALSE /\ r \in 0 .. AlarmW - 1 /\ nticks \in 0 .. AlarmW - 1
    <3>1. early = FALSE /\ nticks \in 0 .. AlarmW - 1 /\ a_left[a] = 0
      BY <1>1, <1>9, <1>13 DEF AlarmTypes
    <3>2. early' = FALSE
      BY <2>2, <3>1 DEF Left
    <3> QED
      BY <1>1, <3>1, <3>2
  <2>4. t = (nticks + r) % AlarmW
    BY <1>9, <1>13
  <2> HIDE DEF t, roll
  <2>5. PICK lk, s, h, m, p :
          Walk(lk, s, h, m, p, a, alarm') /\ Others(h, m, p)' /\ Ended(a, r, lk, s, t)
    BY <2>2 DEF Left
  <2>6. L' \in LinkType /\ Loose(L', live') /\ InOrder'
    <3>1. CASE r # 0 /\ L' = lk /\ live' = s /\ time'[a] = t
      <4>1. r \in 1 .. AlarmW - 1
        BY <2>3, <3>1
      <4>2. t = nticks + r - (IF t < nticks THEN AlarmW ELSE 0)
        BY <2>3, <2>4, <4>1, TimeAhead
      <4>3. a_left'[a] = r /\ (rollover'[a] <=> t < nticks) /\ nticks' = nticks
        BY <1>2, <2>2, <3>1 DEF Left
      <4>4. Settled(a)'
        BY <3>1, <4>1, <4>2, <4>3 DEF Settled
      <4> QED
        BY <2>5, <3>1, <4>4, VisitStays
    <3>2. CASE L' = Alarm!alt_llist_remove(lk, a) /\ live' = s \ {a}
      BY <2>5, <3>2, VisitDrops
    <3> QED
      BY <2>5, <3>1, <3>2 DEF Ended
  <2>7. AlarmTypes'
    <3>1. a_ret' \in {"none", "ok", "EINVAL", "ENOTSUP"}
      BY <1>1, <2>2 DEF Left, AlarmTypes
    <3> QED
      BY <1>1, <1>2, <1>3, <1>10, <2>2, <2>3, <2>6, <3>1 DEF Left, AlarmTypes
  <2>8. Loose(L, live)'
    BY <2>6 DEF Loose
  <2> QED
    BY <1>4, <2>6, <2>7, <2>8 DEF AlarmInv
<1> QED
  BY <1>2, <1>12, <1>13

LEMMA AlarmsKept ==
  ASSUME AlarmInv, Alarm!Next
  PROVE  AlarmInv'
  BY AlarmStartKeeps, AlarmStopKeeps, HardwareKeepsAlarms, TickStartKeeps, TickVisitKeeps
     DEF Alarm!Next

----------------------------------------------------------------------------
(* From the order of the list to the ring, by induction along the list.    *)

Less == {ab \in Nat \X Nat : ab[1] < ab[2]}

\* A set of positions that holds the first one and with each one the next
\* holds all of them: otherwise take the first that is missing.
LEMMA AlongTheList ==
  ASSUME NEW n \in Nat, NEW S, 0 \in S, \A j \in 0 .. n : j \in S /\ j # n => j + 1 \in S
  PROVE  \A j \in 0 .. n : j \in S
<1> SUFFICES ASSUME NEW m \in 0 .. n, m \notin S PROVE FALSE
  OBVIOUS
<1> DEFINE T == {j \in 0 .. n : j \notin S}
<1>1. IsWellFoundedOn(Less, Nat)
  BY NatLessThanWellFounded DEF OpToRel, Less
<1>2. T \in SUBSET Nat /\ T # {}
  OBVIOUS
<1>3. PICK x \in T : \A y \in T : ~(<<y, x>> \in Less)
  <2> HIDE DEF T
  <2> QED
    BY <1>1, <1>2, WFMin
<1>4. x \in 0 .. n /\ x \notin S /\ x # 0
  OBVIOUS
<1>5. x - 1 \in 0 .. n /\ x - 1 # n /\ (x - 1) + 1 = x /\ x - 1 < x /\ x - 1 \in Nat /\ x \in Nat
  BY <1>4
<1>6. <<x - 1, x>> \in Less
  BY <1>5 DEF Less
<1>7. x - 1 \in S
  BY <1>3, <1>5, <1>6
<1> QED
  BY <1>4, <1>5, <1>7

LEMMA OrderIsRing ==
  ASSUME NEW lk, NEW s \in SUBSET Alarms, NEW n \in Nat, NEW g, Order(lk, s, g, n)
  PROVE  Alarm!Ring(lk, alt_alarm_list, s)
<1> DEFINE E == s \cup {alt_alarm_list}
<1>1. Ordered(lk, s, g, n)
  BY OrderEntries
<1>2. /\ g \in [0 .. n -> E] /\ g[0] = alt_alarm_list
      /\ \A e \in E : \E j \in 0 .. n : g[j] = e
      /\ \A j \in 0 .. n : /\ After(j, n) \in 0 .. n
                           /\ lk.next[g[j]] = g[After(j, n)] /\ lk.previous[g[After(j, n)]] = g[j]
  BY <1>1 DEF Ordered, Order
<1>3. \A j \in 0 .. n : \E m \in 0 .. n : After(m, n) = j
  <2> TAKE j \in 0 .. n
  <2>1. CASE j = 0
    <3>1. n \in 0 .. n /\ After(n, n) = 0
      BY DEF After
    <3> QED
      BY <2>1, <3>1
  <2>2. CASE j # 0
    <3>1. j - 1 \in 0 .. n /\ After(j - 1, n) = j
      BY <2>2 DEF After
    <3> QED
      BY <3>1
  <2> QED
    BY <2>1, <2>2
<1>4. ASSUME NEW e \in E
      PROVE  /\ lk.next[e] \in E /\ lk.previous[lk.next[e]] = e
             /\ lk.previous[e] \in E /\ lk.next[lk.previous[e]] = e
  <2>1. PICK j \in 0 .. n : g[j] = e
    BY <1>2
  <2>2. PICK m \in 0 .. n : After(m, n) = j
    BY <1>3
  <2>3. g[m] \in E /\ g[After(j, n)] \in E
    BY <1>2
  <2>4. lk.next[e] = g[After(j, n)] /\ lk.previous[g[After(j, n)]] = e
    BY <1>2, <2>1
  <2>5. lk.next[g[m]] = e /\ lk.previous[e] = g[m]
    BY <1>2, <2>1, <2>2
  <2> QED
    BY <2>3, <2>4, <2>5
<1>5. ASSUME NEW T \in SUBSET E, alt_alarm_list \in T, \A e \in T : lk.next[e] \in T
      PROVE  T = E
  <2> DEFINE S == {j \in 0 .. n : g[j] \in T}
  <2>1. 0 \in S
    BY <1>2, <1>5
  <2>2. \A j \in 0 .. n : j \in S /\ j # n => j + 1 \in S
    <3> TAKE j \in 0 .. n
    <3> HAVE j \in S /\ j # n
    <3>1. After(j, n) = j + 1
      BY DEF After
    <3>2. g[j + 1] \in T /\ j + 1 \in 0 .. n
      BY <1>2, <1>5, <3>1
    <3> QED
      BY <3>2
  <2> HIDE DEF S
  <2>3. \A j \in 0 .. n : j \in S
    BY <2>1, <2>2, AlongTheList
  <2>4. \A j \in 0 .. n : g[j] \in T
    BY <2>3 DEF S
  <2>5. \A e \in E : e \in T
    BY <1>2, <2>4
  <2> QED
    BY <2>5
<1> QED
  BY <1>4, <1>5 DEF Alarm!Ring

LEMMA AlarmsInTime ==
  ASSUME AlarmInv
  PROVE  AlarmsOnTime
<1>1. AlarmTypes /\ Alarm!TicksCounted /\ live \in SUBSET Alarms
  BY DEF AlarmInv, AlarmTypes
<1>2. Alarm!TypeOK
  BY <1>1, AlarmTypesAre
<1>3. Alarm!ListIsLive
  <2>1. PICK n, g, k : n \in Nat /\ k \in 0 .. n /\ Order(L, live, g, n) /\ Position(g, n, k)
    BY DEF AlarmInv, InOrder
  <2> QED
    BY <1>1, <2>1, OrderIsRing DEF Alarm!ListIsLive
<1>4. Alarm!RunsOnTime
  <2>1. ~early
    BY <1>1 DEF AlarmTypes
  <2>2. ASSUME alarm = alt_alarm_list, NEW a \in live PROVE a_left[a] > 0
    <3>1. PICK n, g : /\ n \in Nat /\ Order(L, live, g, n)
                      /\ \A j \in 1 .. n : g[j] \in live /\ Settled(g[j])
      BY <2>2, AtRest
    <3>2. Ordered(L, live, g, n)
      BY <1>1, <3>1, OrderEntries
    <3>3. PICK j \in 1 .. n : g[j] = a
      BY <3>2 DEF Ordered
    <3>4. Settled(a)
      BY <3>1, <3>3
    <3> QED
      BY <3>4, AlarmConstants DEF Settled
  <2> QED
    BY <2>1, <2>2 DEF Alarm!RunsOnTime, Alarm!Idle
<1> QED
  BY <1>1, <1>2, <1>3, <1>4 DEF AlarmsOnTime

----------------------------------------------------------------------------
(* The parts together.                                                     *)

ClockInv == AlarmInv /\ CycleInv /\ TodInv /\ SleepInv

LEMMA AlarmsStutter ==
  ASSUME AlarmInv, UNCHANGED alarmVars
  PROVE  AlarmInv'
<1>1. UNCHANGED <<tick_rate, nticks, L, time, rollover, to, alarm, a_ret, live, used,
                  a_left, early, periods>>
  BY DEF alarmVars
<1>2. AlarmTypes'
  BY <1>1 DEF AlarmInv, AlarmTypes
<1>3. Alarm!TicksCounted'
  BY <1>1 DEF AlarmInv, Alarm!TicksCounted
<1> QED
  BY <1>1, <1>2, <1>3, QuietKeeps

LEMMA CyclesStutter ==
  ASSUME CycleInv, UNCHANGED cycleVars
  PROVE  CycleInv'
<1>1. UNCHANGED <<counter, snap, cont, running, c_to, c_nticks, late, pc, t1, low, high,
                  ret, now, since>>
  BY DEF cycleVars
<1>2. CycleTypes'
  BY <1>1 DEF CycleInv, CycleTypes
<1>3. Phase' = Phase /\ Pending' = Pending /\ Base' = Base
  BY <1>1 DEF Phase, Pending, Base
<1>4. Steady'
  BY <1>1, <1>3 DEF CycleInv, Steady
<1>5. FewTicks' = FewTicks /\ ThenTrue' = ThenTrue
  BY <1>1, <1>3 DEF FewTicks, ThenTrue
<1>6. CallInv'
  BY <1>1, <1>5 DEF CycleInv, CallInv
<1>7. Cycles!CyclesExact'
  BY <1>1 DEF CycleInv, Cycles!CyclesExact
<1> QED
  BY <1>2, <1>4, <1>6, <1>7 DEF CycleInv

LEMMA TodStutters ==
  ASSUME TodInv, UNCHANGED todVars
  PROVE  TodInv'
  BY DEF todVars, TodInv

LEMMA SleepStutters ==
  ASSUME SleepInv, UNCHANGED sleepVars
  PROVE  SleepInv'
  BY DEF sleepVars, SleepInv, TurnsCounted, Sleep!BigUs, Sleep!INT_MAX, Sleep!PerUs

LEMMA ClockStarts == ClockInit => ClockInv
  BY AlarmsStart, CycleInit, TodInit, SleepInit DEF ClockInit, ClockInv

LEMMA ClockKept == ClockInv /\ [ClockNext]_clockVars => ClockInv'
<1> SUFFICES ASSUME ClockInv, [ClockNext]_clockVars PROVE ClockInv'
  OBVIOUS
<1>1. Alarm!Next \/ UNCHANGED alarmVars
  BY DEF ClockNext, IrqStep, ServedStep, AlarmStep, CycleStep, TodStep, SleepStep, clockVars
<1>2. Cycles!Next \/ UNCHANGED cycleVars
  BY DEF ClockNext, IrqStep, ServedStep, AlarmStep, CycleStep, TodStep, SleepStep, clockVars
<1>3. Tod!Next \/ UNCHANGED todVars
  BY DEF ClockNext, IrqStep, ServedStep, AlarmStep, CycleStep, TodStep, SleepStep, clockVars
<1>4. Sleep!Next \/ UNCHANGED sleepVars
  BY DEF ClockNext, IrqStep, ServedStep, AlarmStep, CycleStep, TodStep, SleepStep, clockVars
<1>5. AlarmInv'
  BY <1>1, AlarmsKept, AlarmsStutter DEF ClockInv
<1>6. CycleInv'
  BY <1>2, CyclesKept, CyclesStutter DEF ClockInv
<1>7. TodInv'
  BY <1>3, TodKept, TodStutters DEF ClockInv
<1>8. SleepInv'
  BY <1>4, SleepKept, SleepStutters DEF ClockInv
<1> QED
  BY <1>5, <1>6, <1>7, <1>8 DEF ClockInv

\* The invariant of the four parts (alt_tick.c, alt_alarm_start.c and
\* alt_llist.h; common.c; alt_settod.c and alt_gettod.c; alt_busy_sleep.c).
THEOREM ClockInvariant == ClockSpec => []ClockInv
<1>1. ClockInit => ClockInv
  BY ClockStarts
<1>2. ClockInv /\ [ClockNext]_clockVars => ClockInv'
  BY ClockKept
<1> QED
  BY <1>1, <1>2, PTL DEF ClockSpec

\* For any number of alarms and any width of the tick count: no callback runs
\* before its time and none is missed, the list is one ring through exactly
\* the registered alarms, and every period of the timer is counted (alt_tick,
\* alt_alarm_start, alt_alarm_stop, alt_llist_insert and alt_llist_remove).
THEOREM AlarmsRunOnTime == ClockSpec => []AlarmsOnTime
<1>1. ClockInv => AlarmsOnTime
  BY AlarmsInTime DEF ClockInv
<1> QED
  BY <1>1, ClockInvariant, PTL

\* For any width of the tick count and any period: get_total_cycles and
\* alt_timestamp return the count of a moment of the call.  For any tick rate
\* that divides the second, and as long as the ticks of the uptime are fewer
\* microseconds than a register holds (TimesAssumption): gettimeofday returns
\* the time set plus the time counted since.
THEOREM TimesAreExact == ClockSpec => []TimesExact
<1>1. ClockInv => TimesExact
  <2> SUFFICES ASSUME ClockInv PROVE TimesExact
    OBVIOUS
  <2>1. Cycles!TypeOK /\ Cycles!CyclesExact
    BY CycleTypesAre DEF ClockInv, CycleInv
  <2>2. Tod!TimeTracksTicks
    BY TodTracks DEF ClockInv
  <2> QED
    BY <2>1, <2>2 DEF TimesExact
<1> QED
  BY <1>1, ClockInvariant, PTL

\* For any speed of the processor of at least one turn in a microsecond, and
\* any argument: alt_busy_sleep is short by less than a turn of its loop for
\* each microsecond it was asked for, the fraction that its division cuts off,
\* and it is not short at all when that division leaves no remainder.
THEOREM SleepsAreBounded == ClockSpec => []SleepsWithinATurn
<1>1. ClockInv => SleepsWithinATurn
  BY TurnsAreTime DEF ClockInv, SleepsWithinATurn
<1> QED
  BY <1>1, ClockInvariant, PTL
=============================================================================
