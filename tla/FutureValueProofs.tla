------------------------- MODULE FutureValueProofs -------------------------
(***************************************************************************)
(* Proofs about src/M2/future_value.c, for every range of int and long,    *)
(* every size of the table and every argument a user may type.             *)
(***************************************************************************)
EXTENDS FutureValue, TLAPS, WellFoundedInduction

----------------------------------------------------------------------------
(* The conversions *)

\* What the assumptions say of the ranges.
LEMMA Ranges ==
    /\ INT_MAX \in Nat /\ LONG_MAX \in Nat /\ INT_MAX < LONG_MAX
    /\ INT_SPAN \in Nat \ {0} /\ INT_SPAN = 2 * (INT_MAX + 1)
BY WidthAssumption DEF WidthAssumption, INT_SPAN

\* The lowest bits of a long: a value of int, the same one if it fits, and
\* otherwise one that differs by a multiple of the values of int.
LEMMA ToIntFacts ==
    ASSUME NEW n \in Int
    PROVE  /\ ToInt(n) \in -INT_MAX - 1 .. INT_MAX
           /\ n \in -INT_MAX - 1 .. INT_MAX => ToInt(n) = n
           /\ (n - ToInt(n)) % INT_SPAN = 0
<1> DEFINE h == INT_MAX + 1
<1>1. h \in Nat \ {0} /\ INT_SPAN = 2 * h /\ INT_MAX = h - 1
  BY Ranges
<1> HIDE DEF h
<1>2. ToInt(n) = ((n + h) % (2 * h)) - h
  BY <1>1, Ranges DEF ToInt
<1>3. ((n + h) % (2 * h)) - h \in -h .. h - 1
  BY <1>1
<1>4. n \in -h .. h - 1 => ((n + h) % (2 * h)) - h = n
  BY <1>1
<1>5. (n - (((n + h) % (2 * h)) - h)) % (2 * h) = 0
  BY <1>1
<1>6. -INT_MAX - 1 = -h
  BY <1>1
<1> QED
  BY <1>1, <1>2, <1>3, <1>4, <1>5, <1>6

\* strtol gives a long, and the number itself if that is one.
LEMMA StrtolFacts ==
    ASSUME NEW n \in Int
    PROVE  /\ strtol(n) \in -LONG_MAX - 1 .. LONG_MAX
           /\ n \in -LONG_MAX - 1 .. LONG_MAX => strtol(n) = n
           /\ n > LONG_MAX => strtol(n) = LONG_MAX
           /\ n < -LONG_MAX - 1 => strtol(n) = -LONG_MAX - 1
BY Ranges DEF strtol

\* A multiple of D and a rest below D: the rest is what % gives.
LEMMA Remainder ==
    ASSUME NEW D \in Nat, NEW q \in Int, NEW r \in 0 .. D - 1
    PROVE  (D * q + r) % D = r
<1> DEFINE n == D * q + r
<1>1. D > 0 /\ n \in Int
  OBVIOUS
<1> DEFINE t == n % D
           p == n \div D
<1>2. t \in 0 .. D - 1 /\ p \in Int /\ n = D * p + t
  BY <1>1
<1> HIDE DEF t, p
<1>3. D * (q - p) = t - r
  BY <1>2
<1>4. t - r < D /\ t - r > -D
  BY <1>2
<1>5. q - p = 0
  <2>1. CASE q - p >= 1
    <3>1. D * (q - p) >= D
      BY <2>1, <1>1, <1>2
    <3> QED
      BY <3>1, <1>2, <1>3, <1>4
  <2>2. CASE q - p <= -1
    <3>1. D * (q - p) <= -D
      BY <2>2, <1>1, <1>2
    <3> QED
      BY <3>1, <1>2, <1>3, <1>4
  <2> QED
    BY <2>1, <2>2, <1>2
<1>6. t = r
  BY <1>2, <1>3, <1>5
<1> QED
  BY <1>6 DEF t

\* The ends of long, at which strtol stops, are -1 and 0 as an int.
LEMMA EndsOfLong == ToInt(LONG_MAX) = -1 /\ ToInt(-LONG_MAX - 1) = 0
<1> DEFINE h == INT_MAX + 1
           L == LONG_MAX + 1
<1>1. /\ h \in Nat \ {0} /\ INT_SPAN = 2 * h /\ INT_MAX = h - 1
      /\ L \in Nat /\ L % (2 * h) = 0 /\ LONG_MAX = L - 1
  BY Ranges, WidthAssumption DEF WidthAssumption
<1> HIDE DEF h, L
<1>2. ToInt(LONG_MAX) = ((L - 1 + h) % (2 * h)) - h
  BY <1>1, Ranges DEF ToInt
<1>3. ToInt(-LONG_MAX - 1) = ((h - L) % (2 * h)) - h
  BY <1>1, Ranges DEF ToInt
<1> DEFINE D == 2 * h
<1>d. D \in Nat /\ D > 0 /\ h - 1 \in 0 .. D - 1 /\ h \in 0 .. D - 1
  BY <1>1
<1>4. PICK q \in Int : L = D * q
  <2>1. L = D * (L \div D) + (L % D) /\ L \div D \in Int
    BY <1>1, <1>d
  <2> QED
    BY <2>1, <1>1
<1> HIDE DEF D
<1>5. (L - 1 + h) % D = h - 1
  <2>1. L - 1 + h = D * q + (h - 1)
    BY <1>1, <1>4
  <2>2. (D * q + (h - 1)) % D = h - 1
    BY <1>1, <1>d, Remainder
  <2> QED
    BY <2>1, <2>2
<1>6. (h - L) % D = h
  <2>1. h - L = D * (-q) + h
    BY <1>1, <1>d, <1>4
  <2>2. (D * (-q) + h) % D = h
    BY <1>1, <1>d, Remainder
  <2> QED
    BY <2>1, <2>2
<1> QED
  BY <1>1, <1>2, <1>3, <1>5, <1>6 DEF D

----------------------------------------------------------------------------
(* The loop *)

\* A month within the years ends a year of the table, if it ends one.
LEMMA YearOfMonth ==
    ASSUME NEW k \in Nat, NEW M \in Nat, NEW y \in Nat, M > 0, k > 0, k <= y * M, k % M = 0
    PROVE  k \div M \in 1 .. y /\ M * (k \div M) = k
<1> DEFINE q == k \div M
<1>1. q \in Nat /\ k = M * q + (k % M)
  OBVIOUS
<1>2. k = M * q
  BY <1>1
<1> HIDE DEF q
<1>3. q # 0
  BY <1>2
<1>4. ASSUME q > y PROVE FALSE
  <2>1. PICK d \in Nat : q = y + d /\ d >= 1
    <3>1. q - y \in Nat /\ q - y >= 1 /\ q = y + (q - y)
      BY <1>1, <1>4
    <3> QED
      BY <3>1
  <2>2. M * q = y * M + M * d /\ M * d >= M
    BY <2>1
  <2> QED
    BY <1>2, <2>2
<1>5. q \in 1 .. y
  BY <1>1, <1>3, <1>4
<1> QED
  BY <1>2, <1>5 DEF q

\* A month's payment and interest keep the value above what was paid in.
LEMMA ValueGrows ==
    ASSUME NEW v \in Nat, NEW m \in Nat, NEW k \in Nat, NEW u \in Nat,
           NEW S \in Nat, NEW r \in Nat, v >= m * k * u
    PROVE  /\ (v + m * u) * (S + r) \in Nat
           /\ (v + m * u) * (S + r) >= m * (k + 1) * (u * S)
<1> DEFINE a == v + m * u
           b == m * (k + 1) * u
<1>1. a \in Nat /\ b \in Nat
  OBVIOUS
<1>2. a >= b
  OBVIOUS
<1>3. b * S = m * (k + 1) * (u * S)
  OBVIOUS
<1> HIDE DEF a, b
<1>4. a * (S + r) \in Nat /\ a * (S + r) = a * S + a * r /\ a * r \in Nat
  BY <1>1
<1>5. a * S >= b * S
  BY <1>1, <1>2
<1>6. a * (S + r) >= b * S
  <2> DEFINE x == a * S
             y == a * r
             z == b * S
  <2>1. x \in Nat /\ y \in Nat /\ z \in Nat
    BY <1>1
  <2>2. x >= z /\ a * (S + r) = x + y
    BY <1>4, <1>5
  <2> HIDE DEF x, y, z
  <2>3. a * (S + r) >= z
    BY <2>1, <2>2
  <2> QED
    BY <2>3 DEF z
<1> QED
  BY <1>3, <1>4, <1>6 DEF a

----------------------------------------------------------------------------
(* The invariant *)

\* The types of the arguments and the constants.
LEMMA ArgumentTypes ==
    ASSUME TypeOK
    PROVE  /\ argv.investment.value \in Int /\ argv.rate.value \in Int
           /\ argv.years.value \in Int
           /\ MONTHS \in Nat /\ MONTHS > 0 /\ MAX_YEARS \in Nat /\ MAX_YEARS > 0
           /\ MAX_YEARS * MONTHS <= INT_MAX /\ Scale \in Nat /\ Scale > 0
           /\ MAX_INVESTMENT \in Nat /\ MAX_INTEREST_RATE \in Nat
           /\ MAX_YEARS <= INT_MAX
<1>1. /\ argv.investment.value \in Investments /\ argv.rate.value \in Rates
      /\ argv.years.value \in Years
  BY DEF TypeOK, Arguments
<1>2. /\ MONTHS \in Nat /\ MONTHS > 0 /\ MAX_YEARS \in Nat /\ MAX_YEARS > 0
      /\ MAX_YEARS * MONTHS <= INT_MAX
  BY TableAssumption DEF TableAssumption
<1>3. MAX_YEARS <= MAX_YEARS * MONTHS
  BY <1>2
<1>4. MAX_YEARS <= INT_MAX
  BY <1>2, <1>3, Ranges
<1>5. /\ Investments \subseteq Int /\ Rates \subseteq Int /\ Years \subseteq Int
      /\ MAX_INVESTMENT \in Nat /\ MAX_INTEREST_RATE \in Nat /\ Scale \in Nat /\ Scale > 0
  BY NumberAssumption DEF NumberAssumption
<1>6. /\ argv.investment.value \in Int /\ argv.rate.value \in Int
      /\ argv.years.value \in Int
  BY <1>1, <1>5
<1> QED
  BY <1>2, <1>4, <1>5, <1>6

LEMMA InitTable == Init => TableInv
<1> SUFFICES ASSUME Init PROVE TableInv
  OBVIOUS
<1>1. results \in [Rows -> Nat \X Nat]
  BY DEF Init, Blank
<1>2. TypeOK
  <2>1. pc = "argc" /\ outside \in BOOLEAN
    BY DEF Init
  <2>2. 0 \in -INT_MAX - 1 .. INT_MAX /\ 0 \in 0 .. INT_MAX
    BY Ranges
  <2>3. /\ years = 0 /\ i = 0 /\ future_value = 0 /\ unit = 1
        /\ monthly_investment = 0 /\ annual_interest_rate = 0
    BY DEF Init
  <2>4. argv \in [investment : Arguments(Investments), rate : Arguments(Rates),
                  years : Arguments(Years)]
    BY DEF Init
  <2> QED
    BY <1>1, <2>1, <2>2, <2>3, <2>4 DEF TypeOK
<1> QED
  BY <1>2 DEF Init, TableInv, StaysInTable, InputChecked, LoopKept

\* parse_input lets nothing pass that is out of bounds.
LEMMA ParseTable ==
    ASSUME TableInv, parse_input
    PROVE  TableInv'
<1> USE Ranges
<1>t. TypeOK /\ StaysInTable /\ InputChecked /\ LoopKept
  BY DEF TableInv
<1>a. /\ argv.investment.value \in Int /\ argv.rate.value \in Int
      /\ argv.years.value \in Int /\ MAX_YEARS \in Nat /\ MAX_YEARS <= INT_MAX
      /\ MONTHS \in Nat /\ MONTHS > 0
  BY <1>t, ArgumentTypes
<1>p. pc \in {"argc", "investment", "rate", "years"}
  BY DEF parse_input, CountArguments, ParseInvestment, ParseRate, ParseYears
<1>z. i = 0 /\ future_value = 0 /\ unit = 1 /\ ~outside
  BY <1>t, <1>p DEF LoopKept, StaysInTable
<1>u. UNCHANGED table
  BY DEF parse_input, CountArguments, ParseInvestment, ParseRate, ParseYears
<1>0. StaysInTable' /\ future_value' = 0 /\ i' = 0 /\ unit' = 1
  BY <1>z, <1>u DEF table, StaysInTable
<1>1. CASE CountArguments
  <2>1. TypeOK'
    BY <1>1, <1>t DEF CountArguments, TypeOK, input, table
  <2>2. pc' \in {"investment", "refused"}
    BY <1>1 DEF CountArguments
  <2>3. InputChecked' /\ LoopKept'
    BY <1>0, <2>2 DEF InputChecked, LoopKept
  <2> QED
    BY <1>0, <2>1, <2>3 DEF TableInv
<1>2. CASE ParseInvestment
  <2>1. TypeOK'
    BY <1>2, <1>t, <1>a DEF ParseInvestment, TypeOK, table
  <2>2. /\ pc' \in {"rate", "refused"}
        /\ pc' = "rate" => monthly_investment' \in 1 .. MAX_INVESTMENT
    BY <1>2, <1>a, NumberAssumption
       DEF ParseInvestment, Accepts, MIN_INVESTMENT, NumberAssumption
  <2>3. InputChecked' /\ LoopKept'
    BY <1>0, <2>2 DEF InputChecked, LoopKept
  <2> QED
    BY <1>0, <2>1, <2>3 DEF TableInv
<1>3. CASE ParseRate
  <2>1. TypeOK'
    BY <1>3, <1>t, <1>a DEF ParseRate, TypeOK, table
  <2>2. /\ pc' \in {"years", "refused"}
        /\ pc' = "years" => annual_interest_rate' \in 1 .. MAX_INTEREST_RATE
    BY <1>3, <1>a, NumberAssumption
       DEF ParseRate, Accepts, MIN_INTEREST_RATE, NumberAssumption
  <2>3. InputChecked' /\ LoopKept'
    BY <1>0, <1>3, <1>t, <2>2 DEF InputChecked, LoopKept, ParseRate
  <2> QED
    BY <1>0, <2>1, <2>3 DEF TableInv
<1>4. CASE ParseYears
  <2> DEFINE y == ToInt(strtol(argv.years.value))
  <2>1. y \in -INT_MAX - 1 .. INT_MAX
    <3>1. strtol(argv.years.value) \in Int
      BY <1>a, StrtolFacts
    <3> QED
      BY <3>1, ToIntFacts
  <2>2. /\ pc' \in {"calculate", "refused"}
        /\ pc' = "calculate" => years' = y /\ y \in 1 .. MAX_YEARS
    <3> HIDE DEF y
    <3>1. /\ years' = IF is_valid_number(argv.years) THEN y ELSE years
          /\ pc' = IF YearsInRange(y) THEN "calculate" ELSE "refused"
      BY <1>4 DEF ParseYears, y
    <3> QED
      BY <1>a, <2>1, <3>1 DEF YearsInRange, Accepts, MIN_YEARS
  <2>3. years' \in -INT_MAX - 1 .. INT_MAX
    BY <1>4, <1>t, <2>1 DEF ParseYears, TypeOK
  <2>4. TypeOK'
    BY <1>4, <1>t, <2>2, <2>3 DEF ParseYears, TypeOK, table
  <2>5. InputChecked'
    BY <1>4, <1>t, <2>2 DEF InputChecked, ParseYears
  <2>6. LoopKept'
    <3>1. CASE pc' = "refused"
      BY <1>0, <3>1 DEF LoopKept
    <3>2. CASE pc' = "calculate"
      <4>1. years' * MONTHS \in Nat
        BY <2>2, <3>2, <1>a
      <4>2. monthly_investment' * i' * unit' = 0
        <5>1. monthly_investment' \in Int
          BY <2>4 DEF TypeOK
        <5>2. \A x \in Int : x * 0 * 1 = 0
          OBVIOUS
        <5>3. i' = 0 /\ unit' = 1
          BY <1>0
        <5> QED
          BY <5>1, <5>2, <5>3
      <4> QED
        BY <1>0, <3>2, <4>1, <4>2 DEF LoopKept
    <3> QED
      BY <2>2, <3>1, <3>2
  <2> QED
    BY <1>0, <2>4, <2>5, <2>6 DEF TableInv
<1> QED
  BY <1>1, <1>2, <1>3, <1>4 DEF parse_input

\* A turn of the loop: the row it writes is one of the table's.
LEMMA MonthTable ==
    ASSUME TableInv, Month
    PROVE  TableInv'
<1> USE Ranges
<1>t. TypeOK /\ StaysInTable /\ InputChecked /\ LoopKept /\ pc = "calculate"
  BY DEF TableInv, Month
<1>a. /\ Scale \in Nat /\ Scale > 0 /\ MONTHS \in Nat /\ MONTHS > 0
      /\ MAX_YEARS \in Nat /\ MAX_YEARS * MONTHS <= INT_MAX
  BY <1>t, ArgumentTypes
<1>b. /\ monthly_investment \in Nat /\ annual_interest_rate \in Nat
      /\ years \in Nat /\ years <= MAX_YEARS
      /\ i \in Nat /\ future_value \in Nat /\ unit \in Nat /\ unit > 0
      /\ future_value >= monthly_investment * i * unit
      /\ i + 1 \in Nat /\ i + 1 > 0
  BY <1>t, ArgumentTypes DEF TypeOK, InputChecked, LoopKept
<1> DEFINE value == AddMonth(future_value, monthly_investment)
           year  == (i + 1) \div MONTHS
<1>1. value \in Nat /\ value >= monthly_investment * (i + 1) * (unit * Scale)
  BY <1>a, <1>b, ValueGrows DEF AddMonth
<1>2. i + 1 <= years * MONTHS
  BY <1>a, <1>b DEF Month
<1>3. i + 1 <= INT_MAX
  <2>1. years * MONTHS <= MAX_YEARS * MONTHS
    BY <1>a, <1>b
  <2> DEFINE x == years * MONTHS
             z == MAX_YEARS * MONTHS
  <2>2. x \in Nat /\ z \in Nat
    BY <1>a, <1>b
  <2> HIDE DEF x, z
  <2>3. i + 1 <= x /\ x <= z /\ z <= INT_MAX
    BY <1>2, <2>1, <1>a DEF x, z
  <2> QED
    BY <1>b, <2>2, <2>3
<1>4. ASSUME (i + 1) % MONTHS = 0
      PROVE  /\ year \in 1 .. years /\ year - 1 \in Rows
             /\ value - Paid(year) \in Nat
  <2>1. year \in 1 .. years /\ MONTHS * year = i + 1
    BY <1>2, <1>4, <1>a, <1>b, YearOfMonth
  <2>2. year - 1 \in Rows
    BY <2>1, <1>a, <1>b DEF Rows
  <2> HIDE DEF year
  <2>3. Paid(year) = monthly_investment * (i + 1) * (unit * Scale)
    BY <2>1 DEF Paid
  <2>4. Paid(year) \in Nat
    BY <2>3, <1>a, <1>b
  <2> HIDE DEF value
  <2>5. value - Paid(year) \in Nat
    BY <1>1, <2>3, <2>4
  <2> QED
    BY <2>1, <2>2, <2>5
<1>5. /\ future_value' = value /\ i' = i + 1 /\ unit' = unit * Scale
      /\ UNCHANGED <<pc, input>>
      /\ IF (i + 1) % MONTHS = 0
         THEN IF year - 1 \in Rows
              THEN /\ results' = [results EXCEPT ![year - 1] = <<value - Paid(year), value>>]
                   /\ UNCHANGED outside
              ELSE outside' = TRUE /\ UNCHANGED results
         ELSE UNCHANGED <<results, outside>>
  BY DEF Month
<1> HIDE DEF value, year
<1>6. results' \in [Rows -> Nat \X Nat] /\ outside' = outside
  <2>1. CASE (i + 1) % MONTHS = 0
    <3>1. <<value - Paid(year), value>> \in Nat \X Nat
      BY <1>1, <1>4, <2>1
    <3> QED
      BY <1>5, <1>4, <2>1, <3>1, <1>t DEF TypeOK
  <2>2. CASE (i + 1) % MONTHS # 0
    BY <2>2, <1>5, <1>t DEF TypeOK
  <2> QED
    BY <2>1, <2>2
<1>7. unit * Scale \in Nat /\ unit * Scale > 0
  BY <1>a, <1>b
<1>8. TypeOK'
  BY <1>t, <1>1, <1>3, <1>5, <1>6, <1>7, <1>b DEF TypeOK, input
<1>9. InputChecked' /\ StaysInTable'
  BY <1>t, <1>5, <1>6 DEF InputChecked, StaysInTable, input
<1>10. LoopKept'
  BY <1>t, <1>1, <1>2, <1>5 DEF LoopKept, input
<1> QED
  BY <1>8, <1>9, <1>10 DEF TableInv

\* display_results reads the rows that the loop has written.
LEMMA DisplayTable ==
    ASSUME TableInv, display_results
    PROVE  TableInv'
<1>t. TypeOK /\ StaysInTable /\ InputChecked /\ LoopKept /\ pc = "calculate"
  BY DEF TableInv, display_results
<1>1. years \in 1 .. MAX_YEARS /\ MAX_YEARS \in Nat
  BY <1>t, ArgumentTypes DEF InputChecked
<1>2. 0 .. years - 1 \subseteq Rows
  BY <1>1 DEF Rows
<1>3. outside' = FALSE
  BY <1>t, <1>2 DEF display_results, StaysInTable, TypeOK
<1>4. pc' = "shown" /\ UNCHANGED <<input, i, future_value, results, unit>>
  BY DEF display_results
<1>5. TypeOK'
  BY <1>t, <1>3, <1>4 DEF TypeOK, input
<1>6. InputChecked' /\ LoopKept' /\ StaysInTable'
  BY <1>t, <1>3, <1>4 DEF InputChecked, LoopKept, StaysInTable, input
<1> QED
  BY <1>5, <1>6 DEF TableInv

LEMMA NextTable == TableInv /\ [Next]_vars => TableInv'
<1> SUFFICES ASSUME TableInv, [Next]_vars PROVE TableInv'
  OBVIOUS
<1>1. CASE UNCHANGED vars
  BY <1>1 DEF TableInv, TypeOK, StaysInTable, InputChecked, LoopKept, vars
<1> QED
  BY <1>1, ParseTable, MonthTable, DisplayTable DEF Next, Ended

----------------------------------------------------------------------------
\* Whatever is typed and whatever the conversion to int makes of it, the rows
\* that calculate_future_value writes and display_results reads are rows of
\* results, the loop variable stays within int, and no interest is negative.
THEOREM TableInvariant == Spec => []TableInv
<1>1. Init => TableInv
  BY InitTable
<1>2. TableInv /\ [Next]_vars => TableInv'
  BY NextTable
<1> QED
  BY <1>1, <1>2, PTL DEF Spec

\* parse_input: the years of the table are the ones typed, or their lowest bits
\* if they are beyond int and within long; what is beyond long is refused.
THEOREM YearsTyped == Spec => []YearsAsTyped
<1>1. Init => YearsAsTyped
  BY DEF Init, YearsAsTyped
<1>2. TableInv /\ YearsAsTyped /\ [Next]_vars => YearsAsTyped'
  <2> SUFFICES ASSUME TableInv, YearsAsTyped, [Next]_vars PROVE YearsAsTyped'
    OBVIOUS
  <2>1. CASE pc' \in {"calculate", "shown"} => pc \in {"calculate", "shown"}
    <3>1. argv' = argv /\ (pc \in {"calculate", "shown"} => years' = years)
      BY DEF Next, parse_input, CountArguments, ParseInvestment, ParseRate, ParseYears,
             Month, display_results, Ended, vars, input
    <3> QED
      BY <2>1, <3>1 DEF YearsAsTyped
  <2>2. CASE ParseYears /\ pc' = "calculate"
    <3> DEFINE n == argv.years.value
    <3>1. n \in Int /\ MAX_YEARS \in Nat
      BY ArgumentTypes DEF TableInv
    <3>2. years' = ToInt(strtol(n)) /\ ToInt(strtol(n)) >= 1 /\ argv' = argv
      BY <2>2 DEF ParseYears, YearsInRange, Accepts, MIN_YEARS
    <3> HIDE DEF n
    <3>3. n \in -LONG_MAX - 1 .. LONG_MAX
      <4>1. n <= LONG_MAX
        BY <3>1, <3>2, StrtolFacts, EndsOfLong, Ranges
      <4>2. n >= -LONG_MAX - 1
        BY <3>1, <3>2, StrtolFacts, EndsOfLong, Ranges
      <4> QED
        BY <3>1, <4>1, <4>2, Ranges
    <3>4. years' = ToInt(n)
      BY <3>1, <3>2, <3>3, StrtolFacts
    <3>5. years' = n \/ (n \notin -INT_MAX - 1 .. INT_MAX /\ (n - years') % INT_SPAN = 0)
      BY <3>1, <3>4, ToIntFacts
    <3> QED
      BY <3>2, <3>3, <3>5 DEF YearsAsTyped, n
  <2>3. ASSUME Next \/ UNCHANGED vars,
               pc' \in {"calculate", "shown"}, pc \notin {"calculate", "shown"}
        PROVE  ParseYears /\ pc' = "calculate"
    BY <2>3 DEF Next, parse_input, CountArguments, ParseInvestment, ParseRate, ParseYears,
                Month, display_results, Ended, vars
  <2> QED
    BY <2>1, <2>2, <2>3
<1> QED
  BY <1>1, <1>2, TableInvariant, PTL DEF Spec

----------------------------------------------------------------------------
(* Induction, and functions defined by it *)

\* Every nonempty set of natural numbers has a least element.
LEMMA LeastNumber ==
    ASSUME NEW T, T \subseteq Nat, T # {}
    PROVE  \E x \in T : \A y \in T : ~(y < x)
<1>1. PICK x \in T : \A y \in T : ~(<<y, x>> \in OpToRel(<, Nat))
  BY NatLessThanWellFounded, WFMin, Zenon
<1>2. \A y \in T : y < x => <<y, x>> \in OpToRel(<, Nat)
  BY DEF OpToRel
<1> QED
  BY <1>1, <1>2

\* Induction over the natural numbers, for a set of them.
LEMMA Induction ==
    ASSUME NEW S, 0 \in S, \A n \in Nat : n \in S => n + 1 \in S
    PROVE  \A n \in Nat : n \in S
<1> SUFFICES ASSUME Nat \ S # {} PROVE FALSE
  OBVIOUS
<1>1. PICK x \in Nat \ S : \A y \in Nat \ S : ~(y < x)
  BY LeastNumber
<1>2. x # 0 /\ x - 1 \in Nat /\ x - 1 < x
  BY <1>1
<1>3. x - 1 \in S
  BY <1>1, <1>2
<1> QED
  BY <1>2, <1>3

\* A sequence of integers in which each is made from the one before.
LEMMA Recursion ==
    ASSUME NEW c \in Int, NEW h \in [Nat \X Int -> Int]
    PROVE  \E g \in [Nat -> Int] : g[0] = c /\ \A n \in Nat : g[n + 1] = h[<<n + 1, g[n]>>]
<1> DEFINE Good(g, n) == /\ g \in [0 .. n -> Int] /\ g[0] = c
                         /\ \A k \in Nat : k < n => g[k + 1] = h[<<k + 1, g[k]>>]
<1>1. \A n \in Nat : \E g : Good(g, n)
  <2> DEFINE S == {n \in Nat : \E g : Good(g, n)}
  <2>1. 0 \in S
    <3>1. Good([k \in 0 .. 0 |-> c], 0)
      OBVIOUS
    <3> QED
      BY <3>1
  <2>2. ASSUME NEW n \in Nat, n \in S PROVE n + 1 \in S
    <3>1. PICK g : Good(g, n)
      BY <2>2
    <3> DEFINE f == [k \in 0 .. n + 1 |-> IF k <= n THEN g[k] ELSE h[<<n + 1, g[n]>>]]
    <3>2. h[<<n + 1, g[n]>>] \in Int
      BY <3>1
    <3>3. f \in [0 .. n + 1 -> Int]
      BY <3>1, <3>2
    <3>4. f[0] = c
      BY <3>1
    <3>5. ASSUME NEW k \in Nat, k < n + 1 PROVE f[k + 1] = h[<<k + 1, f[k]>>]
      <4>1. CASE k < n
        <5>1. f[k + 1] = g[k + 1] /\ f[k] = g[k]
          BY <4>1
        <5> QED
          BY <3>1, <4>1, <5>1
      <4>2. CASE k = n
        <5>1. f[k + 1] = h[<<n + 1, g[n]>>] /\ f[k] = g[n]
          BY <4>2
        <5> QED
          BY <4>2, <5>1
      <4> QED
        BY <3>5, <4>1, <4>2
    <3> HIDE DEF f
    <3>6. Good(f, n + 1)
      BY <3>3, <3>4, <3>5
    <3> HIDE DEF Good
    <3> QED
      BY <3>6
  <2> HIDE DEF S
  <2>3. \A n \in Nat : n \in S
    BY <2>1, <2>2, Induction
  <2> QED
    BY <2>3 DEF S
<1>2. ASSUME NEW m \in Nat, NEW n \in Nat, m <= n, NEW f, NEW g, Good(f, m), Good(g, n)
      PROVE  f[m] = g[m]
  <2> DEFINE S == {k \in Nat : k <= m => f[k] = g[k]}
  <2>1. 0 \in S
    BY <1>2
  <2>2. ASSUME NEW k \in Nat, k \in S PROVE k + 1 \in S
    <3> SUFFICES ASSUME k + 1 <= m PROVE f[k + 1] = g[k + 1]
      OBVIOUS
    <3>1. k < m /\ k < n /\ f[k] = g[k]
      BY <1>2, <2>2
    <3>2. f[k + 1] = h[<<k + 1, f[k]>>] /\ g[k + 1] = h[<<k + 1, g[k]>>]
      BY <1>2, <3>1
    <3> QED
      BY <3>1, <3>2
  <2> HIDE DEF S
  <2>3. \A k \in Nat : k \in S
    BY <2>1, <2>2, Induction
  <2> QED
    BY <2>3 DEF S
<1> DEFINE pick == [n \in Nat |-> CHOOSE g : Good(g, n)]
           G    == [n \in Nat |-> pick[n][n]]
<1>3. \A n \in Nat : Good(pick[n], n)
  BY <1>1
<1> HIDE DEF pick
<1>4. G \in [Nat -> Int]
  BY <1>3
<1>5. G[0] = c
  BY <1>3
<1>6. ASSUME NEW n \in Nat PROVE G[n + 1] = h[<<n + 1, G[n]>>]
  <2>1. Good(pick[n], n) /\ Good(pick[n + 1], n + 1)
    BY <1>3
  <2> HIDE DEF Good
  <2>2. pick[n][n] = pick[n + 1][n]
    BY <2>1, <1>2
  <2>3. pick[n + 1][n + 1] = h[<<n + 1, pick[n + 1][n]>>]
    BY <2>1 DEF Good
  <2> QED
    BY <2>2, <2>3
<1> QED
  BY <1>4, <1>5, <1>6

----------------------------------------------------------------------------
(* What the payments have grown to *)

\* The powers of b.
LEMMA PowerFacts ==
    ASSUME NEW b \in Int
    PROVE  /\ Power(b) \in [Nat -> Int] /\ Power(b)[0] = 1
           /\ \A n \in Nat : Power(b)[n + 1] = b * Power(b)[n]
<1> DEFINE h == [x \in Nat \X Int |-> b * x[2]]
           Eq(p) == p = [n \in Nat |-> IF n = 0 THEN 1 ELSE b * p[n - 1]]
<1>1. h \in [Nat \X Int -> Int] /\ \A n \in Nat, v \in Int : h[<<n, v>>] = b * v
  OBVIOUS
<1> HIDE DEF h
<1>c. 1 \in Int
  OBVIOUS
<1>2. PICK g \in [Nat -> Int] : g[0] = 1 /\ \A n \in Nat : g[n + 1] = h[<<n + 1, g[n]>>]
  BY <1>1, <1>c, Recursion, Zenon
<1>3. \A n \in Nat : g[n] = IF n = 0 THEN 1 ELSE b * g[n - 1]
  <2>1. ASSUME NEW n \in Nat, n # 0 PROVE g[n] = b * g[n - 1]
    <3>1. n - 1 \in Nat /\ (n - 1) + 1 = n
      BY <2>1
    <3>2. g[(n - 1) + 1] = h[<<(n - 1) + 1, g[n - 1]>>] /\ g[n - 1] \in Int
      BY <1>2, <3>1
    <3> QED
      BY <1>1, <3>1, <3>2
  <2> QED
    BY <1>2, <2>1
<1>4. Eq(g)
  BY <1>2, <1>3
<1>5. Eq(Power(b))
  <2>1. Power(b) = CHOOSE p : Eq(p)
    BY DEF Power
  <2> HIDE DEF Eq
  <2> QED
    BY <1>4, <2>1
<1> DEFINE P == Power(b)
<1>6. \A n \in Nat : P[n] = IF n = 0 THEN 1 ELSE b * P[n - 1]
  BY <1>5
<1>7. P = [n \in Nat |-> P[n]]
  BY <1>5
<1> HIDE DEF P
<1>8. \A n \in Nat : P[n + 1] = b * P[n]
  <2> TAKE n \in Nat
  <2>1. n + 1 \in Nat /\ n + 1 # 0 /\ (n + 1) - 1 = n
    OBVIOUS
  <2> QED
    BY <1>6, <2>1
<1>9. \A n \in Nat : P[n] \in Int
  <2> DEFINE S == {n \in Nat : P[n] \in Int}
  <2>1. 0 \in S
    BY <1>6
  <2>2. ASSUME NEW n \in Nat, n \in S PROVE n + 1 \in S
    BY <1>8, <2>2
  <2> HIDE DEF S
  <2>3. \A n \in Nat : n \in S
    BY <2>1, <2>2, Induction
  <2> QED
    BY <2>3 DEF S
<1>10. P \in [Nat -> Int] /\ P[0] = 1
  BY <1>6, <1>7, <1>9
<1> QED
  BY <1>8, <1>10 DEF P

\* The partial sums of Total.
Partial(n) == CHOOSE s : s = [k \in 0 .. n |-> IF k = 0 THEN 0 ELSE s[k - 1] + Term(n, k)]

\* The factors of a term.
LEMMA TermFacts ==
    ASSUME NEW n \in Nat, NEW k \in Nat, k <= n,
           monthly_investment \in Int, annual_interest_rate \in Int
    PROVE  /\ Term(n, k) \in Int
           /\ Term(n + 1, k + 1) = Growth * Term(n, k)
<1>1. Scale \in Int /\ Growth \in Int
  BY NumberAssumption DEF NumberAssumption, Growth
<1> DEFINE p == Power(Growth)[k]
           q == Power(Scale)[n - k]
           m == monthly_investment
<1>2. p \in Int /\ Power(Growth)[k + 1] = Growth * p
  BY <1>1, PowerFacts
<1>3. n - k \in Nat /\ (n + 1) - (k + 1) = n - k
  OBVIOUS
<1>4. q \in Int
  BY <1>1, <1>3, PowerFacts
<1>5. Term(n, k) = m * p * q
  BY DEF Term
<1>6. Term(n + 1, k + 1) = m * (Growth * p) * q
  BY <1>2, <1>3 DEF Term
<1>7. m \in Int
  OBVIOUS
<1> HIDE DEF p, q, m
<1>8. \A a, b, c, d \in Int : a * (d * b) * c = d * (a * b * c) /\ a * b * c \in Int
  OBVIOUS
<1> QED
  BY <1>1, <1>2, <1>4, <1>5, <1>6, <1>7, <1>8

\* Total adds up the terms.
LEMMA PartialFacts ==
    ASSUME NEW n \in Nat, monthly_investment \in Int, annual_interest_rate \in Int
    PROVE  /\ Total(n) = Partial(n)[n] /\ Partial(n)[0] = 0
           /\ \A k \in Nat : k <= n => Partial(n)[k] \in Int
           /\ \A k \in Nat : k < n => Partial(n)[k + 1] = Partial(n)[k] + Term(n, k + 1)
<1> DEFINE T(k) == Term(n, k)
           h == [x \in Nat \X Int |-> IF x[1] <= n THEN x[2] + T(x[1]) ELSE 0]
           Eq(s) == s = [k \in 0 .. n |-> IF k = 0 THEN 0 ELSE s[k - 1] + T(k)]
<1>0. \A k \in Nat : k <= n => T(k) \in Int
  BY TermFacts
<1> HIDE DEF T
<1>1. /\ h \in [Nat \X Int -> Int]
      /\ \A k \in Nat, v \in Int : k <= n => h[<<k, v>>] = v + T(k)
  BY <1>0
<1> HIDE DEF h
<1>c. 0 \in Int
  OBVIOUS
<1>2. PICK g \in [Nat -> Int] : g[0] = 0 /\ \A k \in Nat : g[k + 1] = h[<<k + 1, g[k]>>]
  BY <1>1, <1>c, Recursion, Zenon
<1> DEFINE s0 == [k \in 0 .. n |-> g[k]]
<1>3. \A k \in 0 .. n : s0[k] = IF k = 0 THEN 0 ELSE s0[k - 1] + T(k)
  <2>1. ASSUME NEW k \in 0 .. n, k # 0 PROVE g[k] = g[k - 1] + T(k)
    <3>1. k - 1 \in Nat /\ (k - 1) + 1 = k /\ k \in Nat /\ k <= n
      BY <2>1
    <3>2. g[(k - 1) + 1] = h[<<(k - 1) + 1, g[k - 1]>>] /\ g[k - 1] \in Int
      BY <1>2, <3>1
    <3> QED
      BY <1>1, <3>1, <3>2
  <2>2. \A k \in 0 .. n : k # 0 => k - 1 \in 0 .. n
    OBVIOUS
  <2> QED
    BY <1>2, <2>1, <2>2
<1>4. Eq(s0)
  BY <1>3
<1>5. Partial(n) = CHOOSE s : Eq(s)
  BY DEF Partial, T
<1>6. Total(n) = Partial(n)[n]
  BY DEF Total, Partial
<1>7. Eq(Partial(n))
  <2> HIDE DEF Eq, s0
  <2> QED
    BY <1>4, <1>5
<1> DEFINE P == Partial(n)
<1>8. \A k \in 0 .. n : P[k] = IF k = 0 THEN 0 ELSE P[k - 1] + T(k)
  BY <1>7
<1> HIDE DEF P
<1>9. \A k \in Nat : k < n => P[k + 1] = P[k] + T(k + 1)
  <2> SUFFICES ASSUME NEW k \in Nat, k < n PROVE P[k + 1] = P[k] + T(k + 1)
    OBVIOUS
  <2>1. k + 1 \in 0 .. n /\ k + 1 # 0 /\ (k + 1) - 1 = k
    OBVIOUS
  <2> QED
    BY <1>8, <2>1
<1>10. \A k \in Nat : k <= n => P[k] \in Int
  <2> DEFINE S == {k \in Nat : k <= n => P[k] \in Int}
  <2>1. 0 \in S
    BY <1>8
  <2>2. ASSUME NEW k \in Nat, k \in S PROVE k + 1 \in S
    BY <1>0, <1>9, <2>2
  <2> HIDE DEF S
  <2>3. \A k \in Nat : k \in S
    BY <2>1, <2>2, Induction
  <2> QED
    BY <2>3 DEF S
<1>11. P[0] = 0
  BY <1>8
<1> QED
  BY <1>6, <1>9, <1>10, <1>11 DEF P, T

\* What the payments of n months have grown to, a month and a payment later.
LEMMA TotalGrows ==
    ASSUME NEW n \in Nat, monthly_investment \in Int, annual_interest_rate \in Int
    PROVE  /\ Total(0) = 0 /\ Total(n) \in Int
           /\ Total(n + 1) = (Total(n) + monthly_investment * Power(Scale)[n]) * Growth
<1> DEFINE P(k) == Partial(n)[k]
           Q(k) == Partial(n + 1)[k]
           c == monthly_investment * Power(Scale)[n]
<1>1. Scale \in Int /\ Growth \in Int
  BY NumberAssumption DEF NumberAssumption, Growth
<1>2. c \in Int /\ Term(n, 0) = c
  <2> DEFINE q == Power(Scale)[n]
             m == monthly_investment
  <2>1. q \in Int /\ m \in Int
    BY <1>1, PowerFacts
  <2>2. Power(Growth)[0] = 1 /\ n - 0 = n
    BY <1>1, PowerFacts
  <2>3. Term(n, 0) = m * 1 * q /\ c = m * q
    BY <2>2 DEF Term
  <2> HIDE DEF q, m, c
  <2>4. \A a, b \in Int : a * 1 * b = a * b /\ a * b \in Int
    OBVIOUS
  <2> QED
    BY <2>1, <2>3, <2>4
<1>3. /\ Total(n) = P(n) /\ P(0) = 0
      /\ \A k \in Nat : k <= n => P(k) \in Int
      /\ \A k \in Nat : k < n => P(k + 1) = P(k) + Term(n, k + 1)
  BY PartialFacts
<1>4. /\ Total(n + 1) = Q(n + 1) /\ Q(0) = 0
      /\ \A k \in Nat : k <= n + 1 => Q(k) \in Int
      /\ \A k \in Nat : k < n + 1 => Q(k + 1) = Q(k) + Term(n + 1, k + 1)
  BY PartialFacts
<1>5. \A k \in Nat : k <= n => Term(n, k) \in Int /\ Term(n + 1, k + 1) = Growth * Term(n, k)
  BY TermFacts
<1> HIDE DEF P, Q, c
<1> DEFINE S == {k \in Nat : k <= n => Q(k + 1) = (P(k) + c) * Growth}
<1>6. 0 \in S
  BY <1>1, <1>2, <1>3, <1>4, <1>5
<1>7. ASSUME NEW k \in Nat, k \in S PROVE k + 1 \in S
  <2> SUFFICES ASSUME k + 1 <= n PROVE Q((k + 1) + 1) = (P(k + 1) + c) * Growth
    OBVIOUS
  <2>1. Q(k + 1) = (P(k) + c) * Growth
    BY <1>7
  <2>2. Q((k + 1) + 1) = Q(k + 1) + Growth * Term(n, k + 1)
    BY <1>4, <1>5
  <2>3. P(k + 1) = P(k) + Term(n, k + 1) /\ P(k) \in Int /\ Term(n, k + 1) \in Int
    BY <1>3, <1>5
  <2>4. \A a, b, d, e \in Int : (a + b) * d + d * e = ((a + e) + b) * d
    OBVIOUS
  <2> QED
    BY <1>1, <1>2, <2>1, <2>2, <2>3, <2>4
<1> HIDE DEF S
<1>8. n \in S
  BY <1>6, <1>7, Induction
<1>9. Total(n + 1) = (Total(n) + c) * Growth
  BY <1>3, <1>4, <1>8 DEF S
<1>10. Total(0) = 0
  <2>1. 0 \in Nat
    OBVIOUS
  <2>2. Total(0) = Partial(0)[0] /\ Partial(0)[0] = 0
    BY <2>1, PartialFacts
  <2> QED
    BY <2>2
<1> QED
  BY <1>3, <1>9, <1>10 DEF c

----------------------------------------------------------------------------
(* The table *)

\* The sums after n months, for a number n that no step changes.
SumsAt(n) ==
    /\ i = n /\ future_value = Total(n) /\ unit = Power(Scale)[n]
    /\ \A r \in Rows : results[r] = IF MONTHS * (r + 1) <= n THEN RowAfter(MONTHS * (r + 1))
                                    ELSE Blank

SumsAtSome == \E n \in Nat : SumsAt(n)

\* SumsKept names the same number by the variable i.
LEMMA SumsAtI == i \in Nat => (SumsKept <=> SumsAtSome)
BY DEF SumsKept, SumsAt, SumsAtSome

\* Before the first month: nothing was paid and no row is written.
LEMMA SumsAtStart ==
    TypeOK /\ i = 0 /\ future_value = 0 /\ unit = 1 /\ results = [r \in Rows |-> Blank]
        => SumsKept
<1> SUFFICES ASSUME TypeOK, i = 0, future_value = 0, unit = 1,
                    results = [r \in Rows |-> Blank]
             PROVE  SumsKept
  OBVIOUS
<1>1. Total(0) = 0
  BY TotalGrows DEF TypeOK
<1>2. Power(Scale)[0] = 1
  BY PowerFacts, NumberAssumption DEF NumberAssumption
<1>3. \A r \in Rows : MONTHS * (r + 1) \in Nat /\ MONTHS * (r + 1) > 0
  BY TableAssumption DEF TableAssumption, Rows
<1>4. ASSUME NEW r \in Rows
      PROVE  results[r] = IF MONTHS * (r + 1) <= i THEN RowAfter(MONTHS * (r + 1)) ELSE Blank
  <2>1. ~(MONTHS * (r + 1) <= i)
    BY <1>3
  <2> QED
    BY <2>1
<1> QED
  BY <1>1, <1>2, <1>4 DEF SumsKept

\* The payment and the rate alone decide what a month's total is.
LEMMA TotalStays ==
    ASSUME UNCHANGED <<monthly_investment, annual_interest_rate>>, NEW n \in Nat
    PROVE  Total(n)' = Total(n) /\ RowAfter(n)' = RowAfter(n)
<1>1. Total(n)' = Total(n)
  BY DEF Total, Term, Growth, Power
<1> QED
  BY <1>1 DEF RowAfter, Power

\* The rows at the end of the years.
LEMMA YearEnds ==
    ASSUME TableInv
    PROVE  \A r \in Rows : MONTHS * (r + 1) \in Nat /\ MONTHS * (r + 1) > 0
BY TableAssumption DEF TableAssumption, Rows

\* parse_input comes before the first month.
LEMMA ParseSums ==
    ASSUME TableInv, TableInv', SumsKept, parse_input
    PROVE  SumsKept'
<1>1. pc \in {"argc", "investment", "rate", "years"} /\ UNCHANGED table
  BY DEF parse_input, CountArguments, ParseInvestment, ParseRate, ParseYears
<1>2. i = 0 /\ future_value = 0 /\ unit = 1
  BY <1>1 DEF TableInv, LoopKept
<1>3. \A r \in Rows : results[r] = Blank
  <2> TAKE r \in Rows
  <2>1. ~(MONTHS * (r + 1) <= i)
    BY YearEnds, <1>2
  <2> QED
    BY <2>1 DEF SumsKept
<1>4. results = [r \in Rows |-> Blank]
  BY <1>3 DEF TableInv, TypeOK
<1>5. (TypeOK /\ i = 0 /\ future_value = 0 /\ unit = 1 /\ results = [r \in Rows |-> Blank])'
  BY <1>1, <1>2, <1>4 DEF table, TableInv
<1>6. (TypeOK /\ i = 0 /\ future_value = 0 /\ unit = 1 /\ results = [r \in Rows |-> Blank]
        => SumsKept)'
  BY SumsAtStart, PTL
<1> QED
  BY <1>5, <1>6

\* One turn of the loop adds a month to the sums and, at its end, a year to the rows.
LEMMA MonthSums ==
    ASSUME TableInv, TableInv', SumsKept, Month
    PROVE  SumsKept'
<1>t. TypeOK /\ StaysInTable /\ InputChecked /\ LoopKept /\ pc = "calculate"
  BY DEF TableInv, Month
<1>a. /\ Scale \in Nat /\ Scale > 0 /\ MONTHS \in Nat /\ MONTHS > 0
      /\ MAX_YEARS \in Nat
  BY <1>t, ArgumentTypes
<1>b. /\ monthly_investment \in Int /\ annual_interest_rate \in Int
      /\ years \in Nat /\ years <= MAX_YEARS /\ i \in Nat /\ i < years * MONTHS
      /\ unit \in Nat /\ future_value \in Nat
  BY <1>t, <1>a, Ranges DEF TypeOK, InputChecked, Month
<1>n. PICK n \in Nat : SumsAt(n)
  BY <1>b, SumsAtI DEF SumsAtSome
<1> DEFINE value == AddMonth(future_value, monthly_investment)
           year  == (i + 1) \div MONTHS
           m == n + 1
<1>5. /\ future_value' = value /\ i' = i + 1 /\ unit' = unit * Scale
      /\ UNCHANGED <<pc, input>>
      /\ IF (i + 1) % MONTHS = 0
         THEN IF year - 1 \in Rows
              THEN /\ results' = [results EXCEPT ![year - 1] = <<value - Paid(year), value>>]
                   /\ UNCHANGED outside
              ELSE outside' = TRUE /\ UNCHANGED results
         ELSE UNCHANGED <<results, outside>>
  BY DEF Month
<1>6. /\ i = n /\ future_value = Total(n) /\ unit = Power(Scale)[n] /\ i' = m /\ m \in Nat
      /\ \A r \in Rows : results[r] = IF MONTHS * (r + 1) <= n
                                      THEN RowAfter(MONTHS * (r + 1)) ELSE Blank
  BY <1>n, <1>5 DEF SumsAt
<1>7. UNCHANGED <<monthly_investment, annual_interest_rate>>
  BY <1>5 DEF input
<1>8. value = Total(m)
  <2>1. value = (Total(n) + monthly_investment * Power(Scale)[n]) * Growth
    BY <1>6 DEF AddMonth, Growth
  <2> QED
    BY <2>1, <1>b, TotalGrows
<1>9. unit * Scale = Power(Scale)[m]
  <2>1. Scale \in Int
    BY <1>a
  <2>2. Power(Scale)[n + 1] = Scale * Power(Scale)[n]
    BY <2>1, PowerFacts
  <2>3. \A a, b \in Int : a * b = b * a
    OBVIOUS
  <2> QED
    BY <2>1, <2>2, <2>3, <1>6, <1>b
<1> HIDE DEF value
<1>10. ASSUME (i + 1) % MONTHS = 0
       PROVE  /\ year - 1 \in Rows /\ MONTHS * year = m
              /\ <<value - Paid(year), value>> = RowAfter(m)
  <2>1. i + 1 \in Nat /\ i + 1 > 0 /\ i + 1 <= years * MONTHS
    BY <1>a, <1>b
  <2>2. year \in 1 .. years /\ MONTHS * year = i + 1
    BY <2>1, <1>10, <1>a, <1>b, YearOfMonth
  <2>3. year - 1 \in Rows
    BY <2>2, <1>a, <1>b DEF Rows
  <2> HIDE DEF year
  <2>4. Paid(year) = monthly_investment * m * Power(Scale)[m]
    BY <2>2, <1>6, <1>9 DEF Paid
  <2> QED
    BY <2>2, <2>3, <2>4, <1>6, <1>8 DEF RowAfter
<1>11. ASSUME NEW r \in Rows
       PROVE  results'[r] = IF MONTHS * (r + 1) <= m THEN RowAfter(MONTHS * (r + 1)) ELSE Blank
  <2> DEFINE e == MONTHS * (r + 1)
  <2>e. e \in Nat /\ r \in Int
    BY YearEnds DEF Rows
  <2>r. results \in [Rows -> Nat \X Nat]
    BY <1>t DEF TypeOK
  <2>1. CASE (i + 1) % MONTHS = 0 /\ r = year - 1
    <3>1. year \in Int
      BY <1>a, <1>b
    <3> HIDE DEF year
    <3>2. r + 1 = year
      BY <2>1, <3>1
    <3>3. e = m
      BY <2>1, <3>2, <1>10
    <3>4. results'[r] = RowAfter(m)
      BY <2>1, <1>5, <1>10, <2>r
    <3> QED
      BY <3>3, <3>4, <1>6
  <2>2. CASE ~((i + 1) % MONTHS = 0 /\ r = year - 1)
    <3>1. results'[r] = results[r]
      BY <2>2, <1>5, <1>10, <2>r
    <3>2. e # m
      <4>1. SUFFICES ASSUME e = m PROVE FALSE
        OBVIOUS
      <4>2. MONTHS * (r + 1) = i + 1 /\ r + 1 \in Nat
        BY <4>1, <1>6 DEF Rows
      <4>3. \A q \in Nat : (MONTHS * q) % MONTHS = 0 /\ (MONTHS * q) \div MONTHS = q
        <5> TAKE q \in Nat
        <5>1. 0 \in 0 .. MONTHS - 1
          BY <1>a
        <5>2. (MONTHS * q + 0) % MONTHS = 0
          BY <1>a, <5>1, Remainder
        <5> DEFINE p == (MONTHS * q) \div MONTHS
                   t == (MONTHS * q) % MONTHS
        <5>3. MONTHS * q \in Nat
          BY <1>a
        <5>4. t = 0
          BY <5>2, <5>3
        <5>5. MONTHS * q = MONTHS * p + t /\ p \in Int
          BY <5>3, <1>a
        <5> HIDE DEF p, t
        <5>6. MONTHS * q = MONTHS * p
          BY <5>4, <5>5, <1>a
        <5>7. p = q
          BY <5>5, <5>6, <1>a
        <5> QED
          BY <5>4, <5>7 DEF p, t
      <4>4. (i + 1) % MONTHS = 0 /\ year = r + 1
        BY <4>2, <4>3
      <4> HIDE DEF year
      <4> QED
        BY <4>4, <2>2, <2>e
    <3>3. e <= m <=> e <= n
      BY <3>2, <2>e
    <3> QED
      BY <3>1, <3>3, <1>6
  <2> QED
    BY <2>1, <2>2
<1>12. SumsAt(m)'
  <2>1. Total(m)' = Total(m) /\ Power(Scale)[m]' = Power(Scale)[m]
    BY <1>7, <1>6, TotalStays DEF Power
  <2>2. ASSUME NEW r \in Rows PROVE RowAfter(MONTHS * (r + 1))' = RowAfter(MONTHS * (r + 1))
    BY <1>7, YearEnds, TotalStays
  <2> QED
    BY <1>5, <1>6, <1>8, <1>9, <1>11, <2>1, <2>2 DEF SumsAt
<1>13. (i \in Nat => (SumsKept <=> SumsAtSome))'
  BY SumsAtI, PTL
<1> QED
  BY <1>6, <1>12, <1>13 DEF SumsAtSome

\* display_results and the end change none of it.
LEMMA RestSums ==
    ASSUME TableInv, TableInv', SumsKept,
           UNCHANGED <<monthly_investment, annual_interest_rate, i, future_value, results, unit>>
    PROVE  SumsKept'
<1>0. i \in Nat
  BY Ranges DEF TableInv, TypeOK
<1>1. PICK n \in Nat : SumsAt(n)
  BY <1>0, SumsAtI DEF SumsAtSome
<1>2. SumsAt(n)'
  <2>1. Total(n)' = Total(n) /\ Power(Scale)[n]' = Power(Scale)[n]
    BY TotalStays DEF Power
  <2>2. ASSUME NEW r \in Rows PROVE RowAfter(MONTHS * (r + 1))' = RowAfter(MONTHS * (r + 1))
    BY YearEnds, TotalStays
  <2> QED
    BY <1>1, <2>1, <2>2 DEF SumsAt
<1>3. (i \in Nat => (SumsKept <=> SumsAtSome))'
  BY SumsAtI, PTL
<1> QED
  BY <1>0, <1>2, <1>3 DEF SumsAtSome

\* When the loop has ended, the rows of the years are the ones it has written.
LEMMA ShownSums ==
    TableInv /\ SumsKept /\ (pc = "shown" => i = years * MONTHS) => TableShown
<1> SUFFICES ASSUME TableInv, SumsKept, pc = "shown", i = years * MONTHS, NEW r \in Rows
             PROVE  results[r] = IF r < years THEN RowAfter(MONTHS * (r + 1)) ELSE Blank
  BY DEF TableShown
<1>1. r \in Int /\ years \in Int /\ MONTHS \in Nat /\ MONTHS > 0
  BY ArgumentTypes, TableAssumption DEF TableAssumption, TableInv, InputChecked, Rows
<1>2. MONTHS * (r + 1) <= years * MONTHS <=> r < years
  <2>1. CASE r < years
    <3>1. r + 1 <= years
      BY <1>1, <2>1
    <3>2. MONTHS * (r + 1) <= MONTHS * years
      BY <1>1, <3>1
    <3> QED
      BY <1>1, <2>1, <3>2
  <2>2. CASE ~(r < years)
    <3>1. r + 1 >= years + 1
      BY <1>1, <2>2
    <3>2. MONTHS * (r + 1) >= MONTHS * (years + 1)
      BY <1>1, <3>1
    <3>3. MONTHS * (years + 1) = years * MONTHS + MONTHS
      BY <1>1
    <3> DEFINE x == MONTHS * (r + 1)
               y == years * MONTHS
    <3>4. x \in Int /\ y \in Int /\ x >= y + MONTHS
      BY <1>1, <3>2, <3>3
    <3> HIDE DEF x, y
    <3>5. ~(x <= y)
      BY <1>1, <3>4
    <3> QED
      BY <2>2, <3>5 DEF x, y
  <2> QED
    BY <2>1, <2>2
<1> QED
  BY <1>2 DEF SumsKept

\* The recurrence of calculate_future_value computes the sum of what each payment
\* has grown to, in every month and in every row that display_results shows.
THEOREM TableIsRight == Spec => []TableRight
<1> DEFINE Done == pc = "shown" => i = years * MONTHS
<1>1. Init => SumsKept /\ Done
  <2> SUFFICES ASSUME Init PROVE SumsKept /\ Done
    OBVIOUS
  <2>1. TypeOK
    BY InitTable DEF TableInv
  <2> QED
    BY <2>1, SumsAtStart DEF Init
<1>2. TableInv /\ TableInv' /\ SumsKept /\ Done /\ [Next]_vars => SumsKept' /\ Done'
  <2> SUFFICES ASSUME TableInv, TableInv', SumsKept, Done, [Next]_vars
               PROVE  SumsKept' /\ Done'
    OBVIOUS
  <2>1. CASE parse_input
    <3>1. pc' # "shown"
      BY <2>1 DEF parse_input, CountArguments, ParseInvestment, ParseRate, ParseYears
    <3> QED
      BY <2>1, <3>1, ParseSums
  <2>2. CASE Month
    <3>1. pc' # "shown"
      BY <2>2 DEF Month
    <3> QED
      BY <2>2, <3>1, MonthSums
  <2>3. CASE display_results
    <3>1. /\ UNCHANGED <<monthly_investment, annual_interest_rate, i, future_value, results,
                         unit>>
          /\ years' = years /\ i = years * MONTHS
      BY <2>3 DEF display_results, input
    <3> QED
      BY <3>1, RestSums
  <2>4. CASE UNCHANGED vars
    <3>1. /\ UNCHANGED <<monthly_investment, annual_interest_rate, i, future_value, results,
                         unit>>
          /\ years' = years /\ pc' = pc
      BY <2>4 DEF vars
    <3> QED
      BY <3>1, RestSums
  <2> QED
    BY <2>1, <2>2, <2>3, <2>4 DEF Next, Ended
<1>3. TableInv /\ SumsKept /\ Done => TableRight
  BY ShownSums DEF TableRight
<1> QED
  BY <1>1, <1>2, <1>3, TableInvariant, PTL DEF Spec
=============================================================================
