---------------------------- MODULE FutureValue ----------------------------
(***************************************************************************)
(* src/M2/future_value.c: three numbers from the command line, a table of  *)
(* the value of a monthly investment at the end of each year.              *)
(*                                                                         *)
(* An argument is what the program tells apart: what strtod or strtol make *)
(* of it, and its form.  The ranges of int and long are parameters, since  *)
(* the number of years is read as a long and kept as an int.  The doubles  *)
(* of the table are exact fractions: a value after i months is kept as a   *)
(* numerator, whose denominator is unit.  Rounding is not modelled.        *)
(***************************************************************************)
EXTENDS Integers

CONSTANTS INT_MAX, LONG_MAX,    \* the ends of int and long, 2^31 - 1 and 2^63 - 1
          MAX_YEARS,            \* the rows of results, 50
          MONTHS,               \* the months of a year, 12
          MAX_INVESTMENT,       \* 1000
          MAX_INTEREST_RATE,    \* 15.0, as a part of Scale
          Scale,                \* monthly_interest_rate is a multiple of 1/Scale
          Investments, Rates, Years \* the numbers a user may type

MIN_YEARS == 1
MIN_INVESTMENT == 1
MIN_INTEREST_RATE == 1

\* In two's complement a type has as many values below 0 as from 0 on, and the
\* wider one repeats the narrower one a whole number of times.
INT_SPAN == 2 * (INT_MAX + 1)

ASSUME WidthAssumption ==
    /\ INT_MAX \in Nat /\ LONG_MAX \in Nat /\ INT_MAX < LONG_MAX
    /\ (LONG_MAX + 1) % INT_SPAN = 0
ASSUME TableAssumption ==
    MAX_YEARS \in Nat \ {0} /\ MONTHS \in Nat \ {0} /\ MAX_YEARS * MONTHS <= INT_MAX
ASSUME NumberAssumption ==
    /\ Investments \subseteq Int /\ Rates \subseteq Int /\ Years \subseteq Int
    /\ MAX_INVESTMENT \in Nat /\ MAX_INTEREST_RATE \in Nat /\ Scale \in Nat \ {0}

\* "number": the conversion ends at the end of the text; "partial": digits, dots
\* and signs of which it takes a part (1.5 years, 3-4); "other": anything else.
Forms == {"number", "partial", "other"}
Arguments(S) == [form : Forms, value : S]

VARIABLES pc, argv, monthly_investment, annual_interest_rate, years,
          i, future_value, results,
          unit,   \* the denominator of future_value: Scale^i
          outside \* history: results was read or written outside its rows
vars == <<pc, argv, monthly_investment, annual_interest_rate, years, i, future_value,
          results, unit, outside>>
input == <<argv, monthly_investment, annual_interest_rate, years>>
table == <<i, future_value, results, unit, outside>>

Rows == 0 .. MAX_YEARS - 1
Blank == <<0, 0>>

Init ==
    /\ pc = "argc"
    /\ argv \in [investment : Arguments(Investments), rate : Arguments(Rates),
                 years : Arguments(Years)]
    /\ monthly_investment = 0 /\ annual_interest_rate = 0 /\ years = 0
    /\ i = 0 /\ future_value = 0 /\ results = [r \in Rows |-> Blank]
    /\ unit = 1 /\ outside = FALSE

----------------------------------------------------------------------------
(* parse_input *)

is_valid_number(a) == a.form # "other"

\* An argument is refused: its form, the end of the conversion or its range.
Accepts(a, v, lo, hi) == is_valid_number(a) /\ a.form = "number" /\ v >= lo /\ v <= hi

\* There are three arguments, or there are not.
CountArguments ==
    /\ pc = "argc"
    /\ pc' \in {"investment", "refused"}
    /\ UNCHANGED <<input, table>>

ParseInvestment ==
    /\ pc = "investment"
    /\ monthly_investment' = IF is_valid_number(argv.investment)
                             THEN argv.investment.value ELSE monthly_investment
    /\ pc' = IF Accepts(argv.investment, argv.investment.value,
                        MIN_INVESTMENT, MAX_INVESTMENT)
             THEN "rate" ELSE "refused"
    /\ UNCHANGED <<argv, annual_interest_rate, years, table>>

ParseRate ==
    /\ pc = "rate"
    /\ annual_interest_rate' = IF is_valid_number(argv.rate)
                               THEN argv.rate.value ELSE annual_interest_rate
    /\ pc' = IF Accepts(argv.rate, argv.rate.value, MIN_INTEREST_RATE, MAX_INTEREST_RATE)
             THEN "years" ELSE "refused"
    /\ UNCHANGED <<argv, monthly_investment, years, table>>

\* Mutant: a conversion that does not stop at the ends of long, like atoi's.
strtol_wraps(n) == n

\* strtol stops at the ends of long.
strtol(n) == IF n > LONG_MAX THEN LONG_MAX
             ELSE IF n < -LONG_MAX - 1 THEN -LONG_MAX - 1 ELSE n

\* What is left of a long in an int: its lowest bits, in two's complement.
ToInt(n) == ((n + INT_MAX + 1) % INT_SPAN) - (INT_MAX + 1)

\* Mutant: no upper bound.
YearsInRangeUnbounded(n) == Accepts(argv.years, n, MIN_YEARS, n)
YearsInRange(n) == Accepts(argv.years, n, MIN_YEARS, MAX_YEARS)

\* The long is assigned to the int before it is compared with the bounds.
ParseYears ==
    /\ pc = "years"
    /\ years' = IF is_valid_number(argv.years) THEN ToInt(strtol(argv.years.value))
                ELSE years
    /\ pc' = IF YearsInRange(ToInt(strtol(argv.years.value))) THEN "calculate"
             ELSE "refused"
    /\ UNCHANGED <<argv, monthly_investment, annual_interest_rate, table>>

parse_input == CountArguments \/ ParseInvestment \/ ParseRate \/ ParseYears

----------------------------------------------------------------------------
(* calculate_future_value *)

\* Mutant: the interest of a month is added before its payment.
AddMonthInterestFirst(v, m) == v * (Scale + annual_interest_rate) + m * unit * Scale

\* One month: the payment, then its interest and that of all before.
AddMonth(v, m) == (v + m * unit) * (Scale + annual_interest_rate)

\* What was paid by the end of a year, over the next month's denominator.
Paid(year) == monthly_investment * (MONTHS * year) * (unit * Scale)

\* One turn of the loop; at the end of a year its row is written.
Month ==
    LET value == AddMonth(future_value, monthly_investment)
        year  == (i + 1) \div MONTHS
    IN  /\ pc = "calculate" /\ i < years * MONTHS
        /\ future_value' = value
        /\ IF (i + 1) % MONTHS = 0
           THEN IF year - 1 \in Rows
                THEN /\ results' = [results EXCEPT ![year - 1] = <<value - Paid(year), value>>]
                     /\ UNCHANGED outside
                ELSE outside' = TRUE /\ UNCHANGED results
           ELSE UNCHANGED <<results, outside>>
        /\ i' = i + 1 /\ unit' = unit * Scale
        /\ UNCHANGED <<pc, input>>

\* display_results reads the rows 0 .. years - 1.
display_results ==
    /\ pc = "calculate" /\ i = years * MONTHS
    /\ pc' = "shown"
    /\ outside' = (outside \/ ~(0 .. years - 1 \subseteq Rows))
    /\ UNCHANGED <<input, i, future_value, results, unit>>

Ended == pc \in {"refused", "shown"} /\ UNCHANGED vars

Next == parse_input \/ Month \/ display_results \/ Ended
Spec == Init /\ [][Next]_vars

----------------------------------------------------------------------------
(* Properties *)

TypeOK ==
    /\ pc \in {"argc", "investment", "rate", "years", "calculate", "shown", "refused"}
    /\ argv \in [investment : Arguments(Investments), rate : Arguments(Rates),
                 years : Arguments(Years)]
    /\ monthly_investment \in Int /\ annual_interest_rate \in Int
    /\ years \in -INT_MAX - 1 .. INT_MAX
    /\ i \in 0 .. INT_MAX /\ future_value \in Nat /\ unit \in Nat \ {0}
    /\ results \in [Rows -> Nat \X Nat]
    /\ outside \in BOOLEAN

\* No accepted number of years, however it was typed and whatever the conversion
\* to int made of it, leads outside the rows of results.
StaysInTable == ~outside

\* The table is for the years that were typed, except that a number beyond int
\* (and within long) is taken for the one that its lowest bits are; a number
\* beyond long is always refused.
YearsAsTyped ==
    pc \in {"calculate", "shown"} =>
        LET n == argv.years.value
        IN  \/ years = n
            \/ /\ n \notin -INT_MAX - 1 .. INT_MAX /\ n \in -LONG_MAX - 1 .. LONG_MAX
               /\ (n - years) % INT_SPAN = 0

\* The value of a payment a month after n months, over Scale^n: the k-th payment
\* from the end has earned interest k times.
Power(b) == LET p[n \in Nat] == IF n = 0 THEN 1 ELSE b * p[n - 1] IN p
Growth == Scale + annual_interest_rate
Term(n, k) == monthly_investment * Power(Growth)[k] * Power(Scale)[n - k]
Total(n) == LET s[k \in 0 .. n] == IF k = 0 THEN 0 ELSE s[k - 1] + Term(n, k) IN s[n]

\* The row of a year: the interest, and the value of all payments up to its end.
RowAfter(n) == <<Total(n) - monthly_investment * n * Power(Scale)[n], Total(n)>>

\* The table that is shown has a row for every year, and nothing in the others.
TableShown ==
    pc = "shown" =>
        \A r \in Rows : results[r] = IF r < years THEN RowAfter(MONTHS * (r + 1)) ELSE Blank

\* On the way there: the value after i months, and the rows of the years gone by.
SumsKept ==
    /\ future_value = Total(i) /\ unit = Power(Scale)[i]
    /\ \A r \in Rows : results[r] = IF MONTHS * (r + 1) <= i THEN RowAfter(MONTHS * (r + 1))
                                    ELSE Blank

\* The recurrence of calculate_future_value computes the sum of what each payment
\* has grown to, month by month and in the table that is shown.
TableRight == TableShown /\ SumsKept

\* What parse_input has let pass is within the bounds; the loop runs up to its end,
\* and the value is never below what was paid in, so that no interest is negative.
InputChecked ==
    /\ pc \in {"rate", "years", "calculate", "shown"} => monthly_investment \in 1 .. MAX_INVESTMENT
    /\ pc \in {"years", "calculate", "shown"} => annual_interest_rate \in 1 .. MAX_INTEREST_RATE
    /\ pc \in {"calculate", "shown"} => years \in 1 .. MAX_YEARS
LoopKept ==
    IF pc \in {"calculate", "shown"}
    THEN i <= years * MONTHS /\ future_value >= monthly_investment * i * unit
    ELSE i = 0 /\ future_value = 0 /\ unit = 1

\* The rows that are written and read, for all arguments that are accepted.
TableInv == TypeOK /\ StaysInTable /\ InputChecked /\ LoopKept
=============================================================================
