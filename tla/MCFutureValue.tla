--------------------------- MODULE MCFutureValue ---------------------------
(* The table of future_value.c for TLC: numbers inside, at and beyond every *)
(* bound, and numbers of years beyond a short int and a short long.         *)
EXTENDS FutureValue

MCInvestments == 0 .. 4
MCRates == -1 .. 4
MCYears == (-130 .. -110) \cup (-2 .. 20) \cup (120 .. 150) \cup (255 .. 260)
=============================================================================
