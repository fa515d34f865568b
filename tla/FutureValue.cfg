SPECIFICATION Spec
CONSTANTS
  INT_MAX = 7
  LONG_MAX = 127
  MAX_YEARS = 3
  MONTHS = 2
  MAX_INVESTMENT = 3
  MAX_INTEREST_RATE = 3
  Scale = 5
  Investments <- MCInvestments
  Rates <- MCRates
  Years <- MCYears
INVARIANTS TableInv YearsAsTyped TableRight
