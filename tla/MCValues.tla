------------------------------ MODULE MCValues ------------------------------
EXTENDS Values

\* Up to four digits, half of them past what a Decimal of this size holds, at
\* scales up to two past it.
MCNumerics == [value : -1200..1200, scale : 0..4]

\* Every millisecond of a day of two seconds and of a leap second after it.
MCTimes == 0..2999
=============================================================================
