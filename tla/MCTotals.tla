------------------------------- MODULE MCTotals -------------------------------
\* Totals with a column whose name is additive and one whose name is not.
EXTENDS Totals

CONSTANTS sales, name
=============================================================================
