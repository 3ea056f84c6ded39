----------------------------- MODULE MCTemplates ------------------------------
\* Templates with two dates and two texts.
EXTENDS Templates

CONSTANTS d1, d2, s1, s2

\* Every query of up to three literals.
AnyWritten == UNION {[1..n -> Literal] : n \in 0..3}
=============================================================================
