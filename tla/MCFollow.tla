------------------------------ MODULE MCFollow ------------------------------
\* One followed series of up to two chapters for TLC.
EXTENDS Follow

MCSeriesOf == [c \in Chapter |-> CHOOSE s \in Series : TRUE]
=============================================================================
