----------------------------- MODULE MCLibrary -----------------------------
\* A series of two chapters for TLC.
EXTENDS Library

CONSTANTS c1, c2

MCSeriesOf == [c \in Chapter |-> CHOOSE s \in Series : TRUE]
MCTitle    == [s \in Series |-> s]
MCNumber   == [c \in Chapter |-> c]
MCOneKey   == {<<c1, "own">>}
=============================================================================
