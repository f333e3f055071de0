------------------------------- MODULE MCAccess -------------------------------
\* Access with model values; browsers are interchangeable, and so are requests.
EXTENDS Access, TLC

Symmetry == Permutations(Browser) \cup Permutations(Request)
=============================================================================
