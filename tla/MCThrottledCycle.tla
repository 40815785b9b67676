--------------------------- MODULE MCThrottledCycle ---------------------------
\* Instances of ThrottledCycle for TLC.  Goroutines and callers are alike, and
\* no safety property names one.
EXTENDS ThrottledCycle, TLC

Symmetry == Permutations(Workers) \union Permutations(Clients)
=============================================================================
