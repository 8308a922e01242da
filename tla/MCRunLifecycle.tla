--------------------------- MODULE MCRunLifecycle ---------------------------
EXTENDS RunLifecycle, TLC

\* Both reachable rungs of the ladder are one unit of time.
MCRetryDelays == <<1, 1>>

Symmetry == Permutations(Slots)
=============================================================================
