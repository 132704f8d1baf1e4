---------------------------- MODULE MCRunLifecycle ----------------------------
\* RunLifecycle for TLC: calls are interchangeable model values.  Symmetry is used
\* in the runs that check safety only.
EXTENDS RunLifecycle, TLC

CallSymmetry == Permutations(Calls)
=============================================================================
