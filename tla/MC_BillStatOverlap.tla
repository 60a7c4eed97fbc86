-------------------------- MODULE MC_BillStatOverlap --------------------------
EXTENDS BillStatOverlap, TLC

CONSTANTS d1, d2, f1, f2

MCDevices == {d1, d2}

\* The periodic refresh worker and a second caller of Refresh.
MCRefreshers == {f1, f2}

MCSymmetry == Permutations(MCDevices) \cup Permutations(MCRefreshers)

=============================================================================
