---------------------------- MODULE MC_BillStat ----------------------------
(* Model-checking instance of BillStat: two devices, bounded clock and     *)
(* query counts.                                                           *)
EXTENDS BillStat, TLC

CONSTANTS d1, d2

MCDevices == {d1, d2}

MCSymmetry == Permutations(MCDevices)


=============================================================================
