---------------------------- MODULE MC_RuleList ----------------------------
(* Model-checking instance of RuleList: two hosts, two readers, rule      *)
(* lists that match neither, one or both hosts, and a one-entry cache so  *)
(* that eviction happens.                                                  *)
EXTENDS RuleList, TLC

CONSTANTS h1, h2, r1, r2

MCHosts == {h1, h2}

MCReaders == {r1, r2}

MCRuleTexts == {{}, {h1}, {h1, h2}}

MCSymmetry == Permutations(MCReaders)

=============================================================================
