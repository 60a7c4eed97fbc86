--------------------------- MODULE MC_StartupConfig ---------------------------
EXTENDS StartupConfig, TLC

\* Durations around the Consul and Redis minimums: zero, between, above.
MCTTLs == {0, 1, 2, 3}

\* A disabled or enabled cache of size zero or one.
MCCacheSizes == {0, 1}

=============================================================================
