CONSTANTS
    BadType = BadType
    NoKV = NoKV
    NoStore = NoStore
    TTLs <- MCTTLs
    CacheSizes <- MCCacheSizes
    ConsulMinTTL = 1
    ConsulMaxTTL = 2
    RedisMinTTL = 2
SPECIFICATION Spec
INVARIANTS TypeOK ValidatedNeverPanics
\* Startup ends once the configuration is rejected or converted.
CHECK_DEADLOCK FALSE
