---------------------------- MODULE StartupConfig ----------------------------
(***************************************************************************)
(* Validation and conversion of two sections of the YAML configuration:   *)
(* the DNS-check section of src/internal/cmd/check.go (with the remote     *)
(* key-value store it builds) and the filters section of                  *)
(* src/internal/cmd/filter.go (whose rule-list cache size becomes the      *)
(* bound of the RuleList module's result cache).  The program validates   *)
(* the configuration first and converts it only if validation succeeded;  *)
(* the conversion panics on an unknown store type, so the two             *)
(* enumerations of store types in check.go must agree.                    *)
(*                                                                         *)
(* Strings are abstracted to whether they are empty, an address list to    *)
(* the set of address families in it, a duration to a small integer.      *)
(***************************************************************************)
EXTENDS Integers

CONSTANTS
    BadType,       \* a kv type string that is none of the four modes
    NoKV,          \* a nil *remoteKVConfig (the `kv` key missing)
    NoStore,       \* no remote KV built (yet)
    TTLs,          \* the durations tried for kv.ttl
    CacheSizes,    \* the values tried for rule_list_cache.size
    ConsulMinTTL,  \* consulkv.MinTTL
    ConsulMaxTTL,  \* consulkv.MaxTTL
    RedisMinTTL    \* rediskv.MinTTL

\* kvModeBackend, kvModeCache, kvModeConsul and kvModeRedis.
Modes == {"backend", "cache", "consul", "redis"}

Families == {"ipv4", "ipv6"}

ASSUME ConstantsAssumption ==
    /\ BadType \notin Modes
    /\ TTLs \subseteq Int /\ CacheSizes \subseteq Int
    /\ {ConsulMinTTL, ConsulMaxTTL, RedisMinTTL} \subseteq Nat

\* remoteKVConfig: a nil pointer or a type and a TTL.
KVConfigs == {NoKV} \cup [type : Modes \cup {BadType}, ttl : TTLs]

\* checkConfig: NodeLocation and NodeName non-empty, Domains non-empty, the
\* families of the IPv4 and IPv6 lists.
CheckConfigs ==
    [kv : KVConfigs, location : BOOLEAN, name : BOOLEAN, domains : BOOLEAN,
     ipv4 : SUBSET Families, ipv6 : SUBSET Families]

\* filtersConfig, reduced to what its validate reads besides positive
\* numbers: the EDE and SDE flags and the rule-list cache; `positives` says
\* whether the eight values checked by validatePositive are all positive.
FilterConfigs ==
    [positives : BOOLEAN, ede : BOOLEAN, sde : BOOLEAN,
     cache : [enabled : BOOLEAN, size : CacheSizes]]

\* The environment: whether CONSUL_DNSCHECK_KV_URL and
\* CONSUL_DNSCHECK_SESSION_URL are both set.
Envs == [consulURLs : BOOLEAN]

\* A built remote KV: the store, its TTL, and the key namespace prefix
\* wrapped around it ("none" when newRemoteKV returns the store directly).
Stores == [store : Modes \cup {"empty"}, ttl : TTLs,
           prefix : {"none", "type", "redis_prefix"}]

VARIABLES
    check,    \* the parsed checkConfig
    filters,  \* the parsed filtersConfig
    env,      \* the environment
    phase,    \* "loaded", "valid", "invalid", "built", "failed" or "panic"
    errs,     \* the validation errors, as the names of the failed fields
    kv        \* the remote KV toInternal built, or NoStore

vars == <<check, filters, env, phase, errs, kv>>

-----------------------------------------------------------------------------
(* remoteKVConfig.Validate: each mode has its own TTL rule; an unknown    *)
(* type is an ErrBadEnumValue.                                            *)
RemoteKVErrors(c) ==
    IF c = NoKV THEN {"kv"}
    ELSE IF \/ c.type = "backend" /\ c.ttl > 0
            \/ c.type = "cache"
            \/ c.type = "consul" /\ c.ttl \in ConsulMinTTL..ConsulMaxTTL
            \/ c.type = "redis" /\ c.ttl >= RedisMinTTL
         THEN {}
         ELSE {"kv"}

(* validateNonNilIPs: an empty list, or an address of the other family.   *)
NonNilIPsError(ips, fam) == ips # {fam}

(* checkConfig.Validate: every failed field is reported (errors.Join).    *)
CheckErrors(c) ==
    {f \in {"node_location"} : ~c.location} \cup
    {f \in {"node_name"} : ~c.name} \cup
    {f \in {"domains"} : ~c.domains} \cup
    {f \in {"ipv4"} : NonNilIPsError(c.ipv4, "ipv4")} \cup
    {f \in {"ipv6"} : NonNilIPsError(c.ipv6, "ipv6")} \cup
    RemoteKVErrors(c.kv)

(* fltRuleListCache.validate: the size must be positive.                   *)
RuleListCacheErrors(c) == IF c.size <= 0 THEN {"rule_list_cache"} ELSE {}

(* filtersConfig.validate: the positive values, SDE only with EDE, and    *)
(* the rule-list cache.                                                   *)
FilterErrors(c) ==
    {f \in {"positives"} : ~c.positives} \cup
    {f \in {"sde"} : ~c.ede /\ c.sde} \cup
    RuleListCacheErrors(c.cache)

\* Mutant: a missing Consul URL yields a nil store instead of remotekv.Empty.
NewConsulRemoteKVNil(e) == IF e.consulURLs THEN "consul" ELSE NoStore

(* newConsulRemoteKV: without both Consul URLs the store is remotekv.Empty *)
(* and no error is returned.                                              *)
NewConsulRemoteKV(e) == IF e.consulURLs THEN "consul" ELSE "empty"

\* Mutant: the prefix switch forgets kvModeConsul.
NewRemoteKVPrefixNoConsul(t) ==
    CASE t \in {"backend", "cache"} -> "type"
      [] t = "redis" -> "redis_prefix"
      [] OTHER -> "panic"

(* newRemoteKVPrefix: "<type>:check:", or the Redis key prefix; any other *)
(* type panics.                                                           *)
NewRemoteKVPrefix(t) ==
    CASE t \in {"backend", "cache", "consul"} -> "type"
      [] t = "redis" -> "redis_prefix"
      [] OTHER -> "panic"

\* What newRemoteKV "returns" when it panics.
Panic == [store |-> "panic", ttl |-> 0, prefix |-> "panic"]

(* newRemoteKV: backend, cache and Redis stores are returned as they are *)
(* (the cache store does not use the TTL); only the Consul store falls    *)
(* through to the key namespace; any other type, and a nil config, panic. *)
NewRemoteKV(c, e) ==
    IF c = NoKV \/ c.type \notin Modes THEN Panic
    ELSE IF c.type \in {"backend", "cache", "redis"}
    THEN [store |-> c.type, ttl |-> c.ttl, prefix |-> "none"]
    ELSE LET prefix == NewRemoteKVPrefix(c.type) IN
         IF prefix = "panic" THEN Panic
         ELSE [store |-> NewConsulRemoteKV(e), ttl |-> c.ttl, prefix |-> prefix]

TypeOK ==
    /\ check \in CheckConfigs
    /\ filters \in FilterConfigs
    /\ env \in Envs
    /\ phase \in {"loaded", "valid", "invalid", "built", "failed", "panic"}
    /\ errs \subseteq {"node_location", "node_name", "domains", "ipv4", "ipv6",
                       "kv", "positives", "sde", "rule_list_cache"}
    /\ kv \in IF phase = "built" THEN Stores ELSE {NoStore}

\* Any configuration the YAML decoder can produce, in any environment.
Init ==
    /\ check \in CheckConfigs
    /\ filters \in FilterConfigs
    /\ env \in Envs
    /\ phase = "loaded"
    /\ errs = {}
    /\ kv = NoStore

(* Validation of the whole configuration: the errors of both sections     *)
(* are joined; the configuration is used only if there are none.          *)
Validate ==
    /\ phase = "loaded"
    /\ errs' = CheckErrors(check) \cup FilterErrors(filters)
    /\ phase' = IF errs' = {} THEN "valid" ELSE "invalid"
    /\ UNCHANGED <<check, filters, env, kv>>

(* checkConfig.toInternal: builds the remote KV, or panics inside it.     *)
ToInternal ==
    /\ phase = "valid"
    /\ LET r == NewRemoteKV(check.kv, env) IN
       IF r = Panic
       THEN phase' = "panic" /\ UNCHANGED kv
       ELSE phase' = "built" /\ kv' = r
    /\ UNCHANGED <<check, filters, env, errs>>

(* checkConfig.toInternal returns an error: registering metrics, dialing  *)
(* Redis or creating a store client failed.                               *)
ToInternalFailed ==
    /\ phase = "valid"
    /\ phase' = "failed"
    /\ UNCHANGED <<check, filters, env, errs, kv>>

Next == Validate \/ ToInternal \/ ToInternalFailed

Spec == Init /\ [][Next]_vars

-----------------------------------------------------------------------------
(***************************************************************************)
(* A configuration that passed validation never makes toInternal panic:  *)
(* the store types Validate accepts are exactly those newRemoteKV and    *)
(* newRemoteKVPrefix handle, for every TTL and environment.               *)
(***************************************************************************)
ValidatedNeverPanics == phase # "panic"

(***************************************************************************)
(* The comment on fltRuleListCache.Enabled: "If it is false, the rest of *)
(* the settings are ignored."  So a disabled rule-list cache never makes *)
(* the configuration invalid, whatever its size.                         *)
(***************************************************************************)
DisabledCacheSettingsIgnored ==
    ~filters.cache.enabled => "rule_list_cache" \notin errs

=============================================================================
