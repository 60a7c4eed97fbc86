------------------------- MODULE StartupConfigProofs -------------------------
(***************************************************************************)
(* Proof that a validated configuration never makes checkConfig.toInternal *)
(* panic, for every set of TTLs, cache sizes and store TTL limits.         *)
(***************************************************************************)
EXTENDS StartupConfig, TLAPS

\* The inductive invariant: once validation has passed, the kv section had
\* no error.
IInv ==
    /\ check \in CheckConfigs
    /\ phase \in {"loaded", "valid", "invalid", "built", "failed"}
    /\ phase \in {"valid", "built", "failed"} => RemoteKVErrors(check.kv) = {}

(***************************************************************************)
(* The three switches over the kv type agree: a remoteKVConfig that       *)
(* remoteKVConfig.Validate accepts makes neither newRemoteKV nor          *)
(* newRemoteKVPrefix panic, in any environment.                           *)
(***************************************************************************)
LEMMA AcceptedKVNeverPanics ==
    ASSUME NEW c \in KVConfigs, NEW e, RemoteKVErrors(c) = {}
    PROVE  NewRemoteKV(c, e) # Panic
<1>1. c # NoKV
    BY DEF RemoteKVErrors
<1>2. c \in [type : Modes \cup {BadType}, ttl : TTLs]
    BY <1>1 DEF KVConfigs
<1>3. c.type \in Modes
    BY <1>1, <1>2, ConstantsAssumption DEF RemoteKVErrors, Modes
<1>4. CASE c.type \in {"backend", "cache", "redis"}
    BY <1>1, <1>3, <1>4 DEF NewRemoteKV, Panic
<1>5. CASE c.type = "consul"
    <2>1. NewRemoteKVPrefix(c.type) = "type"
        BY <1>5 DEF NewRemoteKVPrefix
    <2>2. QED
        BY <1>1, <1>3, <1>5, <2>1 DEF NewRemoteKV, Panic
<1>6. QED
    BY <1>3, <1>4, <1>5 DEF Modes

(***************************************************************************)
(* Every configuration that validation lets through converts without a   *)
(* panic in newRemoteKV or newRemoteKVPrefix (checkConfig.toInternal).    *)
(***************************************************************************)
THEOREM ValidatedNeverPanicsThm == Spec => []ValidatedNeverPanics
<1>1. Init => IInv
    BY DEF Init, IInv
<1>2. IInv /\ [Next]_vars => IInv'
    <2> SUFFICES ASSUME IInv, [Next]_vars PROVE IInv'
        OBVIOUS
    <2>1. CASE Validate
        <3>1. phase' = "valid" => RemoteKVErrors(check.kv) = {}
            BY <2>1 DEF Validate, CheckErrors
        <3>2. QED
            BY <2>1, <3>1 DEF Validate, IInv
    <2>2. CASE ToInternal
        <3>1. RemoteKVErrors(check.kv) = {}
            BY <2>2 DEF ToInternal, IInv
        <3>2. check.kv \in KVConfigs
            BY DEF IInv, CheckConfigs
        <3>3. NewRemoteKV(check.kv, env) # Panic
            BY <3>1, <3>2, AcceptedKVNeverPanics
        <3>4. QED
            BY <2>2, <3>1, <3>3 DEF ToInternal, IInv
    <2>3. CASE ToInternalFailed
        BY <2>3 DEF ToInternalFailed, IInv
    <2>4. CASE UNCHANGED vars
        BY <2>4 DEF vars, IInv
    <2>5. QED
        BY <2>1, <2>2, <2>3, <2>4 DEF Next
<1>3. IInv => ValidatedNeverPanics
    BY DEF IInv, ValidatedNeverPanics
<1>4. QED
    BY <1>1, <1>2, <1>3, PTL DEF Spec

(***************************************************************************)
(* What newRemoteKV builds, when it does not panic, is a store of one of  *)
(* the four kinds or remotekv.Empty, with the configured TTL.             *)
(***************************************************************************)
LEMMA BuiltStoreTyped ==
    ASSUME NEW c \in KVConfigs, NEW e \in Envs, NewRemoteKV(c, e) # Panic
    PROVE  NewRemoteKV(c, e) \in Stores
<1>1. c # NoKV /\ c.type \in Modes
    BY DEF NewRemoteKV
<1>2. c.ttl \in TTLs
    BY <1>1 DEF KVConfigs
<1>3. CASE c.type \in {"backend", "cache", "redis"}
    BY <1>1, <1>2, <1>3 DEF NewRemoteKV, Stores, Modes
<1>4. CASE c.type = "consul"
    <2>1. NewRemoteKVPrefix(c.type) = "type"
        BY <1>4 DEF NewRemoteKVPrefix
    <2>2. NewConsulRemoteKV(e) \in {"consul", "empty"}
        BY DEF NewConsulRemoteKV
    <2>3. QED
        BY <1>1, <1>2, <1>4, <2>1, <2>2 DEF NewRemoteKV, Stores, Modes
<1>5. QED
    BY <1>1, <1>3, <1>4 DEF Modes

(***************************************************************************)
(* The configuration, the reported errors and the built store stay well  *)
(* typed: a store exists exactly when toInternal has built one.           *)
(***************************************************************************)
THEOREM TypeCorrect == Spec => []TypeOK
<1>1. Init => TypeOK
    BY DEF Init, TypeOK
<1>2. TypeOK /\ [Next]_vars => TypeOK'
    <2> SUFFICES ASSUME TypeOK, [Next]_vars PROVE TypeOK'
        OBVIOUS
    <2>1. CASE Validate
        <3>1. RemoteKVErrors(check.kv) \subseteq {"kv"}
            BY DEF RemoteKVErrors
        <3>2. errs' \subseteq {"node_location", "node_name", "domains", "ipv4",
                               "ipv6", "kv", "positives", "sde", "rule_list_cache"}
            BY <2>1, <3>1 DEF Validate, CheckErrors, FilterErrors, RuleListCacheErrors
        <3>3. QED
            BY <2>1, <3>2 DEF Validate, TypeOK
    <2>2. CASE ToInternal
        <3>1. check.kv \in KVConfigs
            BY DEF TypeOK, CheckConfigs
        <3>2. NewRemoteKV(check.kv, env) # Panic => NewRemoteKV(check.kv, env) \in Stores
            BY <3>1, BuiltStoreTyped DEF TypeOK
        <3>3. QED
            BY <2>2, <3>2 DEF ToInternal, TypeOK
    <2>3. CASE ToInternalFailed
        BY <2>3 DEF ToInternalFailed, TypeOK
    <2>4. CASE UNCHANGED vars
        BY <2>4 DEF vars, TypeOK
    <2>5. QED
        BY <2>1, <2>2, <2>3, <2>4 DEF Next
<1>3. QED
    BY <1>1, <1>2, PTL DEF Spec

=============================================================================
