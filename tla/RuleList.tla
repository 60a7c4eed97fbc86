------------------------------ MODULE RuleList ------------------------------
(***************************************************************************)
(* The refreshable rule-list filter of src/internal/filter/internal/      *)
(* rulelist/refreshable.go.  Query goroutines call DNSResult, which holds *)
(* f.mu for reading while the embedded baseFilter looks the request up in *)
(* the result cache and, on a miss, evaluates the engine and stores the   *)
(* outcome, "no match" included.  One refresher calls Refresh: it fetches *)
(* the rule text and compiles it without the lock, then takes f.mu for    *)
(* writing to clear the cache and swap the engine.  f.mu is a Go          *)
(* sync.RWMutex: a blocked Lock keeps new RLock calls out.                *)
(*                                                                         *)
(* A compiled engine is the set of hosts its rules match; a cache key is  *)
(* the host (client address, query type and answer flag are left out: the *)
(* properties treat every key alike).  The LRU order of the bounded cache *)
(* is abstracted to an arbitrary choice of the entry to evict.            *)
(***************************************************************************)
EXTENDS Naturals, FiniteSets

CONSTANTS
    Hosts,        \* the cache keys queried
    RuleTexts,    \* the rule lists the fetcher may return, as engines
    Readers,      \* the goroutines calling DNSResult
    Miss,         \* a key absent from the result cache
    CacheSize,    \* the result cache's count bound
    MaxRefreshes  \* bound on Refresh calls

ASSUME RuleTextsAssumption == RuleTexts \subseteq SUBSET Hosts
ASSUME MissAssumption == Miss \notin BOOLEAN
ASSUME BoundsAssumption ==
    CacheSize \in Nat \ {0} /\ MaxRefreshes \in Nat

VARIABLES
    engine,     \* f.engine, the matched hosts of the current snapshot
    cache,      \* f.cache: host -> cached match outcome or Miss
    rlocked,    \* the readers holding f.mu for reading
    wwaiting,   \* the refresher is blocked in f.mu.Lock
    rpc,        \* per reader: "idle", "lookup", "store" or "unlock"
    rhost,      \* per reader: the host it asked for
    rres,       \* per reader: the outcome it will return
    fpc,        \* refresher: "idle", "compile", "lock"
    fetched,    \* refresher: the engine compiled from the fetched text
    refreshes   \* number of Refresh calls so far

vars == <<engine, cache, rlocked, wwaiting, rpc, rhost, rres,
          fpc, fetched, refreshes>>

\* The keys present in the result cache.
Cached == {h \in Hosts : cache[h] # Miss}

\* What the engine answers for a host.
Match(e, h) == h \in e

TypeOK ==
    /\ engine \in SUBSET Hosts
    /\ cache \in [Hosts -> BOOLEAN \cup {Miss}]
    /\ Cardinality(Cached) <= CacheSize
    /\ rlocked \in SUBSET Readers
    /\ wwaiting \in BOOLEAN
    /\ rpc \in [Readers -> {"idle", "lookup", "store", "unlock"}]
    /\ rhost \in [Readers -> Hosts]
    /\ rres \in [Readers -> BOOLEAN]
    /\ fpc \in {"idle", "compile", "lock"}
    /\ fetched \in SUBSET Hosts
    /\ refreshes \in 0..MaxRefreshes

\* NewRefreshable: an empty engine (the initial refresh is explicit) and an
\* empty cache.
Init ==
    /\ engine = {}
    /\ cache = [h \in Hosts |-> Miss]
    /\ rlocked = {}
    /\ wwaiting = FALSE
    /\ rpc = [r \in Readers |-> "idle"]
    /\ rhost \in [Readers -> Hosts]
    /\ rres = [r \in Readers |-> FALSE]
    /\ fpc = "idle"
    /\ fetched = {}
    /\ refreshes = 0

-----------------------------------------------------------------------------
(* DNSResult, entry: f.mu.RLock(), blocked while a writer holds or waits. *)
RLock(r, h) ==
    /\ rpc[r] = "idle"
    /\ ~wwaiting
    /\ rlocked' = rlocked \cup {r}
    /\ rhost' = [rhost EXCEPT ![r] = h]
    /\ rpc' = [rpc EXCEPT ![r] = "lookup"]
    /\ UNCHANGED <<engine, cache, wwaiting, rres, fpc, fetched, refreshes>>

(* baseFilter.DNSResult: a cache hit is returned as is; on a miss the     *)
(* engine is evaluated and the outcome is stored next.                    *)
Lookup(r) ==
    /\ rpc[r] = "lookup"
    /\ IF cache[rhost[r]] # Miss
       THEN /\ rres' = [rres EXCEPT ![r] = cache[rhost[r]]]
            /\ rpc' = [rpc EXCEPT ![r] = "unlock"]
       ELSE /\ rres' = [rres EXCEPT ![r] = Match(engine, rhost[r])]
            /\ rpc' = [rpc EXCEPT ![r] = "store"]
    /\ UNCHANGED <<engine, cache, rlocked, wwaiting, rhost, fpc, fetched,
                   refreshes>>

\* Mutant: the cache stores without evicting, past its bound.
StoreUnbounded(r) ==
    /\ rpc[r] = "store"
    /\ cache' = [cache EXCEPT ![rhost[r]] = rres[r]]
    /\ rpc' = [rpc EXCEPT ![r] = "unlock"]
    /\ UNCHANGED <<engine, rlocked, wwaiting, rhost, rres, fpc, fetched,
                   refreshes>>

(* The result cache's Set: a full cache evicts one other entry.           *)
Store(r) ==
    /\ rpc[r] = "store"
    /\ LET h == rhost[r] IN
       \/ /\ h \in Cached \/ Cardinality(Cached) < CacheSize
          /\ cache' = [cache EXCEPT ![h] = rres[r]]
       \/ /\ h \notin Cached /\ Cardinality(Cached) >= CacheSize
          /\ \E e \in Cached : cache' = [cache EXCEPT ![e] = Miss, ![h] = rres[r]]
    /\ rpc' = [rpc EXCEPT ![r] = "unlock"]
    /\ UNCHANGED <<engine, rlocked, wwaiting, rhost, rres, fpc, fetched,
                   refreshes>>

(* DNSResult, exit: the deferred f.mu.RUnlock().                          *)
RUnlock(r) ==
    /\ rpc[r] = "unlock"
    /\ rlocked' = rlocked \ {r}
    /\ rpc' = [rpc EXCEPT ![r] = "idle"]
    /\ UNCHANGED <<engine, cache, wwaiting, rhost, rres, fpc, fetched,
                   refreshes>>

(* Refresh: f.refr.Refresh fetches the text; on an error Refresh returns  *)
(* it with the filter untouched.                                          *)
Fetch(t) ==
    /\ fpc = "idle"
    /\ refreshes < MaxRefreshes
    /\ refreshes' = refreshes + 1
    /\ fetched' = t
    /\ fpc' = "compile"
    /\ UNCHANGED <<engine, cache, rlocked, wwaiting, rpc, rhost, rres>>

\* Mutant: a failed fetch that clears the result cache on its way out.
FetchFailedClearsCache ==
    /\ fpc = "idle"
    /\ refreshes < MaxRefreshes
    /\ refreshes' = refreshes + 1
    /\ cache' = [h \in Hosts |-> Miss]
    /\ UNCHANGED <<engine, rlocked, wwaiting, rpc, rhost, rres, fpc, fetched>>

FetchFailed ==
    /\ fpc = "idle"
    /\ refreshes < MaxRefreshes
    /\ refreshes' = refreshes + 1
    /\ UNCHANGED <<engine, cache, rlocked, wwaiting, rpc, rhost, rres,
                   fpc, fetched>>

(* Refresh: filterlist.NewRuleStorage; an error is returned, the filter   *)
(* untouched; otherwise f.mu.Lock() is called and blocks new readers.     *)
Compile(ok) ==
    /\ fpc = "compile"
    /\ fpc' = IF ok THEN "lock" ELSE "idle"
    /\ wwaiting' = ok
    /\ UNCHANGED <<engine, cache, rlocked, rpc, rhost, rres, fetched,
                   refreshes>>

\* Mutant: the engine is swapped without f.cache.Clear().
SwapNoClear ==
    /\ fpc = "lock"
    /\ rlocked = {}
    /\ engine' = fetched
    /\ wwaiting' = FALSE
    /\ fpc' = "idle"
    /\ UNCHANGED <<cache, rlocked, rpc, rhost, rres, fetched, refreshes>>

(* Refresh: once the readers are out, f.cache.Clear(), the new engine is  *)
(* swapped in, and the deferred f.mu.Unlock() runs.                       *)
Swap ==
    /\ fpc = "lock"
    /\ rlocked = {}
    /\ cache' = [h \in Hosts |-> Miss]
    /\ engine' = fetched
    /\ wwaiting' = FALSE
    /\ fpc' = "idle"
    /\ UNCHANGED <<rlocked, rpc, rhost, rres, fetched, refreshes>>

Next ==
    \/ \E r \in Readers, h \in Hosts : RLock(r, h)
    \/ \E r \in Readers : Lookup(r) \/ Store(r) \/ RUnlock(r)
    \/ \E t \in RuleTexts : Fetch(t)
    \/ FetchFailed
    \/ \E ok \in BOOLEAN : Compile(ok)
    \/ Swap

Spec == Init /\ [][Next]_vars

-----------------------------------------------------------------------------
(***************************************************************************)
(* No stale answer: every outcome in the result cache, and every outcome *)
(* a reader inside DNSResult is about to store or return, is what the    *)
(* current engine answers.  After a refresh, a cached "no match" for a   *)
(* host the new rules match is never served.                              *)
(***************************************************************************)
NoStaleResult ==
    /\ \A h \in Cached : cache[h] = Match(engine, h)
    /\ \A r \in Readers :
          rpc[r] \in {"store", "unlock"} => rres[r] = Match(engine, rhost[r])

(***************************************************************************)
(* A failed Refresh leaves the filter serving what it served before: an  *)
(* outcome leaves the result cache only in the step of a successful      *)
(* refresh that clears it and swaps the engine (refreshable.go:122-127),  *)
(* or when a reader's store evicts it to make room for another host.  A  *)
(* failed fetch or compile (the early returns at :108 and :119) keeps    *)
(* every cached outcome, and a store never rewrites one.                  *)
(***************************************************************************)
CacheKeptUntilSwap ==
    [][\A h \in Cached :
          cache'[h] # cache[h] =>
              \/ fpc = "lock" /\ fpc' = "idle"
              \/ \E r \in Readers : /\ rpc[r] = "store" /\ rpc'[r] = "unlock"
                                    /\ rhost[r] # h /\ cache'[h] = Miss
      ]_vars

-----------------------------------------------------------------------------
\* The refinement mapping: a reader past its cache lookup or store has
\* decided the answer it returns.
AnswerBar ==
    [r \in Readers |->
        IF rpc[r] = "unlock" THEN {[host |-> rhost[r], match |-> rres[r]]}
        ELSE {}]

Abstract == INSTANCE RuleListAbstract WITH answer <- AnswerBar

(***************************************************************************)
(* The filter implements the atomic one of RuleListAbstract: whatever the *)
(* interleaving of lookups, cache stores, read locks and the refresher's  *)
(* swap, every outcome DNSResult returns is the one the engine installed  *)
(* at some instant during the call gives, and Refresh only ever installs *)
(* a fetched rule list.                                                   *)
(***************************************************************************)
RefinesAbstract == Abstract!Spec

=============================================================================
