---------------------------- MODULE RuleListProofs ----------------------------
(***************************************************************************)
(* Proofs that the refreshable rule-list filter never serves a stale      *)
(* outcome, implements RuleListAbstract and keeps its result cache within *)
(* CacheSize entries, for any hosts, rule lists, readers, cache size and  *)
(* number of refreshes.                                                   *)
(***************************************************************************)
EXTENDS RuleList, FiniteSetTheorems, TLAPS

\* TypeOK without the bound on the number of cached entries.
Typed ==
    /\ engine \in SUBSET Hosts
    /\ cache \in [Hosts -> BOOLEAN \cup {Miss}]
    /\ rlocked \in SUBSET Readers
    /\ wwaiting \in BOOLEAN
    /\ rpc \in [Readers -> {"idle", "lookup", "store", "unlock"}]
    /\ rhost \in [Readers -> Hosts]
    /\ rres \in [Readers -> BOOLEAN]
    /\ fpc \in {"idle", "compile", "lock"}
    /\ fetched \in SUBSET Hosts
    /\ refreshes \in 0..MaxRefreshes

\* A reader is inside DNSResult exactly while it holds the read lock.
ReadersLocked == \A r \in Readers : rpc[r] # "idle" <=> r \in rlocked

\* The refresher waits for the write lock exactly in its "lock" step.
WriterWaiting == wwaiting <=> fpc = "lock"

\* A refresher past Fetch holds a rule list the fetcher returned.
FetchedValid == fpc \in {"compile", "lock"} => fetched \in RuleTexts

(***************************************************************************)
(* The inductive invariant.  NoStaleResult alone is not inductive: Swap   *)
(* changes the engine, and only ReadersLocked with Swap's guard           *)
(* rlocked = {} says that no reader then holds an outcome of the old      *)
(* engine.                                                                *)
(***************************************************************************)
IInv == Typed /\ ReadersLocked /\ WriterWaiting /\ FetchedValid /\ NoStaleResult

LEMMA InitIInv == Init => IInv
<1> SUFFICES ASSUME Init PROVE IInv
  OBVIOUS
<1>1. refreshes \in 0..MaxRefreshes
  BY BoundsAssumption DEF Init
<1>2. Typed
  BY <1>1 DEF Init, Typed
<1>3. Cached = {}
  BY DEF Init, Cached
<1>4. QED
  BY <1>2, <1>3 DEF Init, IInv, FetchedValid, ReadersLocked, WriterWaiting, NoStaleResult

LEMMA NextIInv == IInv /\ [Next]_vars => IInv'
<1> SUFFICES ASSUME IInv, [Next]_vars PROVE IInv'
  OBVIOUS
<1> USE MissAssumption, RuleTextsAssumption DEF IInv, Typed, FetchedValid
<1>1. ASSUME NEW r \in Readers, NEW h \in Hosts, RLock(r, h) PROVE IInv'
  BY <1>1 DEF RLock, ReadersLocked, WriterWaiting, NoStaleResult, Cached
<1>2. ASSUME NEW r \in Readers, Lookup(r) PROVE IInv'
  <2>1. CASE cache[rhost[r]] # Miss
    <3>1. rres'[r] = Match(engine, rhost[r])
      BY <1>2, <2>1 DEF Lookup, NoStaleResult, Cached
    <3>2. QED
      BY <1>2, <2>1, <3>1 DEF Lookup, ReadersLocked, WriterWaiting, NoStaleResult, Cached
  <2>2. CASE cache[rhost[r]] = Miss
    <3>1. rres' = [rres EXCEPT ![r] = rhost[r] \in engine]
          /\ rpc' = [rpc EXCEPT ![r] = "store"]
          /\ UNCHANGED <<engine, cache, rlocked, wwaiting, rhost>>
      BY <1>2, <2>2 DEF Lookup, Match
    <3>2. Typed'
      BY <3>1, <1>2 DEF Lookup
    <3>3. NoStaleResult'
      BY <3>1 DEF NoStaleResult, Cached, Match
    <3>4. QED
      BY <1>2, <3>1, <3>2, <3>3 DEF ReadersLocked, WriterWaiting, Lookup
  <2>3. QED
    BY <2>1, <2>2
<1>3. ASSUME NEW r \in Readers, Store(r) PROVE IInv'
  <2>1. PICK e \in Hosts \cup {rhost[r]} :
           cache' = [cache EXCEPT ![e] = IF e = rhost[r] THEN rres[r] ELSE Miss,
                                  ![rhost[r]] = rres[r]]
    BY <1>3 DEF Store, Cached
  <2>2. Typed'
    BY <1>3, <2>1 DEF Store
  <2>3. NoStaleResult'
    BY <1>3, <2>1 DEF Store, NoStaleResult, Cached
  <2>4. QED
    BY <1>3, <2>2, <2>3 DEF Store, ReadersLocked, WriterWaiting
<1>4. ASSUME NEW r \in Readers, RUnlock(r) PROVE IInv'
  BY <1>4 DEF RUnlock, ReadersLocked, WriterWaiting, NoStaleResult, Cached
<1>5. ASSUME NEW t \in RuleTexts, Fetch(t) PROVE IInv'
  BY <1>5, BoundsAssumption
  DEF Fetch, ReadersLocked, WriterWaiting, NoStaleResult, Cached
<1>6. CASE FetchFailed
  BY <1>6, BoundsAssumption
  DEF FetchFailed, ReadersLocked, WriterWaiting, NoStaleResult, Cached
<1>7. ASSUME NEW ok \in BOOLEAN, Compile(ok) PROVE IInv'
  BY <1>7 DEF Compile, ReadersLocked, WriterWaiting, NoStaleResult, Cached
<1>8. CASE Swap
  <2>1. \A r \in Readers : rpc[r] = "idle"
    BY <1>8 DEF Swap, ReadersLocked
  <2>2. QED
    BY <1>8, <2>1 DEF Swap, ReadersLocked, WriterWaiting, NoStaleResult, Cached
<1>9. CASE UNCHANGED vars
  BY <1>9 DEF vars, ReadersLocked, WriterWaiting, NoStaleResult, Cached
<1>10. QED
  BY <1>1, <1>2, <1>3, <1>4, <1>5, <1>6, <1>7, <1>8, <1>9 DEF Next

(***************************************************************************)
(* DNSResult never serves or caches an outcome of an engine other than    *)
(* the current one: Refresh clears the cache and swaps the engine only    *)
(* while no reader holds f.mu for reading.                                *)
(***************************************************************************)
THEOREM NoStaleResultThm == Spec => []NoStaleResult
<1>1. IInv => NoStaleResult
  BY DEF IInv
<1>2. QED
  BY InitIInv, NextIInv, <1>1, PTL DEF Spec

LEMMA IInvHolds == Spec => []IInv
BY InitIInv, NextIInv, PTL DEF Spec

(***************************************************************************)
(* The filter implements RuleListAbstract under the mapping AnswerBar: a *)
(* cache hit and a store each decide the reader's answer from the current *)
(* engine (NoStaleResult), RUnlock returns it, Swap installs the fetched *)
(* rule list, and every other step is a stutter.                          *)
(***************************************************************************)
THEOREM Refinement == Spec => RefinesAbstract
<1>1. Init => Abstract!Init
  BY DEF Init, Abstract!Init, AnswerBar
<1>2. IInv /\ [Next]_vars => [Abstract!Next]_Abstract!vars
  <2> SUFFICES ASSUME IInv, [Next]_vars PROVE [Abstract!Next]_Abstract!vars
    OBVIOUS
  <2> USE DEF IInv, Typed
  <2>1. ASSUME NEW r \in Readers, NEW h \in Hosts, RLock(r, h)
        PROVE  UNCHANGED Abstract!vars
    BY <2>1 DEF RLock, Abstract!vars, AnswerBar
  <2>2. ASSUME NEW r \in Readers, Lookup(r) PROVE [Abstract!Next]_Abstract!vars
    <3>1. CASE cache[rhost[r]] # Miss
      <4>1. rres'[r] = (rhost[r] \in engine)
        BY <2>2, <3>1 DEF Lookup, NoStaleResult, Cached, Match
      <4>2. Abstract!Answer(r, rhost[r])
        BY <2>2, <3>1, <4>1 DEF Lookup, Abstract!Answer, AnswerBar
      <4>3. QED
        BY <4>2 DEF Abstract!Next
    <3>2. CASE cache[rhost[r]] = Miss
      BY <2>2, <3>2 DEF Lookup, Abstract!vars, AnswerBar
    <3>3. QED
      BY <3>1, <3>2
  <2>3. ASSUME NEW r \in Readers, Store(r) PROVE [Abstract!Next]_Abstract!vars
    <3>1. rres[r] = (rhost[r] \in engine)
      BY <2>3 DEF Store, NoStaleResult, Match
    <3>2. Abstract!Answer(r, rhost[r])
      BY <2>3, <3>1 DEF Store, Abstract!Answer, AnswerBar
    <3>3. QED
      BY <3>2 DEF Abstract!Next
  <2>4. ASSUME NEW r \in Readers, RUnlock(r) PROVE [Abstract!Next]_Abstract!vars
    <3>1. Abstract!Return(r)
      BY <2>4 DEF RUnlock, Abstract!Return, AnswerBar
    <3>2. QED
      BY <3>1 DEF Abstract!Next
  <2>5. ASSUME NEW t \in RuleTexts, Fetch(t) PROVE UNCHANGED Abstract!vars
    BY <2>5 DEF Fetch, Abstract!vars, AnswerBar
  <2>6. CASE FetchFailed
    BY <2>6 DEF FetchFailed, Abstract!vars, AnswerBar
  <2>7. ASSUME NEW ok \in BOOLEAN, Compile(ok) PROVE UNCHANGED Abstract!vars
    BY <2>7 DEF Compile, Abstract!vars, AnswerBar
  <2>8. CASE Swap
    <3>1. fetched \in RuleTexts
      BY <2>8 DEF Swap, FetchedValid
    <3>2. Abstract!Install(fetched)
      BY <2>8 DEF Swap, Abstract!Install, AnswerBar
    <3>3. QED
      BY <3>1, <3>2 DEF Abstract!Next
  <2>9. CASE UNCHANGED vars
    BY <2>9 DEF vars, Abstract!vars, AnswerBar
  <2>10. QED
    BY <2>1, <2>2, <2>3, <2>4, <2>5, <2>6, <2>7, <2>8, <2>9 DEF Next
<1>3. QED
  BY <1>1, <1>2, IInvHolds, PTL DEF Spec, RefinesAbstract, Abstract!Spec

-----------------------------------------------------------------------------
(***************************************************************************)
(* The cache bound.  Only Store and Swap change the cache: a store adds   *)
(* its host to the cached ones, an eviction first drops another, and the  *)
(* clear of Swap empties it.  The set of cached hosts is finite however   *)
(* many hosts there are, because it starts empty and grows by one host.   *)
(***************************************************************************)
CacheBound == IsFiniteSet(Cached) /\ Cardinality(Cached) <= CacheSize

\* A step that leaves the cache alone keeps the bound.
LEMMA CacheUnchanged ==
    ASSUME CacheBound, UNCHANGED cache
    PROVE  CacheBound'
BY DEF CacheBound, Cached

\* Store, under the write of f.cache.Set, keeps the bound.
LEMMA StoreKeepsBound ==
    ASSUME Typed, CacheBound, NEW r \in Readers, Store(r)
    PROVE  CacheBound'
<1> DEFINE h == rhost[r]
<1>1. h \in Hosts /\ rres[r] \in BOOLEAN /\ rres[r] # Miss
  BY MissAssumption DEF Typed
<1>2. Cardinality(Cached) \in Nat
  BY FS_CardinalityType DEF CacheBound
<1>3. CASE /\ h \in Cached \/ Cardinality(Cached) < CacheSize
           /\ cache' = [cache EXCEPT ![h] = rres[r]]
  <2>1. Cached' = Cached \cup {h}
    BY <1>1, <1>3 DEF Cached, Typed
  <2>2. /\ IsFiniteSet(Cached \cup {h})
        /\ Cardinality(Cached \cup {h}) =
             IF h \in Cached THEN Cardinality(Cached) ELSE Cardinality(Cached) + 1
    BY FS_AddElement DEF CacheBound
  <2> QED
    BY <1>2, <1>3, <2>1, <2>2, BoundsAssumption DEF CacheBound
<1>4. CASE /\ h \notin Cached /\ Cardinality(Cached) >= CacheSize
           /\ \E e \in Cached : cache' = [cache EXCEPT ![e] = Miss, ![h] = rres[r]]
  <2>1. PICK e \in Cached : cache' = [cache EXCEPT ![e] = Miss, ![h] = rres[r]]
    BY <1>4
  <2>2. e # h /\ e \in Hosts
    BY <1>4 DEF Cached
  <2>3. Cached' = (Cached \ {e}) \cup {h}
    BY <1>1, <2>1, <2>2 DEF Cached, Typed
  <2>4. /\ IsFiniteSet(Cached \ {e})
        /\ Cardinality(Cached \ {e}) = Cardinality(Cached) - 1
    BY FS_RemoveElement DEF CacheBound
  <2>5. /\ IsFiniteSet((Cached \ {e}) \cup {h})
        /\ Cardinality((Cached \ {e}) \cup {h}) = Cardinality(Cached \ {e}) + 1
    BY <1>4, <2>4, FS_AddElement
  <2> QED
    BY <1>2, <2>3, <2>4, <2>5 DEF CacheBound
<1> QED
  BY <1>3, <1>4 DEF Store

\* f.cache.Clear() in Swap empties the cache.
LEMMA SwapKeepsBound ==
    ASSUME Swap
    PROVE  CacheBound'
<1>1. Cached' = {}
  BY MissAssumption DEF Swap, Cached
<1> QED
  BY <1>1, FS_EmptySet, BoundsAssumption DEF CacheBound

\* Every step keeps the bound.
LEMMA CacheBoundStep == Typed /\ CacheBound /\ [Next]_vars => CacheBound'
<1> SUFFICES ASSUME Typed, CacheBound, [Next]_vars PROVE CacheBound'
  OBVIOUS
<1>1. ASSUME NEW r \in Readers, Store(r) PROVE CacheBound'
  BY <1>1, StoreKeepsBound
<1>2. CASE Swap
  BY <1>2, SwapKeepsBound
<1>3. CASE ~Swap /\ ~\E r \in Readers : Store(r)
  <2>1. UNCHANGED cache
    BY <1>3 DEF Next, vars, RLock, Lookup, RUnlock, Fetch, FetchFailed, Compile
  <2> QED
    BY <2>1, CacheUnchanged
<1> QED
  BY <1>1, <1>2, <1>3

(***************************************************************************)
(* Type correctness, the cache bound included: however readers, stores    *)
(* with eviction and refreshes interleave, the result cache never holds   *)
(* more than CacheSize entries.                                           *)
(***************************************************************************)
THEOREM TypeCorrect == Spec => []TypeOK
<1>1. Init => IInv /\ CacheBound
  <2>1. Init => Cached = {}
    BY MissAssumption DEF Init, Cached
  <2> QED
    BY <2>1, InitIInv, FS_EmptySet, BoundsAssumption DEF CacheBound
<1>2. (IInv /\ CacheBound) /\ [Next]_vars => (IInv /\ CacheBound)'
  BY NextIInv, CacheBoundStep DEF IInv
<1>3. IInv /\ CacheBound => TypeOK
  BY DEF IInv, Typed, CacheBound, TypeOK
<1> QED
  BY <1>1, <1>2, <1>3, PTL DEF Spec

-----------------------------------------------------------------------------
\* The step that CacheKeptUntilSwap allows, for one pair of states.
KeptStep ==
    \A h \in Cached :
        cache'[h] # cache[h] =>
            \/ fpc = "lock" /\ fpc' = "idle"
            \/ \E r \in Readers : /\ rpc[r] = "store" /\ rpc'[r] = "unlock"
                                  /\ rhost[r] # h /\ cache'[h] = Miss

\* A store rewrites a cached outcome only with the same outcome, and
\* otherwise evicts an entry of another host.
LEMMA StoreKeeps ==
    ASSUME IInv, NEW r \in Readers, Store(r)
    PROVE  KeptStep
<1> USE MissAssumption DEF IInv, Typed
<1> DEFINE h0 == rhost[r]
<1>1. rres[r] = Match(engine, h0) /\ rpc[r] = "store" /\ rpc'[r] = "unlock"
  BY DEF Store, NoStaleResult
<1>2. SUFFICES ASSUME NEW h \in Cached, cache'[h] # cache[h]
               PROVE  \E q \in Readers : /\ rpc[q] = "store" /\ rpc'[q] = "unlock"
                                         /\ rhost[q] # h /\ cache'[h] = Miss
  BY DEF KeptStep
<1>3. h \in Hosts /\ cache[h] = Match(engine, h)
  BY DEF Cached, NoStaleResult
<1>4. CASE (h0 \in Cached \/ Cardinality(Cached) < CacheSize)
           /\ cache' = [cache EXCEPT ![h0] = rres[r]]
  BY <1>1, <1>2, <1>3, <1>4
<1>5. ASSUME NEW e \in Cached, h0 \notin Cached,
             cache' = [cache EXCEPT ![e] = Miss, ![h0] = rres[r]]
      PROVE  rhost[r] # h /\ cache'[h] = Miss
  <2>1. e # h0 /\ e \in Hosts
    BY <1>5 DEF Cached
  <2> QED
    BY <1>2, <1>3, <1>5, <2>1 DEF Cached
<1> QED
  BY <1>1, <1>4, <1>5 DEF Store

\* Every step of the filter is one that CacheKeptUntilSwap allows.
LEMMA KeptStepHolds == IInv /\ [Next]_vars => [KeptStep]_vars
<1> SUFFICES ASSUME IInv, [Next]_vars PROVE [KeptStep]_vars
  OBVIOUS
<1>1. ASSUME UNCHANGED cache PROVE KeptStep
  BY <1>1 DEF KeptStep
<1>2. ASSUME NEW r \in Readers, Store(r) PROVE KeptStep
  BY <1>2, StoreKeeps
<1>3. CASE Swap
  BY <1>3 DEF Swap, KeptStep
<1> QED
  BY <1>1, <1>2, <1>3
     DEF Next, RLock, Lookup, RUnlock, Fetch, FetchFailed, Compile, vars

(***************************************************************************)
(* For any hosts, readers, rule lists and cache size: a failed fetch or   *)
(* compile keeps every cached outcome; an outcome leaves the result cache *)
(* only when a successful Refresh clears it and swaps the engine, or when *)
(* a reader's store evicts it for another host, and a store never changes *)
(* a cached outcome.                                                      *)
(***************************************************************************)
THEOREM CacheKeptUntilSwapThm == Spec => CacheKeptUntilSwap
<1>1. IInv /\ [Next]_vars => [KeptStep]_vars
  BY KeptStepHolds
<1> QED
  BY <1>1, IInvHolds, PTL DEF Spec, CacheKeptUntilSwap, KeptStep

=============================================================================
