# Formal models of AdGuard DNS core components

TLA+ models of the concurrent and configuration-dependent parts of the
Go sources under `src/`, the TLC configurations that check them, and TLAPS
proofs of the safety invariants and action properties those runs check, and
of the refinements of two components to their abstract specifications. `PROJECT.json` lists
every component, run, mutant, mapped definition, hazard, finding and theorem.

## 1. Inventory of the system

| Component | Source | State | Operations | Concurrency and hard behaviour |
|---|---|---|---|---|
| Billing-stat recorder | `billstat/runtime.go` | `records` (device → record), `mu` | `Record`; `Refresh` = `resetRecords`, `Upload`, deferred `remergeRecords` on error | Many query goroutines call `Record`. One periodic worker calls `Refresh`, which releases the mutex for the network upload. An upload can fail, be canceled, or fail after the backend stored the stream. |
| Rule-list filter | `filter/internal/rulelist/refreshable.go` | `engine`, result `cache`, `mu` (RWMutex) | `DNSResult` (read lock, cache lookup, evaluate, store); `Refresh` (fetch, compile, write lock, clear, swap); `RulesCount` | Readers hold the read lock. The refresher fetches and compiles without the lock, then waits for the write lock, and Go's RWMutex then blocks new readers. Fetch or compile may fail. |
| Request context | `dnssvc/context.go` | timeout | `New` | Each query runs under a timeout, which bounds how old its start time is when it is recorded. |
| Configuration | `cmd/check.go`, `cmd/filter.go` | parsed config, environment | `Validate` / `validate`, `toInternal` → `newRemoteKV`, `newRemoteKVPrefix`, `newConsulRemoteKV` | Three separate switches over the KV mode; two of them panic on an unknown mode. A Consul store silently becomes `remotekv.Empty` without URLs. |
| Blocking mode | `dnsmsg/blockingmode.go` | none (sealed sum type) | none under `src` | Only the variant types are declared; building a response from them happens outside `src`. Not modelled. |
| Device finder, safe-search filter | `devicefinder/devicefinder_test.go`, `safesearch/safesearch_test.go` | — | — | Only the tests are under `src`. Not modelled. |
| Metrics, panic reporting, gRPC stubs, TLS config | `metrics/`, `cmd/error.go`, `backendpb/`, TLS tests | — | — | Observability, generated code and certificate loading. |

The properties each component must have:

- **Recorder:** no recorded query is lost and none is counted twice. The live count never falls except at a detach. Last-seen never regresses. Every query is eventually delivered.
- **Filter:** no stale cached outcome is ever served, and the cache stays within its bound. A failed refresh changes no cached outcome; outcomes leave the cache only at a successful swap or by eviction.
- **Configuration:** a validated configuration never panics during conversion. The validator agrees with the documentation of the fields.

## 2. Modules

| Module | Models | Key correspondence |
|---|---|---|
| `BillStat` | `RuntimeRecorder` | `records` = `r.records`; `snapshot` = the local `records` of `Refresh`; `refresh` = the refresher's position (idle, upload, remerge); `clock` = wall time. The ghosts `recorded` and `delivered` count `Record` calls and the queries the backend holds. Actions: `Record(d, t)`; `ResetRecords`; `UploadSucceeded`; `UploadFailed(o)`, with `o` ∈ {error, error_delivered}; `RemergeRecords`; `Tick`. |
| `BillStatAbstract` | the recorder's promise (spec §4.5); `BillStat` instantiates it with `pending <- PendingMap` | `pending` (per-device count in memory) and `delivered`. `RecordQuery` adds one pending query. `Deliver` moves any part of the pending counts to the backend. |
| `MC_BillStat` | TLC instance | two devices, symmetric |
| `BillStatProofs` | TLAPS | theorems below |
| `BillStatOverlap` | `RuntimeRecorder` with several concurrent `Refresh` callers | `snapshot[r]` and `refresh[r]` per refresher `r`; the same actions, one per refresher. Queries start at the current clock, so every disorder of last-seen times comes from the overlap. |
| `BillStatOverlapProofs` | TLAPS | `TypeCorrect`, `OverlapQueriesConservedThm` |
| `MC_BillStatOverlap` | TLC instance | two devices, two refreshers, both symmetric |
| `RuleList` | `Refreshable` | `engine` = the set of hosts the compiled rules match; `cache` maps a host to a cached outcome or `Miss`; `rlocked` and `wwaiting` model the RWMutex; each reader moves `rpc` through lookup, store and unlock. Refresher: `Fetch`/`FetchFailed`, `Compile(ok)`, then `Swap` (clear + swap under the write lock). |
| `RuleListAbstract` | what the filter promises | `engine` and each reader's answer; `Answer(r, h)` returns the match of the installed engine; `Install(t)` replaces it. `RuleList` maps `answer` from a reader about to unlock. |
| `RuleListProofs` | TLAPS | `NoStaleResultThm`, `CacheKeptUntilSwapThm`, `Refinement`, `TypeCorrect` |
| `MC_RuleList` | TLC instance | two hosts, two readers, three rule lists ({}, {h1}, {h1, h2}) |
| `StartupConfig` | `checkConfig`, `remoteKVConfig`, `filtersConfig`, `fltRuleListCache` | Each validator is an operator returning the set of failing fields (`errors.Join`). `NewRemoteKV` returns a store (kind, TTL, key prefix) or `Panic`: the backend, cache and Redis stores come back as they are, and only a Consul store gets the key namespace. Actions: `Validate`, `ToInternal`, `ToInternalFailed`. |
| `StartupConfigProofs` | TLAPS | `ValidatedNeverPanicsThm` |
| `MC_StartupConfig` | TLC instance | TTLs 0..3 around the Consul range [1, 2] and the Redis minimum 2; cache sizes {0, 1} |

Abstractions:

- **Recorder.** A record's country, ASN and protocol are written together with its `Time` in every branch of the code, so `time` stands for all of them.
- **Filter.**
  - Cache keys are hosts.
  - LRU eviction is an arbitrary choice of the entry to evict.
  - The `baseFilter` lookup and the result cache live outside `src`; they are modelled from spec §4.2 and marked `spec_modelled`.
- **Configuration.** Strings are reduced to whether they are empty, and address lists to the set of their families.

## 3. Runs

| Run | Checks | Bounds | Result |
|---|---|---|---|
| `billstat_safety` | `TypeOK`, `QueriesConserved`, `LiveCountNeverDecreases` | 2 devices (symmetric), MaxQueries 3, MaxTime 2, Lag 1, uploads ok/error | pass (7.7k states) |
| `billstat_liveness` | `NoQueryLost`, `EveryQueryDelivered` under `FairSpec` | MaxQueries 2, all three upload outcomes | pass (15.6k states) |
| `billstat_duplicate` | `QueriesConserved` with `error_delivered` | MaxTime 1 | **violation** |
| `billstat_lastseen` | `LastSeenNeverRegresses` | Lag 1 | **violation** |
| `rulelist_safety` | `TypeOK`, `NoStaleResult`, `CacheKeptUntilSwap` | CacheSize 1, 3 refreshes, hosts and readers symmetric | pass (8.2k states) |
| `startup_safety` | `TypeOK`, `ValidatedNeverPanics` | all configs over the domains above, both environments | pass (344k states) |
| `startup_cache_disabled` | `DisabledCacheSettingsIgnored` | same | **violation** |
| `billstat_overlap` | `TypeOK`, `OverlapQueriesConserved` | 2 devices, 2 refreshers, MaxQueries 3, MaxTime 2 | pass (36.6k states) |
| `billstat_overlap_newest` | `LiveRecordNewest` | same | **violation** |

Why these bounds are enough:

- **Three queries per device** cover each of these cases:
  - a record created before a detach;
  - a record created during the upload window;
  - a record remerged into an existing one.
- **Lag 1** is the smallest lag at which two queries can be recorded out of start order.
- **A cache of one entry** forces eviction on the second host.
- **Three rule lists** give both a host whose match changes and one whose match does not.
- **TTLs 0..3** reach each side of every TTL boundary that `remoteKVConfig.Validate` checks.
- **Two refreshers** are the least that overlap; with MaxTime 2 a newer record can be detached by the second while the first still holds an older one.

Each property of a passing run has a mutant in `PROJECT.json`: a plausible bug in one mapped definition that TLC catches.

Deadlock checking:

- Deadlock is checked in the BillStat and RuleList runs.
- The startup runs set `CHECK_DEADLOCK FALSE`, because startup really does end after conversion or rejection.

### Fairness

- **BillStat.**
  - `WF(ResetRecords)`: `Refresh` is driven by a ticker.
  - `WF(RemergeRecords)`: the deferred remerge always runs once `Upload` returns.
  - `SF(UploadSucceeded)`: an environment assumption, namely that a backend tried again and again eventually accepts an upload. Without it no delivery can be promised.
- **RuleList** has no liveness property: its run checks safety under `Spec` alone. That a compiled refresh is eventually installed depends only on Go's `sync.RWMutex` blocking new readers once a writer waits, which is a property of the runtime, not of `refreshable.go`.

The refinements `RefinesAbstract` of `BillStat` and `RuleList` are not run properties: each says no more on a small instance than the invariant its run checks (`QueriesConserved`, `NoStaleResult`). They are proved for all constants (section 5).

## 4. Findings

1. **Double counting** (`runtime.go:109`). `Refresh` remerges on any upload error, including a deadline that fires after the backend stored the client stream. Those queries are then uploaded twice. The spec promises both "no loss" and "uploaded count = Record calls", and says a canceled upload takes the remerge path; the code can keep only the first promise.
2. **Last-seen regression** (`runtime.go:87`). `Record` overwrites `Time` with the start time of whichever query takes the mutex last. A slower query that started earlier moves last-seen backwards, against spec §4.5 ("freshness metadata never regresses").
3. **Disabled cache validated** (`filter.go:117`). A disabled rule-list cache with size 0 is rejected, although the `Enabled` field's comment says the other settings are then ignored.
4. **Overlapping remerges** (`runtime.go:147`). `remergeRecords` keeps the live record's metadata because "there is already a newer record". Nothing prevents two `Refresh` calls from overlapping. When the one holding the older snapshot remerges first, it puts its old record back into the live map. The later remerge then keeps that old metadata and drops its own newer time. The counts stay right (`billstat_overlap` passes).

## 5. Proofs (TLAPS)

`BillStatProofs` proves, for every set of devices and every bound:

- `TypeCorrect`: `Spec => []TypeOK`. It rests on the step lemma `TypeStep`.
- `CountInvariant`: `Spec => []CountInv`, where `CountInv` is the conjunction of:
  - `TypeOK`;
  - `IdleSnapshotEmpty`: no snapshot is held while `refresh = "idle"`;
  - `NoQueryLost`;
  - `QueriesConserved`, when no upload can fail after delivery.

  `NoQueryLost` is not inductive on its own. `ResetRecords` copies the live map into the snapshot and `RemergeRecords` adds the snapshot back, so a leftover snapshot in the idle state would be counted twice. `IdleSnapshotEmpty` rules that out. The proof follows `Surplus(d) = delivered + pending − recorded`:
  - `Record` keeps it (`RecordAddsOne`);
  - reset and remerge keep the pending count (`ResetKeepsPending`, `RemergeKeepsPending`);
  - a successful upload moves counts from pending to delivered;
  - only `error_delivered` raises the surplus.
- `NoQueryLostThm` and `QueriesConservedThm` follow from `CountInvariant`.
- `Refinement`: when `error_delivered` is not an upload outcome, `Spec => RefinesAbstract` under the mapping `PendingMap` (pending = live + snapshot, defined in `BillStat`). `Record` maps to `RecordQuery`, a successful upload to `Deliver`, and every other step to a stutter (`StutterSteps`). The step proof rests on `CountInv`. With `error_delivered` the refinement fails; that is finding 1.
- `LiveCountNeverDecreasesThm`: the action property `LiveCountNeverDecreases`, from `TypeCorrect`. `Record` raises its device's live count by one (`RecordLiveCount`). `remergeRecords` adds the snapshot's count. The uploads and `Tick` leave the live map alone. Only the detach of `resetRecords` may lower it.

`BillStatOverlapProofs` proves:

- `TypeCorrect` for any number of overlapping refreshers: every remerge sum is a positive count (`RemergeTyped`).
- `OverlapQueriesConservedThm`: `Spec => []OverlapQueriesConserved` when `Refreshers` is two distinct callers, for any devices and bounds. The two are the periodic refresh worker and one more, as in `MC_BillStatOverlap`; the callers are wired up outside `src`. The proof has three parts.
  - **Inductive invariant.** `IInv` is `TypeOK`, `IdleSnapshotEmpty` and the property. As in `BillStatProofs`, it keeps `ResetRecords` from overwriting a snapshot that still counts.
  - **The fold.** `SnapSum(snap, d)` names the `MapThenSumSet` of `Pending`, and `PendingSnapSum` unfolds it in both states of a step. `SumOverTwo` computes the fold over two refreshers. The recursive function over `SUBSET {a, b}` has four arguments, so the proof exhibits it and shows every solution of its defining equation agrees with it. Which element `CHOOSE` picks does not matter, because `+` commutes. No induction is needed.
  - **One lemma per action.** Each lemma names the other refresher (`OtherRefresher`). `ResetKeeps` moves the live count into an empty snapshot. `DeliverKeeps` moves a snapshot into `delivered`. `RemergeKeeps` adds a snapshot to the live count (`RemergeQueries`). `RecordKeeps` adds one on both sides. `QuietKeeps` covers `Tick` and `UploadFailed`.

These stay with TLC:

- **Liveness** (`EveryQueryDelivered`), since the provers have no ENABLED or fairness reasoning.
- **`OverlapQueriesConserved` for three or more refreshers**. The run checks two as well, so three or more overlapping calls are covered by neither tool. Its pending count is a fold over the refreshers (`MapThenSumSet`). For an arbitrary finite set, the fold's laws need induction over finite sets: changing one summand changes the sum by the difference. The installed provers cannot instantiate the library's induction theorems, since they take an operator parameter. They also cannot instantiate a lemma whose conclusion holds a `LAMBDA` over a state variable, which is why the proof goes through `SnapSum`.

`StartupConfigProofs` proves `ValidatedNeverPanicsThm`: `Spec => []ValidatedNeverPanics`.
- **Inductive invariant:** once validation has passed, `RemoteKVErrors(check.kv) = {}`.
- **Lemma `AcceptedKVNeverPanics`:** a kv section that `remoteKVConfig.Validate` accepts has one of the four modes, and for each of them `newRemoteKV` and `newRemoteKVPrefix` return a store.
- **Assumptions:** only `ConstantsAssumption`. The result holds for any TTLs and any Consul and Redis limits.
- `TypeCorrect`: `Spec => []TypeOK`, with the lemma `BuiltStoreTyped`.

`RuleListProofs` proves, for any hosts, readers and rule lists:

- `NoStaleResultThm`: `Spec => []NoStaleResult`. The inductive invariant `IInv` adds:
  - `ReadersLocked`: a reader is inside `DNSResult` exactly while it holds the read lock;
  - `WriterWaiting`: the refresher waits for the write lock exactly in its lock step;
  - `FetchedValid`: a refresher past `Fetch` holds a rule list the fetcher returned.

  `NoStaleResult` alone is not inductive: `Swap` changes the engine. Only `ReadersLocked`, together with `Swap`'s guard that no reader holds the lock, says that no reader then holds an outcome of the old engine.
- `CacheKeptUntilSwapThm`: `Spec => CacheKeptUntilSwap`. A cached outcome changes only in two steps: the clear-and-swap that ends a successful refresh, or a reader's store that evicts it for another host. `FetchFailed` and a failed `Compile` leave the cache alone. The step relation is shown to imply `KeptStep`. The store case needs `IInv`: by `NoStaleResult` the reader stores the outcome of the installed engine, and so does any cached entry for its host. A store therefore rewrites its own host's entry only with the same outcome, and otherwise evicts another host's entry (`StoreKeeps`).
- `Refinement`: `Spec => RefinesAbstract` (`RuleListAbstract`), from `IInv`. A reader's unlock step is an `Answer`, a swap an `Install`.
- `TypeCorrect`: `Spec => []TypeOK`, the cache bound included. `CacheBound` (the set of cached hosts is finite and has at most `CacheSize` members) is inductive on its own, given the typing part of `IInv`:
  - a store adds its host (`FS_AddElement`);
  - an eviction removes another host first (`FS_RemoveElement`);
  - `Swap`'s clear empties the cache (`FS_EmptySet`).

  Finiteness is part of the invariant, so no assumption about the set of hosts is needed.

## 6. Not modelled, and the plan

Not modelled:

- the metrics, panic reporting (`cmd/error.go`) and generated gRPC code: no state that any property distinguishes;
- TLS configuration: certificate loading is I/O, and only its tests are under `src`;
- the store clients themselves (external);
- the blocking mode: `blockingmode.go` only declares the five variant types, and the code that turns a mode into a response is not under `src`;
- the device finder and the safe-search filter: only their tests are under `src`, so there is no code to translate.

Modelled from the spec (`spec_modelled`), because the code is not under `src`:

- the rule-list `baseFilter` and result cache.

Next steps, in order:

1. Liveness of the overlap variant: every snapshot is eventually delivered or remerged.
2. `OverlapQueriesConserved` for three or more refreshers, once the fold's laws can be proved without an operator-parameter induction.
