------------------------------ MODULE BillStat ------------------------------
(***************************************************************************)
(* The runtime billing-statistics recorder of src/internal/billstat/       *)
(* runtime.go.  Query-serving goroutines call Record, each call one atomic *)
(* critical section under r.mu.  A single periodic refresher calls         *)
(* Refresh, which is NOT atomic: it detaches the live map under r.mu       *)
(* (resetRecords), uploads it without the lock, and, if the upload         *)
(* returned an error, re-merges it into the live map under r.mu again      *)
(* (remergeRecords, run from the deferred function).  Record calls of      *)
(* other goroutines interleave with every one of these steps.              *)
(*                                                                         *)
(* A record's country, ASN and protocol are overwritten together with its  *)
(* Time in every branch of the code, so Time stands for all of them.       *)
(* Two ghost variables count what the system promises: recorded (one per   *)
(* Record call) and delivered (the queries the backend has accepted).      *)
(***************************************************************************)
EXTENDS Naturals

CONSTANTS
    Devices,        \* the device IDs of the queries
    NoRecord,       \* the absence of a device from a Records map
    UploadOutcomes, \* what Uploader.Upload may do, a subset of Outcomes
    Lag,            \* how many ticks a query's start may precede its Record
    MaxTime,        \* bound on the clock
    MaxQueries      \* bound on the Record calls per device

\* The outcomes of one Upload call: success; an error with nothing stored
\* by the backend; an error after the backend already stored the stream
\* (a deadline expiring while the final acknowledgement is in flight).
Outcomes == {"ok", "error", "error_delivered"}

ASSUME NoRecordAssumption == NoRecord \notin [time : Nat, queries : Nat]
ASSUME OutcomesAssumption == UploadOutcomes \subseteq Outcomes
ASSUME BoundsAssumption == Lag \in Nat /\ MaxTime \in Nat /\ MaxQueries \in Nat

VARIABLES
    records,   \* r.records, the live map
    snapshot,  \* the local `records` of the Refresh call in progress
    refresh,   \* where the refresher is: "idle", "upload" or "remerge"
    clock,     \* the wall clock, in ticks
    recorded,  \* ghost: Record calls per device
    delivered  \* ghost: queries per device the backend has accepted

vars == <<records, snapshot, refresh, clock, recorded, delivered>>

\* A *Record of the code, abstracted to its Time and Queries fields.
Rec == [time : 0..MaxTime, queries : Nat \ {0}]

\* Records{}, the empty map.
EmptyRecords == [d \in Devices |-> NoRecord]

\* The Queries of device d in map m, zero if d is absent.
Queries(m, d) == IF m[d] = NoRecord THEN 0 ELSE m[d].queries

\* The start times a query being recorded now may carry: its request
\* started at most Lag ticks ago, the request context's timeout.
StartTimes == {t \in 0..clock : clock <= t + Lag}

TypeOK ==
    /\ records \in [Devices -> Rec \cup {NoRecord}]
    /\ snapshot \in [Devices -> Rec \cup {NoRecord}]
    /\ refresh \in {"idle", "upload", "remerge"}
    /\ clock \in 0..MaxTime
    /\ recorded \in [Devices -> Nat]
    /\ delivered \in [Devices -> Nat]

Init ==
    /\ records = EmptyRecords
    /\ snapshot = EmptyRecords
    /\ refresh = "idle"
    /\ clock = 0
    /\ recorded = [d \in Devices |-> 0]
    /\ delivered = [d \in Devices |-> 0]

-----------------------------------------------------------------------------
\* Mutant: a new record starts with Queries 0 (off by one).
RecordZeroQueries(d, start) ==
    /\ recorded[d] < MaxQueries
    /\ records' = [records EXCEPT ![d] =
                      IF @ = NoRecord
                      THEN [time |-> start, queries |-> 0]
                      ELSE [time |-> start, queries |-> @.queries + 1]]
    /\ recorded' = [recorded EXCEPT ![d] = @ + 1]
    /\ UNCHANGED <<snapshot, refresh, clock, delivered>>

(* Record(ctx, id, ctry, asn, start, proto): insert a record with Queries  *)
(* 1 or overwrite the metadata of the present one and increment Queries.   *)
Record(d, start) ==
    /\ recorded[d] < MaxQueries
    /\ records' = [records EXCEPT ![d] =
                      IF @ = NoRecord
                      THEN [time |-> start, queries |-> 1]
                      ELSE [time |-> start, queries |-> @.queries + 1]]
    /\ recorded' = [recorded EXCEPT ![d] = @ + 1]
    /\ UNCHANGED <<snapshot, refresh, clock, delivered>>

(* Refresh, first step: resetRecords swaps the live map for an empty one.  *)
ResetRecords ==
    /\ refresh = "idle"
    /\ snapshot' = records
    /\ records' = EmptyRecords
    /\ refresh' = "upload"
    /\ UNCHANGED <<clock, recorded, delivered>>

(* Refresh, Upload returned nil: the deferred function does not remerge,  *)
(* the detached map is dropped and the backend holds its counts.          *)
UploadSucceeded ==
    /\ refresh = "upload"
    /\ "ok" \in UploadOutcomes
    /\ delivered' = [d \in Devices |-> delivered[d] + Queries(snapshot, d)]
    /\ snapshot' = EmptyRecords
    /\ refresh' = "idle"
    /\ UNCHANGED <<records, clock, recorded>>

\* Mutant: a failed upload is only reported, never remerged.
UploadFailedNoRemerge(o) ==
    /\ refresh = "upload"
    /\ o = "error_delivered" =>
          \A d \in Devices : delivered[d] + Queries(snapshot, d) <= MaxQueries
    /\ delivered' = IF o = "error_delivered"
                    THEN [d \in Devices |-> delivered[d] + Queries(snapshot, d)]
                    ELSE delivered
    /\ snapshot' = EmptyRecords
    /\ refresh' = "idle"
    /\ UNCHANGED <<records, clock, recorded>>

(* Refresh, Upload returned an error: errcoll.Collectf, then the deferred  *)
(* function remerges.  With "error_delivered" the backend kept the stream; *)
(* that outcome is bounded so the backend's counts stay at most MaxQueries. *)
UploadFailed(o) ==
    /\ refresh = "upload"
    /\ o = "error_delivered" =>
          \A d \in Devices : delivered[d] + Queries(snapshot, d) <= MaxQueries
    /\ delivered' = IF o = "error_delivered"
                    THEN [d \in Devices |-> delivered[d] + Queries(snapshot, d)]
                    ELSE delivered
    /\ refresh' = "remerge"
    /\ UNCHANGED <<records, snapshot, clock, recorded>>

\* Mutant: a device present in both maps keeps only its live count.
RemergeKeepsLive ==
    /\ refresh = "remerge"
    /\ records' = [d \in Devices |->
                     IF records[d] = NoRecord THEN snapshot[d] ELSE records[d]]
    /\ snapshot' = EmptyRecords
    /\ refresh' = "idle"
    /\ UNCHANGED <<clock, recorded, delivered>>

\* Mutant: the old record is put back over the live one.
RemergeOverwrite ==
    /\ refresh = "remerge"
    /\ records' = [d \in Devices |->
                     IF snapshot[d] = NoRecord THEN records[d] ELSE snapshot[d]]
    /\ snapshot' = EmptyRecords
    /\ refresh' = "idle"
    /\ UNCHANGED <<clock, recorded, delivered>>

\* Mutant: only devices still in the live map get their old counts back.
RemergeSkipAbsent ==
    /\ refresh = "remerge"
    /\ records' = [d \in Devices |->
                     IF snapshot[d] = NoRecord \/ records[d] = NoRecord
                     THEN records[d]
                     ELSE [records[d] EXCEPT !.queries = @ + snapshot[d].queries]]
    /\ snapshot' = EmptyRecords
    /\ refresh' = "idle"
    /\ UNCHANGED <<clock, recorded, delivered>>

(* remergeRecords: a device absent from the live map gets its old record  *)
(* back; a present one keeps its newer metadata and adds the old Queries. *)
RemergeRecords ==
    /\ refresh = "remerge"
    /\ records' = [d \in Devices |->
                     IF snapshot[d] = NoRecord THEN records[d]
                     ELSE IF records[d] = NoRecord THEN snapshot[d]
                     ELSE [records[d] EXCEPT !.queries = @ + snapshot[d].queries]]
    /\ snapshot' = EmptyRecords
    /\ refresh' = "idle"
    /\ UNCHANGED <<clock, recorded, delivered>>

\* Time passes.
Tick ==
    /\ clock < MaxTime
    /\ clock' = clock + 1
    /\ UNCHANGED <<records, snapshot, refresh, recorded, delivered>>

Next ==
    \/ \E d \in Devices, t \in StartTimes : Record(d, t)
    \/ ResetRecords
    \/ UploadSucceeded
    \/ \E o \in UploadOutcomes \ {"ok"} : UploadFailed(o)
    \/ RemergeRecords
    \/ Tick

\* The refresher is driven by a ticker (WF on its first step), the deferred
\* remerge always runs, and the backend is assumed to accept an upload
\* eventually if uploads are tried again and again.
Fairness ==
    /\ WF_vars(ResetRecords)
    /\ WF_vars(RemergeRecords)
    /\ SF_vars(UploadSucceeded)

Spec == Init /\ [][Next]_vars

FairSpec == Spec /\ Fairness

-----------------------------------------------------------------------------
\* The queries of device d held in memory: live map plus detached snapshot.
Pending(d) == Queries(records, d) + Queries(snapshot, d)

(***************************************************************************)
(* Every query passed to Record is counted exactly once: it is in the live *)
(* map, in the snapshot being uploaded, or in the backend, never in two of *)
(* them and never in none.  Breaking it takes a Record interleaved between *)
(* resetRecords, a failed Upload and remergeRecords.                      *)
(***************************************************************************)
QueriesConserved ==
    \A d \in Devices : recorded[d] = delivered[d] + Pending(d)

(***************************************************************************)
(* No query passed to Record is lost by a failed upload: the backend and  *)
(* memory together hold at least every recorded query.                    *)
(***************************************************************************)
NoQueryLost ==
    \A d \in Devices : recorded[d] <= delivered[d] + Pending(d)

(***************************************************************************)
(* The query count a device has in the live map never decreases, except   *)
(* when resetRecords detaches the whole map (remergeRecords included).    *)
(***************************************************************************)
LiveCountNeverDecreases ==
    [][\/ refresh = "idle" /\ refresh' = "upload"
       \/ \A d \in Devices : Queries(records, d) <= Queries(records', d)]_vars

(***************************************************************************)
(* The last-seen time of a device's record never moves backwards while    *)
(* the record stays in the live map (the spec's "freshness metadata never *)
(* regresses"), whether by Record or by remergeRecords.                   *)
(***************************************************************************)
LastSeenNeverRegresses ==
    [][\A d \in Devices :
         records[d] # NoRecord /\ records'[d] # NoRecord
           => records[d].time <= records'[d].time]_vars

\* Strengthenings that make the counting invariants inductive: a Refresh
\* that is not running holds no snapshot.
IdleSnapshotEmpty == refresh = "idle" => snapshot = EmptyRecords

CountInv ==
    /\ TypeOK
    /\ IdleSnapshotEmpty
    /\ NoQueryLost
    /\ "error_delivered" \notin UploadOutcomes => QueriesConserved

(***************************************************************************)
(* Every recorded query eventually reaches the backend, under the         *)
(* fairness above: no record stays stranded in memory.                    *)
(***************************************************************************)
EveryQueryDelivered ==
    \A d \in Devices, n \in 1..MaxQueries :
        recorded[d] >= n ~> delivered[d] >= n

-----------------------------------------------------------------------------
\* The refinement mapping: a device's pending queries are those in the live
\* map and in the snapshot being uploaded.
PendingMap == [d \in Devices |-> Pending(d)]

Abstract == INSTANCE BillStatAbstract WITH pending <- PendingMap

(***************************************************************************)
(* The recorder implements the abstract counter: every step of Record,    *)
(* resetRecords, Upload and remergeRecords is a recording, a delivery or  *)
(* a step that leaves every device's pending and delivered counts alone.  *)
(***************************************************************************)
RefinesAbstract == Abstract!Spec

=============================================================================
