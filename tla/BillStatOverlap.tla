---------------------------- MODULE BillStatOverlap ----------------------------
(***************************************************************************)
(* The runtime billing-statistics recorder of src/internal/billstat/       *)
(* runtime.go with several concurrent Refresh calls.  RuntimeRecorder has *)
(* no guard against overlapping refreshes: r.mu is released during the    *)
(* upload, so a second Refresh can detach the map that Record calls have  *)
(* refilled while the first one is still uploading, and the two deferred  *)
(* remergeRecords calls then run in either order.                         *)
(*                                                                         *)
(* Queries start when they are recorded (the clock only moves forward),   *)
(* so every disorder of last-seen times found here is due to the overlap. *)
(* Country, ASN and protocol move together with Time, as in BillStat.     *)
(***************************************************************************)
EXTENDS Naturals, FiniteSetsExt

CONSTANTS
    Devices,        \* the device IDs of the queries
    Refreshers,     \* the goroutines that may call Refresh
    NoRecord,       \* the absence of a device from a Records map
    MaxTime,        \* bound on the clock
    MaxQueries      \* bound on the Record calls per device

ASSUME OverlapAssumption ==
    /\ NoRecord \notin [time : Nat, queries : Nat]
    /\ MaxTime \in Nat /\ MaxQueries \in Nat

VARIABLES
    records,   \* r.records, the live map
    snapshot,  \* per refresher: the local `records` of its Refresh call
    refresh,   \* per refresher: "idle", "upload" or "remerge"
    clock,     \* the wall clock, in ticks
    recorded,  \* ghost: Record calls per device
    delivered  \* ghost: queries per device the backend has accepted

vars == <<records, snapshot, refresh, clock, recorded, delivered>>

Rec == [time : 0..MaxTime, queries : Nat \ {0}]

EmptyRecords == [d \in Devices |-> NoRecord]

Queries(m, d) == IF m[d] = NoRecord THEN 0 ELSE m[d].queries

TypeOK ==
    /\ records \in [Devices -> Rec \cup {NoRecord}]
    /\ snapshot \in [Refreshers -> [Devices -> Rec \cup {NoRecord}]]
    /\ refresh \in [Refreshers -> {"idle", "upload", "remerge"}]
    /\ clock \in 0..MaxTime
    /\ recorded \in [Devices -> Nat]
    /\ delivered \in [Devices -> Nat]

Init ==
    /\ records = EmptyRecords
    /\ snapshot = [r \in Refreshers |-> EmptyRecords]
    /\ refresh = [r \in Refreshers |-> "idle"]
    /\ clock = 0
    /\ recorded = [d \in Devices |-> 0]
    /\ delivered = [d \in Devices |-> 0]

-----------------------------------------------------------------------------
\* Mutant: a new record starts with Queries 0 (off by one).
RecordZeroQueries(d) ==
    /\ recorded[d] < MaxQueries
    /\ records' = [records EXCEPT ![d] =
                      IF @ = NoRecord
                      THEN [time |-> clock, queries |-> 0]
                      ELSE [time |-> clock, queries |-> @.queries + 1]]
    /\ recorded' = [recorded EXCEPT ![d] = @ + 1]
    /\ UNCHANGED <<snapshot, refresh, clock, delivered>>

(* Record: a query that starts now; insert with Queries 1 or overwrite the *)
(* metadata and increment Queries.                                        *)
Record(d) ==
    /\ recorded[d] < MaxQueries
    /\ records' = [records EXCEPT ![d] =
                      IF @ = NoRecord
                      THEN [time |-> clock, queries |-> 1]
                      ELSE [time |-> clock, queries |-> @.queries + 1]]
    /\ recorded' = [recorded EXCEPT ![d] = @ + 1]
    /\ UNCHANGED <<snapshot, refresh, clock, delivered>>

(* Refresh by r, first step: resetRecords.                                *)
ResetRecords(r) ==
    /\ refresh[r] = "idle"
    /\ snapshot' = [snapshot EXCEPT ![r] = records]
    /\ records' = EmptyRecords
    /\ refresh' = [refresh EXCEPT ![r] = "upload"]
    /\ UNCHANGED <<clock, recorded, delivered>>

(* Refresh by r, Upload returned nil.                                     *)
UploadSucceeded(r) ==
    /\ refresh[r] = "upload"
    /\ delivered' = [d \in Devices |-> delivered[d] + Queries(snapshot[r], d)]
    /\ snapshot' = [snapshot EXCEPT ![r] = EmptyRecords]
    /\ refresh' = [refresh EXCEPT ![r] = "idle"]
    /\ UNCHANGED <<records, clock, recorded>>

(* Refresh by r, Upload returned an error: the deferred remerge follows.  *)
UploadFailed(r) ==
    /\ refresh[r] = "upload"
    /\ refresh' = [refresh EXCEPT ![r] = "remerge"]
    /\ UNCHANGED <<records, snapshot, clock, recorded, delivered>>

\* Mutant: a device present in both maps keeps only its live count.
RemergeKeepsLive(r) ==
    /\ refresh[r] = "remerge"
    /\ records' = [d \in Devices |->
                     IF records[d] = NoRecord THEN snapshot[r][d] ELSE records[d]]
    /\ snapshot' = [snapshot EXCEPT ![r] = EmptyRecords]
    /\ refresh' = [refresh EXCEPT ![r] = "idle"]
    /\ UNCHANGED <<clock, recorded, delivered>>

(* remergeRecords of r's snapshot: absent devices get the old record back; *)
(* present ones keep their metadata and add the old Queries.              *)
RemergeRecords(r) ==
    /\ refresh[r] = "remerge"
    /\ records' = [d \in Devices |->
                     LET prev == snapshot[r][d] IN
                     IF prev = NoRecord THEN records[d]
                     ELSE IF records[d] = NoRecord THEN prev
                     ELSE [records[d] EXCEPT !.queries = @ + prev.queries]]
    /\ snapshot' = [snapshot EXCEPT ![r] = EmptyRecords]
    /\ refresh' = [refresh EXCEPT ![r] = "idle"]
    /\ UNCHANGED <<clock, recorded, delivered>>

Tick ==
    /\ clock < MaxTime
    /\ clock' = clock + 1
    /\ UNCHANGED <<records, snapshot, refresh, recorded, delivered>>

Next ==
    \/ \E d \in Devices : Record(d)
    \/ \E r \in Refreshers :
          \/ ResetRecords(r) \/ UploadSucceeded(r)
          \/ UploadFailed(r) \/ RemergeRecords(r)
    \/ Tick

Spec == Init /\ [][Next]_vars

-----------------------------------------------------------------------------
\* The queries of device d held in memory: the live map and every snapshot.
Pending(d) == Queries(records, d) + MapThenSumSet(LAMBDA r : Queries(snapshot[r], d), Refreshers)

(***************************************************************************)
(* Overlapping Refresh calls still count every recorded query exactly     *)
(* once: each detached snapshot is remerged or delivered, and never both. *)
(***************************************************************************)
OverlapQueriesConserved ==
    \A d \in Devices : recorded[d] = delivered[d] + Pending(d)

(***************************************************************************)
(* remergeRecords keeps the live record's metadata because "there is      *)
(* already a newer record" (its comment, and spec section 4.5): whenever *)
(* a device is both live and in a detached snapshot, the live record is  *)
(* at least as recent as the snapshot's.                                  *)
(***************************************************************************)
LiveRecordNewest ==
    \A d \in Devices, r \in Refreshers :
        records[d] # NoRecord /\ snapshot[r][d] # NoRecord
            => snapshot[r][d].time <= records[d].time

=============================================================================
