--------------------------- MODULE BillStatProofs ---------------------------
(***************************************************************************)
(* Proofs about the billing-statistics recorder of BillStat, for every set *)
(* of devices and every bound.  The counting invariants are not inductive  *)
(* as they stand: resetRecords overwrites the snapshot, so they are proved *)
(* together with IdleSnapshotEmpty (an idle refresher holds no snapshot)   *)
(* and the type invariant.                                                 *)
(***************************************************************************)
EXTENDS BillStat, Integers, TLAPS

\* No record of the code is the NoRecord marker.
LEMMA NoRecordNotRec == NoRecord \notin Rec
BY NoRecordAssumption DEF Rec

\* The Queries of a device in a well-typed map is a natural number.
LEMMA QueriesNat ==
    ASSUME NEW m \in [Devices -> Rec \cup {NoRecord}], NEW d \in Devices
    PROVE  Queries(m, d) \in Nat
BY DEF Queries, Rec

\* The empty map holds no queries.
LEMMA QueriesEmpty ==
    ASSUME NEW d \in Devices
    PROVE  Queries(EmptyRecords, d) = 0
BY DEF Queries, EmptyRecords

-----------------------------------------------------------------------------
\* One step of Next keeps the type invariant.
LEMMA TypeStep == TypeOK /\ [Next]_vars => TypeOK'
<1> SUFFICES ASSUME TypeOK, [Next]_vars PROVE TypeOK'
  OBVIOUS
<1>1. ASSUME NEW d \in Devices, NEW t \in StartTimes, Record(d, t)
      PROVE  TypeOK'
  <2>1. t \in 0..MaxTime
    BY BoundsAssumption DEF StartTimes, TypeOK
  <2>2. records[d] # NoRecord => records[d].queries \in Nat \ {0}
    BY DEF TypeOK, Rec
  <2> QED
    BY <1>1, <2>1, <2>2 DEF Record, TypeOK, Rec
<1>2. CASE ResetRecords
  BY <1>2 DEF ResetRecords, TypeOK, EmptyRecords
<1>3. CASE UploadSucceeded
  BY <1>3, QueriesNat DEF UploadSucceeded, TypeOK, EmptyRecords
<1>4. ASSUME NEW o \in UploadOutcomes \ {"ok"}, UploadFailed(o)
      PROVE  TypeOK'
  BY <1>4, QueriesNat DEF UploadFailed, TypeOK
<1>5. CASE RemergeRecords
  <2>1. ASSUME NEW d \in Devices
        PROVE  records'[d] \in Rec \cup {NoRecord}
    BY <1>5 DEF RemergeRecords, TypeOK, Rec
  <2> QED
    BY <1>5, <2>1 DEF RemergeRecords, TypeOK, EmptyRecords
<1>6. CASE Tick
  BY <1>6, BoundsAssumption DEF Tick, TypeOK
<1>7. CASE UNCHANGED vars
  BY <1>7 DEF vars, TypeOK
<1> QED
  BY <1>1, <1>2, <1>3, <1>4, <1>5, <1>6, <1>7 DEF Next

(***************************************************************************)
(* Type correctness: every step of Record, Refresh and the clock keeps    *)
(* the maps well formed, in particular remergeRecords' sum of counts.     *)
(***************************************************************************)
THEOREM TypeCorrect == Spec => []TypeOK
<1>1. Init => TypeOK
  BY BoundsAssumption DEF Init, TypeOK, EmptyRecords
<1>2. QED
  BY <1>1, TypeStep, PTL DEF Spec


-----------------------------------------------------------------------------
(***************************************************************************)
(* How each action moves a device's pending count, the queries held in    *)
(* the live map and in the detached snapshot.                             *)
(***************************************************************************)
\* The counts of a well-typed state are natural numbers.
LEMMA CountsNat ==
    ASSUME TypeOK, NEW d \in Devices
    PROVE  /\ Queries(records, d) \in Nat
           /\ Queries(snapshot, d) \in Nat
           /\ recorded[d] \in Nat
           /\ delivered[d] \in Nat
BY QueriesNat DEF TypeOK

\* Pending(d) is a natural number in a well-typed state.
LEMMA PendingNat ==
    ASSUME TypeOK, NEW d \in Devices
    PROVE  Pending(d) \in Nat
BY CountsNat DEF Pending

\* resetRecords moves the live map into an empty snapshot.
LEMMA ResetKeepsPending ==
    ASSUME TypeOK, IdleSnapshotEmpty, ResetRecords, NEW d \in Devices
    PROVE  Pending(d)' = Pending(d)
BY QueriesEmpty, QueriesNat
   DEF ResetRecords, IdleSnapshotEmpty, Pending, TypeOK

\* remergeRecords adds the snapshot's counts to the live map's, per device.
LEMMA RemergeKeepsPending ==
    ASSUME TypeOK, RemergeRecords, NEW d \in Devices
    PROVE  Pending(d)' = Pending(d)
<1>1. Queries(snapshot', d) = 0
  BY QueriesEmpty DEF RemergeRecords
<1>2. Queries(records', d) = Queries(records, d) + Queries(snapshot, d)
  BY NoRecordNotRec DEF RemergeRecords, Queries, TypeOK, Rec
<1> QED
  BY <1>1, <1>2, CountsNat DEF Pending

\* Record adds one query to the device's live record and none elsewhere.
LEMMA RecordAddsOne ==
    ASSUME TypeOK, NEW d \in Devices, NEW t \in Nat, Record(d, t),
           NEW e \in Devices
    PROVE  Pending(e)' = IF e = d THEN Pending(e) + 1 ELSE Pending(e)
<1>1. Queries(snapshot', e) = Queries(snapshot, e)
  BY DEF Record, Queries
<1>2. CASE e # d
  BY <1>2 DEF Record, Queries, Pending, TypeOK
<1>3. CASE e = d
  <2>1. records[d] # NoRecord => records[d].queries \in Nat
    BY DEF TypeOK, Rec
  <2>2. records'[d] = [time |-> t,
                       queries |-> Queries(records, d) + 1]
    BY <1>3, <2>1 DEF Record, Queries, TypeOK
  <2>3. records'[d] # NoRecord
    BY <2>2, CountsNat, NoRecordAssumption
  <2>4. Queries(records', d) = Queries(records, d) + 1
    BY <2>2, <2>3 DEF Queries
  <2> QED
    BY <1>3, <2>4, <1>1, CountsNat DEF Pending
<1> QED
  BY <1>1, <1>2, <1>3 DEF Pending

\* The same for the primed state.
LEMMA PendingNatPrimed ==
    ASSUME TypeOK', NEW d \in Devices
    PROVE  Pending(d)' \in Nat
BY QueriesNat DEF TypeOK, Pending

\* How far the backend and memory together exceed the recorded queries:
\* NoQueryLost says it is never negative, QueriesConserved that it is zero.
Surplus(d) == delivered[d] + Pending(d) - recorded[d]

\* The surplus of a well-typed state is an integer.
LEMMA SurplusInt ==
    ASSUME TypeOK, NEW d \in Devices
    PROVE  Surplus(d) \in Int
BY CountsNat, PendingNat DEF Surplus

\* The same for the primed state.
LEMMA SurplusIntPrimed ==
    ASSUME TypeOK', NEW d \in Devices
    PROVE  Surplus(d)' \in Int
<1>1. recorded'[d] \in Nat /\ delivered'[d] \in Nat
  BY DEF TypeOK
<1> QED
  BY <1>1, PendingNatPrimed DEF Surplus

\* Both counting properties in terms of the surplus.
LEMMA SurplusMeaning ==
    ASSUME TypeOK
    PROVE  /\ NoQueryLost <=> \A d \in Devices : Surplus(d) >= 0
           /\ QueriesConserved <=> \A d \in Devices : Surplus(d) = 0
<1>1. ASSUME NEW d \in Devices
      PROVE  /\ recorded[d] <= delivered[d] + Pending(d) <=> Surplus(d) >= 0
             /\ recorded[d] = delivered[d] + Pending(d) <=> Surplus(d) = 0
  BY CountsNat, PendingNat DEF Surplus
<1> QED
  BY <1>1 DEF NoQueryLost, QueriesConserved

\* The same for the primed state.
LEMMA SurplusMeaningPrimed ==
    ASSUME TypeOK'
    PROVE  /\ NoQueryLost' <=> \A d \in Devices : Surplus(d)' >= 0
           /\ QueriesConserved' <=> \A d \in Devices : Surplus(d)' = 0
<1>1. ASSUME NEW d \in Devices
      PROVE  /\ recorded'[d] <= delivered'[d] + Pending(d)' <=> Surplus(d)' >= 0
             /\ recorded'[d] = delivered'[d] + Pending(d)' <=> Surplus(d)' = 0
  <2>1. recorded'[d] \in Nat /\ delivered'[d] \in Nat
    BY DEF TypeOK
  <2> QED
    BY <2>1, PendingNatPrimed DEF Surplus
<1> QED
  BY <1>1 DEF NoQueryLost, QueriesConserved

-----------------------------------------------------------------------------
(***************************************************************************)
(* The counting invariant CountInv is inductive.  A failed upload leaves  *)
(* memory untouched and remergeRecords puts the snapshot back, so every   *)
(* query stays counted (the surplus is unchanged); only an upload whose   *)
(* error follows the backend's acceptance raises the surplus.             *)
(***************************************************************************)
THEOREM CountInvariant == Spec => []CountInv
<1>1. Init => CountInv
  <2> SUFFICES ASSUME Init PROVE CountInv
    OBVIOUS
  <2>1. TypeOK
    BY BoundsAssumption DEF Init, TypeOK, EmptyRecords
  <2>2. ASSUME NEW d \in Devices PROVE Surplus(d) = 0
    <3>1. Pending(d) = 0
      BY QueriesEmpty DEF Init, Pending
    <3> QED
      BY <3>1 DEF Init, Surplus
  <2>3. IdleSnapshotEmpty
    BY DEF Init, IdleSnapshotEmpty
  <2> QED
    BY <2>1, <2>2, <2>3, SurplusMeaning DEF CountInv
<1>2. CountInv /\ [Next]_vars => CountInv'
  <2> SUFFICES ASSUME CountInv, [Next]_vars PROVE CountInv'
    OBVIOUS
  <2>0. TypeOK /\ TypeOK'
    BY TypeStep DEF CountInv
  \* Each action either keeps every surplus or, for an upload failing
  \* after delivery, raises it; and each keeps IdleSnapshotEmpty.
  <2>1. /\ IdleSnapshotEmpty'
        /\ \A d \in Devices : Surplus(d)' >= Surplus(d)
        /\ "error_delivered" \notin UploadOutcomes =>
              \A d \in Devices : Surplus(d)' = Surplus(d)
    <3>1. ASSUME NEW d \in Devices, NEW t \in StartTimes, Record(d, t)
          PROVE  <2>1
      <4>1. t \in Nat
        BY BoundsAssumption DEF StartTimes
      <4>2. ASSUME NEW e \in Devices PROVE Surplus(e)' = Surplus(e)
        <5>1. Pending(e)' = IF e = d THEN Pending(e) + 1 ELSE Pending(e)
          BY <3>1, <4>1, RecordAddsOne DEF CountInv
        <5>2. recorded'[e] = IF e = d THEN recorded[e] + 1 ELSE recorded[e]
          BY <3>1 DEF Record, CountInv, TypeOK
        <5>3. delivered'[e] = delivered[e]
          BY <3>1 DEF Record
        <5> QED
          BY <2>0, <5>1, <5>2, <5>3, CountsNat, PendingNat DEF Surplus
      <4>3. IdleSnapshotEmpty'
        BY <3>1 DEF CountInv, IdleSnapshotEmpty, Record
      <4> QED
        BY <2>0, <4>2, <4>3, SurplusInt, SurplusIntPrimed
    <3>2. CASE ResetRecords
      <4>1. ASSUME NEW e \in Devices PROVE Surplus(e)' = Surplus(e)
        BY <3>2, ResetKeepsPending DEF CountInv, ResetRecords, Surplus
      <4>2. IdleSnapshotEmpty'
        BY <3>2 DEF ResetRecords, IdleSnapshotEmpty
      <4> QED
        BY <2>0, <4>1, <4>2, SurplusInt, SurplusIntPrimed
    <3>3. CASE UploadSucceeded
      <4>1. ASSUME NEW e \in Devices PROVE Surplus(e)' = Surplus(e)
        <5>1. Pending(e)' = Queries(records, e)
          BY <2>0, <3>3, QueriesEmpty, CountsNat DEF UploadSucceeded, Pending
        <5>2. delivered'[e] = delivered[e] + Queries(snapshot, e)
          BY <3>3 DEF UploadSucceeded
        <5> QED
          BY <2>0, <3>3, <5>1, <5>2, CountsNat DEF UploadSucceeded, Surplus, Pending
      <4>2. IdleSnapshotEmpty'
        BY <3>3 DEF UploadSucceeded, IdleSnapshotEmpty
      <4> QED
        BY <2>0, <4>1, <4>2, SurplusInt, SurplusIntPrimed
    <3>4. ASSUME NEW o \in UploadOutcomes \ {"ok"}, UploadFailed(o)
          PROVE  <2>1
      <4>1. ASSUME NEW e \in Devices
            PROVE  /\ Surplus(e)' >= Surplus(e)
                   /\ o # "error_delivered" => Surplus(e)' = Surplus(e)
        <5>1. Pending(e)' = Pending(e)
          BY <3>4 DEF UploadFailed, Pending
        <5>2. delivered'[e] \in {delivered[e], delivered[e] + Queries(snapshot, e)}
          BY <3>4 DEF UploadFailed
        <5>3. o # "error_delivered" => delivered'[e] = delivered[e]
          BY <3>4 DEF UploadFailed
        <5> QED
          BY <2>0, <3>4, <5>1, <5>2, <5>3, CountsNat, PendingNat
             DEF UploadFailed, Surplus
      <4>2. IdleSnapshotEmpty'
        BY <3>4 DEF UploadFailed, IdleSnapshotEmpty
      <4> QED
        BY <2>0, <4>1, <4>2, SurplusInt, SurplusIntPrimed
    <3>5. CASE RemergeRecords
      <4>1. ASSUME NEW e \in Devices PROVE Surplus(e)' = Surplus(e)
        BY <3>5, RemergeKeepsPending DEF CountInv, RemergeRecords, Surplus
      <4>2. IdleSnapshotEmpty'
        BY <3>5 DEF RemergeRecords, IdleSnapshotEmpty
      <4> QED
        BY <2>0, <4>1, <4>2, SurplusInt, SurplusIntPrimed
    <3>6. CASE Tick \/ UNCHANGED vars
      <4>1. ASSUME NEW e \in Devices PROVE Surplus(e)' = Surplus(e)
        BY <3>6 DEF Tick, vars, Surplus, Pending, Queries
      <4>2. IdleSnapshotEmpty'
        BY <3>6, <2>0 DEF CountInv, Tick, vars, IdleSnapshotEmpty, EmptyRecords
      <4> QED
        BY <2>0, <4>1, <4>2, SurplusInt, SurplusIntPrimed
    <3> QED
      BY <3>1, <3>2, <3>3, <3>4, <3>5, <3>6 DEF Next
  <2>2. \A d \in Devices : Surplus(d) >= 0
    BY <2>0, SurplusMeaning DEF CountInv
  <2>3. "error_delivered" \notin UploadOutcomes => \A d \in Devices : Surplus(d) = 0
    BY <2>0, SurplusMeaning DEF CountInv
  <2>4. /\ NoQueryLost'
        /\ "error_delivered" \notin UploadOutcomes => QueriesConserved'
    BY <2>0, <2>1, <2>2, <2>3, SurplusInt, SurplusIntPrimed, SurplusMeaningPrimed
  <2> QED
    BY <2>0, <2>1, <2>4 DEF CountInv
<1>3. QED
  BY <1>1, <1>2, PTL DEF Spec

(***************************************************************************)
(* No query passed to Record is lost by a failed upload, whatever Upload  *)
(* does and however Record calls interleave with Refresh.                 *)
(***************************************************************************)
THEOREM NoQueryLostThm == Spec => []NoQueryLost
<1>1. CountInv => NoQueryLost
  BY DEF CountInv
<1> QED
  BY <1>1, CountInvariant, PTL

(***************************************************************************)
(* If an upload error always means the backend kept nothing, every        *)
(* recorded query is counted exactly once: in memory or in the backend.   *)
(***************************************************************************)
THEOREM QueriesConservedThm ==
    "error_delivered" \notin UploadOutcomes => (Spec => []QueriesConserved)
<1> SUFFICES ASSUME "error_delivered" \notin UploadOutcomes
             PROVE  Spec => []QueriesConserved
  OBVIOUS
<1>1. CountInv => QueriesConserved
  BY DEF CountInv
<1> QED
  BY <1>1, CountInvariant, PTL

-----------------------------------------------------------------------------
(***************************************************************************)
(* The refinement of BillStatAbstract.  A device's abstract pending count *)
(* is what the live map and the detached snapshot hold together.          *)
(***************************************************************************)

\* resetRecords, a failed upload with nothing stored, remergeRecords and a
\* tick leave every abstract count alone.
LEMMA StutterSteps ==
    ASSUME CountInv, "error_delivered" \notin UploadOutcomes,
           \/ ResetRecords
           \/ \E o \in UploadOutcomes \ {"ok"} : UploadFailed(o)
           \/ RemergeRecords
           \/ Tick
    PROVE  UNCHANGED <<PendingMap, delivered>>
<1>1. TypeOK /\ IdleSnapshotEmpty
  BY DEF CountInv
<1>2. CASE ResetRecords
  BY <1>1, <1>2, ResetKeepsPending DEF ResetRecords, PendingMap
<1>3. CASE \E o \in UploadOutcomes \ {"ok"} : UploadFailed(o)
  <2>1. PICK o \in UploadOutcomes \ {"ok"} : UploadFailed(o)
    BY <1>3
  <2>2. o # "error_delivered"
    BY <2>1
  <2> QED
    BY <2>1, <2>2 DEF UploadFailed, PendingMap, Pending
<1>4. CASE RemergeRecords
  BY <1>1, <1>4, RemergeKeepsPending DEF RemergeRecords, PendingMap
<1>5. CASE Tick
  BY <1>5 DEF Tick, PendingMap, Pending
<1> QED
  BY <1>2, <1>3, <1>4, <1>5

(***************************************************************************)
(* If an upload error always means the backend kept nothing, the recorder *)
(* implements the abstract counter: Record is a recording, a successful   *)
(* upload a delivery of the snapshot, and resetRecords, a failed upload   *)
(* and its remergeRecords change no device's pending or delivered count.  *)
(***************************************************************************)
THEOREM Refinement ==
    "error_delivered" \notin UploadOutcomes => (Spec => RefinesAbstract)
<1> SUFFICES ASSUME "error_delivered" \notin UploadOutcomes
             PROVE  Spec => RefinesAbstract
  OBVIOUS
<1>1. Init => Abstract!Init
  BY QueriesEmpty DEF Init, Abstract!Init, PendingMap, Pending
<1>2. CountInv /\ [Next]_vars => [Abstract!Next]_<<PendingMap, delivered>>
  <2> SUFFICES ASSUME CountInv, [Next]_vars
               PROVE  [Abstract!Next]_<<PendingMap, delivered>>
    OBVIOUS
  <2>0. TypeOK
    BY DEF CountInv
  <2>1. ASSUME NEW d \in Devices, NEW t \in StartTimes, Record(d, t)
        PROVE  Abstract!RecordQuery(d)
    <3>1. t \in Nat
      BY <2>0 DEF StartTimes, TypeOK
    <3>2. \A e \in Devices :
            Pending(e)' = IF e = d THEN Pending(e) + 1 ELSE Pending(e)
      BY <2>0, <2>1, <3>1, RecordAddsOne
    <3>3. PendingMap' = [PendingMap EXCEPT ![d] = @ + 1]
      BY <3>2 DEF PendingMap
    <3> QED
      BY <2>1, <3>3 DEF Record, Abstract!RecordQuery
  <2>2. CASE UploadSucceeded
    <3>1. ASSUME NEW e \in Devices
          PROVE  /\ Pending(e)' = Queries(records, e)
                 /\ Pending(e) = Queries(records, e) + Queries(snapshot, e)
                 /\ Queries(records, e) \in Nat /\ Queries(snapshot, e) \in Nat
      BY <2>0, <2>2, QueriesEmpty, CountsNat DEF UploadSucceeded, Pending
    <3>2. PendingMap' \in [Devices -> Nat]
      BY <3>1 DEF PendingMap
    <3>3. \A e \in Devices :
            /\ PendingMap'[e] <= PendingMap[e]
            /\ delivered'[e] = delivered[e] + (PendingMap[e] - PendingMap'[e])
      BY <2>2, <3>1 DEF UploadSucceeded, PendingMap
    <3>4. DOMAIN delivered' = Devices
      BY <2>2 DEF UploadSucceeded
    <3> QED
      BY <3>2, <3>3, <3>4 DEF Abstract!Deliver, Abstract!Next
  <2>3. CASE UNCHANGED vars
    BY <2>3 DEF vars, PendingMap, Pending
  <2> QED
    BY <2>1, <2>2, <2>3, StutterSteps DEF Next, Abstract!Next
<1> QED
  BY <1>1, <1>2, CountInvariant, PTL DEF Spec, RefinesAbstract, Abstract!Spec

-----------------------------------------------------------------------------
\* Record raises the live count of its device by one and leaves the others.
LEMMA RecordLiveCount ==
    ASSUME TypeOK, NEW d \in Devices, NEW t \in Nat, Record(d, t),
           NEW e \in Devices
    PROVE  Queries(records, e) <= Queries(records', e)
<1>1. CASE e # d
  <2>1. records'[e] = records[e]
    BY <1>1 DEF Record, TypeOK
  <2> QED
    BY <2>1, CountsNat DEF Queries
<1>2. CASE e = d
  <2>1. records[d] # NoRecord => records[d].queries \in Nat
    BY DEF TypeOK, Rec
  <2>2. records'[d] = [time |-> t, queries |-> Queries(records, d) + 1]
    BY <2>1 DEF Record, Queries, TypeOK
  <2>3. records'[d] # NoRecord
    BY <2>2, CountsNat, NoRecordAssumption
  <2> QED
    BY <1>2, <2>2, <2>3, CountsNat DEF Queries
<1> QED
  BY <1>1, <1>2

(***************************************************************************)
(* A device's query count in the live map never falls, except at the      *)
(* detach of resetRecords: Record adds one, a remerge adds the snapshot's *)
(* count back, and an upload never touches the live map.                  *)
(***************************************************************************)
THEOREM LiveCountNeverDecreasesThm == Spec => LiveCountNeverDecreases
<1> DEFINE Grows == \A d \in Devices : Queries(records, d) <= Queries(records', d)
           Detach == refresh = "idle" /\ refresh' = "upload"
<1>1. TypeOK /\ [Next]_vars => [Detach \/ Grows]_vars
  <2> SUFFICES ASSUME TypeOK, [Next]_vars
               PROVE  [Detach \/ Grows]_vars
    OBVIOUS
  <2>1. ASSUME NEW d \in Devices, NEW t \in StartTimes, Record(d, t)
        PROVE  Grows
    <3>1. t \in Nat
      BY DEF StartTimes, TypeOK
    <3> QED
      BY <2>1, <3>1, RecordLiveCount
  <2>2. CASE ResetRecords
    BY <2>2 DEF ResetRecords
  <2>3. CASE UploadSucceeded
    BY <2>3, QueriesNat DEF UploadSucceeded, TypeOK
  <2>4. ASSUME NEW o \in UploadOutcomes \ {"ok"}, UploadFailed(o)
        PROVE  Grows
    BY <2>4, QueriesNat DEF UploadFailed, TypeOK
  <2>5. CASE RemergeRecords
    <3>1. ASSUME NEW d \in Devices
          PROVE  Queries(records', d) = Queries(records, d) + Queries(snapshot, d)
      BY <2>5, NoRecordNotRec DEF RemergeRecords, Queries, TypeOK, Rec
    <3> QED
      BY <3>1, CountsNat
  <2>6. CASE Tick
    BY <2>6, QueriesNat DEF Tick, TypeOK
  <2>7. CASE UNCHANGED vars
    BY <2>7 DEF vars
  <2> QED
    BY <2>1, <2>2, <2>3, <2>4, <2>5, <2>6, <2>7 DEF Next
<1> QED
  BY <1>1, TypeCorrect, PTL DEF Spec, LiveCountNeverDecreases

=============================================================================
