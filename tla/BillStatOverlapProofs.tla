------------------------- MODULE BillStatOverlapProofs -------------------------
(***************************************************************************)
(* Proofs about the recorder with overlapping Refresh calls.  Type        *)
(* correctness holds for every set of refreshers.  The counting property  *)
(* OverlapQueriesConserved sums over the refreshers with a fold           *)
(* (MapThenSumSet), whose laws for an arbitrary finite set need induction *)
(* over sets; it is proved here for two overlapping callers, the periodic *)
(* refresh worker and one more, with any devices and any bounds.          *)
(***************************************************************************)
EXTENDS BillStatOverlap, TLAPS

\* A remerge of a well-typed snapshot into a well-typed live map is a
\* well-typed live map: a record on both sides keeps the live metadata and
\* the sum of two positive counts.
LEMMA RemergeTyped ==
    ASSUME TypeOK, NEW r \in Refreshers, RemergeRecords(r)
    PROVE  records' \in [Devices -> Rec \cup {NoRecord}]
<1>1. ASSUME NEW d \in Devices
      PROVE  records'[d] \in Rec \cup {NoRecord}
  <2> DEFINE prev == snapshot[r][d]
  <2>1. prev \in Rec \cup {NoRecord} /\ records[d] \in Rec \cup {NoRecord}
    BY DEF TypeOK
  <2>2. CASE prev # NoRecord /\ records[d] # NoRecord
    <3>1. records'[d] = [records[d] EXCEPT !.queries = @ + prev.queries]
      BY <2>2 DEF RemergeRecords
    <3> QED
      BY <2>1, <2>2, <3>1 DEF Rec
  <2> QED
    BY <2>1, <2>2 DEF RemergeRecords
<1> QED
  BY <1>1 DEF RemergeRecords

\* One step of Next keeps the type invariant.
LEMMA TypeStep == TypeOK /\ [Next]_vars => TypeOK'
<1> SUFFICES ASSUME TypeOK, [Next]_vars PROVE TypeOK'
  OBVIOUS
<1>1. ASSUME NEW d \in Devices, Record(d) PROVE TypeOK'
  <2>1. records[d] # NoRecord => records[d].queries \in Nat \ {0}
    BY DEF TypeOK, Rec
  <2> QED
    BY <1>1, <2>1 DEF Record, TypeOK, Rec
<1>2. ASSUME NEW r \in Refreshers, ResetRecords(r) PROVE TypeOK'
  BY <1>2 DEF ResetRecords, TypeOK, EmptyRecords
<1>3. ASSUME NEW r \in Refreshers, UploadSucceeded(r) PROVE TypeOK'
  <2>1. \A d \in Devices : Queries(snapshot[r], d) \in Nat
    BY DEF TypeOK, Queries, Rec
  <2> QED
    BY <1>3, <2>1 DEF UploadSucceeded, TypeOK, EmptyRecords
<1>4. ASSUME NEW r \in Refreshers, UploadFailed(r) PROVE TypeOK'
  BY <1>4 DEF UploadFailed, TypeOK
<1>5. ASSUME NEW r \in Refreshers, RemergeRecords(r) PROVE TypeOK'
  BY <1>5, RemergeTyped DEF RemergeRecords, TypeOK, EmptyRecords
<1>6. CASE Tick
  BY <1>6, OverlapAssumption DEF Tick, TypeOK
<1>7. CASE UNCHANGED vars
  BY <1>7 DEF vars, TypeOK
<1> QED
  BY <1>1, <1>2, <1>3, <1>4, <1>5, <1>6, <1>7 DEF Next

(***************************************************************************)
(* However Record calls interleave with several overlapping Refresh       *)
(* calls, the live map and every detached snapshot stay well formed, in   *)
(* particular every remergeRecords sum is a positive count.               *)
(***************************************************************************)
THEOREM TypeCorrect == Spec => []TypeOK
<1>1. Init => TypeOK
  BY OverlapAssumption DEF Init, TypeOK, EmptyRecords
<1> QED
  BY <1>1, TypeStep, PTL DEF Spec

-----------------------------------------------------------------------------
(***************************************************************************)
(* Conservation for the two callers of Refresh: the periodic refresh      *)
(* worker and a second caller.  MapThenSumSet is a recursive function over *)
(* SUBSET Refreshers; over a set of two it has only four arguments, so    *)
(* its value is found by exhibiting that function, with no induction.     *)
(***************************************************************************)

\* The queries of device d held in the snapshots snap of the refreshers,
\* the fold of Pending.
SnapSum(snap, d) == MapThenSumSet(LAMBDA r : Queries(snap[r], d), Refreshers)

\* Pending in terms of SnapSum, in a state and in the next one.
LEMMA PendingSnapSum ==
    ASSUME NEW d
    PROVE  /\ Pending(d) = Queries(records, d) + SnapSum(snapshot, d)
           /\ Pending(d)' = Queries(records', d) + SnapSum(snapshot', d)
BY DEF Pending, SnapSum, MapThenSumSet, MapThenFoldSet

\* Over two distinct refreshers, the sum of the snapshot counts is the sum
\* of the two counts.
LEMMA SumOverTwo ==
    ASSUME NEW a, NEW b, a # b, Refreshers = {a, b}, NEW snap, NEW d,
           Queries(snap[a], d) \in Nat, Queries(snap[b], d) \in Nat
    PROVE  SnapSum(snap, d) = Queries(snap[a], d) + Queries(snap[b], d)
<1> DEFINE S == {a, b}
           F(r) == Queries(snap[r], d)
           ch(s) == CHOOSE x \in s : TRUE
           Body(g) == [s \in SUBSET S |-> IF s = {} THEN 0
                                          ELSE F(ch(s)) + g[s \ {ch(s)}]]
<1>1. SnapSum(snap, d) = (CHOOSE g : g = Body(g))[S]
  BY DEF SnapSum, MapThenSumSet, MapThenFoldSet
<1> DEFINE G == [s \in SUBSET S |-> IF s = {} THEN 0 ELSE IF s = {a} THEN F(a)
                                    ELSE IF s = {b} THEN F(b) ELSE F(a) + F(b)]
<1>0. /\ ch({a}) = a /\ ch({b}) = b /\ ch(S) \in S
      /\ S \ {a} = {b} /\ S \ {b} = {a} /\ {a} \ {a} = {} /\ {b} \ {b} = {}
      /\ {a} # {} /\ {b} # {} /\ S # {} /\ {a} # {b} /\ S # {a} /\ S # {b}
      /\ {a} \in SUBSET S /\ {b} \in SUBSET S /\ {} \in SUBSET S
  OBVIOUS
<1>4. F(a) + F(b) = F(b) + F(a)
  OBVIOUS
<1>2. G = Body(G)
  <2>1. ASSUME NEW s \in SUBSET S
        PROVE  G[s] = IF s = {} THEN 0 ELSE F(ch(s)) + G[s \ {ch(s)}]
    <3>1. s = {} \/ s = {a} \/ s = {b} \/ s = S
      OBVIOUS
    <3>2. CASE s = S /\ ch(S) = a
      BY <3>2, <1>0
    <3>3. CASE s = S /\ ch(S) = b
      BY <3>3, <1>0, <1>4
    <3>4. CASE s = {}
      BY <3>4
    <3>5. CASE s = {a}
      BY <3>5, <1>0
    <3>6. CASE s = {b}
      BY <3>6, <1>0
    <3> QED
      BY <3>1, <3>2, <3>3, <3>4, <3>5, <3>6, <1>0
  <2> QED
    BY <2>1
<1>3. ASSUME NEW g, g = Body(g) PROVE g[S] = F(a) + F(b)
  <2>1. g[{}] = 0
    BY <1>3
  <2>2. g[{a}] = F(a) /\ g[{b}] = F(b)
    BY <1>3, <2>1, <1>0
  <2>3. g[S] = F(ch(S)) + g[S \ {ch(S)}]
    BY <1>3, <1>0
  <2>4. CASE ch(S) = a
    BY <2>2, <2>3, <2>4, <1>0
  <2>5. CASE ch(S) = b
    BY <2>2, <2>3, <2>5, <1>0, <1>4
  <2> QED
    BY <2>4, <2>5, <1>0
<1> QED
  BY <1>1, <1>2, <1>3

\* The held queries of a device, with the refreshers named r and o.
LEMMA PendingOfTwo ==
    ASSUME NEW r, NEW o, r # o, Refreshers = {r, o},
           NEW recs \in [Devices -> Rec \cup {NoRecord}],
           NEW snap \in [Refreshers -> [Devices -> Rec \cup {NoRecord}]],
           NEW d \in Devices
    PROVE  Queries(recs, d) + SnapSum(snap, d)
             = Queries(recs, d) + Queries(snap[r], d) + Queries(snap[o], d)
<1>1. Queries(snap[r], d) \in Nat /\ Queries(snap[o], d) \in Nat
      /\ Queries(recs, d) \in Nat
  BY DEF Queries, Rec
<1>2. SnapSum(snap, d) = Queries(snap[r], d) + Queries(snap[o], d)
  BY <1>1, SumOverTwo
<1> QED
  BY <1>1, <1>2

\* Every refresher is one of two, the other being o.
LEMMA OtherRefresher ==
    ASSUME NEW f1, NEW f2, f1 # f2, Refreshers = {f1, f2}, NEW r \in Refreshers
    PROVE  \E o : o # r /\ Refreshers = {r, o}
<1>1. CASE r = f1
  BY <1>1
<1>2. CASE r = f2
  BY <1>2
<1> QED
  BY <1>1, <1>2

\* A refresher that is idle holds no detached snapshot.
IdleSnapshotEmpty ==
    \A r \in Refreshers : refresh[r] = "idle" => snapshot[r] = EmptyRecords

\* The inductive invariant of the conservation.
IInv == TypeOK /\ IdleSnapshotEmpty /\ OverlapQueriesConserved

\* Every count in the live map and in the snapshots is a natural number.
LEMMA CountsNat ==
    ASSUME TypeOK
    PROVE  \A d \in Devices :
              /\ Queries(records, d) \in Nat
              /\ \A r \in Refreshers : Queries(snapshot[r], d) \in Nat
BY DEF TypeOK, Queries, Rec

\* A step that changes neither the snapshots nor the refresh states keeps
\* the idle snapshots empty.
LEMMA IdleKept ==
    ASSUME IdleSnapshotEmpty, UNCHANGED <<snapshot, refresh>>
    PROVE  IdleSnapshotEmpty'
BY DEF IdleSnapshotEmpty, EmptyRecords

\* Record(e) adds one query to device e, live and recorded alike.
LEMMA RecordKeeps ==
    ASSUME NEW f1, NEW f2, f1 # f2, Refreshers = {f1, f2},
           IInv, NEW e \in Devices, Record(e)
    PROVE  IInv'
<1>1. TypeOK'
  BY TypeStep DEF IInv, Next
<1>2. IdleSnapshotEmpty'
  BY IdleKept DEF IInv, Record
<1>3. ASSUME NEW d \in Devices
      PROVE  recorded'[d] = delivered'[d] + Pending(d)'
  <2>1. Queries(records, d) \in Nat /\ Queries(records', d) \in Nat
    BY <1>1 DEF IInv, TypeOK, Queries, Rec
  <2>4. /\ Pending(d) = Queries(records, d) + SnapSum(snapshot, d)
        /\ Pending(d)' = Queries(records', d) + SnapSum(snapshot, d)
        /\ recorded[d] = delivered[d] + Pending(d) /\ delivered'[d] = delivered[d]
    BY PendingSnapSum DEF Record, IInv, OverlapQueriesConserved
  <2>2. CASE d = e
    <3>0. records'[d] = IF records[d] = NoRecord
                        THEN [time |-> clock, queries |-> 1]
                        ELSE [time |-> clock, queries |-> records[d].queries + 1]
      BY <2>2 DEF Record, IInv, TypeOK
    <3>3. records[d] = NoRecord => Queries(records', d) = Queries(records, d) + 1
      BY <3>0, OverlapAssumption DEF IInv, TypeOK, Queries
    <3>4. records[d] # NoRecord => Queries(records', d) = Queries(records, d) + 1
      BY <3>0, OverlapAssumption DEF IInv, TypeOK, Queries, Rec
    <3>1. Queries(records', d) = Queries(records, d) + 1
      BY <3>3, <3>4
    <3>5. recorded' = [recorded EXCEPT ![e] = @ + 1]
      BY DEF Record
    <3>2. recorded'[d] = recorded[d] + 1
      BY <2>2, <3>5 DEF IInv, TypeOK
    <3>6. SnapSum(snapshot, d) \in Nat
      <4>1. Queries(snapshot[f1], d) \in Nat /\ Queries(snapshot[f2], d) \in Nat
        BY CountsNat DEF IInv
      <4> QED
        BY <4>1, SumOverTwo
    <3>7. recorded[d] \in Nat /\ delivered[d] \in Nat
      BY DEF IInv, TypeOK
    <3> QED
      BY <2>1, <2>4, <3>1, <3>2, <3>6, <3>7
  <2>3. CASE d # e
    <3>1. Queries(records', d) = Queries(records, d)
      BY <2>3 DEF Record, IInv, TypeOK, Queries
    <3>2. recorded'[d] = recorded[d]
      BY <2>3 DEF Record, IInv, TypeOK
    <3> QED
      BY <2>4, <3>1, <3>2
  <2> QED
    BY <2>2, <2>3
<1> QED
  BY <1>1, <1>2, <1>3 DEF IInv, OverlapQueriesConserved

\* Tick and a failed upload move no query.
LEMMA QuietKeeps ==
    ASSUME IInv, \/ Tick
                 \/ \E r \in Refreshers : UploadFailed(r)
    PROVE  IInv'
<1>1. TypeOK'
  BY TypeStep DEF IInv, Next
<1>2. UNCHANGED <<records, snapshot, recorded, delivered>>
  BY DEF Tick, UploadFailed
<1>3. IdleSnapshotEmpty'
  <2>1. CASE Tick
    BY <2>1, IdleKept DEF IInv, Tick
  <2>2. ASSUME NEW r \in Refreshers, UploadFailed(r)
        PROVE  IdleSnapshotEmpty'
    BY <2>2 DEF UploadFailed, IInv, TypeOK, IdleSnapshotEmpty
  <2> QED
    BY <2>1, <2>2
<1>4. OverlapQueriesConserved'
  BY <1>2, PendingSnapSum DEF IInv, OverlapQueriesConserved
<1> QED
  BY <1>1, <1>3, <1>4 DEF IInv

\* ResetRecords(r) moves the live map into r's snapshot, which was empty.
LEMMA ResetKeeps ==
    ASSUME NEW f1, NEW f2, f1 # f2, Refreshers = {f1, f2},
           IInv, NEW r \in Refreshers, ResetRecords(r)
    PROVE  IInv'
<1>1. TypeOK'
  BY TypeStep DEF IInv, Next
<1>2. PICK o : o # r /\ Refreshers = {r, o}
  BY OtherRefresher
<1>3. /\ snapshot'[r] = records /\ snapshot'[o] = snapshot[o]
      /\ snapshot[r] = EmptyRecords /\ records' = EmptyRecords
  BY <1>2 DEF ResetRecords, IInv, TypeOK, IdleSnapshotEmpty
<1>4. IdleSnapshotEmpty'
  BY <1>2, <1>3 DEF ResetRecords, IInv, TypeOK, IdleSnapshotEmpty
<1>5. ASSUME NEW d \in Devices
      PROVE  recorded'[d] = delivered'[d] + Pending(d)'
  <2>1. Pending(d) = Queries(records, d) + Queries(snapshot[r], d)
                     + Queries(snapshot[o], d)
    BY <1>2, PendingOfTwo, PendingSnapSum DEF IInv, TypeOK
  <2>2. Pending(d)' = Queries(records', d) + Queries(snapshot'[r], d)
                      + Queries(snapshot'[o], d)
    <3>1. records' \in [Devices -> Rec \cup {NoRecord}]
          /\ snapshot' \in [Refreshers -> [Devices -> Rec \cup {NoRecord}]]
      BY <1>1 DEF TypeOK
    <3> QED
      BY <3>1, <1>2, PendingOfTwo, PendingSnapSum
  <2>3. Queries(snapshot[r], d) = 0 /\ Queries(records', d) = 0
    BY <1>3 DEF EmptyRecords, Queries
  <2>4. Queries(records, d) \in Nat /\ Queries(snapshot[o], d) \in Nat
    BY <1>2, CountsNat DEF IInv
  <2> QED
    BY <1>3, <2>1, <2>2, <2>3, <2>4
       DEF ResetRecords, IInv, OverlapQueriesConserved
<1> QED
  BY <1>1, <1>4, <1>5 DEF IInv, OverlapQueriesConserved

\* UploadSucceeded(r) delivers r's snapshot and empties it.
LEMMA DeliverKeeps ==
    ASSUME NEW f1, NEW f2, f1 # f2, Refreshers = {f1, f2},
           IInv, NEW r \in Refreshers, UploadSucceeded(r)
    PROVE  IInv'
<1>1. TypeOK'
  BY TypeStep DEF IInv, Next
<1>2. PICK o : o # r /\ Refreshers = {r, o}
  BY OtherRefresher
<1>3. /\ snapshot'[r] = EmptyRecords /\ snapshot'[o] = snapshot[o]
  BY <1>2 DEF UploadSucceeded, IInv, TypeOK
<1>4. IdleSnapshotEmpty'
  BY <1>2, <1>3 DEF UploadSucceeded, IInv, TypeOK, IdleSnapshotEmpty
<1>5. ASSUME NEW d \in Devices
      PROVE  recorded'[d] = delivered'[d] + Pending(d)'
  <2>1. Pending(d) = Queries(records, d) + Queries(snapshot[r], d)
                     + Queries(snapshot[o], d)
    BY <1>2, PendingOfTwo, PendingSnapSum DEF IInv, TypeOK
  <2>2. Pending(d)' = Queries(records', d) + Queries(snapshot'[r], d)
                      + Queries(snapshot'[o], d)
    <3>1. records' \in [Devices -> Rec \cup {NoRecord}]
          /\ snapshot' \in [Refreshers -> [Devices -> Rec \cup {NoRecord}]]
      BY <1>1 DEF TypeOK
    <3> QED
      BY <3>1, <1>2, PendingOfTwo, PendingSnapSum
  <2>3. Queries(snapshot'[r], d) = 0
    BY <1>3 DEF EmptyRecords, Queries
  <2>4. delivered'[d] = delivered[d] + Queries(snapshot[r], d)
    BY DEF UploadSucceeded
  <2>5. /\ Queries(records, d) \in Nat /\ Queries(snapshot[o], d) \in Nat
        /\ Queries(snapshot[r], d) \in Nat /\ delivered[d] \in Nat
    BY <1>2, CountsNat DEF IInv, TypeOK
  <2> QED
    BY <1>3, <2>1, <2>2, <2>3, <2>4, <2>5
       DEF UploadSucceeded, IInv, OverlapQueriesConserved
<1> QED
  BY <1>1, <1>4, <1>5 DEF IInv, OverlapQueriesConserved

\* remergeRecords adds each snapshot count to the live count.
LEMMA RemergeQueries ==
    ASSUME TypeOK, NEW r \in Refreshers, RemergeRecords(r), NEW d \in Devices
    PROVE  Queries(records', d) = Queries(records, d) + Queries(snapshot[r], d)
<1> DEFINE prev == snapshot[r][d]
<1>1. prev \in Rec \cup {NoRecord} /\ records[d] \in Rec \cup {NoRecord}
  BY DEF TypeOK
<1>2. CASE prev = NoRecord
  BY <1>1, <1>2 DEF RemergeRecords, Queries, Rec
<1>3. CASE prev # NoRecord /\ records[d] = NoRecord
  BY <1>1, <1>3 DEF RemergeRecords, Queries, Rec
<1>4. CASE prev # NoRecord /\ records[d] # NoRecord
  <2>1. records'[d] = [records[d] EXCEPT !.queries = @ + prev.queries]
    BY <1>4 DEF RemergeRecords
  <2> QED
    BY <1>1, <1>4, <2>1, OverlapAssumption DEF Queries, Rec
<1> QED
  BY <1>2, <1>3, <1>4

\* RemergeRecords(r) moves r's snapshot back into the live map.
LEMMA RemergeKeeps ==
    ASSUME NEW f1, NEW f2, f1 # f2, Refreshers = {f1, f2},
           IInv, NEW r \in Refreshers, RemergeRecords(r)
    PROVE  IInv'
<1>1. TypeOK'
  BY TypeStep DEF IInv, Next
<1>2. PICK o : o # r /\ Refreshers = {r, o}
  BY OtherRefresher
<1>3. /\ snapshot'[r] = EmptyRecords /\ snapshot'[o] = snapshot[o]
  BY <1>2 DEF RemergeRecords, IInv, TypeOK
<1>4. IdleSnapshotEmpty'
  BY <1>2, <1>3 DEF RemergeRecords, IInv, TypeOK, IdleSnapshotEmpty
<1>5. ASSUME NEW d \in Devices
      PROVE  recorded'[d] = delivered'[d] + Pending(d)'
  <2>1. Pending(d) = Queries(records, d) + Queries(snapshot[r], d)
                     + Queries(snapshot[o], d)
    BY <1>2, PendingOfTwo, PendingSnapSum DEF IInv, TypeOK
  <2>2. Pending(d)' = Queries(records', d) + Queries(snapshot'[r], d)
                      + Queries(snapshot'[o], d)
    <3>1. records' \in [Devices -> Rec \cup {NoRecord}]
          /\ snapshot' \in [Refreshers -> [Devices -> Rec \cup {NoRecord}]]
      BY <1>1 DEF TypeOK
    <3> QED
      BY <3>1, <1>2, PendingOfTwo, PendingSnapSum
  <2>3. Queries(snapshot'[r], d) = 0
    BY <1>3 DEF EmptyRecords, Queries
  <2>4. Queries(records', d) = Queries(records, d) + Queries(snapshot[r], d)
    BY RemergeQueries DEF IInv
  <2>5. /\ Queries(records, d) \in Nat /\ Queries(snapshot[o], d) \in Nat
        /\ Queries(snapshot[r], d) \in Nat
    BY <1>2, CountsNat DEF IInv
  <2> QED
    BY <1>3, <2>1, <2>2, <2>3, <2>4, <2>5
       DEF RemergeRecords, IInv, OverlapQueriesConserved
<1> QED
  BY <1>1, <1>4, <1>5 DEF IInv, OverlapQueriesConserved

(***************************************************************************)
(* With the periodic worker and a second caller overlapping their Refresh *)
(* calls, for every set of devices and every bound: every recorded query  *)
(* is counted exactly once, as delivered to the backend, live in          *)
(* r.records, or in the snapshot of one of the two Refresh calls; a       *)
(* snapshot is never both remerged and delivered, and ResetRecords never  *)
(* overwrites one.                                                        *)
(***************************************************************************)
THEOREM OverlapQueriesConservedThm ==
    ASSUME NEW f1, NEW f2, f1 # f2, Refreshers = {f1, f2}
    PROVE  Spec => []OverlapQueriesConserved
<1>1. Init => IInv
  <2> SUFFICES ASSUME Init PROVE IInv
    OBVIOUS
  <2>1. TypeOK
    BY OverlapAssumption DEF Init, TypeOK, EmptyRecords
  <2>2. ASSUME NEW d \in Devices PROVE Pending(d) = 0
    <3>1. Pending(d) = Queries(records, d) + Queries(snapshot[f1], d)
                       + Queries(snapshot[f2], d)
      BY <2>1, PendingOfTwo, PendingSnapSum DEF TypeOK
    <3> QED
      BY <3>1 DEF Init, EmptyRecords, Queries
  <2> QED
    BY <2>1, <2>2 DEF Init, IInv, IdleSnapshotEmpty, OverlapQueriesConserved
<1>2. IInv /\ [Next]_vars => IInv'
  <2> SUFFICES ASSUME IInv, [Next]_vars PROVE IInv'
    OBVIOUS
  <2>1. ASSUME NEW e \in Devices, Record(e) PROVE IInv'
    BY <2>1, RecordKeeps
  <2>2. ASSUME NEW r \in Refreshers, ResetRecords(r) PROVE IInv'
    BY <2>2, ResetKeeps
  <2>3. ASSUME NEW r \in Refreshers, UploadSucceeded(r) PROVE IInv'
    BY <2>3, DeliverKeeps
  <2>4. ASSUME NEW r \in Refreshers, RemergeRecords(r) PROVE IInv'
    BY <2>4, RemergeKeeps
  <2>5. CASE Tick \/ \E r \in Refreshers : UploadFailed(r)
    BY <2>5, QuietKeeps
  <2>6. CASE UNCHANGED vars
    <3>1. \A d \in Devices : Pending(d)' = Pending(d)
      BY <2>6, PendingSnapSum DEF vars
    <3> QED
      BY <2>6, <3>1 DEF vars, IInv, TypeOK, IdleSnapshotEmpty,
                        OverlapQueriesConserved
  <2> QED
    BY <2>1, <2>2, <2>3, <2>4, <2>5, <2>6 DEF Next
<1>3. IInv => OverlapQueriesConserved
  BY DEF IInv
<1> QED
  BY <1>1, <1>2, <1>3, PTL DEF Spec

=============================================================================
