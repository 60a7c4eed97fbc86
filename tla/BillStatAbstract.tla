-------------------------- MODULE BillStatAbstract --------------------------
(***************************************************************************)
(* What the billing-statistics recorder promises, without its maps, lock   *)
(* or refresher: per device, a count of queries recorded but not yet at    *)
(* the backend, and a count the backend holds.  Recording adds one pending *)
(* query; a delivery moves some pending queries of each device to the      *)
(* backend.  Nothing else changes the counts: no query is lost and none is *)
(* counted twice.                                                          *)
(***************************************************************************)
EXTENDS Naturals

CONSTANTS Devices

VARIABLES pending, delivered

Init ==
    /\ pending = [d \in Devices |-> 0]
    /\ delivered = [d \in Devices |-> 0]

RecordQuery(d) ==
    /\ pending' = [pending EXCEPT ![d] = @ + 1]
    /\ UNCHANGED delivered

Deliver ==
    /\ pending' \in [Devices -> Nat]
    /\ \A d \in Devices :
          /\ pending'[d] <= pending[d]
          /\ delivered'[d] = delivered[d] + (pending[d] - pending'[d])
    /\ DOMAIN delivered' = Devices

Next == (\E d \in Devices : RecordQuery(d)) \/ Deliver

Spec == Init /\ [][Next]_<<pending, delivered>>

=============================================================================
