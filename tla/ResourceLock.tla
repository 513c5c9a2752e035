---------------------------- MODULE ResourceLock ----------------------------
(***************************************************************************)
(* What the claims of core/provider.go promise the requests of the host:   *)
(* a lock for each resource.  It knows no table, no hook and no updater.   *)
(***************************************************************************)
CONSTANTS Users, Resources

VARIABLE holders  \* who holds each resource

Init == holders = [k \in Resources |-> {}]

(* A request takes one resource, and only one that nobody holds.           *)
Acquire(u, k) ==
    /\ holders[k] = {}
    /\ \A j \in Resources : u \notin holders[j]
    /\ holders' = [holders EXCEPT ![k] = {u}]

Release(u, k) ==
    /\ holders[k] = {u}
    /\ holders' = [holders EXCEPT ![k] = {}]

Next == \E u \in Users, k \in Resources : Acquire(u, k) \/ Release(u, k)

Spec == Init /\ [][Next]_holders
=============================================================================
