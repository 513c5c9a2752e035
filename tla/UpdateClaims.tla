---------------------------- MODULE UpdateClaims ----------------------------
(***************************************************************************)
(* The claims of core/provider.go on the resources being updated, taken by *)
(* the host's requests (core/geo.go, core/provider.go) and, through        *)
(* GeoUpdateHook, by mihomo's own geo updater, which asks nobody.  Every   *)
(* geo update calls the hook as it begins and as it ends, whoever asked    *)
(* for it, and the host hears of both.  What an update that replaced the   *)
(* data does to the route is OutsideChange of RouteTracker.                *)
(***************************************************************************)
EXTENDS Naturals

CONSTANTS
    Runs,          \* the updates that may be under way
    Autos,         \* the ones mihomo's updater makes on its own
    Geo, Provider, \* the resources: geo databases and external providers
    None

ASSUME ClaimAssumption ==
    /\ Autos \subseteq Runs
    /\ Geo \cap Provider = {}
    /\ None \notin Geo \cup Provider

Keys == Geo \cup Provider
Manual == Runs \ Autos

VARIABLES
    claims,  \* updateClaims: per key "free", or the kind of claim
    at,      \* where each run is
    key,     \* what it updates
    shown    \* the resources the host shows as updating

vars == <<claims, at, key, shown>>

Init ==
    /\ claims = [k \in Keys |-> "free"]
    /\ at = [r \in Runs |-> "idle"]
    /\ key = [r \in Runs |-> None]
    /\ shown = {}

Goto(r, place) == at' = [at EXCEPT ![r] = place]

-----------------------------------------------------------------------------
(* The table.                                                              *)

(* claimUpdateAs takes a key that is free and leaves any other alone.      *)
ClaimUpdateAs(k, kind) ==
    claims' = IF claims[k] = "free" THEN [claims EXCEPT ![k] = kind] ELSE claims

ReleaseUpdate(k) == claims' = [claims EXCEPT ![k] = "free"]

ReleasesAnyClaim(k) == ReleaseUpdate(k)

(* The hook gives back only what it took.                                  *)
ReleaseHookUpdate(k) ==
    claims' = IF claims[k] = "hook" THEN [claims EXCEPT ![k] = "free"] ELSE claims

-----------------------------------------------------------------------------
(* Runs.                                                                   *)

IgnoresClaim(k) == TRUE

MayClaim(k) == claims[k] = "free"

(* A request for a key that is claimed is turned down at once.             *)
HandleUpdate(r, k) ==
    /\ r \in Manual
    /\ at[r] = "idle"
    /\ MayClaim(k)
    /\ ClaimUpdateAs(k, "manual")
    /\ key' = [key EXCEPT ![r] = k]
    /\ Goto(r, "claimed")
    /\ UNCHANGED shown

(* mihomo's updater runs one update of a resource at a time of its own.    *)
AutoUpdate(r, k) ==
    /\ r \in Autos /\ k \in Geo
    /\ at[r] = "idle"
    /\ \A other \in Autos : at[other] # "idle" => key[other] # k
    /\ key' = [key EXCEPT ![r] = k]
    /\ Goto(r, "claimed")
    /\ UNCHANGED <<claims, shown>>

(* onGeoUpdate with updating: the answer of the claim is not looked at.    *)
OnUpdating(r) ==
    /\ at[r] = "claimed"
    /\ key[r] \in Geo
    /\ ClaimUpdateAs(key[r], "hook")
    /\ Goto(r, "begun")
    /\ UNCHANGED <<key, shown>>

SendUpdating(r) ==
    /\ at[r] = "begun"
    /\ shown' = shown \cup {key[r]}
    /\ Goto(r, "updating")
    /\ UNCHANGED <<claims, key>>

(* onGeoUpdate without: the claim goes back before the host is told.       *)
OnUpdated(r) ==
    /\ at[r] = "updating"
    /\ ReleaseHookUpdate(key[r])
    /\ Goto(r, "updated")
    /\ UNCHANGED <<key, shown>>

SkipsEvent(r) == UNCHANGED shown

TellHost(r) == shown' = shown \ {key[r]}

(* Only a request has a claim of its own to give back.                     *)
AfterUpdated(r) == IF r \in Autos THEN "idle" ELSE "ended"

SendUpdated(r) ==
    /\ at[r] = "updated"
    /\ TellHost(r)
    /\ Goto(r, AfterUpdated(r))
    /\ key' = [key EXCEPT ![r] = IF r \in Autos THEN None ELSE @]
    /\ UNCHANGED claims

(* A provider's update calls no hook.                                      *)
UpdateProvider(r) ==
    /\ at[r] = "claimed"
    /\ key[r] \in Provider
    /\ Goto(r, "ended")
    /\ UNCHANGED <<claims, key, shown>>

(* The deferred release of a request.                                      *)
EndUpdate(r) ==
    /\ at[r] = "ended"
    /\ ReleaseUpdate(key[r])
    /\ key' = [key EXCEPT ![r] = None]
    /\ Goto(r, "idle")
    /\ UNCHANGED shown

-----------------------------------------------------------------------------
Running(r) ==
    \/ OnUpdating(r) \/ SendUpdating(r) \/ OnUpdated(r) \/ SendUpdated(r)
    \/ UpdateProvider(r) \/ EndUpdate(r)

Next ==
    \E r \in Runs :
        \/ \E k \in Keys : HandleUpdate(r, k) \/ AutoUpdate(r, k)
        \/ Running(r)

Spec == Init /\ [][Next]_vars

-----------------------------------------------------------------------------
(* Properties.                                                             *)

Places == {"idle", "claimed", "begun", "updating", "updated", "ended"}

(* Every variable has its type, and a run has a key exactly while it runs. *)
TypeOK ==
    /\ claims \in [Keys -> {"free", "manual", "hook"}]
    /\ at \in [Runs -> Places]
    /\ key \in [Runs -> Keys \cup {None}]
    /\ shown \subseteq Geo
    /\ \A r \in Runs : at[r] = "idle" <=> key[r] = None
    /\ \A r \in Runs : at[r] \in {"begun", "updating", "updated"} => key[r] \in Geo
    /\ \A r \in Autos : at[r] # "idle" => key[r] \in Geo /\ at[r] # "ended"

(* Two requests never update one resource together, though the updater's   *)
(* hook claims and releases the resource inside either of them.            *)
ManualExclusive ==
    \A r, s \in Manual :
        r # s /\ at[r] # "idle" /\ at[s] # "idle" => key[r] # key[s]

(* Whoever updates a resource for the host holds it alone from the claim   *)
(* to its release: with the table, the hook and the updater's own runs     *)
(* hidden, the requests use one lock for each resource.                    *)
Lock == INSTANCE ResourceLock WITH
    Users <- Manual, Resources <- Keys,
    holders <- [k \in Keys |-> {r \in Manual : key[r] = k}]

LockPerResource == Lock!Spec

(* Whatever is claimed, a run under way claimed it and will give it back:  *)
(* a resource is never left that nobody may update again.                  *)
ClaimHasHolder ==
    \A k \in Keys :
        /\ claims[k] = "manual" <=> \E r \in Manual : key[r] = k
        /\ claims[k] = "hook" =>
               \E r \in Autos : key[r] = k /\ at[r] \in {"begun", "updating"}

(* Once every update of a resource has ended, the host has been told so.   *)
ShownSettles ==
    \A k \in shown : \E r \in Runs : key[r] = k
=============================================================================
