---------------------------- MODULE ResourceFiles ---------------------------
(***************************************************************************)
(* Who owns the files the updates write, when the core runs elevated       *)
(* (core/ownership_unix.go).  A file an update creates belongs to root;    *)
(* the end of a geo update schedules a sweep, two seconds later, that      *)
(* gives the files under the home directory back to the user.  Requests    *)
(* that come while a sweep is scheduled are left to it, and a sweep first  *)
(* walks the directory and then changes the owner of each file it noted,   *)
(* if the file there is still the one it saw.                              *)
(***************************************************************************)
EXTENDS UpdateClaims

CONSTANTS
    Sweeps,     \* the sweeps that may be under way together: a bound
    MaxWrites   \* files replaced: a bound

VARIABLES
    inode,      \* the file there is for each resource
    foreign,    \* the resources whose file root owns
    pending,    \* reclaimPending
    sweep,      \* where each sweep is
    unseen,     \* what its walk has yet to pass
    targets     \* reclaimTarget: the files it noted, with their inodes

fileVars == <<inode, foreign, pending, sweep, unseen, targets>>
allVars == <<vars, fileVars>>

(* initOwnership sweeps what an earlier life of the core has left.         *)
FInit ==
    /\ Init
    /\ inode = [k \in Keys |-> 0]
    /\ foreign \in SUBSET Keys
    /\ pending = FALSE
    /\ \E first \in Sweeps :
        /\ sweep = [s \in Sweeps |-> IF s = first THEN "walking" ELSE "off"]
        /\ unseen = [s \in Sweeps |-> IF s = first THEN Keys ELSE {}]
    /\ targets = [s \in Sweeps |-> {}]

(* The update puts a new file in place.  One written over in place keeps   *)
(* its owner, and an update may write nothing.                             *)
WriteFile(r) ==
    /\ at[r] = "updating" \/ (at[r] = "claimed" /\ key[r] \in Provider)
    /\ inode[key[r]] < MaxWrites
    /\ inode' = [inode EXCEPT ![key[r]] = @ + 1]
    /\ foreign' = foreign \cup {key[r]}
    /\ UNCHANGED <<vars, pending, sweep, unseen, targets>>

ScheduleReclaimOwnership ==
    IF pending
    THEN UNCHANGED <<pending, sweep>>
    ELSE /\ pending' = TRUE
         /\ \E s \in Sweeps :
             /\ sweep[s] = "off"
             /\ sweep' = [sweep EXCEPT ![s] = "asleep"]

TakesNoRequests == UNCHANGED pending

(* A sweep that wakes takes requests again before it looks at any file.    *)
TakesRequests == pending' = FALSE

Wake(s) ==
    /\ sweep[s] = "asleep"
    /\ TakesRequests
    /\ sweep' = [sweep EXCEPT ![s] = "walking"]
    /\ unseen' = [unseen EXCEPT ![s] = Keys]
    /\ UNCHANGED <<vars, inode, foreign, targets>>

Collect(s, k) ==
    /\ k \in unseen[s]
    /\ unseen' = [unseen EXCEPT ![s] = @ \ {k}]
    /\ targets' = [targets EXCEPT ![s] = @ \cup IF k \in foreign THEN {<<k, inode[k]>>} ELSE {}]
    /\ sweep' = [sweep EXCEPT ![s] = IF unseen[s] = {k} THEN "changing" ELSE @]
    /\ UNCHANGED <<vars, inode, foreign, pending>>

ReclaimEntry(s, target) ==
    /\ sweep[s] = "changing"
    /\ target \in targets[s]
    /\ targets' = [targets EXCEPT ![s] = @ \ {target}]
    /\ foreign' = IF inode[target[1]] = target[2] THEN foreign \ {target[1]} ELSE foreign
    /\ UNCHANGED <<vars, inode, pending, sweep, unseen>>

SweepEnds(s) ==
    /\ sweep[s] = "changing"
    /\ targets[s] = {}
    /\ sweep' = [sweep EXCEPT ![s] = "off"]
    /\ UNCHANGED <<vars, inode, foreign, pending, unseen, targets>>

Sweeping(s) ==
    \/ Wake(s) \/ SweepEnds(s)
    \/ \E k \in Keys : Collect(s, k)
    \/ \E target \in targets[s] : ReclaimEntry(s, target)

(* onGeoUpdate schedules a sweep as it releases the claim.                 *)
OnUpdatedAndSchedule(r) ==
    /\ OnUpdated(r)
    /\ ScheduleReclaimOwnership
    /\ UNCHANGED <<inode, foreign, unseen, targets>>

ClaimSteps(r) ==
    \/ \E k \in Keys : HandleUpdate(r, k) \/ AutoUpdate(r, k)
    \/ OnUpdating(r) \/ SendUpdating(r) \/ SendUpdated(r)
    \/ UpdateProvider(r) \/ EndUpdate(r)

FNext ==
    \/ \E r \in Runs :
        \/ ClaimSteps(r) /\ UNCHANGED fileVars
        \/ WriteFile(r) \/ OnUpdatedAndSchedule(r)
    \/ \E s \in Sweeps : Sweeping(s)

FSpec == FInit /\ [][FNext]_allVars

-----------------------------------------------------------------------------
(* A geo file that root owns is owed to the user: its update is under way, *)
(* a sweep sleeps, or one has yet to pass the file or has noted this very  *)
(* file.  No end of an update is lost between two sweeps.                  *)
ForeignIsOwed ==
    \A k \in foreign \cap Geo :
        \/ \E r \in Runs : key[r] = k /\ at[r] = "updating"
        \/ \E s \in Sweeps :
            \/ sweep[s] = "asleep" \/ k \in unseen[s]
            \/ <<k, inode[k]>> \in targets[s]
=============================================================================
