------------------------- MODULE UpdateClaimsProofs -------------------------
(* Proofs about the claims on updates, and about the owner of the files    *)
(* the updates write, for any number of runs, keys and sweeps.             *)
EXTENDS ResourceFiles, TLAPS

(* What the host shows is what a run has told it and has yet to take back. *)
ShownByRun ==
    \A k \in shown : \E r \in Runs : key[r] = k /\ at[r] \in {"updating", "updated"}

IInv == TypeOK /\ ManualExclusive /\ ClaimHasHolder /\ ShownByRun

(* No claim, no run and nothing shown in the beginning.                    *)
LEMMA InitIInv == Init => IInv
  BY ClaimAssumption
  DEF Init, IInv, TypeOK, ManualExclusive, ClaimHasHolder, ShownByRun, Keys, Manual, Places

(* A key is not None, whichever kind of resource it names.                 *)
LEMMA KeyIsNotNone == \A k \in Keys : k # None
  BY ClaimAssumption DEF Keys

(* A request for a free key: no request held it, so exclusion stays.       *)
LEMMA RequestKeepsIInv ==
    ASSUME IInv, NEW r \in Runs, NEW k \in Keys, HandleUpdate(r, k)
    PROVE  IInv'
<1> USE DEF HandleUpdate, MayClaim, ClaimUpdateAs, Goto, Manual
<1>1. TypeOK'
  BY KeyIsNotNone DEF IInv, TypeOK, Places
<1>2. ManualExclusive'
  BY KeyIsNotNone DEF IInv, TypeOK, ManualExclusive, ClaimHasHolder
<1>3. ClaimHasHolder'
  BY KeyIsNotNone DEF IInv, TypeOK, ClaimHasHolder
<1>4. ShownByRun'
  BY DEF IInv, TypeOK, ShownByRun
<1> QED BY <1>1, <1>2, <1>3, <1>4 DEF IInv

(* mihomo's run begins without a claim.                                    *)
LEMMA AutoKeepsIInv ==
    ASSUME IInv, NEW r \in Runs, NEW k \in Keys, AutoUpdate(r, k)
    PROVE  IInv'
<1> USE DEF AutoUpdate, Goto, Manual
<1>1. TypeOK'
  BY KeyIsNotNone DEF IInv, TypeOK, Places
<1>2. ManualExclusive'
  BY DEF IInv, TypeOK, ManualExclusive
<1>3. ClaimHasHolder'
  BY KeyIsNotNone DEF IInv, TypeOK, ClaimHasHolder
<1>4. ShownByRun'
  BY DEF IInv, TypeOK, ShownByRun
<1> QED BY <1>1, <1>2, <1>3, <1>4 DEF IInv

(* The hook claims for the updater's own run only: a request's is held.    *)
LEMMA HookKeepsIInv ==
    ASSUME IInv, NEW r \in Runs, OnUpdating(r)
    PROVE  IInv'
<1> USE DEF OnUpdating, ClaimUpdateAs, Goto, Manual
<1>1. TypeOK'
  BY ClaimAssumption DEF IInv, TypeOK, Places, Keys
<1>2. ManualExclusive'
  BY DEF IInv, TypeOK, ManualExclusive
<1>3. claims[key[r]] = "free" => r \in Autos
  BY DEF IInv, TypeOK, ClaimHasHolder, Keys
<1>4. ClaimHasHolder'
  BY <1>3 DEF IInv, TypeOK, ClaimHasHolder, Keys
<1>5. ShownByRun'
  BY DEF IInv, TypeOK, ShownByRun
<1> QED BY <1>1, <1>2, <1>4, <1>5 DEF IInv

(* The hook gives back a claim of its own run or none.                     *)
LEMMA UnhookKeepsIInv ==
    ASSUME IInv, NEW r \in Runs, OnUpdated(r)
    PROVE  IInv'
<1> USE DEF OnUpdated, ReleaseHookUpdate, Goto, Manual
<1>1. TypeOK'
  BY DEF IInv, TypeOK, Places, Keys
<1>2. ManualExclusive'
  BY DEF IInv, TypeOK, ManualExclusive
<1>3. ClaimHasHolder'
  BY DEF IInv, TypeOK, ClaimHasHolder, Keys
<1>4. ShownByRun'
  BY DEF IInv, TypeOK, ShownByRun
<1> QED BY <1>1, <1>2, <1>3, <1>4 DEF IInv

(* What the host is told changes no claim.                                 *)
LEMMA EventsKeepIInv ==
    ASSUME IInv, NEW r \in Runs, SendUpdating(r) \/ SendUpdated(r)
    PROVE  IInv'
<1> USE DEF SendUpdating, SendUpdated, TellHost, AfterUpdated, Goto, Manual
<1>1. CASE SendUpdating(r)
  <2>1. TypeOK'
    BY <1>1 DEF IInv, TypeOK, Places
  <2>2. ManualExclusive' /\ ClaimHasHolder'
    BY <1>1 DEF IInv, TypeOK, ManualExclusive, ClaimHasHolder
  <2>3. ShownByRun'
    BY <1>1 DEF IInv, TypeOK, ShownByRun
  <2> QED BY <2>1, <2>2, <2>3 DEF IInv
<1>2. CASE SendUpdated(r)
  <2>1. TypeOK'
    <3>1. at' \in [Runs -> Places] /\ key' \in [Runs -> Keys \cup {None}] /\ shown' \subseteq Geo
      BY <1>2 DEF IInv, TypeOK, Places
    <3>2. key[r] # None
      BY <1>2 DEF IInv, TypeOK
    <3> QED BY <1>2, <3>1, <3>2 DEF IInv, TypeOK, Places
  <2>2. ManualExclusive'
    BY <1>2 DEF IInv, TypeOK, ManualExclusive
  <2>3. ClaimHasHolder'
    BY <1>2, KeyIsNotNone DEF IInv, TypeOK, ClaimHasHolder
  <2>4. ShownByRun'
    BY <1>2 DEF IInv, TypeOK, ShownByRun
  <2> QED BY <2>1, <2>2, <2>3, <2>4 DEF IInv
<1> QED BY <1>1, <1>2

(* A request that ends held the claim it frees, alone.                     *)
LEMMA EndKeepsIInv ==
    ASSUME IInv, NEW r \in Runs, UpdateProvider(r) \/ EndUpdate(r)
    PROVE  IInv'
<1> USE DEF UpdateProvider, EndUpdate, ReleaseUpdate, Goto, Manual
<1>1. CASE UpdateProvider(r)
  <2>1. r \notin Autos
    BY <1>1, ClaimAssumption DEF IInv, TypeOK
  <2>2. TypeOK'
    BY <1>1, <2>1 DEF IInv, TypeOK, Places
  <2>3. ManualExclusive' /\ ClaimHasHolder' /\ ShownByRun'
    BY <1>1 DEF IInv, TypeOK, ManualExclusive, ClaimHasHolder, ShownByRun
  <2> QED BY <2>2, <2>3 DEF IInv
<1>2. CASE EndUpdate(r)
  <2>1. r \in Manual /\ key[r] \in Keys
    BY <1>2 DEF IInv, TypeOK
  <2>2. \A s \in Manual : s # r => key[s] # key[r]
    BY <1>2, <2>1 DEF IInv, TypeOK, ManualExclusive
  <2>3. TypeOK'
    BY <1>2 DEF IInv, TypeOK, Places
  <2>4. ManualExclusive'
    BY <1>2 DEF IInv, TypeOK, ManualExclusive
  <2>5. ClaimHasHolder'
    BY <1>2, <2>1, <2>2, KeyIsNotNone DEF IInv, TypeOK, ClaimHasHolder
  <2>6. ShownByRun'
    BY <1>2 DEF IInv, TypeOK, ShownByRun
  <2> QED BY <2>3, <2>4, <2>5, <2>6 DEF IInv
<1> QED BY <1>1, <1>2

(* Every step keeps the invariant.                                         *)
LEMMA NextKeepsIInv == IInv /\ [Next]_vars => IInv'
<1> SUFFICES ASSUME IInv, [Next]_vars PROVE IInv'
  OBVIOUS
<1>1. CASE Next
  <2>1. PICK r \in Runs : (\E k \in Keys : HandleUpdate(r, k) \/ AutoUpdate(r, k)) \/ Running(r)
    BY <1>1 DEF Next
  <2>2. CASE \E k \in Keys : HandleUpdate(r, k) \/ AutoUpdate(r, k)
    BY <2>2, RequestKeepsIInv, AutoKeepsIInv
  <2>3. CASE Running(r)
    BY <2>3, HookKeepsIInv, UnhookKeepsIInv, EventsKeepIInv, EndKeepsIInv DEF Running
  <2> QED BY <2>1, <2>2, <2>3
<1>2. CASE UNCHANGED vars
  BY <1>2
  DEF vars, IInv, TypeOK, ManualExclusive, ClaimHasHolder, ShownByRun, Places, Keys, Manual
<1> QED BY <1>1, <1>2

(* The inductive invariant holds throughout.                               *)
LEMMA AlwaysIInv == Spec => []IInv
  BY InitIInv, NextKeepsIInv, PTL DEF Spec

(* A request is the only one with its key, and has no other.               *)
LEMMA HoldsAlone ==
    ASSUME IInv, NEW r \in Manual, key[r] # None
    PROVE  /\ key[r] \in Keys
           /\ {s \in Manual : key[s] = key[r]} = {r}
  BY DEF IInv, TypeOK, ManualExclusive, Manual

(* The step of a request that begins is an Acquire: the table says that    *)
(* nobody holds the resource, and the request held none while it was idle. *)
LEMMA BeginIsAcquire ==
    ASSUME IInv, NEW r \in Runs, NEW k \in Keys, HandleUpdate(r, k)
    PROVE  Lock!Acquire(r, k)
<1> USE DEF HandleUpdate, MayClaim
<1>1. \A s \in Manual : key[s] # k
  BY DEF IInv, ClaimHasHolder
<1>2. key[r] = None /\ key' = [key EXCEPT ![r] = k] /\ key \in [Runs -> Keys \cup {None}]
  BY DEF IInv, TypeOK
<1>3. \A j \in Keys : {s \in Manual : key'[s] = j} =
                      IF j = k THEN {r} ELSE {s \in Manual : key[s] = j}
  BY <1>1, <1>2, KeyIsNotNone DEF Manual
<1> QED BY <1>1, <1>2, <1>3, KeyIsNotNone DEF Lock!Acquire

(* The step of a request that ends is a Release of what it held.           *)
LEMMA EndIsRelease ==
    ASSUME IInv, NEW r \in Runs, EndUpdate(r), NEW k \in Keys, key[r] = k
    PROVE  r \in Manual /\ Lock!Release(r, k)
<1> USE DEF EndUpdate
<1>1. r \in Manual /\ key[r] # None
  BY DEF IInv, TypeOK, Manual
<1>2. {s \in Manual : key[s] = k} = {r}
  BY <1>1, HoldsAlone
<1>3. key' = [key EXCEPT ![r] = None] /\ key \in [Runs -> Keys \cup {None}]
  BY DEF IInv, TypeOK
<1>4. \A j \in Keys : {s \in Manual : key'[s] = j} =
                      IF j = k THEN {} ELSE {s \in Manual : key[s] = j}
  BY <1>1, <1>2, <1>3, KeyIsNotNone DEF Manual
<1> QED BY <1>1, <1>2, <1>4 DEF Lock!Release

(* The updater's own runs, the hook and the events hold no lock.           *)
LEMMA OthersStutter ==
    ASSUME IInv, NEW r \in Runs,
           (\E k \in Keys : AutoUpdate(r, k)) \/ OnUpdating(r) \/ SendUpdating(r)
           \/ OnUpdated(r) \/ SendUpdated(r) \/ UpdateProvider(r)
    PROVE  \A s \in Manual : key'[s] = key[s]
  BY DEF AutoUpdate, OnUpdating, SendUpdating, OnUpdated, SendUpdated, UpdateProvider,
         IInv, TypeOK, Manual

(* Every step of the updates is a step of the lock or a stutter of it.     *)
LEMMA NextImplementsLock ==
    ASSUME IInv, [Next]_vars
    PROVE  [Lock!Next]_[k \in Keys |-> {r \in Manual : key[r] = k}]
<1>1. CASE \E r \in Runs, k \in Keys : HandleUpdate(r, k)
  <2>1. PICK r \in Runs, k \in Keys : HandleUpdate(r, k)
    BY <1>1
  <2>2. r \in Manual /\ Lock!Acquire(r, k)
    BY <2>1, BeginIsAcquire DEF HandleUpdate
  <2>3. Lock!Next
    BY <2>2 DEF Lock!Next
  <2> QED BY <2>3
<1>2. CASE \E r \in Runs : EndUpdate(r)
  <2>1. PICK r \in Runs : EndUpdate(r)
    BY <1>2
  <2>2. PICK k \in Keys : key[r] = k
    BY <2>1 DEF EndUpdate, IInv, TypeOK
  <2>3. r \in Manual /\ Lock!Release(r, k)
    BY <2>1, <2>2, EndIsRelease
  <2>4. Lock!Next
    BY <2>3 DEF Lock!Next
  <2> QED BY <2>4
<1>3. CASE \E r \in Runs :
          (\E k \in Keys : AutoUpdate(r, k)) \/ OnUpdating(r) \/ SendUpdating(r)
          \/ OnUpdated(r) \/ SendUpdated(r) \/ UpdateProvider(r)
  <2>1. \A s \in Manual : key'[s] = key[s]
    BY <1>3, OthersStutter
  <2> QED BY <2>1
<1>4. CASE UNCHANGED vars
  BY <1>4 DEF vars
<1> QED BY <1>1, <1>2, <1>3, <1>4 DEF Next, Running

(* However many requests and runs of the updater overlap, the requests use *)
(* the resources as they would a lock for each.                            *)
THEOREM ClaimsImplementLock == Spec => LockPerResource
<1>1. Init => Lock!Init
  BY KeyIsNotNone DEF Init, Lock!Init, Manual
<1> QED BY <1>1, AlwaysIInv, NextImplementsLock, PTL DEF Spec, LockPerResource, Lock!Spec

(* No claim is left without a run that will give it back.                  *)
THEOREM NoClaimLeaks == Spec => []ClaimHasHolder
<1>1. IInv => ClaimHasHolder
  BY DEF IInv
<1> QED BY <1>1, AlwaysIInv, PTL

(* The host is never left showing an update that has ended.                *)
THEOREM ShownIsTakenBack == Spec => []ShownSettles
<1>1. IInv => ShownSettles
  BY DEF IInv, ShownByRun, ShownSettles
<1> QED BY <1>1, AlwaysIInv, PTL

-----------------------------------------------------------------------------
(* The files the updates write.                                            *)

FileTypeOK ==
    /\ inode \in [Keys -> Nat]
    /\ foreign \subseteq Keys
    /\ pending \in BOOLEAN
    /\ sweep \in [Sweeps -> {"off", "asleep", "walking", "changing"}]
    /\ unseen \in [Sweeps -> SUBSET Keys]
    /\ targets \in [Sweeps -> SUBSET (Keys \X Nat)]

(* A request is left to a sweep only if that one has yet to look at the    *)
(* files, and only a sweep that walks has files to pass.                   *)
SweepComes ==
    /\ pending => \E s \in Sweeps : sweep[s] = "asleep"
    /\ \A s \in Sweeps : unseen[s] # {} => sweep[s] = "walking"

FileInv == FileTypeOK /\ SweepComes /\ ForeignIsOwed

(* The files change nothing about the claims: each of their steps is one   *)
(* of the updates or leaves the claims alone.                              *)
LEMMA FilesAreClaims == [FNext]_allVars => [Next]_vars
<1> SUFFICES ASSUME [FNext]_allVars PROVE [Next]_vars
  OBVIOUS
<1>1. CASE \E r \in Runs : ClaimSteps(r) \/ OnUpdatedAndSchedule(r)
  BY <1>1 DEF ClaimSteps, OnUpdatedAndSchedule, Next, Running
<1>2. CASE \E r \in Runs : WriteFile(r)
  BY <1>2 DEF WriteFile
<1>3. CASE \E s \in Sweeps : Sweeping(s)
  BY <1>3 DEF Sweeping, Wake, SweepEnds, Collect, ReclaimEntry
<1>4. CASE UNCHANGED allVars
  BY <1>4 DEF allVars
<1> QED BY <1>1, <1>2, <1>3, <1>4 DEF FNext

(* What holds of the claims holds of them beside the files.                *)
LEMMA FilesKeepClaims == FSpec => Spec
<1>1. FInit => Init
  BY DEF FInit
<1> QED BY <1>1, FilesAreClaims, PTL DEF FSpec, Spec

(* The first sweep has every file before it.                               *)
LEMMA InitFileInv == FInit => FileInv
<1> SUFFICES ASSUME FInit PROVE FileInv
  OBVIOUS
<1>1. PICK first \in Sweeps :
        /\ sweep = [s \in Sweeps |-> IF s = first THEN "walking" ELSE "off"]
        /\ unseen = [s \in Sweeps |-> IF s = first THEN Keys ELSE {}]
  BY DEF FInit
<1>2. FileTypeOK
  BY <1>1 DEF FInit, FileTypeOK
<1>3. SweepComes
  BY <1>1 DEF FInit, SweepComes
<1>4. ForeignIsOwed
  BY <1>1 DEF FInit, ForeignIsOwed, Keys
<1> QED BY <1>2, <1>3, <1>4 DEF FileInv

(* A request, the hook and what the host is told touch no file, and no     *)
(* update that is writing ends by them.                                    *)
LEMMA ClaimsKeepFileInv ==
    ASSUME IInv, FileInv, NEW r \in Runs, ClaimSteps(r), UNCHANGED fileVars
    PROVE  FileInv'
<1>1. FileTypeOK' /\ SweepComes'
  BY DEF FileInv, FileTypeOK, SweepComes, fileVars
<1>2. \A q \in Runs : at[q] = "updating" => at'[q] = "updating" /\ key'[q] = key[q]
  BY DEF ClaimSteps, HandleUpdate, AutoUpdate, OnUpdating, SendUpdating, SendUpdated,
         UpdateProvider, EndUpdate, Goto, IInv, TypeOK
<1>3. ForeignIsOwed'
  BY <1>2 DEF FileInv, ForeignIsOwed, fileVars
<1> QED BY <1>1, <1>3 DEF FileInv

(* A geo file is written only inside its update.                           *)
LEMMA WriteKeepsFileInv ==
    ASSUME IInv, FileInv, NEW r \in Runs, WriteFile(r)
    PROVE  FileInv'
<1>1. key[r] \in Keys
  BY DEF WriteFile, IInv, TypeOK, Keys
<1>2. FileTypeOK' /\ SweepComes'
  BY <1>1 DEF FileInv, FileTypeOK, SweepComes, WriteFile
<1>3. ASSUME NEW k \in foreign' \cap Geo
      PROVE  \/ \E q \in Runs : key'[q] = k /\ at'[q] = "updating"
             \/ \E s \in Sweeps : \/ sweep'[s] = "asleep" \/ k \in unseen'[s]
                                 \/ <<k, inode'[k]>> \in targets'[s]
  <2>1. CASE k = key[r]
    <3>1. at[r] = "updating"
      BY <2>1, <1>3, ClaimAssumption DEF WriteFile
    <3> QED BY <2>1, <3>1 DEF WriteFile, vars
  <2>2. CASE k # key[r]
    <3>1. k \in foreign \cap Geo /\ k \in Keys /\ inode'[k] = inode[k]
      BY <2>2, <1>3 DEF WriteFile, FileInv, FileTypeOK, Keys
    <3> QED BY <3>1 DEF WriteFile, FileInv, ForeignIsOwed, vars
  <2> QED BY <2>1, <2>2
<1>4. ForeignIsOwed'
  BY <1>3 DEF ForeignIsOwed
<1> QED BY <1>2, <1>4 DEF FileInv

(* An update that ends leaves its file to a sweep that sleeps.             *)
LEMMA UpdatedKeepsFileInv ==
    ASSUME IInv, FileInv, NEW r \in Runs, OnUpdatedAndSchedule(r)
    PROVE  FileInv'
<1> USE DEF OnUpdatedAndSchedule, ScheduleReclaimOwnership
<1>1. FileTypeOK'
  BY DEF FileInv, FileTypeOK
<1>2. \E s \in Sweeps : sweep'[s] = "asleep"
  BY DEF FileInv, FileTypeOK, SweepComes
<1>3. \A s \in Sweeps : sweep[s] = "walking" => sweep'[s] = "walking"
  BY DEF FileInv, FileTypeOK
<1>4. SweepComes'
  BY <1>2, <1>3 DEF FileInv, SweepComes
<1>5. ForeignIsOwed'
  BY <1>2 DEF ForeignIsOwed
<1> QED BY <1>1, <1>4, <1>5 DEF FileInv

(* A sweep that wakes has every file before it.                            *)
LEMMA WakeKeepsFileInv ==
    ASSUME FileInv, NEW s \in Sweeps, Wake(s)
    PROVE  FileInv'
<1> USE DEF Wake, TakesRequests
<1>1. FileTypeOK'
  BY DEF FileInv, FileTypeOK
<1>2. SweepComes'
  BY DEF FileInv, FileTypeOK, SweepComes
<1>3. unseen'[s] = Keys
  BY DEF FileInv, FileTypeOK
<1>4. ForeignIsOwed'
  BY <1>3 DEF ForeignIsOwed, Keys
<1> QED BY <1>1, <1>2, <1>4 DEF FileInv

(* A file the walk passes is noted as it is there.                         *)
LEMMA CollectKeepsFileInv ==
    ASSUME FileInv, NEW s \in Sweeps, NEW k \in Keys, Collect(s, k)
    PROVE  FileInv'
<1> USE DEF Collect
<1>1. FileTypeOK'
  BY DEF FileInv, FileTypeOK
<1>2. sweep[s] = "walking"
  BY DEF FileInv, SweepComes
<1>3. SweepComes'
  <2>1. \A p \in Sweeps : sweep[p] = "asleep" => sweep'[p] = "asleep"
    BY <1>2 DEF FileInv, FileTypeOK
  <2>2. pending' => \E p \in Sweeps : sweep'[p] = "asleep"
    BY <2>1 DEF FileInv, SweepComes
  <2>3. \A p \in Sweeps : unseen'[p] # {} => sweep'[p] = "walking"
    BY <1>2 DEF FileInv, FileTypeOK, SweepComes
  <2> QED BY <2>2, <2>3 DEF SweepComes
<1>4. ForeignIsOwed'
  <2>1. SUFFICES ASSUME NEW j \in foreign \cap Geo
                 PROVE  \/ \E q \in Runs : key[q] = j /\ at[q] = "updating"
                        \/ \E p \in Sweeps : \/ sweep'[p] = "asleep" \/ j \in unseen'[p]
                                            \/ <<j, inode[j]>> \in targets'[p]
    BY DEF ForeignIsOwed, vars
  <2>2. \A p \in Sweeps : targets[p] \subseteq targets'[p]
    BY DEF FileInv, FileTypeOK
  <2>3. \A p \in Sweeps : sweep[p] = "asleep" => sweep'[p] = "asleep"
    BY <1>2 DEF FileInv, FileTypeOK
  <2>4. \A p \in Sweeps : j \in unseen[p] =>
            \/ j \in unseen'[p]
            \/ <<j, inode[j]>> \in targets'[p]
    BY DEF FileInv, FileTypeOK
  <2> QED BY <2>2, <2>3, <2>4 DEF FileInv, ForeignIsOwed
<1> QED BY <1>1, <1>3, <1>4 DEF FileInv

(* The owner is changed if the file is the one that was noted; if it is    *)
(* not, the entry was of no use to the file there is.                      *)
LEMMA ReclaimKeepsFileInv ==
    ASSUME FileInv, NEW s \in Sweeps, NEW target \in targets[s], ReclaimEntry(s, target)
    PROVE  FileInv'
<1> USE DEF ReclaimEntry
<1>0. target \in Keys \X Nat
  BY DEF FileInv, FileTypeOK
<1>1. FileTypeOK' /\ SweepComes'
  BY DEF FileInv, FileTypeOK, SweepComes
<1>2. ForeignIsOwed'
  <2>1. SUFFICES ASSUME NEW j \in foreign' \cap Geo
                 PROVE  \/ \E q \in Runs : key[q] = j /\ at[q] = "updating"
                        \/ \E p \in Sweeps : \/ sweep[p] = "asleep" \/ j \in unseen[p]
                                            \/ <<j, inode[j]>> \in targets'[p]
    BY DEF ForeignIsOwed, vars
  <2>2. j \in foreign \cap Geo
    OBVIOUS
  <2>3. <<j, inode[j]>> # target
    BY <1>0
  <2>4. \A p \in Sweeps : <<j, inode[j]>> \in targets[p] => <<j, inode[j]>> \in targets'[p]
    BY <2>3 DEF FileInv, FileTypeOK
  <2> QED BY <2>2, <2>4 DEF FileInv, ForeignIsOwed
<1> QED BY <1>1, <1>2 DEF FileInv

(* A sweep that ends has nothing left to do.                               *)
LEMMA EndKeepsFileInv ==
    ASSUME FileInv, NEW s \in Sweeps, SweepEnds(s)
    PROVE  FileInv'
<1> USE DEF SweepEnds
<1>1. FileTypeOK' /\ SweepComes'
  BY DEF FileInv, FileTypeOK, SweepComes
<1>2. \A p \in Sweeps : sweep[p] = "asleep" => sweep'[p] = "asleep"
  BY DEF FileInv, FileTypeOK
<1>3. ForeignIsOwed'
  BY <1>2 DEF FileInv, ForeignIsOwed, vars
<1> QED BY <1>1, <1>3 DEF FileInv

(* Every step keeps the invariant of the files.                            *)
LEMMA NextKeepsFileInv == IInv /\ FileInv /\ [FNext]_allVars => FileInv'
<1> SUFFICES ASSUME IInv, FileInv, [FNext]_allVars PROVE FileInv'
  OBVIOUS
<1>1. CASE \E r \in Runs : ClaimSteps(r) /\ UNCHANGED fileVars
  BY <1>1, ClaimsKeepFileInv
<1>2. CASE \E r \in Runs : WriteFile(r) \/ OnUpdatedAndSchedule(r)
  BY <1>2, WriteKeepsFileInv, UpdatedKeepsFileInv
<1>3. CASE \E s \in Sweeps : Sweeping(s)
  BY <1>3, WakeKeepsFileInv, EndKeepsFileInv, CollectKeepsFileInv, ReclaimKeepsFileInv
  DEF Sweeping
<1>4. CASE UNCHANGED allVars
  BY <1>4 DEF allVars, vars, fileVars, FileInv, FileTypeOK, SweepComes, ForeignIsOwed
<1> QED BY <1>1, <1>2, <1>3, <1>4 DEF FNext

(* No file of a geo update is left to root: however updates and sweeps     *)
(* overlap, a sweep that has yet to see the file is under way or will be.  *)
THEOREM NoFileForgotten == FSpec => []ForeignIsOwed
<1>1. FSpec => []IInv
  BY FilesKeepClaims, AlwaysIInv, PTL
<1>2. FSpec => []FileInv
  BY <1>1, InitFileInv, NextKeepsFileInv, PTL DEF FSpec
<1>3. FileInv => ForeignIsOwed
  BY DEF FileInv
<1> QED BY <1>2, <1>3, PTL

(* With the files beside them the updates still implement the locks, leak  *)
(* no claim and take back what they have shown.                            *)
THEOREM ClaimsHoldBesideFiles ==
    FSpec => LockPerResource /\ []ClaimHasHolder /\ []ShownSettles
  BY FilesKeepClaims, ClaimsImplementLock, NoClaimLeaks, ShownIsTakenBack, PTL
=============================================================================
