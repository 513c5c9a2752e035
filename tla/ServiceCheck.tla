---------------------------- MODULE ServiceCheck ----------------------------
(***************************************************************************)
(* core/service_check.go: a sweep claims the services it is asked for,     *)
(* cancelling an older sweep's check of each, queues for a slot per        *)
(* service and runs the rules side by side.  Checks are numbered by their  *)
(* place in the sweep.                                                     *)
(***************************************************************************)
EXTENDS ServiceRules, FiniteSets

CONSTANTS
    Sweeps,
    Lists,      \* what a sweep may be asked for: sequences of services
    CheckSlots, \* serviceCheckConcurrency
    None

ASSUME SweepAssumption ==
    /\ Lists \subseteq Seq(Services)
    /\ \E longest \in Lists : \A list \in Lists : Len(list) <= Len(longest)
    /\ CheckSlots \in Nat \ {0}
    /\ None \notin Sweeps

Longest == CHOOSE n \in {Len(list) : list \in Lists} : \A list \in Lists : Len(list) <= n
Checks == Sweeps \X (1..Longest)

VARIABLES
    sweep,      \* per sweep: where it is
    wanted,     \* per sweep: the services asked for
    pos,        \* per sweep: the place it has come to
    budget,     \* per sweep: "whole", "short" of one request, or "spent"
    claim,      \* serviceClaims: per service the sweep that has it
    cancelled,  \* the contexts cancelled: <<sweep, service>>
    check,      \* per check: where it is
    granted,    \* the checks that hold a slot
    heard,      \* per check: the outcomes of its requests
    retried,    \* the checks judged a second time
    status,     \* per check: its verdict
    taken       \* the slots taken

sweepVars == <<sweep, wanted, pos>>
checkVars == <<check, granted, heard, retried, status, taken>>
allVars == <<sweepVars, budget, claim, cancelled, checkVars>>

CInit ==
    /\ sweep = [w \in Sweeps |-> "idle"]
    /\ wanted = [w \in Sweeps |-> <<>>]
    /\ pos = [w \in Sweeps |-> 1]
    /\ budget = [w \in Sweeps |-> "whole"]
    /\ claim = [s \in Services |-> None]
    /\ cancelled = {}
    /\ check = [c \in Checks |-> "none"]
    /\ granted = {}
    /\ heard = [c \in Checks |-> <<>>]
    /\ retried = {}
    /\ status = [c \in Checks |-> "none"]
    /\ taken = 0

ServiceOf(c) == wanted[c[1]][c[2]]
IsOver(w, s) == <<w, s>> \in cancelled \/ budget[w] = "spent"

(* The sweep goes on to the next place, or past the last to another phase. *)
Advance(w, phase) ==
    IF pos[w] < Len(wanted[w])
    THEN pos' = [pos EXCEPT ![w] = @ + 1] /\ UNCHANGED sweep
    ELSE pos' = [pos EXCEPT ![w] = 1] /\ sweep' = [sweep EXCEPT ![w] = phase]

-----------------------------------------------------------------------------
(* handleServiceCheck.                                                     *)

HandleServiceCheck(w, list) ==
    /\ sweep[w] = "idle"
    /\ wanted' = [wanted EXCEPT ![w] = list]
    /\ sweep' = [sweep EXCEPT ![w] = IF list = <<>> THEN "done" ELSE "claiming"]
    /\ UNCHANGED <<pos, budget, claim, cancelled, checkVars>>

(* A service named twice is claimed once.                                  *)
ClaimService(w) ==
    LET s == wanted[w][pos[w]]
        seen == \E i \in 1..(pos[w] - 1) : wanted[w][i] = s
    IN
    /\ sweep[w] = "claiming"
    /\ claim' = IF seen THEN claim ELSE [claim EXCEPT ![s] = w]
    /\ cancelled' = IF seen \/ claim[s] = None THEN cancelled
                    ELSE cancelled \cup {<<claim[s], s>>}
    /\ Advance(w, "queueing")
    /\ UNCHANGED <<wanted, budget, checkVars>>

Run(w, holds) ==
    LET c == <<w, pos[w]>> IN
    /\ check' = [check EXCEPT ![c] = "begun"]
    /\ granted' = IF holds THEN granted \cup {c} ELSE granted
    /\ taken' = IF holds THEN taken + 1 ELSE taken
    /\ UNCHANGED <<heard, retried, status>>

(* acquire looks at the context first, then waits for either.              *)
Queue(w) ==
    /\ sweep[w] = "queueing"
    /\ IF IsOver(w, wanted[w][pos[w]])
       THEN Run(w, FALSE) /\ Advance(w, "waiting")
       ELSE sweep' = [sweep EXCEPT ![w] = "acquiring"] /\ UNCHANGED <<pos, checkVars>>
    /\ UNCHANGED <<wanted, budget, claim, cancelled>>

AcquireSlot(w) ==
    /\ sweep[w] = "acquiring"
    /\ \/ taken < CheckSlots /\ Run(w, TRUE)
       \/ IsOver(w, wanted[w][pos[w]]) /\ Run(w, FALSE)
    /\ IF pos[w] < Len(wanted[w])
       THEN pos' = [pos EXCEPT ![w] = @ + 1] /\ sweep' = [sweep EXCEPT ![w] = "queueing"]
       ELSE pos' = [pos EXCEPT ![w] = 1] /\ sweep' = [sweep EXCEPT ![w] = "waiting"]
    /\ UNCHANGED <<wanted, budget, claim, cancelled>>

(* running.Wait.                                                           *)
AllDone(w) ==
    /\ sweep[w] = "waiting"
    /\ \A i \in DOMAIN wanted[w] : check[<<w, i>>] = "done"
    /\ sweep' = [sweep EXCEPT ![w] = "releasing"]
    /\ UNCHANGED <<wanted, pos, budget, claim, cancelled, checkVars>>

ReleasesNewer(w, s) == claim' = [claim EXCEPT ![s] = None]

(* A newer sweep's claim is left alone.                                    *)
Release(w, s) == claim' = [claim EXCEPT ![s] = IF @ = w THEN None ELSE @]

ReleaseService(w) ==
    LET s == wanted[w][pos[w]] IN
    /\ sweep[w] = "releasing"
    /\ cancelled' = cancelled \cup {<<w, s>>}
    /\ Release(w, s)
    /\ Advance(w, "done")
    /\ UNCHANGED <<wanted, budget, checkVars>>

(* Time passes: the sweep has less left than a request may take, or none.  *)
SpendBudget(w) ==
    /\ sweep[w] \notin {"idle", "done"}
    /\ budget[w] # "spent"
    /\ budget' = [budget EXCEPT ![w] = IF @ = "whole" THEN "short" ELSE "spent"]
    /\ UNCHANGED <<sweepVars, claim, cancelled, checkVars>>

-----------------------------------------------------------------------------
(* runServiceCheck.                                                        *)

KeepsSlot(c) == UNCHANGED <<taken, granted>>

(* Only a check that was granted a slot gives one back.                    *)
GiveBackSlot(c) ==
    /\ taken' = IF c \in granted THEN taken - 1 ELSE taken
    /\ granted' = granted \ {c}

Finish(c, verdict) ==
    /\ check' = [check EXCEPT ![c] = "done"]
    /\ status' = [status EXCEPT ![c] = verdict]
    /\ GiveBackSlot(c)

BeginCheck(c) ==
    /\ check[c] = "begun"
    /\ IF IsOver(c[1], ServiceOf(c))
       THEN Finish(c, "failed")
       ELSE check' = [check EXCEPT ![c] = "asking"] /\ UNCHANGED <<status, granted, taken>>
    /\ UNCHANGED <<sweepVars, budget, claim, cancelled, heard, retried>>

(* A timeout is asked again once, while there is time for it.              *)
Retries(c) == c \notin retried /\ budget[c[1]] = "whole"

(* A request under a context that is over gets no slot, or is cut off.     *)
Outcomes(c) ==
    IF ~IsOver(c[1], ServiceOf(c))
    THEN Unanswered \cup Answers(ServiceOf(c), Len(heard[c]) + 1)
    ELSE {"none", "error"} \cup IF budget[c[1]] = "spent" THEN {"timed-out"} ELSE {}

Request(c, outcome) ==
    LET all == Append(heard[c], outcome)
        verdict == Judge(ServiceOf(c), all)
    IN
    /\ check[c] = "asking"
    /\ IF verdict = "timeout" /\ Retries(c)
       THEN /\ heard' = [heard EXCEPT ![c] = <<>>]
            /\ retried' = retried \cup {c}
            /\ UNCHANGED <<check, granted, status, taken>>
       ELSE /\ heard' = [heard EXCEPT ![c] = all]
            /\ IF verdict = Ask THEN UNCHANGED <<check, granted, status, taken>>
                                ELSE Finish(c, verdict)
            /\ UNCHANGED retried
    /\ UNCHANGED <<sweepVars, budget, claim, cancelled>>

(* A rule that panics is a check that failed.                              *)
Panic(c) ==
    /\ check[c] = "asking"
    /\ Finish(c, "failed")
    /\ UNCHANGED <<sweepVars, budget, claim, cancelled, heard, retried>>

-----------------------------------------------------------------------------
Sweeping(w) ==
    \/ ClaimService(w) \/ Queue(w) \/ AcquireSlot(w) \/ AllDone(w) \/ ReleaseService(w)

Checking(c) ==
    \/ BeginCheck(c) \/ Panic(c)
    \/ check[c] = "asking" /\ \E outcome \in Outcomes(c) : Request(c, outcome)

CNext ==
    \/ \E w \in Sweeps :
          \/ \E list \in Lists : HandleServiceCheck(w, list)
          \/ Sweeping(w) \/ SpendBudget(w)
    \/ \E c \in Checks : Checking(c)

CSpec == CInit /\ [][CNext]_allVars

-----------------------------------------------------------------------------
(* Properties.                                                             *)

(* The services a sweep has claimed and not given back.                    *)
Held(w) ==
    {wanted[w][i] : i \in {j \in DOMAIN wanted[w] :
        CASE sweep[w] = "claiming" -> j < pos[w]
          [] sweep[w] \in {"queueing", "acquiring", "waiting"} -> TRUE
          [] OTHER -> FALSE}}

(* A slot is given back once, by the check that has it: a check whose      *)
(* budget ended before it had one runs to its end without, and gives none  *)
(* back.                                                                   *)
SlotsAccounted ==
    /\ taken = Cardinality({c \in granted : check[c] \in {"begun", "asking"}})
    /\ taken = Cardinality(granted) /\ taken <= CheckSlots

(* A service belongs to the sweep that asked for it last: that one's check *)
(* goes on, and every older one has been cut off.  An older sweep that     *)
(* ends takes nothing from a newer one.                                    *)
NewestHasService ==
    \A w \in Sweeps : \A s \in Held(w) : claim[s] = w <=> <<w, s>> \notin cancelled

(* A verdict on a service rests on something the service answered.         *)
VerdictFromAnswer ==
    \A c \in Checks :
        status[c] \notin {"none", "failed", "timeout"} =>
            \E i \in DOMAIN heard[c] : Answered(heard[c][i])
=============================================================================
