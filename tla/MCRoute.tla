------------------------------ MODULE MCRoute ------------------------------
(* RouteTracker for TLC.  Goroutines, answers and proxies are alike, so    *)
(* they may be permuted in the runs without liveness properties.           *)
EXTENDS RouteTracker, TLC

Symmetry == Permutations(Callers) \cup Permutations(Pollers)
            \cup Permutations(Probes) \cup Permutations(Proxies)

(* Versions and the counters of the world only grow, so a stamp or an exit *)
(* that differs from the one in force differs for good, and how it differs *)
(* is of no consequence; the picks of an exit can become those in force.   *)
InForce(a) ==
    [state |-> a.state,
     stamp |-> a.stamp = routeStamp,
     exit  |-> IF a.exit = None THEN <<"none">>
               ELSE IF [a.exit EXCEPT !.picks = world.picks] = world
                    THEN <<"picks", a.exit.picks>>
                    ELSE <<"gone">>]

(* How far a reading lies behind the providers and rule sets in force.     *)
Behind(reading) ==
    IF reading = None \/ reading.providers = None THEN None
    ELSE [picks |-> reading.picks,
          providers |-> world.providers - reading.providers,
          ruleSets |-> world.ruleSets - reading.ruleSets]

(* What the next steps and the properties depend on.  Versions, epochs and *)
(* the counters of the world matter only through these comparisons; of the *)
(* histories, it matters whether the version in force was announced or     *)
(* dropped and whether the newest watch that ran is the one in force; of   *)
(* the queued events, their number.                                        *)
View == <<moves, world.picks, Behind(tracked), watched, watchSeq, stopPoll,
          polling, methodCallSeq, selectMu, coreVars, hostVars, pc, change,
          rest, [t \in Threads |-> Behind(seen[t])], seq, watch,
          [t \in Threads |-> out[t] = routeStamp],
          Len(events), announced = version, dropped = version,
          NewestWatchWins, SendType, AnswerType,
          [p \in Probes |-> InForce(answer[p])]>>

(* Three stamped calls are a watch, its stop and the watch that overtakes  *)
(* it; a run that takes the third has one move, which starts the core so   *)
(* that its pollers tick.                                                  *)
Bounded == methodCallSeq + moves <= 4
=============================================================================
