------------------------------ MODULE MCProbes ------------------------------
(* OutboundIp and ServiceCheck for TLC, the two users of the claims and    *)
(* slots of probes.  Their claims and their slots are apart, so that a     *)
(* behaviour shows the one or the other, named by part.                    *)
EXTENDS OutboundIp, ServiceCheck

VARIABLE part   \* "lookups" or "sweeps"

PInit == Init /\ CInit /\ part \in {"lookups", "sweeps"}

PNext ==
    \/ part = "lookups" /\ Next /\ UNCHANGED <<part, allVars>>
    \/ part = "sweeps" /\ CNext /\ UNCHANGED <<part, vars>>

PSpec == PInit /\ [][PNext]_<<part, vars, allVars>>

Symmetry == Permutations(Lookups) \cup Permutations(Sweeps)

(* Every rule by itself, sweeps that overlap in one service or, in either  *)
(* order, in both, a sweep that names its service twice, and one whose     *)
(* names are all unknown.                                                  *)
Asked ==
    {<<s>> : s \in Services} \cup
    {<<"claude", "prime">>, <<"prime", "claude">>, <<"prime", "prime">>, <<>>}

-----------------------------------------------------------------------------
(* Lookups are alike, and so are the sources a lookup has asked: how many  *)
(* of its probes are in each place is all that counts.  Of the answers     *)
(* nobody takes any more, it is how many there are; of a lookup that is    *)
(* done, what its probes and the other lookups still need, and whether     *)
(* what it returned was honest, which no later step changes.               *)
Places(l) ==
    [place \in {"asked", "waiting", "out", "nil", "usable", "ended"} |->
        Cardinality({i \in 1..MaxUrls : probe[<<l, i>>] = place})]

Progress(l) ==
    IF at[l] = "done" THEN <<"done", Len(answers[l])>>
    ELSE <<at[l], asked[l], inFlight[l], result[l], ctx[l],
           IF at[l] = "racing" THEN answers[l] ELSE <<Len(answers[l])>> >>

LookupsView ==
    <<epoch, urls, stamp, claims, slots, FailedIsHonest,
      [l \in Lookups |-> <<Places(l), Progress(l)>>]>>

(* What a check heard, and whether it asked twice, is read by no action    *)
(* once it is done, and what it concluded by none at all; of a sweep that  *)
(* is done nothing is read again.  States that differ in these alone, and  *)
(* agree on the invariants that do read them, count as one.                *)
Ended(w) == sweep[w] = "done"

SweepsView ==
    <<sweep, claim, granted, taken,
      [w \in Sweeps |-> IF Ended(w) THEN <<>> ELSE
          <<wanted[w], pos[w], budget[w], {x \in cancelled : x[1] = w}>>],
      [c \in Checks |-> IF Ended(c[1]) \/ check[c] # "asking" THEN <<check[c]>>
                        ELSE <<heard[c], c \in retried>>],
      SlotsAccounted, VerdictFromAnswer>>

View == <<part, IF part = "lookups" THEN LookupsView ELSE SweepsView>>
=============================================================================
