----------------------------- MODULE OutboundIp -----------------------------
(***************************************************************************)
(* core/outbound_ip.go over core/slots.go: a lookup of the outbound        *)
(* address asks several sources, a few at a time, takes the first usable   *)
(* answer and cancels the rest.  Lookups of an older epoch are cancelled   *)
(* by the claim of a newer one; all of them share the probe slots.         *)
(*                                                                         *)
(* A probe is <<lookup, source>> and runs on a goroutine of its own.  Its  *)
(* answer is TRUE if usable and FALSE for nil.                             *)
(***************************************************************************)
EXTENDS Naturals, Sequences, FiniteSets

CONSTANTS
    Lookups,
    UrlCounts,    \* how many sources a lookup may be given
    Concurrency,  \* outboundIpConcurrency
    Slots,        \* probeConcurrency
    MaxEpoch      \* bound on the route epoch

ASSUME OutboundAssumption ==
    /\ UrlCounts \subseteq Nat
    /\ \E n \in UrlCounts : \A k \in UrlCounts : k <= n
    /\ Concurrency \in Nat \ {0} /\ Slots \in Nat \ {0}
    /\ MaxEpoch \in Nat

MaxUrls == CHOOSE n \in UrlCounts : \A k \in UrlCounts : k <= n
Probes == Lookups \X (1..MaxUrls)

VARIABLES
    epoch,      \* of the route
    at,         \* per lookup: where it is
    urls, stamp,  \* per lookup: its sources and the epoch it read
    ctx,        \* per lookup: its context
    claims,     \* outboundIpClaims
    asked,      \* per lookup: next, the sources asked so far
    inFlight,   \* per lookup
    answers,    \* per lookup: the channel
    result,     \* per lookup: what it returned
    probe,      \* per probe: where it is
    slots       \* the slots taken

lookupVars == <<at, urls, stamp, asked, inFlight, result>>
vars == <<epoch, lookupVars, ctx, claims, answers, probe, slots>>

Init ==
    /\ epoch = 0
    /\ at = [l \in Lookups |-> "idle"]
    /\ urls = [l \in Lookups |-> 0]
    /\ stamp = [l \in Lookups |-> 0]
    /\ ctx = [l \in Lookups |-> "live"]
    /\ claims = {}
    /\ asked = [l \in Lookups |-> 0]
    /\ inFlight = [l \in Lookups |-> 0]
    /\ answers = [l \in Lookups |-> <<>>]
    /\ result = [l \in Lookups |-> "none"]
    /\ probe = [p \in Probes |-> "none"]
    /\ slots = 0

BumpRouteEpoch ==
    /\ epoch < MaxEpoch
    /\ epoch' = epoch + 1
    /\ UNCHANGED <<lookupVars, ctx, claims, answers, probe, slots>>

-----------------------------------------------------------------------------
(* handleOutboundIp.                                                       *)

Goto(l, place) == at' = [at EXCEPT ![l] = place]

(* With no source it fails before it makes a context.                      *)
HandleOutboundIp(l, n) ==
    /\ at[l] = "idle"
    /\ urls' = [urls EXCEPT ![l] = n]
    /\ stamp' = [stamp EXCEPT ![l] = epoch]
    /\ result' = [result EXCEPT ![l] = IF n = 0 THEN "failed" ELSE @]
    /\ Goto(l, IF n = 0 THEN "done" ELSE "stamped")
    /\ UNCHANGED <<epoch, asked, inFlight, ctx, claims, answers, probe, slots>>

IsNotNewer(m, l) == stamp[m] <= stamp[l]

IsStale(m, l) == stamp[m] < stamp[l]

Stale(l) == {m \in claims : IsStale(m, l)}

(* start: the next source, if there is one and room for it.                *)
CanStart(l, flying) == asked[l] < urls[l] /\ flying < Concurrency

Start(l, flying) ==
    IF CanStart(l, flying)
    THEN /\ asked' = [asked EXCEPT ![l] = @ + 1]
         /\ inFlight' = [inFlight EXCEPT ![l] = flying + 1]
         /\ probe' = [probe EXCEPT ![<<l, asked[l] + 1>>] = "asked"]
    ELSE /\ inFlight' = [inFlight EXCEPT ![l] = flying]
         /\ UNCHANGED <<asked, probe>>

(* The epoch was read before: a newer lookup may have claimed meanwhile.   *)
ClaimOutboundIp(l) ==
    /\ at[l] = "stamped"
    /\ ctx' = [m \in Lookups |-> IF m \in Stale(l) /\ ctx[m] = "live" THEN "cancelled"
                                 ELSE ctx[m]]
    /\ claims' = (claims \ Stale(l)) \cup {l}
    /\ Start(l, 0)
    /\ Goto(l, "racing")
    /\ UNCHANGED <<epoch, urls, stamp, answers, result, slots>>

Stagger(l) ==
    /\ at[l] = "racing"
    /\ inFlight[l] > 0
    /\ CanStart(l, inFlight[l])
    /\ Start(l, inFlight[l])
    /\ UNCHANGED <<epoch, at, urls, stamp, ctx, claims, answers, result, slots>>

Return(l, r) ==
    /\ result' = [result EXCEPT ![l] = r]
    /\ Goto(l, "returning")

WaitsForStagger(l, flying) ==
    /\ inFlight' = [inFlight EXCEPT ![l] = flying]
    /\ UNCHANGED <<asked, probe>>

(* An answer that is not usable makes room for the next source.            *)
StartAfterNil(l, flying) == Start(l, flying)

TakeAnswer(l) ==
    /\ at[l] = "racing"
    /\ inFlight[l] > 0
    /\ answers[l] # <<>>
    /\ answers' = [answers EXCEPT ![l] = Tail(@)]
    /\ IF Head(answers[l])
       THEN /\ inFlight' = [inFlight EXCEPT ![l] = @ - 1]
            /\ Return(l, "usable")
            /\ UNCHANGED <<asked, probe>>
       ELSE /\ StartAfterNil(l, inFlight[l] - 1)
            /\ UNCHANGED <<at, result>>
    /\ UNCHANGED <<epoch, urls, stamp, ctx, claims, slots>>

(* A cancelled context is a failure like any other; only a deadline is a   *)
(* timeout.                                                                *)
ProbeErrorKind(c) == IF c = "expired" THEN "timeout" ELSE "failed"

CtxDone(l) ==
    /\ at[l] = "racing"
    /\ inFlight[l] > 0
    /\ ctx[l] # "live"
    /\ Return(l, ProbeErrorKind(ctx[l]))
    /\ UNCHANGED <<epoch, urls, stamp, ctx, claims, asked, inFlight, answers, probe, slots>>

NoneLeft(l) ==
    /\ at[l] = "racing"
    /\ inFlight[l] = 0
    /\ Return(l, "failed")
    /\ UNCHANGED <<epoch, urls, stamp, ctx, claims, asked, inFlight, answers, probe, slots>>

(* The deferred calls: the claim goes first, the context after it.         *)
ReleaseClaim(l) ==
    /\ at[l] = "returning"
    /\ claims' = claims \ {l}
    /\ Goto(l, "released")
    /\ UNCHANGED <<epoch, urls, stamp, asked, inFlight, result, ctx, answers, probe, slots>>

CancelLosers(l) ==
    /\ at[l] = "released"
    /\ ctx' = [ctx EXCEPT ![l] = IF @ = "live" THEN "cancelled" ELSE @]
    /\ Goto(l, "done")
    /\ UNCHANGED <<epoch, urls, stamp, asked, inFlight, result, claims, answers, probe, slots>>

(* The timeout of the whole lookup.                                        *)
Expire(l) ==
    /\ at[l] \notin {"idle", "done"}
    /\ ctx[l] = "live"
    /\ ctx' = [ctx EXCEPT ![l] = "expired"]
    /\ UNCHANGED <<epoch, lookupVars, claims, answers, probe, slots>>

-----------------------------------------------------------------------------
(* probeOutboundIpSource and what it takes of runProbe.                    *)

Become(p, place) == probe' = [probe EXCEPT ![p] = place]

(* A proxy the config no longer has fails before the slots; so does a      *)
(* context that is over.                                                   *)
BeginProbe(p, known) ==
    /\ probe[p] = "asked"
    /\ Become(p, IF known /\ ctx[p[1]] = "live" THEN "waiting" ELSE "nil")
    /\ UNCHANGED <<epoch, lookupVars, ctx, claims, answers, slots>>

(* acquire: with a free slot and a context that is over, either may win.   *)
Acquire(p) ==
    /\ probe[p] = "waiting"
    /\ slots < Slots
    /\ slots' = slots + 1
    /\ Become(p, "out")
    /\ UNCHANGED <<epoch, lookupVars, ctx, claims, answers>>

(* A probe that got no slot gives none back.                               *)
AfterNoSlot(p) == UNCHANGED slots

NoSlot(p) ==
    /\ probe[p] = "waiting"
    /\ ctx[p[1]] # "live"
    /\ AfterNoSlot(p)
    /\ Become(p, "nil")
    /\ UNCHANGED <<epoch, lookupVars, ctx, claims, answers>>

(* The request ends, with a body that names a public address or without.   *)
EndProbe(p, usable) ==
    /\ probe[p] = "out"
    /\ slots' = slots - 1
    /\ Become(p, IF usable THEN "usable" ELSE "nil")
    /\ UNCHANGED <<epoch, lookupVars, ctx, claims, answers>>

HoldsOneAnswer(l) == 1

(* The channel has room for the answer of every source.                    *)
Buffer(l) == urls[l]

SendAnswer(p) ==
    LET l == p[1] IN
    /\ probe[p] \in {"usable", "nil"}
    /\ Len(answers[l]) < Buffer(l)
    /\ answers' = [answers EXCEPT ![l] = Append(@, probe[p] = "usable")]
    /\ Become(p, "ended")
    /\ UNCHANGED <<epoch, lookupVars, ctx, claims, slots>>

-----------------------------------------------------------------------------
Racing(l) ==
    \/ ClaimOutboundIp(l) \/ TakeAnswer(l) \/ CtxDone(l)
    \/ NoneLeft(l) \/ ReleaseClaim(l) \/ CancelLosers(l)

Probing(p) ==
    \/ (\E known \in BOOLEAN : BeginProbe(p, known))
    \/ Acquire(p) \/ NoSlot(p)
    \/ (\E usable \in BOOLEAN : EndProbe(p, usable))
    \/ SendAnswer(p)

Next ==
    \/ BumpRouteEpoch
    \/ \E l \in Lookups :
          \/ \E n \in UrlCounts : HandleOutboundIp(l, n)
          \/ Racing(l) \/ Stagger(l) \/ Expire(l)
    \/ \E p \in Probes : Probing(p)

Spec == Init /\ [][Next]_vars

-----------------------------------------------------------------------------
(* Properties.                                                             *)

(* A lookup that says it failed either asked every source and was let down *)
(* by each, or belongs to a route that is no more, so that the host, which *)
(* cannot tell the two apart, is never told of a failure of this route     *)
(* that nobody met.                                                        *)
FailedIsHonest ==
    \A l \in Lookups :
        result[l] = "failed" =>
            \/ /\ asked[l] = urls[l]
               /\ \A i \in 1..urls[l] : probe[<<l, i>>] = "ended"
               /\ answers[l] = <<>>
            \/ stamp[l] < epoch

(* A lookup is cut off by others only for one that read a newer epoch: two *)
(* lookups of one epoch go on side by side.                                *)
OnlyStaleCancelled ==
    \A l \in Lookups :
        at[l] = "racing" /\ ctx[l] = "cancelled" =>
            \E m \in Lookups : stamp[m] > stamp[l]

(* A probe can always hand in its answer and end: the losers of a lookup   *)
(* that returned, to whom nobody listens any more, leave no goroutine.     *)
LosersCanLeave ==
    \A p \in Probes : probe[p] \in {"usable", "nil"} => Len(answers[p[1]]) < Buffer(p[1])
=============================================================================
