---------------------------- MODULE ProbeProofs ----------------------------
(***************************************************************************)
(* Proofs about the two users of the core's slots: the lookups of the      *)
(* outbound address, for any number of lookups and sources, every          *)
(* concurrency and any number of slots, and the service checks, for any    *)
(* number of sweeps, any lists and any number of slots.                    *)
(***************************************************************************)
EXTENDS OutboundIp, ServiceCheck, FiniteSetTheorems, SequenceTheorems, TLAPS

-----------------------------------------------------------------------------
(* The lookups of the outbound address.                                    *)

ProbePlaces == {"none", "asked", "waiting", "out", "nil", "usable", "ended"}

RaceTypeOK ==
    /\ epoch \in Nat
    /\ at \in [Lookups -> {"idle", "stamped", "racing", "returning", "released", "done"}]
    /\ urls \in [Lookups -> 0..MaxUrls]
    /\ stamp \in [Lookups -> Nat]
    /\ ctx \in [Lookups -> {"live", "cancelled", "expired"}]
    /\ claims \subseteq Lookups
    /\ asked \in [Lookups -> Nat]
    /\ inFlight \in [Lookups -> Nat]
    /\ answers \in [Lookups -> Seq(BOOLEAN)]
    /\ result \in [Lookups -> {"none", "failed", "timeout", "usable"}]
    /\ probe \in [Probes -> ProbePlaces]

-----------------------------------------------------------------------------
(* The probes of a lookup whose answer is not in.                          *)
Flying(l) == {i \in 1..MaxUrls : probe[<<l, i>>] \notin {"none", "ended"}}

(* inFlight counts the probes that fly and the answers nobody took, and a  *)
(* race that has a source left to ask has a probe to wait for.             *)
Counted(l) ==
    /\ asked[l] <= urls[l] /\ inFlight[l] <= asked[l]
    /\ \A i \in 1..MaxUrls : probe[<<l, i>>] = "none" <=> i > asked[l]
    /\ Cardinality(Flying(l)) + Len(answers[l]) = inFlight[l]
    /\ at[l] \in {"idle", "stamped"} => asked[l] = 0
    /\ at[l] = "stamped" => urls[l] > 0
    /\ at[l] = "racing" => asked[l] = urls[l] \/ inFlight[l] > 0

RaceInv == RaceTypeOK /\ \A l \in Lookups : Counted(l)

(* No stamp is of the future, only a race has a claim, and a lookup under  *)
(* way was cancelled for a newer stamp.                                    *)
Overtaken(l) == \E m \in Lookups : stamp[m] > stamp[l]

ClaimInv ==
    \A l \in Lookups :
        /\ stamp[l] <= epoch
        /\ at[l] = "idle" => stamp[l] = 0 /\ ctx[l] = "live"
        /\ l \in claims => at[l] \in {"racing", "returning"}
        /\ ctx[l] = "cancelled" /\ at[l] # "done" => Overtaken(l)

HonestInv ==
    /\ FailedIsHonest
    /\ \A l \in Lookups : at[l] \in {"idle", "stamped", "racing"} => result[l] = "none"

-----------------------------------------------------------------------------
(* The most sources a lookup is given.                                     *)
LEMMA MostSources == MaxUrls \in Nat /\ \A k \in UrlCounts : k <= MaxUrls
  BY OutboundAssumption DEF MaxUrls

(* The probes that fly can be counted.                                     *)
LEMMA FlyingCounts ==
    ASSUME NEW l
    PROVE  IsFiniteSet(Flying(l)) /\ Cardinality(Flying(l)) \in Nat
           /\ (Cardinality(Flying(l)) = 0 <=> Flying(l) = {})
<1>1. IsFiniteSet(1..MaxUrls)
  BY MostSources, FS_Interval
<1>2. Flying(l) \subseteq 1..MaxUrls
  BY DEF Flying
<1> QED BY <1>1, <1>2, FS_Subset, FS_CardinalityType, FS_EmptySet

(* Nothing is asked in the beginning.                                      *)
LEMMA InitRace == Init => RaceInv /\ ClaimInv /\ HonestInv
<1> SUFFICES ASSUME Init PROVE RaceInv /\ ClaimInv /\ HonestInv
  OBVIOUS
<1> USE MostSources DEF Init
<1>1. RaceTypeOK
  BY DEF RaceTypeOK, ProbePlaces
<1>2. ASSUME NEW l \in Lookups PROVE Counted(l)
  <2>1. \A i \in 1..MaxUrls : probe[<<l, i>>] = "none"
    BY DEF Probes
  <2>2. Flying(l) = {}
    BY <2>1 DEF Flying
  <2> QED BY <2>1, <2>2, FS_EmptySet DEF Counted
<1>3. ClaimInv
  BY DEF ClaimInv
<1>4. HonestInv
  BY DEF HonestInv, FailedIsHonest
<1> QED BY <1>1, <1>2, <1>3, <1>4 DEF RaceInv

(* What nobody touched is counted as before.                               *)
LEMMA SameCounted ==
    ASSUME NEW l \in Lookups, Counted(l),
           asked'[l] = asked[l], urls'[l] = urls[l], inFlight'[l] = inFlight[l],
           answers'[l] = answers[l], at'[l] \in {at[l], "returning", "released", "done"},
           \A i \in 1..MaxUrls : probe'[<<l, i>>] = probe[<<l, i>>]
    PROVE  Counted(l)' /\ Flying(l)' = Flying(l)
<1>1. Flying(l)' = Flying(l)
  BY DEF Flying
<1>2. (Cardinality(Flying(l)) + Len(answers[l]) = inFlight[l])'
  BY <1>1 DEF Counted
<1> QED BY <1>1, <1>2 DEF Counted

(* start: a source more is asked, if there is one and room for it; if      *)
(* not, none is left or enough fly.                                        *)
LEMMA StartCounts ==
    ASSUME RaceInv, NEW l \in Lookups, NEW flying \in Nat, Start(l, flying), flying <= asked[l],
           NEW n \in Nat, Cardinality(Flying(l)) + n = flying
    PROVE  /\ asked' \in [Lookups -> Nat] /\ inFlight' \in [Lookups -> Nat] /\ probe' \in [Probes -> ProbePlaces]
           /\ \A m \in Lookups \ {l} : asked'[m] = asked[m] /\ inFlight'[m] = inFlight[m]
                                       /\ \A i \in 1..MaxUrls : probe'[<<m, i>>] = probe[<<m, i>>]
           /\ asked'[l] <= urls[l] /\ inFlight'[l] <= asked'[l]
           /\ \A i \in 1..MaxUrls : probe'[<<l, i>>] = "none" <=> i > asked'[l]
           /\ Cardinality(Flying(l)') + n = inFlight'[l]
           /\ asked'[l] = urls[l] \/ inFlight'[l] > 0
<1> USE OutboundAssumption, MostSources
<1>1. /\ asked \in [Lookups -> Nat] /\ inFlight \in [Lookups -> Nat] /\ probe \in [Probes -> ProbePlaces]
      /\ urls[l] \in 0..MaxUrls /\ asked[l] \in Nat
      /\ asked[l] <= urls[l]
      /\ \A i \in 1..MaxUrls : probe[<<l, i>>] = "none" <=> i > asked[l]
  BY DEF RaceInv, RaceTypeOK, Counted
<1>2. IsFiniteSet(Flying(l)) /\ Cardinality(Flying(l)) \in Nat
  BY FlyingCounts
<1>3. CASE CanStart(l, flying)
  <2> DEFINE k == asked[l] + 1
             p == <<l, k>>
  <2>1. k \in 1..MaxUrls /\ p \in Probes /\ probe[p] = "none" /\ k <= urls[l]
    BY <1>1, <1>3 DEF CanStart, Probes
  <2>2. /\ asked' = [asked EXCEPT ![l] = k]
        /\ inFlight' = [inFlight EXCEPT ![l] = flying + 1]
        /\ probe' = [probe EXCEPT ![p] = "asked"]
    BY <1>3 DEF Start
  <2>3. /\ asked'[l] = k /\ inFlight'[l] = flying + 1
        /\ asked' \in [Lookups -> Nat] /\ inFlight' \in [Lookups -> Nat]
        /\ probe' \in [Probes -> ProbePlaces]
    <3>1. k \in Nat /\ flying + 1 \in Nat /\ "asked" \in ProbePlaces
      BY <1>1 DEF ProbePlaces
    <3>2. asked'[l] = k /\ asked' \in [Lookups -> Nat]
      BY <1>1, <2>2, <3>1
    <3>3. inFlight'[l] = flying + 1 /\ inFlight' \in [Lookups -> Nat]
      BY <1>1, <2>2, <3>1
    <3>4. probe' \in [Probes -> ProbePlaces]
      BY <1>1, <2>2, <3>1
    <3> QED BY <3>2, <3>3, <3>4
  <2>4. \A m \in Lookups, i \in 1..MaxUrls :
            probe'[<<m, i>>] = IF m = l /\ i = k THEN "asked" ELSE probe[<<m, i>>]
    BY <1>1, <2>1, <2>2 DEF Probes
  <2>5. Flying(l)' = Flying(l) \cup {k} /\ k \notin Flying(l)
    BY <2>1, <2>4 DEF Flying
  <2>6. Cardinality(Flying(l)') = Cardinality(Flying(l)) + 1
    BY <1>2, <2>5, FS_AddElement
  <2>7. \A i \in 1..MaxUrls : probe'[<<l, i>>] = "none" <=> i > asked'[l]
    BY <1>1, <2>3, <2>4
  <2>8. \A m \in Lookups \ {l} : asked'[m] = asked[m] /\ inFlight'[m] = inFlight[m]
                                 /\ \A i \in 1..MaxUrls : probe'[<<m, i>>] = probe[<<m, i>>]
    BY <1>1, <2>2, <2>4
  <2>9. Cardinality(Flying(l)') + n = inFlight'[l]
    BY <1>2, <2>3, <2>6
  <2> QED BY <1>1, <2>1, <2>3, <2>7, <2>8, <2>9
<1>4. CASE ~CanStart(l, flying)
  <2>1. inFlight' = [inFlight EXCEPT ![l] = flying] /\ UNCHANGED <<asked, probe>>
    BY <1>4 DEF Start
  <2>2. asked[l] = urls[l] \/ flying > 0
    BY <1>1, <1>4 DEF CanStart
  <2>3. Flying(l)' = Flying(l)
    BY <2>1 DEF Flying
  <2>4. inFlight'[l] = flying /\ inFlight' \in [Lookups -> Nat]
        /\ \A m \in Lookups \ {l} : inFlight'[m] = inFlight[m]
    BY <1>1, <2>1
  <2>5. Cardinality(Flying(l)') + n = inFlight'[l]
    BY <2>3, <2>4
  <2> QED BY <1>1, <2>1, <2>2, <2>4, <2>5
<1> QED BY <1>3, <1>4

(* The steps of a race that ask sources.                                   *)
LEMMA StartKeepsRace ==
    ASSUME RaceInv, NEW l \in Lookups, ClaimOutboundIp(l) \/ Stagger(l) \/ TakeAnswer(l)
    PROVE  RaceInv'
<1> USE OutboundAssumption, MostSources
<1>1. RaceTypeOK /\ Counted(l) /\ Cardinality(Flying(l)) \in Nat
  BY FlyingCounts DEF RaceInv
<1>2. /\ asked \in [Lookups -> Nat] /\ inFlight \in [Lookups -> Nat] /\ asked[l] \in Nat /\ inFlight[l] \in Nat
      /\ answers[l] \in Seq(BOOLEAN) /\ Len(answers[l]) \in Nat /\ at \in [Lookups -> {"idle", "stamped", "racing", "returning", "released", "done"}]
      /\ urls[l] \in 0..MaxUrls /\ probe \in [Probes -> ProbePlaces]
  BY <1>1 DEF RaceTypeOK
<1>3. ASSUME NEW f \in Nat, Start(l, f), f <= asked[l],
             Cardinality(Flying(l)) + Len(answers'[l]) = f, Len(answers'[l]) \in Nat,
             UNCHANGED <<epoch, urls, stamp>>, at' \in {at, [at EXCEPT ![l] = "racing"]}, at'[l] = "racing",
             claims' \subseteq Lookups, ctx' \in [Lookups -> {"live", "cancelled", "expired"}],
             answers' \in [Lookups -> Seq(BOOLEAN)], \A m \in Lookups \ {l} : answers'[m] = answers[m],
             UNCHANGED result
      PROVE  RaceInv'
  <2>1. PICK n \in Nat : n = Len(answers'[l])
    BY <1>3
  <2>2. /\ asked' \in [Lookups -> Nat] /\ inFlight' \in [Lookups -> Nat] /\ probe' \in [Probes -> ProbePlaces]
        /\ \A m \in Lookups \ {l} : asked'[m] = asked[m] /\ inFlight'[m] = inFlight[m]
                                    /\ \A i \in 1..MaxUrls : probe'[<<m, i>>] = probe[<<m, i>>]
        /\ asked'[l] <= urls[l] /\ inFlight'[l] <= asked'[l]
        /\ \A i \in 1..MaxUrls : probe'[<<l, i>>] = "none" <=> i > asked'[l]
        /\ Cardinality(Flying(l)') + n = inFlight'[l]
        /\ asked'[l] = urls[l] \/ inFlight'[l] > 0
    BY <1>3, <2>1, StartCounts
  <2>3. RaceTypeOK'
    <3>1. at' \in [Lookups -> {"idle", "stamped", "racing", "returning", "released", "done"}]
      BY <1>2, <1>3
    <3>2. /\ epoch' \in Nat /\ urls' \in [Lookups -> 0..MaxUrls] /\ stamp' \in [Lookups -> Nat]
          /\ result' \in [Lookups -> {"none", "failed", "timeout", "usable"}]
      BY <1>1, <1>3 DEF RaceTypeOK
    <3> QED BY <1>3, <2>2, <3>1, <3>2 DEF RaceTypeOK
  <2>4. ASSUME NEW m \in Lookups \ {l} PROVE Counted(m)'
    <3>1. Counted(m) /\ at'[m] = at[m]
      BY <1>2, <1>3 DEF RaceInv
    <3> QED BY <1>3, <2>2, <3>1, SameCounted
  <2>5. Counted(l)'
    BY <1>3, <2>1, <2>2 DEF Counted
  <2> QED BY <2>3, <2>4, <2>5 DEF RaceInv
<1>4. CASE ClaimOutboundIp(l)
  <2>1. asked[l] = 0 /\ Cardinality(Flying(l)) = 0 /\ Len(answers[l]) = 0
    BY <1>1, <1>2, <1>4 DEF ClaimOutboundIp, Counted
  <2>2. /\ Start(l, 0) /\ UNCHANGED <<epoch, urls, stamp, answers, result>>
        /\ at' = [at EXCEPT ![l] = "racing"] /\ at'[l] = "racing" /\ claims' \subseteq Lookups
    BY <1>1, <1>2, <1>4 DEF ClaimOutboundIp, Goto, RaceTypeOK
  <2>3. ctx' \in [Lookups -> {"live", "cancelled", "expired"}]
    BY <1>1, <1>4 DEF ClaimOutboundIp, RaceTypeOK
  <2>4. answers' \in [Lookups -> Seq(BOOLEAN)] /\ answers' = answers
    BY <1>1, <2>2 DEF RaceTypeOK
  <2>5. Cardinality(Flying(l)) + Len(answers'[l]) = 0 /\ Len(answers'[l]) \in Nat
    BY <2>1, <2>4
  <2>6. 0 \in Nat /\ 0 <= asked[l]
    BY <2>1
  <2> QED BY <1>3, <2>2, <2>3, <2>4, <2>5, <2>6
<1>5. CASE Stagger(l)
  <2>1. /\ Start(l, inFlight[l]) /\ UNCHANGED <<epoch, at, urls, stamp, ctx, claims, answers, result>> /\ at[l] = "racing"
    BY <1>5 DEF Stagger
  <2>2. inFlight[l] <= asked[l] /\ Cardinality(Flying(l)) + Len(answers[l]) = inFlight[l]
    BY <1>1 DEF Counted
  <2> QED BY <1>1, <1>2, <1>3, <2>1, <2>2 DEF RaceTypeOK
<1>6. CASE TakeAnswer(l)
  <2>1. /\ answers[l] # <<>> /\ inFlight[l] > 0 /\ at[l] = "racing"
        /\ answers' = [answers EXCEPT ![l] = Tail(@)]
        /\ UNCHANGED <<epoch, urls, stamp, ctx, claims>>
    BY <1>6 DEF TakeAnswer
  <2>2. /\ answers' \in [Lookups -> Seq(BOOLEAN)] /\ Len(answers'[l]) = Len(answers[l]) - 1 /\ Len(answers'[l]) \in Nat
        /\ \A m \in Lookups \ {l} : answers'[m] = answers[m]
    <3>1. Tail(answers[l]) \in Seq(BOOLEAN) /\ Len(Tail(answers[l])) = Len(answers[l]) - 1 /\ Len(answers[l]) > 0
      <4>1. Tail(answers[l]) \in Seq(BOOLEAN) /\ Len(Tail(answers[l])) = Len(answers[l]) - 1
        BY <1>2, <2>1, HeadTailProperties
      <4>2. Len(answers[l]) > 0
        BY <1>2, <2>1, EmptySeq
      <4> QED BY <4>1, <4>2
    <3> QED BY <1>1, <1>2, <2>1, <3>1 DEF RaceTypeOK
  <2>3. inFlight[l] <= asked[l] /\ asked[l] <= urls[l] /\ Cardinality(Flying(l)) + Len(answers[l]) = inFlight[l]
    BY <1>1 DEF Counted
  <2>4. CASE Head(answers[l])
    <3>1. /\ inFlight' = [inFlight EXCEPT ![l] = inFlight[l] - 1] /\ UNCHANGED <<asked, probe>>
          /\ at' = [at EXCEPT ![l] = "returning"] /\ result' = [result EXCEPT ![l] = "usable"]
      BY <1>6, <2>4 DEF TakeAnswer, Return, Goto
    <3>2. inFlight[l] - 1 \in Nat
      BY <1>2, <2>1
    <3>3. RaceTypeOK'
      BY <1>1, <1>2, <2>1, <2>2, <3>1, <3>2 DEF RaceTypeOK
    <3>4. ASSUME NEW m \in Lookups \ {l} PROVE Counted(m)'
      <4>1. Counted(m) /\ at'[m] = at[m] /\ inFlight'[m] = inFlight[m]
        BY <1>2, <3>1 DEF RaceInv
      <4> QED BY <2>1, <2>2, <3>1, <4>1, SameCounted
    <3>5. Flying(l)' = Flying(l)
      BY <3>1 DEF Flying
    <3>6. inFlight'[l] = inFlight[l] - 1 /\ at'[l] = "returning"
      BY <1>2, <3>1
    <3>7. Cardinality(Flying(l)') + Len(answers'[l]) = inFlight'[l]
      BY <1>1, <1>2, <2>2, <2>3, <3>5, <3>6
    <3>8. Counted(l)'
      BY <1>1, <1>2, <2>1, <2>3, <3>1, <3>6, <3>7 DEF Counted
    <3> QED BY <3>3, <3>4, <3>8 DEF RaceInv
  <2>5. CASE ~Head(answers[l])
    <3>1. Start(l, inFlight[l] - 1) /\ UNCHANGED <<at, result>>
      BY <1>6, <2>5 DEF TakeAnswer, StartAfterNil
    <3>2. /\ inFlight[l] - 1 \in Nat /\ inFlight[l] - 1 <= asked[l]
          /\ Cardinality(Flying(l)) + Len(answers'[l]) = inFlight[l] - 1
      BY <1>1, <1>2, <2>1, <2>2, <2>3
    <3> QED BY <1>1, <1>3, <2>1, <2>2, <3>1, <3>2 DEF RaceTypeOK
  <2> QED BY <2>4, <2>5
<1> QED BY <1>4, <1>5, <1>6

(* The steps of a lookup that touch no source.                             *)
LEMMA LookupKeepsRace ==
    ASSUME RaceInv, NEW l \in Lookups,
           \/ \E n \in UrlCounts : HandleOutboundIp(l, n)
           \/ CtxDone(l) \/ NoneLeft(l) \/ ReleaseClaim(l) \/ CancelLosers(l) \/ Expire(l)
    PROVE  RaceInv'
<1> USE OutboundAssumption, MostSources
<1>1. RaceTypeOK
  BY DEF RaceInv
<1>2. CASE \E n \in UrlCounts : HandleOutboundIp(l, n)
  <2>1. PICK n \in UrlCounts : HandleOutboundIp(l, n)
    BY <1>2
  <2>2. /\ at[l] = "idle" /\ urls' = [urls EXCEPT ![l] = n] /\ stamp' = [stamp EXCEPT ![l] = epoch]
        /\ UNCHANGED <<epoch, asked, inFlight, ctx, claims, answers, probe>>
    BY <2>1 DEF HandleOutboundIp
  <2>3. PICK place \in {"done", "stamped"} : at' = [at EXCEPT ![l] = place] /\ (place = "stamped" => n # 0)
    BY <2>1 DEF HandleOutboundIp, Goto
  <2>4. PICK res \in {"failed", result[l]} : result' = [result EXCEPT ![l] = res]
    BY <2>1 DEF HandleOutboundIp
  <2>5. n \in 0..MaxUrls
    BY <2>1
  <2>6. RaceTypeOK'
    <3>1. at' \in [Lookups -> {"idle", "stamped", "racing", "returning", "released", "done"}]
      BY <1>1, <2>3 DEF RaceTypeOK
    <3>2. result' \in [Lookups -> {"none", "failed", "timeout", "usable"}]
      BY <1>1, <2>4 DEF RaceTypeOK
    <3>3. urls' \in [Lookups -> 0..MaxUrls] /\ stamp' \in [Lookups -> Nat]
      BY <1>1, <2>2, <2>5 DEF RaceTypeOK
    <3> QED BY <1>1, <2>2, <3>1, <3>2, <3>3 DEF RaceTypeOK
  <2>7. ASSUME NEW m \in Lookups \ {l} PROVE Counted(m)'
    <3>1. Counted(m) /\ at'[m] = at[m] /\ urls'[m] = urls[m]
      BY <1>1, <2>2, <2>3 DEF RaceInv, RaceTypeOK
    <3> QED BY <2>2, <3>1, SameCounted
  <2>8. Counted(l)'
    <3>1. Counted(l) /\ asked[l] = 0 /\ at'[l] = place /\ urls'[l] = n
      BY <1>1, <2>2, <2>3 DEF RaceInv, RaceTypeOK, Counted
    <3>2. Flying(l)' = Flying(l)
      BY <2>2 DEF Flying
    <3> QED BY <2>2, <2>3, <2>5, <3>1, <3>2 DEF Counted
  <2> QED BY <2>6, <2>7, <2>8 DEF RaceInv
<1>3. CASE CtxDone(l) \/ NoneLeft(l) \/ ReleaseClaim(l) \/ CancelLosers(l) \/ Expire(l)
  <2>1. UNCHANGED <<epoch, urls, stamp, asked, inFlight, answers, probe>>
    BY <1>3 DEF CtxDone, NoneLeft, ReleaseClaim, CancelLosers, Expire, lookupVars
  <2>2. /\ at' \in [Lookups -> {"idle", "stamped", "racing", "returning", "released", "done"}]
        /\ \A m \in Lookups : at'[m] \in {at[m], "returning", "released", "done"}
    BY <1>1, <1>3 DEF CtxDone, NoneLeft, ReleaseClaim, CancelLosers, Expire, lookupVars, Return, Goto, RaceTypeOK
  <2>3. result' \in [Lookups -> {"none", "failed", "timeout", "usable"}]
    BY <1>1, <1>3 DEF CtxDone, NoneLeft, ReleaseClaim, CancelLosers, Expire, lookupVars, Return, ProbeErrorKind, RaceTypeOK
  <2>4. ctx' \in [Lookups -> {"live", "cancelled", "expired"}] /\ claims' \subseteq Lookups
    BY <1>1, <1>3 DEF CtxDone, NoneLeft, ReleaseClaim, CancelLosers, Expire, RaceTypeOK
  <2>5. RaceTypeOK'
    BY <1>1, <2>1, <2>2, <2>3, <2>4 DEF RaceTypeOK
  <2>6. ASSUME NEW m \in Lookups PROVE Counted(m)'
    <3>1. Counted(m)
      BY DEF RaceInv
    <3> QED BY <2>1, <2>2, <3>1, SameCounted
  <2> QED BY <2>5, <2>6 DEF RaceInv
<1> QED BY <1>2, <1>3

(* What a probe does between the call and its answer...                    *)
LEMMA ProbeMoves ==
    ASSUME NEW p \in Probes,
           (\E known \in BOOLEAN : BeginProbe(p, known)) \/ Acquire(p) \/ NoSlot(p)
           \/ (\E usable \in BOOLEAN : EndProbe(p, usable))
    PROVE  /\ probe[p] \in {"asked", "waiting", "out"}
           /\ \E place \in {"waiting", "out", "nil", "usable"} : probe' = [probe EXCEPT ![p] = place]
           /\ UNCHANGED <<epoch, lookupVars, ctx, claims, answers>>
<1>1. CASE \E known \in BOOLEAN : BeginProbe(p, known)
  BY <1>1 DEF BeginProbe, Become
<1>2. CASE Acquire(p) \/ NoSlot(p)
  BY <1>2 DEF Acquire, NoSlot, Become
<1>3. CASE \E usable \in BOOLEAN : EndProbe(p, usable)
  BY <1>3 DEF EndProbe, Become
<1> QED BY <1>1, <1>2, <1>3

(* ...and when it hands it in.                                             *)
LEMMA ProbeKeepsRace ==
    ASSUME RaceInv, NEW p \in Probes, Probing(p)
    PROVE  RaceInv' /\ UNCHANGED <<epoch, lookupVars, ctx, claims>>
<1> USE MostSources
<1>1. PICK l \in Lookups, i \in 1..MaxUrls : p = <<l, i>>
  BY DEF Probes
<1>2. RaceTypeOK /\ Counted(l) /\ probe \in [Probes -> ProbePlaces] /\ answers \in [Lookups -> Seq(BOOLEAN)]
      /\ asked[l] \in Nat /\ inFlight[l] \in Nat
  BY DEF RaceInv, RaceTypeOK
<1>3. IsFiniteSet(Flying(l)) /\ Cardinality(Flying(l)) \in Nat
  BY FlyingCounts
<1>4. ASSUME UNCHANGED <<epoch, lookupVars, ctx, claims>>, NEW place \in ProbePlaces \ {"none"},
             probe' = [probe EXCEPT ![p] = place], probe[p] \notin {"none", "ended"},
             answers' \in [Lookups -> Seq(BOOLEAN)], \A m \in Lookups \ {l} : answers'[m] = answers[m],
             Cardinality(Flying(l)') + Len(answers'[l]) = inFlight[l]
      PROVE  RaceInv'
  <2>1. UNCHANGED <<at, urls, stamp, asked, inFlight, result>>
    BY <1>4 DEF lookupVars
  <2>2. probe' \in [Probes -> ProbePlaces]
    BY <1>2, <1>4
  <2>3. RaceTypeOK'
    BY <1>2, <1>4, <2>1, <2>2 DEF RaceTypeOK
  <2>4. \A m \in Lookups, j \in 1..MaxUrls :
            probe'[<<m, j>>] = IF m = l /\ j = i THEN place ELSE probe[<<m, j>>]
    BY <1>1, <1>2, <1>4 DEF Probes
  <2>5. ASSUME NEW m \in Lookups \ {l} PROVE Counted(m)'
    <3>1. Counted(m)
      BY DEF RaceInv
    <3> QED BY <1>4, <2>1, <2>4, <3>1, SameCounted
  <2>6. \A j \in 1..MaxUrls : probe'[<<l, j>>] = "none" <=> j > asked[l]
    BY <1>1, <1>2, <1>4, <2>4 DEF Counted
  <2>7. Counted(l)'
    BY <1>2, <1>4, <2>1, <2>6 DEF Counted
  <2> QED BY <2>3, <2>5, <2>7 DEF RaceInv
<1>5. CASE (\E known \in BOOLEAN : BeginProbe(p, known)) \/ Acquire(p) \/ NoSlot(p)
           \/ (\E usable \in BOOLEAN : EndProbe(p, usable))
  <2>1. PICK place \in {"waiting", "out", "nil", "usable"} : probe' = [probe EXCEPT ![p] = place]
    BY <1>5, ProbeMoves
  <2>2. probe[p] \notin {"none", "ended"} /\ UNCHANGED <<epoch, lookupVars, ctx, claims, answers>>
    BY <1>5, ProbeMoves
  <2>3. Flying(l)' = Flying(l)
    <3>1. \A j \in 1..MaxUrls : probe'[<<l, j>>] = IF j = i THEN place ELSE probe[<<l, j>>]
      BY <1>1, <1>2, <2>1 DEF Probes
    <3> QED BY <1>1, <2>2, <3>1 DEF Flying
  <2>4. Cardinality(Flying(l)') + Len(answers'[l]) = inFlight[l]
    BY <1>2, <2>2, <2>3 DEF Counted
  <2>5. place \in ProbePlaces \ {"none"}
    BY DEF ProbePlaces
  <2> QED BY <1>2, <1>4, <2>1, <2>2, <2>4, <2>5
<1>6. CASE SendAnswer(p)
  <2>1. PICK b \in BOOLEAN : answers' = [answers EXCEPT ![l] = Append(@, b)]
    BY <1>1, <1>6 DEF SendAnswer
  <2>2. /\ probe[p] \in {"usable", "nil"} /\ probe' = [probe EXCEPT ![p] = "ended"]
        /\ UNCHANGED <<epoch, lookupVars, ctx, claims>>
    BY <1>6 DEF SendAnswer, Become
  <2>3. Append(answers[l], b) \in Seq(BOOLEAN) /\ Len(Append(answers[l], b)) = Len(answers[l]) + 1
        /\ Len(answers[l]) \in Nat
    BY <1>2, AppendProperties, LenProperties
  <2>4. /\ answers' \in [Lookups -> Seq(BOOLEAN)] /\ Len(answers'[l]) = Len(answers[l]) + 1
        /\ \A m \in Lookups \ {l} : answers'[m] = answers[m]
    BY <1>2, <2>1, <2>3
  <2>5. Flying(l)' = Flying(l) \ {i} /\ i \in Flying(l)
    <3>1. \A j \in 1..MaxUrls : probe'[<<l, j>>] = IF j = i THEN "ended" ELSE probe[<<l, j>>]
      BY <1>1, <1>2, <2>2 DEF Probes
    <3> QED BY <1>1, <2>2, <3>1 DEF Flying
  <2>6. Cardinality(Flying(l)') = Cardinality(Flying(l)) - 1
    BY <1>3, <2>5, FS_RemoveElement
  <2>7. Cardinality(Flying(l)') + Len(answers'[l]) = inFlight[l]
    BY <1>2, <1>3, <2>3, <2>4, <2>6 DEF Counted
  <2>8. "ended" \in ProbePlaces \ {"none"}
    BY DEF ProbePlaces
  <2>9. probe[p] \notin {"none", "ended"}
    BY <2>2
  <2> QED BY <1>4, <2>2, <2>4, <2>7, <2>8, <2>9
<1> QED BY <1>5, <1>6 DEF Probing

(* Every step keeps the count.                                             *)
LEMMA NextKeepsRace == RaceInv /\ [Next]_vars => RaceInv'
<1> SUFFICES ASSUME RaceInv, [Next]_vars PROVE RaceInv'
  OBVIOUS
<1>1. CASE UNCHANGED <<lookupVars, ctx, claims, answers, probe>> /\ epoch' \in {epoch, epoch + 1}
  <2>1. UNCHANGED <<at, urls, stamp, asked, inFlight, result, ctx, claims, answers, probe>>
    BY <1>1 DEF lookupVars
  <2>2. RaceTypeOK'
    BY <1>1, <2>1 DEF RaceInv, RaceTypeOK
  <2>3. ASSUME NEW l \in Lookups PROVE Counted(l)'
    <3>1. Counted(l)
      BY DEF RaceInv
    <3> QED BY <2>1, <3>1, SameCounted
  <2> QED BY <2>2, <2>3 DEF RaceInv
<1>2. CASE BumpRouteEpoch \/ UNCHANGED vars
  BY <1>1, <1>2 DEF BumpRouteEpoch, vars
<1>3. ASSUME NEW l \in Lookups, (\E n \in UrlCounts : HandleOutboundIp(l, n)) \/ Racing(l) \/ Stagger(l) \/ Expire(l)
      PROVE  RaceInv'
  BY <1>3, StartKeepsRace, LookupKeepsRace DEF Racing
<1>4. ASSUME NEW p \in Probes, Probing(p) PROVE RaceInv'
  BY <1>4, ProbeKeepsRace
<1> QED BY <1>2, <1>3, <1>4 DEF Next

(* A probe can always hand in its answer: the channel of a lookup has room *)
(* for every source, whether anybody listens or not.                       *)
THEOREM ProbesEnd == Spec => []LosersCanLeave
<1>1. RaceInv => LosersCanLeave
  <2> SUFFICES ASSUME RaceInv, NEW p \in Probes, probe[p] \in {"usable", "nil"}
               PROVE  Len(answers[p[1]]) < Buffer(p[1])
    BY DEF LosersCanLeave
  <2>1. PICK l \in Lookups, i \in 1..MaxUrls : p = <<l, i>>
    BY DEF Probes
  <2>2. i \in Flying(l)
    BY <2>1 DEF Flying
  <2>3. Cardinality(Flying(l)) \in Nat /\ Cardinality(Flying(l)) # 0
    BY <2>2, FlyingCounts
  <2>4. answers[l] \in Seq(BOOLEAN) /\ asked[l] \in Nat /\ inFlight[l] \in Nat /\ urls[l] \in Nat
    BY MostSources DEF RaceInv, RaceTypeOK
  <2>5. Len(answers[l]) \in Nat
    BY <2>4, LenProperties
  <2>6. Cardinality(Flying(l)) + Len(answers[l]) = inFlight[l] /\ inFlight[l] <= asked[l] /\ asked[l] <= urls[l]
    BY DEF RaceInv, Counted
  <2>7. Len(answers[l]) < urls[l]
    BY <2>3, <2>4, <2>5, <2>6
  <2> QED BY <2>1, <2>7 DEF Buffer
<1> QED BY <1>1, InitRace, NextKeepsRace, PTL DEF Spec

-----------------------------------------------------------------------------
(* A step that moves no stamp and sets the epoch back for nobody keeps the *)
(* order of the claims, if it cancels only who was overtaken or is done.   *)
LEMMA SameStamps ==
    ASSUME RaceInv, ClaimInv, UNCHANGED stamp, epoch' \in {epoch, epoch + 1},
           NEW m \in Lookups,
           at'[m] = "idle" => at[m] = "idle" /\ ctx'[m] = ctx[m],
           m \in claims' => at'[m] \in {"racing", "returning"},
           ctx'[m] = "cancelled" /\ at'[m] # "done" => (ctx[m] = "cancelled" /\ at[m] # "done") \/ Overtaken(m)
    PROVE  /\ (stamp[m] <= epoch)'
           /\ (at[m] = "idle" => stamp[m] = 0 /\ ctx[m] = "live")'
           /\ (m \in claims => at[m] \in {"racing", "returning"})'
           /\ (ctx[m] = "cancelled" /\ at[m] # "done" => Overtaken(m))'
<1>1. stamp[m] \in Nat /\ epoch \in Nat
  BY DEF RaceInv, RaceTypeOK
<1>2. (stamp[m] <= epoch)'
  BY <1>1 DEF ClaimInv
<1>3. Overtaken(m)' <=> Overtaken(m)
  BY DEF Overtaken
<1>4. ctx[m] = "cancelled" /\ at[m] # "done" => Overtaken(m)
  BY DEF ClaimInv
<1>5. (at[m] = "idle" => stamp[m] = 0 /\ ctx[m] = "live")'
  BY DEF ClaimInv
<1> QED BY <1>2, <1>3, <1>4, <1>5

(* A lookup that begins reads an epoch no smaller than its own stamp was,  *)
(* so that whoever was overtaken stays so.                                 *)
LEMMA HandleKeepsClaim ==
    ASSUME RaceInv, ClaimInv, NEW l \in Lookups, NEW n \in UrlCounts, HandleOutboundIp(l, n)
    PROVE  ClaimInv'
<1>1. /\ at[l] = "idle" /\ stamp' = [stamp EXCEPT ![l] = epoch]
      /\ UNCHANGED <<epoch, ctx, claims>>
  BY DEF HandleOutboundIp
<1>2. PICK place \in {"done", "stamped"} : at' = [at EXCEPT ![l] = place]
  BY DEF HandleOutboundIp, Goto
<1>3. /\ epoch \in Nat /\ stamp \in [Lookups -> Nat] /\ DOMAIN at = Lookups
  BY DEF RaceInv, RaceTypeOK
<1>4. stamp[l] = 0 /\ ctx[l] = "live" /\ l \notin claims
  BY <1>1 DEF ClaimInv
<1>5. ASSUME NEW m \in Lookups
      PROVE  /\ (stamp[m] <= epoch)'
             /\ (at[m] = "idle" => stamp[m] = 0 /\ ctx[m] = "live")'
             /\ (m \in claims => at[m] \in {"racing", "returning"})'
             /\ (ctx[m] = "cancelled" /\ at[m] # "done" => Overtaken(m))'
  <2>1. CASE m = l
    <3>1. stamp'[l] = epoch /\ at'[l] = place
      BY <1>1, <1>2, <1>3
    <3> QED BY <1>1, <1>3, <1>4, <2>1, <3>1
  <2>2. CASE m # l
    <3>1. stamp'[m] = stamp[m] /\ at'[m] = at[m]
      BY <1>1, <1>2, <1>3, <2>2
    <3>2. Overtaken(m) => Overtaken(m)'
      <4> SUFFICES ASSUME NEW w \in Lookups, stamp[w] > stamp[m] PROVE Overtaken(m)'
        BY DEF Overtaken
      <4>1. stamp[w] \in Nat /\ stamp[m] \in Nat
        BY <1>3
      <4>2. w # l
        BY <1>4, <4>1
      <4>3. stamp'[w] = stamp[w]
        BY <1>1, <1>3, <4>2
      <4> QED BY <3>1, <4>3 DEF Overtaken
    <3> QED BY <1>1, <3>1, <3>2 DEF ClaimInv
  <2> QED BY <2>1, <2>2
<1> QED BY <1>5 DEF ClaimInv

(* A claim cancels the claims of smaller stamps and no other.              *)
LEMMA ClaimKeepsClaim ==
    ASSUME RaceInv, ClaimInv, NEW l \in Lookups, ClaimOutboundIp(l)
    PROVE  ClaimInv'
<1>1. /\ at[l] = "stamped" /\ UNCHANGED <<epoch, stamp>>
      /\ claims' = (claims \ Stale(l)) \cup {l}
      /\ at' = [at EXCEPT ![l] = "racing"]
  BY DEF ClaimOutboundIp, Goto
<1>2. \A m \in Lookups : ctx'[m] = IF m \in Stale(l) /\ ctx[m] = "live" THEN "cancelled" ELSE ctx[m]
  BY DEF ClaimOutboundIp
<1>3. stamp \in [Lookups -> Nat] /\ DOMAIN at = Lookups
  BY DEF RaceInv, RaceTypeOK
<1>4. ASSUME NEW m \in Lookups
      PROVE  /\ (stamp[m] <= epoch)'
             /\ (at[m] = "idle" => stamp[m] = 0 /\ ctx[m] = "live")'
             /\ (m \in claims => at[m] \in {"racing", "returning"})'
             /\ (ctx[m] = "cancelled" /\ at[m] # "done" => Overtaken(m))'
  <2>1. at'[m] = IF m = l THEN "racing" ELSE at[m]
    BY <1>1, <1>3
  <2>2. m \in Stale(l) => Overtaken(m) /\ m \in claims
    BY <1>3 DEF Stale, IsStale, Overtaken
  <2>3. m \in claims => at[m] \in {"racing", "returning"}
    BY DEF ClaimInv
  <2>4. at'[m] = "idle" => at[m] = "idle" /\ ctx'[m] = ctx[m]
    BY <1>2, <2>1, <2>2, <2>3
  <2>5. m \in claims' => at'[m] \in {"racing", "returning"}
    BY <1>1, <2>1, <2>3
  <2>6. ctx'[m] = "cancelled" /\ at'[m] # "done" => (ctx[m] = "cancelled" /\ at[m] # "done") \/ Overtaken(m)
    BY <1>1, <1>2, <2>1, <2>2
  <2> QED BY <1>1, <2>4, <2>5, <2>6, SameStamps
<1> QED BY <1>4 DEF ClaimInv

(* Every other step of a lookup leaves the stamps alone; the one that      *)
(* cancels its own context is its last.                                    *)
LEMMA NextKeepsClaim == RaceInv /\ ClaimInv /\ [Next]_vars => ClaimInv'
<1> SUFFICES ASSUME RaceInv, ClaimInv, [Next]_vars PROVE ClaimInv'
  OBVIOUS
<1>0. /\ DOMAIN at = Lookups /\ ctx \in [Lookups -> {"live", "cancelled", "expired"}]
      /\ \A m \in Lookups : m \in claims => at[m] \in {"racing", "returning"}
  BY DEF RaceInv, RaceTypeOK, ClaimInv
<1>1. ASSUME UNCHANGED stamp, epoch' \in {epoch, epoch + 1},
             \A m \in Lookups :
                 /\ at'[m] = "idle" => at[m] = "idle" /\ ctx'[m] = ctx[m]
                 /\ m \in claims' => at'[m] \in {"racing", "returning"}
                 /\ ctx'[m] = "cancelled" /\ at'[m] # "done" => ctx[m] = "cancelled" /\ at[m] # "done"
      PROVE  ClaimInv'
  BY <1>1, SameStamps DEF ClaimInv
<1>2. CASE UNCHANGED <<at, stamp, ctx, claims>> /\ epoch' \in {epoch, epoch + 1}
  BY <1>0, <1>1, <1>2
<1>3. CASE BumpRouteEpoch \/ UNCHANGED vars
  BY <1>2, <1>3 DEF BumpRouteEpoch, vars, lookupVars
<1>4. ASSUME NEW p \in Probes, Probing(p) PROVE ClaimInv'
  <2>1. UNCHANGED <<epoch, lookupVars, ctx, claims>>
    BY <1>4, ProbeKeepsRace
  <2> QED BY <1>2, <2>1 DEF lookupVars
<1>5. ASSUME NEW l \in Lookups, (\E n \in UrlCounts : HandleOutboundIp(l, n)) \/ Racing(l) \/ Stagger(l) \/ Expire(l)
      PROVE  ClaimInv'
  <2>1. CASE \E n \in UrlCounts : HandleOutboundIp(l, n)
    BY <2>1, HandleKeepsClaim
  <2>2. CASE ClaimOutboundIp(l)
    BY <2>2, ClaimKeepsClaim
  <2>3. CASE Stagger(l)
    BY <1>2, <2>3 DEF Stagger
  <2>4. CASE TakeAnswer(l) \/ CtxDone(l) \/ NoneLeft(l)
    <3>1. at[l] = "racing" /\ UNCHANGED <<epoch, stamp, ctx, claims>>
      BY <2>4 DEF TakeAnswer, CtxDone, NoneLeft
    <3>2. at' \in {at, [at EXCEPT ![l] = "returning"]}
      BY <2>4 DEF TakeAnswer, CtxDone, NoneLeft, Return, Goto
    <3>3. \A m \in Lookups : at'[m] = at[m] \/ (m = l /\ at'[m] = "returning")
      BY <1>0, <3>2
    <3> QED BY <1>0, <1>1, <3>1, <3>3
  <2>5. CASE ReleaseClaim(l)
    <3>1. /\ at[l] = "returning" /\ UNCHANGED <<epoch, stamp, ctx>> /\ claims' = claims \ {l}
          /\ \A m \in Lookups : at'[m] = IF m = l THEN "released" ELSE at[m]
      BY <1>0, <2>5 DEF ReleaseClaim, Goto
    <3> QED BY <1>0, <1>1, <3>1
  <2>6. CASE CancelLosers(l)
    <3>1. /\ at[l] = "released" /\ UNCHANGED <<epoch, stamp, claims>>
          /\ \A m \in Lookups : at'[m] = IF m = l THEN "done" ELSE at[m]
      BY <1>0, <2>6 DEF CancelLosers, Goto
    <3>2. \A m \in Lookups : m # l => ctx'[m] = ctx[m]
      BY <1>0, <2>6 DEF CancelLosers
    <3> QED BY <1>0, <1>1, <3>1, <3>2
  <2>7. CASE Expire(l)
    <3>1. at[l] # "idle" /\ UNCHANGED <<epoch, at, stamp, claims>>
      BY <2>7 DEF Expire, lookupVars
    <3>2. \A m \in Lookups : ctx'[m] = IF m = l THEN "expired" ELSE ctx[m]
      BY <1>0, <2>7 DEF Expire
    <3> QED BY <1>0, <1>1, <3>1, <3>2
  <2> QED BY <1>5, <2>1, <2>2, <2>3, <2>4, <2>5, <2>6, <2>7 DEF Racing
<1> QED BY <1>3, <1>4, <1>5 DEF Next

(* A lookup is cut off by others only for one that read a newer epoch.     *)
THEOREM CutOffOnlyByNewer == Spec => []OnlyStaleCancelled
<1>1. ClaimInv => OnlyStaleCancelled
  BY DEF ClaimInv, OnlyStaleCancelled, Overtaken
<1> QED BY <1>1, InitRace, NextKeepsRace, NextKeepsClaim, PTL DEF Spec

-----------------------------------------------------------------------------
(* What FailedIsHonest says of one lookup.                                 *)
MetIt(l) ==
    /\ asked[l] = urls[l]
    /\ \A i \in 1..urls[l] : probe[<<l, i>>] = "ended"
    /\ answers[l] = <<>>

HonestAt(l) ==
    /\ result[l] = "failed" => MetIt(l) \/ stamp[l] < epoch
    /\ at[l] \in {"idle", "stamped", "racing"} => result[l] = "none"

(* The invariant, lookup by lookup.                                        *)
LEMMA HonestEach == HonestInv <=> \A l \in Lookups : HonestAt(l)
  BY DEF HonestInv, FailedIsHonest, HonestAt, MetIt

(* When none is left, each source was asked, answered nil and was heard.   *)
LEMMA NoneLeftMetIt ==
    ASSUME RaceInv, NEW l \in Lookups, at[l] = "racing", inFlight[l] = 0
    PROVE  MetIt(l)
<1>1. /\ asked[l] = urls[l] /\ Cardinality(Flying(l)) + Len(answers[l]) = 0
      /\ \A i \in 1..MaxUrls : probe[<<l, i>>] = "none" <=> i > asked[l]
  BY DEF RaceInv, Counted
<1>2. answers[l] \in Seq(BOOLEAN) /\ urls[l] \in 0..MaxUrls
  BY DEF RaceInv, RaceTypeOK
<1>3. Len(answers[l]) \in Nat
  BY <1>2, LenProperties
<1>4. Flying(l) = {} /\ Len(answers[l]) = 0
  BY <1>1, <1>3, FlyingCounts
<1>5. answers[l] = <<>>
  BY <1>2, <1>4, EmptySeq
<1>6. \A i \in 1..urls[l] : probe[<<l, i>>] = "ended"
  BY <1>1, <1>2, <1>4, MostSources DEF Flying
<1> QED BY <1>1, <1>5, <1>6 DEF MetIt

(* A step that touches neither a lookup nor its sources keeps it honest.   *)
LEMMA SameHonest ==
    ASSUME RaceInv, NEW l \in Lookups, HonestAt(l),
           at'[l] \in {at[l], "returning", "released", "done"}, stamp'[l] = stamp[l],
           urls'[l] = urls[l], asked'[l] = asked[l], answers'[l] = answers[l],
           \A i \in 1..MaxUrls : probe'[<<l, i>>] = probe[<<l, i>>],
           result'[l] = result[l], epoch' \in {epoch, epoch + 1}
    PROVE  HonestAt(l)'
<1>1. epoch \in Nat /\ stamp[l] \in Nat /\ urls[l] \in 0..MaxUrls
  BY DEF RaceInv, RaceTypeOK
<1>2. MetIt(l) => MetIt(l)'
  BY <1>1, MostSources DEF MetIt
<1> QED BY <1>1, <1>2 DEF HonestAt

(* A lookup under way has not returned: its race may ask and hear on.      *)
LEMMA RacingIsHonest ==
    ASSUME NEW l, HonestAt(l), at[l] \in {"idle", "stamped", "racing"}, result'[l] = result[l]
    PROVE  HonestAt(l)'
  BY DEF HonestAt

(* The steps of a lookup that ask its sources or hear them.                *)
LEMMA StartKeepsHonest ==
    ASSUME RaceInv, HonestInv, NEW l \in Lookups, ClaimOutboundIp(l) \/ Stagger(l) \/ TakeAnswer(l)
    PROVE  HonestInv'
<1>0. /\ DOMAIN at = Lookups /\ DOMAIN result = Lookups /\ DOMAIN inFlight = Lookups
      /\ DOMAIN asked = Lookups /\ DOMAIN answers = Lookups /\ probe \in [Probes -> ProbePlaces]
      /\ asked[l] \in Nat
  BY DEF RaceInv, RaceTypeOK
<1>1. \A m \in Lookups : HonestAt(m)
  BY HonestEach
<1>2. /\ at[l] \in {"stamped", "racing"} /\ UNCHANGED <<epoch, urls, stamp>>
      /\ \A m \in Lookups \ {l} : answers'[m] = answers[m]
  BY <1>0 DEF ClaimOutboundIp, Stagger, TakeAnswer
<1>3. \A m \in Lookups \ {l} : at'[m] = at[m] /\ result'[m] = result[m]
  <2>1. CASE ClaimOutboundIp(l) \/ Stagger(l)
    BY <1>0, <2>1 DEF ClaimOutboundIp, Stagger, Goto
  <2>2. CASE TakeAnswer(l)
    BY <1>0, <2>2 DEF TakeAnswer, Return, Goto
  <2> QED BY <2>1, <2>2
<1>4. \A m \in Lookups \ {l} : asked'[m] = asked[m] /\ \A i \in 1..MaxUrls : probe'[<<m, i>>] = probe[<<m, i>>]
  <2>1. ASSUME NEW f, Start(l, f)
        PROVE  \A m \in Lookups \ {l} : asked'[m] = asked[m] /\ \A i \in 1..MaxUrls : probe'[<<m, i>>] = probe[<<m, i>>]
    <3>1. CASE UNCHANGED <<asked, probe>>
      BY <3>1
    <3>2. CASE asked' = [asked EXCEPT ![l] = @ + 1] /\ probe' = [probe EXCEPT ![<<l, asked[l] + 1>>] = "asked"]
      BY <1>0, <3>2 DEF Probes
    <3> QED BY <2>1, <3>1, <3>2 DEF Start
  <2>2. CASE ClaimOutboundIp(l) \/ Stagger(l)
    BY <2>1, <2>2 DEF ClaimOutboundIp, Stagger
  <2>3. CASE TakeAnswer(l) /\ Head(answers[l])
    BY <2>3 DEF TakeAnswer
  <2>4. CASE TakeAnswer(l) /\ ~Head(answers[l])
    BY <2>1, <2>4 DEF TakeAnswer, StartAfterNil
  <2> QED BY <2>2, <2>3, <2>4
<1>5. ASSUME NEW m \in Lookups \ {l} PROVE HonestAt(m)'
  BY <1>1, <1>2, <1>3, <1>4, SameHonest
<1>6. HonestAt(l)'
  <2>1. CASE result'[l] = result[l]
    BY <1>1, <1>2, <2>1, RacingIsHonest
  <2>2. CASE result'[l] = "usable" /\ at'[l] = "returning"
    BY <2>2 DEF HonestAt
  <2>3. CASE TakeAnswer(l)
    BY <1>0, <2>1, <2>2, <2>3 DEF TakeAnswer, Return, Goto
  <2>4. CASE ClaimOutboundIp(l) \/ Stagger(l)
    BY <2>1, <2>4 DEF ClaimOutboundIp, Stagger
  <2> QED BY <2>3, <2>4
<1>7. \A m \in Lookups : HonestAt(m)'
  BY <1>5, <1>6
<1> QED BY <1>7 DEF HonestInv, FailedIsHonest, HonestAt, MetIt

(* The steps by which a lookup begins, gives up or leaves.  One that gives *)
(* up because it was cancelled was overtaken, and no stamp is of the       *)
(* future: its epoch is over.                                              *)
LEMMA LookupKeepsHonest ==
    ASSUME RaceInv, ClaimInv, HonestInv, NEW l \in Lookups,
           \/ \E n \in UrlCounts : HandleOutboundIp(l, n)
           \/ CtxDone(l) \/ NoneLeft(l) \/ ReleaseClaim(l) \/ CancelLosers(l) \/ Expire(l)
    PROVE  HonestInv'
<1>0. /\ DOMAIN at = Lookups /\ DOMAIN result = Lookups /\ DOMAIN urls = Lookups /\ DOMAIN stamp = Lookups
      /\ epoch \in Nat /\ stamp \in [Lookups -> Nat] /\ ctx[l] \in {"live", "cancelled", "expired"}
  BY DEF RaceInv, RaceTypeOK
<1>1. \A m \in Lookups : HonestAt(m)
  BY HonestEach
<1>2. UNCHANGED <<epoch, asked, answers, probe>>
  BY DEF HandleOutboundIp, CtxDone, NoneLeft, ReleaseClaim, CancelLosers, Expire, lookupVars
<1>3. ASSUME NEW m \in Lookups \ {l} PROVE HonestAt(m)'
  <2>1. CASE \E n \in UrlCounts : HandleOutboundIp(l, n)
    <3>1. at'[m] = at[m] /\ result'[m] = result[m] /\ urls'[m] = urls[m] /\ stamp'[m] = stamp[m]
      BY <1>0, <2>1 DEF HandleOutboundIp, Goto
    <3> QED BY <1>1, <1>2, <3>1, SameHonest
  <2>2. CASE CtxDone(l) \/ NoneLeft(l)
    <3>1. at'[m] = at[m] /\ result'[m] = result[m] /\ urls'[m] = urls[m] /\ stamp'[m] = stamp[m]
      BY <1>0, <2>2 DEF CtxDone, NoneLeft, Return, Goto
    <3> QED BY <1>1, <1>2, <3>1, SameHonest
  <2>3. CASE ReleaseClaim(l) \/ CancelLosers(l) \/ Expire(l)
    <3>1. at'[m] = at[m] /\ result'[m] = result[m] /\ urls'[m] = urls[m] /\ stamp'[m] = stamp[m]
      BY <1>0, <2>3 DEF ReleaseClaim, CancelLosers, Expire, lookupVars, Goto
    <3> QED BY <1>1, <1>2, <3>1, SameHonest
  <2> QED BY <2>1, <2>2, <2>3
<1>4. HonestAt(l)'
  <2>1. CASE \E n \in UrlCounts : HandleOutboundIp(l, n)
    <3>1. PICK n \in UrlCounts : HandleOutboundIp(l, n)
      BY <2>1
    <3>2. at[l] = "idle" /\ result[l] = "none" /\ urls'[l] = n
      BY <1>0, <1>1, <3>1 DEF HandleOutboundIp, HonestAt
    <3>3. CASE n = 0
      <4>1. at'[l] = "done"
        BY <1>0, <3>1, <3>3 DEF HandleOutboundIp, Goto
      <4>2. asked[l] = 0 /\ Cardinality(Flying(l)) + Len(answers[l]) = inFlight[l] /\ inFlight[l] <= asked[l]
        BY <3>2 DEF RaceInv, Counted
      <4>3. answers[l] \in Seq(BOOLEAN) /\ inFlight[l] \in Nat
        BY DEF RaceInv, RaceTypeOK
      <4>4. Len(answers[l]) \in Nat /\ Cardinality(Flying(l)) \in Nat
        BY <4>3, LenProperties, FlyingCounts
      <4>5. answers[l] = <<>>
        BY <4>2, <4>3, <4>4, EmptySeq
      <4>6. MetIt(l)'
        BY <1>2, <3>2, <3>3, <4>2, <4>5 DEF MetIt
      <4> QED BY <4>1, <4>6 DEF HonestAt
    <3>4. CASE n # 0
      <4>1. result'[l] = "none"
        BY <1>0, <3>1, <3>2, <3>4 DEF HandleOutboundIp
      <4> QED BY <4>1 DEF HonestAt
    <3> QED BY <3>3, <3>4
  <2>2. CASE CtxDone(l)
    <3>1. /\ at[l] = "racing" /\ at'[l] = "returning" /\ result'[l] = ProbeErrorKind(ctx[l])
          /\ ctx[l] # "live" /\ UNCHANGED <<epoch, stamp>>
      BY <1>0, <2>2 DEF CtxDone, Return, Goto
    <3>2. CASE ctx[l] = "expired"
      BY <3>1, <3>2 DEF ProbeErrorKind, HonestAt
    <3>3. CASE ctx[l] = "cancelled"
      <4>1. PICK m \in Lookups : stamp[m] > stamp[l]
        BY <3>1, <3>3 DEF ClaimInv, Overtaken
      <4>2. stamp[m] <= epoch /\ stamp[m] \in Nat /\ stamp[l] \in Nat
        BY <1>0 DEF ClaimInv
      <4>3. stamp[l] < epoch
        BY <1>0, <4>1, <4>2
      <4> QED BY <3>1, <4>3 DEF HonestAt
    <3> QED BY <1>0, <3>1, <3>2, <3>3
  <2>3. CASE NoneLeft(l)
    <3>1. at[l] = "racing" /\ inFlight[l] = 0 /\ at'[l] = "returning" /\ UNCHANGED urls
      BY <1>0, <2>3 DEF NoneLeft, Return, Goto
    <3>2. MetIt(l)
      BY <3>1, NoneLeftMetIt
    <3>3. MetIt(l)'
      BY <1>2, <3>1, <3>2 DEF MetIt
    <3> QED BY <3>1, <3>3 DEF HonestAt
  <2>4. CASE ReleaseClaim(l) \/ CancelLosers(l) \/ Expire(l)
    <3>1. at'[l] \in {at[l], "released", "done"} /\ result'[l] = result[l] /\ UNCHANGED <<urls, stamp>>
      BY <1>0, <2>4 DEF ReleaseClaim, CancelLosers, Expire, lookupVars, Goto
    <3> QED BY <1>1, <1>2, <3>1, SameHonest
  <2> QED BY <2>1, <2>2, <2>3, <2>4
<1>5. \A m \in Lookups : HonestAt(m)'
  BY <1>3, <1>4
<1> QED BY <1>5 DEF HonestInv, FailedIsHonest, HonestAt, MetIt

(* A source that was asked and has ended says no more, so that a probe     *)
(* that moves is one of a lookup that has not met its failure.             *)
LEMMA ProbeKeepsHonest ==
    ASSUME RaceInv, HonestInv, NEW p \in Probes, Probing(p)
    PROVE  HonestInv'
<1>1. PICK l \in Lookups, i \in 1..MaxUrls : p = <<l, i>>
  BY DEF Probes
<1>2. UNCHANGED <<epoch, at, urls, stamp, asked, result>>
  BY ProbeKeepsRace DEF lookupVars
<1>3. /\ probe[p] \notin {"none", "ended"}
      /\ \E place : probe' = [probe EXCEPT ![p] = place]
      /\ \A m \in Lookups \ {l} : answers'[m] = answers[m]
  <2>1. CASE SendAnswer(p)
    <3>1. answers \in [Lookups -> Seq(BOOLEAN)]
      BY DEF RaceInv, RaceTypeOK
    <3> QED BY <1>1, <2>1, <3>1 DEF SendAnswer, Become
  <2>2. CASE ~SendAnswer(p)
    BY <2>2, ProbeMoves DEF Probing
  <2> QED BY <2>1, <2>2
<1>4. PICK place : probe' = [probe EXCEPT ![p] = place]
  BY <1>3
<1>5. \A m \in Lookups : HonestAt(m)
  BY HonestEach
<1>6. ASSUME NEW m \in Lookups \ {l} PROVE HonestAt(m)'
  <2>1. \A j \in 1..MaxUrls : probe'[<<m, j>>] = probe[<<m, j>>]
    <3>1. probe \in [Probes -> ProbePlaces]
      BY DEF RaceInv, RaceTypeOK
    <3> QED BY <1>1, <1>4, <3>1 DEF Probes
  <2> QED BY <1>2, <1>3, <1>5, <2>1, SameHonest
<1>7. HonestAt(l)'
  <2>1. ~MetIt(l)
    <3> SUFFICES ASSUME MetIt(l) PROVE FALSE
      OBVIOUS
    <3>1. probe[<<l, i>>] = "none" <=> i > asked[l]
      BY DEF RaceInv, Counted
    <3>2. asked[l] = urls[l] /\ asked[l] \in Nat /\ \A j \in 1..urls[l] : probe[<<l, j>>] = "ended"
      BY DEF MetIt, RaceInv, RaceTypeOK
    <3>3. i \in 1..urls[l]
      BY <1>1, <1>3, <3>1, <3>2, MostSources
    <3> QED BY <1>1, <1>3, <3>2, <3>3
  <2> QED BY <1>2, <1>5, <2>1 DEF HonestAt
<1>8. \A m \in Lookups : HonestAt(m)'
  BY <1>6, <1>7
<1> QED BY <1>8 DEF HonestInv, FailedIsHonest, HonestAt, MetIt

(* Every step keeps what a failure says true.                              *)
LEMMA NextKeepsHonest == RaceInv /\ ClaimInv /\ HonestInv /\ [Next]_vars => HonestInv'
<1> SUFFICES ASSUME RaceInv, ClaimInv, HonestInv, [Next]_vars PROVE HonestInv'
  OBVIOUS
<1>1. CASE BumpRouteEpoch \/ UNCHANGED vars
  <2>1. UNCHANGED <<at, urls, stamp, asked, result, answers, probe>> /\ epoch' \in {epoch, epoch + 1}
    BY <1>1 DEF BumpRouteEpoch, vars, lookupVars
  <2>2. \A m \in Lookups : HonestAt(m)'
    BY <2>1, HonestEach, SameHonest
  <2> QED BY <2>2 DEF HonestInv, FailedIsHonest, HonestAt, MetIt
<1>2. ASSUME NEW l \in Lookups, (\E n \in UrlCounts : HandleOutboundIp(l, n)) \/ Racing(l) \/ Stagger(l) \/ Expire(l)
      PROVE  HonestInv'
  BY <1>2, StartKeepsHonest, LookupKeepsHonest DEF Racing
<1>3. ASSUME NEW p \in Probes, Probing(p) PROVE HonestInv'
  BY <1>3, ProbeKeepsHonest
<1> QED BY <1>1, <1>2, <1>3 DEF Next

(* A lookup that says it failed asked every source and was let down by     *)
(* each, or belongs to a route that is no more.                            *)
THEOREM FailureIsMet == Spec => []FailedIsHonest
<1>1. HonestInv => FailedIsHonest
  BY DEF HonestInv
<1> QED BY <1>1, InitRace, NextKeepsRace, NextKeepsClaim, NextKeepsHonest, PTL DEF Spec

-----------------------------------------------------------------------------
(* The service checks.                                                     *)

SweepTypeOK ==
    /\ sweep \in [Sweeps -> {"idle", "claiming", "queueing", "acquiring", "waiting", "releasing", "done"}]
    /\ wanted \in [Sweeps -> Seq(Services)]
    /\ pos \in [Sweeps -> Nat \ {0}]
    /\ claim \in [Services -> Sweeps \cup {None}]
    /\ check \in [Checks -> {"none", "begun", "asking", "done"}]
    /\ granted \subseteq Checks
    /\ DOMAIN heard = Checks /\ DOMAIN status = Checks
    /\ taken \in Nat

(* A sweep comes to one place after the other, and a check begins when its *)
(* place is reached and not before.                                        *)
PlaceAt(w) ==
    /\ Len(wanted[w]) <= Longest
    /\ sweep[w] = "idle" => pos[w] = 1
    /\ sweep[w] \notin {"idle", "done"} => pos[w] <= Len(wanted[w])
    /\ \A i \in 1..Longest :
          /\ sweep[w] \in {"idle", "claiming"} => check[<<w, i>>] = "none"
          /\ sweep[w] \in {"queueing", "acquiring"} /\ i >= pos[w] => check[<<w, i>>] = "none"
          /\ check[<<w, i>>] # "none" => i <= Len(wanted[w])

SweepInv == SweepTypeOK /\ \A w \in Sweeps : PlaceAt(w)

(* A check that holds a slot is under way.                                 *)
SlotInv ==
    /\ IsFiniteSet(granted) /\ taken = Cardinality(granted) /\ taken <= CheckSlots
    /\ \A c \in granted : check[c] \in {"begun", "asking"}

(* The longest list.                                                       *)
LEMMA LongestList == Longest \in Nat /\ \A list \in Lists : Len(list) <= Longest
<1>1. PICK longest \in Lists : \A list \in Lists : Len(list) <= Len(longest)
  BY SweepAssumption
<1>2. Len(longest) \in {Len(list) : list \in Lists} /\ \A list \in Lists : Len(list) \in Nat
  BY SweepAssumption, LenProperties
<1>3. /\ Longest \in {Len(list) : list \in Lists}
      /\ \A list \in Lists : Len(list) <= Longest
  BY <1>1, <1>2 DEF Longest
<1> QED BY <1>2, <1>3

(* In the beginning nothing is asked, claimed or taken.                    *)
LEMMA InitSweep == CInit => SweepInv /\ SlotInv
<1> SUFFICES ASSUME CInit PROVE SweepInv /\ SlotInv
  OBVIOUS
<1> USE LongestList DEF CInit
<1>1. SweepTypeOK
  BY DEF SweepTypeOK
<1>2. ASSUME NEW w \in Sweeps PROVE PlaceAt(w)
  <2>1. sweep[w] = "idle" /\ pos[w] = 1 /\ wanted[w] = <<>> /\ \A i \in 1..Longest : check[<<w, i>>] = "none"
    BY DEF Checks
  <2> QED BY <2>1 DEF PlaceAt
<1>3. SlotInv
  BY SweepAssumption, FS_EmptySet DEF SlotInv
<1> QED BY <1>1, <1>2, <1>3 DEF SweepInv

(* A sweep a step does not touch stays where it is.                        *)
LEMMA SamePlace ==
    ASSUME NEW w \in Sweeps, PlaceAt(w), sweep'[w] = sweep[w], pos'[w] = pos[w], wanted'[w] = wanted[w],
           \A i \in 1..Longest : check[<<w, i>>] = "none" => check'[<<w, i>>] = "none"
    PROVE  PlaceAt(w)'
  BY DEF PlaceAt

(* What a step of a sweep does to the places.                              *)
LEMMA HandleKeepsSweep ==
    ASSUME SweepInv, NEW w \in Sweeps, NEW list \in Lists, HandleServiceCheck(w, list)
    PROVE  SweepInv'
<1>0. SweepTypeOK /\ PlaceAt(w) /\ list \in Seq(Services) /\ Len(list) <= Longest /\ Len(list) \in Nat
  BY SweepAssumption, LongestList, LenProperties DEF SweepInv
<1>1. /\ sweep[w] = "idle" /\ wanted' = [wanted EXCEPT ![w] = list]
      /\ UNCHANGED <<pos, claim, check, granted, heard, status, taken>>
  BY DEF HandleServiceCheck, checkVars
<1>2. PICK phase \in {"done", "claiming"} : sweep' = [sweep EXCEPT ![w] = phase] /\ (phase = "claiming" => list # <<>>)
  BY DEF HandleServiceCheck
<1>3. SweepTypeOK'
  BY <1>0, <1>1, <1>2 DEF SweepTypeOK
<1>4. sweep'[w] = phase /\ wanted'[w] = list /\ pos'[w] = 1
      /\ \A v \in Sweeps \ {w} : sweep'[v] = sweep[v] /\ wanted'[v] = wanted[v]
  BY <1>0, <1>1, <1>2 DEF SweepTypeOK, PlaceAt
<1>5. phase = "claiming" => Len(list) >= 1
  BY <1>0, <1>2, EmptySeq
<1>6. PlaceAt(w)'
  BY <1>0, <1>1, <1>4, <1>5 DEF PlaceAt
<1>7. ASSUME NEW v \in Sweeps \ {w} PROVE PlaceAt(v)'
  BY <1>1, <1>4, SamePlace DEF SweepInv
<1> QED BY <1>3, <1>6, <1>7 DEF SweepInv

(* Advance leads to the next place or, past the last, to the next phase.   *)
LEMMA AdvanceMoves ==
    ASSUME SweepTypeOK, NEW w \in Sweeps, NEW phase, Advance(w, phase)
    PROVE  /\ pos' \in [Sweeps -> Nat \ {0}] /\ DOMAIN sweep' = Sweeps
           /\ \A v \in Sweeps \ {w} : sweep'[v] = sweep[v] /\ pos'[v] = pos[v]
           /\ \/ pos[w] < Len(wanted[w]) /\ pos'[w] = pos[w] + 1 /\ sweep'[w] = sweep[w]
              \/ ~(pos[w] < Len(wanted[w])) /\ pos'[w] = 1 /\ sweep'[w] = phase
<1>0. pos \in [Sweeps -> Nat \ {0}] /\ DOMAIN sweep = Sweeps /\ pos[w] \in Nat \ {0}
  BY DEF SweepTypeOK
<1>1. CASE pos[w] < Len(wanted[w])
  BY <1>0, <1>1 DEF Advance
<1>2. CASE ~(pos[w] < Len(wanted[w]))
  BY <1>0, <1>2 DEF Advance
<1> QED BY <1>1, <1>2

(* A check that begins, with a slot or without: its place was not reached  *)
(* before, so that it holds none yet.                                      *)
LEMMA RunBegins ==
    ASSUME SweepInv, SlotInv, NEW w \in Sweeps, sweep[w] \in {"queueing", "acquiring"},
           NEW holds \in BOOLEAN, holds => taken < CheckSlots, Run(w, holds)
    PROVE  /\ check' \in [Checks -> {"none", "begun", "asking", "done"}]
           /\ granted' \subseteq Checks /\ taken' \in Nat /\ SlotInv'
           /\ UNCHANGED <<heard, status>>
           /\ pos[w] \in 1..Longest /\ pos[w] <= Len(wanted[w]) /\ check[<<w, pos[w]>>] = "none"
           /\ \A v \in Sweeps, i \in 1..Longest :
                 check'[<<v, i>>] = IF v = w /\ i = pos[w] THEN "begun" ELSE check[<<v, i>>]
<1>0. /\ SweepTypeOK /\ PlaceAt(w) /\ wanted[w] \in Seq(Services) /\ pos[w] \in Nat \ {0}
      /\ check \in [Checks -> {"none", "begun", "asking", "done"}] /\ granted \subseteq Checks /\ taken \in Nat
  BY DEF SweepInv, SweepTypeOK
<1>1. Len(wanted[w]) \in Nat /\ Longest \in Nat
  BY <1>0, LenProperties, LongestList
<1>2. pos[w] \in 1..Longest /\ pos[w] <= Len(wanted[w])
  BY <1>0, <1>1 DEF PlaceAt
<1>3. check[<<w, pos[w]>>] = "none" /\ <<w, pos[w]>> \in Checks
  BY <1>0, <1>2 DEF PlaceAt, Checks
<1>4. PICK c \in Checks : c = <<w, pos[w]>>
  BY <1>3
<1>5. /\ check' = [check EXCEPT ![c] = "begun"] /\ UNCHANGED <<heard, status>>
      /\ granted' = IF holds THEN granted \cup {c} ELSE granted
      /\ taken' = IF holds THEN taken + 1 ELSE taken
  BY <1>4 DEF Run
<1>6. c \notin granted
  BY <1>3, <1>4 DEF SlotInv
<1>7. /\ check' \in [Checks -> {"none", "begun", "asking", "done"}] /\ check'[c] = "begun"
      /\ \A d \in Checks \ {c} : check'[d] = check[d]
  BY <1>0, <1>5
<1>8. SlotInv'
  <2>1. IsFiniteSet(granted) /\ taken = Cardinality(granted) /\ taken <= CheckSlots
        /\ \A d \in granted : check[d] \in {"begun", "asking"}
    BY DEF SlotInv
  <2>2. \A d \in granted' : check'[d] \in {"begun", "asking"}
    BY <1>0, <1>5, <1>6, <1>7, <2>1
  <2>3. CASE holds
    <3>1. granted' = granted \cup {c} /\ taken' = taken + 1
      BY <1>5, <2>3
    <3>2. IsFiniteSet(granted \cup {c}) /\ Cardinality(granted \cup {c}) = taken + 1
      BY <1>6, <2>1, FS_AddElement
    <3>3. taken + 1 <= CheckSlots
      BY <1>0, <2>3, SweepAssumption
    <3> QED BY <2>2, <3>1, <3>2, <3>3 DEF SlotInv
  <2>4. CASE ~holds
    <3>1. granted' = granted /\ taken' = taken
      BY <1>5, <2>4
    <3> QED BY <2>1, <2>2, <3>1 DEF SlotInv
  <2> QED BY <2>3, <2>4
<1>9. \A v \in Sweeps, i \in 1..Longest :
          check'[<<v, i>>] = IF v = w /\ i = pos[w] THEN "begun" ELSE check[<<v, i>>]
  BY <1>4, <1>7 DEF Checks
<1>10. granted' \subseteq Checks /\ taken' \in Nat
  BY <1>0, <1>5
<1> QED BY <1>2, <1>3, <1>5, <1>7, <1>8, <1>9, <1>10

(* The steps of a sweep that begin a check.                                *)
LEMMA QueueKeepsSweep ==
    ASSUME SweepInv, SlotInv, NEW w \in Sweeps, Queue(w) \/ AcquireSlot(w)
    PROVE  SweepInv' /\ SlotInv'
<1>0. /\ SweepTypeOK /\ PlaceAt(w) /\ wanted[w] \in Seq(Services) /\ pos[w] \in Nat \ {0}
      /\ sweep \in [Sweeps -> {"idle", "claiming", "queueing", "acquiring", "waiting", "releasing", "done"}]
      /\ pos \in [Sweeps -> Nat \ {0}]
  BY DEF SweepInv, SweepTypeOK
<1>1. Len(wanted[w]) \in Nat /\ Longest \in Nat
  BY <1>0, LenProperties, LongestList
<1>2. UNCHANGED <<wanted, claim>> /\ sweep[w] \in {"queueing", "acquiring"}
  BY DEF Queue, AcquireSlot
<1>3. ASSUME NEW holds \in BOOLEAN, holds => taken < CheckSlots, Run(w, holds),
             sweep' \in [Sweeps -> {"idle", "claiming", "queueing", "acquiring", "waiting", "releasing", "done"}],
             pos' \in [Sweeps -> Nat \ {0}],
             \A v \in Sweeps \ {w} : sweep'[v] = sweep[v] /\ pos'[v] = pos[v],
             \/ pos[w] < Len(wanted[w]) /\ pos'[w] = pos[w] + 1 /\ sweep'[w] = "queueing"
             \/ ~(pos[w] < Len(wanted[w])) /\ pos'[w] = 1 /\ sweep'[w] = "waiting"
      PROVE  SweepInv' /\ SlotInv'
  <2>1. /\ check' \in [Checks -> {"none", "begun", "asking", "done"}]
        /\ granted' \subseteq Checks /\ taken' \in Nat /\ SlotInv'
        /\ UNCHANGED <<heard, status>>
        /\ pos[w] \in 1..Longest /\ pos[w] <= Len(wanted[w]) /\ check[<<w, pos[w]>>] = "none"
        /\ \A v \in Sweeps, i \in 1..Longest :
              check'[<<v, i>>] = IF v = w /\ i = pos[w] THEN "begun" ELSE check[<<v, i>>]
    BY <1>2, <1>3, RunBegins
  <2>2. SweepTypeOK'
    BY <1>0, <1>2, <1>3, <2>1 DEF SweepTypeOK
  <2>3. ASSUME NEW v \in Sweeps \ {w} PROVE PlaceAt(v)'
    BY <1>2, <1>3, <2>1, SamePlace DEF SweepInv
  <2>4. PlaceAt(w)'
    <3>1. \A i \in 1..Longest : i > pos[w] => check'[<<w, i>>] = "none"
      BY <1>0, <1>2, <2>1 DEF PlaceAt
    <3>2. \A i \in 1..Longest : check'[<<w, i>>] # "none" => i <= Len(wanted[w])
      BY <1>0, <2>1 DEF PlaceAt
    <3>3. Len(wanted[w]) <= Longest
      BY <1>0 DEF PlaceAt
    <3>4. CASE pos[w] < Len(wanted[w]) /\ pos'[w] = pos[w] + 1 /\ sweep'[w] = "queueing"
      BY <1>0, <1>1, <1>2, <3>1, <3>2, <3>3, <3>4 DEF PlaceAt
    <3>5. CASE pos'[w] = 1 /\ sweep'[w] = "waiting"
      BY <1>0, <1>1, <1>2, <2>1, <3>2, <3>3, <3>5 DEF PlaceAt
    <3> QED BY <1>3, <3>4, <3>5
  <2> QED BY <2>1, <2>2, <2>3, <2>4 DEF SweepInv
<1>4. CASE Queue(w)
  <2>1. CASE IsOver(w, wanted[w][pos[w]])
    <3>1. Run(w, FALSE) /\ Advance(w, "waiting") /\ sweep[w] = "queueing"
      BY <1>4, <2>1 DEF Queue
    <3>2. /\ pos' \in [Sweeps -> Nat \ {0}] /\ DOMAIN sweep' = Sweeps
          /\ \A v \in Sweeps \ {w} : sweep'[v] = sweep[v] /\ pos'[v] = pos[v]
          /\ \/ pos[w] < Len(wanted[w]) /\ pos'[w] = pos[w] + 1 /\ sweep'[w] = "queueing"
             \/ ~(pos[w] < Len(wanted[w])) /\ pos'[w] = 1 /\ sweep'[w] = "waiting"
      BY <1>0, <3>1, AdvanceMoves
    <3>3. sweep' \in {sweep, [sweep EXCEPT ![w] = "waiting"]}
      BY <3>1 DEF Advance
    <3>4. sweep' \in [Sweeps -> {"idle", "claiming", "queueing", "acquiring", "waiting", "releasing", "done"}]
      BY <1>0, <3>3
    <3> QED BY <1>3, <3>1, <3>2, <3>4
  <2>2. CASE ~IsOver(w, wanted[w][pos[w]])
    <3>1. /\ sweep[w] = "queueing" /\ sweep' = [sweep EXCEPT ![w] = "acquiring"]
          /\ UNCHANGED <<pos, check, granted, heard, status, taken>>
      BY <1>4, <2>2 DEF Queue, checkVars
    <3>2. SweepTypeOK'
      BY <1>0, <1>2, <3>1 DEF SweepTypeOK
    <3>3. sweep'[w] = "acquiring" /\ \A v \in Sweeps \ {w} : sweep'[v] = sweep[v]
      BY <1>0, <3>1
    <3>4. ASSUME NEW v \in Sweeps \ {w} PROVE PlaceAt(v)'
      BY <1>2, <3>1, <3>3, SamePlace DEF SweepInv
    <3>5. PlaceAt(w)'
      BY <1>0, <1>2, <3>1, <3>3 DEF PlaceAt
    <3>6. SlotInv'
      BY <3>1 DEF SlotInv
    <3> QED BY <3>2, <3>4, <3>5, <3>6 DEF SweepInv
  <2> QED BY <2>1, <2>2
<1>5. CASE AcquireSlot(w)
  <2>1. PICK holds \in BOOLEAN : Run(w, holds) /\ (holds => taken < CheckSlots)
    BY <1>5 DEF AcquireSlot
  <2>2. CASE pos[w] < Len(wanted[w])
    <3>1. pos' = [pos EXCEPT ![w] = @ + 1] /\ sweep' = [sweep EXCEPT ![w] = "queueing"]
      BY <1>5, <2>2 DEF AcquireSlot
    <3>2. /\ sweep' \in [Sweeps -> {"idle", "claiming", "queueing", "acquiring", "waiting", "releasing", "done"}]
          /\ pos' \in [Sweeps -> Nat \ {0}] /\ pos'[w] = pos[w] + 1 /\ sweep'[w] = "queueing"
          /\ \A v \in Sweeps \ {w} : sweep'[v] = sweep[v] /\ pos'[v] = pos[v]
      BY <1>0, <3>1
    <3> QED BY <1>3, <2>1, <2>2, <3>2
  <2>3. CASE ~(pos[w] < Len(wanted[w]))
    <3>1. pos' = [pos EXCEPT ![w] = 1] /\ sweep' = [sweep EXCEPT ![w] = "waiting"]
      BY <1>5, <2>3 DEF AcquireSlot
    <3>2. /\ sweep' \in [Sweeps -> {"idle", "claiming", "queueing", "acquiring", "waiting", "releasing", "done"}]
          /\ pos' \in [Sweeps -> Nat \ {0}] /\ pos'[w] = 1 /\ sweep'[w] = "waiting"
          /\ \A v \in Sweeps \ {w} : sweep'[v] = sweep[v] /\ pos'[v] = pos[v]
      BY <1>0, <3>1
    <3> QED BY <1>3, <2>1, <2>3, <3>2
  <2> QED BY <2>2, <2>3
<1> QED BY <1>4, <1>5

(* The steps of a sweep that begin none.                                   *)
LEMMA SweepKeepsSweep ==
    ASSUME SweepInv, NEW w \in Sweeps, ClaimService(w) \/ AllDone(w) \/ ReleaseService(w)
    PROVE  SweepInv' /\ UNCHANGED checkVars
<1>0. /\ SweepTypeOK /\ PlaceAt(w) /\ wanted[w] \in Seq(Services) /\ pos[w] \in Nat \ {0}
      /\ sweep \in [Sweeps -> {"idle", "claiming", "queueing", "acquiring", "waiting", "releasing", "done"}]
      /\ pos \in [Sweeps -> Nat \ {0}] /\ claim \in [Services -> Sweeps \cup {None}]
  BY DEF SweepInv, SweepTypeOK
<1>1. Len(wanted[w]) \in Nat /\ Longest \in Nat
  BY <1>0, LenProperties, LongestList
<1>2. UNCHANGED <<wanted, check, granted, heard, status, taken>> /\ UNCHANGED checkVars
  BY DEF ClaimService, AllDone, ReleaseService, checkVars
<1>3. sweep[w] \in {"claiming", "releasing", "waiting"}
  BY DEF ClaimService, AllDone, ReleaseService
<1>4. pos[w] \in 1..Len(wanted[w])
  BY <1>0, <1>1, <1>3 DEF PlaceAt
<1>5. wanted[w][pos[w]] \in Services
  BY <1>0, <1>4, ElementOfSeq
<1>6. ASSUME NEW phase \in {"queueing", "done"}, Advance(w, phase), claim' \in [Services -> Sweeps \cup {None}],
             sweep[w] = IF phase = "queueing" THEN "claiming" ELSE "releasing"
      PROVE  SweepInv'
  <2>1. /\ pos' \in [Sweeps -> Nat \ {0}] /\ DOMAIN sweep' = Sweeps
        /\ \A v \in Sweeps \ {w} : sweep'[v] = sweep[v] /\ pos'[v] = pos[v]
        /\ \/ pos[w] < Len(wanted[w]) /\ pos'[w] = pos[w] + 1 /\ sweep'[w] = sweep[w]
           \/ ~(pos[w] < Len(wanted[w])) /\ pos'[w] = 1 /\ sweep'[w] = phase
    BY <1>0, <1>6, AdvanceMoves
  <2>2. sweep' \in {sweep, [sweep EXCEPT ![w] = phase]}
    BY <1>6 DEF Advance
  <2>3. sweep' \in [Sweeps -> {"idle", "claiming", "queueing", "acquiring", "waiting", "releasing", "done"}]
    BY <1>0, <2>2
  <2>4. SweepTypeOK'
    BY <1>0, <1>2, <1>6, <2>1, <2>3 DEF SweepTypeOK
  <2>5. ASSUME NEW v \in Sweeps \ {w} PROVE PlaceAt(v)'
    BY <1>2, <2>1, SamePlace DEF SweepInv
  <2>6. CASE pos[w] < Len(wanted[w])
    <3>1. PlaceAt(w)'
      BY <1>0, <1>1, <1>2, <1>3, <1>6, <2>1, <2>6 DEF PlaceAt
    <3> QED BY <2>4, <2>5, <3>1 DEF SweepInv
  <2>7. CASE ~(pos[w] < Len(wanted[w]))
    <3>1. pos'[w] = 1 /\ sweep'[w] = phase
      BY <2>1, <2>7
    <3>2. CASE phase = "queueing"
      <4>1. sweep[w] = "claiming" /\ sweep'[w] = "queueing"
        BY <1>6, <3>1, <3>2
      <4>2. PlaceAt(w)'
        BY <1>0, <1>1, <1>2, <1>4, <3>1, <4>1 DEF PlaceAt
      <4> QED BY <2>4, <2>5, <4>2 DEF SweepInv
    <3>3. CASE phase = "done"
      <4>1. sweep[w] = "releasing" /\ sweep'[w] = "done"
        BY <1>6, <3>1, <3>3
      <4>2. PlaceAt(w)'
        BY <1>0, <1>1, <1>2, <1>4, <3>1, <4>1 DEF PlaceAt
      <4> QED BY <2>4, <2>5, <4>2 DEF SweepInv
    <3> QED BY <3>2, <3>3
  <2> QED BY <2>6, <2>7
<1>7. CASE ClaimService(w)
  <2>1. claim' \in {claim, [claim EXCEPT ![wanted[w][pos[w]]] = w]} /\ Advance(w, "queueing") /\ sweep[w] = "claiming"
    BY <1>7 DEF ClaimService
  <2>2. claim' \in [Services -> Sweeps \cup {None}]
    BY <1>0, <1>5, <2>1
  <2>3. SweepInv'
    BY <1>6, <2>1, <2>2
  <2> QED BY <1>2, <2>3
<1>8. CASE AllDone(w)
  <2>1. sweep[w] = "waiting" /\ sweep' = [sweep EXCEPT ![w] = "releasing"] /\ UNCHANGED <<pos, claim>>
    BY <1>8 DEF AllDone
  <2>2. SweepTypeOK'
    BY <1>0, <1>2, <2>1 DEF SweepTypeOK
  <2>3. sweep'[w] = "releasing" /\ \A v \in Sweeps \ {w} : sweep'[v] = sweep[v]
    BY <1>0, <2>1
  <2>4. ASSUME NEW v \in Sweeps \ {w} PROVE PlaceAt(v)'
    BY <1>2, <2>1, <2>3, SamePlace DEF SweepInv
  <2>5. PlaceAt(w)'
    BY <1>0, <1>2, <2>1, <2>3 DEF PlaceAt
  <2> QED BY <1>2, <2>2, <2>4, <2>5 DEF SweepInv
<1>9. CASE ReleaseService(w)
  <2>1. /\ claim' = [claim EXCEPT ![wanted[w][pos[w]]] = IF @ = w THEN None ELSE @]
        /\ Advance(w, "done") /\ sweep[w] = "releasing"
    BY <1>9 DEF ReleaseService, Release
  <2>2. claim' \in [Services -> Sweeps \cup {None}]
    BY <1>0, <1>5, <2>1
  <2>3. SweepInv'
    BY <1>6, <2>1, <2>2
  <2> QED BY <1>2, <2>3
<1> QED BY <1>7, <1>8, <1>9

(* A check that ends gives back the slot it holds, and no other.           *)
LEMMA FinishKeepsSlots ==
    ASSUME SweepTypeOK, SlotInv, NEW c \in Checks, check[c] \in {"begun", "asking"}, NEW verdict, Finish(c, verdict)
    PROVE  /\ SlotInv' /\ granted' \subseteq Checks /\ taken' \in Nat
           /\ check' \in [Checks -> {"none", "begun", "asking", "done"}]
           /\ DOMAIN status' = Checks /\ check'[c] = "done" /\ \A d \in Checks \ {c} : check'[d] = check[d]
<1>0. check \in [Checks -> {"none", "begun", "asking", "done"}] /\ granted \subseteq Checks /\ taken \in Nat /\ DOMAIN status = Checks
  BY DEF SweepTypeOK
<1>1. /\ check' = [check EXCEPT ![c] = "done"] /\ status' = [status EXCEPT ![c] = verdict]
      /\ taken' = (IF c \in granted THEN taken - 1 ELSE taken) /\ granted' = granted \ {c}
  BY DEF Finish, GiveBackSlot
<1>2. /\ check' \in [Checks -> {"none", "begun", "asking", "done"}] /\ granted' \subseteq Checks
      /\ DOMAIN status' = Checks /\ check'[c] = "done" /\ \A d \in Checks \ {c} : check'[d] = check[d]
  BY <1>0, <1>1
<1>3. IsFiniteSet(granted) /\ taken = Cardinality(granted) /\ taken <= CheckSlots
      /\ \A d \in granted : check[d] \in {"begun", "asking"}
  BY DEF SlotInv
<1>4. \A d \in granted' : check'[d] \in {"begun", "asking"}
  BY <1>0, <1>1, <1>2, <1>3
<1>5. CASE c \in granted
  <2>1. IsFiniteSet(granted \ {c}) /\ Cardinality(granted \ {c}) = taken - 1
    BY <1>3, <1>5, FS_RemoveElement
  <2>2. taken' = taken - 1 /\ taken - 1 \in Nat /\ taken - 1 <= CheckSlots
    BY <1>0, <1>1, <1>3, <1>5, <2>1, FS_CardinalityType, SweepAssumption
  <2> QED BY <1>1, <1>2, <1>4, <2>1, <2>2 DEF SlotInv
<1>6. CASE c \notin granted
  <2>1. granted' = granted /\ taken' = taken
    BY <1>1, <1>6
  <2> QED BY <1>0, <1>2, <1>3, <1>4, <2>1 DEF SlotInv
<1> QED BY <1>5, <1>6

(* The steps of a check.                                                   *)
LEMMA CheckKeepsSweep ==
    ASSUME SweepInv, SlotInv, NEW c \in Checks,
           BeginCheck(c) \/ Panic(c) \/ \E outcome \in Outcomes(c) : Request(c, outcome)
    PROVE  SweepInv' /\ SlotInv'
<1>0. /\ SweepTypeOK /\ check \in [Checks -> {"none", "begun", "asking", "done"}]
      /\ DOMAIN heard = Checks /\ DOMAIN status = Checks /\ granted \subseteq Checks /\ taken \in Nat
  BY DEF SweepInv, SweepTypeOK
<1>1. UNCHANGED <<sweep, wanted, pos, claim>> /\ check[c] \in {"begun", "asking"} /\ DOMAIN heard' = Checks
  BY <1>0 DEF BeginCheck, Panic, Request, sweepVars
<1>2. \/ \E verdict : Finish(c, verdict)
      \/ check' \in {check, [check EXCEPT ![c] = "asking"]} /\ UNCHANGED <<status, granted, taken>>
  BY DEF BeginCheck, Panic, Request
<1>3. ASSUME check' \in [Checks -> {"none", "begun", "asking", "done"}], granted' \subseteq Checks, taken' \in Nat,
             DOMAIN status' = Checks, \A d \in Checks \ {c} : check'[d] = check[d]
      PROVE  SweepInv'
  <2>1. SweepTypeOK'
    BY <1>0, <1>1, <1>3 DEF SweepTypeOK
  <2>2. ASSUME NEW w \in Sweeps PROVE PlaceAt(w)'
    <3>1. ASSUME NEW i \in 1..Longest, check[<<w, i>>] = "none" PROVE check'[<<w, i>>] = "none"
      <4>1. PICK d : d = <<w, i>>
        OBVIOUS
      <4>2. d \in Checks \ {c}
        BY <1>1, <3>1, <4>1 DEF Checks
      <4> QED BY <1>3, <3>1, <4>1, <4>2
    <3> QED BY <1>1, <3>1, SamePlace DEF SweepInv
  <2> QED BY <2>1, <2>2 DEF SweepInv
<1>4. CASE \E verdict : Finish(c, verdict)
  <2>1. PICK verdict : Finish(c, verdict)
    BY <1>4
  <2>2. /\ SlotInv' /\ granted' \subseteq Checks /\ taken' \in Nat
        /\ check' \in [Checks -> {"none", "begun", "asking", "done"}]
        /\ DOMAIN status' = Checks /\ check'[c] = "done" /\ \A d \in Checks \ {c} : check'[d] = check[d]
    BY <1>0, <1>1, <2>1, FinishKeepsSlots
  <2> QED BY <1>3, <2>2
<1>5. CASE check' \in {check, [check EXCEPT ![c] = "asking"]} /\ UNCHANGED <<status, granted, taken>>
  <2>1. check' \in [Checks -> {"none", "begun", "asking", "done"}] /\ \A d \in Checks \ {c} : check'[d] = check[d]
    BY <1>0, <1>5
  <2>2. SweepInv'
    BY <1>0, <1>3, <1>5, <2>1
  <2>3. \A d \in granted : check'[d] \in {"begun", "asking"}
    BY <1>0, <1>1, <1>5 DEF SlotInv
  <2>4. SlotInv'
    BY <1>5, <2>3 DEF SlotInv
  <2> QED BY <2>2, <2>4
<1> QED BY <1>2, <1>4, <1>5

(* Every step.                                                             *)
LEMMA NextKeepsSweep == SweepInv /\ SlotInv /\ [CNext]_allVars => SweepInv' /\ SlotInv'
<1> SUFFICES ASSUME SweepInv, SlotInv, [CNext]_allVars PROVE SweepInv' /\ SlotInv'
  OBVIOUS
<1>1. ASSUME UNCHANGED <<sweep, wanted, pos, claim, check, granted, heard, status, taken>> PROVE SweepInv'
  BY <1>1 DEF SweepInv, SweepTypeOK, PlaceAt
<1>2. ASSUME UNCHANGED <<check, granted, taken>> PROVE SlotInv'
  BY <1>2 DEF SlotInv
<1>3. ASSUME NEW w \in Sweeps, NEW list \in Lists, HandleServiceCheck(w, list) PROVE SweepInv' /\ SlotInv'
  BY <1>2, <1>3, HandleKeepsSweep DEF HandleServiceCheck, checkVars
<1>4. ASSUME NEW w \in Sweeps, Sweeping(w) PROVE SweepInv' /\ SlotInv'
  <2>1. CASE Queue(w) \/ AcquireSlot(w)
    BY <2>1, QueueKeepsSweep
  <2>2. CASE ClaimService(w) \/ AllDone(w) \/ ReleaseService(w)
    BY <1>2, <2>2, SweepKeepsSweep DEF checkVars
  <2> QED BY <1>4, <2>1, <2>2 DEF Sweeping
<1>5. ASSUME NEW w \in Sweeps, SpendBudget(w) PROVE SweepInv' /\ SlotInv'
  BY <1>1, <1>2, <1>5 DEF SpendBudget, sweepVars, checkVars
<1>6. ASSUME NEW c \in Checks, Checking(c) PROVE SweepInv' /\ SlotInv'
  BY <1>6, CheckKeepsSweep DEF Checking
<1>7. CASE UNCHANGED allVars
  BY <1>1, <1>2, <1>7 DEF allVars, sweepVars, checkVars
<1> QED BY <1>3, <1>4, <1>5, <1>6, <1>7 DEF CNext

(* A slot comes back once, from the check that was granted it: sweeps that *)
(* are cut off, out of time or panicking never change how many are free.   *)
THEOREM SlotsComeBack == CSpec => []SlotsAccounted
<1>1. SlotInv => SlotsAccounted
  <2> SUFFICES ASSUME SlotInv PROVE SlotsAccounted
    OBVIOUS
  <2>1. {c \in granted : check[c] \in {"begun", "asking"}} = granted
    BY DEF SlotInv
  <2> QED BY <2>1 DEF SlotInv, SlotsAccounted
<1> QED BY <1>1, InitSweep, NextKeepsSweep, PTL DEF CSpec

-----------------------------------------------------------------------------
(* Who has a service.                                                      *)

(* The services sweep w has come to claim.                                 *)
Mine(w, s) ==
    /\ sweep[w] # "idle"
    /\ \E j \in 1..Len(wanted[w]) : wanted[w][j] = s /\ (sweep[w] = "claiming" => j < pos[w])

Holding(w) == sweep[w] \in {"claiming", "queueing", "acquiring", "waiting"}

(* Only what a sweep asked for is claimed for it or cancelled, and until   *)
(* it gives its services back one of the two is so.                        *)
OwnsAt(w, s) ==
    /\ claim[s] = w => Mine(w, s)
    /\ <<w, s>> \in cancelled => Mine(w, s)
    /\ Mine(w, s) /\ Holding(w) => (claim[s] = w <=> <<w, s>> \notin cancelled)

OwnerInv == \A w \in Sweeps : \A s \in Services : OwnsAt(w, s)

(* In the beginning nothing is claimed.                                    *)
LEMMA InitOwner == CInit => OwnerInv
<1> SUFFICES ASSUME CInit, NEW w \in Sweeps, NEW s \in Services PROVE OwnsAt(w, s)
  BY DEF OwnerInv
<1>1. claim[s] = None /\ claim[s] # w /\ cancelled = {} /\ sweep[w] = "idle"
  BY SweepAssumption DEF CInit
<1> QED BY <1>1 DEF OwnsAt, Mine

(* What a sweep holds is among the services it has come to claim.          *)
LEMMA HeldIsMine ==
    ASSUME SweepInv, NEW w \in Sweeps, NEW s \in Held(w)
    PROVE  s \in Services /\ Mine(w, s) /\ Holding(w)
<1>0. wanted[w] \in Seq(Services)
  BY DEF SweepInv, SweepTypeOK
<1>1. DOMAIN wanted[w] = 1..Len(wanted[w]) /\ \A i \in 1..Len(wanted[w]) : wanted[w][i] \in Services
  BY <1>0, LenProperties, ElementOfSeq
<1>2. PICK j \in DOMAIN wanted[w] :
          /\ s = wanted[w][j]
          /\ CASE sweep[w] = "claiming" -> j < pos[w]
               [] sweep[w] \in {"queueing", "acquiring", "waiting"} -> TRUE
               [] OTHER -> FALSE
  BY DEF Held
<1>3. Holding(w) /\ (sweep[w] = "claiming" => j < pos[w])
  BY <1>2 DEF Holding
<1>4. sweep[w] # "idle"
  BY <1>3 DEF Holding
<1> QED BY <1>1, <1>2, <1>3, <1>4 DEF Mine

(* A step that claims and cancels nothing, and at most ends a sweep's hold *)
(* on what it claimed.                                                     *)
LEMMA SameOwner ==
    ASSUME NEW w \in Sweeps, NEW s \in Services, OwnsAt(w, s), Mine(w, s)' <=> Mine(w, s), Holding(w)' => Holding(w),
           claim'[s] = w <=> claim[s] = w, <<w, s>> \in cancelled' <=> <<w, s>> \in cancelled
    PROVE  OwnsAt(w, s)'
  BY DEF OwnsAt

(* A sweep that begins has claimed nothing yet.                            *)
LEMMA HandleKeepsOwner ==
    ASSUME SweepInv, OwnerInv, NEW w \in Sweeps, NEW list \in Lists, HandleServiceCheck(w, list)
    PROVE  OwnerInv'
<1>0. SweepTypeOK /\ PlaceAt(w) /\ list \in Seq(Services) /\ Len(list) \in Nat
  BY SweepAssumption, LenProperties DEF SweepInv
<1>1. /\ sweep[w] = "idle" /\ wanted' = [wanted EXCEPT ![w] = list] /\ UNCHANGED <<pos, claim, cancelled>>
      /\ sweep' = [sweep EXCEPT ![w] = IF list = <<>> THEN "done" ELSE "claiming"]
  BY DEF HandleServiceCheck
<1>2. /\ wanted'[w] = list /\ pos'[w] = 1
      /\ \/ list = <<>> /\ sweep'[w] = "done"
         \/ sweep'[w] = "claiming"
      /\ \A v \in Sweeps \ {w} : sweep'[v] = sweep[v] /\ wanted'[v] = wanted[v] /\ pos'[v] = pos[v]
  BY <1>0, <1>1 DEF SweepTypeOK, PlaceAt
<1>3. ASSUME NEW v \in Sweeps, NEW s \in Services PROVE OwnsAt(v, s)'
  <2>1. CASE v = w
    <3>1. ~Mine(w, s) /\ OwnsAt(w, s)
      BY <1>1 DEF Mine, OwnerInv
    <3>2. claim[s] # w /\ <<w, s>> \notin cancelled
      BY <3>1 DEF OwnsAt
    <3>3. ~Mine(w, s)'
      <4>1. CASE list = <<>>
        BY <1>2, <4>1 DEF Mine
      <4>2. CASE sweep'[w] = "claiming"
        BY <1>2, <4>2 DEF Mine
      <4> QED BY <1>2, <4>1, <4>2
    <3> QED BY <1>1, <2>1, <3>2, <3>3 DEF OwnsAt
  <2>2. CASE v # w
    <3>1. (Mine(v, s)' <=> Mine(v, s)) /\ (Holding(v)' => Holding(v))
      BY <1>2, <2>2 DEF Mine, Holding
    <3> QED BY <1>1, <3>1, SameOwner DEF OwnerInv
  <2> QED BY <2>1, <2>2
<1> QED BY <1>3 DEF OwnerInv

(* A sweep that claims a service cuts the one that had it off.             *)
LEMMA ClaimKeepsOwner ==
    ASSUME SweepInv, OwnerInv, NEW w \in Sweeps, ClaimService(w)
    PROVE  OwnerInv'
<1>0. /\ SweepTypeOK /\ PlaceAt(w) /\ wanted[w] \in Seq(Services) /\ pos[w] \in Nat \ {0}
      /\ claim \in [Services -> Sweeps \cup {None}]
  BY DEF SweepInv, SweepTypeOK
<1>1. Len(wanted[w]) \in Nat /\ pos[w] \in 1..Len(wanted[w]) /\ sweep[w] = "claiming"
  BY <1>0, LenProperties DEF PlaceAt, ClaimService
<1>2. PICK s \in Services : s = wanted[w][pos[w]]
  BY <1>0, <1>1, ElementOfSeq
<1>3. PICK seen \in BOOLEAN : seen <=> \E i \in 1..(pos[w] - 1) : wanted[w][i] = s
  OBVIOUS
<1>4. /\ claim' = IF seen THEN claim ELSE [claim EXCEPT ![s] = w]
      /\ cancelled' = IF seen \/ claim[s] = None THEN cancelled ELSE cancelled \cup {<<claim[s], s>>}
      /\ Advance(w, "queueing") /\ UNCHANGED wanted
  BY <1>2, <1>3 DEF ClaimService
<1>5. /\ \A v \in Sweeps \ {w} : sweep'[v] = sweep[v] /\ pos'[v] = pos[v]
      /\ \/ pos[w] < Len(wanted[w]) /\ pos'[w] = pos[w] + 1 /\ sweep'[w] = "claiming"
         \/ ~(pos[w] < Len(wanted[w])) /\ pos'[w] = 1 /\ sweep'[w] = "queueing"
  BY <1>0, <1>1, <1>4, AdvanceMoves
<1>6. seen <=> Mine(w, s)
  BY <1>0, <1>1, <1>3 DEF Mine
<1>7. ASSUME NEW r \in Services PROVE Mine(w, r)' <=> Mine(w, r) \/ r = s
  <2>1. Mine(w, r) <=> \E j \in 1..Len(wanted[w]) : wanted[w][j] = r /\ j < pos[w]
    BY <1>1 DEF Mine
  <2>2. Mine(w, r)' <=> \E j \in 1..Len(wanted[w]) : wanted[w][j] = r /\ j <= pos[w]
    <3>1. CASE pos'[w] = pos[w] + 1 /\ sweep'[w] = "claiming"
      BY <1>0, <1>1, <1>4, <3>1 DEF Mine
    <3>2. CASE ~(pos[w] < Len(wanted[w])) /\ sweep'[w] = "queueing"
      BY <1>0, <1>1, <1>4, <3>2 DEF Mine
    <3> QED BY <1>5, <3>1, <3>2
  <2> QED BY <1>0, <1>1, <1>2, <2>1, <2>2
<1>8. Holding(w) /\ Holding(w)'
  BY <1>1, <1>5 DEF Holding
<1>9. ASSUME NEW v \in Sweeps, NEW r \in Services PROVE OwnsAt(v, r)'
  <2>0. OwnsAt(v, r) /\ OwnsAt(w, s)
    BY DEF OwnerInv
  <2>1. v # w => (Mine(v, r)' <=> Mine(v, r)) /\ (Holding(v)' => Holding(v))
    BY <1>4, <1>5 DEF Mine, Holding
  <2>2. CASE seen
    <3>1. claim' = claim /\ cancelled' = cancelled
      BY <1>4, <2>2
    <3>2. (Mine(v, r)' <=> Mine(v, r)) /\ (Holding(v)' => Holding(v))
      BY <1>6, <1>7, <1>8, <2>1, <2>2
    <3> QED BY <2>0, <3>1, <3>2, SameOwner
  <2>3. CASE ~seen
    <3>1. claim' = [claim EXCEPT ![s] = w] /\ claim[s] # w /\ <<w, s>> \notin cancelled
      BY <1>4, <1>6, <2>0, <2>3 DEF OwnsAt
    <3>2. claim'[s] = w /\ \A q \in Services \ {s} : claim'[q] = claim[q]
      BY <1>0, <3>1
    <3>3. <<v, r>> \in cancelled' <=> <<v, r>> \in cancelled \/ (r = s /\ claim[s] = v /\ claim[s] # None)
      BY <1>4, <2>3
    <3>4. CASE r # s
      <4>1. (Mine(v, r)' <=> Mine(v, r)) /\ (Holding(v)' => Holding(v))
        BY <1>7, <1>8, <2>1, <3>4
      <4> QED BY <2>0, <3>2, <3>3, <3>4, <4>1, SameOwner
    <3>5. CASE r = s /\ v = w
      <4>1. claim'[s] = w /\ <<w, s>> \notin cancelled' /\ Mine(w, s)'
        BY <1>7, <3>1, <3>2, <3>3, <3>5
      <4> QED BY <3>5, <4>1 DEF OwnsAt
    <3>6. CASE r = s /\ v # w
      <4>1. (Mine(v, s)' <=> Mine(v, s)) /\ (Holding(v)' => Holding(v)) /\ claim'[s] # v
        BY <2>1, <3>2, <3>6
      <4>2. v # None
        BY SweepAssumption
      <4>3. <<v, s>> \in cancelled' <=> <<v, s>> \in cancelled \/ claim[s] = v
        BY <3>3, <3>6, <4>2
      <4> QED BY <2>0, <3>6, <4>1, <4>3 DEF OwnsAt
    <3> QED BY <3>4, <3>5, <3>6
  <2> QED BY <2>2, <2>3
<1> QED BY <1>9 DEF OwnerInv

(* A sweep that ends gives back its own services and no others.            *)
LEMMA ReleaseKeepsOwner ==
    ASSUME SweepInv, OwnerInv, NEW w \in Sweeps, ReleaseService(w)
    PROVE  OwnerInv'
<1>0. /\ SweepTypeOK /\ PlaceAt(w) /\ wanted[w] \in Seq(Services) /\ pos[w] \in Nat \ {0}
      /\ claim \in [Services -> Sweeps \cup {None}]
  BY DEF SweepInv, SweepTypeOK
<1>1. Len(wanted[w]) \in Nat /\ pos[w] \in 1..Len(wanted[w]) /\ sweep[w] = "releasing"
  BY <1>0, LenProperties DEF PlaceAt, ReleaseService
<1>2. PICK s \in Services : s = wanted[w][pos[w]]
  BY <1>0, <1>1, ElementOfSeq
<1>3. /\ claim' = [claim EXCEPT ![s] = IF @ = w THEN None ELSE @]
      /\ cancelled' = cancelled \cup {<<w, s>>} /\ Advance(w, "done") /\ UNCHANGED wanted
  BY <1>2 DEF ReleaseService, Release
<1>4. /\ \A v \in Sweeps \ {w} : sweep'[v] = sweep[v] /\ pos'[v] = pos[v]
      /\ sweep'[w] \in {"releasing", "done"}
  BY <1>0, <1>1, <1>3, AdvanceMoves
<1>5. Mine(w, s)
  BY <1>1, <1>2 DEF Mine
<1>6. ASSUME NEW v \in Sweeps, NEW r \in Services PROVE OwnsAt(v, r)'
  <2>0. OwnsAt(v, r) /\ v # None
    BY SweepAssumption DEF OwnerInv
  <2>1. Mine(v, r)' <=> Mine(v, r)
    <3>1. CASE v = w
      BY <1>1, <1>3, <1>4, <3>1 DEF Mine
    <3>2. CASE v # w
      BY <1>3, <1>4, <3>2 DEF Mine
    <3> QED BY <3>1, <3>2
  <2>2. CASE v = w
    <3>1. ~Holding(w)'
      BY <1>4 DEF Holding
    <3>2. claim'[r] = w => claim[r] = w
      BY <1>0, <1>3, <2>0, <2>2
    <3>3. <<w, r>> \in cancelled' => <<w, r>> \in cancelled \/ r = s
      BY <1>3
    <3> QED BY <1>5, <2>0, <2>1, <2>2, <3>1, <3>2, <3>3 DEF OwnsAt
  <2>3. CASE v # w
    <3>1. claim'[r] = v <=> claim[r] = v
      BY <1>0, <1>3, <2>0, <2>3
    <3>2. <<v, r>> \in cancelled' <=> <<v, r>> \in cancelled
      BY <1>3, <2>3
    <3>3. Holding(v)' => Holding(v)
      BY <1>4, <2>3 DEF Holding
    <3> QED BY <2>0, <2>1, <3>1, <3>2, <3>3, SameOwner
  <2> QED BY <2>2, <2>3
<1> QED BY <1>6 DEF OwnerInv

(* Every step.                                                             *)
LEMMA NextKeepsOwner == SweepInv /\ OwnerInv /\ [CNext]_allVars => OwnerInv'
<1> SUFFICES ASSUME SweepInv, OwnerInv, [CNext]_allVars PROVE OwnerInv'
  OBVIOUS
<1>1. ASSUME UNCHANGED <<sweep, wanted, pos, claim, cancelled>> PROVE OwnerInv'
  <2>1. ASSUME NEW w \in Sweeps, NEW s \in Services PROVE OwnsAt(w, s)'
    <3>1. (Mine(w, s)' <=> Mine(w, s)) /\ (Holding(w)' => Holding(w))
      BY <1>1 DEF Mine, Holding
    <3> QED BY <1>1, <3>1, SameOwner DEF OwnerInv
  <2> QED BY <2>1 DEF OwnerInv
<1>2. ASSUME NEW w \in Sweeps, NEW list \in Lists, HandleServiceCheck(w, list) PROVE OwnerInv'
  BY <1>2, HandleKeepsOwner
<1>3. ASSUME NEW w \in Sweeps, Queue(w) \/ AcquireSlot(w) \/ AllDone(w) PROVE OwnerInv'
  <2>0. SweepTypeOK /\ sweep[w] \in {"queueing", "acquiring", "waiting"} /\ UNCHANGED <<wanted, claim, cancelled>>
    BY <1>3 DEF SweepInv, Queue, AcquireSlot, AllDone
  <2>1. /\ sweep'[w] \in {"queueing", "acquiring", "waiting", "releasing"}
        /\ \A v \in Sweeps \ {w} : sweep'[v] = sweep[v] /\ pos'[v] = pos[v]
    <3>0. DOMAIN sweep = Sweeps /\ DOMAIN pos = Sweeps
      BY <2>0 DEF SweepTypeOK
    <3>1. CASE Queue(w)
      <4>1. CASE Advance(w, "waiting")
        BY <2>0, <4>1, AdvanceMoves
      <4>2. CASE sweep' = [sweep EXCEPT ![w] = "acquiring"] /\ UNCHANGED pos
        BY <3>0, <4>2
      <4> QED BY <3>1, <4>1, <4>2 DEF Queue
    <3>2. CASE AcquireSlot(w)
      BY <3>0, <3>2 DEF AcquireSlot
    <3>3. CASE AllDone(w)
      BY <3>0, <3>3 DEF AllDone
    <3> QED BY <1>3, <3>1, <3>2, <3>3
  <2>2. ASSUME NEW v \in Sweeps, NEW s \in Services PROVE OwnsAt(v, s)'
    <3>1. (Mine(v, s)' <=> Mine(v, s)) /\ (Holding(v)' => Holding(v))
      <4>1. CASE v = w
        BY <2>0, <2>1, <4>1 DEF Mine, Holding
      <4>2. CASE v # w
        BY <2>0, <2>1, <4>2 DEF Mine, Holding
      <4> QED BY <4>1, <4>2
    <3> QED BY <2>0, <3>1, SameOwner DEF OwnerInv
  <2> QED BY <2>2 DEF OwnerInv
<1>4. ASSUME NEW w \in Sweeps, Sweeping(w) PROVE OwnerInv'
  BY <1>3, <1>4, ClaimKeepsOwner, ReleaseKeepsOwner DEF Sweeping
<1>5. ASSUME NEW w \in Sweeps, SpendBudget(w) PROVE OwnerInv'
  BY <1>1, <1>5 DEF SpendBudget, sweepVars
<1>6. ASSUME NEW c \in Checks, Checking(c) PROVE OwnerInv'
  BY <1>1, <1>6 DEF Checking, BeginCheck, Panic, Request, sweepVars
<1>7. CASE UNCHANGED allVars
  BY <1>1, <1>7 DEF allVars, sweepVars
<1> QED BY <1>2, <1>4, <1>5, <1>6, <1>7 DEF CNext

(* Of all the sweeps that ask for a service the one that claimed it last   *)
(* goes on with it, the others are cut off, and one of those that ends     *)
(* later does not take it away.                                            *)
THEOREM NewestSweepHas == CSpec => []NewestHasService
<1>1. SweepInv /\ OwnerInv => NewestHasService
  <2> SUFFICES ASSUME SweepInv, OwnerInv, NEW w \in Sweeps, NEW s \in Held(w)
               PROVE  claim[s] = w <=> <<w, s>> \notin cancelled
    BY DEF NewestHasService
  <2>1. s \in Services /\ Mine(w, s) /\ Holding(w)
    BY HeldIsMine
  <2> QED BY <2>1 DEF OwnerInv, OwnsAt
<1> QED BY <1>1, InitSweep, InitOwner, NextKeepsSweep, NextKeepsOwner, PTL DEF CSpec

-----------------------------------------------------------------------------
(* What a verdict rests on.                                                *)

(* After answers a the rule of service s still has a request to send: the  *)
(* last one of Netflix only follows a title it answered for.               *)
GoesOn(s, a) ==
    /\ s = "netflix" => Len(a) <= 3 /\ (Len(a) = 3 => Answered(a[3]))
    /\ s = "disney" => Len(a) <= 2

Rests(verdict, a) ==
    verdict \notin {"none", "failed", "timeout"} => \E i \in DOMAIN a : Answered(a[i])

HeardAt(c) ==
    /\ \E S : heard[c] \in Seq(S)
    /\ check[c] \in {"none", "begun"} => heard[c] = <<>>
    /\ check[c] # "done" => status[c] = "none"
    /\ check[c] = "asking" => GoesOn(ServiceOf(c), heard[c])
    /\ Rests(status[c], heard[c])

HeardInv == \A c \in Checks : HeardAt(c)

(* A request more: the sequence of outcomes.                               *)
LEMMA OneMore ==
    ASSUME NEW S, NEW a \in Seq(S), NEW outcome
    PROVE  /\ Append(a, outcome) \in Seq(S \cup {outcome}) /\ Len(a) \in Nat
           /\ Len(Append(a, outcome)) = Len(a) + 1 /\ DOMAIN Append(a, outcome) = 1..(Len(a) + 1)
           /\ \A i \in 1..Len(a) : Append(a, outcome)[i] = a[i]
           /\ Append(a, outcome)[Len(a) + 1] = outcome
<1>1. a \in Seq(S \cup {outcome})
  OBVIOUS
<1> QED BY <1>1, AppendProperties, LenProperties

(* The rule that asks three times.                                         *)
LEMMA ChatGptRests ==
    ASSUME NEW S, NEW a \in Seq(S), ChatGpt(a) # Ask
    PROVE  Rests(ChatGpt(a), a)
<1>1. Len(a) \in Nat /\ DOMAIN a = 1..Len(a)
  BY LenProperties
<1>2. ~(Len(a) < 3) /\ 1 \in DOMAIN a /\ 3 \in DOMAIN a
  BY <1>1 DEF ChatGpt
<1>3. CASE a[3] = "unsupported"
  BY <1>2, <1>3 DEF Rests, Answered, Unanswered
<1>4. CASE a[3] # "unsupported" /\ Answered(a[1])
  BY <1>2, <1>4 DEF Rests
<1>5. CASE a[3] # "unsupported" /\ ~Answered(a[1])
  <2>1. ChatGpt(a) = ItemFrom(a[1])
    BY <1>2, <1>5 DEF ChatGpt
  <2> QED BY <2>1 DEF Rests, ItemFrom
<1> QED BY <1>3, <1>4, <1>5

(* The rule that looks at the last of its episodes.                        *)
LEMMA BilibiliRests ==
    ASSUME NEW S, NEW a \in Seq(S), Bilibili(a) # Ask
    PROVE  Rests(Bilibili(a), a)
<1>1. Len(a) \in Nat /\ DOMAIN a = 1..Len(a)
  BY LenProperties
<1>2. a # <<>>
  BY DEF Bilibili
<1>3. Len(a) \in DOMAIN a
  BY <1>1, <1>2, EmptySeq
<1>4. CASE Answered(a[Len(a)])
  BY <1>3, <1>4 DEF Rests
<1>5. CASE ~Answered(a[Len(a)])
  <2>1. Bilibili(a) = ItemFrom(a[Len(a)])
    BY <1>2, <1>5 DEF Bilibili
  <2> QED BY <2>1 DEF Rests, ItemFrom
<1> QED BY <1>4, <1>5

(* The rule that looks at two titles and then at where it is sent.         *)
LEMMA NetflixRests ==
    ASSUME NEW S, NEW a \in Seq(S), Len(a) \in 1..4, Len(a) = 4 => Answered(a[3])
    PROVE  IF Netflix(a) = Ask THEN Len(a) <= 3 /\ (Len(a) = 3 => Answered(a[3])) ELSE Rests(Netflix(a), a)
<1>1. Len(a) \in Nat /\ DOMAIN a = 1..Len(a)
  BY LenProperties
<1>2. CASE Len(a) = 1
  <2>1. Netflix(a) = IF a[1] = "country" THEN "available" ELSE IF a[1] = "forbidden" THEN "blocked" ELSE Ask
    BY <1>2 DEF Netflix
  <2>2. a[1] \in {"country", "forbidden"} => Answered(a[1])
    BY DEF Answered, Unanswered
  <2> QED BY <1>1, <1>2, <2>1, <2>2 DEF Rests
<1>3. CASE Len(a) \in {2, 3} /\ ~Answered(a[Len(a)])
  <2>1. Netflix(a) = ItemFrom(a[Len(a)])
    BY <1>3 DEF Netflix
  <2> QED BY <2>1 DEF Rests, ItemFrom, Ask
<1>4. CASE Len(a) = 2 /\ Answered(a[2])
  <2>1. 2 \in DOMAIN a
    BY <1>1, <1>4
  <2> QED BY <1>4, <2>1 DEF Rests
<1>5. CASE Len(a) \in {3, 4} /\ Answered(a[3])
  <2>1. 3 \in DOMAIN a
    BY <1>1, <1>5
  <2>2. Len(a) = 4 => Netflix(a) = "available"
    BY DEF Netflix
  <2>3. Rests(Netflix(a), a)
    BY <1>5, <2>1 DEF Rests
  <2>4. Netflix(a) = Ask => Len(a) = 3
    BY <1>5, <2>2 DEF Ask
  <2>5. CASE Netflix(a) = Ask
    <3>1. Len(a) = 3
      BY <2>4, <2>5
    <3>2. Len(a) <= 3
      BY <3>1
    <3> QED BY <1>5, <2>5, <3>2
  <2>6. CASE Netflix(a) # Ask
    BY <2>3, <2>6
  <2> QED BY <2>5, <2>6
<1> QED BY <1>2, <1>3, <1>4, <1>5

(* The rule that needs a token twice.                                      *)
LEMMA DisneyRests ==
    ASSUME NEW S, NEW a \in Seq(S), Len(a) \in 1..3, Len(a) = 3 /\ Answered(a[3]) => a[3] \in DOMAIN Session
    PROVE  IF Disney(a) = Ask THEN Len(a) <= 2 ELSE Rests(Disney(a), a)
<1>1. Len(a) \in DOMAIN a
  BY LenProperties
<1>2. CASE Answered(a[Len(a)])
  <2>1. Rests(Disney(a), a)
    BY <1>1, <1>2 DEF Rests
  <2>2. ASSUME Len(a) = 3 PROVE Disney(a) # Ask
    <3>1. Disney(a) = Session[a[3]]
      BY <1>2, <2>2 DEF Disney
    <3>2. \A answer \in DOMAIN Session : Session[answer] # Ask
      BY DEF Session, Ask
    <3> QED BY <1>2, <2>2, <3>1, <3>2
  <2>3. CASE Disney(a) = Ask
    <3>1. Len(a) # 3
      BY <2>2, <2>3
    <3>2. Len(a) <= 2
      <4>1. PICK n \in 1..3 : n = Len(a)
        OBVIOUS
      <4>2. n # 3
        BY <3>1, <4>1
      <4>3. n <= 2
        BY <4>2
      <4> QED BY <4>1, <4>3
    <3> QED BY <2>3, <3>2
  <2>4. CASE Disney(a) # Ask
    BY <2>1, <2>4
  <2> QED BY <2>3, <2>4
<1>3. CASE Len(a) \in {1, 2} /\ ~Answered(a[Len(a)])
  <2>1. Disney(a) = ItemFrom(a[Len(a)])
    BY <1>3 DEF Disney
  <2> QED BY <2>1 DEF Rests, ItemFrom, Ask
<1>4. CASE Len(a) = 3 /\ ~Answered(a[Len(a)])
  <2>1. Disney(a) = "failed"
    BY <1>4 DEF Disney
  <2> QED BY <2>1 DEF Rests, Ask
<1> QED BY <1>2, <1>3, <1>4

(* A rule that judges rests on an answer, and one that does not goes on.   *)
LEMMA JudgeRests ==
    ASSUME NEW S, NEW s \in Services, NEW a \in Seq(S), GoesOn(s, a), NEW outcome,
           outcome \in Unanswered \cup Answers(s, Len(a) + 1)
    PROVE  IF Judge(s, Append(a, outcome)) = Ask THEN GoesOn(s, Append(a, outcome))
           ELSE Rests(Judge(s, Append(a, outcome)), Append(a, outcome))
<1>1. PICK all : all = Append(a, outcome)
  OBVIOUS
<1>2. /\ all \in Seq(S \cup {outcome}) /\ Len(a) \in Nat
      /\ Len(all) = Len(a) + 1 /\ DOMAIN all = 1..(Len(a) + 1)
      /\ \A i \in 1..Len(a) : all[i] = a[i]
      /\ all[Len(a) + 1] = outcome
  BY <1>1, OneMore
<1>3. {"chatgpt", "netflix", "bilibili", "disney"} \cap DOMAIN OneRequest = {}
  BY DEF OneRequest
<1>4. CASE s = "chatgpt"
  <2>1. Judge(s, all) = ChatGpt(all) /\ GoesOn(s, all)
    BY <1>3, <1>4 DEF Judge, GoesOn
  <2> QED BY <1>1, <1>2, <2>1, ChatGptRests
<1>5. CASE s = "bilibili"
  <2>1. Judge(s, all) = Bilibili(all) /\ GoesOn(s, all)
    BY <1>3, <1>5 DEF Judge, GoesOn
  <2> QED BY <1>1, <1>2, <2>1, BilibiliRests
<1>6. CASE s = "netflix"
  <2>1. Judge(s, all) = Netflix(all)
    BY <1>3, <1>6 DEF Judge
  <2>2. Len(all) \in 1..4 /\ (Len(all) = 4 => Answered(all[3]))
    <3>1. Len(a) <= 3 /\ (Len(a) = 3 => Answered(a[3]))
      BY <1>6 DEF GoesOn
    <3>2. Len(all) \in 1..4
      BY <1>2, <3>1
    <3>3. ASSUME Len(all) = 4 PROVE Answered(all[3])
      <4>0. PICK n \in Nat : n = Len(a)
        BY <1>2
      <4>1. Len(a) = 3
        <5>1. n + 1 = 4
          BY <1>2, <3>3, <4>0
        <5>2. n = 3
          BY <5>1
        <5> QED BY <4>0, <5>2
      <4>2. all[3] = a[3]
        BY <1>2, <4>1
      <4> QED BY <3>1, <4>1, <4>2
    <3> QED BY <3>2, <3>3
  <2>3. IF Netflix(all) = Ask THEN Len(all) <= 3 /\ (Len(all) = 3 => Answered(all[3])) ELSE Rests(Netflix(all), all)
    BY <1>2, <2>2, NetflixRests
  <2> QED BY <1>1, <1>6, <2>1, <2>3 DEF GoesOn
<1>7. CASE s = "disney"
  <2>1. Judge(s, all) = Disney(all)
    BY <1>3, <1>7 DEF Judge
  <2>2. Len(all) \in 1..3
    BY <1>2, <1>7 DEF GoesOn
  <2>3. Answers(s, 3) = DOMAIN Session
    BY <1>3, <1>7 DEF Answers
  <2>4. Len(all) = 3 /\ Answered(all[3]) => all[3] \in DOMAIN Session
    BY <1>2, <2>3 DEF Answered
  <2>5. IF Disney(all) = Ask THEN Len(all) <= 2 ELSE Rests(Disney(all), all)
    BY <1>2, <2>2, <2>4, DisneyRests
  <2> QED BY <1>1, <1>7, <2>1, <2>5 DEF GoesOn
<1>8. CASE s \in DOMAIN OneRequest
  <2>1. s \notin {"chatgpt", "netflix", "bilibili", "disney"} /\ 1 \in DOMAIN all /\ all # <<>>
    BY <1>2, <1>3, <1>8
  <2>2. GoesOn(s, all)
    BY <2>1 DEF GoesOn
  <2>3. Judge(s, all) = IF Answered(all[1]) THEN OneRequest[s][all[1]] ELSE ItemFrom(all[1])
    BY <1>8, <2>1 DEF Judge
  <2>4. CASE Answered(all[1])
    BY <1>1, <2>1, <2>2, <2>4 DEF Rests
  <2>5. CASE ~Answered(all[1])
    <3>1. Judge(s, all) = ItemFrom(all[1])
      BY <2>3, <2>5
    <3> QED BY <1>1, <2>2, <3>1 DEF Rests, ItemFrom
  <2> QED BY <2>4, <2>5
<1> QED BY <1>4, <1>5, <1>6, <1>7, <1>8 DEF Services

(* In the beginning nothing is heard.                                      *)
LEMMA InitHeard == CInit => HeardInv
<1> SUFFICES ASSUME CInit, NEW c \in Checks PROVE HeardAt(c)
  BY DEF HeardInv
<1>1. heard[c] = <<>> /\ check[c] = "none" /\ status[c] = "none"
  BY DEF CInit
<1>2. heard[c] \in Seq({})
  BY <1>1, EmptySeq
<1> QED BY <1>1, <1>2 DEF HeardAt, Rests

(* A check that hears nothing and is not judged, though it may begin.      *)
LEMMA SameHeard ==
    ASSUME NEW c \in Checks, HeardAt(c), heard'[c] = heard[c], status'[c] = status[c],
           check'[c] = check[c] \/ (check[c] = "none" /\ check'[c] = "begun"),
           check[c] = "asking" => ServiceOf(c)' = ServiceOf(c)
    PROVE  HeardAt(c)'
<1>1. check'[c] = "asking" => check[c] = "asking"
  OBVIOUS
<1>2. check'[c] = "asking" => GoesOn(ServiceOf(c), heard[c])'
  BY <1>1 DEF HeardAt, GoesOn
<1> QED BY <1>2 DEF HeardAt, Rests

(* The steps of a check.                                                   *)
LEMMA CheckKeepsHeard ==
    ASSUME SweepInv, HeardInv, NEW c \in Checks,
           BeginCheck(c) \/ Panic(c) \/ \E outcome \in Outcomes(c) : Request(c, outcome)
    PROVE  HeardInv'
<1>0. /\ SweepTypeOK /\ HeardAt(c) /\ check \in [Checks -> {"none", "begun", "asking", "done"}]
      /\ DOMAIN heard = Checks /\ DOMAIN status = Checks
  BY DEF SweepInv, SweepTypeOK, HeardInv
<1>1. UNCHANGED wanted /\ check[c] \in {"begun", "asking"}
  BY DEF BeginCheck, Panic, Request, sweepVars
<1>2. PICK S : heard[c] \in Seq(S)
  BY <1>0 DEF HeardAt
<1>3. /\ check' \in {check, [check EXCEPT ![c] = "asking"], [check EXCEPT ![c] = "done"]}
      /\ \E verdict : status' \in {status, [status EXCEPT ![c] = verdict]}
      /\ \E all : heard' \in {heard, [heard EXCEPT ![c] = all]}
  BY DEF BeginCheck, Panic, Request, Finish
<1>4. ASSUME NEW d \in Checks \ {c} PROVE HeardAt(d)'
  <2>1. check'[d] = check[d] /\ status'[d] = status[d] /\ heard'[d] = heard[d]
    BY <1>0, <1>3
  <2>2. ServiceOf(d)' = ServiceOf(d) /\ HeardAt(d)
    BY <1>1 DEF ServiceOf, HeardInv
  <2> QED BY <2>1, <2>2, SameHeard
<1>5. ASSUME Finish(c, "failed"), UNCHANGED heard PROVE HeardAt(c)'
  <2>1. check'[c] = "done" /\ status'[c] = "failed" /\ heard'[c] = heard[c]
    BY <1>0, <1>5 DEF Finish
  <2> QED BY <1>2, <2>1 DEF HeardAt, Rests
<1>6. CASE BeginCheck(c)
  <2>1. CASE Finish(c, "failed")
    BY <1>4, <1>5, <1>6, <2>1 DEF BeginCheck, HeardInv
  <2>2. CASE check' = [check EXCEPT ![c] = "asking"] /\ UNCHANGED <<status, heard>>
    <3>1. check[c] = "begun" /\ heard[c] = <<>> /\ status[c] = "none"
      BY <1>0, <1>6 DEF BeginCheck, HeardAt
    <3>2. check'[c] = "asking" /\ heard'[c] = <<>> /\ status'[c] = "none" /\ heard'[c] \in Seq(S)
      BY <1>0, <1>2, <2>2, <3>1
    <3>3. GoesOn(ServiceOf(c), heard[c])'
      BY <3>2 DEF GoesOn
    <3>4. HeardAt(c)'
      BY <3>2, <3>3 DEF HeardAt, Rests
    <3> QED BY <1>4, <3>4 DEF HeardInv
  <2> QED BY <1>6, <2>1, <2>2 DEF BeginCheck
<1>7. CASE Panic(c)
  BY <1>4, <1>5, <1>7 DEF Panic, HeardInv
<1>8. ASSUME NEW outcome \in Outcomes(c), Request(c, outcome) PROVE HeardAt(c)'
  <2>1. check[c] = "asking" /\ status[c] = "none" /\ GoesOn(ServiceOf(c), heard[c])
    BY <1>0, <1>8 DEF Request, HeardAt
  <2>2. ServiceOf(c) \in Services
    <3>1. PICK w \in Sweeps, i \in 1..Longest : c = <<w, i>>
      BY DEF Checks
    <3>2. PlaceAt(w) /\ wanted[w] \in Seq(Services) /\ check[<<w, i>>] # "none"
      BY <1>0, <2>1, <3>1 DEF SweepInv, SweepTypeOK
    <3>3. i \in 1..Len(wanted[w])
      BY <3>2, LongestList, LenProperties DEF PlaceAt
    <3>4. wanted[w][i] \in Services
      BY <3>2, <3>3, ElementOfSeq
    <3> QED BY <3>1, <3>4 DEF ServiceOf
  <2>3. outcome \in Unanswered \cup Answers(ServiceOf(c), Len(heard[c]) + 1)
    BY <1>8 DEF Outcomes, Unanswered
  <2>4. PICK all, verdict : all = Append(heard[c], outcome) /\ verdict = Judge(ServiceOf(c), all)
    OBVIOUS
  <2>5. /\ IF verdict = Ask THEN GoesOn(ServiceOf(c), all) ELSE Rests(verdict, all)
        /\ all \in Seq(S \cup {outcome})
    BY <1>2, <2>1, <2>2, <2>3, <2>4, JudgeRests, OneMore
  <2>6. \/ heard' = [heard EXCEPT ![c] = <<>>] /\ UNCHANGED <<check, status>>
        \/ heard' = [heard EXCEPT ![c] = all] /\ verdict = Ask /\ UNCHANGED <<check, status>>
        \/ heard' = [heard EXCEPT ![c] = all] /\ verdict # Ask /\ Finish(c, verdict)
    BY <1>8, <2>4 DEF Request
  <2>7. CASE heard' = [heard EXCEPT ![c] = <<>>] /\ UNCHANGED <<check, status>>
    <3>1. heard'[c] = <<>> /\ heard'[c] \in Seq(S) /\ check'[c] = "asking" /\ status'[c] = "none"
      BY <1>0, <2>1, <2>7, EmptySeq
    <3>2. GoesOn(ServiceOf(c), heard[c])'
      BY <3>1 DEF GoesOn
    <3> QED BY <3>1, <3>2 DEF HeardAt, Rests
  <2>8. CASE heard' = [heard EXCEPT ![c] = all] /\ verdict = Ask /\ UNCHANGED <<check, status>>
    <3>1. heard'[c] = all /\ check'[c] = "asking" /\ status'[c] = "none" /\ ServiceOf(c)' = ServiceOf(c)
      BY <1>0, <1>1, <2>1, <2>8 DEF ServiceOf
    <3>2. GoesOn(ServiceOf(c), heard[c])'
      BY <2>5, <2>8, <3>1
    <3> QED BY <2>5, <3>1, <3>2 DEF HeardAt, Rests
  <2>9. CASE heard' = [heard EXCEPT ![c] = all] /\ verdict # Ask /\ Finish(c, verdict)
    <3>1. heard'[c] = all /\ check'[c] = "done" /\ status'[c] = verdict
      BY <1>0, <2>9 DEF Finish
    <3>2. Rests(status[c], heard[c])'
      BY <2>5, <2>9, <3>1
    <3> QED BY <2>5, <3>1, <3>2 DEF HeardAt
  <2> QED BY <2>6, <2>7, <2>8, <2>9
<1>9. CASE \E outcome \in Outcomes(c) : Request(c, outcome)
  BY <1>4, <1>8, <1>9 DEF HeardInv
<1> QED BY <1>6, <1>7, <1>9

(* Every step.                                                             *)
LEMMA NextKeepsHeard == SweepInv /\ SlotInv /\ HeardInv /\ [CNext]_allVars => HeardInv'
<1> SUFFICES ASSUME SweepInv, SlotInv, HeardInv, [CNext]_allVars PROVE HeardInv'
  OBVIOUS
<1>1. ASSUME UNCHANGED <<wanted, check, heard, status>> PROVE HeardInv'
  <2>1. ASSUME NEW c \in Checks PROVE HeardAt(c)'
    <3>1. ServiceOf(c)' = ServiceOf(c) /\ HeardAt(c)
      BY <1>1 DEF ServiceOf, HeardInv
    <3> QED BY <1>1, <3>1, SameHeard
  <2> QED BY <2>1 DEF HeardInv
<1>2. ASSUME NEW w \in Sweeps, NEW list \in Lists, HandleServiceCheck(w, list) PROVE HeardInv'
  <2>1. ASSUME NEW c \in Checks PROVE HeardAt(c)'
    <3>1. PICK v \in Sweeps, i \in 1..Longest : c = <<v, i>>
      BY DEF Checks
    <3>2. UNCHANGED <<check, heard, status>> /\ wanted' = [wanted EXCEPT ![w] = list] /\ sweep[w] = "idle"
      BY <1>2 DEF HandleServiceCheck, checkVars
    <3>3. check[c] = "asking" => v # w
      BY <3>1, <3>2 DEF SweepInv, PlaceAt
    <3>4. v # w => wanted'[v] = wanted[v]
      BY <3>2 DEF SweepInv, SweepTypeOK
    <3>5. check[c] = "asking" => ServiceOf(c)' = ServiceOf(c)
      BY <3>1, <3>3, <3>4 DEF ServiceOf
    <3> QED BY <3>2, <3>5, SameHeard DEF HeardInv
  <2> QED BY <2>1 DEF HeardInv
<1>3. ASSUME NEW w \in Sweeps, NEW holds \in BOOLEAN, sweep[w] \in {"queueing", "acquiring"},
             holds => taken < CheckSlots, Run(w, holds), UNCHANGED wanted
      PROVE  HeardInv'
  <2>1. /\ UNCHANGED <<heard, status>> /\ check[<<w, pos[w]>>] = "none"
        /\ \A v \in Sweeps, i \in 1..Longest :
              check'[<<v, i>>] = IF v = w /\ i = pos[w] THEN "begun" ELSE check[<<v, i>>]
    BY <1>3, RunBegins
  <2>2. ASSUME NEW c \in Checks PROVE HeardAt(c)'
    <3>1. PICK v \in Sweeps, i \in 1..Longest : c = <<v, i>>
      BY DEF Checks
    <3>2. check'[c] = check[c] \/ (check[c] = "none" /\ check'[c] = "begun")
      BY <2>1, <3>1
    <3>3. ServiceOf(c)' = ServiceOf(c) /\ HeardAt(c)
      BY <1>3 DEF ServiceOf, HeardInv
    <3> QED BY <2>1, <3>2, <3>3, SameHeard
  <2> QED BY <2>2 DEF HeardInv
<1>4. ASSUME NEW w \in Sweeps, Sweeping(w) PROVE HeardInv'
  <2>1. CASE ClaimService(w) \/ AllDone(w) \/ ReleaseService(w)
    BY <1>1, <2>1 DEF ClaimService, AllDone, ReleaseService, checkVars
  <2>2. CASE Queue(w)
    <3>1. sweep[w] = "queueing" /\ UNCHANGED wanted
      BY <2>2 DEF Queue
    <3>2. Run(w, FALSE) \/ UNCHANGED <<check, heard, status>>
      BY <2>2 DEF Queue, checkVars
    <3> QED BY <1>1, <1>3, <3>1, <3>2
  <2>3. CASE AcquireSlot(w)
    <3>1. sweep[w] = "acquiring" /\ UNCHANGED wanted
      BY <2>3 DEF AcquireSlot
    <3>2. (taken < CheckSlots /\ Run(w, TRUE)) \/ Run(w, FALSE)
      BY <2>3 DEF AcquireSlot
    <3> QED BY <1>3, <3>1, <3>2
  <2> QED BY <1>4, <2>1, <2>2, <2>3 DEF Sweeping
<1>5. ASSUME NEW w \in Sweeps, SpendBudget(w) PROVE HeardInv'
  BY <1>1, <1>5 DEF SpendBudget, sweepVars, checkVars
<1>6. ASSUME NEW c \in Checks, Checking(c) PROVE HeardInv'
  BY <1>6, CheckKeepsHeard DEF Checking
<1>7. CASE UNCHANGED allVars
  BY <1>1, <1>7 DEF allVars, sweepVars, checkVars
<1> QED BY <1>2, <1>4, <1>5, <1>6, <1>7 DEF CNext

(* A service is never said to be open, closed or restricted on the word of *)
(* requests that got no slot, timed out or failed.                         *)
THEOREM VerdictsRest == CSpec => []VerdictFromAnswer
<1>1. HeardInv => VerdictFromAnswer
  BY DEF HeardInv, HeardAt, Rests, VerdictFromAnswer
<1> QED BY <1>1, InitSweep, InitHeard, NextKeepsSweep, NextKeepsHeard, PTL DEF CSpec

=============================================================================
