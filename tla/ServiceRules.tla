---------------------------- MODULE ServiceRules ----------------------------
(***************************************************************************)
(* The rules of core/service_rules.go: what a service's answers say of it. *)
(* A rule sends one request after another; after each it either judges or  *)
(* sends the next.  An outcome is one of Unanswered or what the rule tells *)
(* apart in an answer, which stands for the page or the code it came as.   *)
(***************************************************************************)
EXTENDS Naturals, Sequences, TLC

(* A request that got no slot, that timed out and that failed.             *)
Unanswered == {"none", "timed-out", "error"}

Statuses == {"available", "unavailable", "restricted", "disallowed-isp", "blocked",
             "unsupported-region", "originals-only", "coming-soon", "timeout", "failed"}

Answered(outcome) == outcome \notin Unanswered

TakesNoSlotForAnswer(outcome) ==
    IF outcome = "timed-out" THEN "timeout" ELSE IF outcome = "error" THEN "failed" ELSE "available"

(* What itemFrom makes of a request without an answer.                     *)
ItemFrom(outcome) == IF outcome = "timed-out" THEN "timeout" ELSE "failed"

(* 2xx; 403 and 451; 401 and 429; any other code.                          *)
StatusFromCode == [ok |-> "available", forbidden |-> "restricted",
                   limited |-> "restricted", other |-> "unavailable"]

(* The rules of one request: a status per answer.  A page that names the   *)
(* visitor's region,                                                       *)
ByRegion == [open |-> "available", closed |-> "unsupported-region", garbled |-> "failed"]
PrimeVideo == ByRegion

(* and pages judged by their code, or closed by what they say.             *)
YouTubePremium == [closed |-> "unsupported-region"] @@ StatusFromCode
Spotify == [closed |-> "unsupported-region", forbidden |-> "unsupported-region"] @@ StatusFromCode
TikTok == [ok |-> "available", closed |-> "unsupported-region",
           forbidden |-> "unsupported-region", limited |-> "failed", other |-> "failed"]
Discord == StatusFromCode

OneRequest ==
    [google |-> StatusFromCode, github |-> StatusFromCode, discord |-> Discord,
     claude |-> ByRegion, gemini |-> ByRegion, prime |-> PrimeVideo,
     youtube |-> YouTubePremium, spotify |-> Spotify, tiktok |-> TikTok]

Ask == "ask"    \* the rule sends its next request

(* The app, the trace that only names the region, and the web.             *)
IosStatus == [isp |-> "disallowed-isp", blocked |-> "blocked",
              turnedAway |-> "available", page |-> "failed"]

ChatGpt(a) ==
    IF Len(a) < 3 THEN Ask
    ELSE IF a[3] = "unsupported" THEN "unsupported-region"
    ELSE IF Answered(a[1]) THEN IosStatus[a[1]] ELSE ItemFrom(a[1])

(* The episode for the mainland, then the one for elsewhere.               *)
Episode == [playable |-> "available", closed |-> "unsupported-region", garbled |-> "failed"]

Bilibili(a) ==
    LET last == a[Len(a)]
        status == IF Answered(last) THEN Episode[last] ELSE ItemFrom(last)
    IN IF a = <<>> \/ (Len(a) = 1 /\ status = "unsupported-region") THEN Ask ELSE status

(* The CDN, two titles and, for one that is served, the region.            *)
TitleStatus == [missing |-> "unavailable", limited |-> "restricted",
                accepted |-> "available", other |-> "unavailable"]

Titles(first, second) ==
    IF first = "missing" /\ second = "missing" THEN "originals-only"
    ELSE IF "forbidden" \in {first, second} THEN "unsupported-region"
    ELSE IF "served" \in {first, second} THEN Ask
    ELSE TitleStatus[first]

Netflix(a) ==
    CASE Len(a) = 0 -> Ask
      [] Len(a) = 1 -> IF a[1] = "country" THEN "available"
                       ELSE IF a[1] = "forbidden" THEN "blocked" ELSE Ask
      [] Len(a) \in {2, 3} /\ ~Answered(a[Len(a)]) -> ItemFrom(a[Len(a)])
      [] Len(a) = 2 /\ Answered(a[2]) -> Ask
      [] Len(a) = 3 /\ Answered(a[3]) -> Titles(a[2], a[3])
      [] Len(a) = 4 -> "available"

(* A device, its token, and the session that names the region.             *)
Session == [supported |-> "available", soon |-> "coming-soon", noRegion |-> "unavailable",
            refused |-> "failed", garbled |-> "failed"]

Disney(a) ==
    CASE Len(a) = 0 -> Ask
      [] Len(a) \in {1, 2} -> IF ~Answered(a[Len(a)]) THEN ItemFrom(a[Len(a)])
                              ELSE IF a[Len(a)] = "forbidden" THEN "blocked"
                              ELSE IF a[Len(a)] = "garbled" THEN "failed" ELSE Ask
      [] Len(a) = 3 -> IF Answered(a[3]) THEN Session[a[3]] ELSE "failed"

Judge(service, a) ==
    CASE service = "chatgpt"  -> ChatGpt(a)
      [] service = "netflix"  -> Netflix(a)
      [] service = "bilibili" -> Bilibili(a)
      [] service = "disney"   -> Disney(a)
      [] service \in DOMAIN OneRequest ->
             IF a = <<>> THEN Ask
             ELSE IF Answered(a[1]) THEN OneRequest[service][a[1]] ELSE ItemFrom(a[1])

(* What the rule can tell apart in the answer to its n-th request.         *)
Answers(service, n) ==
    CASE service = "chatgpt"  -> <<DOMAIN IosStatus, {"trace"}, {"unsupported", "page"}>>[n]
      [] service = "netflix"  -> LET title == DOMAIN TitleStatus \cup {"forbidden", "served"}
                                 IN <<{"country", "forbidden", "garbled"}, title, title, {"redirect"}>>[n]
      [] service = "bilibili" -> DOMAIN Episode
      [] service = "disney"   -> <<{"forbidden", "garbled", "token"}, {"forbidden", "garbled", "token"},
                                   DOMAIN Session>>[n]
      [] service \in DOMAIN OneRequest -> DOMAIN OneRequest[service]

Services == DOMAIN OneRequest \cup {"chatgpt", "netflix", "bilibili", "disney"}
=============================================================================
