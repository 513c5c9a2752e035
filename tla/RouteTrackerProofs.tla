------------------------- MODULE RouteTrackerProofs -------------------------
(***************************************************************************)
(* The safety of RouteTracker for any number of goroutines, answers,       *)
(* groups and proxies, and for every bound.                                *)
(***************************************************************************)
EXTENDS RouteTracker, TLAPS

(* What a goroutine read or is about to publish is there when it needs it. *)
LocalsTyped ==
    \A t \in Threads :
        /\ pc[t] = "commit" => seen[t] \in Reading
        /\ pc[t] = "publish" => out[t] \in RouteState

TypeInv == TypeOK /\ LocalsTyped

-----------------------------------------------------------------------------
(* A fresh core is well typed.                                             *)
LEMMA InitTypeInv == Init => TypeInv
<1> SUFFICES ASSUME Init PROVE TypeInv
  OBVIOUS
<1> USE RouteAssumption
<1>1. WorldType /\ RouteType
  <2>1. WorldType
    BY DEF Init, WorldType, World
  <2>2. tracked \in [picks: {EmptyPicks}, providers: {None}, ruleSets: {None}]
    BY DEF Init
  <2>3. QED
    BY <2>1, <2>2 DEF Init, RouteType
<1>2. WatchType
  <2>1. /\ watchSeq \in Nat /\ methodCallSeq \in Nat
        /\ stopPoll \in Pollers \cup {None}
        /\ polling \in [Pollers -> {"none", "live", "cancelled"}]
    BY DEF Init
  <2>2. watched \in BOOLEAN
    BY Zenon DEF Init
  <2>3. DOMAIN ran = {0} /\ ran \in [{0} -> BOOLEAN]
    BY DEF Init
  <2>4. QED
    BY <2>1, <2>2, <2>3 DEF WatchType
<1>3. CoreType /\ HostType /\ SendType
  <2>1. CoreType /\ HostType
    BY Zenon DEF Init, CoreType, HostType
  <2>2. SendType
    BY DEF Init, SendType
  <2>3. QED
    BY <2>1, <2>2
<1>4. CallType
  BY DEF Init, CallType, Labels, Unchanged
<1>5. AnswerType
  BY DEF Init, AnswerType, NoAnswer
<1>6. LocalsTyped
  BY DEF Init, LocalsTyped
<1>7. selectMu \in Threads \cup {None}
  BY DEF Init
<1>8. QED
  BY <1>1, <1>2, <1>3, <1>4, <1>5, <1>6, <1>7 DEF TypeInv, TypeOK

(* Going on with a handler keeps its locals typed and never leads into the *)
(* middle of a refresh.                                                    *)
LEMMA EnterTyped ==
    ASSUME CallType, NEW t \in Threads, NEW stage, NEW later \in Seq(Stages),
           stage.label \in Labels, stage.change \in {Unchanged, Moved, Reset},
           Enter(t, stage, later)
    PROVE  /\ pc' \in [Threads -> Labels]
           /\ change' \in [Threads -> {Unchanged, Moved, Reset}]
           /\ rest' \in [Threads -> Seq(Stages)]
           /\ pc'[t] = stage.label
           /\ \A u \in Threads \ {t} : pc'[u] = pc[u]
  BY DEF Enter, Goto, CallType

LEMMA ResumeTyped ==
    ASSUME CallType, NEW t \in Threads, Resume(t)
    PROVE  /\ pc' \in [Threads -> Labels]
           /\ change' \in [Threads -> {Unchanged, Moved, Reset}]
           /\ rest' \in [Threads -> Seq(Stages)]
           /\ pc'[t] \notin {"commit", "publish"}
           /\ \A u \in Threads \ {t} : pc'[u] = pc[u]
<1>1. CASE rest[t] = <<>>
  <2>1. Enter(t, Then("idle"), <<>>)
    BY <1>1 DEF Resume
  <2>2. <<>> \in Seq(Stages) /\ Then("idle").label = "idle" /\ Then("idle").change = Unchanged
    BY DEF Then
  <2>3. QED
    BY <2>1, <2>2, EnterTyped DEF Labels
<1>2. CASE rest[t] # <<>>
  <2>1. Enter(t, Head(rest[t]), Tail(rest[t]))
    BY <1>2 DEF Resume
  <2>2. rest[t] \in Seq(Stages)
    BY DEF CallType
  <2>3. Head(rest[t]) \in Stages /\ Tail(rest[t]) \in Seq(Stages)
    BY <1>2, <2>2
  <2>4. QED
    BY <2>1, <2>3, EnterTyped DEF Stages, Labels
<1>3. QED
  BY <1>1, <1>2

(* A type whose variables a step leaves alone stays.                       *)
LEMMA TypesFrame ==
    ASSUME TypeOK
    PROVE  /\ UNCHANGED worldVars => WorldType'
           /\ UNCHANGED routeVars => RouteType'
           /\ UNCHANGED watchVars => WatchType'
           /\ UNCHANGED coreVars => CoreType'
           /\ UNCHANGED hostVars => HostType'
           /\ UNCHANGED sendVars => SendType'
           /\ UNCHANGED callVars => CallType'
           /\ UNCHANGED answer => AnswerType'
           /\ UNCHANGED selectMu => (selectMu \in Threads \cup {None})'
<1>1. UNCHANGED worldVars => WorldType'
  BY DEF TypeOK, WorldType, worldVars
<1>2. UNCHANGED routeVars => RouteType'
  BY DEF TypeOK, RouteType, routeVars
<1>3. UNCHANGED watchVars => WatchType'
  BY DEF TypeOK, WatchType, watchVars
<1>4. UNCHANGED coreVars => CoreType'
  BY DEF TypeOK, CoreType, coreVars
<1>5. UNCHANGED hostVars => HostType'
  BY DEF TypeOK, HostType, hostVars
<1>6. UNCHANGED sendVars => SendType'
  BY DEF TypeOK, SendType, sendVars
<1>7. UNCHANGED callVars => CallType'
  BY DEF TypeOK, CallType, callVars
<1>8. UNCHANGED answer => AnswerType'
  BY DEF TypeOK, AnswerType
<1>9. QED
  BY <1>1, <1>2, <1>3, <1>4, <1>5, <1>6, <1>7, <1>8 DEF TypeOK

(* A change of the world that goes through Move stays in its type.         *)
LEMMA MoveTyped ==
    ASSUME WorldType, NEW w \in World, Move(w)
    PROVE  WorldType'
  BY DEF WorldType, Move

(* The changes of the world the actions make.                              *)
LEMMA WorldChanges ==
    ASSUME WorldType
    PROVE  /\ [world EXCEPT !.providers = @ + 1] \in World
           /\ [world EXCEPT !.ruleSets = @ + 1] \in World
           /\ [world EXCEPT !.config = @ + 1] \in World
           /\ \A picks \in AnyPicks :
                 /\ [world EXCEPT !.picks = picks] \in World
                 /\ [world EXCEPT !.config = @ + 1, !.picks = picks] \in World
           /\ Applied => \A g \in Groups, p \in Proxies :
                            [world EXCEPT !.picks[g] = p] \in World
<1>1. world \in World
  BY DEF WorldType
<1>2. Applied => world.picks \in [Groups -> Proxies]
  BY <1>1 DEF World, Applied, AnyPicks
<1>3. Applied => \A g \in Groups, p \in Proxies :
                    [world EXCEPT !.picks[g] = p] \in World
  BY <1>1, <1>2 DEF World, AnyPicks
<1>4. /\ [world EXCEPT !.providers = @ + 1] \in World
      /\ [world EXCEPT !.ruleSets = @ + 1] \in World
      /\ [world EXCEPT !.config = @ + 1] \in World
  BY <1>1 DEF World
<1>5. ASSUME NEW picks \in AnyPicks
      PROVE  /\ [world EXCEPT !.picks = picks] \in World
             /\ [world EXCEPT !.config = @ + 1, !.picks = picks] \in World
  <2>1. [world EXCEPT !.picks = picks] \in World
    BY <1>1 DEF World
  <2>2. [world EXCEPT !.config = @ + 1, !.picks = picks]
          = [[world EXCEPT !.config = @ + 1] EXCEPT !.picks = picks]
    BY <1>1 DEF World
  <2>3. [[world EXCEPT !.config = @ + 1] EXCEPT !.picks = picks] \in World
    BY <1>4 DEF World
  <2>4. QED
    BY <2>1, <2>2, <2>3
<1>6. QED
  BY <1>3, <1>4, <1>5

(* The locals of a goroutine outside a refresh carry nothing.              *)
LEMMA LocalsFrame ==
    ASSUME LocalsTyped, NEW t \in Threads, UNCHANGED <<seen, out>>,
           pc'[t] \notin {"commit", "publish"},
           \A u \in Threads \ {t} : pc'[u] = pc[u]
    PROVE  LocalsTyped'
  BY DEF LocalsTyped

(* A handler's stages as the callers set them.                             *)
LEMMA StagesTyped ==
    /\ <<>> \in Seq(Stages)
    /\ \A kind \in {Unchanged, Moved, Reset} :
          /\ ThenRefresh(kind) \in Stages
          /\ ThenRefresh(kind).label = "refresh"
          /\ ThenRefresh(kind).change = kind
    /\ \A l \in {"listeners", "unlock", "setWatch"} : Then(l) \in Stages
    /\ \A l \in Labels : Then(l).label = l /\ Then(l).change = Unchanged
<1>1. \A kind \in {Unchanged, Moved, Reset} :
          /\ ThenRefresh(kind) \in Stages
          /\ ThenRefresh(kind).label = "refresh"
          /\ ThenRefresh(kind).change = kind
  BY DEF ThenRefresh, Stages
<1>2. \A l \in {"listeners", "unlock", "setWatch"} : Then(l) \in Stages
  BY DEF Then, Stages
<1>3. \A l \in Labels : Then(l).label = l /\ Then(l).change = Unchanged
  BY DEF Then
<1>4. QED
  BY <1>1, <1>2, <1>3

(* A call that starts, or a step of a handler that does not touch seen and *)
(* out, keeps the locals typed.                                            *)
LEMMA CallTyped ==
    ASSUME TypeInv, NEW t \in Threads, UNCHANGED <<seen, out>>,
           seq' \in [Threads -> Nat], watch' \in [Threads -> BOOLEAN],
           \/ Resume(t)
           \/ \E kind \in {Unchanged, Moved, Reset}, later \in Seq(Stages) :
                 Enter(t, ThenRefresh(kind), later)
           \/ \E l \in {"patchSelect", "listeners", "shutdown"}, later \in Seq(Stages) :
                 Enter(t, Then(l), later)
    PROVE  CallType' /\ LocalsTyped'
<1>1. CallType
  BY DEF TypeInv, TypeOK
<1>2. /\ pc' \in [Threads -> Labels]
      /\ change' \in [Threads -> {Unchanged, Moved, Reset}]
      /\ rest' \in [Threads -> Seq(Stages)]
      /\ pc'[t] \notin {"commit", "publish"}
      /\ \A u \in Threads \ {t} : pc'[u] = pc[u]
  <2>1. CASE Resume(t)
    BY <2>1, <1>1, ResumeTyped
  <2>2. ASSUME NEW kind \in {Unchanged, Moved, Reset}, NEW later \in Seq(Stages),
               Enter(t, ThenRefresh(kind), later)
        PROVE  <1>2!1 /\ <1>2!2 /\ <1>2!3 /\ <1>2!4 /\ <1>2!5
    <3>1. "refresh" \in Labels
      BY DEF Labels
    <3>2. QED
      BY <2>2, <3>1, <1>1, EnterTyped, StagesTyped
  <2>3. ASSUME NEW l \in {"patchSelect", "listeners", "shutdown"},
               NEW later \in Seq(Stages), Enter(t, Then(l), later)
        PROVE  <1>2!1 /\ <1>2!2 /\ <1>2!3 /\ <1>2!4 /\ <1>2!5
    <3>1. l \in Labels
      BY DEF Labels
    <3>2. QED
      BY <2>3, <3>1, <1>1, EnterTyped, StagesTyped
  <2>4. QED
    BY <2>1, <2>2, <2>3
<1>3. CallType'
  BY <1>1, <1>2 DEF CallType
<1>4. LocalsTyped'
  BY <1>2, LocalsFrame DEF TypeInv
<1>5. QED
  BY <1>3, <1>4

(* Every step keeps the types and the locals.                              *)
LEMMA RefreshTypeInv ==
    ASSUME TypeInv, NEW t \in Threads, Refreshing(t)
    PROVE  TypeInv'
<1> USE RouteAssumption
<1>1. TypeOK /\ LocalsTyped /\ CallType /\ WorldType
  BY DEF TypeInv, TypeOK
<1>2. CASE ReadRoute(t)
  <2>1. Observed \in Reading
    BY <1>1 DEF WorldType, World, Observed, Reading
  <2>2. CallType'
    BY <1>1, <1>2, <2>1 DEF ReadRoute, Goto, CallType, Labels
  <2>3. LocalsTyped'
    BY <1>1, <1>2, <2>1 DEF ReadRoute, Goto, CallType, LocalsTyped
  <2>4. QED
    BY <1>1, <1>2, <2>2, <2>3, TypesFrame DEF ReadRoute, TypeInv, TypeOK
<1>3. CASE CommitRoute(t)
  <2> DEFINE found == DetectedChange(seen[t], change[t])
  <2>1. seen[t] \in Reading
    BY <1>1, <1>3 DEF CommitRoute, LocalsTyped
  <2>2. RouteType'
    BY <1>1, <1>3, <2>1 DEF CommitRoute, RouteType, TypeOK
  <2>3. seen' \in [Threads -> Reading \cup {None}] /\ \A u \in Threads \ {t} : seen'[u] = seen[u]
    BY <1>1, <1>3 DEF CommitRoute, CallType
  <2>4. seq' \in [Threads -> Nat] /\ watch' \in [Threads -> BOOLEAN]
    BY <1>1, <1>3 DEF CommitRoute, CallType
  <2>5. CASE Publishes(found)
    <3>1. [epoch |-> epoch', version |-> version'] \in RouteState
      BY <2>2 DEF RouteType, RouteState
    <3>2. /\ out' = [out EXCEPT ![t] = [epoch |-> epoch', version |-> version']]
          /\ Enter(t, Then("publish"), rest[t])
          /\ UNCHANGED selectMu
      BY <1>3, <2>5 DEF CommitRoute
    <3>3. "publish" \in Labels /\ rest[t] \in Seq(Stages)
      BY <1>1 DEF Labels, CallType
    <3>4. /\ pc' \in [Threads -> Labels]
          /\ change' \in [Threads -> {Unchanged, Moved, Reset}]
          /\ rest' \in [Threads -> Seq(Stages)]
          /\ pc'[t] = "publish"
          /\ \A u \in Threads \ {t} : pc'[u] = pc[u]
      BY <1>1, <3>2, <3>3, EnterTyped, StagesTyped
    <3>5. /\ out' \in [Threads -> RouteState \cup {None}]
          /\ out'[t] \in RouteState
          /\ \A u \in Threads \ {t} : out'[u] = out[u]
      BY <1>1, <3>1, <3>2 DEF CallType
    <3>6. CallType' /\ LocalsTyped'
      BY <1>1, <2>3, <2>4, <3>4, <3>5 DEF CallType, LocalsTyped
    <3>7. QED
      BY <1>1, <1>3, <2>2, <3>2, <3>6, TypesFrame DEF CommitRoute, TypeInv, TypeOK
  <2>6. CASE ~Publishes(found)
    <3>1. out' = out /\ Resume(t) /\ selectMu' = None
      BY <1>3, <2>6 DEF CommitRoute
    <3>2. /\ pc' \in [Threads -> Labels]
          /\ change' \in [Threads -> {Unchanged, Moved, Reset}]
          /\ rest' \in [Threads -> Seq(Stages)]
          /\ pc'[t] \notin {"commit", "publish"}
          /\ \A u \in Threads \ {t} : pc'[u] = pc[u]
      BY <1>1, <3>1, ResumeTyped
    <3>3. CallType' /\ LocalsTyped'
      BY <1>1, <2>3, <2>4, <3>1, <3>2 DEF CallType, LocalsTyped
    <3>4. QED
      BY <1>1, <1>3, <2>2, <3>1, <3>3, TypesFrame DEF CommitRoute, TypeInv, TypeOK
  <2>7. QED
    BY <2>5, <2>6
<1>4. CASE PublishRoute(t)
  <2>1. out[t] \in RouteState /\ SendType
    BY <1>1, <1>4 DEF PublishRoute, LocalsTyped, TypeOK
  <2>2. out[t].version \in Nat /\ Maximum(announced, out[t].version) \in Nat
    BY <2>1 DEF RouteState, SendType, Maximum
  <2>3. SendType'
    <3>1. CASE listening /\ HasRoom
      BY <1>4, <2>1, <2>2, <3>1 DEF PublishRoute, HasRoom, SendType
    <3>2. CASE ~(listening /\ HasRoom)
      BY <1>4, <2>1, <2>2, <3>2 DEF PublishRoute, SendType
    <3>3. QED
      BY <3>1, <3>2
  <2>4. /\ pc' \in [Threads -> Labels]
        /\ change' \in [Threads -> {Unchanged, Moved, Reset}]
        /\ rest' \in [Threads -> Seq(Stages)]
        /\ pc'[t] \notin {"commit", "publish"}
        /\ \A u \in Threads \ {t} : pc'[u] = pc[u]
    BY <1>1, <1>4, ResumeTyped DEF PublishRoute
  <2>5. out' = [out EXCEPT ![t] = None] /\ UNCHANGED <<seen, seq, watch>>
    BY <1>4 DEF PublishRoute
  <2>6. CallType' /\ LocalsTyped'
    BY <1>1, <2>4, <2>5 DEF CallType, LocalsTyped
  <2>7. selectMu' = None
    BY <1>4 DEF PublishRoute, UnlockSelect
  <2>8. QED
    BY <1>1, <1>4, <2>3, <2>6, <2>7, TypesFrame DEF PublishRoute, TypeInv, TypeOK
<1>5. QED
  BY <1>2, <1>3, <1>4 DEF Refreshing

(* The watch's own variables stay typed where a handler changes them.      *)
LEMMA RecordTyped ==
    ASSUME WatchType, NEW n \in Nat, NEW on \in BOOLEAN
    PROVE  /\ DOMAIN Record(n, on) = DOMAIN ran \cup {n}
           /\ DOMAIN Record(n, on) \subseteq Nat
           /\ Record(n, on) \in [DOMAIN Record(n, on) -> BOOLEAN]
           /\ Record(n, on)[n] = on
<1>1. DOMAIN Record(n, on) = DOMAIN ran \cup {n}
  BY DEF Record
<1>2. Record(n, on)[n] = on
  BY DEF Record
<1>3. \A x \in DOMAIN ran \cup {n} : (IF x = n THEN on ELSE ran[x]) \in BOOLEAN
  BY DEF WatchType
<1>4. QED
  BY <1>1, <1>2, <1>3 DEF Record, WatchType

LEMMA StopTyped ==
    ASSUME WatchType, StopRouteWatch
    PROVE  WatchType'
<1>1. StopPlace \in Nat
  BY DEF StopPlace, WatchType
<1>2. DOMAIN ran' \subseteq Nat /\ ran' \in [DOMAIN ran' -> BOOLEAN]
  BY <1>1, RecordTyped DEF StopRouteWatch
<1>3. methodCallSeq' \in Nat /\ watchSeq' \in Nat
  BY <1>1 DEF StopRouteWatch, WatchType, Maximum
<1>4. polling' \in [Pollers -> {"none", "live", "cancelled"}]
  BY DEF StopRouteWatch, CancelPoll, WatchType
<1>5. QED
  BY <1>2, <1>3, <1>4 DEF StopRouteWatch, WatchType

LEMMA HandleWatchTyped ==
    ASSUME WatchType, SendType, version \in Nat, CallType,
           NEW c \in Callers, HandleWatchRoute(c)
    PROVE  WatchType' /\ SendType'
<1>1. c \in Threads /\ seq[c] \in Nat /\ watch[c] \in BOOLEAN
  BY DEF Threads, CallType
<1>2. CASE Outdated(seq[c])
  BY <1>2 DEF HandleWatchRoute, WatchType, SendType
<1>3. CASE ~Outdated(seq[c])
  <2>1. /\ watchSeq' = seq[c] /\ watched' = watch[c]
        /\ ran' = Record(seq[c], watch[c]) /\ methodCallSeq' = methodCallSeq
        /\ UNCHANGED <<events, dropped>>
    BY <1>3 DEF HandleWatchRoute
  <2>2. DOMAIN ran' \subseteq Nat /\ ran' \in [DOMAIN ran' -> BOOLEAN]
    BY <1>1, <2>1, RecordTyped
  <2>3. /\ stopPoll' \in Pollers \cup {None}
        /\ polling' \in [Pollers -> {"none", "live", "cancelled"}]
        /\ announced' \in Nat
    <3>1. CASE watch[c]
      BY <1>3, <3>1 DEF HandleWatchRoute, WatchType, SendType
    <3>2. CASE ~watch[c]
      BY <1>3, <3>2 DEF HandleWatchRoute, WatchType, SendType, CancelPoll
    <3>3. QED
      BY <3>1, <3>2
  <2>4. QED
    BY <1>1, <2>1, <2>2, <2>3 DEF WatchType, SendType
<1>4. QED
  BY <1>2, <1>3

LEMMA CallingTypeInv ==
    ASSUME TypeInv, NEW c \in Callers, Calling(c)
    PROVE  TypeInv'
<1> USE RouteAssumption
<1>1. TypeOK /\ CallType /\ WorldType /\ CoreType /\ WatchType
  BY DEF TypeInv, TypeOK
<1>2. c \in Threads
  BY DEF Threads
<1>3. seq \in [Threads -> Nat] /\ watch \in [Threads -> BOOLEAN]
  BY <1>1 DEF CallType
<1>4. CASE \E g \in Groups, p \in Proxies : ChangeProxy(c, g, p)
  <2>1. PICK g \in Groups, p \in Proxies : ChangeProxy(c, g, p)
    BY <1>4
  <2>2. WorldType'
    BY <1>1, <2>1, WorldChanges, MoveTyped DEF ChangeProxy
  <2>3. CallType' /\ LocalsTyped'
    BY <1>2, <1>3, <2>1, StagesTyped, CallTyped DEF ChangeProxy, Begin
  <2>4. QED
    BY <1>1, <1>2, <2>1, <2>2, <2>3, TypesFrame DEF ChangeProxy, TypeInv, TypeOK
<1>5. CASE UpdateProvider(c)
  <2>1. WorldType'
    BY <1>1, <1>5, WorldChanges, MoveTyped DEF UpdateProvider
  <2>2. CallType' /\ LocalsTyped'
    BY <1>2, <1>3, <1>5, StagesTyped, CallTyped DEF UpdateProvider, Begin
  <2>3. QED
    BY <1>1, <1>5, <2>1, <2>2, TypesFrame DEF UpdateProvider, TypeInv, TypeOK
<1>6. CASE \E kind \in {Moved, Reset} : OutsideChange(c, kind)
  <2>1. PICK kind \in {Moved, Reset} : OutsideChange(c, kind)
    BY <1>6
  <2>2. WorldType'
    BY <1>1, <2>1, WorldChanges, MoveTyped DEF OutsideChange
  <2>3. CallType' /\ LocalsTyped'
    BY <1>2, <1>3, <2>1, StagesTyped, CallTyped DEF OutsideChange, Begin
  <2>4. QED
    BY <1>1, <2>1, <2>2, <2>3, TypesFrame DEF OutsideChange, TypeInv, TypeOK
<1>7. CASE \E kind \in {Unchanged, Moved, Reset} : UpdateConfig(c, kind)
  <2>1. PICK kind \in {Unchanged, Moved, Reset} : UpdateConfig(c, kind)
    BY <1>7
  <2>2. WorldType'
    BY <1>1, <2>1, WorldChanges, MoveTyped DEF UpdateConfig, worldVars, WorldType
  <2>3. <<Then("unlock")>> \in Seq(Stages)
        /\ <<ThenRefresh(kind), Then("unlock")>> \in Seq(Stages)
    BY StagesTyped
  <2>4. CallType' /\ LocalsTyped'
    BY <1>2, <1>3, <2>1, <2>3, CallTyped DEF UpdateConfig, Begin
  <2>5. CoreType'
    BY <1>1, <2>1 DEF UpdateConfig, LockConfig, CoreType
  <2>6. QED
    BY <1>1, <2>1, <2>2, <2>4, <2>5, TypesFrame DEF UpdateConfig, TypeInv, TypeOK
<1>8. CASE \E picks \in AnyPicks : ApplyConfig(c, picks)
  <2>1. PICK picks \in AnyPicks : ApplyConfig(c, picks)
    BY <1>8
  <2>2. WorldType'
    BY <1>1, <2>1, WorldChanges, MoveTyped DEF ApplyConfig
  <2>3. <<ThenRefresh(Reset), Then("listeners"), Then("unlock")>> \in Seq(Stages)
    BY StagesTyped
  <2>4. CallType' /\ LocalsTyped'
    BY <1>2, <1>3, <2>1, <2>3, CallTyped DEF ApplyConfig, Begin
  <2>5. CoreType'
    BY <1>1, <2>1 DEF ApplyConfig, LockConfig, CoreType
  <2>6. QED
    BY <1>1, <2>1, <2>2, <2>4, <2>5, TypesFrame DEF ApplyConfig, TypeInv, TypeOK
<1>9. CASE StartListener(c)
  <2>1. WorldType'
    BY <1>1, <1>9, WorldChanges, MoveTyped DEF StartListener
  <2>2. <<ThenRefresh(Reset), Then("unlock")>> \in Seq(Stages)
    BY StagesTyped
  <2>3. CallType' /\ LocalsTyped'
    BY <1>2, <1>3, <1>9, <2>2, CallTyped DEF StartListener, Begin
  <2>4. CoreType'
    BY <1>1, <1>9 DEF StartListener, LockConfig, CoreType
  <2>5. QED
    BY <1>1, <1>9, <2>1, <2>3, <2>4, TypesFrame DEF StartListener, TypeInv, TypeOK
<1>10. CASE \E on \in BOOLEAN : DispatchWatch(c, on)
  <2>1. PICK on \in BOOLEAN : DispatchWatch(c, on)
    BY <1>10
  <2>2. seq' \in [Threads -> Nat] /\ watch' \in [Threads -> BOOLEAN]
    BY <1>1, <1>2, <1>3, <2>1 DEF DispatchWatch, WatchType
  <2>3. <<Then("setWatch")>> \in Seq(Stages)
    BY StagesTyped
  <2>4. CallType' /\ LocalsTyped'
    BY <1>2, <2>1, <2>2, <2>3, CallTyped DEF DispatchWatch, Begin
  <2>5. WatchType'
    BY <1>1, <2>1 DEF DispatchWatch, WatchType
  <2>6. QED
    BY <1>1, <2>1, <2>4, <2>5, TypesFrame DEF DispatchWatch, TypeInv, TypeOK
<1>11. CASE Shutdown(c)
  <2>1. CallType' /\ LocalsTyped'
    BY <1>2, <1>3, <1>11, StagesTyped, CallTyped DEF Shutdown, Begin
  <2>2. WatchType'
    BY <1>1, <1>11, StopTyped DEF Shutdown
  <2>3. QED
    BY <1>1, <1>11, <2>1, <2>2, TypesFrame DEF Shutdown, TypeInv, TypeOK
<1>12. QED
  BY <1>4, <1>5, <1>6, <1>7, <1>8, <1>9, <1>10, <1>11 DEF Calling

LEMMA ContinuingTypeInv ==
    ASSUME TypeInv, NEW c \in Callers, Continuing(c)
    PROVE  TypeInv'
<1> USE RouteAssumption
<1>1. TypeOK /\ CallType /\ WorldType /\ CoreType /\ WatchType /\ SendType /\ version \in Nat
  BY DEF TypeInv, TypeOK, RouteType
<1>2. c \in Threads
  BY DEF Threads
<1>3. seq \in [Threads -> Nat] /\ watch \in [Threads -> BOOLEAN] /\ rest[c] \in Seq(Stages)
  BY <1>1, <1>2 DEF CallType
<1>4. CASE \E picks \in AnyPicks : PatchSelectGroup(c, picks)
  <2>1. PICK picks \in AnyPicks : PatchSelectGroup(c, picks)
    BY <1>4
  <2>2. WorldType'
    BY <1>1, <2>1, WorldChanges DEF PatchSelectGroup, WorldType
  <2>3. CallType' /\ LocalsTyped'
    BY <1>2, <1>3, <2>1, CallTyped DEF PatchSelectGroup
  <2>4. QED
    BY <1>1, <2>1, <2>2, <2>3, TypesFrame DEF PatchSelectGroup, TypeInv, TypeOK
<1>5. CASE UpdateListeners(c)
  <2>1. WorldType'
    BY <1>1, <1>5, WorldChanges, MoveTyped DEF UpdateListeners, worldVars, WorldType
  <2>2. CallType' /\ LocalsTyped'
    BY <1>2, <1>3, <1>5, CallTyped DEF UpdateListeners
  <2>3. QED
    BY <1>1, <1>5, <2>1, <2>2, TypesFrame DEF UpdateListeners, TypeInv, TypeOK
<1>6. CASE UnlockConfig(c)
  <2>1. CallType' /\ LocalsTyped'
    BY <1>2, <1>3, <1>6, CallTyped DEF UnlockConfig
  <2>2. CoreType'
    BY <1>1, <1>6 DEF UnlockConfig, CoreType
  <2>3. QED
    BY <1>1, <1>6, <2>1, <2>2, TypesFrame DEF UnlockConfig, TypeInv, TypeOK
<1>7. CASE HandleWatchRoute(c)
  <2>1. seq' \in [Threads -> Nat] /\ watch' \in [Threads -> BOOLEAN]
    BY <1>2, <1>3, <1>7 DEF HandleWatchRoute
  <2>2. CallType' /\ LocalsTyped'
    BY <1>2, <1>7, <2>1, CallTyped DEF HandleWatchRoute
  <2>3. WatchType' /\ SendType'
    BY <1>1, <1>7, HandleWatchTyped
  <2>4. QED
    BY <1>1, <1>7, <2>2, <2>3, TypesFrame DEF HandleWatchRoute, TypeInv, TypeOK
<1>8. CASE ShutdownConfig(c)
  <2>1. CallType' /\ LocalsTyped'
    BY <1>2, <1>3, <1>8, CallTyped DEF ShutdownConfig
  <2>2. CoreType'
    BY <1>1, <1>8 DEF ShutdownConfig, CoreType
  <2>3. QED
    BY <1>1, <1>8, <2>1, <2>2, TypesFrame DEF ShutdownConfig, TypeInv, TypeOK
<1>9. QED
  BY <1>4, <1>5, <1>6, <1>7, <1>8 DEF Continuing

LEMMA ProbingTypeInv ==
    ASSUME TypeInv, NEW p \in Probes, Probing(p)
    PROVE  TypeInv'
<1>1. TypeOK /\ AnswerType /\ WorldType /\ RouteType
  BY DEF TypeInv, TypeOK
<1>2. routeStamp \in RouteState /\ world \in World
  BY <1>1 DEF routeStamp, RouteState, RouteType, WorldType
<1>3. AnswerType'
  <2>1. CASE StampProbe(p)
    BY <1>1, <1>2, <2>1 DEF StampProbe, AnswerType
  <2>2. CASE DialProbe(p)
    BY <1>1, <1>2, <2>2 DEF DialProbe, AnswerType
  <2>3. CASE StampCheck(p)
    BY <1>1, <1>2, <2>3 DEF StampCheck, AnswerType
  <2>4. CASE ResolveCheck(p)
    BY <1>1, <1>2, <2>4 DEF ResolveCheck, AnswerType, NoAnswer
  <2>5. CASE LandAnswer(p)
    BY <1>1, <1>2, <2>5 DEF LandAnswer, AnswerType, AnswerStamp
  <2>6. QED
    BY <2>1, <2>2, <2>3, <2>4, <2>5 DEF Probing
<1>4. UNCHANGED <<worldVars, routeVars, watchVars, selectMu, coreVars, hostVars, sendVars, callVars>>
  BY DEF Probing, StampProbe, DialProbe, StampCheck, ResolveCheck, LandAnswer
<1>5. LocalsTyped'
  BY <1>4 DEF TypeInv, LocalsTyped, callVars
<1>6. QED
  BY <1>1, <1>3, <1>4, <1>5, TypesFrame DEF TypeInv, TypeOK

LEMMA StepTypeInv == TypeInv /\ [Next]_vars => TypeInv'
<1> SUFFICES ASSUME TypeInv, [Next]_vars PROVE TypeInv'
  OBVIOUS
<1> USE RouteAssumption
<1>1. TypeOK /\ WorldType /\ WatchType /\ CoreType /\ HostType /\ SendType /\ CallType
  BY DEF TypeInv, TypeOK
<1>2. UNCHANGED <<pc, seen, out>> => LocalsTyped'
  BY DEF TypeInv, LocalsTyped
<1>3. CASE \E g \in HealthGroups, p \in Proxies : HealthCheckMove(g, p)
  <2>1. PICK g \in HealthGroups, p \in Proxies : HealthCheckMove(g, p)
    BY <1>3
  <2>2. WorldType'
    BY <1>1, <2>1, WorldChanges, MoveTyped DEF HealthCheckMove
  <2>3. QED
    BY <1>1, <1>2, <2>1, <2>2, TypesFrame DEF HealthCheckMove, TypeInv, TypeOK, callVars
<1>4. CASE BackgroundLoad
  <2>1. WorldType'
    BY <1>1, <1>4, WorldChanges, MoveTyped DEF BackgroundLoad
  <2>2. QED
    BY <1>1, <1>2, <1>4, <2>1, TypesFrame DEF BackgroundLoad, TypeInv, TypeOK, callVars
<1>5. CASE \E t \in Threads : Refreshing(t)
  BY <1>5, RefreshTypeInv
<1>6. CASE \E c \in Callers : Calling(c) \/ Continuing(c)
  BY <1>6, CallingTypeInv, ContinuingTypeInv
<1>7. ASSUME NEW p \in Pollers, PollTick(p)
      PROVE  TypeInv'
  <2>1. p \in Threads /\ seq \in [Threads -> Nat] /\ watch \in [Threads -> BOOLEAN]
    BY <1>1 DEF Threads, CallType
  <2>2. CallType' /\ LocalsTyped'
    BY <1>7, <2>1, StagesTyped, CallTyped DEF PollTick, Begin
  <2>3. QED
    BY <1>1, <1>7, <2>2, TypesFrame DEF PollTick, TypeInv, TypeOK
<1>8. ASSUME NEW p \in Pollers, PollExit(p)
      PROVE  TypeInv'
  <2>1. WatchType'
    BY <1>1, <1>8 DEF PollExit, WatchType
  <2>2. QED
    BY <1>1, <1>2, <1>8, <2>1, TypesFrame DEF PollExit, TypeInv, TypeOK, callVars
<1>9. CASE \E p \in Probes : Probing(p)
  BY <1>9, ProbingTypeInv
<1>10. CASE StopListener
  <2>1. CoreType'
    BY <1>1, <1>10 DEF StopListener, CoreType
  <2>2. QED
    BY <1>1, <1>2, <1>10, <2>1, TypesFrame DEF StopListener, TypeInv, TypeOK, callVars
<1>11. CASE DeliverEvent
  <2>1. SendType'
    BY <1>1, <1>11 DEF DeliverEvent, SendType
  <2>2. QED
    BY <1>1, <1>2, <1>11, <2>1, TypesFrame DEF DeliverEvent, TypeInv, TypeOK, callVars
<1>12. CASE SetEventListener
  <2>1. HostType'
    BY <1>1, <1>12 DEF SetEventListener, HostType
  <2>2. QED
    BY <1>1, <1>2, <1>12, <2>1, TypesFrame DEF SetEventListener, TypeInv, TypeOK, callVars
<1>13. CASE FinishDetach
  <2>1. WatchType' /\ HostType'
    BY <1>1, <1>13, StopTyped DEF FinishDetach, HostType
  <2>2. QED
    BY <1>1, <1>2, <1>13, <2>1, TypesFrame DEF FinishDetach, TypeInv, TypeOK, callVars
<1>14. CASE UNCHANGED vars
  BY <1>1, <1>2, <1>14, TypesFrame DEF vars, TypeInv, TypeOK, callVars
<1>15. QED
  BY <1>3, <1>4, <1>5, <1>6, <1>7, <1>8, <1>9, <1>10, <1>11, <1>12, <1>13, <1>14 DEF Next

(* Every reachable state of the tracker is well typed and its event queue  *)
(* within its bound.                                                       *)
THEOREM TypeCorrect == Spec => []TypeOK
<1>1. TypeInv => TypeOK
  BY DEF TypeInv
<1>2. QED
  BY <1>1, InitTypeInv, StepTypeInv, PTL DEF Spec

-----------------------------------------------------------------------------
(* The watch.  NewestWatchWins and DetachedNeverWatched are not inductive: *)
(* a stop is the newest intent only because every seq handed out is below  *)
(* methodCallSeq + 1, and a detached host stays unwatched only because all *)
(* it dispatched before is older than the stop.                            *)
WatchInv ==
    /\ NewestWatchWins
    /\ PollerMatchesWatch
    /\ watchSeq <= methodCallSeq
    /\ \A t \in Threads : seq[t] <= methodCallSeq
    /\ ~listening /\ ~detaching => ~watched /\ \A t \in Threads : seq[t] < watchSeq

LEMMA InitWatchInv == Init => WatchInv
<1> SUFFICES ASSUME Init PROVE WatchInv
  OBVIOUS
<1> USE RouteAssumption
<1>1. NewestWatchWins
  <2>1. watchSeq = 0 /\ DOMAIN ran = {0}
    BY DEF Init
  <2>2. ~ran[0]
    BY DEF Init
  <2>3. ran[0] \in BOOLEAN
    BY DEF Init
  <2>4. ran[0] = FALSE
    BY <2>2, <2>3
  <2>5. watched = FALSE
    BY Zenon DEF Init
  <2>6. watched = ran[watchSeq]
    BY <2>1, <2>4, <2>5, Zenon
  <2>7. watchSeq \in DOMAIN ran /\ \A s \in DOMAIN ran : s <= watchSeq
    BY <2>1
  <2>8. QED
    BY <2>6, <2>7, Zenon DEF NewestWatchWins
<1>2. PollerMatchesWatch
  <2>1. stopPoll \notin Pollers /\ \A p \in Pollers : polling[p] # "live"
    BY DEF Init
  <2>2. ~watched /\ stopPoll = None
    BY Zenon DEF Init
  <2>3. QED
    BY <2>1, <2>2 DEF PollerMatchesWatch
<1>3. QED
  BY <1>1, <1>2 DEF Init, WatchInv

(* The variables the watch is made of.                                     *)
LEMMA WatchFrame ==
    ASSUME WatchInv, UNCHANGED <<watchVars, hostVars, seq>>
    PROVE  WatchInv'
  BY DEF WatchInv, NewestWatchWins, PollerMatchesWatch, watchVars, hostVars

(* A stop leaves nobody watching, newer than all dispatched before it.     *)
LEMMA StopWatchInv ==
    ASSUME TypeOK, WatchInv, StopRouteWatch, UNCHANGED seq
    PROVE  /\ WatchInv'
           /\ ~watched' /\ \A t \in Threads : seq'[t] < watchSeq'
<1> USE RouteAssumption
<1>1. WatchType /\ CallType
  BY DEF TypeOK
<1>2. StopPlace \in Nat /\ watchSeq' = StopPlace /\ methodCallSeq' = StopPlace
      /\ watchSeq < StopPlace
  BY <1>1 DEF StopRouteWatch, StopPlace, Maximum, WatchType, WatchInv
<1>3. DOMAIN ran' = DOMAIN ran \cup {StopPlace} /\ ran'[StopPlace] = FALSE
  BY <1>1, <1>2, RecordTyped DEF StopRouteWatch
<1>4. ~watched'
  BY Zenon DEF StopRouteWatch
<1>5. NewestWatchWins'
  <2>1. \A s \in DOMAIN ran' : s <= watchSeq'
    BY <1>1, <1>2, <1>3 DEF WatchInv, NewestWatchWins, WatchType
  <2>2. watched' = FALSE
    BY DEF StopRouteWatch
  <2>3. QED
    BY <1>2, <1>3, <2>1, <2>2 DEF NewestWatchWins
<1>6. PollerMatchesWatch'
  <2>1. stopPoll' = None /\ polling' = CancelPoll
    BY DEF StopRouteWatch
  <2>2. \A p \in Pollers : polling'[p] # "live"
    BY <1>1, <2>1 DEF CancelPoll, WatchInv, PollerMatchesWatch, WatchType
  <2>3. QED
    BY <1>4, <2>1, <2>2 DEF PollerMatchesWatch
<1>7. \A t \in Threads : seq'[t] < watchSeq' /\ seq'[t] <= methodCallSeq'
  BY <1>1, <1>2 DEF WatchInv, CallType, StopPlace, WatchType
<1>8. QED
  BY <1>2, <1>4, <1>5, <1>6, <1>7 DEF WatchInv

(* A watch that runs is refused, or is the newest intent.                  *)
LEMMA HandleWatchInv ==
    ASSUME TypeOK, WatchInv, NEW c \in Callers, HandleWatchRoute(c)
    PROVE  WatchInv'
<1> USE RouteAssumption
<1>1. WatchType /\ CallType /\ c \in Threads /\ seq[c] \in Nat /\ watch[c] \in BOOLEAN
  BY DEF TypeOK, Threads, CallType
<1>2. /\ seq' = [seq EXCEPT ![c] = 0] /\ methodCallSeq' = methodCallSeq
      /\ UNCHANGED <<listening, detaching>>
  BY DEF HandleWatchRoute, hostVars
<1>3. \A t \in Threads : seq'[t] <= methodCallSeq'
  BY <1>1, <1>2 DEF WatchInv, CallType, WatchType
<1>4. CASE Outdated(seq[c])
  <2>1. UNCHANGED <<watched, watchSeq, stopPoll, polling, ran>>
    BY <1>4 DEF HandleWatchRoute
  <2>2. \A t \in Threads : seq[t] < watchSeq => seq'[t] < watchSeq
    BY <1>1, <1>2 DEF CallType, WatchType
  <2>3. QED
    BY <1>2, <1>3, <2>1, <2>2 DEF WatchInv, NewestWatchWins, PollerMatchesWatch
<1>5. CASE ~Outdated(seq[c])
  <2>1. /\ watchSeq' = seq[c] /\ watched' = watch[c]
        /\ ran' = Record(seq[c], watch[c])
        /\ watchSeq <= seq[c]
    BY <1>1, <1>5 DEF HandleWatchRoute, Outdated, WatchType
  <2>2. DOMAIN ran' = DOMAIN ran \cup {seq[c]} /\ ran'[seq[c]] = watch[c]
    BY <1>1, <2>1, RecordTyped
  <2>3. NewestWatchWins'
    <3>1. \A s \in DOMAIN ran' : s <= watchSeq'
      BY <1>1, <2>1, <2>2 DEF WatchInv, NewestWatchWins, WatchType
    <3>2. QED
      BY <2>1, <2>2, <3>1 DEF NewestWatchWins
  <2>4. PollerMatchesWatch'
    <3>1. CASE watch[c] /\ stopPoll = None
      <4>1. PICK p \in Pollers : /\ polling[p] = "none"
                                 /\ stopPoll' = p
                                 /\ polling' = [polling EXCEPT ![p] = "live"]
        BY <1>5, <3>1 DEF HandleWatchRoute
      <4>2. \A q \in Pollers : polling[q] # "live"
        BY <3>1 DEF WatchInv, PollerMatchesWatch
      <4>3. \A q \in Pollers : polling'[q] = "live" <=> q = stopPoll'
        BY <1>1, <4>1, <4>2 DEF WatchType
      <4>4. watched' /\ stopPoll' # None
        BY <2>1, <3>1, <4>1
      <4>5. QED
        BY <4>3, <4>4 DEF PollerMatchesWatch
    <3>2. CASE watch[c] /\ stopPoll # None
      <4>1. UNCHANGED <<stopPoll, polling>>
        BY <1>5, <3>2 DEF HandleWatchRoute
      <4>2. watched'
        BY <2>1, <3>2
      <4>3. QED
        BY <3>2, <4>1, <4>2 DEF WatchInv, PollerMatchesWatch
    <3>3. CASE ~watch[c]
      <4>1. stopPoll' = None /\ polling' = CancelPoll
        BY <1>5, <3>3 DEF HandleWatchRoute
      <4>2. \A p \in Pollers : polling'[p] # "live"
        BY <1>1, <4>1 DEF CancelPoll, WatchInv, PollerMatchesWatch, WatchType
      <4>3. ~watched'
        BY <2>1, <3>3
      <4>4. QED
        BY <4>1, <4>2, <4>3 DEF PollerMatchesWatch
    <3>4. QED
      BY <3>1, <3>2, <3>3
  <2>5. listening \/ detaching
    BY <1>1, <2>1 DEF WatchInv, WatchType
  <2>6. watchSeq' <= methodCallSeq'
    BY <1>1, <1>2, <2>1 DEF WatchInv
  <2>7. QED
    BY <1>2, <1>3, <2>3, <2>4, <2>5, <2>6 DEF WatchInv
<1>6. QED
  BY <1>4, <1>5

LEMMA StepWatchInv == TypeInv /\ WatchInv /\ [Next]_vars => WatchInv'
<1> SUFFICES ASSUME TypeInv, WatchInv, [Next]_vars PROVE WatchInv'
  OBVIOUS
<1> USE RouteAssumption
<1>1. TypeOK /\ WatchType /\ CallType
  BY DEF TypeInv, TypeOK
<1>2. CASE \E g \in HealthGroups, p \in Proxies : HealthCheckMove(g, p)
  BY <1>2, WatchFrame DEF HealthCheckMove, callVars
<1>3. CASE BackgroundLoad \/ StopListener \/ DeliverEvent
  BY <1>3, WatchFrame DEF BackgroundLoad, StopListener, DeliverEvent, callVars
<1>4. CASE \E t \in Threads : Refreshing(t)
  BY <1>4, WatchFrame DEF Refreshing, ReadRoute, CommitRoute, PublishRoute
<1>5. ASSUME NEW c \in Callers, NEW on \in BOOLEAN, DispatchWatch(c, on)
      PROVE  WatchInv'
  <2>1. /\ methodCallSeq' = methodCallSeq + 1
        /\ seq' = [seq EXCEPT ![c] = methodCallSeq + 1]
        /\ UNCHANGED <<watched, watchSeq, stopPoll, polling, ran, listening, detaching>>
        /\ listening
    BY <1>5 DEF DispatchWatch, hostVars
  <2>2. watchSeq' <= methodCallSeq' /\ \A t \in Threads : seq'[t] <= methodCallSeq'
    BY <1>1, <2>1 DEF WatchInv, WatchType, CallType
  <2>3. QED
    BY <2>1, <2>2 DEF WatchInv, NewestWatchWins, PollerMatchesWatch
<1>6. ASSUME NEW c \in Callers, Calling(c), ~Shutdown(c),
             ~ \E on \in BOOLEAN : DispatchWatch(c, on)
      PROVE  WatchInv'
  BY <1>6, WatchFrame
     DEF Calling, ChangeProxy, UpdateProvider, OutsideChange, UpdateConfig,
         ApplyConfig, StartListener
<1>7. ASSUME NEW c \in Callers, Shutdown(c)
      PROVE  WatchInv'
  BY <1>1, <1>7, StopWatchInv DEF Shutdown
<1>8. ASSUME NEW c \in Callers, Continuing(c)
      PROVE  WatchInv'
  <2>1. CASE HandleWatchRoute(c)
    BY <1>1, <2>1, HandleWatchInv
  <2>2. CASE ~HandleWatchRoute(c)
    BY <1>8, <2>2, WatchFrame
       DEF Continuing, PatchSelectGroup, UpdateListeners, UnlockConfig, ShutdownConfig
  <2>3. QED
    BY <2>1, <2>2
<1>9. ASSUME NEW p \in Pollers, PollTick(p)
      PROVE  WatchInv'
  BY <1>9, WatchFrame DEF PollTick
<1>10. ASSUME NEW p \in Pollers, PollExit(p)
       PROVE  WatchInv'
  <2>1. /\ UNCHANGED <<watched, watchSeq, stopPoll, methodCallSeq, ran, listening, detaching, seq>>
        /\ polling' = [polling EXCEPT ![p] = "none"] /\ polling[p] = "cancelled"
    BY <1>10 DEF PollExit, hostVars, callVars
  <2>2. \A q \in Pollers : polling'[q] = "live" <=> polling[q] = "live"
    BY <1>1, <2>1 DEF WatchType
  <2>3. QED
    BY <2>1, <2>2 DEF WatchInv, NewestWatchWins, PollerMatchesWatch
<1>11. CASE \E p \in Probes : Probing(p)
  BY <1>11, WatchFrame
     DEF Probing, StampProbe, DialProbe, StampCheck, ResolveCheck, LandAnswer, callVars
<1>12. CASE SetEventListener
  <2>1. listening' \/ detaching'
    BY <1>12 DEF SetEventListener
  <2>2. UNCHANGED <<watched, watchSeq, stopPoll, polling, methodCallSeq, ran, seq>>
    BY <1>12 DEF SetEventListener, watchVars, callVars
  <2>3. QED
    BY <2>1, <2>2 DEF WatchInv, NewestWatchWins, PollerMatchesWatch
<1>13. CASE FinishDetach
  BY <1>1, <1>13, StopWatchInv DEF FinishDetach, callVars
<1>14. CASE UNCHANGED vars
  BY <1>14, WatchFrame DEF vars, callVars
<1>15. QED
  BY <1>2, <1>3, <1>4, <1>5, <1>6, <1>7, <1>8, <1>9, <1>10, <1>11, <1>12, <1>13, <1>14
     DEF Next

-----------------------------------------------------------------------------
(* Publication.  Order needs the lock: a goroutine between its commit and  *)
(* its event holds selectMu, so no other one can move the version.         *)
InRefresh(t) == pc[t] \in {"commit", "publish"}

PublishInv ==
    /\ \A t \in Threads : InRefresh(t) => selectMu = t
    /\ \A t \in Threads : pc[t] = "publish" => out[t].version = version
    /\ \A i \in 1..Len(events) : events[i].version <= version
    /\ \A t \in Threads, i \in 1..Len(events) :
          pc[t] = "publish" => events[i].version < version
    /\ \A i, j \in 1..Len(events) : i < j => events[i].version < events[j].version
    /\ announced <= version
    /\ WatcherInformed

LEMMA InitPublishInv == Init => PublishInv
<1> SUFFICES ASSUME Init PROVE PublishInv
  OBVIOUS
<1>1. \A t \in Threads : pc[t] = "idle"
  BY DEF Init
<1>2. events = <<>> /\ announced = 0 /\ version = 0
  BY DEF Init
<1>3. ~watched
  BY Zenon DEF Init
<1>4. QED
  BY <1>1, <1>2, <1>3 DEF PublishInv, WatcherInformed, InRefresh

(* A step outside a refresh that does not disturb the ones under way.      *)
LEMMA PublishFrame ==
    ASSUME PublishInv, UNCHANGED <<out, version, events>>,
           \A u \in Threads : InRefresh(u) \/ InRefresh(u)'
               => pc'[u] = pc[u] /\ selectMu' = selectMu,
           announced' <= version, WatcherInformed'
    PROVE  PublishInv'
<1>1. \A u \in Threads : InRefresh(u)' => InRefresh(u) /\ selectMu' = selectMu
  BY DEF InRefresh
<1>2. \A u \in Threads : (pc[u] = "publish")' => pc[u] = "publish"
  BY DEF InRefresh
<1>3. QED
  BY <1>1, <1>2 DEF PublishInv

(* What a call, or a later step of its handler, does to the refreshes.     *)
LEMMA CallShape ==
    ASSUME TypeInv, NEW c \in Callers, Calling(c) \/ Continuing(c)
    PROVE  /\ ~InRefresh(c) /\ ~InRefresh(c)'
           /\ \A u \in Threads \ {c} : pc'[u] = pc[u]
           /\ UNCHANGED <<out, version, events, dropped>>
           /\ selectMu' = selectMu \/ selectMu = None
           /\ ~watched' \/ (watched' = watched /\ announced' = announced)
                        \/ announced' = version
           /\ announced' \in {announced, version}
<1>1. CallType /\ c \in Threads
  BY DEF TypeInv, TypeOK, Threads
<1>2. CASE \E g \in Groups, p \in Proxies : ChangeProxy(c, g, p)
  BY <1>1, <1>2 DEF ChangeProxy, Begin, Enter, Goto, ThenRefresh, InRefresh,
     CallType, routeVars, sendVars, watchVars
<1>3. CASE UpdateProvider(c)
  BY <1>1, <1>3 DEF UpdateProvider, Begin, Enter, Goto, ThenRefresh, InRefresh,
     CallType, routeVars, sendVars, watchVars
<1>4. CASE \E kind \in {Moved, Reset} : OutsideChange(c, kind)
  BY <1>1, <1>4 DEF OutsideChange, Begin, Enter, Goto, ThenRefresh, InRefresh,
     CallType, routeVars, sendVars, watchVars
<1>5. CASE \E kind \in {Unchanged, Moved, Reset} : UpdateConfig(c, kind)
  BY <1>1, <1>5 DEF UpdateConfig, Begin, Enter, Goto, Then, InRefresh,
     CallType, routeVars, sendVars, watchVars
<1>6. CASE \E picks \in AnyPicks : ApplyConfig(c, picks)
  BY <1>1, <1>6 DEF ApplyConfig, Begin, Enter, Goto, Then, InRefresh,
     CallType, routeVars, sendVars, watchVars
<1>7. CASE StartListener(c)
  BY <1>1, <1>7 DEF StartListener, Begin, Enter, Goto, Then, InRefresh,
     CallType, routeVars, sendVars, watchVars
<1>8. CASE \E on \in BOOLEAN : DispatchWatch(c, on)
  BY <1>1, <1>8 DEF DispatchWatch, Begin, Enter, Goto, ThenRefresh, InRefresh,
     CallType, routeVars, sendVars, watchVars
<1>9. CASE Shutdown(c)
  BY <1>1, <1>9 DEF Shutdown, StopRouteWatch, Begin, Enter, Goto, Then, InRefresh,
     CallType, routeVars, sendVars
<1>10. CASE \E picks \in AnyPicks : PatchSelectGroup(c, picks)
  BY <1>1, <1>10, ResumeTyped DEF PatchSelectGroup, InRefresh, routeVars, sendVars, watchVars
<1>11. CASE UpdateListeners(c)
  <2>1. CASE Resume(c)
    BY <1>1, <1>11, <2>1, ResumeTyped
       DEF UpdateListeners, InRefresh, routeVars, sendVars, watchVars
  <2>2. CASE Enter(c, ThenRefresh(Reset), rest[c])
    BY <1>1, <1>11, <2>2 DEF UpdateListeners, Enter, Goto, ThenRefresh, InRefresh,
       CallType, routeVars, sendVars, watchVars
  <2>3. QED
    BY <1>11, <2>1, <2>2 DEF UpdateListeners
<1>12. CASE UnlockConfig(c)
  BY <1>1, <1>12, ResumeTyped DEF UnlockConfig, InRefresh, routeVars, sendVars, watchVars
<1>13. CASE HandleWatchRoute(c)
  BY <1>1, <1>13, ResumeTyped DEF HandleWatchRoute, InRefresh, routeVars
<1>14. CASE ShutdownConfig(c)
  BY <1>1, <1>14, ResumeTyped DEF ShutdownConfig, InRefresh, routeVars, sendVars, watchVars
<1>15. QED
  BY <1>2, <1>3, <1>4, <1>5, <1>6, <1>7, <1>8, <1>9, <1>10, <1>11, <1>12, <1>13, <1>14
     DEF Calling, Continuing

(* The goroutine that holds selectMu is the only one inside a refresh.     *)
LEMMA OneInRefresh ==
    ASSUME PublishInv, NEW t \in Threads, InRefresh(t) \/ selectMu \in {None, t}
    PROVE  \A u \in Threads \ {t} : ~InRefresh(u)
  BY RouteAssumption DEF PublishInv, InRefresh, Threads

LEMMA RefreshPublishInv ==
    ASSUME TypeInv, PublishInv, NEW t \in Threads, Refreshing(t)
    PROVE  PublishInv'
<1> USE RouteAssumption
<1>1. /\ CallType /\ RouteType /\ SendType /\ LocalsTyped
      /\ version \in Nat /\ announced \in Nat
  BY DEF TypeInv, TypeOK, RouteType, SendType
<1>2. \A i \in 1..Len(events) : events[i] \in RouteState /\ events[i].version \in Nat
  <2>1. \A i \in 1..Len(events) : events[i] \in RouteState
    BY <1>1 DEF SendType
  <2>2. \A state \in RouteState : state.version \in Nat
    BY DEF RouteState
  <2>3. QED
    BY <2>1, <2>2
<1>3. CASE ReadRoute(t)
  <2>1. \A u \in Threads \ {t} : ~InRefresh(u)
    BY <1>3, OneInRefresh DEF ReadRoute
  <2>2. /\ pc'[t] = "commit" /\ \A u \in Threads \ {t} : pc'[u] = pc[u]
        /\ selectMu' = t /\ pc[t] = "refresh"
        /\ UNCHANGED <<out, version, events, announced, dropped, watched>>
    BY <1>1, <1>3 DEF ReadRoute, Goto, CallType, routeVars, sendVars, watchVars
  <2>3. \A u \in Threads : pc'[u] # "publish" /\ pc[u] # "publish"
    BY <2>1, <2>2 DEF InRefresh
  <2>4. \A u \in Threads : InRefresh(u)' => selectMu' = u
    BY <2>1, <2>2 DEF InRefresh
  <2>5. WatcherInformed'
    BY <2>2, <2>3 DEF PublishInv, WatcherInformed
  <2>6. QED
    BY <2>2, <2>3, <2>4, <2>5 DEF PublishInv
<1>4. CASE CommitRoute(t)
  <2> DEFINE found == DetectedChange(seen[t], change[t])
  <2>1. \A u \in Threads \ {t} : ~InRefresh(u)
    BY <1>4, OneInRefresh DEF CommitRoute, InRefresh
  <2>2. /\ version' = IF found = Unchanged THEN version ELSE version + 1
        /\ UNCHANGED <<events, announced, dropped, watched>>
        /\ pc[t] = "commit"
    BY <1>4 DEF CommitRoute, sendVars, watchVars
  <2>3. /\ version' \in Nat /\ version <= version' /\ announced' <= version'
        /\ \A i \in 1..Len(events) : events[i].version <= version'
    <3>1. version' \in Nat /\ version <= version'
      BY <1>1, <2>2
    <3>2. announced <= version /\ \A i \in 1..Len(events) : events[i].version <= version
      BY DEF PublishInv
    <3>3. announced' <= version'
      BY <1>1, <2>2, <3>1, <3>2
    <3>4. ASSUME NEW i \in 1..Len(events) PROVE events[i].version <= version'
      <4>1. events[i].version \in Nat /\ events[i].version <= version
        BY <1>2, <3>2
      <4>2. QED
        BY <1>1, <3>1, <4>1
    <3>5. QED
      BY <3>1, <3>3, <3>4
  <2>4. CASE Publishes(found)
    <3>1. /\ pc' = [pc EXCEPT ![t] = "publish"]
          /\ selectMu' = t
          /\ out' = [out EXCEPT ![t] = [epoch |-> epoch', version |-> version']]
      <4>1. selectMu = t
        BY <2>2 DEF PublishInv, InRefresh
      <4>2. QED
        BY <1>4, <2>4, <4>1 DEF CommitRoute, Enter, Goto, Then
    <3>2. pc'[t] = "publish" /\ \A u \in Threads \ {t} : pc'[u] # "publish" /\ ~InRefresh(u)'
      BY <1>1, <2>1, <3>1 DEF CallType, InRefresh
    <3>3. out'[t].version = version'
      BY <1>1, <3>1 DEF CallType
    <3>4. version' = version + 1
      BY <2>2, <2>4 DEF Publishes
    <3>5. \A i \in 1..Len(events) : events[i].version < version'
      BY <1>1, <1>2, <3>4 DEF PublishInv
    <3>6. WatcherInformed'
      BY <3>2 DEF WatcherInformed
    <3>7. QED
      BY <2>2, <2>3, <3>1, <3>2, <3>3, <3>5, <3>6 DEF PublishInv, InRefresh
  <2>5. CASE ~Publishes(found)
    <3>1. Resume(t) /\ UNCHANGED out
      BY <1>4, <2>5 DEF CommitRoute
    <3>2. \A u \in Threads : ~InRefresh(u)'
      BY <1>1, <2>1, <3>1, ResumeTyped DEF InRefresh
    <3>3. \A u \in Threads : pc'[u] # "publish" /\ pc[u] # "publish"
      BY <2>1, <2>2, <3>2 DEF InRefresh
    <3>4. WatcherInformed'
      BY <2>2, <2>5, <3>3 DEF PublishInv, WatcherInformed, Publishes
    <3>5. QED
      BY <2>2, <2>3, <3>2, <3>3, <3>4 DEF PublishInv
  <2>6. QED
    BY <2>4, <2>5
<1>5. CASE PublishRoute(t)
  <2>1. \A u \in Threads \ {t} : ~InRefresh(u)
    BY <1>5, OneInRefresh DEF PublishRoute, InRefresh
  <2>2. pc[t] = "publish" /\ out[t] \in RouteState /\ out[t].version = version
        /\ version' = version /\ watched' = watched
    BY <1>1, <1>5 DEF PublishRoute, LocalsTyped, PublishInv, routeVars, watchVars
  <2>3. \A u \in Threads : ~InRefresh(u)'
    BY <1>1, <1>5, <2>1, ResumeTyped DEF PublishRoute, InRefresh
  <2>4. \A i \in 1..Len(events) : events[i].version < version
    BY <2>2 DEF PublishInv
  <2>5. CASE listening /\ HasRoom
    <3>1. /\ events' = Append(events, out[t])
          /\ announced' = Maximum(announced, version)
      BY <1>5, <2>2, <2>5 DEF PublishRoute
    <3>2. announced' = version
      BY <1>1, <3>1 DEF Maximum, PublishInv
    <3>3. Len(events') = Len(events) + 1 /\ Len(events) \in Nat
      BY <1>1, <2>2, <3>1 DEF SendType
    <3>4. \A i \in 1..Len(events') :
             events'[i] = IF i <= Len(events) THEN events[i] ELSE out[t]
      BY <1>1, <2>2, <3>1, <3>3 DEF SendType
    <3>5. \A i \in 1..Len(events') : events'[i].version <= version'
      BY <1>1, <1>2, <2>2, <2>4, <3>3, <3>4
    <3>6. \A i, j \in 1..Len(events') : i < j => events'[i].version < events'[j].version
      BY <2>2, <2>4, <3>3, <3>4 DEF PublishInv
    <3>7. WatcherInformed'
      BY <2>2, <3>2 DEF WatcherInformed
    <3>8. QED
      BY <1>1, <2>2, <2>3, <3>2, <3>5, <3>6, <3>7 DEF PublishInv, InRefresh
  <2>6. CASE ~(listening /\ HasRoom)
    <3>1. dropped' = version /\ UNCHANGED <<events, announced>>
      BY <1>5, <2>2, <2>6 DEF PublishRoute
    <3>2. WatcherInformed'
      BY <2>2, <3>1 DEF WatcherInformed
    <3>3. QED
      BY <2>2, <2>3, <3>1, <3>2 DEF PublishInv, InRefresh
  <2>7. QED
    BY <2>5, <2>6
<1>6. QED
  BY <1>3, <1>4, <1>5 DEF Refreshing

LEMMA StepPublishInv == TypeInv /\ PublishInv /\ [Next]_vars => PublishInv'
<1> SUFFICES ASSUME TypeInv, PublishInv, [Next]_vars PROVE PublishInv'
  OBVIOUS
<1> USE RouteAssumption
<1>1. /\ CallType /\ SendType /\ WatchType /\ version \in Nat
      /\ \A i \in 1..Len(events) : events[i] \in RouteState
  BY DEF TypeInv, TypeOK, RouteType, SendType
<1>2. UNCHANGED <<pc, selectMu, out, version, events, announced, dropped, watched>> => PublishInv'
  BY DEF PublishInv, InRefresh, WatcherInformed
<1>3. CASE \/ \E g \in HealthGroups, p \in Proxies : HealthCheckMove(g, p)
           \/ BackgroundLoad \/ StopListener \/ SetEventListener
  BY <1>2, <1>3 DEF HealthCheckMove, BackgroundLoad, StopListener, SetEventListener,
     callVars, routeVars, sendVars, watchVars
<1>4. CASE \E t \in Threads : Refreshing(t)
  BY <1>4, RefreshPublishInv
<1>5. ASSUME NEW c \in Callers, Calling(c) \/ Continuing(c)
      PROVE  PublishInv'
  <2>1. /\ ~InRefresh(c) /\ ~InRefresh(c)'
        /\ \A u \in Threads \ {c} : pc'[u] = pc[u]
        /\ UNCHANGED <<out, version, events, dropped>>
        /\ selectMu' = selectMu \/ selectMu = None
        /\ ~watched' \/ (watched' = watched /\ announced' = announced)
                     \/ announced' = version
        /\ announced' \in {announced, version}
    BY <1>5, CallShape
  <2>2. \A u \in Threads : InRefresh(u) \/ InRefresh(u)' => pc'[u] = pc[u] /\ selectMu' = selectMu
    BY <2>1 DEF InRefresh, PublishInv, Threads
  <2>3. announced' <= version
    BY <1>1, <2>1 DEF PublishInv
  <2>4. (\A u \in Threads : pc'[u] # "publish") => \A u \in Threads : pc[u] # "publish"
    BY <2>1 DEF InRefresh
  <2>5. WatcherInformed'
    BY <2>1, <2>4 DEF WatcherInformed, PublishInv
  <2>6. QED
    BY <2>1, <2>2, <2>3, <2>5, PublishFrame
<1>6. ASSUME NEW p \in Pollers, PollTick(p)
      PROVE  PublishInv'
  <2>1. /\ ~InRefresh(p) /\ ~InRefresh(p)'
        /\ \A u \in Threads \ {p} : pc'[u] = pc[u]
        /\ UNCHANGED <<selectMu, out, version, events, announced, dropped, watched>>
    BY <1>1, <1>6 DEF PollTick, Begin, Enter, Goto, ThenRefresh, InRefresh, CallType,
       Threads, routeVars, sendVars, watchVars
  <2>2. \A u \in Threads : InRefresh(u) \/ InRefresh(u)' => pc'[u] = pc[u] /\ selectMu' = selectMu
    BY <2>1
  <2>3. WatcherInformed' /\ announced' <= version
    BY <2>1 DEF PublishInv, WatcherInformed, InRefresh
  <2>4. QED
    BY <2>1, <2>2, <2>3, PublishFrame
<1>7. ASSUME NEW p \in Pollers, PollExit(p)
      PROVE  PublishInv'
  BY <1>2, <1>7 DEF PollExit, callVars, routeVars, sendVars
<1>8. CASE \E p \in Probes : Probing(p)
  BY <1>2, <1>8 DEF Probing, StampProbe, DialProbe, StampCheck, ResolveCheck, LandAnswer,
     callVars, routeVars, sendVars, watchVars
<1>9. CASE DeliverEvent
  <2>1. /\ events # <<>> /\ events' = Tail(events)
        /\ UNCHANGED <<pc, selectMu, out, version, announced, dropped, watched>>
    BY <1>9 DEF DeliverEvent, callVars, routeVars, watchVars
  <2>2. /\ Len(events') = Len(events) - 1
        /\ \A i \in 1..Len(events') : events'[i] = events[i + 1]
    BY <1>1, <2>1 DEF SendType
  <2>3. \A i \in 1..Len(events') : i + 1 \in 1..Len(events)
    BY <1>1, <2>2 DEF SendType
  <2>4. \A i, j \in 1..Len(events') : i < j => events'[i].version < events'[j].version
    BY <2>2, <2>3 DEF PublishInv
  <2>5. QED
    BY <2>1, <2>2, <2>3, <2>4 DEF PublishInv, InRefresh, WatcherInformed
<1>10. CASE FinishDetach
  <2>1. /\ ~watched'
        /\ UNCHANGED <<pc, selectMu, out, version, events, announced, dropped>>
    BY <1>10 DEF FinishDetach, StopRouteWatch, callVars, routeVars, sendVars
  <2>2. QED
    BY <2>1 DEF PublishInv, InRefresh, WatcherInformed
<1>11. CASE UNCHANGED vars
  BY <1>2, <1>11 DEF vars, callVars, routeVars, sendVars, watchVars
<1>12. QED
  BY <1>3, <1>4, <1>5, <1>6, <1>7, <1>8, <1>9, <1>10, <1>11 DEF Next

-----------------------------------------------------------------------------
(* However many goroutines serve them and in whatever order they run, the  *)
(* watch in force is the newest intent that ran.                           *)
THEOREM NewestWatchHolds == Spec => []NewestWatchWins
<1>1. WatchInv => NewestWatchWins
  BY DEF WatchInv
<1>2. QED
  BY <1>1, InitTypeInv, StepTypeInv, InitWatchInv, StepWatchInv, PTL DEF Spec

(* A host that let go of its listener never comes back to a watch it left  *)
(* waiting, whatever the number of calls still in flight.                  *)
THEOREM DetachHolds == Spec => []DetachedNeverWatched
<1>1. WatchInv => DetachedNeverWatched
  BY DEF WatchInv, DetachedNeverWatched
<1>2. QED
  BY <1>1, InitTypeInv, StepTypeInv, InitWatchInv, StepWatchInv, PTL DEF Spec

(* Watched means exactly one live poller, the one stopPoll can cancel.     *)
THEOREM OnePoller == Spec => []PollerMatchesWatch
<1>1. WatchInv => PollerMatchesWatch
  BY DEF WatchInv
<1>2. QED
  BY <1>1, InitTypeInv, StepTypeInv, InitWatchInv, StepWatchInv, PTL DEF Spec

(* Route events are queued in the order of their versions, for any number  *)
(* of concurrent refreshes and any queue length.                           *)
THEOREM EventsInOrder == Spec => []PublishedInOrder
<1>1. PublishInv => PublishedInOrder
  BY DEF PublishInv, PublishedInOrder
<1>2. QED
  BY <1>1, InitTypeInv, StepTypeInv, InitPublishInv, StepPublishInv, PTL DEF Spec

(* A watching host was told of the version in force, or its event was      *)
(* dropped for want of a listener or of room.                              *)
THEOREM WatcherHears == Spec => []WatcherInformed
<1>1. PublishInv => WatcherInformed
  BY DEF PublishInv
<1>2. QED
  BY <1>1, InitTypeInv, StepTypeInv, InitPublishInv, StepPublishInv, PTL DEF Spec

-----------------------------------------------------------------------------
(* Why an answer with the stamp in force describes the route.              *)

(* A change that was announced and is not committed: the goroutine is      *)
(* about to refresh with it, or has it among the stages to come.           *)
PendingAt(t) ==
    \/ change[t] # Unchanged
    \/ \E i \in 1..Len(rest[t]) : rest[t][i].change # Unchanged

Pending == \E t \in Threads : PendingAt(t)

(* Only a refresh carries a change, so that none is lost on the way to it. *)
StageAt(t) ==
    /\ change[t] # Unchanged => pc[t] \in {"refresh", "commit"}
    /\ pc[t] = "idle" => rest[t] = <<>>
    /\ pc[t] = "patchSelect" => PendingAt(t)
    /\ \A i \in 1..Len(rest[t]) :
          rest[t][i].label # "refresh" => rest[t][i].change = Unchanged

StageInv == \A t \in Threads : StageAt(t)

(* Nothing loads before a config brings groups, and what was read is not   *)
(* ahead of what there is.                                                 *)
Bare(r) == r.picks = EmptyPicks => r.providers = 0 /\ r.ruleSets = 0
NotAhead(r) == r.providers <= world.providers /\ r.ruleSets <= world.ruleSets

ReadInv ==
    /\ Bare(world)
    /\ tracked.providers # None => NotAhead(tracked)
    /\ \A t \in Threads : pc[t] = "commit" => NotAhead(seen[t]) /\ Bare(seen[t])

(* An exit lies between what the tracker read last and what there is now;  *)
(* a pick that agrees with the tracker's reading agrees with the exit.     *)
Between(exit) ==
    /\ exit.config = world.config
    /\ exit.providers <= world.providers /\ exit.ruleSets <= world.ruleSets
    /\ tracked.providers # None =>
          tracked.providers <= exit.providers /\ tracked.ruleSets <= exit.ruleSets
    /\ exit.picks = EmptyPicks <=> world.picks = EmptyPicks
    /\ tracked.picks # EmptyPicks /\ world.picks # EmptyPicks =>
          \A g \in Groups :
              world.picks[g] = tracked.picks[g] => exit.picks[g] = world.picks[g]

AnswerAt(p) ==
    /\ answer[p].state # "none" =>
          answer[p].stamp \in RouteState /\ answer[p].stamp.version <= version
    /\ answer[p].state \in {"landing", "answered"} => answer[p].exit \in World
    /\ answer[p].state \in {"landing", "answered"} /\ answer[p].stamp = routeStamp
          => Pending \/ Between(answer[p].exit)

AnswerInv == \A p \in Probes : AnswerAt(p)

(* A step that leaves a goroutine's stages alone.                          *)
LEMMA SameStage ==
    ASSUME NEW t, pc'[t] = pc[t], change'[t] = change[t], rest'[t] = rest[t]
    PROVE  /\ StageAt(t) => StageAt(t)'
           /\ PendingAt(t) => PendingAt(t)'
  BY DEF StageAt, PendingAt

(* A goroutine that goes on with its handler takes the changes of the      *)
(* stages to come along.                                                   *)
LEMMA ResumeStage ==
    ASSUME CallType, NEW t \in Threads, StageAt(t), Resume(t)
    PROVE  /\ StageAt(t)' /\ (change[t] = Unchanged /\ PendingAt(t) => PendingAt(t)')
           /\ \A u \in Threads \ {t} : pc'[u] = pc[u] /\ change'[u] = change[u] /\ rest'[u] = rest[u]
<1>0. /\ rest[t] \in Seq(Stages)
      /\ DOMAIN pc = Threads /\ DOMAIN change = Threads /\ DOMAIN rest = Threads
  BY DEF CallType
<1>1. CASE rest[t] = <<>>
  <2>1. /\ pc' = [pc EXCEPT ![t] = "idle"] /\ change' = [change EXCEPT ![t] = Unchanged]
        /\ rest' = [rest EXCEPT ![t] = <<>>]
    BY <1>1 DEF Resume, Enter, Goto, Then
  <2>2. pc'[t] = "idle" /\ change'[t] = Unchanged /\ rest'[t] = <<>>
    BY <1>0, <2>1
  <2>3. change[t] = Unchanged => ~PendingAt(t)
    BY <1>1 DEF PendingAt
  <2>4. StageAt(t)'
    BY <2>2 DEF StageAt
  <2> QED BY <1>0, <2>1, <2>3, <2>4
<1>2. CASE rest[t] # <<>>
  <2>1. /\ pc' = [pc EXCEPT ![t] = Head(rest[t]).label]
        /\ change' = [change EXCEPT ![t] = Head(rest[t]).change]
        /\ rest' = [rest EXCEPT ![t] = Tail(rest[t])]
    BY <1>2 DEF Resume, Enter, Goto
  <2>2. /\ Head(rest[t]) = rest[t][1] /\ 1 \in 1..Len(rest[t])
        /\ Len(Tail(rest[t])) = Len(rest[t]) - 1 /\ Len(rest[t]) \in Nat
        /\ \A i \in 1..Len(Tail(rest[t])) : Tail(rest[t])[i] = rest[t][i + 1] /\ i + 1 \in 1..Len(rest[t])
    BY <1>0, <1>2
  <2>3. pc'[t] = rest[t][1].label /\ change'[t] = rest[t][1].change /\ rest'[t] = Tail(rest[t])
    BY <1>0, <2>1, <2>2
  <2>4. rest[t][1] \in Stages
    BY <1>0, <2>2
  <2>5. rest[t][1].label \in {"refresh", "listeners", "unlock", "setWatch"}
    BY <2>4 DEF Stages
  <2>6. \A i \in 1..Len(rest[t]) : rest[t][i].label # "refresh" => rest[t][i].change = Unchanged
    BY DEF StageAt
  <2>7. StageAt(t)'
    BY <2>2, <2>3, <2>5, <2>6 DEF StageAt
  <2>8. change[t] = Unchanged /\ PendingAt(t) => PendingAt(t)'
    <3> SUFFICES ASSUME NEW i \in 1..Len(rest[t]), rest[t][i].change # Unchanged PROVE PendingAt(t)'
      BY DEF PendingAt
    <3>1. CASE i = 1
      BY <2>3, <3>1 DEF PendingAt
    <3>2. CASE i # 1
      <4>1. i - 1 \in 1..Len(Tail(rest[t])) /\ Tail(rest[t])[i - 1] = rest[t][i]
        BY <2>2, <3>2
      <4> QED BY <2>3, <4>1 DEF PendingAt
    <3> QED BY <3>1, <3>2
  <2> QED BY <1>0, <2>1, <2>7, <2>8
<1> QED BY <1>1, <1>2

(* A goroutine that enters a stage with others to come.                    *)
LEMMA EnterStage ==
    ASSUME CallType, NEW t \in Threads, NEW stage, NEW later \in Seq(Stages), Enter(t, stage, later),
           stage.change # Unchanged => stage.label = "refresh",
           stage.label = "idle" => later = <<>>,
           stage.label = "patchSelect" => \E i \in 1..Len(later) : later[i].change # Unchanged,
           \A i \in 1..Len(later) : later[i].label # "refresh" => later[i].change = Unchanged
    PROVE  /\ StageAt(t)' /\ pc'[t] = stage.label
           /\ stage.change # Unchanged \/ (\E i \in 1..Len(later) : later[i].change # Unchanged) => PendingAt(t)'
           /\ \A u \in Threads \ {t} : pc'[u] = pc[u] /\ change'[u] = change[u] /\ rest'[u] = rest[u]
<1>0. DOMAIN pc = Threads /\ DOMAIN change = Threads /\ DOMAIN rest = Threads
  BY DEF CallType
<1>1. /\ pc' = [pc EXCEPT ![t] = stage.label] /\ change' = [change EXCEPT ![t] = stage.change]
      /\ rest' = [rest EXCEPT ![t] = later]
  BY DEF Enter, Goto
<1>2. pc'[t] = stage.label /\ change'[t] = stage.change /\ rest'[t] = later
  BY <1>0, <1>1
<1>3. stage.change # Unchanged \/ (\E i \in 1..Len(later) : later[i].change # Unchanged) => PendingAt(t)'
  BY <1>2 DEF PendingAt
<1>4. StageAt(t)'
  BY <1>2, <1>3 DEF StageAt
<1> QED BY <1>0, <1>1, <1>2, <1>3, <1>4

(* The ways a step changes the world: behind the tracker's back, or with a *)
(* change announced.                                                       *)
Unread ==
    /\ Applied
    /\ \/ world' = [world EXCEPT !.providers = @ + 1]
       \/ world' = [world EXCEPT !.ruleSets = @ + 1]
       \/ \E g \in Groups, p \in Proxies :
             ~Returns(g, p) /\ world' = [world EXCEPT !.picks[g] = p]

Told ==
    /\ Pending'
    /\ world'.providers = world.providers /\ world'.ruleSets = world.ruleSets
    /\ world'.picks \in AnyPicks \cup {world.picks}

(* With no groups there is one way to pick.                                *)
LEMMA OneEmptyPick ==
    ASSUME EmptyPicks \in AnyPicks, NEW f \in AnyPicks \cup {EmptyPicks}
    PROVE  f = EmptyPicks
<1>1. DOMAIN EmptyPicks = {} /\ Groups = {}
  BY DEF EmptyPicks, AnyPicks
<1> QED BY <1>1 DEF EmptyPicks, AnyPicks

(* A reading says which of the tracker's fields are set.                   *)
LEMMA TrackedRead ==
    ASSUME RouteType
    PROVE  /\ tracked.providers # None => tracked \in Reading /\ tracked.providers \in Nat
                                          /\ tracked.ruleSets \in Nat /\ tracked.ruleSets # None
           /\ tracked.providers = None => tracked.picks = EmptyPicks /\ tracked.ruleSets = None
           /\ tracked.picks \in AnyPicks \cup {EmptyPicks}
<1>1. CASE tracked \in Reading
  BY <1>1, RouteAssumption DEF Reading
<1>2. CASE tracked \in [picks: {EmptyPicks}, providers: {None}, ruleSets: {None}]
  BY <1>2
<1> QED BY <1>1, <1>2 DEF RouteType

(* The fields of the world.                                                *)
LEMMA WorldFields ==
    ASSUME NEW w \in World
    PROVE  /\ w.picks \in AnyPicks \cup {EmptyPicks} /\ w.providers \in Nat
           /\ w.ruleSets \in Nat /\ w.config \in Nat
           /\ \A v \in World : w.picks = v.picks /\ w.providers = v.providers
                               /\ w.ruleSets = v.ruleSets /\ w.config = v.config => w = v
  BY DEF World

(* What a move behind the tracker's back does.                             *)
LEMMA UnreadMoves ==
    ASSUME WorldType, RouteType, Unread
    PROVE  /\ world'.providers \in Nat /\ world'.ruleSets \in Nat
           /\ world.providers <= world'.providers /\ world.ruleSets <= world'.ruleSets
           /\ world'.config = world.config
           /\ world'.picks # EmptyPicks /\ world.picks # EmptyPicks
           /\ tracked.picks # EmptyPicks =>
                 \A g \in Groups : world'.picks[g] = tracked.picks[g] => world'.picks[g] = world.picks[g]
<1>1. world \in World /\ world.picks # EmptyPicks
  BY DEF WorldType, Unread, Applied
<1>2. /\ world.picks \in AnyPicks /\ world.providers \in Nat
      /\ world.ruleSets \in Nat /\ world.config \in Nat
  BY <1>1, WorldFields
<1>3. CASE world' = [world EXCEPT !.providers = @ + 1]
  BY <1>1, <1>2, <1>3 DEF World
<1>4. CASE world' = [world EXCEPT !.ruleSets = @ + 1]
  BY <1>1, <1>2, <1>4 DEF World
<1>5. ASSUME NEW g \in Groups, NEW p \in Proxies, ~Returns(g, p), world' = [world EXCEPT !.picks[g] = p]
      PROVE  /\ world'.providers \in Nat /\ world'.ruleSets \in Nat
             /\ world.providers <= world'.providers /\ world.ruleSets <= world'.ruleSets
             /\ world'.config = world.config
             /\ world'.picks # EmptyPicks /\ world.picks # EmptyPicks
             /\ tracked.picks # EmptyPicks =>
                   \A h \in Groups : world'.picks[h] = tracked.picks[h] => world'.picks[h] = world.picks[h]
  <2>1. /\ world'.providers = world.providers /\ world'.ruleSets = world.ruleSets
        /\ world'.config = world.config /\ world'.picks = [world.picks EXCEPT ![g] = p]
    BY <1>1, <1>5 DEF World
  <2>2. world'.picks \in AnyPicks
    BY <1>2, <1>5, <2>1 DEF AnyPicks
  <2>3. world'.picks # EmptyPicks
    <3>1. g \in DOMAIN world'.picks
      BY <2>2 DEF AnyPicks
    <3> QED BY <3>1 DEF EmptyPicks
  <2>4. ASSUME tracked.picks # EmptyPicks, NEW h \in Groups, world'.picks[h] = tracked.picks[h]
        PROVE  world'.picks[h] = world.picks[h]
    BY <1>2, <1>5, <2>1, <2>4 DEF AnyPicks, Returns
  <2> QED BY <1>1, <1>2, <2>1, <2>3, <2>4
<1> QED BY <1>3, <1>4, <1>5 DEF Unread

(* A step that leaves the tracker, the readings and the answers alone, and *)
(* loses no announced change.                                              *)
LEMMA WorldKeeps ==
    ASSUME TypeInv, TypeInv', ReadInv, AnswerInv, UNCHANGED <<tracked, epoch, version, seen, answer>>,
           \A t \in Threads : pc'[t] = "commit" => pc[t] = "commit",
           Pending => Pending', UNCHANGED world \/ Told \/ Unread
    PROVE  ReadInv' /\ AnswerInv'
<1>0. /\ WorldType /\ RouteType /\ world \in World /\ world' \in World
      /\ \A t \in Threads : pc[t] = "commit" => seen[t] \in Reading
  BY DEF TypeInv, TypeOK, WorldType, LocalsTyped
<1>1. /\ world.picks \in AnyPicks \cup {EmptyPicks} /\ world.providers \in Nat /\ world.ruleSets \in Nat
      /\ world'.picks \in AnyPicks \cup {EmptyPicks} /\ world'.providers \in Nat /\ world'.ruleSets \in Nat
  BY <1>0, WorldFields
<1>2. world.providers <= world'.providers /\ world.ruleSets <= world'.ruleSets
  BY <1>0, <1>1, UnreadMoves DEF Told
<1>3. Bare(world)'
  <2>1. CASE UNCHANGED world
    BY <2>1 DEF ReadInv, Bare
  <2>2. CASE Told
    BY <1>1, <2>2, OneEmptyPick DEF ReadInv, Bare, Told
  <2>3. CASE Unread
    BY <1>0, <2>3, UnreadMoves DEF Bare
  <2> QED BY <2>1, <2>2, <2>3
<1>4. (tracked.providers # None => NotAhead(tracked))'
  <2>1. tracked.providers # None => NotAhead(tracked) /\ tracked.providers \in Nat /\ tracked.ruleSets \in Nat
    BY <1>0, TrackedRead DEF ReadInv
  <2> QED BY <1>1, <1>2, <2>1 DEF NotAhead
<1>5. ASSUME NEW t \in Threads, pc'[t] = "commit" PROVE NotAhead(seen[t])' /\ Bare(seen[t])'
  <2>1. NotAhead(seen[t]) /\ Bare(seen[t]) /\ seen[t] \in Reading
    BY <1>0, <1>5 DEF ReadInv
  <2>2. seen[t].providers \in Nat /\ seen[t].ruleSets \in Nat
    BY <2>1 DEF Reading
  <2> QED BY <1>1, <1>2, <2>1, <2>2 DEF NotAhead, Bare
<1>6. ASSUME NEW p \in Probes PROVE AnswerAt(p)'
  <2>1. AnswerAt(p)
    BY DEF AnswerInv
  <2>2. ASSUME NEW exit \in World, Between(exit) PROVE Pending' \/ Between(exit)'
    <3>1. CASE UNCHANGED world
      BY <2>2, <3>1 DEF Between
    <3>2. CASE Told
      BY <3>2 DEF Told
    <3>3. CASE Unread
      <4>1. /\ world'.config = world.config /\ world'.picks # EmptyPicks /\ world.picks # EmptyPicks
            /\ tracked.picks # EmptyPicks =>
                  \A g \in Groups : world'.picks[g] = tracked.picks[g] => world'.picks[g] = world.picks[g]
        BY <1>0, <3>3, UnreadMoves
      <4>2. exit.providers \in Nat /\ exit.ruleSets \in Nat
        BY WorldFields
      <4>3. exit.providers <= world'.providers /\ exit.ruleSets <= world'.ruleSets
        BY <1>1, <1>2, <2>2, <4>2 DEF Between
      <4>4. exit.picks # EmptyPicks /\ exit.config = world'.config
        BY <2>2, <4>1 DEF Between
      <4>5. ASSUME tracked.picks # EmptyPicks, NEW g \in Groups, world'.picks[g] = tracked.picks[g]
            PROVE  exit.picks[g] = world'.picks[g]
        BY <2>2, <4>1, <4>5 DEF Between
      <4>6. tracked.providers # None => tracked.providers <= exit.providers /\ tracked.ruleSets <= exit.ruleSets
        BY <2>2 DEF Between
      <4> QED BY <4>1, <4>3, <4>4, <4>5, <4>6 DEF Between
    <3> QED BY <3>1, <3>2, <3>3
  <2>3. UNCHANGED routeStamp
    BY DEF routeStamp
  <2> QED BY <2>1, <2>2, <2>3 DEF AnswerAt
<1> QED BY <1>3, <1>4, <1>5, <1>6 DEF ReadInv, AnswerInv

(* A handler's stages leave its goroutine in order.                        *)
StagesKept(c) ==
    /\ StageAt(c)' /\ (PendingAt(c) => PendingAt(c)') /\ pc'[c] # "commit"
    /\ \A u \in Threads \ {c} : pc'[u] = pc[u] /\ change'[u] = change[u] /\ rest'[u] = rest[u]

(* A call that begins.                                                     *)
LEMMA BeginKeeps ==
    ASSUME CallType, NEW t \in Threads, StageAt(t), NEW stage, NEW later \in Seq(Stages),
           Begin(t, stage, later), stage.label \notin {"idle", "commit"},
           stage.change # Unchanged => stage.label = "refresh",
           stage.label = "patchSelect" => \E i \in 1..Len(later) : later[i].change # Unchanged,
           \A i \in 1..Len(later) : later[i].label # "refresh" => later[i].change = Unchanged
    PROVE  /\ StagesKept(t)
           /\ stage.change # Unchanged \/ (\E i \in 1..Len(later) : later[i].change # Unchanged) => PendingAt(t)'
<1>1. Enter(t, stage, later) /\ pc[t] = "idle"
  BY DEF Begin
<1>2. ~PendingAt(t)
  BY <1>1 DEF StageAt, PendingAt
<1> QED BY <1>1, <1>2, EnterStage DEF StagesKept

(* The same for a handler with one refresh, whose later stages carry no    *)
(* change.                                                                 *)
LEMMA BeginPlain ==
    ASSUME CallType, NEW t \in Threads, StageAt(t), NEW stage, NEW later \in Seq(Stages),
           Begin(t, stage, later), stage.label \in {"refresh", "listeners", "shutdown"},
           stage.change # Unchanged => stage.label = "refresh",
           later = <<>> \/ (Len(later) = 1 /\ later[1].change = Unchanged)
    PROVE  StagesKept(t) /\ (stage.change # Unchanged => PendingAt(t)')
<1>1. \A i \in 1..Len(later) : later[i].label # "refresh" => later[i].change = Unchanged
  OBVIOUS
<1> QED BY <1>1, BeginKeeps

(* A handler that goes on keeps its stages.                                *)
LEMMA ResumeKeeps ==
    ASSUME CallType, NEW t \in Threads, StageAt(t), Resume(t), pc[t] \notin {"refresh", "commit"}
    PROVE  StagesKept(t)
<1>1. change[t] = Unchanged
  BY DEF StageAt
<1> QED BY <1>1, ResumeStage, ResumeTyped DEF StagesKept

(* The stages of the handlers.                                             *)
LEMMA Handlers ==
    /\ \A kind \in {Unchanged, Moved, Reset} :
          /\ <<ThenRefresh(kind), Then("unlock")>> \in Seq(Stages)
          /\ Len(<<ThenRefresh(kind), Then("unlock")>>) = 2
          /\ <<ThenRefresh(kind), Then("unlock")>>[1].change = kind
          /\ <<ThenRefresh(kind), Then("unlock")>>[2].change = Unchanged
          /\ <<ThenRefresh(kind), Then("unlock")>>[1].label = "refresh"
    /\ <<Then("unlock")>> \in Seq(Stages) /\ <<Then("setWatch")>> \in Seq(Stages)
    /\ <<ThenRefresh(Reset), Then("listeners"), Then("unlock")>> \in Seq(Stages)
    /\ \A l \in {"unlock", "setWatch"} : Len(<<Then(l)>>) = 1 /\ <<Then(l)>>[1].change = Unchanged
  BY StagesTyped DEF Labels, Then

(* What a call changes of the world it announces, unless it is a pick or a *)
(* provider, which the refresh reads.                                      *)
LEMMA CallingStages ==
    ASSUME FlipBack = FALSE, TypeInv, StageInv, NEW c \in Callers, Calling(c)
    PROVE  /\ StagesKept(c) /\ UNCHANGED <<tracked, epoch, version, seen, answer>>
           /\ UNCHANGED world \/ Told \/ Unread
<1>0. /\ c \in Threads /\ CallType /\ StageAt(c) /\ WorldType /\ world \in World
      /\ world.picks \in AnyPicks \cup {EmptyPicks}
  BY WorldFields DEF Threads, TypeInv, TypeOK, StageInv, WorldType
<1>a. /\ ThenRefresh(Unchanged).label = "refresh" /\ ThenRefresh(Unchanged).change = Unchanged
      /\ <<>> \in Seq(Stages) /\ Len(<<>>) = 0
      /\ \A kind \in {Moved, Reset} : ThenRefresh(kind).label = "refresh" /\ ThenRefresh(kind).change = kind
      /\ \A l \in {"patchSelect", "listeners", "shutdown", "unlock", "setWatch"} : Then(l).label = l /\ Then(l).change = Unchanged
  BY StagesTyped DEF Labels
<1>b. Moved # Unchanged /\ Reset # Unchanged
  BY DEF Moved, Reset, Unchanged
<1>1. CASE \E g \in Groups, p \in Proxies : ChangeProxy(c, g, p)
  <2>1. PICK g \in Groups, p \in Proxies : ChangeProxy(c, g, p)
    BY <1>1
  <2>2. Begin(c, ThenRefresh(Unchanged), <<>>) /\ UNCHANGED <<tracked, epoch, version, seen, answer>>
    BY <2>1 DEF ChangeProxy, routeVars
  <2>3. Unread
    BY <2>1 DEF ChangeProxy, Move, Unread
  <2>4. StagesKept(c)
    BY <1>0, <1>a, <2>2, BeginPlain
  <2> QED BY <2>2, <2>3, <2>4
<1>2. CASE UpdateProvider(c)
  <2>2. Begin(c, ThenRefresh(Unchanged), <<>>) /\ UNCHANGED <<tracked, epoch, version, seen, answer>>
    BY <1>2 DEF UpdateProvider, routeVars
  <2>3. Unread
    BY <1>2 DEF UpdateProvider, Move, Unread
  <2>4. StagesKept(c)
    BY <1>0, <1>a, <2>2, BeginPlain
  <2> QED BY <2>2, <2>3, <2>4
<1>3. CASE \E kind \in {Moved, Reset} : OutsideChange(c, kind)
  <2>1. PICK kind \in {Moved, Reset} : OutsideChange(c, kind)
    BY <1>3
  <2>2. /\ Begin(c, ThenRefresh(kind), <<>>) /\ UNCHANGED <<tracked, epoch, version, seen, answer>>
        /\ world' = [world EXCEPT !.config = @ + 1]
    BY <2>1 DEF OutsideChange, routeVars, Move
  <2>3. StagesKept(c) /\ PendingAt(c)'
    BY <1>0, <1>a, <1>b, <2>2, BeginPlain
  <2>4. Pending'
    BY <1>0, <2>3 DEF Pending
  <2>5. world'.providers = world.providers /\ world'.ruleSets = world.ruleSets /\ world'.picks = world.picks
    BY <1>0, <2>2 DEF World
  <2> QED BY <2>2, <2>3, <2>4, <2>5 DEF Told
<1>4. CASE \E kind \in {Unchanged, Moved, Reset} : UpdateConfig(c, kind)
  <2>1. PICK kind \in {Unchanged, Moved, Reset} : UpdateConfig(c, kind)
    BY <1>4
  <2>2. UNCHANGED <<tracked, epoch, version, seen, answer>>
    BY <2>1 DEF UpdateConfig, routeVars
  <2>3. CASE kind = Unchanged
    <3>1. Begin(c, Then("listeners"), <<Then("unlock")>>) /\ UNCHANGED world
      BY <2>1, <2>3 DEF UpdateConfig, worldVars
    <3>2. StagesKept(c)
      BY <1>0, <1>a, <3>1, Handlers, BeginPlain
    <3> QED BY <2>2, <3>1, <3>2
  <2>4. CASE kind # Unchanged
    <3>1. /\ Begin(c, Then("listeners"), <<ThenRefresh(kind), Then("unlock")>>)
          /\ world' = [world EXCEPT !.config = @ + 1]
      BY <2>1, <2>4 DEF UpdateConfig, Move
    <3>2. PICK later : later = <<ThenRefresh(kind), Then("unlock")>>
      OBVIOUS
    <3>3. /\ later \in Seq(Stages) /\ Len(later) = 2 /\ later[1].change = kind
          /\ later[2].change = Unchanged /\ later[1].label = "refresh"
      BY <3>2, Handlers
    <3>4. /\ \A i \in 1..Len(later) : later[i].label # "refresh" => later[i].change = Unchanged
          /\ \E i \in 1..Len(later) : later[i].change # Unchanged
      BY <2>4, <3>3
    <3>5. Begin(c, Then("listeners"), later)
      BY <3>1, <3>2
    <3>6. StagesKept(c) /\ PendingAt(c)'
      BY <1>0, <1>a, <3>3, <3>4, <3>5, BeginKeeps
    <3>7. Pending'
      BY <1>0, <3>6 DEF Pending
    <3>8. world'.providers = world.providers /\ world'.ruleSets = world.ruleSets /\ world'.picks = world.picks
      BY <1>0, <3>1 DEF World
    <3> QED BY <2>2, <3>6, <3>7, <3>8 DEF Told
  <2> QED BY <2>3, <2>4
<1>5. CASE \E picks \in AnyPicks : ApplyConfig(c, picks)
  <2>1. PICK picks \in AnyPicks : ApplyConfig(c, picks)
    BY <1>5
  <2>2. PICK later : later = <<ThenRefresh(Reset), Then("listeners"), Then("unlock")>>
    OBVIOUS
  <2>3. /\ Begin(c, Then("patchSelect"), later) /\ UNCHANGED <<tracked, epoch, version, seen, answer>>
        /\ world' = [world EXCEPT !.config = @ + 1, !.picks = picks]
    BY <2>1, <2>2 DEF ApplyConfig, routeVars, Move
  <2>4. /\ later \in Seq(Stages) /\ Len(later) = 3 /\ later[1].change = Reset
        /\ later[1].label = "refresh" /\ later[2].change = Unchanged /\ later[3].change = Unchanged
    BY <1>a, <2>2, Handlers
  <2>5. /\ \A i \in 1..Len(later) : later[i].label # "refresh" => later[i].change = Unchanged
        /\ \E i \in 1..Len(later) : later[i].change # Unchanged
    BY <1>b, <2>4
  <2>6. StagesKept(c) /\ PendingAt(c)'
    BY <1>0, <1>a, <2>3, <2>4, <2>5, BeginKeeps
  <2>7. Pending'
    BY <1>0, <2>6 DEF Pending
  <2>8. world'.providers = world.providers /\ world'.ruleSets = world.ruleSets /\ world'.picks = picks
    BY <1>0, <2>3 DEF World
  <2> QED BY <2>3, <2>6, <2>7, <2>8 DEF Told
<1>6. CASE StartListener(c)
  <2>2. PICK later : later = <<ThenRefresh(Reset), Then("unlock")>>
    OBVIOUS
  <2>3. /\ Begin(c, Then("listeners"), later) /\ UNCHANGED <<tracked, epoch, version, seen, answer>>
        /\ world' = [world EXCEPT !.config = @ + 1]
    BY <1>6, <2>2 DEF StartListener, routeVars, Move
  <2>4. /\ later \in Seq(Stages) /\ Len(later) = 2 /\ later[1].change = Reset
        /\ later[1].label = "refresh" /\ later[2].change = Unchanged
    BY <2>2, Handlers
  <2>5. /\ \A i \in 1..Len(later) : later[i].label # "refresh" => later[i].change = Unchanged
        /\ \E i \in 1..Len(later) : later[i].change # Unchanged
    BY <1>b, <2>4
  <2>6. StagesKept(c) /\ PendingAt(c)'
    BY <1>0, <1>a, <2>3, <2>4, <2>5, BeginKeeps
  <2>7. Pending'
    BY <1>0, <2>6 DEF Pending
  <2>8. world'.providers = world.providers /\ world'.ruleSets = world.ruleSets /\ world'.picks = world.picks
    BY <1>0, <2>3 DEF World
  <2> QED BY <2>3, <2>6, <2>7, <2>8 DEF Told
<1>7. CASE \E on \in BOOLEAN : DispatchWatch(c, on)
  <2>1. /\ Begin(c, ThenRefresh(Unchanged), <<Then("setWatch")>>)
        /\ UNCHANGED <<world, tracked, epoch, version, seen, answer>>
    BY <1>7 DEF DispatchWatch, routeVars, worldVars
  <2>2. StagesKept(c)
    BY <1>0, <1>a, <2>1, Handlers, BeginPlain
  <2> QED BY <2>1, <2>2
<1>8. CASE Shutdown(c)
  <2>1. /\ Begin(c, Then("shutdown"), <<>>)
        /\ UNCHANGED <<world, tracked, epoch, version, seen, answer>>
    BY <1>8 DEF Shutdown, routeVars, worldVars
  <2>2. StagesKept(c)
    BY <1>0, <1>a, <2>1, BeginPlain
  <2> QED BY <2>1, <2>2
<1> QED BY <1>1, <1>2, <1>3, <1>4, <1>5, <1>6, <1>7, <1>8 DEF Calling

(* A handler that goes on loses no change it announced: the picks of a new *)
(* config are patched and the TUN toggles while its reset is to come.      *)
LEMMA ContinuingStages ==
    ASSUME TypeInv, StageInv, NEW c \in Callers, Continuing(c)
    PROVE  /\ StagesKept(c) /\ UNCHANGED <<tracked, epoch, version, seen, answer>>
           /\ UNCHANGED world \/ Told
<1>0. /\ c \in Threads /\ CallType /\ StageAt(c) /\ world \in World /\ rest[c] \in Seq(Stages)
  BY DEF Threads, TypeInv, TypeOK, StageInv, WorldType, CallType
<1>1. CASE \E picks \in AnyPicks : PatchSelectGroup(c, picks)
  <2>1. PICK picks \in AnyPicks : PatchSelectGroup(c, picks)
    BY <1>1
  <2>2. /\ pc[c] = "patchSelect" /\ Resume(c) /\ world' = [world EXCEPT !.picks = picks]
        /\ UNCHANGED <<tracked, epoch, version, seen, answer>>
    BY <2>1 DEF PatchSelectGroup, routeVars
  <2>3. StagesKept(c) /\ PendingAt(c)
    BY <1>0, <2>2, ResumeKeeps DEF StageAt
  <2>4. Pending'
    BY <1>0, <2>3 DEF Pending, StagesKept
  <2>5. world'.providers = world.providers /\ world'.ruleSets = world.ruleSets /\ world'.picks = picks
    BY <1>0, <2>2 DEF World
  <2> QED BY <2>2, <2>3, <2>4, <2>5 DEF Told
<1>2. CASE UpdateListeners(c)
  <2>1. pc[c] = "listeners" /\ UNCHANGED <<tracked, epoch, version, seen, answer>>
    BY <1>2 DEF UpdateListeners, routeVars
  <2>2. CASE Resume(c) /\ UNCHANGED worldVars
    BY <1>0, <2>1, <2>2, ResumeKeeps DEF worldVars
  <2>3. CASE Enter(c, ThenRefresh(Reset), rest[c]) /\ world' = [world EXCEPT !.config = @ + 1]
    <3>1. ThenRefresh(Reset).label = "refresh" /\ ThenRefresh(Reset).change = Reset /\ Reset # Unchanged
      BY StagesTyped DEF Reset, Unchanged
    <3>2. \A i \in 1..Len(rest[c]) : rest[c][i].label # "refresh" => rest[c][i].change = Unchanged
      BY <1>0 DEF StageAt
    <3>3. StagesKept(c) /\ PendingAt(c)'
      BY <1>0, <2>3, <3>1, <3>2, EnterStage DEF StagesKept
    <3>4. Pending'
      BY <1>0, <3>3 DEF Pending
    <3>5. world'.providers = world.providers /\ world'.ruleSets = world.ruleSets /\ world'.picks = world.picks
      BY <1>0, <2>3 DEF World
    <3> QED BY <2>1, <3>3, <3>4, <3>5 DEF Told
  <2> QED BY <1>2, <2>2, <2>3 DEF UpdateListeners, Move
<1>3. CASE UnlockConfig(c) \/ HandleWatchRoute(c) \/ ShutdownConfig(c)
  <2>1. /\ pc[c] \notin {"refresh", "commit"} /\ Resume(c)
        /\ UNCHANGED <<world, tracked, epoch, version, seen, answer>>
    BY <1>3 DEF UnlockConfig, HandleWatchRoute, ShutdownConfig, routeVars, worldVars
  <2> QED BY <1>0, <2>1, ResumeKeeps
<1> QED BY <1>1, <1>2, <1>3 DEF Continuing

(* What one goroutine does to its stages is all that happens to Pending.   *)
LEMMA StagesFrame ==
    ASSUME StageInv, NEW t \in Threads, StageAt(t)', PendingAt(t) => PendingAt(t)',
           \A u \in Threads \ {t} : pc'[u] = pc[u] /\ change'[u] = change[u] /\ rest'[u] = rest[u]
    PROVE  StageInv' /\ (Pending => Pending')
<1>1. ASSUME NEW u \in Threads \ {t} PROVE StageAt(u)' /\ (PendingAt(u) => PendingAt(u)')
  BY SameStage DEF StageInv
<1> QED BY <1>1 DEF StageInv, Pending

(* A reading is never ahead of the world.                                  *)
LEMMA ReadKeeps ==
    ASSUME TypeInv, StageInv, ReadInv, AnswerInv, NEW t \in Threads, ReadRoute(t)
    PROVE  StageInv' /\ ReadInv' /\ AnswerInv'
<1>0. CallType /\ world \in World
  BY DEF TypeInv, TypeOK, WorldType
<1>1. /\ pc[t] = "refresh" /\ UNCHANGED <<world, tracked, epoch, version, change, rest, answer>>
      /\ pc' = [pc EXCEPT ![t] = "commit"] /\ seen' = [seen EXCEPT ![t] = Observed]
  BY DEF ReadRoute, Goto, worldVars, routeVars
<1>2. /\ pc'[t] = "commit" /\ seen'[t] = Observed
      /\ \A u \in Threads \ {t} : pc'[u] = pc[u] /\ seen'[u] = seen[u]
  BY <1>0, <1>1 DEF CallType
<1>3. PendingAt(t)' <=> PendingAt(t)
  BY <1>1 DEF PendingAt
<1>4. StageAt(t)'
  BY <1>1, <1>2, <1>3 DEF StageInv, StageAt
<1>5. StageInv' /\ (Pending => Pending')
  BY <1>1, <1>2, <1>3, <1>4, StagesFrame
<1>6. NotAhead(Observed) /\ (Bare(world) => Bare(Observed))
  BY <1>0, WorldFields DEF NotAhead, Observed, Bare
<1>7. Bare(world)
  BY DEF ReadInv
<1>8. NotAhead(seen'[t]) /\ Bare(seen'[t])
  BY <1>2, <1>6, <1>7
<1>9. ReadInv'
  BY <1>1, <1>2, <1>8 DEF ReadInv, NotAhead, Bare
<1>10. AnswerInv'
  BY <1>1, <1>5 DEF AnswerInv, AnswerAt, Between, routeStamp
<1> QED BY <1>5, <1>9, <1>10

(* A commit that finds nothing leaves what the tracker holds as it was, or *)
(* fills it for the first time with what an empty core has.                *)
LEMMA QuietCommit ==
    ASSUME RouteType, NEW reading \in Reading, NEW told \in {Unchanged, Moved, Reset},
           Bare(reading), DetectedChange(reading, told) = Unchanged
    PROVE  /\ told = Unchanged /\ reading.picks = tracked.picks
           /\ tracked.providers # None => reading.providers = tracked.providers
                                          /\ reading.ruleSets = tracked.ruleSets
           /\ tracked.providers = None => reading.providers = 0 /\ reading.ruleSets = 0
<1>1. Maximum(told, Moved) # Unchanged
  BY DEF Maximum, Unchanged, Moved, Reset
<1>2. /\ ~(tracked.providers # None /\ reading.providers # tracked.providers)
      /\ ~(tracked.ruleSets # None /\ reading.ruleSets # tracked.ruleSets)
      /\ reading.picks = tracked.picks /\ told = Unchanged
  BY <1>1 DEF DetectedChange
<1> QED BY <1>2, TrackedRead DEF Bare

(* A commit that finds something leaves no answer with the stamp in force. *)
LEMMA CommitKeeps ==
    ASSUME TypeInv, TypeInv', StageInv, ReadInv, AnswerInv, NEW t \in Threads, CommitRoute(t)
    PROVE  StageInv' /\ ReadInv' /\ AnswerInv'
<1> USE RouteAssumption
<1> DEFINE found == DetectedChange(seen[t], change[t])
<1>0. /\ CallType /\ RouteType /\ version \in Nat /\ epoch \in Nat /\ world \in World /\ AnswerType
      /\ change[t] \in {Unchanged, Moved, Reset} /\ rest[t] \in Seq(Stages)
  BY DEF TypeInv, TypeOK, WorldType, RouteType, CallType
<1>1. /\ pc[t] = "commit" /\ tracked' = seen[t] /\ UNCHANGED <<world, answer>>
      /\ seen' = [seen EXCEPT ![t] = None]
      /\ epoch' = IF found = Reset THEN epoch + 1 ELSE epoch
      /\ version' = IF found = Unchanged THEN version ELSE version + 1
  BY DEF CommitRoute, worldVars
<1>2. seen[t] \in Reading /\ NotAhead(seen[t]) /\ Bare(seen[t]) /\ StageAt(t)
  BY <1>1 DEF TypeInv, LocalsTyped, ReadInv, StageInv
<1>3. \A u \in Threads \ {t} : seen'[u] = seen[u]
  BY <1>0, <1>1 DEF CallType
<1>4. /\ StageAt(t)' /\ pc'[t] # "commit" /\ (found = Unchanged /\ PendingAt(t) => PendingAt(t)')
      /\ \A u \in Threads \ {t} : pc'[u] = pc[u] /\ change'[u] = change[u] /\ rest'[u] = rest[u]
  <2>1. CASE Publishes(found)
    <3>1. Enter(t, Then("publish"), rest[t]) /\ found # Unchanged
      BY <2>1 DEF CommitRoute, Publishes
    <3>2. Then("publish").label = "publish" /\ Then("publish").change = Unchanged
      BY DEF Then
    <3>3. \A i \in 1..Len(rest[t]) : rest[t][i].label # "refresh" => rest[t][i].change = Unchanged
      BY <1>2 DEF StageAt
    <3> QED BY <1>0, <3>1, <3>2, <3>3, EnterStage
  <2>2. CASE ~Publishes(found)
    <3>1. Resume(t)
      BY <2>2 DEF CommitRoute
    <3>2. found = Unchanged => change[t] = Unchanged
      BY <1>0, <1>2, QuietCommit
    <3>3. pc'[t] # "commit"
      BY <1>0, <3>1, ResumeTyped
    <3> QED BY <1>0, <1>2, <3>1, <3>2, <3>3, ResumeStage
  <2> QED BY <2>1, <2>2
<1>5. StageInv'
  <2>1. ASSUME NEW u \in Threads \ {t} PROVE StageAt(u)'
    BY <1>4, SameStage DEF StageInv
  <2> QED BY <1>4, <2>1 DEF StageInv
<1>6. ReadInv'
  <2>1. NotAhead(tracked)'
    BY <1>1, <1>2 DEF NotAhead
  <2>2. ASSUME NEW u \in Threads, pc'[u] = "commit" PROVE NotAhead(seen[u])' /\ Bare(seen[u])'
    BY <1>1, <1>3, <1>4, <2>2 DEF ReadInv, NotAhead, Bare
  <2>3. Bare(world)'
    BY <1>1 DEF ReadInv, Bare
  <2> QED BY <2>1, <2>2, <2>3 DEF ReadInv
<1>7. ASSUME NEW p \in Probes PROVE AnswerAt(p)'
  <2>0. AnswerAt(p)
    BY DEF AnswerInv
  <2>1. CASE found = Unchanged
    <3>1. version' = version /\ epoch' = epoch
      BY <1>1, <2>1 DEF Reset, Unchanged
    <3>2. routeStamp' = routeStamp
      BY <3>1 DEF routeStamp
    <3>3. Pending => Pending'
      BY <1>4, <2>1, StagesFrame
    <3>4. /\ seen[t].picks = tracked.picks
          /\ tracked.providers # None => seen[t].providers = tracked.providers
                                         /\ seen[t].ruleSets = tracked.ruleSets
          /\ tracked.providers = None => seen[t].providers = 0 /\ seen[t].ruleSets = 0
      BY <1>0, <1>2, <2>1, QuietCommit
    <3>5. ASSUME NEW exit \in World, Between(exit) PROVE Between(exit)'
      <4>1. exit.providers \in Nat /\ exit.ruleSets \in Nat
        BY WorldFields
      <4>2. seen[t].providers <= exit.providers /\ seen[t].ruleSets <= exit.ruleSets
        BY <3>4, <3>5, <4>1 DEF Between
      <4> QED BY <1>1, <3>4, <3>5, <4>2 DEF Between
    <3> QED BY <1>1, <2>0, <3>1, <3>2, <3>3, <3>5 DEF AnswerAt
  <2>2. CASE found # Unchanged
    <3>1. version' = version + 1
      BY <1>1, <2>2
    <3>2. answer[p].state # "none" => answer[p].stamp.version \in Nat /\ answer[p].stamp.version <= version
      BY <2>0 DEF AnswerAt, RouteState
    <3>3. answer[p].state # "none" => answer[p].stamp # routeStamp' /\ answer[p].stamp.version <= version'
      <4>1. routeStamp'.version = version + 1
        BY <3>1 DEF routeStamp
      <4> QED BY <1>0, <3>1, <3>2, <4>1
    <3> QED BY <1>1, <2>0, <3>3 DEF AnswerAt
  <2> QED BY <2>1, <2>2
<1> QED BY <1>5, <1>6, <1>7 DEF AnswerInv

(* The event of a commit changes nothing an answer rests on.               *)
LEMMA PublishKeeps ==
    ASSUME TypeInv, TypeInv', StageInv, ReadInv, AnswerInv, NEW t \in Threads, PublishRoute(t)
    PROVE  StageInv' /\ ReadInv' /\ AnswerInv'
<1>0. CallType /\ StageAt(t)
  BY DEF TypeInv, TypeOK, StageInv
<1>1. /\ pc[t] = "publish" /\ Resume(t)
      /\ UNCHANGED <<world, tracked, epoch, version, seen, answer>>
  BY DEF PublishRoute, worldVars, routeVars
<1>2. StagesKept(t)
  BY <1>0, <1>1, ResumeKeeps
<1>3. StageInv' /\ (Pending => Pending') /\ \A u \in Threads : pc'[u] = "commit" => pc[u] = "commit"
  BY <1>2, StagesFrame DEF StagesKept
<1> QED BY <1>1, <1>3, WorldKeeps

(* An exit that is the world lies between the reading and the world.       *)
LEMMA WorldIsBetween ==
    ASSUME WorldType, RouteType, ReadInv
    PROVE  Between(world)
<1>1. world.providers \in Nat /\ world.ruleSets \in Nat
  BY WorldFields DEF WorldType
<1> QED BY <1>1 DEF ReadInv, NotAhead, Between

(* A stamp is read before the dial, and before the routes of a check       *)
(* resolve, so that the exit is at least as new as the stamp.              *)
LEMMA ProbingKeeps ==
    ASSUME TypeInv, StageInv, ReadInv, AnswerInv, NEW p \in Probes, Probing(p)
    PROVE  StageInv' /\ ReadInv' /\ AnswerInv'
<1>0. /\ WorldType /\ RouteType /\ world \in World /\ DOMAIN answer = Probes /\ AnswerAt(p)
      /\ version \in Nat /\ epoch \in Nat
  BY DEF TypeInv, TypeOK, WorldType, RouteType, AnswerType, AnswerInv
<1>1. UNCHANGED <<world, tracked, epoch, version, seen, pc, change, rest>>
  BY DEF Probing, StampProbe, DialProbe, StampCheck, ResolveCheck, LandAnswer, worldVars, routeVars, callVars
<1>2. StageInv' /\ (Pending' <=> Pending) /\ ReadInv'
  BY <1>1 DEF StageInv, StageAt, Pending, PendingAt, ReadInv, NotAhead, Bare
<1>3. routeStamp' = routeStamp /\ routeStamp \in RouteState /\ routeStamp.version <= version
  BY <1>0, <1>1 DEF routeStamp, RouteState
<1>4. \A q \in Probes \ {p} : answer'[q] = answer[q]
  BY <1>0 DEF Probing, StampProbe, DialProbe, StampCheck, ResolveCheck, LandAnswer
<1>5. ASSUME NEW q \in Probes, answer'[q] = answer[q] PROVE AnswerAt(q)'
  BY <1>1, <1>2, <1>3, <1>5 DEF AnswerInv, AnswerAt, Between
<1>6. \A exit : Between(exit)' <=> Between(exit)
  BY <1>1 DEF Between
<1>7. AnswerAt(p)'
  <2>0. answer[p] \in [state: {"none", "stamped", "landing", "answered", "checking"},
                       stamp: RouteState \cup {None}, exit: World \cup {None}]
    BY DEF TypeInv, TypeOK, AnswerType
  <2>1. CASE StampProbe(p)
    <3>1. answer'[p].state = "stamped" /\ answer'[p].stamp = routeStamp
      BY <1>0, <2>1 DEF StampProbe
    <3> QED BY <1>1, <1>3, <3>1 DEF AnswerAt
  <2>2. CASE DialProbe(p)
    <3>1. /\ answer[p].state = "stamped" /\ answer'[p].state = "landing"
          /\ answer'[p].stamp = answer[p].stamp /\ answer'[p].exit = world
      BY <1>0, <2>0, <2>2 DEF DialProbe
    <3>2. Between(world)'
      <4>1. Between(world)
        BY <1>0, WorldIsBetween
      <4> QED BY <1>1, <4>1 DEF Between
    <3> QED BY <1>0, <1>1, <3>1, <3>2 DEF AnswerAt
  <2>3. CASE StampCheck(p)
    <3>1. answer'[p].state = "checking" /\ answer'[p].stamp = routeStamp
      BY <1>0, <2>0, <2>3 DEF StampCheck
    <3> QED BY <1>1, <1>3, <3>1 DEF AnswerAt
  <2>4. CASE ResolveCheck(p)
    <3>1. CASE answer[p].exit = world
      <4>1. /\ answer[p].state = "checking" /\ answer'[p].state = "landing"
            /\ answer'[p].stamp = answer[p].stamp /\ answer'[p].exit = world
        BY <1>0, <2>0, <2>4, <3>1 DEF ResolveCheck
      <4>2. Between(world)'
        <5>1. Between(world)
          BY <1>0, WorldIsBetween
        <5> QED BY <1>1, <5>1 DEF Between
      <4> QED BY <1>0, <1>1, <4>1, <4>2 DEF AnswerAt
    <3>2. CASE answer[p].exit # world
      <4>1. answer'[p].state = "none"
        BY <1>0, <2>4, <3>2 DEF ResolveCheck, NoAnswer
      <4> QED BY <4>1 DEF AnswerAt
    <3> QED BY <3>1, <3>2
  <2>5. CASE LandAnswer(p)
    <3>1. /\ answer[p].state = "landing" /\ answer'[p].state = "answered"
          /\ answer'[p].stamp = answer[p].stamp /\ answer'[p].exit = answer[p].exit
      BY <1>0, <2>0, <2>5 DEF LandAnswer, AnswerStamp
    <3> QED BY <1>0, <1>1, <1>2, <1>3, <1>6, <3>1 DEF AnswerAt
  <2> QED BY <2>1, <2>2, <2>3, <2>4, <2>5 DEF Probing
<1> QED BY <1>2, <1>4, <1>5, <1>7 DEF AnswerInv

(* Before anything is read there is nothing to describe.                   *)
LEMMA InitAnswerInv == Init => StageInv /\ ReadInv /\ AnswerInv
<1> SUFFICES ASSUME Init PROVE StageInv /\ ReadInv /\ AnswerInv
  OBVIOUS
<1>1. StageInv
  BY DEF Init, StageInv, StageAt
<1>2. ReadInv
  BY DEF Init, ReadInv, Bare
<1>3. AnswerInv
  BY DEF Init, AnswerInv, AnswerAt, NoAnswer
<1> QED BY <1>1, <1>2, <1>3

(* Every step keeps the three, as long as no pick returns unread.          *)
LEMMA StepAnswerInv ==
    ASSUME FlipBack = FALSE
    PROVE  TypeInv /\ TypeInv' /\ StageInv /\ ReadInv /\ AnswerInv /\ [Next]_vars
               => StageInv' /\ ReadInv' /\ AnswerInv'
<1> SUFFICES ASSUME TypeInv, TypeInv', StageInv, ReadInv, AnswerInv, [Next]_vars
             PROVE  StageInv' /\ ReadInv' /\ AnswerInv'
  OBVIOUS
<1>0. CallType
  BY DEF TypeInv, TypeOK
<1>1. ASSUME UNCHANGED <<pc, change, rest>>
      PROVE  /\ StageInv' /\ (Pending => Pending')
             /\ \A u \in Threads : pc'[u] = "commit" => pc[u] = "commit"
  BY <1>1 DEF StageInv, StageAt, Pending, PendingAt
<1>2. CASE \/ \E g \in HealthGroups, p \in Proxies : HealthCheckMove(g, p)
           \/ BackgroundLoad
  <2>1. UNCHANGED <<pc, change, rest, tracked, epoch, version, seen, answer>>
    BY <1>2 DEF HealthCheckMove, BackgroundLoad, routeVars, callVars
  <2>2. Unread
    BY <1>2, RouteAssumption DEF HealthCheckMove, BackgroundLoad, Move, Unread
  <2> QED BY <1>1, <2>1, <2>2, WorldKeeps
<1>3. CASE StopListener \/ DeliverEvent \/ SetEventListener \/ FinishDetach \/ UNCHANGED vars
           \/ \E p \in Pollers : PollExit(p)
  <2>1. UNCHANGED <<world, pc, change, rest, tracked, epoch, version, seen, answer>>
    BY <1>3 DEF StopListener, DeliverEvent, SetEventListener, FinishDetach, PollExit, vars,
       routeVars, callVars, worldVars
  <2> QED BY <1>1, <2>1, WorldKeeps
<1>4. ASSUME NEW t \in Threads, Refreshing(t) PROVE StageInv' /\ ReadInv' /\ AnswerInv'
  BY <1>4, ReadKeeps, CommitKeeps, PublishKeeps DEF Refreshing
<1>5. ASSUME NEW c \in Callers, Calling(c) \/ Continuing(c) PROVE StageInv' /\ ReadInv' /\ AnswerInv'
  <2>1. /\ StagesKept(c) /\ UNCHANGED <<tracked, epoch, version, seen, answer>>
        /\ UNCHANGED world \/ Told \/ Unread
    BY <1>5, CallingStages, ContinuingStages
  <2>2. c \in Threads
    BY DEF Threads
  <2>3. StageInv' /\ (Pending => Pending') /\ \A u \in Threads : pc'[u] = "commit" => pc[u] = "commit"
    BY <2>1, <2>2, StagesFrame DEF StagesKept
  <2> QED BY <2>1, <2>3, WorldKeeps
<1>6. ASSUME NEW p \in Pollers, PollTick(p) PROVE StageInv' /\ ReadInv' /\ AnswerInv'
  <2>1. /\ Begin(p, ThenRefresh(Unchanged), <<>>)
        /\ UNCHANGED <<world, tracked, epoch, version, seen, answer>>
    BY <1>6 DEF PollTick, worldVars, routeVars
  <2>2. p \in Threads /\ StageAt(p)
    BY DEF Threads, StageInv
  <2>3. ThenRefresh(Unchanged).label = "refresh" /\ ThenRefresh(Unchanged).change = Unchanged /\ <<>> \in Seq(Stages)
    BY StagesTyped
  <2>4. StagesKept(p)
    BY <1>0, <2>1, <2>2, <2>3, BeginPlain
  <2>5. StageInv' /\ (Pending => Pending') /\ \A u \in Threads : pc'[u] = "commit" => pc[u] = "commit"
    BY <2>2, <2>4, StagesFrame DEF StagesKept
  <2> QED BY <2>1, <2>5, WorldKeeps
<1>7. ASSUME NEW p \in Probes, Probing(p) PROVE StageInv' /\ ReadInv' /\ AnswerInv'
  BY <1>7, ProbingKeeps
<1> QED BY <1>2, <1>3, <1>4, <1>5, <1>6, <1>7 DEF Next

(* An answer that carries the stamp in force went out by the route in      *)
(* force, for any number of goroutines, answers and groups, as long as no  *)
(* pick returns unread to what the tracker read last.                      *)
THEOREM AnswersDescribe ==
    ASSUME FlipBack = FALSE
    PROVE  Spec => []AnswerDescribesRoute
<1>1. TypeInv /\ ReadInv /\ AnswerInv => AnswerDescribesRoute
  <2> SUFFICES ASSUME TypeInv, ReadInv, AnswerInv, Settled, NEW p \in Probes,
                      answer[p].state = "answered", answer[p].stamp = routeStamp
               PROVE  answer[p].exit = world
    BY DEF AnswerDescribesRoute
  <2>0. RouteType /\ world \in World
    BY DEF TypeInv, TypeOK, WorldType
  <2>1. ~Pending /\ tracked = Observed
    BY DEF Pending, PendingAt, Settled
  <2>2. PICK exit \in World : exit = answer[p].exit
    BY DEF AnswerInv, AnswerAt
  <2>3. Between(exit)
    BY <2>1, <2>2 DEF AnswerInv, AnswerAt
  <2>4. /\ tracked.picks = world.picks /\ tracked.providers = world.providers /\ tracked.ruleSets = world.ruleSets
    BY <2>1 DEF Observed
  <2>5. /\ exit.providers \in Nat /\ exit.ruleSets \in Nat /\ world.providers \in Nat /\ world.ruleSets \in Nat
        /\ exit.picks \in AnyPicks \cup {EmptyPicks} /\ world.picks \in AnyPicks \cup {EmptyPicks}
    BY <2>0, WorldFields
  <2>6. tracked.providers # None
    BY <2>4, <2>5, RouteAssumption
  <2>7. exit.providers = world.providers /\ exit.ruleSets = world.ruleSets /\ exit.config = world.config
    BY <2>3, <2>4, <2>5, <2>6 DEF Between
  <2>8. exit.picks = world.picks
    <3>1. CASE world.picks = EmptyPicks
      BY <2>3, <3>1 DEF Between
    <3>2. CASE world.picks # EmptyPicks
      <4>1. exit.picks \in AnyPicks /\ world.picks \in AnyPicks
        BY <2>3, <2>5, <3>2 DEF Between
      <4>2. \A g \in Groups : exit.picks[g] = world.picks[g]
        BY <2>3, <2>4, <3>2 DEF Between
      <4> QED BY <4>1, <4>2 DEF AnyPicks
    <3> QED BY <3>1, <3>2
  <2> QED BY <2>0, <2>2, <2>7, <2>8, WorldFields
<1> QED BY <1>1, InitTypeInv, StepTypeInv, InitAnswerInv, StepAnswerInv, PTL DEF Spec
=============================================================================
