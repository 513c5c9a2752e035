---------------------------- MODULE RequestFiles ----------------------------
(***************************************************************************)
(* What the handlers of the host's calls do to files between the call and  *)
(* its reply (IpcServer): compiling a rule set (core/rule_set.go), setting *)
(* up a config (core/profile_base.go, core/config.go) and spilling a large *)
(* reply (core/spill.go).  Handlers run beside each other; writes and      *)
(* renames fail; a handler may panic, and the core may die at any step,    *)
(* after which a new one serves the same directory.                        *)
(*                                                                         *)
(* All compiles are of one rule set: others share no file with it.  The    *)
(* text of a file is the call that made it; a file is [text, whole, by],   *)
(* by being the write that still fills it.  A file moves with its rename:  *)
(* whoever is writing it goes on writing it at its new name.               *)
(*                                                                         *)
(* Handlers of different methods share no file, and meet the transport     *)
(* only when a call is read and when its reply is sent.  So a behaviour is *)
(* looked at in one view: of the frames, with handlers that only answer,   *)
(* or of the calls of one method, with sends that end at once in one of    *)
(* the ways in which a send can end.                                       *)
(***************************************************************************)
EXTENDS IpcServer, RuleSets, FiniteSets

CONSTANTS
    Default,    \* the built-in config
    MaxCrashes  \* deaths of the core: a bound

Parts == {"source", "mrs"}

(* A file of the rule set.                                                 *)
Copies == [text : Calls \cup {None, "cut"}, whole : BOOLEAN, by : Calls \cup {None}]

ASSUME FileAssumption ==
    None \notin Copies /\ None # "file" /\ "cut" \notin Calls

(* Where the handler of a method begins.  A call of no known method is     *)
(* answered at once; listing stands for every large reply.                 *)
First == [compile |-> "fetch", setup |-> "lock", list |-> "spill", unknown |-> "reply"]

VARIABLES
    view,       \* what is looked at: "frames", or a method
    at,         \* where each handler is
    part,       \* which file of the rule set a compile writes
    text,       \* what it read or downloaded
    reply,      \* what the reply says
    file, temp, \* the rule set's files and their .tmp
    config,     \* config.yaml
    running,    \* currentConfig
    configMu,   \* the call that holds configMu
    responses,  \* the spilled replies
    doomed,     \* those an init in a live core is about to remove
    crashes,
    lone,       \* history: the compile that ran with no other and no failure
    overlapped, \* history: two compiles were under way together
    cutOff,     \* history: a panic ended a setup that had replaced the file
    swept       \* history: calls whose spilled reply an init removed

handlerVars == <<at, part, text, reply>>
spillVars == <<responses, doomed, swept>>
diskVars == <<file, temp, config, running, configMu, spillVars>>
historyVars == <<crashes, lone, overlapped, cutOff>>
allVars == <<view, vars, handlerVars, diskVars, historyVars>>

RInit ==
    /\ Init
    /\ view \in {"frames"} \cup DOMAIN First
    /\ at = [c \in Calls |-> "idle"]
    /\ part = [c \in Calls |-> "source"]
    /\ text = [c \in Calls |-> None]
    /\ reply = [c \in Calls |-> None]
    /\ file = [p \in Parts |-> None] /\ temp = file
    /\ config = None /\ running = None /\ configMu = None
    /\ responses = {} /\ doomed = {} /\ swept = {}
    /\ crashes = 0 /\ lone = {} /\ overlapped = FALSE /\ cutOff = FALSE

Move(c, place) == at' = [at EXCEPT ![c] = place]

Answer(c, r) == Move(c, "reply") /\ reply' = [reply EXCEPT ![c] = r]

-----------------------------------------------------------------------------
(* handleMethodCall.                                                       *)

Compiling == {c \in Calls : at[c] \in {"fetch", "clear", "create", "write", "rename"}}

Dispatch(c) ==
    /\ ReadCall(c)
    /\ Move(c, First[view])
    /\ reply' = [reply EXCEPT ![c] = "error"]
    /\ lone' = IF Compiling = {} /\ view = "compile" THEN {c} ELSE {}
    /\ overlapped' = (overlapped \/ Compiling # {})
    /\ UNCHANGED <<part, text, diskVars, crashes, cutOff>>

Working == {"fetch", "clear", "create", "write", "rename", "merge", "parse", "spill", "fill"}

(* A panic is recovered: whatever the handler had open stays as it is, and *)
(* a deferred unlock runs.                                                 *)
Panics(c) ==
    /\ at[c] \in Working
    /\ Answer(c, "error")
    /\ configMu' = IF configMu = c THEN None ELSE configMu
    /\ lone' = lone \ {c}
    /\ cutOff' = (cutOff \/ at[c] = "parse")
    /\ UNCHANGED <<vars, part, text, file, temp, config, running, spillVars, crashes, overlapped>>

(* The send ends, for better or worse; it matters to a file it names.      *)
Reply(c) ==
    /\ at[c] = "reply"
    /\ Move(c, "ended")
    /\ \/ UNCHANGED reply
       \/ reply[c] = "file" /\ reply' = [reply EXCEPT ![c] = "lost"]
    /\ UNCHANGED <<vars, part, text, diskVars, historyVars>>

-----------------------------------------------------------------------------
(* handleCompileRuleSet.                                                   *)

Download(c) ==
    /\ at[c] = "fetch"
    /\ text' = [text EXCEPT ![c] = c]
    /\ part' = [part EXCEPT ![c] = "source"]
    /\ Move(c, "clear")
    /\ UNCHANGED <<vars, reply, diskVars, historyVars>>

(* Only a set of domains or of IP ranges that is not an .mrs yet gets one. *)
AfterSource(c) ==
    \/ part' = [part EXCEPT ![c] = "mrs"] /\ Move(c, "clear") /\ UNCHANGED reply
    \/ Answer(c, "kept") /\ UNCHANGED part

(* The source is the file that is there, perhaps still being written.      *)
ReadSource(c) ==
    /\ at[c] = "fetch"
    /\ file["source"] # None
    /\ text' = [text EXCEPT ![c] = IF file["source"].whole THEN file["source"].text ELSE "cut"]
    /\ AfterSource(c)
    /\ UNCHANGED <<vars, diskVars, historyVars>>

(* The download or the read fails, or compileRuleSet refuses the source.   *)
FetchFails(c) ==
    /\ at[c] = "fetch"
    /\ Answer(c, "error")
    /\ lone' = lone \ {c}
    /\ UNCHANGED <<vars, part, text, diskVars, crashes, overlapped, cutOff>>

LeavesTemp(c) == UNCHANGED temp

RemoveTemp(c) == temp' = [temp EXCEPT ![part[c]] = None]

(* writeRuleSetFile removes what is at the temporary name ...              *)
ClearTemp(c) ==
    /\ at[c] = "clear"
    /\ RemoveTemp(c)
    /\ Move(c, "create")
    /\ UNCHANGED <<vars, part, text, reply, file, config, running, configMu, spillVars, historyVars>>

(* ... makes a new file, unless another has come there meanwhile ...       *)
CreateTemp(c) ==
    /\ at[c] = "create"
    /\ IF temp[part[c]] = None
       THEN /\ temp' = [temp EXCEPT ![part[c]] = [text |-> text[c], whole |-> FALSE, by |-> c]]
            /\ Move(c, "write")
            /\ UNCHANGED reply
       ELSE Answer(c, "error") /\ UNCHANGED temp
    /\ UNCHANGED <<vars, part, text, file, config, running, configMu, spillVars, historyVars>>

Filled(f, c) == IF f # None /\ f.by = c THEN [f EXCEPT !.whole = TRUE, !.by = None] ELSE f

(* ... writes it, wherever it has been moved to ...                        *)
WriteTemp(c) ==
    /\ at[c] = "write"
    /\ temp' = [p \in Parts |-> Filled(temp[p], c)]
    /\ file' = [p \in Parts |-> Filled(file[p], c)]
    /\ Move(c, "rename")
    /\ UNCHANGED <<vars, part, text, reply, config, running, configMu, spillVars, historyVars>>

(* ... or fails to, and removes whatever has the temporary name ...        *)
WriteTempFails(c) ==
    /\ at[c] \in {"write", "rename"}
    /\ temp' = [temp EXCEPT ![part[c]] = None]
    /\ Answer(c, "error")
    /\ lone' = lone \ {c}
    /\ UNCHANGED <<vars, part, text, file, config, running, configMu, spillVars, crashes, overlapped, cutOff>>

RenamesFirst(c) == at[c] \in {"write", "rename"}

MayRename(c) == at[c] = "rename"

(* ... and renames what is there by now over the file.                     *)
RenameTemp(c) ==
    /\ MayRename(c)
    /\ IF temp[part[c]] = None
       THEN Answer(c, "error") /\ UNCHANGED <<temp, file, part>>
       ELSE /\ temp' = [temp EXCEPT ![part[c]] = None]
            /\ file' = [file EXCEPT ![part[c]] = temp[part[c]]]
            /\ IF part[c] = "source"
               THEN AfterSource(c)
               ELSE Answer(c, "compiled") /\ UNCHANGED part
    /\ UNCHANGED <<vars, text, config, running, configMu, spillVars, historyVars>>

Compile(c) ==
    \/ Download(c) \/ ReadSource(c) \/ FetchFails(c) \/ ClearTemp(c) \/ CreateTemp(c)
    \/ WriteTemp(c) \/ WriteTempFails(c) \/ RenameTemp(c)

-----------------------------------------------------------------------------
(* applyConfig, as far as files go.  The temporary file has a name of its  *)
(* own, so that nobody else can come to it.                                *)

LockConfig(c) ==
    /\ at[c] = "lock"
    /\ configMu = None
    /\ configMu' = c
    /\ Move(c, "merge")
    /\ UNCHANGED <<vars, part, text, reply, file, temp, config, running, spillVars, historyVars>>

ReplaceConfig(c) == config' = c

(* Without a base the config is read from the file; with one the merged    *)
(* document replaces the file before it is parsed.                         *)
LoadConfig(c) ==
    /\ at[c] = "merge"
    /\ \/ config # None /\ UNCHANGED config
       \/ ReplaceConfig(c)
    /\ Move(c, "parse")
    /\ UNCHANGED <<vars, part, text, reply, file, temp, running, configMu, spillVars, historyVars>>

KeepsRunning(loaded) == IF loaded = Default THEN running ELSE loaded

InForce(loaded) == loaded

(* What could not be merged, written or parsed leaves the default running. *)
ApplyConfig(c) ==
    /\ at[c] \in {"merge", "parse"}
    /\ \E loaded \in IF at[c] = "parse" THEN {config, Default} ELSE {Default} :
        /\ running' = InForce(loaded)
        /\ Answer(c, IF loaded = Default THEN "error" ELSE "applied")
    /\ configMu' = None
    /\ cutOff' = FALSE
    /\ UNCHANGED <<vars, part, text, file, temp, config, spillVars, crashes, lone, overlapped>>

-----------------------------------------------------------------------------
(* spillResponse.                                                          *)

Spilled(c, whole) == [call |-> c, whole |-> whole]

Without(c) == {r \in responses : r.call # c}

(* CreateTemp picks a name that is free: no call shares the file.          *)
SpillCreate(c) ==
    /\ at[c] = "spill"
    /\ responses' = responses \cup {Spilled(c, FALSE)}
    /\ Move(c, "fill")
    /\ UNCHANGED <<vars, part, text, reply, file, temp, config, running, configMu,
                   doomed, swept, historyVars>>

(* It goes on in a file that has been removed, and names it.               *)
SpillWrite(c) ==
    /\ at[c] = "fill"
    /\ responses' = IF Spilled(c, FALSE) \in responses
                    THEN (responses \ {Spilled(c, FALSE)}) \cup {Spilled(c, TRUE)}
                    ELSE responses
    /\ Answer(c, "file")
    /\ UNCHANGED <<vars, part, text, file, temp, config, running, configMu,
                   doomed, swept, historyVars>>

NamesItAnyway == "file"

SpillFallback == "inline"

(* The reply is sent as it is.  The deferred removal finds the path that   *)
(* the return has emptied, so the file stays until the next init.          *)
SpillFails(c) ==
    /\ at[c] \in {"spill", "fill"}
    /\ Answer(c, SpillFallback)
    /\ UNCHANGED <<vars, part, text, diskVars, historyVars>>

(* resolveSpilledResponse: the host reads the file whole or reports that   *)
(* it could not, and deletes what is there.                                *)
HostReads(c) ==
    /\ at[c] = "ended" /\ reply[c] = "file"
    /\ reply' = [reply EXCEPT ![c] =
                    IF Spilled(c, TRUE) \in responses THEN "read" ELSE "spill_error"]
    /\ responses' = Without(c)
    /\ UNCHANGED <<vars, at, part, text, file, temp, config, running, configMu,
                   doomed, swept, historyVars>>

(* handleInit may come again in the life of a core: by QuickSetup with     *)
(* every native start, and by a host that attaches anew.  It lists the     *)
(* directory, under configMu, which no spill waits for ...                 *)
InitAgain ==
    /\ view = "list"
    /\ doomed = {}
    /\ doomed' = {r.call : r \in responses}
    /\ UNCHANGED <<vars, handlerVars, file, temp, config, running, configMu,
                   responses, swept, historyVars>>

(* ... and removes what it listed, one by one and as far as it can.        *)
RemoveListed(c) ==
    /\ c \in doomed
    /\ doomed' = doomed \ {c}
    /\ \/ UNCHANGED <<responses, swept>>
       \/ responses' = Without(c) /\ swept' = swept \cup {c}
    /\ UNCHANGED <<vars, handlerVars, file, temp, config, running, configMu, historyVars>>

Spill(c) == SpillCreate(c) \/ SpillWrite(c) \/ SpillFails(c)
Setup(c) == LockConfig(c) \/ LoadConfig(c) \/ ApplyConfig(c)

-----------------------------------------------------------------------------
(* The core dies, by the crash method or by itself, and the host starts    *)
(* another and initializes it, which clears the spilled replies.           *)
Restart ==
    /\ crashes < MaxCrashes
    /\ crashes' = crashes + 1
    /\ conn' = TRUE /\ pipe' = TRUE /\ serving' = TRUE /\ reported' = FALSE
    /\ frame' = [f \in Frames |-> "none"]
    /\ oversized' = {} /\ writeMu' = None /\ written' = 0 /\ stream' = <<>>
    /\ at' = [c \in Calls |-> "idle"] /\ reply' = [c \in Calls |-> None]
    /\ part' = [c \in Calls |-> "source"] /\ text' = [c \in Calls |-> None]
    /\ file' = [p \in Parts |-> IF file[p] = None THEN None ELSE [file[p] EXCEPT !.by = None]]
    /\ temp' = [p \in Parts |-> IF temp[p] = None THEN None ELSE [temp[p] EXCEPT !.by = None]]
    /\ running' = None /\ configMu' = None
    /\ responses' = {} /\ doomed' = {} /\ swept' = {}
    /\ lone' = {} /\ cutOff' = FALSE
    /\ UNCHANGED <<config, overlapped>>

Handling(c) == Compile(c) \/ Setup(c) \/ Spill(c) \/ Reply(c)

Files ==
    \/ \E c \in Calls :
        \/ Dispatch(c) \/ Handling(c) \/ Panics(c) \/ HostReads(c) \/ RemoveListed(c)
    \/ InitAgain
    \/ Restart

RNext ==
    /\ \/ view = "frames" /\ Next /\ UNCHANGED <<handlerVars, diskVars, historyVars>>
       \/ view # "frames" /\ Files
    /\ UNCHANGED view

RSpec == RInit /\ [][RNext]_allVars

(* Goroutines run on.  A host that stalls drains again in the end, and a   *)
(* closed pipe fails every write.                                          *)
Frame(A) == view = "frames" /\ A /\ UNCHANGED <<view, handlerVars, diskVars, historyVars>>

Fairness ==
    /\ \A f \in Frames :
        WF_allVars(Frame(\/ BeginSend(f) \/ WriteWhole(f) \/ CloseTorn(f)
                         \/ Encoded(f, FALSE) \/ (~pipe /\ WriteFails(f, 0))))
    /\ \A c \in Calls : WF_allVars(view # "frames" /\ Handling(c) /\ UNCHANGED view)

FairSpec == RSpec /\ Fairness

-----------------------------------------------------------------------------
(* Properties.                                                             *)

(* Every call that was read is answered, dropped or cut off, or dies with  *)
(* the core: no goroutine waits forever for writeMu behind a stalled or    *)
(* dead host, or for configMu behind another setup, one that panics too.   *)
SendsEnd ==
    \A c \in Calls :
        frame[c] = "handling" ~> \/ frame[c] \in {"sent", "dropped", "torn", "none"}
                                 \/ at[c] = "ended"

(* A crash, a failed write or a panic leaves no half-written file of the   *)
(* rule set for mihomo to load.  Only compiles that overlapped can: they   *)
(* share the temporary name, and one renames what the other is writing.    *)
TornOnlyByOverlap ==
    ~overlapped => \A p \in Parts : file[p] # None => file[p].whole

(* A compile that ran with no other and met no failure is answered well    *)
(* and leaves the rule set as it should be, whatever crashes and overlaps  *)
(* left behind: the source whole, if it was downloaded, and beside it the  *)
(* .mrs made from it.                                                      *)
LoneCompileHeals ==
    \A c \in lone :
        at[c] \in {"reply", "ended"} =>
            /\ reply[c] \in {"compiled", "kept"}
            /\ text[c] = c => file["source"] = [text |-> c, whole |-> TRUE, by |-> None]
            /\ reply[c] = "compiled" =>
                   file["mrs"] = [text |-> text[c], whole |-> TRUE, by |-> None]

(* When no setup is under way, the config in force is never an older one   *)
(* that config.yaml, where getProxyDefinition and a restart look, has      *)
(* lost: it is the one on file or, since a refused config stays on file    *)
(* too, the built-in one.  The exception is named: a panic that cut the    *)
(* newest setup off between the file and the config.                       *)
RunningIsOnFile ==
    configMu = None /\ ~cutOff => running \in {None, Default, config}

(* A reply that reached the host names a file that is there and whole      *)
(* until the host has read it, or is gone because an init in a live core   *)
(* removed it: never one that is half written or that a spill gave up.     *)
ReplyNamesWholeFile ==
    \A c \in Calls :
        at[c] = "ended" /\ reply[c] = "file" =>
            \/ Spilled(c, TRUE) \in responses
            \/ c \in swept /\ Without(c) = responses

(* What is computed for a call depends on no state, so it is looked at     *)
(* where a call of the method has yet to come.                             *)
Before(method) ==
    /\ view = method
    /\ crashes = 0
    /\ \A c \in Calls : at[c] = "idle"

(* handleCompileRuleSet: the .mrs the config loads in place of a source    *)
(* matches exactly what the source's own entries match.                    *)
RuleSetKeepsMeaning ==
    Before("compile") => \A source \in Sources : MeansSource(source)
=============================================================================
