--------------------------------- MODULE Reload ---------------------------------
(***************************************************************************)
(* The life of a configuration: someone edits the file and sends SIGHUP,   *)
(* main.run starts from the file or fails, and its SIGHUP goroutine        *)
(* (main.go:222-250) takes a signal from a channel of capacity one, loads  *)
(* the file, and swaps the routing rules and the log level or refuses.     *)
(* The file may change and further signals may arrive between any two of   *)
(* these steps.                                                            *)
(***************************************************************************)
EXTENDS Config

CONSTANTS
    File,    \* the contents the file may have
    NoFile   \* nothing loaded

ASSUME FileAssumption ==
    /\ NoFile \notin ConfigFile
    /\ File \subseteq ConfigFile

VARIABLES
    file,       \* the contents of the file
    up,         \* a process runs
    cfg,        \* its configuration: as loaded at startup, the rules replaced since
    router,     \* the rules in force
    level,      \* the log level in force
    hup,        \* a signal is waiting in the channel
    handler,    \* the SIGHUP goroutine: "idle", "load" (signal taken), "apply" (file loaded)
    newCfg,     \* what it loaded
    source,     \* history variable: the file that the rules in force are from
    announced   \* history variable: SIGHUP was sent to this process after the last edit

vars == <<file, up, cfg, router, level, hup, handler, newCfg, source, announced>>

Init ==
    /\ file \in File
    /\ up = FALSE
    /\ cfg = NoFile
    /\ router = <<>>
    /\ level = "info"
    /\ hup = FALSE
    /\ handler = "idle"
    /\ newCfg = NoFile
    /\ source = NoFile
    /\ announced = FALSE

------------------------------------------------------------------------------
\* Someone writes the file.
Edit(f) ==
    /\ f # file
    /\ file' = f
    /\ announced' = FALSE
    /\ UNCHANGED <<up, cfg, router, level, hup, handler, newCfg, source>>

\* SIGHUP: one signal waits in the channel, a second one is dropped.
Sighup ==
    /\ up
    /\ hup' = TRUE
    /\ announced' = TRUE
    /\ UNCHANGED <<file, up, cfg, router, level, handler, newCfg, source>>

\* main.run up to the HTTP server; a file it cannot start from ends the process.
Start ==
    /\ ~up
    /\ Loads(file)
    /\ LET c == applyDefaults(file) IN
         /\ StartError(c) = "none"
         /\ cfg' = c
         /\ router' = NewRouter(c.rules)
         /\ level' = c.level
    /\ up' = TRUE
    /\ source' = file
    /\ announced' = FALSE
    /\ UNCHANGED <<file, hup, handler, newCfg>>

\* The process ends.
Stop ==
    /\ up
    /\ up' = FALSE
    /\ cfg' = NoFile
    /\ router' = <<>>
    /\ level' = "info"
    /\ hup' = FALSE
    /\ handler' = "idle"
    /\ newCfg' = NoFile
    /\ source' = NoFile
    /\ announced' = FALSE
    /\ UNCHANGED file

\* for range hup: the goroutine takes the waiting signal.
TakeSignal ==
    /\ handler = "idle"
    /\ hup
    /\ hup' = FALSE
    /\ handler' = "load"
    /\ UNCHANGED <<file, up, cfg, router, level, newCfg, source, announced>>

\* Mutation: the file is parsed and not validated.
ReloadFileUnchecked ==
    /\ handler = "load"
    /\ handler' = "apply"
    /\ newCfg' = file
    /\ UNCHANGED <<file, up, cfg, router, level, hup, source, announced>>

\* config.Load; a file it rejects changes nothing.
ReloadFile ==
    /\ handler = "load"
    /\ IF Loads(file)
         THEN handler' = "apply" /\ newCfg' = file
         ELSE handler' = "idle" /\ UNCHANGED newCfg
    /\ UNCHANGED <<file, up, cfg, router, level, hup, source, announced>>

\* Mutation: changed executors are not noticed.
RefusedByPlatforms(c) ==
    \/ c.platforms # cfg.platforms
    \/ NewRouterFails(c.rules, Names(cfg.executors))

\* The reload is refused: platforms or executors are not those of the process.
Refused(c) ==
    \/ c.platforms # cfg.platforms
    \/ c.executors # cfg.executors
    \/ NewRouterFails(c.rules, Names(cfg.executors))

\* Mutations: signals that came in during the reload are forgotten with it; the
\* level changes and the rules do not.
ApplyDrainsSignals ==
    /\ handler = "apply"
    /\ handler' = "idle"
    /\ newCfg' = NoFile
    /\ hup' = FALSE
    /\ LET c == applyDefaults(newCfg) IN
         \/ /\ Refused(c)
            /\ UNCHANGED <<cfg, router, level, source>>
         \/ /\ ~Refused(c)
            /\ router' = NewRouter(c.rules)
            /\ level' = IF c.level \in ValidLevel THEN c.level ELSE level
            /\ cfg' = [cfg EXCEPT !.rules = c.rules]
            /\ source' = newCfg
    /\ UNCHANGED <<file, up, announced>>

ApplyRefusesAfterSetRouter ==
    /\ handler = "apply"
    /\ handler' = "idle"
    /\ newCfg' = NoFile
    /\ LET c == applyDefaults(newCfg) IN
         /\ router' = NewRouter(c.rules)
         /\ IF Refused(c)
              THEN UNCHANGED <<cfg, level, source>>
              ELSE /\ level' = IF c.level \in ValidLevel THEN c.level ELSE level
                   /\ cfg' = [cfg EXCEPT !.rules = c.rules]
                   /\ source' = newCfg
    /\ UNCHANGED <<file, up, hup, announced>>

\* Refuse, or SetRouter, set the level if it is one, and remember the rules.
Apply ==
    /\ handler = "apply"
    /\ handler' = "idle"
    /\ newCfg' = NoFile
    /\ LET c == applyDefaults(newCfg) IN
         \/ /\ Refused(c)
            /\ UNCHANGED <<cfg, router, level, source>>
         \/ /\ ~Refused(c)
            /\ router' = NewRouter(c.rules)
            /\ level' = IF c.level \in ValidLevel THEN c.level ELSE level
            /\ cfg' = [cfg EXCEPT !.rules = c.rules]
            /\ source' = newCfg
    /\ UNCHANGED <<file, up, hup, announced>>

Handler == TakeSignal \/ ReloadFile \/ Apply

Next ==
    \/ \E f \in File : Edit(f)
    \/ Sighup
    \/ Start
    \/ Stop
    \/ Handler

Spec == Init /\ [][Next]_vars

\* The SIGHUP goroutine is scheduled; edits, signals and restarts are not fair.
FairSpec == Spec /\ WF_vars(Handler)

------------------------------------------------------------------------------
(***************************************************************************)
(* Properties.                                                             *)
(***************************************************************************)

\* The types, and what a process that is down or about to apply a reload has.
TypeOK ==
    /\ file \in File
    /\ up \in BOOLEAN
    /\ cfg \in ConfigFile \union {NoFile}
    /\ level \in ValidLevel
    /\ hup \in BOOLEAN
    /\ handler \in {"idle", "load", "apply"}
    /\ newCfg \in File \union {NoFile}
    /\ source \in File \union {NoFile}
    /\ announced \in BOOLEAN
    /\ ~up => handler = "idle" /\ ~hup /\ ~announced
    /\ up => source \in File /\ cfg \in ConfigFile
    /\ handler = "apply" => newCfg \in File /\ Loads(newCfg)

(***************************************************************************)
(* "Unreachable with a validated config" (router.go:56), "nil iff          *)
(* Disabled" (router.go:14): whatever was loaded and reloaded, some rule   *)
(* matches every repository, and a route that is not disabled leads to an  *)
(* executor this process has built.                                        *)
(***************************************************************************)
RoutesTotal ==
    up => \A r \in Repo :
            /\ Hits(router, r) # {}
            /\ ~Route(router, r).disabled => Route(router, r).executor \in Names(cfg.executors)

(***************************************************************************)
(* "refusing them here avoids half-applied configurations"                 *)
(* (main.go:222-223): the rules in force are those of one file that Load   *)
(* accepted and whose platforms and executors are the running ones, also   *)
(* when the file changes between the signal and the reload.                *)
(***************************************************************************)
OneFileInForce ==
    up => LET c == applyDefaults(source) IN
            /\ Loads(source)
            /\ router = NewRouter(c.rules)
            /\ cfg.rules = c.rules
            /\ cfg.platforms = c.platforms
            /\ cfg.executors = c.executors

\* The server section has nothing in it that only a start finds out.
GoodServer(c) == c.level \in ValidLevel /\ c.format \in {"json", "text"} /\ c.maxConcurrentRuns >= 0

(***************************************************************************)
(* A reload is as good as a restart: the process could be started anew     *)
(* from the file that its last reload accepted, and would log at the same  *)
(* level.  The server section is exempt: Load does not look at its level,  *)
(* format and maxConcurrentRuns, and a reload ignores what is wrong there. *)
(***************************************************************************)
ReloadIsRestart ==
    up => LET c == applyDefaults(source) IN
            GoodServer(c) => StartError(c) = "none" /\ level = c.level

(***************************************************************************)
(* "Any unset variable, unknown field or invalid reference is an error"    *)
(* (load.go:19-20), of which this is the part about references (the code   *)
(* does not do what it says of unknown fields): main.run never misses the  *)
(* gitlab platform of an executor (main.go:119-122), the executor of a     *)
(* rule (main.go:149-152) or a schedule (main.go:216) of a file that Load  *)
(* accepted.                                                               *)
(***************************************************************************)
ReferencesResolve ==
    Loads(file) =>
        StartError(applyDefaults(file)) \notin {"platform lookup", "NewRouter", "AddPlatform"}

\* A reload of f would be accepted.
Acceptable(f) == Loads(f) /\ ~Refused(applyDefaults(f))

(***************************************************************************)
(* Nothing is lost between the editor and the router: once the file has    *)
(* been edited for the last time and SIGHUP sent after that, its rules     *)
(* come into force for good, although the channel holds one signal only    *)
(* and the goroutine may be in the middle of an older reload.              *)
(***************************************************************************)
LastReloadWins ==
    <>[](up /\ announced /\ Acceptable(file)) => <>[](source = file)

(***************************************************************************)
(* "Changes to platforms, executors or the listen address are refused"     *)
(* (README.md:200-201): the rules in force are never those of a file with  *)
(* another listen address.                                                 *)
(***************************************************************************)
ListenChangeRefused == up => applyDefaults(source).listen = cfg.listen
================================================================================
