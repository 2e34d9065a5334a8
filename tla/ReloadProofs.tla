---------------------------- MODULE ReloadProofs ----------------------------
(***************************************************************************)
(* Routing after any sequence of edits, starts and reloads, for every set  *)
(* of files: the rules in force are those of one accepted file, and they   *)
(* send every repository somewhere; the process could be restarted from    *)
(* that file.                                                              *)
(***************************************************************************)
EXTENDS Reload, TLAPS, WellFoundedInduction

(***************************************************************************)
(* A set of positions has a first one.                                     *)
(***************************************************************************)
LEMMA FirstExists ==
  ASSUME NEW S \in SUBSET Nat, S # {}
  PROVE  \E i \in S : \A j \in S : i <= j
<1>1. \E i \in S : \A j \in S : <<j, i>> \notin OpToRel(<, Nat)
  BY NatLessThanWellFounded, WFMin
<1>2. \A i, j \in S : <<j, i>> \notin OpToRel(<, Nat) => i <= j
  BY DEF OpToRel
<1> QED BY <1>1, <1>2

(***************************************************************************)
(* applyDefaults on one platform: its dashboard title.                       *)
(***************************************************************************)
LEMMA PlatformDefaults ==
  ASSUME NEW p \in PlatformConfig
  PROVE  [p EXCEPT !.dashboardIssueTitle = Default(@, "Dependency Dashboard")] \in PlatformConfig
<1>1. p.dashboardIssueTitle \in STRING
  BY DEF PlatformConfig
<1> DEFINE v == Default(p.dashboardIssueTitle, "Dependency Dashboard")
<1>2. v \in STRING
  BY <1>1, DefaultsAreStrings DEF Default
<1> HIDE DEF v
<1>3. [p EXCEPT !.dashboardIssueTitle = v] \in PlatformConfig
  BY <1>2 DEF PlatformConfig
<1> QED BY <1>3 DEF v

\* applyDefaults on one executor: a gitlabPipeline gets a ref.
LEMMA ExecutorDefaults ==
  ASSUME NEW x \in ExecutorConfig
  PROVE  [x EXCEPT !.ref = IF x.type = "gitlabPipeline" THEN Default(@, "main") ELSE @]
           \in ExecutorConfig
<1>1. x.ref \in STRING
  BY DEF ExecutorConfig
<1> DEFINE v == IF x.type = "gitlabPipeline" THEN Default(x.ref, "main") ELSE x.ref
<1>2. v \in STRING
  BY <1>1, DefaultsAreStrings DEF Default
<1> HIDE DEF v
<1>3. [x EXCEPT !.ref = v] \in ExecutorConfig
  BY <1>2 DEF ExecutorConfig
<1> QED BY <1>3 DEF v

(***************************************************************************)
(* applyDefaults (load.go:69-122) makes a configuration of a file and      *)
(* leaves its rules alone.                                                 *)
(***************************************************************************)
LEMMA DefaultsType ==
  ASSUME NEW f \in ConfigFile
  PROVE  applyDefaults(f) \in ConfigFile /\ applyDefaults(f).rules = f.rules
<1> DEFINE pd(p) == [p EXCEPT !.dashboardIssueTitle = Default(@, "Dependency Dashboard")]
           xd(x) == [x EXCEPT !.ref = IF x.type = "gitlabPipeline"
                                        THEN Default(@, "main") ELSE @]
           ps == [i \in DOMAIN f.platforms |-> pd(f.platforms[i])]
           es == [i \in DOMAIN f.executors |-> xd(f.executors[i])]
           l == Default(f.listen, ":8080")
           v == Default(f.level, "info")
           t == Default(f.format, "json")
           s == Default(f.store, "memory")
           m == IF f.maxConcurrentRuns = 0 THEN 4 ELSE f.maxConcurrentRuns
<1>1. /\ f.platforms \in Seq(PlatformConfig)
      /\ f.executors \in Seq(ExecutorConfig)
      /\ f.maxConcurrentRuns \in Int
      /\ f.listen \in STRING /\ f.level \in STRING /\ f.format \in STRING /\ f.store \in STRING
  BY DEF ConfigFile
<1>2. \A p \in PlatformConfig : pd(p) \in PlatformConfig
  BY PlatformDefaults
<1>3. \A x \in ExecutorConfig : xd(x) \in ExecutorConfig
  BY ExecutorDefaults
<1>4. ps \in Seq(PlatformConfig)
  <2> HIDE DEF pd
  <2> QED BY <1>1, <1>2
<1>5. es \in Seq(ExecutorConfig)
  <2> HIDE DEF xd
  <2> QED BY <1>1, <1>3
<1>6. l \in STRING /\ v \in STRING /\ t \in STRING /\ s \in STRING
  BY <1>1, DefaultsAreStrings DEF Default
<1>7. m \in Int
  BY <1>1
<1>8. applyDefaults(f) =
        [f EXCEPT !.listen = l, !.level = v, !.format = t, !.store = s,
                  !.maxConcurrentRuns = m, !.platforms = ps, !.executors = es]
  BY DEF applyDefaults
<1> HIDE DEF ps, es, l, v, t, s, m
<1> QED BY <1>4, <1>5, <1>6, <1>7, <1>8 DEF ConfigFile
(***************************************************************************)
(* NewRouter and Route of a valid configuration: some rule matches every   *)
(* repository, and the first that does is disabled or names an executor.   *)
(***************************************************************************)
LEMMA ValidRoutes ==
  ASSUME NEW c \in ConfigFile, validRules(c), NEW r \in Repo
  PROVE  /\ Hits(NewRouter(c.rules), r) # {}
         /\ ~Route(NewRouter(c.rules), r).disabled =>
               Route(NewRouter(c.rules), r).executor \in Names(c.executors)
<1> DEFINE rt == NewRouter(c.rules)
           hits == Hits(rt, r)
<1>1. /\ c.rules \in Seq(RuleConfig)
      /\ DOMAIN c.rules = 1 .. Len(c.rules)
      /\ Len(c.rules) \in Nat
  BY DEF ConfigFile
<1>2. PICK k \in DOMAIN c.rules : c.rules[k].match = CatchAll
  BY DEF validRules
<1>3. /\ DOMAIN rt = DOMAIN c.rules
      /\ \A i \in DOMAIN c.rules :
           /\ rt[i].pattern = c.rules[i].match
           /\ rt[i].disabled = c.rules[i].disabled
           /\ rt[i].exec = IF c.rules[i].disabled THEN "" ELSE c.rules[i].executor
  BY DEF NewRouter
<1> HIDE DEF rt
<1>4. k \in hits
  BY <1>2, <1>3, PatternAssumption DEF Hits
<1>5. hits \subseteq DOMAIN c.rules
  BY <1>3 DEF Hits
<1> HIDE DEF hits
<1>6. hits \subseteq Nat
  BY <1>1, <1>5
<1>7. \E i \in hits : \A j \in hits : i <= j
  BY <1>4, <1>6, FirstExists
<1> DEFINE first == CHOOSE i \in hits : \A j \in hits : i <= j
<1>8. first \in hits
  BY <1>7
<1>9. Route(rt, r) = [executor |-> rt[first].exec, disabled |-> rt[first].disabled]
  BY <1>4 DEF Route, hits
<1> HIDE DEF first
<1>10. first \in DOMAIN c.rules
  BY <1>5, <1>8
<1>11. c.rules[first].disabled \/ c.rules[first].executor \in Names(c.executors)
  BY <1>10 DEF validRules
<1>12. ~Route(rt, r).disabled => Route(rt, r).executor \in Names(c.executors)
  <2>1. CASE c.rules[first].disabled
    <3>1. Route(rt, r).disabled = rt[first].disabled
      BY <1>9
    <3>2. rt[first].disabled = c.rules[first].disabled
      BY <1>3, <1>10
    <3> QED BY <2>1, <3>1, <3>2
  <2>2. CASE ~c.rules[first].disabled
    <3>1. rt[first].exec = c.rules[first].executor
      BY <1>3, <1>10, <2>2
    <3>2. Route(rt, r).executor = rt[first].exec
      BY <1>9
    <3> QED BY <1>11, <2>2, <3>1, <3>2
  <2> QED BY <2>1, <2>2
<1> QED BY <1>4, <1>12 DEF hits, rt
(***************************************************************************)
(* The file, the process and its SIGHUP goroutine keep to their types: a   *)
(* reload is applied only to a running process and only after Load has     *)
(* accepted the file.                                                      *)
(***************************************************************************)
THEOREM ReloadTypeCorrect == Spec => []TypeOK
<1> USE FileAssumption
<1>1. Init => TypeOK
  BY DEF Init, TypeOK, ValidLevel
<1>2. TypeOK /\ [Next]_vars => TypeOK'
  <2> SUFFICES ASSUME TypeOK, [Next]_vars PROVE TypeOK'
    OBVIOUS
  <2>1. ASSUME NEW f \in File, Edit(f) PROVE TypeOK'
    BY <2>1 DEF TypeOK, Edit
  <2>2. CASE Sighup
    BY <2>2 DEF TypeOK, Sighup
  <2>3. CASE Start
    <3>1. applyDefaults(file) \in ConfigFile
      BY DefaultsType DEF TypeOK
    <3>2. applyDefaults(file).level \in ValidLevel
      BY <2>3 DEF Start, StartError
    <3> QED BY <2>3, <3>1, <3>2 DEF TypeOK, Start
  <2>4. CASE Stop
    BY <2>4 DEF TypeOK, Stop, ValidLevel
  <2>5. CASE TakeSignal
    BY <2>5 DEF TypeOK, TakeSignal
  <2>6. CASE ReloadFile
    BY <2>6 DEF TypeOK, ReloadFile
  <2>7. CASE Apply
    <3> DEFINE c == applyDefaults(newCfg)
    <3>1. newCfg \in File /\ up
      BY <2>7 DEF TypeOK, Apply
    <3>2. c \in ConfigFile /\ cfg \in ConfigFile
      BY <3>1, DefaultsType DEF TypeOK
    <3>3. [cfg EXCEPT !.rules = c.rules] \in ConfigFile
      BY <3>2 DEF ConfigFile
    <3> HIDE DEF c
    <3>4. cfg' \in ConfigFile /\ source' \in File /\ level' \in ValidLevel
      BY <2>7, <3>1, <3>2, <3>3 DEF TypeOK, Apply, c
    <3> QED BY <2>7, <3>1, <3>4 DEF TypeOK, Apply
  <2>8. CASE UNCHANGED vars
    BY <2>8 DEF TypeOK, vars
  <2> QED BY <2>1, <2>2, <2>3, <2>4, <2>5, <2>6, <2>7, <2>8 DEF Next, Handler
<1> QED BY <1>1, <1>2, PTL DEF Spec

(***************************************************************************)
(* The rules in force are those of one accepted file whose platforms and   *)
(* executors are the running ones (main.go:222-250), for all files and all *)
(* interleavings of edits, signals, restarts and reloads.                  *)
(***************************************************************************)
THEOREM ReloadOneFile == Spec => []OneFileInForce
<1>1. Init => OneFileInForce
  BY DEF Init, OneFileInForce
<1>2. TypeOK /\ OneFileInForce /\ [Next]_vars => OneFileInForce'
  <2> SUFFICES ASSUME TypeOK, OneFileInForce, [Next]_vars PROVE OneFileInForce'
    OBVIOUS
  <2>1. ASSUME NEW f \in File, Edit(f) PROVE OneFileInForce'
    BY <2>1 DEF OneFileInForce, Edit
  <2>2. CASE Sighup
    BY <2>2 DEF OneFileInForce, Sighup
  <2>3. CASE Start
    BY <2>3 DEF OneFileInForce, Start
  <2>4. CASE Stop
    BY <2>4 DEF OneFileInForce, Stop
  <2>5. CASE TakeSignal
    BY <2>5 DEF OneFileInForce, TakeSignal
  <2>6. CASE ReloadFile
    BY <2>6 DEF OneFileInForce, ReloadFile
  <2>7. CASE Apply
    <3> DEFINE c == applyDefaults(newCfg)
    <3>1. CASE Refused(c)
      BY <2>7, <3>1 DEF OneFileInForce, Apply
    <3>2. CASE ~Refused(c)
      <4>1. Loads(newCfg) /\ up /\ cfg \in ConfigFile
        BY <2>7 DEF TypeOK, Apply
      <4>2. /\ router' = NewRouter(c.rules)
            /\ cfg' = [cfg EXCEPT !.rules = c.rules]
            /\ source' = newCfg
        BY <2>7, <3>2 DEF Apply
      <4>3. c.platforms = cfg.platforms /\ c.executors = cfg.executors
        BY <3>2 DEF Refused
      <4> HIDE DEF c
      <4>4. /\ cfg'.rules = c.rules
            /\ cfg'.platforms = cfg.platforms
            /\ cfg'.executors = cfg.executors
        BY <4>1, <4>2 DEF ConfigFile
      <4> QED BY <4>1, <4>2, <4>3, <4>4 DEF OneFileInForce, c
    <3> QED BY <3>1, <3>2
  <2>8. CASE UNCHANGED vars
    BY <2>8 DEF OneFileInForce, vars
  <2> QED BY <2>1, <2>2, <2>3, <2>4, <2>5, <2>6, <2>7, <2>8 DEF Next, Handler
<1> QED BY <1>1, <1>2, ReloadTypeCorrect, PTL DEF Spec

(***************************************************************************)
(* With the rules of an accepted file and the executors of the process,    *)
(* Route (router.go:47-58) never falls through and never answers an        *)
(* executor that was not built.                                            *)
(***************************************************************************)
THEOREM ReloadRoutesTotal == Spec => []RoutesTotal
<1>1. TypeOK /\ OneFileInForce => RoutesTotal
  <2> SUFFICES ASSUME TypeOK, OneFileInForce, up, NEW r \in Repo
               PROVE  /\ Hits(router, r) # {}
                      /\ ~Route(router, r).disabled =>
                            Route(router, r).executor \in Names(cfg.executors)
    BY DEF RoutesTotal
  <2> DEFINE c == applyDefaults(source)
  <2>1. c \in ConfigFile
    BY FileAssumption, DefaultsType DEF TypeOK
  <2>2. validRules(c) /\ router = NewRouter(c.rules) /\ cfg.executors = c.executors
    BY DEF OneFileInForce, Loads, validate
  <2> HIDE DEF c
  <2> QED BY <2>1, <2>2, ValidRoutes
<1> QED BY <1>1, ReloadTypeCorrect, ReloadOneFile, PTL

(***************************************************************************)
(* When main.run starts: the cases of StartError, negated.                 *)
(***************************************************************************)
LEMMA StartSucceeds ==
  ASSUME NEW c
  PROVE  StartError(c) = "none" <=>
           /\ c.level \in ValidLevel /\ c.format \in {"json", "text"}
           /\ \A i \in DOMAIN c.executors : c.executors[i].type = "gitlabPipeline" =>
                /\ c.executors[i].templates # "invalid"
                /\ \E j \in DOMAIN c.platforms :
                     c.platforms[j].type = "gitlab" /\ c.platforms[j].name = c.executors[i].platform
           /\ ~NewRouterFails(c.rules, Names(c.executors))
           /\ ~(c.maxConcurrentRuns < 0)
           /\ \A i \in DOMAIN c.platforms : c.platforms[i].schedule # "invalid"
           /\ \A i, j \in DOMAIN c.platforms : i # j => c.platforms[i].path # c.platforms[j].path
BY DEF StartError

(***************************************************************************)
(* What validate checks of the things main.run looks up.                   *)
(***************************************************************************)
LEMMA ValidReferences ==
  ASSUME NEW c, validPlatforms(c), validExecutors(c), validRules(c)
  PROVE  /\ \A i \in DOMAIN c.executors : c.executors[i].type = "gitlabPipeline" =>
              \E j \in DOMAIN c.platforms :
                c.platforms[j].type = "gitlab" /\ c.platforms[j].name = c.executors[i].platform
         /\ ~NewRouterFails(c.rules, Names(c.executors))
         /\ \A i \in DOMAIN c.platforms : c.platforms[i].schedule # "invalid"
<1>1. \A i \in DOMAIN c.executors : c.executors[i].type = "gitlabPipeline" =>
        \E j \in DOMAIN c.platforms :
          c.platforms[j].type = "gitlab" /\ c.platforms[j].name = c.executors[i].platform
  BY DEF validExecutors, validExecutor
<1>2. ~NewRouterFails(c.rules, Names(c.executors))
  BY DEF validRules, NewRouterFails
<1>3. \A i \in DOMAIN c.platforms : c.platforms[i].schedule # "invalid"
  BY DEF validPlatforms, validPlatform
<1> QED BY <1>1, <1>2, <1>3

(***************************************************************************)
(* Of a file that Load accepts, main.run finds every platform, executor    *)
(* and schedule (main.go:119-152, 216).                                    *)
(***************************************************************************)
THEOREM LoadedReferences == Spec => []ReferencesResolve
<1>1. ReferencesResolve
  <2> SUFFICES ASSUME Loads(file)
               PROVE  StartError(applyDefaults(file)) \notin
                        {"platform lookup", "NewRouter", "AddPlatform"}
    BY DEF ReferencesResolve
  <2> DEFINE c == applyDefaults(file)
  <2>1. validPlatforms(c) /\ validExecutors(c) /\ validRules(c)
    BY DEF Loads, validate
  <2> HIDE DEF c
  <2>2. StartError(c) \notin {"platform lookup", "NewRouter", "AddPlatform"}
    BY <2>1, ValidReferences DEF StartError
  <2> QED BY <2>2 DEF c
<1> QED BY <1>1, PTL

(***************************************************************************)
(* Strengthening for ReloadIsRestart: what only a start looks at,          *)
(* templates and webhook paths, is in the parts of the configuration that  *)
(* a reload keeps; the level is that of the last accepted file when it is  *)
(* one.                                                                    *)
(***************************************************************************)
Startable ==
  up => /\ \A i \in DOMAIN cfg.executors :
             cfg.executors[i].type = "gitlabPipeline" => cfg.executors[i].templates # "invalid"
        /\ \A i, j \in DOMAIN cfg.platforms :
             i # j => cfg.platforms[i].path # cfg.platforms[j].path
        /\ applyDefaults(source).level \in ValidLevel => level = applyDefaults(source).level

(***************************************************************************)
(* No reload brings in what main.run could not start from.                 *)
(***************************************************************************)
THEOREM ReloadStartable == Spec => []Startable
<1>1. Init => Startable
  BY DEF Init, Startable
<1>2. TypeOK /\ Startable /\ [Next]_vars => Startable'
  <2> SUFFICES ASSUME TypeOK, Startable, [Next]_vars PROVE Startable'
    OBVIOUS
  <2>1. ASSUME NEW f \in File, Edit(f) PROVE Startable'
    BY <2>1 DEF Startable, Edit
  <2>2. CASE Sighup
    BY <2>2 DEF Startable, Sighup
  <2>3. CASE Start
    <3> DEFINE c == applyDefaults(file)
    <3>1. StartError(c) = "none" /\ cfg' = c /\ source' = file /\ level' = c.level
      BY <2>3 DEF Start
    <3>2. /\ \A i \in DOMAIN c.executors :
               c.executors[i].type = "gitlabPipeline" => c.executors[i].templates # "invalid"
          /\ \A i, j \in DOMAIN c.platforms : i # j => c.platforms[i].path # c.platforms[j].path
      <4> HIDE DEF c
      <4> QED BY <3>1, StartSucceeds
    <3> QED BY <3>1, <3>2 DEF Startable
  <2>4. CASE Stop
    BY <2>4 DEF Startable, Stop
  <2>5. CASE TakeSignal
    BY <2>5 DEF Startable, TakeSignal
  <2>6. CASE ReloadFile
    BY <2>6 DEF Startable, ReloadFile
  <2>7. CASE Apply
    <3> DEFINE c == applyDefaults(newCfg)
    <3>1. CASE Refused(c)
      BY <2>7, <3>1 DEF Startable, Apply
    <3>2. CASE ~Refused(c)
      <4>1. up /\ cfg \in ConfigFile
        BY <2>7 DEF TypeOK, Apply
      <4>2. /\ cfg' = [cfg EXCEPT !.rules = c.rules]
            /\ source' = newCfg
            /\ c.level \in ValidLevel => level' = c.level
        BY <2>7, <3>2 DEF Apply
      <4> HIDE DEF c
      <4>3. cfg'.platforms = cfg.platforms /\ cfg'.executors = cfg.executors
        BY <4>1, <4>2 DEF ConfigFile
      <4> QED BY <4>1, <4>2, <4>3 DEF Startable, c
    <3> QED BY <3>1, <3>2
  <2>8. CASE UNCHANGED vars
    BY <2>8 DEF Startable, vars
  <2> QED BY <2>1, <2>2, <2>3, <2>4, <2>5, <2>6, <2>7, <2>8 DEF Next, Handler
<1> QED BY <1>1, <1>2, ReloadTypeCorrect, PTL DEF Spec

(***************************************************************************)
(* The file of the last accepted reload could be started from              *)
(* (main.go:66-219), and would give the same log level.                    *)
(***************************************************************************)
THEOREM ReloadRestarts == Spec => []ReloadIsRestart
<1>1. TypeOK /\ OneFileInForce /\ Startable => ReloadIsRestart
  <2> DEFINE c == applyDefaults(source)
  <2> SUFFICES ASSUME TypeOK, OneFileInForce, Startable, up, GoodServer(c)
               PROVE  StartError(c) = "none" /\ level = c.level
    BY DEF ReloadIsRestart
  <2>1. c.level \in ValidLevel /\ c.format \in {"json", "text"} /\ c.maxConcurrentRuns >= 0
    BY DEF GoodServer
  <2>2. /\ validPlatforms(c) /\ validExecutors(c) /\ validRules(c)
        /\ cfg.platforms = c.platforms /\ cfg.executors = c.executors
    BY DEF OneFileInForce, Loads, validate
  <2>3. /\ \A i \in DOMAIN c.executors :
             c.executors[i].type = "gitlabPipeline" => c.executors[i].templates # "invalid"
        /\ \A i, j \in DOMAIN c.platforms : i # j => c.platforms[i].path # c.platforms[j].path
        /\ level = c.level
    BY <2>1, <2>2 DEF Startable
  <2> HIDE DEF c
  <2>4. ~(c.maxConcurrentRuns < 0)
    <3>1. c.maxConcurrentRuns \in Int
      BY FileAssumption, DefaultsType DEF TypeOK, ConfigFile, c
    <3> QED BY <2>1, <3>1
  <2> QED BY <2>1, <2>2, <2>3, <2>4, ValidReferences, StartSucceeds
<1> QED BY <1>1, ReloadTypeCorrect, ReloadOneFile, ReloadStartable, PTL
=============================================================================
