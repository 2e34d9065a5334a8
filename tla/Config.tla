--------------------------------- MODULE Config ---------------------------------
(***************************************************************************)
(* The configuration file, from internal/config/load.go to the routes of   *)
(* internal/dispatch/router.go.                                            *)
(*                                                                         *)
(* A file is a record of the fields that steer something; a string field   *)
(* that is not set is "".  Only whether Load accepts a file matters, not   *)
(* which of its errors it reports, so the checks of validate are one       *)
(* conjunction per section.                                                *)
(***************************************************************************)
EXTENDS Integers, Sequences

CONSTANTS
    Repo,           \* full names of repositories
    ValidPattern,   \* the patterns that doublestar.ValidatePattern accepts
    Matches,        \* Matches[p]: the repositories that pattern p matches
    Environ         \* the variables set in the environment of the process

CatchAll == "**"

\* doublestar: the catch-all matches every name, a pattern that is no pattern none.
ASSUME PatternAssumption ==
    /\ CatchAll \in ValidPattern
    /\ Matches[CatchAll] = Repo

(***************************************************************************)
(* The sections of the file (config.go); Server's fields are in the root.  *)
(***************************************************************************)
PlatformConfig ==
    [name : STRING, type : STRING, token : STRING, path : STRING, secret : STRING,
     signingSecret : STRING,             \* "whsec_" stands for every secret that begins so
     events : SUBSET STRING,
     schedule : STRING,                  \* "invalid": a timezone or crontab that is none
     dashboardIssueTitle : STRING]

ExecutorConfig ==
    [name : STRING, type : STRING, platform : STRING, project : STRING, ref : STRING,
     triggerToken : STRING, templates : STRING, namespace : STRING, image : STRING,
     resources : STRING]                 \* "invalid": templates, quantities that do not parse

RuleConfig == [match : STRING, executor : STRING, disabled : BOOLEAN]

ConfigFile ==
    [readable : BOOLEAN,                 \* it is there, and decodes into the fields below
     refs : SUBSET STRING,               \* the variables it refers to
     listen : STRING, level : STRING, format : STRING, store : STRING, redisURL : STRING,
     maxConcurrentRuns : Int,
     platforms : Seq(PlatformConfig), executors : Seq(ExecutorConfig), rules : Seq(RuleConfig)]

------------------------------------------------------------------------------
Default(v, d) == IF v = "" THEN d ELSE v

\* True of any strings; the provers know nothing of STRING, the proofs cite this instead.
ASSUME DefaultsAreStrings ==
    {":8080", "info", "json", "memory", "Dependency Dashboard", "main"} \subseteq STRING

\* The defaults, of the fields the model has.
applyDefaults(c) ==
    [c EXCEPT
       !.listen            = Default(@, ":8080"),
       !.level             = Default(@, "info"),
       !.format            = Default(@, "json"),
       !.store             = Default(@, "memory"),
       !.maxConcurrentRuns = IF @ = 0 THEN 4 ELSE @,
       !.platforms = [i \in DOMAIN c.platforms |->
           [c.platforms[i] EXCEPT !.dashboardIssueTitle = Default(@, "Dependency Dashboard")]],
       !.executors = [i \in DOMAIN c.executors |->
           [c.executors[i] EXCEPT
              !.ref = IF c.executors[i].type = "gitlabPipeline" THEN Default(@, "main") ELSE @]]]

------------------------------------------------------------------------------
(***************************************************************************)
(* validate.                                                               *)
(***************************************************************************)
Names(s) == {s[i].name : i \in DOMAIN s}

\* Names are given, and given once.
Named(s) ==
    /\ "" \notin Names(s)
    /\ \A i, j \in DOMAIN s : s[i].name = s[j].name => i = j

validStore(c) == c.store = "memory" \/ (c.store = "redis" /\ c.redisURL # "")

validPlatform(p) ==
    /\ p.type \in {"gitlab", "github"}
    /\ p.token # "" /\ p.path # ""
    /\ p.type = "github" => p.secret # "" /\ p.signingSecret = ""
    /\ p.type = "gitlab" => /\ p.secret # "" \/ p.signingSecret # ""
                            /\ p.signingSecret \in {"", "whsec_"}
    /\ p.events \subseteq {"merge_request", "issue", "push"}
    /\ p.schedule # "invalid"

validPlatforms(c) ==
    /\ c.platforms # <<>>
    /\ Named(c.platforms)
    /\ \A i \in DOMAIN c.platforms : validPlatform(c.platforms[i])

\* Mutation: a reference to a platform of the other type passes.
validExecutorAnyPlatform(c, e) ==
    \/ /\ e.type = "gitlabPipeline"
       /\ e.platform \in Names(c.platforms)
       /\ e.project # "" /\ e.triggerToken # ""
    \/ e.type = "kubernetes" /\ e.namespace # "" /\ e.image # "" /\ e.resources # "invalid"
    \/ e.type = "docker" /\ e.image # ""
    \/ e.type = "noop"

\* A gitlabPipeline executor refers to a platform, and to one of type gitlab.
validExecutor(c, e) ==
    \/ /\ e.type = "gitlabPipeline"
       /\ \E i \in DOMAIN c.platforms :
            c.platforms[i].name = e.platform /\ c.platforms[i].type = "gitlab"
       /\ e.project # "" /\ e.triggerToken # ""
    \/ e.type = "kubernetes" /\ e.namespace # "" /\ e.image # "" /\ e.resources # "invalid"
    \/ e.type = "docker" /\ e.image # ""
    \/ e.type = "noop"

validExecutors(c) ==
    /\ Named(c.executors)
    /\ \A i \in DOMAIN c.executors : validExecutor(c, c.executors[i])

\* Mutation: the catch-all may be any rule that is not disabled.
validRulesNoCatchAll(c) ==
    /\ \A i \in DOMAIN c.rules :
         /\ c.rules[i].match \in ValidPattern
         /\ c.rules[i].disabled \/ c.rules[i].executor \in Names(c.executors)
    /\ \E i \in DOMAIN c.rules : ~c.rules[i].disabled

\* Well-formed patterns, known executors (a disabled rule needs none), a catch-all.
validRules(c) ==
    /\ \A i \in DOMAIN c.rules :
         /\ c.rules[i].match \in ValidPattern
         /\ c.rules[i].disabled \/ c.rules[i].executor \in Names(c.executors)
    /\ \E i \in DOMAIN c.rules : c.rules[i].match = CatchAll

validate(c) == validStore(c) /\ validPlatforms(c) /\ validExecutors(c) /\ validRules(c)

\* Load accepts file f: it can be read, its variables are set, it is valid.
\* Fields that the schema does not have are no error: root.Decode skips them.
Loads(f) == f.readable /\ f.refs \subseteq Environ /\ validate(applyDefaults(f))

------------------------------------------------------------------------------
(***************************************************************************)
(* The router.                                                             *)
(***************************************************************************)

\* NewRouter finds no executor for a rule.
NewRouterFails(rules, executors) ==
    \E i \in DOMAIN rules : ~rules[i].disabled /\ rules[i].executor \notin executors

\* The compiled rules; a disabled one has no executor.
NewRouter(rules) ==
    [i \in DOMAIN rules |->
       [pattern  |-> rules[i].match,
        disabled |-> rules[i].disabled,
        exec     |-> IF rules[i].disabled THEN "" ELSE rules[i].executor]]

\* The rules whose pattern matches; doublestar.Match fails on an invalid pattern.
Hits(router, r) ==
    {i \in DOMAIN router : router[i].pattern \in ValidPattern /\ r \in Matches[router[i].pattern]}

\* Route: the first rule that matches; when none does, disabled.
Route(router, r) ==
    IF Hits(router, r) = {}
      THEN [executor |-> "", disabled |-> TRUE]
      ELSE LET first == CHOOSE i \in Hits(router, r) : \A j \in Hits(router, r) : i <= j
           IN  [executor |-> router[first].exec, disabled |-> router[first].disabled]

------------------------------------------------------------------------------
(***************************************************************************)
(* What main.run makes of a configuration that Load accepted, in its       *)
(* order: the first step that fails, or "none".  Its surroundings are in   *)
(* order: base URLs parse, redis answers, the clients can be built.        *)
(***************************************************************************)
ValidLevel == {"debug", "info", "warn", "error"}

StartError(c) ==
    CASE c.level \notin ValidLevel \/ c.format \notin {"json", "text"} -> "newLogger"
      [] \E i \in DOMAIN c.executors :
           /\ c.executors[i].type = "gitlabPipeline"
           /\ ~\E j \in DOMAIN c.platforms :
                c.platforms[j].type = "gitlab" /\ c.platforms[j].name = c.executors[i].platform
         -> "platform lookup"
      [] \E i \in DOMAIN c.executors :
           c.executors[i].type = "gitlabPipeline" /\ c.executors[i].templates = "invalid"
         -> "templates"
      [] NewRouterFails(c.rules, Names(c.executors)) -> "NewRouter"
      [] c.maxConcurrentRuns < 0 -> "make(chan)"
      [] \E i \in DOMAIN c.platforms : c.platforms[i].schedule = "invalid" -> "AddPlatform"
      [] \E i, j \in DOMAIN c.platforms :
           i # j /\ c.platforms[i].path = c.platforms[j].path -> "mux"
      [] OTHER -> "none"
================================================================================
