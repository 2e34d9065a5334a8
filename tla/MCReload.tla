-------------------------------- MODULE MCReload --------------------------------
(***************************************************************************)
(* A small instance of Reload: two repositories, and a set of files around *)
(* one that is valid, each with one thing changed.                         *)
(***************************************************************************)
EXTENDS Reload

MCRepo == {"team/app", "other/lib"}
MCValidPattern == {"**", "team/*", "other/*"}
MCMatches ==
    [p \in MCValidPattern |->
       CASE p = "**"     -> MCRepo
         [] p = "team/*" -> {"team/app"}
         [] OTHER        -> {"other/lib"}]

gitlab == [name |-> "gl", type |-> "gitlab", token |-> "t", path |-> "/gl", secret |-> "s",
           signingSecret |-> "", events |-> {"push"}, schedule |-> "daily",
           dashboardIssueTitle |-> ""]
github == [gitlab EXCEPT !.name = "gh", !.type = "github", !.path = "/gh"]

pipeline == [name |-> "ci", type |-> "gitlabPipeline", platform |-> "gl", project |-> "p",
             triggerToken |-> "t", ref |-> "", templates |-> "", namespace |-> "",
             image |-> "", resources |-> ""]
docker == [pipeline EXCEPT !.name = "local", !.type = "docker", !.image = "renovate"]

To(p, e) == [match |-> p, executor |-> e, disabled |-> FALSE]
Off(p) == [match |-> p, executor |-> "gone", disabled |-> TRUE]

Base ==
    [readable |-> TRUE, refs |-> {"TOKEN"}, listen |-> "", level |-> "", format |-> "",
     store |-> "", redisURL |-> "", maxConcurrentRuns |-> 0,
     platforms |-> <<gitlab, github>>, executors |-> <<pipeline, docker>>,
     rules |-> <<To("**", "ci")>>]

MCFile ==
    {Base,
     \* accepted reloads
     [Base EXCEPT !.rules = <<To("team/*", "local"), To("**", "ci")>>],
     [Base EXCEPT !.rules = <<To("**", "local"), To("team/*", "ci"), Off("**")>>],
     [Base EXCEPT !.rules = <<Off("**")>>, !.level = "debug"],
     [Base EXCEPT !.listen = ":9090"],
     [Base EXCEPT !.platforms[1].dashboardIssueTitle = "Dependency Dashboard",
                  !.executors[1].ref = "main", !.level = "warn"],
     [Base EXCEPT !.level = "loud", !.rules = <<Off("other/*"), To("**", "ci")>>],
     [Base EXCEPT !.maxConcurrentRuns = -1],
     \* refused reloads
     [Base EXCEPT !.executors = <<pipeline>>],
     [Base EXCEPT !.executors[2].name = "host", !.rules = <<To("**", "host")>>],
     [Base EXCEPT !.platforms = <<gitlab>>],
     [Base EXCEPT !.executors[1].templates = "invalid"],
     [Base EXCEPT !.platforms[2].path = "/gl"],
     \* rejected by Load
     [Base EXCEPT !.refs = {"UNSET"}],
     [Base EXCEPT !.rules = <<To("team/*", "ci")>>],
     [Base EXCEPT !.rules = <<To("**", "gone")>>],
     [Base EXCEPT !.executors[1].platform = "gh"],
     [Base EXCEPT !.platforms[2].schedule = "invalid"]}
================================================================================
