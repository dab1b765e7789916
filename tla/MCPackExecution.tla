--------------------------- MODULE MCPackExecution ---------------------------
(* Instances of PackExecution.  The packs are 1, a built-in owner such as     *)
(* maintainability; 2, the supplemental secrets pack; 3, a pack of the        *)
(* repository, which may replace 1; and 4, which others depend on.            *)
EXTENDS PackExecution, Integers

MCBase == <<1, 0>>

Command(checker, stages) == [checker |-> checker, stages |-> stages, needs |-> "none"]

Plain == [builtin |-> FALSE, active |-> TRUE, blocking |-> TRUE, owner |-> TRUE, always |-> FALSE,
          contract |-> TRUE, failFast |-> TRUE, stages |-> {"pre-commit", "pre-push"}, globs |-> {1},
          depends |-> {}, replaces |-> {}, commands |-> <<Command("own", {})>>]

Owner   == [Plain EXCEPT !.builtin = TRUE, !.globs = {1, 2}, !.commands = <<Command("scoped", {})>>]
Secrets == [Plain EXCEPT !.builtin = TRUE, !.globs = {1, 2}, !.owner = FALSE,
                         !.commands = <<Command("secrets", {})>>]
Helper  == [Plain EXCEPT !.blocking = FALSE, !.globs = {}, !.failFast = FALSE,
              !.commands = <<Command("own", {}), [Command("own", {"pre-push"}) EXCEPT !.needs = "body"]>>]

Targets == {[Plain EXCEPT !.globs = globs, !.replaces = replaces, !.depends = depends,
                          !.stages = stages, !.blocking = blocking] :
              globs \in {{1}, {1, 2}}, replaces \in {{}, {1}, {2}}, depends \in {{}, {4}},
              stages \in {{"pre-push"}, {"pre-commit", "pre-push"}}, blocking \in BOOLEAN}

\* What the planner decides on: every target pack, with what 4 depends on.
PlanConfigs == {<<Owner, Secrets, target, [Helper EXCEPT !.depends = depends]>> :
                  target \in Targets, depends \in {{}, {1}, {3}}}
\* What execution meets: a chain 3 -> 4, the secrets pack, and two runs.
ChainConfig == <<Owner, Secrets, [Plain EXCEPT !.globs = {1, 2}, !.replaces = {1}, !.depends = {4}], Helper>>
TwinConfig  == <<[Plain EXCEPT !.globs = {1, 2}]>>
\* Packs that always run, as the built-in ones for commit messages do.
AlwaysConfig == <<Owner, [Secrets EXCEPT !.always = TRUE],
                  [Plain EXCEPT !.replaces = {1}, !.always = TRUE, !.globs = {1, 2}], Helper>>
\* One that is refused: nobody may take over from the secrets pack.
IdleConfig == <<Owner, Secrets, [Plain EXCEPT !.replaces = {2}], Helper>>
MCConfigs == PlanConfigs \cup {ChainConfig, TwinConfig, AlwaysConfig}

Ask(stage, mode, named) ==
  [stage |-> stage, mode |-> mode, staged |-> FALSE, paths |-> {}, base |-> FALSE,
   named |-> named, given |-> {}]
Based(stage, paths) == [Ask(stage, "impacted", {}) EXCEPT !.base = TRUE, !.paths = paths]
Idle == Ask(NoStage, "impacted", {})

\* The second run only takes part under TwinConfig.
Alone(asked) == [r \in Runs |-> IF r = 1 THEN asked ELSE NoRequest]
MCRequests ==
  [c \in MCConfigs |->
     IF c = TwinConfig
     THEN {[r \in Runs |-> Ask("pre-push", "all", {})]}
     ELSE IF c = ChainConfig
     THEN {Alone(asked) : asked \in
             {Ask("pre-push", "all", {}), [Ask("pre-commit", "impacted", {}) EXCEPT !.staged = TRUE],
              Based("pre-push", {1}), [Based("pre-push", {}) EXCEPT !.given = {"body"}],
              Ask(NoStage, "impacted", {2, 4}), Ask("pre-push", "impacted", {})}}
     ELSE IF c = IdleConfig THEN {Alone(NoRequest)}
     ELSE {Alone(Idle)}]
MCPlanRequests ==
  [stage : {"pre-commit", "pre-push", NoStage}, mode : {"impacted", "all"}, paths : SUBSET Paths,
   named : {{}, {1}, {3}, {2, 4}}]

MCStarts == {[work |-> <<2, 2>>, index |-> <<2, 0>>]}

Ended(exit, term, parsed, status, findings) ==
  [exit |-> exit, term |-> term, parsed |-> parsed, status |-> status, findings |-> findings]
MCResults ==
  {Ended(0, "completed", TRUE, "passed", {}),
   Ended(1, "completed", TRUE, "failed", {"text"}),
   Ended(124, "timeout", FALSE, "none", {})}
=============================================================================
