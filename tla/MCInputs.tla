------------------------------ MODULE MCInputs ------------------------------
(* Bounded inputs of the algorithms that keep no state (what a task is      *)
(* routed to, a repository's surface graph, an owner's releases), and what  *)
(* people write into a documentation catalog and a registry of decisions.   *)
EXTENDS ContextRouting, SurfaceAudit, ReleaseDiscovery, TLC

MCWeights == [path |-> 3, product |-> 2, prompt |-> 1]
Budget(primary, active, expansion, total) ==
  ("primary" :> primary @@ "active-plan" :> active @@ "expansion" :> expansion @@ "total" :> total)
MCDefaultBudget == Budget(3, 1, 1, 4)

RouterEntry == [id |-> "router", path |-> "router", pack |-> "none", capability |-> "none", included |-> TRUE,
          mode |-> "route", level |-> "required", applicable |-> FALSE, excluded |-> FALSE,
          trigger |-> "none", facts |-> "met", conflicts |-> {}]
Leaf(id) == [RouterEntry EXCEPT !.id = id, !.path = id, !.pack = "pack", !.applicable = TRUE]
Route == [NoRoute EXCEPT !.paths = 1, !.primary = <<"a">>, !.activePlan = <<"b">>, !.skills = <<"router">>,
                         !.budget = Budget(2, 1, 1, 4)]

Case == [routes |-> <<Route>>, defaults |-> <<>>, defaultSkills |-> <<>>, tie |-> 1, secondaries |-> 1, expand |-> FALSE,
         size |-> [p \in {"a", "b", "c"} |-> 1], facts |-> TRUE, evaluation |-> FALSE,
         entries |-> <<RouterEntry>>, packs |-> <<[id |-> "pack", router |-> "router"]>>,
         files |-> [id \in {"router", "l", "m", "own"} |-> "canonical"],
         skillSize |-> [id \in {"router", "l", "m", "own"} |-> 1]]

Scores == {[Route EXCEPT !.paths = paths, !.products = products, !.prompts = prompts] :
             paths \in 0 .. 1, products \in 0 .. 1, prompts \in 0 .. 2}
RouteCases ==
  {[Case EXCEPT !.routes = <<r, [s EXCEPT !.primary = <<"c">>]>>, !.tie = tie, !.secondaries = secondaries] :
     r \in Scores, s \in Scores, tie \in {0, 2}, secondaries \in {0, 1}}
SourceCases ==
  {[Case EXCEPT !.size = size, !.expand = expand, !.defaults = defaults,
                !.routes = <<[Route EXCEPT !.expansion = expansion, !.budget = Budget(p, 1, 1, t)]>>] :
     size \in [{"a", "b", "c"} -> 0 .. 2], expand \in BOOLEAN, defaults \in {<<>>, <<"b">>, <<"c", "a">>},
     expansion \in {<<"c">>, <<"a", "c">>}, p \in 1 .. 3, t \in 2 .. 4}
LeafEntries(id, conflicts) ==
  {[Leaf(id) EXCEPT !.level = level, !.facts = facts, !.conflicts = c, !.trigger = trigger] :
     level \in {"required", "recommended", "evaluation"}, facts \in {"met", "missing"}, c \in {{}, conflicts},
     trigger \in {"met", "unmet"}}
LeafCases ==
  {[Case EXCEPT !.entries = <<RouterEntry, l, m>>, !.facts = facts, !.routes[1].budget = Budget(2, 1, 1, t)] :
     l \in LeafEntries("l", {"m"}), m \in LeafEntries("m", {"l"}), facts \in BOOLEAN, t \in {4, 6}}
OddLeaves == {[Leaf("l") EXCEPT !.excluded = TRUE], [Leaf("l") EXCEPT !.applicable = FALSE], [Leaf("l") EXCEPT !.facts = "mismatched"],
              [Leaf("l") EXCEPT !.mode = "evaluation-only"], [Leaf("l") EXCEPT !.included = FALSE],
              [Leaf("l") EXCEPT !.pack = "other"], [Leaf("l") EXCEPT !.id = "m"], [Leaf("l") EXCEPT !.path = "m"]}
SkillCases ==
  {[Case EXCEPT !.entries = <<[RouterEntry EXCEPT !.mode = mode], l, Leaf("m")>>, !.evaluation = evaluation, !.defaultSkills = declared,
                !.files = ("router" :> f @@ "l" :> g @@ "m" :> "canonical" @@ "own" :> own), !.packs[1].router = router,
                !.routes[1].budget = Budget(2, 1, 1, 6)] :
     l \in OddLeaves \cup {Leaf("l")}, mode \in {"route", "evaluation-only"}, evaluation \in BOOLEAN,
     declared \in {<<>>, <<"own", "l">>}, f \in {"canonical", "stale", "missing", "large"}, g \in {"canonical", "stale", "large"},
     own \in {"stale", "missing"}, router \in {"router", "none", "elsewhere"}}
MCSkillIds == {"router", "l", "m", "own"}
MCTasks == RouteCases \cup SourceCases \cup LeafCases \cup SkillCases

Part(roles, claims, broken) == [roles |-> roles, claims |-> claims, broken |-> broken]
Shared == {Part(roles, claims, broken) : roles \in {{}, {"r1"}}, claims \in {{}, {"c1"}}, broken \in BOOLEAN}
Native == {Part(roles, claims, FALSE) : roles \in {{}, {"r2"}, {"r1", "r2"}}, claims \in SUBSET {"c1", "c2"}}
             \cup {Part({"r2"}, {"c2"}, TRUE)}
Projections == {{}} \cup {{[part |-> Part(roles, claims, FALSE), targets |-> targets]} :
                            roles \in {{}, {"r2"}}, claims \in {{}, {"c2"}}, targets \in {{"android"}, {"ios"}, {"elsewhere"}}}
To(target, gap, part) == [target |-> target, gap |-> gap, part |-> part]
RouteLists == {<<>>} \cup {<<To("android", gap, part)>> : gap \in {"none", "implementation", "proof"}, part \in Native}
                \cup {<<To("android", "none", part), To(other, "none", Part({"r2"}, {"c1", "c2"}, FALSE))>> :
                        part \in Native, other \in {"ios", "android", "elsewhere"}}
Areas == {[id |-> "area", validation |-> v[1], contract |-> contract, shared |-> shared, projections |-> projections, routes |-> routes,
           roles |-> v[2], claims |-> v[3], targetClaims |-> v[4]] :
            v \in {<<"route", {}, {}, {}>>, <<"guarded", {"r1", "r2"}, {"c1", "c2"}, {"c2"}>>, <<"guarded", {"r1"}, {"c1"}, {"c2"}>>},
            contract \in BOOLEAN, shared \in Shared, projections \in Projections, routes \in RouteLists}
Graph == [readable |-> TRUE, targets |-> {"android"}, areas |-> <<>>, invocations |-> <<"kmp">>, selected |-> TRUE, routed |-> TRUE]
WholeArea == [id |-> "area", validation |-> "guarded", contract |-> TRUE, shared |-> Part({"r1"}, {"c1"}, FALSE), projections |-> {},
              routes |-> <<To("android", "none", Part({"r2"}, {"c2"}, FALSE))>>,
              roles |-> {"r1", "r2"}, claims |-> {"c1", "c2"}, targetClaims |-> {"c2"}]
MCGraphs == {[Graph EXCEPT !.targets = targets, !.areas = <<area>>] : area \in Areas, targets \in {{"android"}, {"android", "ios"}}}
              \cup {[Graph EXCEPT !.readable = readable, !.areas = areas, !.invocations = invocations,
                                  !.selected = selected, !.routed = routed] :
                       readable \in BOOLEAN, areas \in {<<>>, <<WholeArea>>, <<WholeArea, [WholeArea EXCEPT !.id = "other"]>>, <<WholeArea, WholeArea>>},
                       invocations \in {<<>>, <<"kmp">>, <<"kmp", "kmp">>, <<"kmp", "mine">>, <<"mine">>},
                       selected \in BOOLEAN, routed \in BOOLEAN}

Release(major, minor) ==
  [tag |-> <<major, minor>>, stable |-> TRUE, immutable |-> TRUE, assets |-> TRUE, automatic |-> TRUE, identity |-> TRUE,
   reachable |-> TRUE, agrees |-> TRUE, from |-> <<1, 0>>, before |-> <<2, 0>>]
Variants(r) ==
  {r, [r EXCEPT !.stable = FALSE], [r EXCEPT !.immutable = FALSE], [r EXCEPT !.automatic = FALSE], [r EXCEPT !.reachable = FALSE],
   [r EXCEPT !.from = <<1, 2>>], [r EXCEPT !.before = <<1, 1>>], [r EXCEPT !.identity = FALSE],
   [r EXCEPT !.agrees = FALSE], [r EXCEPT !.immutable = FALSE, !.reachable = FALSE]}
Listings == {<<>>} \cup {<<r>> : r \in Variants(Release(1, 2)) \cup Variants(Release(1, 1)) \cup Variants(Release(2, 0))}
              \cup {<<r, s>> : r \in Variants(Release(1, 3)) \cup Variants(Release(2, 0)), s \in Variants(Release(1, 2)) \cup {Release(1, 0)}}
              \cup {<<r, s, t>> : r \in Variants(Release(1, 4)), s \in Variants(Release(1, 3)), t \in Variants(Release(1, 2))}
              \cup {<<Release(1, 4), Release(1, 3), Release(1, 2), Release(1, 1)>>}
Forgotten == [key |-> <<0, 0>>, answer |-> Answer("deferred", NoVersion), at |-> 0, listing |-> <<>>, release |-> Release(1, 1)]
\* An answer another session kept: of the version it then used, and any age.
Kept == {LET answer == Discover(key, listing)
             chosen == {r \in ToSet(listing) : r.tag = answer.version}
         IN [key |-> key, answer |-> answer, at |-> at, listing |-> listing,
             release |-> IF chosen = {} THEN Release(1, 1) ELSE CHOOSE r \in chosen : TRUE] :
           key \in {<<1, 1>>, <<1, 2>>}, at \in {0, 2}, listing \in Listings}
MCDiscoveries ==
  {[current |-> current, releases |-> releases, cached |-> Forgotten, now |-> 1, lifetime |-> 2] :
     current \in {<<1, 1>>, <<1, 2>>}, releases \in Listings}
  \cup {[current |-> <<1, 1>>, releases |-> releases, cached |-> kept, now |-> now, lifetime |-> 2] :
     releases \in {<<>>, <<Release(1, 2)>>}, kept \in {k \in Kept : k.answer.status # "deferred"}, now \in {1, 3}}

\* What is tried are inputs of the kinds the theorems are about.
ASSUME InputAssumption ==
  /\ MCTasks \subseteq Tasks({"a", "b", "c"}, MCSkillIds, MCSkillIds \cup {"pack", "none", "elsewhere", "other"})
  /\ MCGraphs \subseteq GraphShapes({"r1", "r2"}, {"c1", "c2"}, {"android", "ios", "elsewhere"}, {"area", "other"}, {"kmp", "mine"})
  /\ MCDiscoveries \subseteq Inquiries

Capability(id, alias, symbol, reference) ==
  [id |-> id, aliases |-> {alias}, symbols |-> {symbol}, reference |-> reference, guides |-> {"g"}, sources |-> {}, wellFormed |-> TRUE]
One == Capability("a", "x", "f", "ra")
Two == Capability("b", "y", "h", "rb")
MCCatalogs == {<<One>>, <<One, Two>>, <<One, [Two EXCEPT !.aliases = {"a"}]>>, <<[Two EXCEPT !.symbols = {"f"}], One>>,
               <<One, [Two EXCEPT !.wellFormed = FALSE]>>}

Judged(unit, disposition, responsibility) ==
  [unit |-> unit, disposition |-> disposition, responsibility |-> responsibility, approved |-> 1, bytes |-> 0, supersedes |-> 0, expires |-> 0]
Waiver(unit, responsibility, bytes, supersedes, approved, expires) ==
  [unit |-> unit, disposition |-> "temporary-waiver", responsibility |-> responsibility, approved |-> approved,
   bytes |-> bytes, supersedes |-> supersedes, expires |-> expires]
MCDispositions ==
  {Judged(unit, d, "x") : unit \in {"p", "q"}, d \in {"refactor-required", "cohesion-accepted"}}
  \cup {Judged("p", d, "y") : d \in {"refactor-required", "cohesion-accepted"}}
  \cup {Waiver("p", "x", 1, 0, 1, 1), Waiver("p", "x", 1, 0, 1, 2), Waiver("p", "x", 2, 1, 1, 2), Waiver("p", "x", 2, 1, 0, 2),
         Waiver("q", "y", 1, 0, 1, 2)}
  \cup {[Judged("p", "waiver-resolved", responsibility) EXCEPT !.supersedes = 1] : responsibility \in {"x", "y"}}
=============================================================================
