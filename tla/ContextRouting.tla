--------------------------- MODULE ContextRouting ---------------------------
(***************************************************************************)
(* What a task's context is resolved to: one route by score, its sources   *)
(* within byte budgets, the skills it declares and the ones its packs add, *)
(* and what blocks the result (context.py resolve_context,                 *)
(* skill_selection.py, skill_catalog.py).                                  *)
(*                                                                         *)
(* A request c is the profile, the catalog and the checkout together:      *)
(*   c.routes     routes in the order of their ids: how many paths, product*)
(*                and prompt terms match, their sources and their skills   *)
(*   c.defaults, c.defaultSkills, c.tie, c.secondaries, c.expand           *)
(*   c.size       bytes of each source, 0 when there is none               *)
(*   c.entries, c.packs   the packaged catalog: skills in order, and packs *)
(*                with the path of their router                            *)
(*   c.facts      whether the repository states its skill facts            *)
(*   c.evaluation whether evaluation-only skills are asked for             *)
(* Scoring of optional sources by a service is in ContextDelivery.         *)
(***************************************************************************)
EXTENDS Integers, FiniteSets, Sequences, SequencesExt, FiniteSetsExt, Functions

CONSTANTS MaxSkillBytes, \* the cap of one skill and of all
          Weights,       \* of a changed path, a product term and a prompt term
          DefaultBudget  \* bytes of each group and in total, for a route without its own

Groups == {"primary", "active-plan", "expansion"}
Budgets == [Groups \cup {"total"} -> Nat]

ASSUME RoutingAssumption ==
  MaxSkillBytes \in Nat /\ Weights \in [{"path", "product", "prompt"} -> Nat] /\ DefaultBudget \in Budgets

-----------------------------------------------------------------------------
(* The route. *)

RouteScore(route) == route.paths * Weights.path + route.products * Weights.product + route.prompts * Weights.prompt

\* Of two routes the one of the higher score, of equal ones the first by its id.
RankedAhead(c, i, j) ==
  LET score(k) == RouteScore(c.routes[k]) IN score(i) > score(j) \/ (score(i) = score(j) /\ i < j)
BestRoute(c) == CHOOSE i \in DOMAIN c.routes : \A j \in DOMAIN c.routes \ {i} : RankedAhead(c, i, j)

\* The next best within the tie threshold are secondary; a secondary one of the
\* best score makes the choice ambiguous.
SelectRouteFirst(c) ==                                                     \* faulty
  IF c.routes = <<>> \/ RouteScore(c.routes[BestRoute(c)]) <= 0
  THEN [outcome |-> "fallback", route |-> 0, secondary |-> {}]
  ELSE [outcome |-> "matched", route |-> BestRoute(c), secondary |-> {}]
SelectRoute(c) ==
  LET best == BestRoute(c)
      score(i) == RouteScore(c.routes[i])
      near == {i \in DOMAIN c.routes \ {best} : score(i) > 0 /\ score(best) - score(i) <= c.tie}
      secondary == {i \in near : Cardinality({j \in near : RankedAhead(c, j, i)}) < c.secondaries}
  IN IF c.routes = <<>> \/ score(best) <= 0
     THEN [outcome |-> "fallback", route |-> 0, secondary |-> {}]
     ELSE [outcome |-> IF \E i \in secondary : score(i) = score(best) THEN "ambiguous" ELSE "matched",
           route |-> best, secondary |-> secondary]

NoRoute == [paths |-> 0, products |-> 0, prompts |-> 0,
            primary |-> <<>>, activePlan |-> <<>>, expansion |-> <<>>, skills |-> <<>>,
            budget |-> DefaultBudget]
RouteOf(c, decision) == IF decision.route = 0 THEN NoRoute ELSE c.routes[decision.route]

\* What is declared, in the order of the groups.
Declared(c, decision) ==
  LET route == RouteOf(c, decision)
      in(group, paths) == [i \in DOMAIN paths |-> [group |-> group, path |-> paths[i]]]
  IN in("primary", c.defaults \o route.primary) \o in("active-plan", route.activePlan)
       \o in("expansion", IF c.expand THEN route.expansion ELSE <<>>)

\* A source is taken whole or not at all, within its group's budget and the total.
TakeSource(c, budget, acc, source) ==
  LET size == c.size[source.path]
      used == [acc.used EXCEPT ![source.group] = @ + size, !["total"] = @ + size]
  IN IF size > 0 /\ used[source.group] <= budget[source.group] /\ used["total"] <= budget["total"]
     THEN [items |-> Append(acc.items, source), omitted |-> acc.omitted, used |-> used]
     ELSE [items |-> acc.items, omitted |-> acc.omitted \cup {source}, used |-> acc.used]

\* In order, each source in the first group that declares it.
ContextItems(c, decision) ==
  LET declared == Declared(c, decision)
      taken[n \in 0 .. Len(declared)] ==
        IF n = 0 THEN [items |-> <<>>, omitted |-> {}, used |-> [g \in Groups \cup {"total"} |-> 0]]
        ELSE IF \E m \in 1 .. n - 1 : declared[m].path = declared[n].path THEN taken[n - 1]
        ELSE TakeSource(c, RouteOf(c, decision).budget, taken[n - 1], declared[n])
  IN taken[Len(declared)]

-----------------------------------------------------------------------------
(* The catalog (build_skill_index): included entries; one that repeats an  *)
(* identifier, a path or a capability, or a router that is no entry, is an *)
(* error.                                                                  *)

Indexed(c) == {k \in DOMAIN c.entries : c.entries[k].included}
CatalogValid(c) ==
  LET entry(k) == c.entries[k] IN
  /\ \A i, j \in Indexed(c) : i # j =>
       /\ entry(i).id # entry(j).id /\ entry(i).path # entry(j).path
       /\ entry(i).capability # "none" => entry(i).capability # entry(j).capability
  /\ \A k \in DOMAIN c.packs : c.packs[k].router # "none" => \E i \in Indexed(c) : entry(i).path = c.packs[k].router

Packaged(c, id) == \E k \in Indexed(c) : c.entries[k].id = id
EntryOf(c, id) == c.entries[CHOOSE k \in Indexed(c) : c.entries[k].id = id]
RouterFor(c, e) == {c.packs[k].id : k \in {l \in DOMAIN c.packs : c.packs[l].router = e.path}}

-----------------------------------------------------------------------------
(* Skills. *)

\* A skill's file: "canonical", "stale", "missing" or "large"; a skill of the
\* repository itself has no canonical bytes to differ from.
Loading(c, id) ==
  LET file == c.files[id] IN
  IF file = "stale" /\ ~Packaged(c, id) THEN "canonical" ELSE file

DeclaredSkills(c, decision) == c.defaultSkills \o RouteOf(c, decision).skills
EvaluationOnly(c, id) == Packaged(c, id) /\ EntryOf(c, id).mode = "evaluation-only" /\ ~c.evaluation

\* _evaluate_skill: the first reason that applies leaves the skill out.
Evaluated(c, e) ==
  IF ~e.applicable THEN "no-applicability"
  ELSE IF e.excluded THEN "excluded-fact"
  ELSE IF e.trigger = "unmet" THEN "no-trigger"
  ELSE IF e.mode = "evaluation-only" /\ ~c.evaluation THEN "activation-mode"
  ELSE IF e.facts = "missing" THEN "missing-required-fact"
  ELSE IF e.facts = "mismatched" THEN "required-fact-mismatch"
  ELSE IF e.level \notin {"required", "recommended"} THEN "activation-level"
  ELSE "selected"

\* Only a matched route adds leaves, of the packs its own routers lead.
LedPacks(c, route) == UNION {RouterFor(c, EntryOf(c, id)) : id \in {s \in ToSet(route.skills) : Packaged(c, s)}}
Attached(c, decision) ==
  IF decision.outcome # "matched" \/ ~c.facts THEN {}
  ELSE {k \in Indexed(c) : c.entries[k].pack \in LedPacks(c, RouteOf(c, decision))}
LeavesOf(c, decision) == {k \in Attached(c, decision) : Evaluated(c, c.entries[k]) = "selected"}
Conflicting(c, leaves) == {pair \in leaves \X leaves : c.entries[pair[2]].id \in c.entries[pair[1]].conflicts}

\* The declared skills, then the entries of the catalog, of which the leaves are wanted.
Wanted(c, decision) ==
  LET declared == DeclaredSkills(c, decision)
  IN [i \in DOMAIN declared |->
        [id |-> declared[i], wanted |-> TRUE, required |-> TRUE, blocked |-> EvaluationOnly(c, declared[i])]]
     \o [k \in DOMAIN c.entries |->
        [id |-> c.entries[k].id, wanted |-> k \in LeavesOf(c, decision),
         required |-> c.entries[k].level = "required", blocked |-> FALSE]]

\* Where a skill is wanted first.
Loaded(wanted) ==
  {n \in DOMAIN wanted : wanted[n].wanted /\ \A m \in 1 .. n - 1 : wanted[m].wanted => wanted[m].id # wanted[n].id}

SkillLimit(c, decision) == Min({MaxSkillBytes, RouteOf(c, decision).budget["total"] \div 2})

TakeSkill(c, limit, acc, s) ==
  IF Loading(c, s.id) = "canonical" /\ acc.used + c.skillSize[s.id] <= limit
  THEN [items |-> Append(acc.items, s.id), omitted |-> acc.omitted, used |-> acc.used + c.skillSize[s.id]]
  ELSE [items |-> acc.items, omitted |-> acc.omitted \cup {s}, used |-> acc.used]

\* The skills that fit, in order.
SkillItems(c, decision) ==
  LET wanted == Wanted(c, decision)
      usable == {n \in Loaded(wanted) : ~wanted[n].blocked /\ Loading(c, wanted[n].id) \in {"canonical", "large"}}
      taken[n \in 0 .. Len(wanted)] ==
        IF n = 0 THEN [items |-> <<>>, omitted |-> {}, used |-> 0]
        ELSE IF n \notin usable THEN taken[n - 1]
        ELSE TakeSkill(c, SkillLimit(c, decision), taken[n - 1], wanted[n])
  IN taken[Len(wanted)]

\* _skill_blockers: a skill that cannot be loaded blocks, declared or composed;
\* one outside the budget only if it is required.
Blockers(c, decision) ==
  LET wanted == Wanted(c, decision)
      lost == {n \in Loaded(wanted) : wanted[n].blocked \/ Loading(c, wanted[n].id) \in {"missing", "stale"}} IN
  {<<"context", s.path>> : s \in {o \in ContextItems(c, decision).omitted : o.group # "expansion"}}
  \cup {<<"skill", wanted[n].id>> : n \in lost}
  \cup {<<"budget", s.id>> : s \in {o \in SkillItems(c, decision).omitted : o.required}}
  \cup {<<"fact", c.entries[k].id>> : k \in {l \in Attached(c, decision) : Evaluated(c, c.entries[l]) = "missing-required-fact"}}
  \cup {<<"conflict", c.entries[pair[1]].id>> : pair \in Conflicting(c, LeavesOf(c, decision))}
  \cup (IF decision.outcome = "matched" THEN {} ELSE {<<"route", decision.outcome>>})

PacketAlong(c, decision) ==
  LET context == ContextItems(c, decision)
      skills == SkillItems(c, decision)
  IN IF ~CatalogValid(c)
     THEN [status |-> "failed", route |-> 0, items |-> <<>>, skills |-> <<>>, bytes |-> 0, skillBytes |-> 0]
     ELSE [status |-> IF Blockers(c, decision) = {} THEN "passed" ELSE "blocked", route |-> decision.route,
           items |-> context.items, skills |-> skills.items,
           bytes |-> context.used["total"], skillBytes |-> skills.used]
ResolveContext(c) == PacketAlong(c, SelectRoute(c))

-----------------------------------------------------------------------------
(* Properties. *)

\* Documents as they are once validated: sources P, skills S, and names N of paths,
\* packs and capabilities.
Tasks(P, S, N) ==
  [routes : Seq([paths : Nat, products : Nat, prompts : Nat, primary : Seq(P), activePlan : Seq(P), expansion : Seq(P),
                 skills : Seq(S), budget : Budgets]),
   defaults : Seq(P), defaultSkills : Seq(S), tie : Nat, secondaries : Nat, expand : BOOLEAN, size : [P -> Nat],
   entries : Seq([id : S, path : N, pack : N, capability : N, included : BOOLEAN, mode : {"route", "evaluation-only"},
                  level : {"required", "recommended", "evaluation"}, applicable : BOOLEAN, excluded : BOOLEAN,
                  trigger : {"none", "met", "unmet"}, facts : {"met", "missing", "mismatched"}, conflicts : SUBSET S]),
   packs : Seq([id : N, router : N]), facts : BOOLEAN, evaluation : BOOLEAN,
   files : [S -> {"canonical", "stale", "missing", "large"}], skillSize : [S -> Nat]]

\* Bytes of a group.
BytesIn(c, items, group) ==
  LET sum[n \in 0 .. Len(items)] ==
        IF n = 0 THEN 0 ELSE sum[n - 1] + IF items[n].group = group THEN c.size[items[n].path] ELSE 0
  IN sum[Len(items)]

CompletePacket(c, packet) ==
  LET route == IF packet.route = 0 THEN NoRoute ELSE c.routes[packet.route]
      items == packet.items
      skills == ToSet(packet.skills)
      declared == ToSet(c.defaultSkills \o route.skills)
      leaves == {id \in skills : Packaged(c, id) /\ id \notin declared}
  IN /\ \A g \in Groups : BytesIn(c, items, g) <= route.budget[g]
     /\ packet.bytes <= route.budget["total"] /\ 2 * packet.skillBytes <= route.budget["total"]
     /\ packet.status = "passed" =>
          /\ packet.route # 0
          /\ c.secondaries > 0 =>
               \A i \in DOMAIN c.routes : i # packet.route => RouteScore(c.routes[i]) < RouteScore(route)
          /\ ToSet(c.defaults \o route.primary \o route.activePlan) \subseteq {items[i].path : i \in DOMAIN items}
          /\ \A i, j \in DOMAIN items : items[i].path = items[j].path => i = j
          /\ \A i \in DOMAIN items : c.size[items[i].path] > 0
          /\ declared \subseteq skills /\ IsInjective(packet.skills)
          /\ \A id \in skills : Packaged(c, id) =>
               c.files[id] = "canonical" /\ (EntryOf(c, id).mode = "evaluation-only" => c.evaluation)
          /\ \A id, other \in leaves : other \notin EntryOf(c, id).conflicts
          /\ \A k \in Indexed(c) :
               LET e == c.entries[k] IN
               e.level = "required" /\ e.pack \in LedPacks(c, route) /\ c.facts /\ Evaluated(c, e) = "selected" => e.id \in skills

\* A packet that passes is the whole of what its task needs: the best route and
\* no other as good, every required source and skill as published, nothing
\* twice, no two composed skills that exclude each other, within every bound.
PacketComplete(c) == CompletePacket(c, ResolveContext(c))
=============================================================================
