---------------------------- MODULE PackPlanning ----------------------------
(***************************************************************************)
(* Loading validation packs and selecting the ones a change must pass      *)
(* (configuration.py, planning.py), as operators: they keep no state.      *)
(*                                                                         *)
(* Packs are numbered in the order of their identifiers, so "sorted" is    *)
(* the order of numbers.  A pack is a record with the fields               *)
(*   builtin, active, blocking, owner, always, contract, failFast (flags), *)
(*   stages, globs, depends, replaces (sets) and commands (a sequence).    *)
(* globs is the set of paths its patterns match; a command has the stages  *)
(* it is limited to ({}: none), the checker it starts and the argument its *)
(* placeholder needs ("none": no placeholder).                             *)
(***************************************************************************)
EXTENDS Naturals, FiniteSets, Sequences, SequencesExt, FiniteSetsExt

NoStage == "no stage"
\* In place i is the one that i - 1 come before.
Sorted(ids) ==
  [i \in 1 .. Cardinality(ids) |-> CHOOSE id \in ids : Cardinality({other \in ids : other < id}) = i - 1]

-----------------------------------------------------------------------------
(* Loading: the packs of the wheel and of the repository, merged. *)

\* The shape the planner and the runner rely on.
WellFormed(pack) ==
  /\ {pack.builtin, pack.active, pack.blocking} \subseteq BOOLEAN
  /\ pack.commands # <<>>

Strength(pack) == IF pack.blocking THEN 1 ELSE 0

\* Faulty: the stages of the built-in are not looked at.
MayReplaceAnyStage(packs, id, old) ==
  /\ old # id /\ old \in DOMAIN packs /\ packs[old].builtin /\ packs[old].owner
  /\ Strength(packs[id]) >= Strength(packs[old])
  /\ \A other \in DOMAIN packs \ {id} : old \notin packs[other].replaces

\* A target pack may take over a built-in owner only if it is no weaker and
\* runs wherever the built-in ran.
MayReplace(packs, id, old) ==
  /\ old # id /\ old \in DOMAIN packs /\ packs[old].builtin
  /\ packs[old].owner
  /\ Strength(packs[id]) >= Strength(packs[old])
  /\ \A other \in DOMAIN packs \ {id} : old \notin packs[other].replaces
  /\ packs[old].stages \subseteq packs[id].stages

ReplacementClaims(packs) ==
  \A id \in DOMAIN packs : packs[id].replaces # {} =>
    /\ ~packs[id].builtin /\ packs[id].active /\ packs[id].contract
    /\ \A old \in packs[id].replaces : MayReplace(packs, id, old)

Replaced(packs) == UNION {packs[id].replaces : id \in DOMAIN packs}
OwnerOf(packs, old) == CHOOSE id \in DOMAIN packs : old \in packs[id].replaces

\* Nobody may revive a replaced built-in by depending on it.
ReplacementDependencies(packs) ==
  \A id \in DOMAIN packs : packs[id].depends \cap Replaced(packs) = {}

\* load_packs raises no ConfigurationError (identifiers are distinct here).
Loads(packs) ==
  /\ \A id \in DOMAIN packs : WellFormed(packs[id])
  /\ ReplacementClaims(packs)
  /\ ReplacementDependencies(packs)

-----------------------------------------------------------------------------
(* Commands and stages. *)

CommandApplies(command, stage) == command.stages = {} \/ stage \in command.stages

StageGaps(pack) ==
  {stage \in pack.stages : pack.active /\
     \A c \in DOMAIN pack.commands : ~CommandApplies(pack.commands[c], stage)}

-----------------------------------------------------------------------------
(* Selection.  A request has the fields stage, mode, paths and named. *)

Candidates(packs, request) ==
  {id \in DOMAIN packs : packs[id].active /\
     \/ request.stage = NoStage /\ request.named # {}
     \/ request.stage \in packs[id].stages}

CommandBlockers(packs, selected, stage) ==
  {<<"pack-stage-without-command", id>> : id \in
     {id \in selected : packs[id].blocking /\ stage # NoStage /\ stage \in StageGaps(packs[id])}}

Selection(selected, blockers) == [selected |-> selected, blockers |-> blockers]

ExplicitSelection(packs, candidates, request) ==
  Selection(request.named \cap candidates,
    {<<"unknown-explicit-pack", id>> : id \in request.named \ DOMAIN packs}
    \cup {<<"explicit-pack-unavailable", id>> :
            id \in (request.named \cap DOMAIN packs) \ candidates})

AllSelection(packs, candidates, request) ==
  Selection(candidates \ Replaced(packs),
            IF request.stage = NoStage THEN {<<"stage-required", 0>>} ELSE {})

Matching(packs, candidates, path) == {id \in candidates : path \in packs[id].globs}

\* A built-in would have looked at the path, its replacement does not.
CoverageGaps(packs, candidates, path) ==
  {old \in Replaced(packs) \cap Matching(packs, candidates, path) :
     OwnerOf(packs, old) \notin Matching(packs, candidates, path)}

ImpactedSelection(packs, candidates, request) ==
  LET effective == candidates \ Replaced(packs)
      matched(path) == Matching(packs, candidates, path) \cap effective
      gaps == {path \in request.paths : CoverageGaps(packs, candidates, path) # {}}
      unknown == {path \in request.paths : \A id \in matched(path) : ~packs[id].owner} \ gaps
  IN Selection({id \in effective : packs[id].always} \cup UNION {matched(path) : path \in request.paths},
               {<<"replacement-coverage-gap", path>> : path \in gaps}
               \cup {<<"unknown-impact", path>> : path \in unknown})

-----------------------------------------------------------------------------
(* Prerequisites and the order of execution. *)

Dependencies(packs, selected) ==
  LET reach[n \in 0 .. Cardinality(DOMAIN packs)] ==
        IF n = 0 THEN selected
        ELSE reach[n - 1] \cup UNION {packs[id].depends : id \in reach[n - 1] \cap DOMAIN packs}
  IN reach[Cardinality(DOMAIN packs)]

Cyclic(packs, selected) ==
  \E ring \in SUBSET selected : ring # {} /\ \A id \in ring : packs[id].depends \cap ring # {}

\* Wave after wave of the packs whose prerequisites are all placed.
ExecutionOrder(packs, selected) ==
  LET order[left \in SUBSET selected] ==
        IF left = {} THEN <<>>
        ELSE LET ready == {id \in left : packs[id].depends \cap left = {}}
             IN Sorted(ready) \o order[left \ ready]
  IN order[selected]

\* build_plan: selection, closure, command coverage and order, in this order.
\* (Which prerequisites a blocked plan still lists is not kept.)
BuildPlan(packs, request) ==
  LET candidates == Candidates(packs, request)
      choice == IF request.named # {} THEN ExplicitSelection(packs, candidates, request)
                ELSE IF request.mode = "all" THEN AllSelection(packs, candidates, request)
                ELSE ImpactedSelection(packs, candidates, request)
      closure == Dependencies(packs, choice.selected)
      graph == IF closure \ candidates # {} THEN {<<"invalid-dependency-graph", 0>>} ELSE {}
      empty == IF graph = {} THEN CommandBlockers(packs, closure, request.stage) ELSE {}
      cycle == IF graph \cup empty = {} /\ Cyclic(packs, closure)
               THEN {<<"invalid-dependency-graph", 0>>} ELSE {}
      later == graph \cup empty \cup cycle
      blockers == IF choice.blockers # {} THEN choice.blockers ELSE later
      ready == blockers = {}
  IN [ready |-> ready, blockers |-> blockers, stage |-> request.stage, mode |-> request.mode,
      paths |-> request.paths, named |-> request.named,
      selected |-> IF ready THEN closure ELSE choice.selected,
      order |-> IF ready THEN ExecutionOrder(packs, closure) ELSE <<>>]
=============================================================================
