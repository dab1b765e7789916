---------------------------- MODULE SurfaceAudit ----------------------------
(***************************************************************************)
(* The graph of a multiplatform repository: for every area and every       *)
(* target of the catalog, a route of checkpoints and proofs composed from  *)
(* shared, projected and local parts, audited with its gaps by the pack    *)
(* and without them by doctor (kmp_surface_validation.py, _composition.py, *)
(* _authorities.py, _doctor.py).                                           *)
(*                                                                         *)
(* A part is [roles, claims, broken]: what its readable checkpoints and    *)
(* proofs offer, and whether another reference of it is broken.  An area   *)
(* is [id, validation, contract, shared, projections, routes, roles,       *)
(* claims, targetClaims]; its routes are a sequence of [target, gap, part].*)
(* A graph has, beside its areas, what runs its checker and whether the    *)
(* pack's patterns and a context route cover it.  Shapes of documents are  *)
(* one choice, a graph that cannot be read; the cap on findings is left    *)
(* out.                                                                    *)
(***************************************************************************)
EXTENDS Naturals, FiniteSets, Sequences, SequencesExt

CONSTANT StandardPack  \* the pack that runs the checker

Structure == "structure-invalid"
Reference == "reference-invalid"
ImplementationGap == "implementation-gap"
ProofGap == "proof-gap"
Wiring == "wiring"

Finding(rule, area, target) == [rule |-> rule, area |-> area, target |-> target]
NoTarget == "none"

\* The graph, its catalog and their fields have the shapes that V1 requires.
WellShaped(graph) == graph.readable /\ graph.areas # <<>>

Checkpoints(part) == part.roles
Proofs(part) == part.claims
Broken(part) == part.broken
ProjectedParts(area) == {p.part : p \in area.projections}
RoutedParts(area) == {area.routes[i].part : i \in DOMAIN area.routes}

Guarded(area) == area.validation = "guarded"
RequiredRoles(area) == IF Guarded(area) THEN area.roles ELSE {}
RequiredClaims(area) == IF Guarded(area) THEN area.claims ELSE {}
RequiredTargetClaims(area) == IF Guarded(area) THEN area.targetClaims ELSE {}

\* The last of several routes of one target counts.
RouteTo(area, t) == LET at == {i \in DOMAIN area.routes : area.routes[i].target = t}
                    IN area.routes[CHOOSE i \in at : \A j \in at : j <= i]
Routed(area) == {area.routes[i].target : i \in DOMAIN area.routes}

\* _area_header, _requirements, _projections, _routes, validate_area.
AreaStructure(area, a, targets) ==
  LET parts == {area.shared} \cup ProjectedParts(area) \cup RoutedParts(area)
      wrong ==
        \/ Checkpoints(area.shared) = {}
        \/ Guarded(area) /\ (area.roles = {} \/ area.claims = {} \/ area.targetClaims = {})
        \/ Guarded(area) /\ ~(area.targetClaims \subseteq area.claims)
        \/ Guarded(area) /\ Proofs(area.shared) = {}
        \/ ~Guarded(area) /\ area.roles \cup area.claims \cup area.targetClaims # {}
        \/ ~Guarded(area) /\ \E p \in parts : Proofs(p) # {}
        \/ \E p \in area.projections : ~(p.targets \subseteq targets) \/ Checkpoints(p.part) \cup Proofs(p.part) = {}
        \/ \E i, j \in DOMAIN area.routes : i # j /\ area.routes[i].target = area.routes[j].target
        \/ ~(Routed(area) \subseteq targets)
  IN (IF wrong THEN {Finding(Structure, a, NoTarget)} ELSE {})
     \cup (IF area.contract THEN {} ELSE {Finding(Reference, a, NoTarget)})
     \cup {Finding(Reference, a, NoTarget) : p \in {q \in parts : Broken(q)}}

\* _composition: shared, then projections that name the target, then its own.
ComposedParts(area, route) ==
  {area.shared, route.part} \cup {p.part : p \in {q \in area.projections : route.target \in q.targets}}
ComposedRoles(area, route) == UNION {Checkpoints(p) : p \in ComposedParts(area, route)}
ComposedClaims(area, route) == UNION {Proofs(p) : p \in ComposedParts(area, route)}

Implemented(area, route) == Checkpoints(route.part) # {} /\ RequiredRoles(area) \subseteq ComposedRoles(area, route)
ProvenAnywhere(area, route) ==                                             \* faulty
  RequiredClaims(area) \cup RequiredTargetClaims(area) \subseteq ComposedClaims(area, route)
Proven(area, route) ==
  /\ Proofs(route.part) # {} /\ RequiredClaims(area) \subseteq ComposedClaims(area, route)
  /\ RequiredTargetClaims(area) \subseteq Proofs(route.part)

\* _validate_target, _declared_gap, _complete_route.
TargetFindings(area, a, t, gaps) ==
  IF t \notin Routed(area) THEN IF gaps THEN {Finding(ImplementationGap, a, t)} ELSE {}
  ELSE LET route == RouteTo(area, t) IN
       CASE route.gap = "implementation" -> IF gaps THEN {Finding(ImplementationGap, a, t)} ELSE {}
         [] route.gap = "proof" ->
              (IF ~Guarded(area) \/ ~Implemented(area, route) THEN {Finding(Structure, a, t)} ELSE {})
              \cup (IF gaps /\ Guarded(area) THEN {Finding(ProofGap, a, t)} ELSE {})
         [] OTHER ->
              (IF gaps /\ ~Implemented(area, route) THEN {Finding(ImplementationGap, a, t)} ELSE {})
              \cup (IF gaps /\ Guarded(area) /\ ~Proven(area, route) THEN {Finding(ProofGap, a, t)} ELSE {})

\* authority_inputs, validate: the graph, its catalog and every area in turn.
GraphFindings(graph, gaps) ==
  LET areas == graph.areas
      checked(a) == IF gaps THEN graph.targets ELSE graph.targets \cap Routed(areas[a])
  IN IF ~WellShaped(graph) THEN {Finding(Structure, 0, NoTarget)}
     ELSE {Finding(Structure, a, NoTarget) : a \in {b \in DOMAIN areas : \E other \in 1 .. b - 1 : areas[other].id = areas[b].id}}
          \cup UNION {AreaStructure(areas[a], a, graph.targets)
                       \cup UNION {TargetFindings(areas[a], a, t, gaps) : t \in checked(a)} : a \in DOMAIN areas}

Audit(graph, gaps) ==
  LET found == GraphFindings(graph, gaps)
  IN [status |-> IF found = {} THEN "passed" ELSE "failed", findings |-> found]

\* kmp_surface_doctor_findings: of graphs some active pack checks, the graph
\* without its gaps and how the checker and the skill are reached.
DoctorFindings(graph) ==
  LET wiring == Finding(Wiring, 0, NoTarget) IN
  IF graph.invocations = <<>> THEN {}
  ELSE (IF graph.invocations = <<StandardPack>> THEN {} ELSE {wiring})
       \cup IF ~Contains(graph.invocations, StandardPack) THEN {}
            ELSE {f \in Audit(graph, FALSE).findings : f.rule \in {Structure, Reference}}
                 \cup (IF graph.selected /\ graph.routed THEN {} ELSE {wiring})

-----------------------------------------------------------------------------
(* Properties. *)

\* What is left of the documents once they are read: roles R, claims C, targets T
\* (of the catalog or not), identifiers I of areas and packs P.
Parts(R, C) == [roles : SUBSET R, claims : SUBSET C, broken : BOOLEAN]
AreaShapes(R, C, T, I) ==
  [id : I, validation : {"guarded", "route"}, contract : BOOLEAN, shared : Parts(R, C),
   projections : SUBSET [part : Parts(R, C), targets : SUBSET T],
   routes : Seq([target : T, gap : {"none", "implementation", "proof"}, part : Parts(R, C)]),
   roles : SUBSET R, claims : SUBSET C, targetClaims : SUBSET C]
GraphShapes(R, C, T, I, P) ==
  [readable : BOOLEAN, targets : SUBSET T, areas : Seq(AreaShapes(R, C, T, I)),
   invocations : Seq(P), selected : BOOLEAN, routed : BOOLEAN]

\* A graph that passes has for every area and target of the catalog a route with
\* checkpoints of its own, no gap declared, every required role on the way and
\* every required claim proved, what has to be proved at the target proved
\* there; and if doctor has nothing to say of a graph that a pack checks, gaps are
\* all that the one pack reports, which is selected for it (validate_area,
\* _validate_target, kmp_surface_doctor_findings).
SurfacesProven(graph) ==
  /\ Audit(graph, TRUE).status = "passed" =>
       \A a \in DOMAIN graph.areas, t \in graph.targets :
         LET area == graph.areas[a]
             mine == {area.routes[i] : i \in {j \in DOMAIN area.routes : area.routes[j].target = t}}
             there == {area.shared} \cup {p.part : p \in {q \in area.projections : t \in q.targets}} \cup {r.part : r \in mine}
         IN /\ \A b \in DOMAIN graph.areas : graph.areas[b].id = area.id => a = b
            /\ Cardinality(mine) = 1 /\ \A r \in mine : r.gap = "none" /\ r.part.roles # {}
            /\ \A p \in there : ~p.broken
            /\ area.validation = "guarded" =>
                 /\ \A role \in area.roles : \E p \in there : role \in p.roles
                 /\ \A claim \in area.claims : \E p \in there : claim \in p.claims
                 /\ \A claim \in area.targetClaims : \E r \in mine : claim \in r.part.claims
            /\ area.validation = "route" => \A p \in there : p.claims = {}
  /\ graph.invocations # <<>> /\ DoctorFindings(graph) = {} =>
       /\ \A f \in Audit(graph, TRUE).findings : f.rule \in {ImplementationGap, ProofGap}
       /\ Cardinality(ToSet(graph.invocations)) = 1 /\ graph.selected /\ graph.routed
=============================================================================
