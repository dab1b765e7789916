------------------------- MODULE DispositionRegistry -------------------------
(***************************************************************************)
(* The registry of maintainability decisions and the commits the checker   *)
(* lets through (checker_scripts/maintainability_dispositions.py,          *)
(* maintainability_source_units.py, check-code-smells.py): people change   *)
(* source units and the registry together, days pass, and a commit is      *)
(* stopped when it has a blocking finding.                                 *)
(*                                                                         *)
(* A unit is one declaration at one path; its source is [here, bytes,      *)
(* large, named]: whether it is over a review trigger and still has the    *)
(* name decisions know it by.  The registry is [version, decisions]; a     *)
(* decision is [unit, disposition, responsibility, approved, bytes,        *)
(* supersedes, expires], every one valid under the schema.  A change of a  *)
(* unit "cut"s lines only, adds some "elsewhere" in its file, or inside    *)
(* the unit ("touched").                                                   *)
(***************************************************************************)
EXTENDS Naturals, FiniteSets

CONSTANTS
  Units,
  Dispositions,     \* the decisions people record
  Images,           \* identities of the bytes of a file
  MaxDispositions,  \* bound: decisions in the registry
  MaxDays           \* bound: days

ASSUME DispositionAssumption == \A r \in Dispositions : r.unit \in Units

VARIABLES registry, sources, day, owed
registryVars == <<registry, sources, day, owed>>

NoImage == 0
NotThere == [here |-> FALSE, bytes |-> NoImage, large |-> FALSE, named |-> FALSE]
RefactorRequired(decisions) == {r \in decisions : r.disposition = "refactor-required"}
Waivers(decisions) == {r \in decisions : r.disposition = "temporary-waiver"}
CohesionAccepted(decisions) == {r \in decisions : r.disposition = "cohesion-accepted"}

RegistryInit ==
  /\ registry \in [version : {1, 2}, decisions : {{}} \cup {{r} : r \in RefactorRequired(Dispositions)}]
  /\ sources \in [Units -> {NotThere} \cup [here : {TRUE}, bytes : {1}, large : BOOLEAN, named : {TRUE}]]
  /\ day = 1 /\ owed = {r.responsibility : r \in RefactorRequired(registry.decisions)}

-----------------------------------------------------------------------------
(* What the checker finds in a commit.  edit says what it does to each     *)
(* unit, from where a moved unit comes.                                    *)

\* SourceSelection.is_direct: a file from which lines are only removed is not
\* looked into.
Analyzed(new, edit) == {u \in Units : new[u].here /\ edit[u] \in {"elsewhere", "touched", "moved"}}
Observed(new, edit) == {u \in Analyzed(new, edit) : new[u].large /\ edit[u] \in {"touched", "moved"}}

\* _temporary_waiver_status and disposition_for.
WaiverCovers(r, source) == r.bytes = source.bytes /\ r.expires >= day
Authorizes(decisions, u, source) ==
  /\ source.named
  /\ \E r \in {q \in decisions : q.unit = u} :
       \/ r.disposition = "cohesion-accepted"
       \/ r.disposition = "temporary-waiver" /\ WaiverCovers(r, source)

\* _active_relocation_records.
Standing(decisions) == RefactorRequired(decisions) \cup {r \in Waivers(decisions) : r.expires >= day}

Moved(from, u) == IF \E v \in Units : from[v] = u THEN CHOOSE v \in Units : from[v] = u ELSE u
TransitionCandidates(old, decisions, from) ==
  {r \in decisions : r.unit = Moved(from, old.unit) \/ r.responsibility = old.responsibility}

\* _valid_temporary_waiver_transition.
UnchangedWaiver(old, r) ==
  r.disposition = "temporary-waiver" /\ r.bytes = old.bytes /\ r.supersedes = old.supersedes /\ r.expires = old.expires
ValidWaiverTransition(old, r) ==
  \/ UnchangedWaiver(old, r)
  \/ /\ r.supersedes = old.bytes /\ r.responsibility = old.responsibility /\ r.approved >= old.approved
     /\ \/ r.disposition = "waiver-resolved"
        \/ r.disposition = "temporary-waiver" /\ r.bytes # old.bytes

ValidTransitionAnyResponsibility(old, r) ==                                \* faulty
  IF old.disposition = "temporary-waiver" THEN ValidWaiverTransition(old, r)
  ELSE r.disposition \in {"refactor-required", "cohesion-accepted"}
ValidTransition(old, r) ==
  IF old.disposition = "temporary-waiver" THEN ValidWaiverTransition(old, r)
  ELSE r.responsibility = old.responsibility /\ r.disposition \in {"refactor-required", "cohesion-accepted"}

\* _transition_findings: exactly one decision stands for each that stood, and
\* one that changes a waiver comes with the source it is about.
TransitionAllowed(old, decisions, new, edit, from) ==
  \E r \in decisions :
    /\ TransitionCandidates(old, decisions, from) = {r} /\ ValidTransition(old, r)
    /\ \/ r.disposition \notin {"waiver-resolved", "temporary-waiver"}
       \/ r.disposition = "temporary-waiver" /\ r.bytes = old.bytes
       \/ r.unit \in Analyzed(new, edit)
    /\ r.disposition = "waiver-resolved" => r.unit \notin Observed(new, edit)

\* _record_is_orphaned, _current_record_issues.
Orphaned(r, new, edit) ==
  \/ sources[r.unit].here /\ ~new[r.unit].here
  \/ r.unit \in Analyzed(new, edit) /\ ~new[r.unit].named
Unresolved(r, new, edit) ==
  ~Orphaned(r, new, edit) /\ r.unit \in Analyzed(new, edit) /\ r.unit \notin Observed(new, edit)

\* _migration_finding, _identity_findings.
Valid(reg) == reg.version = 2 /\ \A r, s \in reg.decisions : r.unit = s.unit => r = s

\* main of check-code-smells.py, integrity_findings.
Passes(reg, new, edit, from) ==
  /\ Valid(reg)
  /\ \A u \in Observed(new, edit) : Authorizes(reg.decisions, u, new[u])
  /\ reg # registry => \A old \in Standing(registry.decisions) : TransitionAllowed(old, reg.decisions, new, edit, from)
  /\ \A r \in Standing(reg.decisions) : ~Orphaned(r, new, edit) /\ ~Unresolved(r, new, edit)

-----------------------------------------------------------------------------
(* People commit what passes. *)

Edited(u, source, how) ==
  {s \in [here : {TRUE}, bytes : Images \ {source.bytes}, large : BOOLEAN, named : BOOLEAN] :
     /\ source.here \/ (how = "touched" /\ s.named)
     /\ how = "cut" => (s.large => source.large) /\ (s.named => source.named)
     /\ how = "elsewhere" => s.large = source.large /\ s.named = source.named}

Untouched == [u \in Units |-> "none"]
Commit(new, edit, from) ==
  \E v \in {registry.version, 2}, out \in SUBSET registry.decisions,
     in \in {{}} \cup {{r} : r \in Dispositions \ registry.decisions} :
    LET reg == [version |-> v, decisions |-> (registry.decisions \ out) \cup in] IN
    /\ Cardinality(reg.decisions) <= MaxDispositions /\ Passes(reg, new, edit, from)
    /\ registry' = reg /\ sources' = new
    /\ owed' = (owed \cup {r.responsibility : r \in RefactorRequired(reg.decisions)}) \ {r.responsibility : r \in CohesionAccepted(reg.decisions)}
    /\ UNCHANGED day

CommitRegistry == Commit(sources, Untouched, Untouched)
CommitEdit ==
  \E u \in Units, how \in {"cut", "elsewhere", "touched"} : \E s \in Edited(u, sources[u], how) :
    Commit([sources EXCEPT ![u] = s], [Untouched EXCEPT ![u] = how], Untouched)
CommitRemoval ==
  \E u \in {v \in Units : sources[v].here} : Commit([sources EXCEPT ![u] = NotThere], Untouched, Untouched)
CommitMove ==
  \E u \in {v \in Units : sources[v].here}, to \in {v \in Units : ~sources[v].here} :
    Commit([sources EXCEPT ![u] = NotThere, ![to] = sources[u]], [Untouched EXCEPT ![to] = "moved"], [Untouched EXCEPT ![to] = u])

DayPasses == day < MaxDays /\ day' = day + 1 /\ UNCHANGED <<registry, sources, owed>>

RegistryNext == CommitRegistry \/ CommitEdit \/ CommitRemoval \/ CommitMove \/ DayPasses

RegistrySpec == RegistryInit /\ [][RegistryNext]_registryVars

-----------------------------------------------------------------------------
(* Property. *)

\* A decision that stands is not lost, whatever commits and days follow: a
\* responsibility once required to be refactored stays on record until a review
\* accepts it; a waiver in force stays as it is, or a review no older than its own
\* replaces it (for the bytes just committed, or it has expired already) or closes it; and a unit
\* that is required to be refactored neither goes nor grows while it is
\* (integrity_findings, _valid_transition, disposition_for).
DecisionsKept ==
  [][/\ \A d \in owed' : \E r \in RefactorRequired(registry'.decisions) : r.responsibility = d
     /\ \A w \in Waivers(registry.decisions) : w.expires >= day =>
          \E r \in registry'.decisions :
            \/ UnchangedWaiver(w, r)
            \/ /\ r.supersedes = w.bytes /\ r.responsibility = w.responsibility /\ r.approved >= w.approved
               /\ sources'[r.unit] # sources[r.unit]
               /\ r.disposition = "temporary-waiver" /\ r.expires >= day => r.bytes = sources'[r.unit].bytes
     /\ \A r \in RefactorRequired(registry.decisions) \cap registry'.decisions :
          /\ sources'[r.unit].here = sources[r.unit].here
          /\ sources'[r.unit].large => sources[r.unit].large
    ]_registryVars
=============================================================================
