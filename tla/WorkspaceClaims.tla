--------------------------- MODULE WorkspaceClaims ---------------------------
(***************************************************************************)
(* What a delegated job claims, and which claims exclude each other        *)
(* (provider_agents/jobs.py: overlap, conflicts, _check_ancestors).        *)
(*                                                                         *)
(* A request names the directories the job may touch, how it shares them,  *)
(* and optionally the provider session it continues.  Paths are reduced to *)
(* the one fact the registry asks of them: which directory lies in which.  *)
(***************************************************************************)
CONSTANTS
  Jobs,        \* job identifiers the registry may ever hand out
  Directories, \* directories a request can name
  Lineage,     \* Lineage[d]: d itself and every directory that contains it
  Providers,   \* provider names; a test batch has NoProvider
  Sessions,    \* provider session identifiers
  Keys,        \* idempotency keys
  NoProvider, NoSession, NoKey, NoJob,
  Request      \* Request[j]: the normalized request that job j was created for

Accesses == {"exclusive", "shared"}

Requests ==
  [access       : Accesses,
   allowReaders : BOOLEAN,
   roots        : SUBSET Directories,
   provider     : Providers \cup {NoProvider},
   session      : Sessions \cup {NoSession},
   key          : Keys \cup {NoKey},
   resumes      : Jobs \cup {NoJob},
   enclosing    : SUBSET Jobs]

ASSUME RequestAssumption ==
  /\ Lineage \in [Directories -> SUBSET Directories]
  /\ \A d \in Directories : d \in Lineage[d]
  /\ Request \in [Jobs -> Requests]
  /\ \A j \in Jobs : Request[j].allowReaders => Request[j].access = "exclusive"
  /\ NoJob \notin Jobs
  /\ NoSession \notin Sessions

-----------------------------------------------------------------------------

\* normalize: the writer flag is stored as an exclusive claim that admits readers.
Normalized(mode) ==
  [access       |-> IF mode = "writer" THEN "exclusive" ELSE mode,
   allowReaders |-> mode = "writer"]

Mode(r) == IF r.allowReaders THEN "writer" ELSE r.access

\* Some root of one side is, or lies inside, some root of the other.
Overlap(left, right) ==
  \E a \in left, b \in right : a \in Lineage[b] \/ b \in Lineage[a]

SameSession(r, s) ==
  /\ r.session # NoSession
  /\ r.provider = s.provider
  /\ r.session = s.session

\* Two readers, or a reader beside a writer, may share; everything else is serial.
Serializes(r, s) ==
  \/ "exclusive" \in {Mode(r), Mode(s)}
  \/ Mode(r) = "writer" /\ Mode(s) = "writer"

ConflictingRequests(r, s) ==
  \/ SameSession(r, s)
  \/ Serializes(r, s) /\ Overlap(r.roots, s.roots)

Conflicts(j, k) == ConflictingRequests(Request[j], Request[k])

\* A nested job is refused when it conflicts with a live ancestor, and also when
\* either of the two carries the writer flag over overlapping directories.
NestingRefused(r, ancestor) ==
  \/ ConflictingRequests(r, ancestor)
  \/ (r.allowReaders \/ ancestor.allowReaders) /\ Overlap(r.roots, ancestor.roots)

\* _deduplicate: a key returns the job that was created for it.
SameKey(j, k) == Request[j].key # NoKey /\ Request[j].key = Request[k].key
=============================================================================
