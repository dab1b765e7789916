----------------------------- MODULE ChangeScope -----------------------------
(***************************************************************************)
(* The comparison a check is about (changed_paths.py, cli.py): which files *)
(* changed, and the identity of the bytes each side is bound to.  People   *)
(* keep editing and staging files meanwhile, so the scope is read in two   *)
(* equal snapshots around the reading of the identities.                   *)
(*                                                                         *)
(* A file's content is a number, 0 when it is absent; bytes, file type and *)
(* mode are one, and so are a content and the line ranges in which it      *)
(* differs from the base.  Renames are seen as a deletion and an addition. *)
(***************************************************************************)
EXTENDS Naturals, FiniteSets

CONSTANTS
  Paths,        \* the repository's paths, numbered in their order
  Base,         \* Base[p]: content at the comparison base (HEAD or merge-base)
  Contents,     \* contents a file may take
  Starts,       \* worktrees and indexes to start from
  HasUpstream,  \* has the branch an upstream to fall back on?
  MaxEdits      \* bound on edits of the worktree and of the index

ASSUME ScopeAssumption ==
  /\ Paths \subseteq Nat /\ Base \in [Paths -> Contents] /\ 0 \in Contents /\ Contents \subseteq Nat
  /\ Starts \subseteq [work : [Paths -> Contents], index : [Paths -> Contents]]
  /\ HasUpstream \in BOOLEAN /\ MaxEdits \in Nat

VARIABLES work, index, edits
fileVars == <<work, index, edits>>

FilesInit ==
  /\ \E start \in Starts : work = start.work /\ index = start.index
  /\ edits = 0

\* Somebody saves a file, removes it, or stages what the worktree has.
Edit ==
  /\ edits < MaxEdits /\ edits' = edits + 1
  /\ \E p \in Paths :
       \/ \E c \in Contents \ {work[p]} : work' = [work EXCEPT ![p] = c] /\ UNCHANGED index
       \/ index[p] # work[p] /\ index' = [index EXCEPT ![p] = work[p]] /\ UNCHANGED work

-----------------------------------------------------------------------------
(* A request names its stage, mode, explicit paths and whether it has a    *)
(* base reference; a stage of pre-commit means the index.                  *)

Staged(request) == request.staged \/ request.stage = "pre-commit"

\* The kind of packet, and whether the comparison base can be resolved.
PacketMode(request) ==
  IF request.paths # {} THEN "explicit" ELSE IF Staged(request) THEN "staged" ELSE "changed"

SubjectResolves(request) ==
  \/ Staged(request)
  \/ request.base
  \/ HasUpstream /\ request.paths = {}

\* What git diff compares with the base: untracked files are no part of it.
Tracked(request, p) ==
  IF Staged(request) THEN index[p] ELSE IF index[p] = 0 THEN 0 ELSE work[p]

Status(before, after) ==
  IF before = 0 THEN "added" ELSE IF after = 0 THEN "deleted" ELSE "modified"

Diffed(request) ==
  {p \in Paths : /\ Base[p] # Tracked(request, p)
                 /\ Staged(request) \/ request.paths = {} \/ p \in request.paths}

\* Untracked or explicitly selected paths the diff does not name.
Supplement(request) ==
  IF Staged(request) THEN {}
  ELSE {p \in Paths \ Diffed(request) :
          IF request.paths = {} THEN index[p] = 0 /\ work[p] # 0 /\ Base[p] = 0
          ELSE p \in request.paths /\ (work[p] # 0 \/ Base[p] # 0)}

\* Status and ranges of each recorded path (ranges 0: none).
Snapshot(request) ==
  [p \in Diffed(request) \cup Supplement(request) |->
     IF p \in Diffed(request)
     THEN [status |-> Status(Base[p], Tracked(request, p)), ranges |-> Tracked(request, p)]
     ELSE [status |-> Status(Base[p], work[p]), ranges |-> 0]]

\* The after-image a record is bound to, 0 when it cannot be captured.
AfterImage(request, p) == IF Staged(request) THEN index[p] ELSE work[p]

Scope(kind, mode, records) == [kind |-> kind, mode |-> mode, records |-> records]
AllScope == Scope("all", "all", <<>>)
NoScope(request) == Scope("changed", PacketMode(request), <<>>)

-----------------------------------------------------------------------------
(* How a packaged checker selects its input, and whether the packet can    *)
(* answer it (execution_commands.py, governance_changed_paths.py).         *)

LaterStages == {"pre-push", "pre-pr", "ci-pr", "release"}

SelectionFlag(stage, mode) ==
  IF mode = "all" THEN "all" ELSE IF stage = "pre-commit" THEN "staged" ELSE "changed"

CheckerFlag(checker, stage, mode) ==
  IF checker \notin {"secrets", "scoped"} THEN "none"
  ELSE IF checker = "secrets" /\ stage \in LaterStages THEN "all"
  ELSE SelectionFlag(stage, mode)

PacketServes(scope, flag) ==
  \/ flag \in {"none", "all"}
  \/ flag = "staged" /\ scope.mode = "staged"
  \/ flag = "changed" /\ scope.mode \in {"changed", "explicit"}
=============================================================================
