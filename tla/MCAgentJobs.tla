----------------------------- MODULE MCAgentJobs -----------------------------
(***************************************************************************)
(* Small instances of AgentJobs.  The directory tree has a project, one    *)
(* directory inside it and an unrelated directory; each Request* function  *)
(* is a scenario.                                                          *)
(***************************************************************************)
EXTENDS AgentJobs, TLC

CONSTANTS j1, j2, j3, project, inner, other, codex, s1, k1

MCLineage == [d \in {project, inner, other} |-> IF d = inner THEN {inner, project} ELSE {d}]

MCRank == [j \in Jobs |-> CASE j = j1 -> 1 [] j = j2 -> 2 [] j = j3 -> 3]

Job(mode, roots) ==
  Normalized(mode) @@
  [roots |-> roots, provider |-> codex, session |-> NoSession, key |-> NoKey,
   resumes |-> NoJob, enclosing |-> {}]

RequestOne == j1 :> Job("exclusive", {project})

\* Two exclusive jobs, one root inside the other.
RequestPair == (j1 :> Job("exclusive", {project})) @@ (j2 :> Job("exclusive", {inner}))

\* One session continued in two unrelated directories, one key submitted twice.
RequestSession ==
  (j1 :> [Job("shared", {project}) EXCEPT !.session = s1]) @@
  (j2 :> [Job("shared", {other}) EXCEPT !.session = s1, !.key = k1]) @@
  (j3 :> [Job("writer", {other}) EXCEPT !.key = k1])

\* A shared parent, an exclusive sibling, and a shared job nested in the parent.
RequestNested ==
  (j1 :> Job("shared", {project})) @@ (j2 :> Job("exclusive", {project})) @@
  (j3 :> [Job("shared", {project}) EXCEPT !.enclosing = {j1}])
=============================================================================
