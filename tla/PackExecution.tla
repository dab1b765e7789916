---------------------------- MODULE PackExecution ----------------------------
(***************************************************************************)
(* project-governance check: from the request to the verdict (cli.py,      *)
(* runner.py, execution_flow.py, processes.py, evidence_manifest.py).      *)
(*                                                                         *)
(* A run resolves its change scope, plans, claims an evidence directory,   *)
(* materializes the scope once into a packet every command shares, and     *)
(* executes the planned packs in order.  Several runs share the directory  *)
(* .governance/runtime/runs, and files are edited all along.  Telemetry    *)
(* receipts are those of TelemetryLog.                                     *)
(***************************************************************************)
EXTENDS ChangeScope, PackPlanning

CONSTANTS
  Runs,         \* runs that may be made
  Configs,      \* configurations of packs to choose from
  Requests,     \* Requests[c]: what the runs may be asked under configuration c
  PlanRequests, \* what a configuration is asked to plan
  Results,      \* what a command may end with
  MaxKills      \* bound on runs killed outright

NoRequest == [stage |-> "none"]   \* a run that is not made

ASSUME ExecutionAssumption ==
  /\ 0 \notin Runs /\ MaxKills \in Nat /\ Configs # {} /\ DOMAIN Requests = Configs
  /\ \A c \in Configs : IsFiniteSet(DOMAIN c) /\ DOMAIN c \subseteq Nat
  \* The built-in packs that always run, commit-message and pr-description, own no path.
  /\ \A c \in Configs : \A id \in DOMAIN c : c[id].builtin /\ c[id].always => ~c[id].owner
  /\ \A c \in Configs : \A asked \in Requests[c] : \A r \in Runs : asked[r] # NoRequest =>
       asked[r] \in [stage : STRING, mode : {"impacted", "all"}, staged : BOOLEAN, paths : SUBSET Paths,
                    base : BOOLEAN, named : SUBSET Nat, given : SUBSET STRING]

VARIABLES
  packs,     \* the loaded packs
  at,        \* where each run is
  request,   \* what it was asked
  scope,     \* the change scope it resolved
  snapshot, unread, \* its first snapshot, and the records still unbound
  plan,
  packet,    \* the materialized packet: contents, and is it as written?
  left,      \* planned packs still to come
  command,   \* index of the command at hand
  commands,  \* evidence of the pack at hand
  evidence,  \* evidence of the packs that ran
  blocked,   \* packs left out, with their failed prerequisites
  failed,    \* packs that failed or were left out
  verdict,   \* overall status and termination reason
  victims,   \* run directories its sweep will try to remove
  lock,      \* holder of .runs-state.lock
  dirs,      \* run directories
  active,    \* runs whose marker exists
  packDirs,  \* evidence directories of packs
  manifests, \* manifests[r][p]: the manifest a command wrote there
  kills

treeVars == <<lock, dirs, active, packDirs, manifests>>
planVars == <<request, scope, snapshot, unread, plan>>
packVars == <<packet, left, command, commands, evidence, blocked, failed, verdict>>
vars == <<fileVars, packs, at, planVars, packVars, victims, treeVars, kills>>

NoRun == 0
Ids == DOMAIN packs
NoPlan == [ready |-> FALSE, blockers |-> {}, selected |-> {}, order |-> <<>>]
NoPacket == [contents |-> <<>>, intact |-> FALSE]
NoVerdict == [status |-> "none", reason |-> "none"]
\* A manifest is refused when it is malformed, ambiguous, too large or foreign.
ManifestKinds == {"absent", "own", "refused"}

Pack(r) == packs[Head(left[r])]
Here(r) == <<r, Head(left[r])>>

Init ==
  /\ FilesInit
  /\ packs \in Configs
  /\ request \in Requests[packs]
  /\ at = [r \in Runs |-> IF request[r] = NoRequest THEN "over" ELSE "asked"]
  /\ scope = [r \in Runs |-> Scope("none", "none", <<>>)]
  /\ snapshot = [r \in Runs |-> <<>>] /\ unread = [r \in Runs |-> {}]
  /\ plan = [r \in Runs |-> NoPlan] /\ packet = [r \in Runs |-> NoPacket]
  /\ left = [r \in Runs |-> <<>>] /\ command = [r \in Runs |-> 1]
  /\ commands = [r \in Runs |-> <<>>] /\ evidence = [r \in Runs |-> <<>>]
  /\ blocked = [r \in Runs |-> {}] /\ failed = [r \in Runs |-> {}]
  /\ verdict = [r \in Runs |-> NoVerdict] /\ victims = [r \in Runs |-> {}]
  /\ lock = NoRun /\ dirs = {} /\ active = {} /\ packDirs = {}
  /\ manifests = [r \in Runs |-> [p \in Ids |-> "absent"]]
  /\ kills = 0

Goes(r, place) == at' = [at EXCEPT ![r] = place]
Same(r, place) == at[r] = place /\ UNCHANGED <<fileVars, packs, kills>>

-----------------------------------------------------------------------------
(* Scope and plan. *)

\* Combinations that would give one run two authorities over its scope.
InvocationRefused(q) ==
  \/ q.staged /\ (q.paths # {} \/ q.base \/ q.stage # "pre-commit")
  \/ q.mode = "all" /\ (q.staged \/ q.paths # {} \/ q.base \/ q.stage = NoStage)
  \/ q.mode # "all" /\ q.stage = NoStage /\ q.named = {}

Ends(r, status, reason) ==
  /\ Goes(r, "over")
  /\ verdict' = [verdict EXCEPT ![r] = [status |-> status, reason |-> reason]]

\* A plan that cannot be made, or has blockers, ends the check before any pack.
Refuse(r) ==
  /\ Same(r, "asked")
  /\ ~Loads(packs) \/ InvocationRefused(request[r])
  /\ Ends(r, "failed", IF Loads(packs) THEN "invocation" ELSE "selection-blocked")
  /\ UNCHANGED <<planVars, packet, left, command, commands, evidence, blocked, failed, victims, treeVars>>

Planned(r, resolved, resolves) ==
  LET paths == IF request[r].paths # {} THEN request[r].paths ELSE DOMAIN resolved.records
      made == BuildPlan(packs, [request[r] EXCEPT !.paths = paths])
      ready == made.ready /\ resolves
  IN /\ scope' = [scope EXCEPT ![r] = resolved]
     /\ plan' = [plan EXCEPT ![r] = [made EXCEPT !.ready = ready]]
     /\ IF ready THEN Goes(r, "planned") /\ UNCHANGED verdict
                 ELSE Ends(r, "blocked", "selection-blocked")

\* All mode and commit messages have no content-bound scope.
Unbound(r) == request[r].mode = "all" \/ request[r].stage = "commit-msg"

Look(r) ==
  /\ Same(r, "asked") /\ Loads(packs) /\ ~InvocationRefused(request[r])
  /\ \/ Unbound(r) /\ Planned(r, AllScope, TRUE) /\ UNCHANGED <<snapshot, unread>>
     \/ ~Unbound(r) /\ ~SubjectResolves(request[r])
        /\ Planned(r, NoScope(request[r]), FALSE) /\ UNCHANGED <<snapshot, unread>>
     \/ /\ ~Unbound(r) /\ SubjectResolves(request[r])
        /\ snapshot' = [snapshot EXCEPT ![r] = Snapshot(request[r])]
        /\ unread' = [unread EXCEPT ![r] = DOMAIN Snapshot(request[r])]
        /\ Goes(r, "binding") /\ UNCHANGED <<scope, plan, verdict>>
  /\ UNCHANGED <<request, packet, left, command, commands, evidence, blocked, failed, victims, treeVars>>

\* Bind one record to the bytes its after-image has now.
Bind(r) ==
  /\ Same(r, "binding") /\ unread[r] # {}
  /\ LET p == Min(unread[r])
         image == IF snapshot[r][p].status = "deleted" THEN 0 ELSE AfterImage(request[r], p)
         bound == [status |-> snapshot[r][p].status, ranges |-> snapshot[r][p].ranges, image |-> image]
         records == [q \in DOMAIN scope[r].records \cup {p} |->
                       IF q = p THEN bound ELSE scope[r].records[q]]
     IN IF snapshot[r][p].status # "deleted" /\ image = 0
        THEN Planned(r, NoScope(request[r]), FALSE) /\ UNCHANGED unread
        ELSE /\ scope' = [scope EXCEPT ![r].records = records]
             /\ unread' = [unread EXCEPT ![r] = @ \ {p}]
             /\ UNCHANGED <<at, plan, verdict>>
  /\ UNCHANGED <<request, snapshot, packet, left, command, commands, evidence, blocked, failed,
                 victims, treeVars>>

\* Read status and ranges again: any difference voids the scope.
Confirm(r) ==
  /\ Same(r, "binding") /\ unread[r] = {}
  /\ IF Snapshot(request[r]) = snapshot[r]
     THEN Planned(r, Scope("changed", PacketMode(request[r]), scope[r].records), TRUE)
     ELSE Planned(r, NoScope(request[r]), FALSE)
  /\ UNCHANGED <<request, snapshot, unread, packet, left, command, commands, evidence, blocked,
                 failed, victims, treeVars>>

-----------------------------------------------------------------------------
(* The run's directory, its marker, and the sweep of empty directories:    *)
(* every run sweeps when it opens and when it closes, under one lock.      *)

Claim(r) ==
  /\ Same(r, "planned") /\ lock = NoRun
  /\ lock' = r /\ dirs' = dirs \cup {r} /\ Goes(r, "marking")
  /\ UNCHANGED <<planVars, packVars, victims, active, packDirs, manifests>>

Mark(r) ==
  /\ Same(r, "marking")
  /\ active' = active \cup {r} /\ Goes(r, "looking")
  /\ UNCHANGED <<planVars, packVars, victims, lock, dirs, packDirs, manifests>>

Unmark(r) ==
  /\ Same(r, "closing") /\ lock = NoRun
  /\ lock' = r /\ active' = active \ {r} /\ Goes(r, "looking")
  /\ UNCHANGED <<planVars, packVars, victims, dirs, packDirs, manifests>>

Inactive == dirs \ active

SweepLook(r) ==
  /\ Same(r, "looking")
  /\ victims' = [victims EXCEPT ![r] = Inactive] /\ Goes(r, "sweeping")
  /\ UNCHANGED <<planVars, packVars, treeVars>>

AllPackDirs(gone) == {d \in packDirs : d[1] \in gone}                       \* faulty

\* rmdir leaves whatever is not empty.
EmptyPackDirs(gone) == {d \in packDirs : d[1] \in gone /\ manifests[d[1]][d[2]] = "absent"}

\* Faulty: the lock is not given back.
SweepKeeps(r) ==
  /\ Same(r, "sweeping") /\ UNCHANGED <<lock, dirs, packDirs>>
  /\ Goes(r, IF verdict[r] = NoVerdict THEN "opened" ELSE "over")
  /\ UNCHANGED <<planVars, packVars, victims, active, manifests>>

SweepRemove(r) ==
  /\ Same(r, "sweeping") /\ lock' = NoRun
  /\ packDirs' = packDirs \ EmptyPackDirs(victims[r])
  /\ dirs' = dirs \ {v \in victims[r] : v \notin active /\ \A d \in packDirs' : d[1] # v}
  /\ Goes(r, IF verdict[r] = NoVerdict THEN "opened" ELSE "over")
  /\ UNCHANGED <<planVars, packVars, victims, active, manifests>>

-----------------------------------------------------------------------------
(* The packet. *)

NeverStale(r) == FALSE                                                     \* faulty

\* Worktree sources are read again and must still be what the plan was bound to.
Stale(r) ==
  ~Staged(request[r]) /\ \E p \in DOMAIN scope[r].records :
    scope[r].records[p].status # "deleted" /\ work[p] # scope[r].records[p].image

Raises(r) ==
  verdict' = [verdict EXCEPT ![r] = [status |-> "failed", reason |-> "runtime-exception"]]

Materialize(r) ==
  /\ Same(r, "opened")
  /\ IF Stale(r) THEN Raises(r) /\ Goes(r, "closing") /\ UNCHANGED <<packet, left>>
     ELSE /\ packet' = [packet EXCEPT ![r] = [contents |-> [p \in DOMAIN scope[r].records |->
                          IF Staged(request[r]) THEN scope[r].records[p].image ELSE AfterImage(request[r], p)],
                          intact |-> TRUE]]
          /\ verdict' = [verdict EXCEPT ![r] = [status |-> "passed", reason |-> "completed"]]
          /\ left' = [left EXCEPT ![r] = plan[r].order] /\ Goes(r, "packs")
  /\ UNCHANGED <<planVars, command, commands, evidence, blocked, failed, victims, treeVars>>

\* The digest that binds evidence to this run's subject: none for an
\* unbounded scope, withheld from packs that read the live checkout.
ReadsLiveCheckout(r) ==
  request[r].stage \in LaterStages /\ \E c \in DOMAIN Pack(r).commands :
    Pack(r).commands[c].checker = "secrets" /\ CommandApplies(Pack(r).commands[c], request[r].stage)
Bound(r) == scope[r].kind = "changed" /\ ~ReadsLiveCheckout(r)

-----------------------------------------------------------------------------
(* Packs and their commands. *)

Missing(r) == failed[r] \cap Pack(r).depends

Fails(r) == verdict' = [verdict EXCEPT ![r] = [status |-> "failed", reason |-> verdict[r].reason]]

\* A pack whose prerequisite failed is left out and fails its own dependents.
LeaveOut(r) ==
  /\ Same(r, "packs") /\ left[r] # <<>> /\ Missing(r) # {}
  /\ blocked' = [blocked EXCEPT ![r] = @ \cup {Head(left[r])}]
  /\ failed' = [failed EXCEPT ![r] = @ \cup {Head(left[r])}]
  /\ left' = [left EXCEPT ![r] = Tail(@)]
  /\ IF Pack(r).blocking THEN Fails(r) ELSE UNCHANGED verdict
  /\ UNCHANGED <<at, planVars, packet, command, commands, evidence, victims, treeVars>>

OpenPack(r) ==
  /\ Same(r, "packs") /\ left[r] # <<>> /\ Missing(r) = {}
  /\ dirs' = dirs \cup {r} /\ packDirs' = packDirs \cup {Here(r)}
  /\ command' = [command EXCEPT ![r] = 1] /\ commands' = [commands EXCEPT ![r] = <<>>]
  /\ Goes(r, "command")
  /\ UNCHANGED <<planVars, packet, left, evidence, blocked, failed, verdict, victims, lock, active, manifests>>

AllPacks(r) ==
  /\ Same(r, "packs") /\ left[r] = <<>> /\ Goes(r, "closing")
  /\ UNCHANGED <<planVars, packVars, victims, treeVars>>

Entry(r) == Pack(r).commands[command[r]]

\* command_argv: a stage filter or a placeholder without a value skips it.
Applicable(r) ==
  /\ request[r].stage = NoStage \/ CommandApplies(Entry(r), request[r].stage)
  /\ Entry(r).needs \in request[r].given \cup {"none"}

\* What a finding's severity counts as; plain text follows the envelope.
Severity(severity, failing) ==
  IF severity = "unknown" THEN "blocking"
  ELSE IF severity = "text" THEN (IF failing THEN "blocking" ELSE "advisory") ELSE severity

\* normalized_command: one process result as evidence.
Normalized(result) ==
  LET broken == result.exit # 0 \/ result.term # "completed"
      known == result.parsed /\ result.status \in {"passed", "warning", "failed", "not-applicable"}
      declared == IF result.parsed THEN result.status ELSE "failed"
      failing == broken \/ declared = "failed"
      reported == {Severity(s, failing) : s \in result.findings}
                  \cup IF known THEN {} ELSE {"blocking"}
      status == IF failing \/ ~known \/ "blocking" \in reported THEN "failed"
                ELSE IF "advisory" \in reported THEN "warning"
                ELSE IF declared = "not-applicable" THEN declared ELSE "passed"
      legible == known /\ "unknown" \notin result.findings
      kind == IF status # "failed" THEN "none"
              ELSE IF result.term \in {"timeout", "cancelled"} THEN result.term
              ELSE IF ~legible THEN "invalid-output"
              ELSE IF result.exit < 0 THEN "execution"
              ELSE IF "blocking" \in reported THEN "check" ELSE "execution"
  IN [status |-> status, exit |-> result.exit, term |-> result.term, kind |-> kind, process |-> broken,
      integrity |-> ~broken /\ (~legible \/ (status = "failed" /\ "blocking" \notin reported))]

PacketIgnored(evidenceOf) == evidenceOf                                    \* faulty

PacketChanged(evidenceOf) ==
  [evidenceOf EXCEPT !.status = "failed", !.term = "packet-integrity", !.kind = "integrity",
                     !.integrity = TRUE]
NotStarted == [status |-> "failed", exit |-> 1, term |-> "packet-integrity", kind |-> "integrity",
               process |-> FALSE, integrity |-> TRUE]

Recorded(r, item) ==
  /\ commands' = [commands EXCEPT ![r] = Append(@, item)]
  /\ IF item.status = "failed" /\ Pack(r).failFast
     THEN Goes(r, "inspect") /\ UNCHANGED command
     ELSE Goes(r, "command") /\ command' = [command EXCEPT ![r] = @ + 1]

\* Skip, refuse or start the command at hand.
StartCommand(r) ==
  /\ Same(r, "command")
  /\ IF command[r] > Len(Pack(r).commands) THEN Goes(r, "inspect") /\ UNCHANGED <<command, commands>>
     ELSE IF ~Applicable(r) THEN command' = [command EXCEPT ![r] = @ + 1] /\ UNCHANGED <<at, commands>>
     ELSE IF ~packet[r].intact THEN Recorded(r, NotStarted)
     ELSE Goes(r, "running") /\ UNCHANGED <<command, commands>>
  /\ UNCHANGED <<planVars, packet, left, evidence, blocked, failed, verdict, victims, treeVars>>

\* A checker whose selection the packet cannot answer fails.
Served(r) == PacketServes(scope[r], CheckerFlag(Entry(r).checker, request[r].stage, request[r].mode))

EndCommand(r) ==
  /\ Same(r, "running")
  /\ \E result \in Results :
       /\ Served(r) \/ result.exit # 0
       /\ Recorded(r, IF packet[r].intact THEN Normalized(result) ELSE PacketChanged(Normalized(result)))
  /\ UNCHANGED <<planVars, packet, left, evidence, blocked, failed, verdict, victims, treeVars>>

\* A program that does not exist raises through the run.
CannotStart(r) ==
  /\ Same(r, "running") /\ Entry(r).checker = "own"
  /\ Raises(r) /\ Goes(r, "closing")
  /\ UNCHANGED <<planVars, packet, left, command, commands, evidence, blocked, failed, victims, treeVars>>

\* What a command may do meanwhile: spoil the packet, or leave a manifest.
Tamper(r) ==
  /\ Same(r, "running") /\ packet[r].intact
  /\ packet' = [packet EXCEPT ![r].intact = FALSE]
  /\ UNCHANGED <<at, planVars, left, command, commands, evidence, blocked, failed, verdict, victims, treeVars>>

WriteManifest(r) ==
  /\ Same(r, "running") /\ manifests[r][Head(left[r])] = "absent" /\ Here(r) \in packDirs
  /\ \E kind \in ManifestKinds \ {"absent"} : manifests' = [manifests EXCEPT ![r][Head(left[r])] = kind]
  /\ UNCHANGED <<at, planVars, packVars, victims, lock, dirs, active, packDirs>>

-----------------------------------------------------------------------------
(* The verdict on a pack and on the run. *)

\* A manifest counts only if it is well formed and names this run's subject.
Inspected(r) ==
  LET kind == manifests[r][Head(left[r])]
  IN IF kind = "absent" THEN "absent" ELSE IF kind = "own" /\ Bound(r) THEN "valid" ELSE "invalid"

Had(r, status) == \E c \in DOMAIN commands[r] : commands[r][c].status = status

PackEvidence(r) ==
  [pack |-> Head(left[r]), commands |-> commands[r], manifest |-> Inspected(r), bound |-> Bound(r),
   status |-> IF Had(r, "failed") \/ commands[r] = <<>> \/ Inspected(r) = "invalid" THEN "failed"
              ELSE IF Had(r, "warning") THEN "warning" ELSE "passed"]

Some(item, Holds(_)) == \E c \in DOMAIN item.commands : Holds(item.commands[c])
Process(c) == c.process
Unusual(c) == c.integrity \/ c.kind \notin {"none", "check"} \/ c.exit \notin {0, 1} \/ c.term # "completed"

\* Only ordinary verdicts let the run go on.
DiagnosticStop(item) == item.manifest = "invalid" \/ Some(item, Unusual)

\* The reason given by the last failed command.
Reason(r, item) ==
  LET bad == {c \in DOMAIN item.commands : item.commands[c].status = "failed"}
  IN IF bad = {} THEN verdict[r].reason ELSE item.commands[Max(bad)].term

Overall(r, item) ==
  IF \/ DiagnosticStop(item) \/ verdict[r].status = "failed"
     \/ item.status = "failed" /\ (Some(item, Process) \/ Pack(r).blocking) THEN "failed"
  ELSE IF item.status \in {"failed", "warning"} THEN "warning" ELSE verdict[r].status

ClosePack(r) ==
  LET item == PackEvidence(r)
  IN /\ Same(r, "inspect")
     /\ evidence' = [evidence EXCEPT ![r] = Append(@, item)]
     /\ packDirs' = packDirs \ (EmptyPackDirs({r}) \cap {Here(r)})
     /\ verdict' = [verdict EXCEPT ![r] = [status |-> Overall(r, item), reason |-> Reason(r, item)]]
     /\ failed' = IF item.status = "failed" /\ ~DiagnosticStop(item)
                  THEN [failed EXCEPT ![r] = @ \cup {item.pack}] ELSE failed
     /\ left' = [left EXCEPT ![r] = Tail(@)]
     /\ Goes(r, IF DiagnosticStop(item) THEN "closing" ELSE "packs")
     /\ UNCHANGED <<planVars, packet, command, commands, blocked, victims, lock, dirs, active, manifests>>

\* The exit code of a finished check.
ExitCode(r) ==
  IF verdict[r].status \notin {"failed", "blocked"} THEN 0
  ELSE IF verdict[r].reason = "timeout" THEN 124
  ELSE IF verdict[r].reason = "cancelled" THEN 130 ELSE 1

\* A killed run leaves its marker behind; its lock goes with the process.
Kill(r) ==
  /\ at[r] \notin {"asked", "over", "killed"} /\ kills < MaxKills
  /\ kills' = kills + 1 /\ Goes(r, "killed") /\ lock' = IF lock = r THEN NoRun ELSE lock
  /\ UNCHANGED <<fileVars, packs, planVars, packVars, victims, dirs, active, packDirs, manifests>>

Step(r) ==
  \/ Refuse(r) \/ Look(r) \/ Bind(r) \/ Confirm(r) \/ Claim(r) \/ Mark(r) \/ Unmark(r) \/ SweepLook(r)
  \/ SweepRemove(r) \/ Materialize(r) \/ LeaveOut(r) \/ OpenPack(r) \/ AllPacks(r) \/ StartCommand(r)
  \/ EndCommand(r) \/ CannotStart(r) \/ ClosePack(r)

Early == {"asked", "binding", "planned", "marking", "looking", "sweeping", "opened"}

Next ==
  \/ \E r \in Runs : Step(r) \/ Tamper(r) \/ WriteManifest(r) \/ Kill(r)
  \/ \* Other edits change nothing that is modelled here.
     /\ \E r \in Runs : at[r] \in Early /\ ~Unbound(r)
     /\ Edit /\ UNCHANGED <<packs, at, planVars, packVars, victims, treeVars, kills>>

Spec == Init /\ [][Next]_vars
\* A run goes on; a command ends (the caller may set a deadline for it); the
\* lock, a flock, is not withheld for ever from a run that keeps waiting.
FairSpec == Spec /\ \A r \in Runs : SF_vars(Step(r))

-----------------------------------------------------------------------------
(* Properties. *)

InPack(r) == at[r] \in {"command", "running", "inspect"}

\* Sweeps of other runs never take the directories a run is about to mark or a
\* pack is writing to.
EvidenceHome ==
  \A r \in Runs : /\ at[r] = "marking" => r \in dirs
                  /\ InPack(r) => r \in dirs /\ Here(r) \in packDirs

\* Evidence a pack has left is never removed, neither by its own run nor by a
\* sweep; and once a run has ended, nothing empty of it is left behind.
EvidenceKept ==
  \A r \in Runs :
    /\ \A p \in Ids : manifests[r][p] # "absent" => r \in dirs /\ <<r, p>> \in packDirs
    /\ at[r] = "over" =>
         /\ r \in dirs => \E d \in packDirs : d[1] = r
         /\ \A d \in packDirs : d[1] = r => manifests[r][d[2]] # "absent"

\* The evidence directories of a run are there while it needs them, and what it
\* left in them stays (_prune_empty_evidence_scaffolding, .active).
EvidenceSafe == EvidenceHome /\ EvidenceKept

Ran(r) == {evidence[r][i].pack : i \in DOMAIN evidence[r]}

Succeeded(r, p) == \E i \in DOMAIN evidence[r] : evidence[r][i].pack = p /\ evidence[r][i].status # "failed"

\* No pack runs once a pack it needs, directly or through others, has failed,
\* was left out, or has not run.
PrerequisitesFirst ==
  \A r \in Runs : InPack(r) =>
    \E needed \in SUBSET Ids :
      /\ Pack(r).depends \subseteq needed
      /\ \A p \in needed : packs[p].depends \subseteq needed /\ Succeeded(r, p)

\* Exit code 0: every planned pack ran some command, every command exited 0 on an
\* intact packet without a blocking finding, and no manifest was refused.
ExitProven ==
  \A r \in Runs : at[r] = "over" /\ ExitCode(r) = 0 =>
    /\ Ran(r) \cup blocked[r] = plan[r].selected
    /\ verdict[r].status = "passed" => blocked[r] = {}
    /\ \A i \in DOMAIN evidence[r] :
         LET item == evidence[r][i]
         IN /\ item.manifest # "invalid"
            /\ \A c \in DOMAIN item.commands : item.commands[c].exit = 0 /\ ~item.commands[c].integrity
            /\ packs[item.pack].blocking => item.commands # <<>> /\ item.status # "failed"
    /\ plan[r].order # <<>> => packet[r].intact

\* A check passes only on proof, each pack's from after what it needs
\* (execution_order, execute_packs, normalized_command).
PassedProven == PrerequisitesFirst /\ ExitProven

Effective(id) == IF id \in Replaced(packs) THEN OwnerOf(packs, id) ELSE id

\* Each planned pack comes after the packs it needs.
InOrder(made) ==
  /\ made.selected \subseteq Ids /\ made.order \in Seq(made.selected)
  /\ ToSet(made.order) = made.selected
  /\ \A i \in DOMAIN made.order : \A p \in packs[made.order[i]].depends :
       \E j \in 1 .. i - 1 : made.order[j] = p

\* A pack that the request touches runs or its replacement does, never a
\* replaced built-in, and every changed path has an owner.
PlanCovers ==
    \A q \in PlanRequests :
      LET made == BuildPlan(packs, q)
          concerned == {id \in Candidates(packs, q) :
             q.mode = "all" \/ packs[id].always \/ packs[id].globs \cap q.paths # {}}
      IN (made.ready /\ q.named = {}) =>
           /\ made.selected \cap Replaced(packs) = {}
           /\ \A id \in concerned : Effective(id) \in made.selected
           /\ q.mode = "impacted" => \A path \in q.paths :
                \E id \in made.selected : packs[id].owner /\ path \in packs[id].globs

\* Packs come once each and after their prerequisites, each blocking one with a
\* command to run.
PlanOrdered ==
    \A q \in PlanRequests : BuildPlan(packs, q).ready =>
      LET made == BuildPlan(packs, q)
      IN /\ q.named \subseteq made.selected
         /\ InOrder(made) /\ Len(made.order) = Cardinality(made.selected)
         /\ \A id \in made.selected : packs[id].blocking /\ q.stage # NoStage =>
              \E c \in DOMAIN packs[id].commands : CommandApplies(packs[id].commands[c], q.stage)

PlansInOrder == \A r \in Runs : plan[r].ready => InOrder(plan[r])

\* Whatever a loaded configuration is asked, a ready plan looks after every
\* concern, in an order that can be run (_impacted_selection, _all_selection,
\* _dependency_closure, _execution_order).
PlanSound ==
  /\ PlansInOrder
  /\ (Loads(packs) /\ \A r \in Runs : verdict[r] = NoVerdict /\ plan[r] = NoPlan)
       => PlanCovers /\ PlanOrdered

\* Commands read the bytes the plan was made for, although files are edited
\* meanwhile, and the ranges they are told are those of these bytes.  (Only of a
\* file that was changed, bound and changed back between two equal snapshots, and
\* so edited three times, may the ranges be others.)
CommandsOnSubject ==
  \A r \in Runs : InPack(r) /\ ~Unbound(r) =>
    \A p \in DOMAIN packet[r].contents :
      LET record == scope[r].records[p]
      IN /\ packet[r].contents[p] = record.image \/ record.status = "deleted"
         /\ record.ranges \in {0, record.image} \/ record.status = "deleted" \/ edits > 2
         /\ request[r].paths = {} => p \in plan[r].paths

\* A manifest counts as evidence only for the subject the pack was given: never
\* for a checkout-wide run or a pack that reads the live checkout.
ManifestsOnSubject ==
  \A r \in Runs : \A i \in DOMAIN evidence[r] : evidence[r][i].manifest = "valid" =>
    /\ scope[r].kind = "changed" /\ manifests[r][evidence[r][i].pack] = "own"
    /\ \A c \in DOMAIN packs[evidence[r][i].pack].commands :
         LET entry == packs[evidence[r][i].pack].commands[c]
         IN CommandApplies(entry, request[r].stage)
              => entry.checker = "none" \/ CheckerFlag(entry.checker, request[r].stage, request[r].mode) # "all"

\* What commands are given and what manifests attest is the one subject of the
\* run (resolve_change_scope, _resolved_source_bytes, inspect_evidence_manifest).
OneSubject == CommandsOnSubject /\ ManifestsOnSubject

\* Every run has come to a verdict or was killed.
AllOver == \A r \in Runs : at[r] \in {"over", "killed"}
=============================================================================
