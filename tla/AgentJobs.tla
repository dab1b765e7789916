------------------------------ MODULE AgentJobs ------------------------------
(***************************************************************************)
(* The job registry of provider_agents: jobs.py (start, recover,           *)
(* finish_cleanup, status, cancel), worker.py, guardian.py, launcher.py.   *)
(*                                                                         *)
(* Every job has up to three processes of its own: a detached worker, the  *)
(* guardian the worker starts, and the native root program it supervises.  *)
(* Callers and workers meet in registry.lock; everything else is done      *)
(* through the files of the job directory, written without that lock.      *)
(*                                                                         *)
(* Any process may be killed at any step.  What a process learned from a   *)
(* file stays in its own memory (outcome, view, seen, blocked) and may be  *)
(* stale by the time it acts on it.                                        *)
(*                                                                         *)
(* Descendants of the root program and test batches (several roots one     *)
(* after the other) are not part of this module.                           *)
(***************************************************************************)
EXTENDS WorkspaceClaims, Naturals, FiniteSets

CONSTANTS
  Stamps,      \* values of created_at; the wall clock need not be monotone
  Rank,        \* Rank[j]: position of j among job identifiers, the tie-break
  Outcomes,    \* how an assignment that was not cancelled may end
  Cancellable, \* the jobs some caller may ask to cancel
  Polled,      \* the jobs some caller asks the status of
  Failing,     \* the jobs whose launches and checks may fail (missing program,
               \* full disk, changed runtime)
  MaxFaults,   \* bound on killed processes and refused signals
  StaleViews   \* may a root be recorded while the guardian holds an older reading?

Terminal == {"succeeded", "blocked", "failed", "cancelled", "timed_out"}

Nobody == "nobody"
Caller == "caller"

ASSUME RegistryAssumption ==
  /\ Stamps \subseteq Nat
  /\ Rank \in [Jobs -> Nat]
  /\ \A j, k \in Jobs : Rank[j] = Rank[k] => j = k
  /\ Outcomes \subseteq Terminal
  /\ Cancellable \subseteq Jobs
  /\ Polled \subseteq Jobs
  /\ Failing \subseteq Jobs
  /\ MaxFaults \in Nat
  /\ StaleViews \in BOOLEAN
  /\ Nobody \notin Jobs /\ Caller \notin Jobs

VARIABLES
  status,       \* state in status.json; "unpublished": directory without one
  result,       \* result.json: pending_state if pending, else the state
  cancelFile,   \* cancel.json exists
  stamp,        \* created_at
  completion,   \* holder of the job's completion.lock
  launchFile,   \* launch.json (later worker.json) names the worker process
  worker,       \* where the worker process is
  outcome,      \* the outcome the worker will publish
  guardianFile, \* guardian.json names the guardian process
  guardian,     \* where the guardian process is
  view,         \* does the provider.json the guardian last read name the root?
  root,         \* the native root program
  rootFile,     \* provider.json names the root program
  holder,       \* holder of registry.lock: a job's worker, Caller or Nobody
  op,           \* what the holder is doing
  subject,      \* the job a caller's operation is about
  todo,         \* job directories the scan in _blockers has not reached
  blocked,      \* the scan found a blocker
  target,       \* the job the holder is recovering
  step,         \* where in recover the holder is
  seen,         \* the state of the target that recover will return
  faults        \* killed processes and refused signals so far

fileVars  == <<status, result, cancelFile, stamp>>
workVars  == <<launchFile, worker, outcome>>
guardVars == <<guardianFile, guardian, view>>
rootVars  == <<root, rootFile>>
lockVars  == <<holder, op, subject, todo, blocked, target, step, seen>>
vars == <<fileVars, completion, workVars, guardVars, rootVars, lockVars, faults>>

-----------------------------------------------------------------------------

WorkerPoints ==
  {"none", "gated", "begin", "guarding", "waiting", "asking", "scanning",
   "preparing", "launching", "spawned", "recorded", "pumping", "closing",
   "uncleaned", "cleaned", "written", "dead"}
GuardianPoints == {"none", "born", "watch", "looked", "reap", "finish", "publish", "gone"}
RootPoints     == {"none", "gated", "native", "gone"}
Steps          == {"none", "read", "probe", "stop", "finish", "publish", "judge"}
Operations     == {"none", "start", "status", "cancel", "acquire"}
Statuses       == {"absent", "unpublished", "queued", "running"} \cup Terminal
Results        == [pending : BOOLEAN, state : Terminal \cup {"none"}]
NoResult       == [pending |-> FALSE, state |-> "none"]

Published(j) == status[j] \notin {"absent", "unpublished"}
Open(j)      == status[j] \in {"queued", "running"}

\* Process existence, as same_process sees it through the recorded identity.
WorkerAlive(j)   == worker[j] \notin {"none", "dead"}
GuardianAlive(j) == guardian[j] \notin {"none", "gone"}
WorkerSeen(j)    == launchFile[j] /\ WorkerAlive(j)
GuardianSeen(j)  == guardianFile[j] /\ GuardianAlive(j)

\* (created_at, job_id) order of the queue.
Earlier(j, k) ==
  \/ stamp[j] < stamp[k]
  \/ stamp[j] = stamp[k] /\ Rank[j] < Rank[k]

\* Faulty: whatever result.json holds is published, pending or not.
CleanupStateUnmarked(j) == IF cancelFile[j] THEN "cancelled" ELSE result[j].state

\* The state finish_cleanup publishes for a job whose supervisors are gone.
CleanupState(j) ==
  IF cancelFile[j] THEN "cancelled"
  ELSE IF result[j].pending THEN result[j].state ELSE "failed"

\* Worker.interrupted: cancel.json, a signal, or one of the caller's deadlines.
Interruptions(j) ==
  IF cancelFile[j] THEN {"cancelled"} ELSE Outcomes \cap {"cancelled", "timed_out"}

TypeOK ==
  /\ status \in [Jobs -> Statuses]
  /\ result \in [Jobs -> Results]
  /\ cancelFile \in [Jobs -> BOOLEAN]
  /\ stamp \in [Jobs -> Nat]
  /\ completion \in [Jobs -> {"free", "guardian", "registry"}]
  /\ launchFile \in [Jobs -> BOOLEAN]
  /\ worker \in [Jobs -> WorkerPoints]
  /\ outcome \in [Jobs -> Terminal \cup {"none"}]
  /\ guardianFile \in [Jobs -> BOOLEAN]
  /\ guardian \in [Jobs -> GuardianPoints]
  /\ view \in [Jobs -> BOOLEAN]
  /\ root \in [Jobs -> RootPoints]
  /\ rootFile \in [Jobs -> BOOLEAN]
  /\ holder \in Jobs \cup {Nobody, Caller}
  /\ op \in Operations
  /\ subject \in Jobs \cup {NoJob}
  /\ todo \subseteq Jobs
  /\ blocked \in BOOLEAN
  /\ target \in Jobs \cup {NoJob}
  /\ step \in Steps
  /\ seen \in Statuses
  /\ faults \in Nat

Init ==
  /\ status = [j \in Jobs |-> "absent"]
  /\ result = [j \in Jobs |-> NoResult]
  /\ cancelFile = [j \in Jobs |-> FALSE]
  /\ stamp = [j \in Jobs |-> 0]
  /\ completion = [j \in Jobs |-> "free"]
  /\ launchFile = [j \in Jobs |-> FALSE]
  /\ worker = [j \in Jobs |-> "none"]
  /\ outcome = [j \in Jobs |-> "none"]
  /\ guardianFile = [j \in Jobs |-> FALSE]
  /\ guardian = [j \in Jobs |-> "none"]
  /\ view = [j \in Jobs |-> FALSE]
  /\ root = [j \in Jobs |-> "none"]
  /\ rootFile = [j \in Jobs |-> FALSE]
  /\ holder = Nobody /\ op = "none" /\ subject = NoJob
  /\ todo = {} /\ blocked = FALSE
  /\ target = NoJob /\ step = "none" /\ seen = "absent"
  /\ faults = 0

-----------------------------------------------------------------------------
(* registry.lock and the subroutine every holder runs on some job: recover *)

Unlock ==
  /\ holder' = Nobody /\ op' = "none" /\ subject' = NoJob
  /\ todo' = {} /\ blocked' = FALSE
  /\ target' = NoJob /\ step' = "none" /\ seen' = "absent"

AtStep(s) == step' = s /\ UNCHANGED <<holder, op, subject, todo, blocked, target>>

\* A killed holder releases registry.lock and, with it, a completion.lock it holds.
CompletionReleased ==
  IF step = "publish" /\ target # NoJob
  THEN completion' = [completion EXCEPT ![target] = "free"]
  ELSE UNCHANGED completion

Stopped(j) == [root EXCEPT ![j] = IF @ \in {"gated", "native"} THEN "gone" ELSE @]

\* Faulty: only running jobs are recovered.
RecoverReadRunningOnly ==
  /\ target # NoJob /\ step = "read"
  /\ seen' = status[target]
  /\ AtStep(IF status[target] = "running" THEN "probe" ELSE "judge")
  /\ UNCHANGED <<fileVars, completion, workVars, guardVars, rootVars, faults>>

RecoverRead ==
  /\ target # NoJob /\ step = "read"
  /\ seen' = status[target]
  /\ AtStep(IF status[target] \in Terminal THEN "judge" ELSE "probe")
  /\ UNCHANGED <<fileVars, completion, workVars, guardVars, rootVars, faults>>

\* Jobs are left alone for five seconds after their creation.
RecoverYoung ==
  /\ target # NoJob /\ step = "read"
  /\ seen' = status[target]
  /\ AtStep("judge")
  /\ UNCHANGED <<fileVars, completion, workVars, guardVars, rootVars, faults>>

\* Faulty: the guardian alone counts as a supervisor.
RecoverProbeGuardianOnly ==
  /\ target # NoJob /\ step = "probe"
  /\ AtStep(IF GuardianSeen(target) THEN "judge" ELSE "stop")
  /\ UNCHANGED <<fileVars, completion, workVars, guardVars, rootVars, seen, faults>>

RecoverProbe ==
  /\ target # NoJob /\ step = "probe"
  /\ AtStep(IF WorkerSeen(target) \/ GuardianSeen(target) THEN "judge" ELSE "stop")
  /\ UNCHANGED <<fileVars, completion, workVars, guardVars, rootVars, seen, faults>>

\* Faulty: a job without supervisors is finished without stopping its program.
RecoverStopNothing ==
  /\ target # NoJob /\ step = "stop"
  /\ AtStep("finish")
  /\ UNCHANGED <<fileVars, completion, workVars, guardVars, rootVars, seen, faults>>

RecoverStop ==
  /\ target # NoJob /\ step = "stop"
  /\ root' = IF rootFile[target] THEN Stopped(target) ELSE root
  /\ AtStep("finish")
  /\ UNCHANGED <<fileVars, completion, workVars, guardVars, rootFile, seen, faults>>

RecoverStopRefused ==
  /\ target # NoJob /\ step = "stop"
  /\ rootFile[target] /\ root[target] \in {"gated", "native"}
  /\ faults < MaxFaults /\ faults' = faults + 1
  /\ AtStep("judge")
  /\ UNCHANGED <<fileVars, completion, workVars, guardVars, rootVars, seen>>

RecoverFinish ==
  /\ target # NoJob /\ step = "finish"
  /\ completion[target] = "free"
  /\ IF status[target] \in Terminal
       THEN /\ seen' = status[target] /\ AtStep("judge")
            /\ UNCHANGED <<result, completion>>
       ELSE /\ result' = [result EXCEPT ![target] =
                            [pending |-> FALSE, state |-> CleanupState(target)]]
            /\ completion' = [completion EXCEPT ![target] = "registry"]
            /\ AtStep("publish") /\ UNCHANGED seen
  /\ UNCHANGED <<status, cancelFile, stamp, workVars, guardVars, rootVars, faults>>

RecoverPublish ==
  /\ target # NoJob /\ step = "publish"
  /\ status' = [status EXCEPT ![target] = result[target].state]
  /\ seen' = result[target].state
  /\ completion' = [completion EXCEPT ![target] = "free"]
  /\ AtStep("judge")
  /\ UNCHANGED <<result, cancelFile, stamp, workVars, guardVars, rootVars, faults>>

Recover ==
  \/ RecoverRead \/ RecoverYoung \/ RecoverProbe \/ RecoverStop \/ RecoverStopRefused
  \/ RecoverFinish \/ RecoverPublish

-----------------------------------------------------------------------------
(* Callers: start, status and cancel *)

Lock(who, o, j, t, s) ==
  /\ holder = Nobody
  /\ holder' = who /\ op' = o /\ subject' = j
  /\ target' = t /\ step' = s
  /\ UNCHANGED <<todo, blocked, seen>>

\* Faulty: the idempotency key is not looked up.
SubmitEveryKey(j) ==
  /\ status[j] = "absent"
  /\ \A k \in Jobs : status[k] # "unpublished"
  /\ Lock(Caller, "start", j, NoJob, "none")
  /\ status' = [status EXCEPT ![j] = "unpublished"]
  /\ UNCHANGED <<result, cancelFile, stamp, completion, workVars, guardVars,
                 rootVars, faults>>

\* start, up to the creation of the job directory.  A nested request is made by
\* the program of an enclosing job; a follow-up needs its predecessor finished.
Submit(j) ==
  /\ status[j] = "absent"
  /\ \A k \in Jobs : status[k] # "unpublished"
  /\ \A k \in Jobs : SameKey(j, k) => status[k] = "absent"
  /\ Request[j].enclosing # {} => \E p \in Request[j].enclosing : root[p] = "native"
  /\ \A p \in Request[j].enclosing :
       status[p] \notin Terminal => ~NestingRefused(Request[j], Request[p])
  /\ Request[j].resumes \in Jobs => status[Request[j].resumes] \in Terminal
  /\ Lock(Caller, "start", j, NoJob, "none")
  /\ status' = [status EXCEPT ![j] = "unpublished"]
  /\ UNCHANGED <<result, cancelFile, stamp, completion, workVars, guardVars,
                 rootVars, faults>>

Starting(j) == holder = Caller /\ op = "start" /\ subject = j /\ step = "none"

PublishQueued(j) ==
  /\ Starting(j) /\ status[j] = "unpublished"
  /\ status' = [status EXCEPT ![j] = "queued"]
  /\ \E t \in Stamps : stamp' = [stamp EXCEPT ![j] = t]
  /\ UNCHANGED <<result, cancelFile, completion, workVars, guardVars, rootVars,
                 lockVars, faults>>

SpawnWorker(j) ==
  /\ Starting(j) /\ status[j] = "queued" /\ worker[j] = "none"
  /\ worker' = [worker EXCEPT ![j] = "gated"]
  /\ UNCHANGED <<fileVars, completion, launchFile, outcome, guardVars, rootVars,
                 lockVars, faults>>

RecordWorker(j) ==
  /\ Starting(j) /\ worker[j] # "none" /\ ~launchFile[j]
  /\ launchFile' = [launchFile EXCEPT ![j] = TRUE]
  /\ UNCHANGED <<fileVars, completion, worker, outcome, guardVars, rootVars,
                 lockVars, faults>>

OpenGate(j) ==
  /\ Starting(j) /\ launchFile[j]
  /\ worker' = [worker EXCEPT ![j] = IF @ = "gated" THEN "begin" ELSE @]
  /\ Unlock
  /\ UNCHANGED <<fileVars, completion, launchFile, outcome, guardVars, rootVars, faults>>

\* Popen, launch.json or the gate fails: the closed gate ends the launcher and
\* the caller publishes the failure itself, result.json before status.json.
LaunchError(j) ==
  /\ j \in Failing /\ Starting(j) /\ status[j] = "queued"
  /\ worker' = [worker EXCEPT ![j] = IF @ = "gated" THEN "dead" ELSE @]
  /\ result' = [result EXCEPT ![j] = [pending |-> FALSE, state |-> "failed"]]
  /\ AtStep("publish")
  /\ UNCHANGED <<status, cancelFile, stamp, completion, launchFile, outcome,
                 guardVars, rootVars, seen, faults>>

LaunchErrorPublish(j) ==
  /\ holder = Caller /\ op = "start" /\ subject = j /\ step = "publish"
  /\ status' = [status EXCEPT ![j] = "failed"]
  /\ Unlock
  /\ UNCHANGED <<result, cancelFile, stamp, completion, workVars, guardVars,
                 rootVars, faults>>

\* The starter is gone: the launcher reads end of file and never runs the worker.
WorkerGateCloses(j) ==
  /\ worker[j] = "gated" /\ ~(holder = Caller /\ op = "start" /\ subject = j)
  /\ worker' = [worker EXCEPT ![j] = "dead"]
  /\ UNCHANGED <<fileVars, completion, launchFile, outcome, guardVars, rootVars,
                 lockVars, faults>>

\* status, also the answer to a repeated idempotency key and what wait polls.
Poll(j) ==
  /\ j \in Polled /\ Open(j)
  /\ Lock(Caller, "status", j, j, "read")
  /\ UNCHANGED <<fileVars, completion, workVars, guardVars, rootVars, faults>>

PollReturns ==
  /\ op = "status" /\ step = "judge"
  /\ Unlock
  /\ UNCHANGED <<fileVars, completion, workVars, guardVars, rootVars, faults>>

CancelRequest(j) ==
  /\ j \in Cancellable /\ Open(j) /\ ~cancelFile[j]
  /\ Lock(Caller, "cancel", j, j, "read")
  /\ UNCHANGED <<fileVars, completion, workVars, guardVars, rootVars, faults>>

CancelReturns ==
  /\ op = "cancel" /\ step = "judge"
  /\ cancelFile' = [cancelFile EXCEPT ![subject] = @ \/ seen \notin Terminal]
  /\ Unlock
  /\ UNCHANGED <<status, result, stamp, completion, workVars, guardVars,
                 rootVars, faults>>

KillCaller ==
  /\ holder = Caller
  /\ faults < MaxFaults /\ faults' = faults + 1
  /\ CompletionReleased
  /\ Unlock
  /\ UNCHANGED <<fileVars, workVars, guardVars, rootVars>>

CallerStep ==
  \/ \E j \in Jobs : \/ PublishQueued(j) \/ SpawnWorker(j) \/ RecordWorker(j)
                     \/ OpenGate(j) \/ LaunchErrorPublish(j)
  \/ PollReturns \/ CancelReturns

-----------------------------------------------------------------------------
(* The worker *)

Goes(j, from, to) ==
  /\ worker[j] = from
  /\ worker' = [worker EXCEPT ![j] = to]

\* The worker leaves its work and turns to cleanup with the outcome o.
Closes(j, o) ==
  /\ worker' = [worker EXCEPT ![j] = "closing"]
  /\ outcome' = [outcome EXCEPT ![j] = o]

\* An exception: the interruption if there is one, otherwise failed or blocked.
Failures(j) ==
  IF cancelFile[j] THEN {"cancelled"}
  ELSE {"failed"} \cup (Outcomes \cap {"blocked", "cancelled", "timed_out"})

WorkerBegins(j) ==
  /\ worker[j] = "begin"
  /\ IF status[j] \in Terminal
       THEN worker' = [worker EXCEPT ![j] = "dead"] /\ UNCHANGED guardian
       ELSE /\ worker' = [worker EXCEPT ![j] = "guarding"]
            /\ guardian' = [guardian EXCEPT ![j] = "born"]
  /\ UNCHANGED <<fileVars, completion, launchFile, outcome, guardianFile, view,
                 rootVars, lockVars, faults>>

\* Changed runner code, or a guardian that dies or is late with its report.
StartupFails(j) ==
  /\ worker[j] \in {"begin", "guarding"}
  /\ j \in Failing \/ guardian[j] = "gone"
  /\ status[j] \notin Terminal
  /\ \E o \in Failures(j) : Closes(j, o)
  /\ UNCHANGED <<fileVars, completion, launchFile, guardVars, rootVars, lockVars, faults>>

WorkerReady(j) ==
  /\ Goes(j, "guarding", "waiting")
  /\ GuardianSeen(j)
  /\ status' = [status EXCEPT ![j] = "queued"]
  /\ UNCHANGED <<result, cancelFile, stamp, completion, launchFile, outcome,
                 guardVars, rootVars, lockVars, faults>>

\* The record the worker keeps in memory is written over status.json, unlocked.
Heartbeat(j) ==
  /\ worker[j] \in {"waiting", "pumping"}
  /\ status' = [status EXCEPT ![j] = IF worker[j] = "waiting" THEN "queued" ELSE "running"]
  /\ UNCHANGED <<result, cancelFile, stamp, completion, workVars, guardVars,
                 rootVars, lockVars, faults>>

Interrupt(j) ==
  /\ worker[j] \in {"waiting", "preparing", "pumping"}
  /\ \E o \in Interruptions(j) : Closes(j, o)
  /\ UNCHANGED <<fileVars, completion, launchFile, guardVars, rootVars, lockVars, faults>>

Asks(j) ==
  /\ Goes(j, "waiting", "asking")
  /\ ~cancelFile[j]
  /\ UNCHANGED <<fileVars, completion, launchFile, outcome, guardVars, rootVars,
                 lockVars, faults>>

ScanBegins(j) ==
  /\ worker[j] = "asking" /\ holder = Nobody
  /\ IF status[j] \in Terminal
       THEN Closes(j, status[j]) /\ UNCHANGED lockVars
       ELSE /\ worker' = [worker EXCEPT ![j] = "scanning"]
            /\ holder' = j /\ op' = "acquire"
            /\ todo' = {k \in Jobs \ {j} : status[k] # "absent"}
            /\ UNCHANGED <<outcome, subject, blocked, target, step, seen>>
  /\ UNCHANGED <<fileVars, completion, launchFile, guardVars, rootVars, faults>>

\* records() refuses a job directory without status.json: the assignment fails.
ScanRefuses(j) ==
  /\ holder = j /\ target = NoJob
  /\ \E k \in todo : status[k] = "unpublished"
  /\ \E o \in Failures(j) : Closes(j, o)
  /\ Unlock
  /\ UNCHANGED <<fileVars, completion, launchFile, guardVars, rootVars, faults>>

\* Faulty: other jobs are judged by their files without being recovered first.
ScanPicksUnrecovered(j) ==
  /\ holder = j /\ target = NoJob
  /\ \E k \in todo : Published(k) /\ target' = k /\ step' = "judge" /\ seen' = status[k]
  /\ UNCHANGED <<fileVars, completion, workVars, guardVars, rootVars,
                 holder, op, subject, todo, blocked, faults>>

ScanPicks(j) ==
  /\ holder = j /\ target = NoJob
  /\ \E k \in todo :
       \/ /\ status[k] \in Terminal
          /\ todo' = todo \ {k}
          /\ UNCHANGED <<target, step>>
       \/ /\ Open(k)
          /\ target' = k /\ step' = "read"
          /\ UNCHANGED todo
  /\ UNCHANGED <<fileVars, completion, workVars, guardVars, rootVars,
                 holder, op, subject, blocked, seen, faults>>

\* Faulty: only the queue order counts, not who already runs.
ScanJudgesQueueOnly(j) ==
  /\ holder = j /\ target # NoJob /\ step = "judge"
  /\ blocked' = \/ blocked
                \/ /\ seen \notin Terminal
                   /\ Conflicts(j, target) /\ Earlier(target, j)
  /\ todo' = todo \ {target}
  /\ target' = NoJob /\ step' = "none"
  /\ UNCHANGED <<fileVars, completion, workVars, guardVars, rootVars,
                 holder, op, subject, seen, faults>>

ScanJudges(j) ==
  /\ holder = j /\ target # NoJob /\ step = "judge"
  /\ blocked' = \/ blocked
                \/ /\ seen \notin Terminal
                   /\ Conflicts(j, target)
                   /\ seen = "running" \/ Earlier(target, j)
  /\ todo' = todo \ {target}
  /\ target' = NoJob /\ step' = "none"
  /\ UNCHANGED <<fileVars, completion, workVars, guardVars, rootVars,
                 holder, op, subject, seen, faults>>

ScanBlocked(j) ==
  /\ holder = j /\ target = NoJob /\ todo = {} /\ blocked
  /\ worker' = [worker EXCEPT ![j] = "waiting"]
  /\ Unlock
  /\ UNCHANGED <<fileVars, completion, launchFile, outcome, guardVars, rootVars, faults>>

\* Faulty: the scan is made, its answer is not used.
AcquireAnyway(j) ==
  /\ holder = j /\ target = NoJob /\ todo = {}
  /\ worker' = [worker EXCEPT ![j] = "preparing"]
  /\ status' = [status EXCEPT ![j] = "running"]
  /\ Unlock
  /\ UNCHANGED <<result, cancelFile, stamp, completion, launchFile, outcome,
                 guardVars, rootVars, faults>>

Acquire(j) ==
  /\ holder = j /\ target = NoJob /\ todo = {} /\ ~blocked
  /\ worker' = [worker EXCEPT ![j] = "preparing"]
  /\ status' = [status EXCEPT ![j] = "running"]
  /\ Unlock
  /\ UNCHANGED <<result, cancelFile, stamp, completion, launchFile, outcome,
                 guardVars, rootVars, faults>>

PreparationFails(j) ==
  /\ j \in Failing /\ worker[j] \in {"preparing", "launching"}
  /\ \E o \in Failures(j) : Closes(j, o)
  /\ UNCHANGED <<fileVars, completion, launchFile, guardVars, rootVars, lockVars, faults>>

\* Faulty: a cancellation that arrived while the job was acquired is not looked for.
PreparedUnasked(j) ==
  /\ Goes(j, "preparing", "launching")
  /\ UNCHANGED <<fileVars, completion, launchFile, outcome, guardVars, rootVars,
                 lockVars, faults>>

Prepared(j) ==
  /\ Goes(j, "preparing", "launching")
  /\ ~cancelFile[j]
  /\ UNCHANGED <<fileVars, completion, launchFile, outcome, guardVars, rootVars,
                 lockVars, faults>>

\* Faulty: the program starts without waiting for its record.
SpawnRootUngated(j) ==
  /\ Goes(j, "launching", "spawned")
  /\ root' = [root EXCEPT ![j] = "native"]
  /\ UNCHANGED <<fileVars, completion, launchFile, outcome, guardVars, rootFile,
                 lockVars, faults>>

\* launch_command: the root waits behind a gate until provider.json names it.
SpawnRoot(j) ==
  /\ Goes(j, "launching", "spawned")
  /\ root' = [root EXCEPT ![j] = "gated"]
  /\ UNCHANGED <<fileVars, completion, launchFile, outcome, guardVars, rootFile,
                 lockVars, faults>>

RecordRoot(j) ==
  /\ Goes(j, "spawned", "recorded")
  /\ StaleViews \/ guardian[j] # "looked"
  /\ rootFile' = [rootFile EXCEPT ![j] = TRUE]
  /\ UNCHANGED <<fileVars, completion, launchFile, outcome, guardVars, root,
                 lockVars, faults>>

ReleaseRoot(j) ==
  /\ Goes(j, "recorded", "pumping")
  /\ root' = [root EXCEPT ![j] = IF @ = "gated" THEN "native" ELSE @]
  /\ UNCHANGED <<fileVars, completion, launchFile, outcome, guardVars, rootFile,
                 lockVars, faults>>

LaunchFails(j) ==
  /\ j \in Failing /\ worker[j] \in {"spawned", "recorded"}
  /\ \E o \in Failures(j) : Closes(j, o)
  /\ UNCHANGED <<fileVars, completion, launchFile, guardVars, rootVars, lockVars, faults>>

RootGateCloses(j) ==
  /\ root[j] = "gated" /\ worker[j] \notin {"spawned", "recorded"}
  /\ root' = [root EXCEPT ![j] = "gone"]
  /\ UNCHANGED <<fileVars, completion, workVars, guardVars, rootFile, lockVars, faults>>

RootExits(j) ==
  /\ root[j] = "native"
  /\ root' = [root EXCEPT ![j] = "gone"]
  /\ UNCHANGED <<fileVars, completion, workVars, guardVars, rootFile, lockVars, faults>>

\* The stream ends, with the root still up (an app server) or already gone.
Completes(j) ==
  /\ worker[j] = "pumping"
  /\ \E o \in Outcomes \ {"cancelled", "timed_out"} : Closes(j, o)
  /\ UNCHANGED <<fileVars, completion, launchFile, guardVars, rootVars, lockVars, faults>>

\* _finish_after_cleanup; a root that had to be stopped may turn success to failure.
StopRoot(j) ==
  /\ Goes(j, "closing", "cleaned")
  /\ root' = IF rootFile[j] \/ root[j] = "gated" THEN Stopped(j) ELSE root
  /\ \/ UNCHANGED outcome
     \/ /\ outcome[j] = "succeeded" /\ rootFile[j]
        /\ outcome' = [outcome EXCEPT ![j] = "failed"]
  /\ UNCHANGED <<fileVars, completion, launchFile, guardVars, rootFile, lockVars, faults>>

StopRootRefused(j) ==
  /\ Goes(j, "closing", "uncleaned")
  /\ rootFile[j] /\ root[j] \in {"gated", "native"}
  /\ faults < MaxFaults /\ faults' = faults + 1
  /\ UNCHANGED <<fileVars, completion, launchFile, outcome, guardVars, rootVars, lockVars>>

\* finish without confirmed cleanup: the outcome is kept for the guardian.
LeavePending(j) ==
  /\ Goes(j, "uncleaned", "dead")
  /\ result' = [result EXCEPT ![j] = [pending |-> TRUE, state |-> outcome[j]]]
  /\ outcome' = [outcome EXCEPT ![j] = "none"]
  /\ UNCHANGED <<status, cancelFile, stamp, completion, launchFile,
                 guardVars, rootVars, lockVars, faults>>

\* Faulty: status.json is written before result.json.
WriteStatusFirst(j) ==
  /\ Goes(j, "cleaned", "written")
  /\ status' = [status EXCEPT ![j] = outcome[j]]
  /\ UNCHANGED <<result, cancelFile, stamp, completion, launchFile, outcome,
                 guardVars, rootVars, lockVars, faults>>

WriteResult(j) ==
  /\ Goes(j, "cleaned", "written")
  /\ result' = [result EXCEPT ![j] = [pending |-> FALSE, state |-> outcome[j]]]
  /\ UNCHANGED <<status, cancelFile, stamp, completion, launchFile, outcome,
                 guardVars, rootVars, lockVars, faults>>

\* What remains of the worker waits for its guardian and touches nothing.
PublishTerminal(j) ==
  /\ Goes(j, "written", "dead")
  /\ status' = [status EXCEPT ![j] = outcome[j]]
  /\ outcome' = [outcome EXCEPT ![j] = "none"]
  /\ UNCHANGED <<result, cancelFile, stamp, completion, launchFile,
                 guardVars, rootVars, lockVars, faults>>

KillWorker(j) ==
  /\ WorkerAlive(j)
  /\ faults < MaxFaults /\ faults' = faults + 1
  /\ worker' = [worker EXCEPT ![j] = "dead"]
  /\ outcome' = [outcome EXCEPT ![j] = "none"]
  /\ \/ holder = j /\ CompletionReleased /\ Unlock
     \/ holder # j /\ UNCHANGED <<completion, lockVars>>
  /\ UNCHANGED <<fileVars, launchFile, guardVars, rootVars>>

-----------------------------------------------------------------------------
(* The guardian *)

Moves(j, from, to) ==
  /\ guardian[j] = from
  /\ guardian' = [guardian EXCEPT ![j] = to]

GuardianReports(j) ==
  /\ Moves(j, "born", "watch")
  /\ guardianFile' = [guardianFile EXCEPT ![j] = TRUE]
  /\ UNCHANGED <<fileVars, completion, workVars, view, rootVars, lockVars, faults>>

GuardianLooks(j) ==
  /\ Moves(j, "watch", "looked")
  /\ view' = [view EXCEPT ![j] = rootFile[j]]
  /\ UNCHANGED <<fileVars, completion, workVars, guardianFile, rootVars, lockVars, faults>>

\* Faulty: the worker's identity is not looked at.
GuardianJudgesBlindly(j) ==
  /\ IF status[j] \in Terminal THEN Moves(j, "looked", "gone") ELSE Moves(j, "looked", "reap")
  /\ UNCHANGED <<fileVars, completion, workVars, guardianFile, view, rootVars,
                 lockVars, faults>>

\* Faulty: a guardian that finds its worker dead just leaves.
GuardianJudgesAndLeaves(j) ==
  /\ IF status[j] \in Terminal \/ ~WorkerAlive(j)
       THEN Moves(j, "looked", "gone") ELSE Moves(j, "looked", "watch")
  /\ UNCHANGED <<fileVars, completion, workVars, guardianFile, view, rootVars,
                 lockVars, faults>>

\* status.json and the worker's identity, both read after provider.json.
GuardianJudges(j) ==
  /\ \/ /\ status[j] \in Terminal
        /\ Moves(j, "looked", "gone")
        /\ root' = IF view[j] THEN Stopped(j) ELSE root
     \/ /\ status[j] \notin Terminal /\ ~WorkerAlive(j)
        /\ Moves(j, "looked", "reap")
        /\ UNCHANGED root
     \/ /\ status[j] \notin Terminal /\ WorkerAlive(j)
        /\ Moves(j, "looked", "watch")
        /\ UNCHANGED root
  /\ UNCHANGED <<fileVars, completion, workVars, guardianFile, view, rootFile,
                 lockVars, faults>>

GuardianStops(j) ==
  /\ Moves(j, "reap", "finish")
  /\ root' = IF view[j] THEN Stopped(j) ELSE root
  /\ UNCHANGED <<fileVars, completion, workVars, guardianFile, view, rootFile,
                 lockVars, faults>>

GuardianStopRefused(j) ==
  /\ Moves(j, "reap", "watch")
  /\ view[j] /\ root[j] \in {"gated", "native"}
  /\ faults < MaxFaults /\ faults' = faults + 1
  /\ UNCHANGED <<fileVars, completion, workVars, guardianFile, view, rootVars, lockVars>>

GuardianFinishes(j) ==
  /\ completion[j] = "free"
  /\ \/ /\ status[j] \in Terminal
        /\ Moves(j, "finish", "gone")
        /\ UNCHANGED <<result, completion>>
     \/ /\ status[j] \notin Terminal
        /\ Moves(j, "finish", "publish")
        /\ result' = [result EXCEPT ![j] = [pending |-> FALSE, state |-> CleanupState(j)]]
        /\ completion' = [completion EXCEPT ![j] = "guardian"]
  /\ UNCHANGED <<status, cancelFile, stamp, workVars, guardianFile, view,
                 rootVars, lockVars, faults>>

GuardianPublishes(j) ==
  /\ Moves(j, "publish", "gone")
  /\ status' = [status EXCEPT ![j] = result[j].state]
  /\ completion' = [completion EXCEPT ![j] = "free"]
  /\ UNCHANGED <<result, cancelFile, stamp, workVars, guardianFile, view,
                 rootVars, lockVars, faults>>

KillGuardian(j) ==
  /\ GuardianAlive(j)
  /\ faults < MaxFaults /\ faults' = faults + 1
  /\ guardian' = [guardian EXCEPT ![j] = "gone"]
  /\ completion' = [completion EXCEPT ![j] = IF guardian[j] = "publish" THEN "free" ELSE @]
  /\ UNCHANGED <<fileVars, workVars, guardianFile, view, rootVars, lockVars>>

-----------------------------------------------------------------------------

WorkerStep(j) ==
  \/ WorkerBegins(j) \/ WorkerReady(j) \/ Asks(j) \/ ScanRefuses(j) \/ ScanPicks(j)
  \/ ScanJudges(j) \/ ScanBlocked(j) \/ Acquire(j) \/ Prepared(j) \/ SpawnRoot(j)
  \/ RecordRoot(j) \/ ReleaseRoot(j) \/ StopRoot(j) \/ LeavePending(j)
  \/ WriteResult(j) \/ PublishTerminal(j)

GuardianStep(j) ==
  \/ GuardianReports(j) \/ GuardianLooks(j) \/ GuardianJudges(j) \/ GuardianStops(j)
  \/ GuardianFinishes(j) \/ GuardianPublishes(j)

GatesClose(j) == WorkerGateCloses(j) \/ RootGateCloses(j)

Next ==
  \/ Recover
  \/ CallerStep
  \/ KillCaller
  \/ \E j \in Jobs :
       \/ Submit(j) \/ LaunchError(j) \/ Poll(j) \/ CancelRequest(j)
       \/ WorkerStep(j) \/ ScanBegins(j) \/ StartupFails(j) \/ Heartbeat(j)
       \/ Interrupt(j) \/ PreparationFails(j) \/ LaunchFails(j) \/ Completes(j)
       \/ StopRootRefused(j) \/ KillWorker(j)
       \/ GuardianStep(j) \/ GuardianStopRefused(j) \/ KillGuardian(j)
       \/ GatesClose(j) \/ RootExits(j)

Spec == Init /\ [][Next]_vars

\* What the scheduler owes: every process that can take its next step takes it,
\* flock eventually serves a waiting worker, a cancelled worker notices, and no
\* job stays younger than five seconds.  Nothing makes a caller call, a program
\* finish or a fault happen.
Fairness ==
  /\ WF_vars(Recover) /\ WF_vars(CallerStep)
  /\ \A j \in Jobs :
       /\ WF_vars(WorkerStep(j)) /\ WF_vars(GuardianStep(j)) /\ WF_vars(GatesClose(j))
       /\ SF_vars(ScanBegins(j))
       /\ \A h \in Jobs \cup {Caller} : SF_vars(holder = h /\ target = j /\ RecoverRead)
       /\ WF_vars(guardian[j] = "gone" /\ StartupFails(j))
       /\ WF_vars(cancelFile[j] /\ Interrupt(j))
       /\ WF_vars(root[j] = "gone" /\ Completes(j))

\* Callers that wait for a job poll it (wait_terminal, jobs.start).
PolledSpec == Spec /\ Fairness /\ \A j \in Jobs : SF_vars(Poll(j))

\* Programs finish by themselves; nobody polls, only waiting workers look around.
FinishingSpec == Spec /\ Fairness /\ \A j \in Jobs : WF_vars(RootExits(j))

-----------------------------------------------------------------------------
(* Safety *)

\* Conflicting jobs are never both recorded as running: the scan in _blockers
\* holds registry.lock from its first look at a job until it records its own.
RunningExclusive ==
  \A j, k \in Jobs :
    j # k /\ Conflicts(j, k) => ~(status[j] = "running" /\ status[k] = "running")

\* Conflicting jobs never execute native programs at the same time, whoever was
\* killed: ownership passes on only after the previous root has stopped.
NativeExclusive ==
  \A j, k \in Jobs :
    j # k /\ Conflicts(j, k) => ~(root[j] = "native" /\ root[k] = "native")

\* A native program only executes under a running record that names it: the gate
\* opens after provider.json, and a terminal state follows the program's end.
RootsOwned == \A j \in Jobs : root[j] = "native" => status[j] = "running" /\ rootFile[j]

\* A terminal status.json never disagrees with the result.json beside it, although
\* the two files are written one after the other by up to four different writers.
ResultAgrees ==
  \A j \in Jobs : status[j] \in Terminal => result[j] = [pending |-> FALSE, state |-> status[j]]

\* After any single fault some supervisor still holds the environment-use lock
\* while a native program executes (the descriptor is inherited by both).
EnvironmentHeld ==
  faults <= 1 => \A j \in Jobs : root[j] = "native" => WorkerAlive(j) \/ GuardianAlive(j)

\* A terminal state is final: no heartbeat, recovery or second cleanup rewrites it.
TerminalFinal ==
  [][\A j \in Jobs : status[j] \in Terminal => status'[j] = status[j]]_vars

\* While its worker is alive only that worker ends a job; recover and the guardian
\* never reclaim a live job from what they read earlier.
LiveJobsKept ==
  [][\A j \in Jobs : WorkerSeen(j) /\ Open(j) /\ status'[j] \in Terminal
                       => worker[j] = "written"]_vars

\* A job cancelled while it is queued never starts its native program.
CancelledNeverLaunches ==
  \A j \in Jobs : [](status[j] = "queued" /\ cancelFile[j] => [](root[j] # "native"))

\* One idempotency key never pays for two jobs, even if its first caller was killed.
OneJobPerKey ==
  \A j, k \in Jobs :
    j # k /\ SameKey(j, k) => status[j] = "absent" \/ status[k] = "absent"

(* Refinement *)

\* The claim a status.json stands for.
ClaimOf ==
  [j \in Jobs |-> IF ~Published(j) THEN "none"
                  ELSE IF status[j] = "queued" THEN "waiting"
                  ELSE IF status[j] = "running" THEN "held" ELSE "released"]

Ledger == INSTANCE ClaimLedger WITH claim <- ClaimOf

\* Seen through status.json alone, the registry with all its processes, crashes
\* and unlocked writes is the claim ledger: every step grants at most one claim,
\* never beside a conflicting one, and no released claim comes back.
LedgerRefined == Ledger!LedgerSpec

(* Waiting *)

\* What _blockers reports for j: k is running, or is ahead of j in the queue.
WaitsFor(j, k) ==
  /\ j # k /\ status[j] = "queued" /\ Open(k) /\ Conflicts(j, k)
  /\ status[k] = "running" \/ Earlier(k, j)

\* A nested job never waits for a job that encloses it, neither directly nor
\* behind a sibling that itself waits for the enclosing job.
NestedNeverWaits ==
  \A j \in Jobs : \A p \in Request[j].enclosing :
    ~WaitsFor(j, p) /\ \A k \in Jobs : ~(WaitsFor(j, k) /\ WaitsFor(k, p))

(* Liveness *)

\* A cancelled job that is polled reaches a terminal state, whichever of its
\* supervisors is killed, and whether or not its program would ever finish.
CancelConverges == \A j \in Jobs : cancelFile[j] ~> status[j] \in Terminal

\* A worker that waits for ownership stops waiting although nobody polls: a job
\* abandoned by both supervisors is reclaimed by the scan of the one behind it.
QueueMoves ==
  \A j \in Jobs : worker[j] = "waiting" ~> worker[j] \notin {"waiting", "asking", "scanning"}
=============================================================================
