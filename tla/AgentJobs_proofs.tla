--------------------------- MODULE AgentJobs_proofs ---------------------------
(***************************************************************************)
(* Proofs about AgentJobs for every set of jobs, every request and every   *)
(* number of faults.                                                       *)
(***************************************************************************)
EXTENDS AgentJobs, TLAPS

Holding   == {"preparing", "launching", "spawned", "recorded", "pumping"}
Queueing  == {"begin", "guarding", "waiting", "asking", "scanning"}
Finishing == {"closing", "uncleaned", "cleaned", "written"}
Over(j)   == worker[j] \in {"none", "gated", "dead"}

-----------------------------------------------------------------------------
(* The inductive invariant *)

\* Who holds registry.lock, and for what.
LockInv ==
  /\ \A j \in Jobs : worker[j] = "scanning" <=> holder = j
  /\ holder = Nobody => op = "none" /\ target = NoJob /\ todo = {} /\ ~blocked
  /\ holder = Caller => op \in {"start", "status", "cancel"} /\ todo = {} /\ ~blocked
  /\ holder \in Jobs => op = "acquire"
  /\ op = "start" => target = NoJob /\ subject \in Jobs
  /\ op = "cancel" => subject \in Jobs

\* What a job's worker may assume of its own status.json.
StatusInv ==
  \A j \in Jobs :
    /\ ~Published(j) => worker[j] = "none" /\ ~launchFile[j] /\ guardian[j] = "none"
    /\ worker[j] \in Queueing => status[j] = "queued"
    /\ worker[j] \in Holding => status[j] = "running"
    /\ worker[j] \in Finishing => Open(j) /\ outcome[j] \in Terminal
    /\ ~Over(j) => launchFile[j]
    /\ guardian[j] # "none" => worker[j] \notin {"none", "gated", "begin"}
    /\ guardian[j] \in {"reap", "finish", "publish"} => worker[j] = "dead"
    /\ result[j].pending => result[j].state \in Terminal

\* A caller that is still starting a job is alone with it.
StartInv ==
  op = "start" =>
    /\ status[subject] \in {"unpublished", "queued"}
    /\ step \in {"none", "publish"}
    /\ step = "publish" => status[subject] = "queued" /\ worker[subject] # "gated"
    /\ Over(subject)
    /\ guardian[subject] = "none"

\* The job under recovery has lost its worker, and whoever publishes its end
\* holds completion.lock over a record that is still open.
RecoverInv ==
  /\ target # NoJob /\ step \in {"stop", "finish", "publish"} => ~WorkerSeen(target)
  /\ target # NoJob /\ step = "publish" =>
       /\ completion[target] = "registry"
       /\ Open(target) /\ result[target].state \in Terminal
  /\ \A j \in Jobs : guardian[j] = "publish" =>
       /\ completion[j] = "guardian"
       /\ Open(j) /\ result[j].state \in Terminal

\* What the scan under registry.lock has established so far.
ScanInv ==
  /\ target # NoJob /\ step # "read" => (status[target] = "running" => seen = "running")
  /\ target # NoJob => Published(target)
  /\ holder \in Jobs =>
       /\ target # NoJob => target \in todo
       /\ holder \notin todo
       /\ \A k \in Jobs \ todo :
            k # holder /\ Conflicts(holder, k) /\ status[k] = "running" => blocked

IInv ==
  TypeOK /\ LockInv /\ StatusInv /\ StartInv /\ RecoverInv /\ ScanInv /\ RunningExclusive

\* Where native programs can be; this part needs the guardian's view to be current.
RootInv ==
  /\ RootsOwned
  /\ \A j \in Jobs :
       /\ worker[j] = "recorded" => rootFile[j]
       /\ worker[j] \in {"cleaned", "written"} => root[j] # "native"
       /\ ~Published(j) => root[j] = "none"
       /\ guardian[j] \in {"looked", "reap"} => view[j] = rootFile[j]
       /\ guardian[j] \in {"finish", "publish"} => root[j] # "native"
  /\ target # NoJob /\ step \in {"finish", "publish"} => root[target] # "native"

-----------------------------------------------------------------------------
(* The steps *)

\* Overlap and session identity are symmetric, so two jobs agree on whether they conflict.
LEMMA ConflictsSym == \A j, k \in Jobs : Conflicts(j, k) <=> Conflicts(k, j)
  BY RequestAssumption
  DEF Conflicts, ConflictingRequests, SameSession, Serializes, Overlap, Mode

\* A flag that was just set is set.
LEMMA FlagSet ==
  ASSUME NEW f \in [Jobs -> BOOLEAN], NEW g, NEW j \in Jobs, g = [f EXCEPT ![j] = TRUE]
  PROVE  g[j]
  OBVIOUS

\* The empty registry satisfies the invariant.
LEMMA InvInit == Init => IInv
<1> SUFFICES ASSUME Init PROVE IInv
  OBVIOUS
<1> USE RequestAssumption, RegistryAssumption DEF Init
<1>1. TypeOK
  BY DEF TypeOK, Statuses, Results, NoResult, WorkerPoints, GuardianPoints, RootPoints,
         Steps, Operations
<1>2. LockInv /\ StartInv /\ RecoverInv /\ ScanInv /\ RunningExclusive
  BY DEF LockInv, StartInv, RecoverInv, ScanInv, RunningExclusive, Nobody, Caller
<1>3. StatusInv
  BY DEF StatusInv, Published, Over, Queueing, Holding, Finishing, NoResult
<1> QED
  BY <1>1, <1>2, <1>3 DEF IInv

\* Every action keeps the types.
LEMMA TypeOKStep == IInv /\ [Next]_vars => TypeOK'
<1> SUFFICES ASSUME IInv, [Next]_vars PROVE TypeOK'
  OBVIOUS
<1> USE RequestAssumption, RegistryAssumption
     DEF IInv, TypeOK, Terminal, Nobody, Caller, WorkerPoints, GuardianPoints,
     RootPoints, Steps, Operations, Statuses, Results, NoResult
<1>1. CASE RecoverRead
  BY <1>1 DEF RecoverRead, AtStep, fileVars, workVars, guardVars, rootVars
<1>2. CASE RecoverYoung
  BY <1>2 DEF RecoverYoung, AtStep, fileVars, workVars, guardVars, rootVars
<1>3. CASE RecoverProbe
  BY <1>3
  DEF RecoverProbe, AtStep, WorkerAlive, GuardianAlive, WorkerSeen,
     GuardianSeen, fileVars, workVars, guardVars, rootVars
<1>4. CASE RecoverStop
  BY <1>4 DEF RecoverStop, AtStep, Stopped, fileVars, workVars, guardVars
<1>5. CASE RecoverStopRefused
  BY <1>5
  DEF RecoverStopRefused, AtStep, fileVars, workVars, guardVars, rootVars
<1>6. CASE RecoverFinish
  <2>1. [pending |-> FALSE, state |-> CleanupState(target)] \in Results
    BY <1>6 DEF RecoverFinish, CleanupState
  <2>2. \E r \in Results : result' = result \/ result' = [result EXCEPT ![target] = r]
    BY <1>6, <2>1 DEF RecoverFinish
  <2>3. result' \in [Jobs -> Results]
    BY <2>2, SMTT(60)
  <2>4. completion' \in [Jobs -> {"free", "guardian", "registry"}]
    BY <1>6 DEF RecoverFinish, CleanupState, AtStep
  <2>5. step' \in Steps
    BY <1>6 DEF RecoverFinish, AtStep, CleanupState
  <2>6. seen' \in Statuses
    BY <1>6 DEF RecoverFinish, CleanupState, AtStep
  <2>7. UNCHANGED <<status, cancelFile, stamp, launchFile, worker, outcome, guardianFile,
                    guardian, view, root, rootFile, holder, op, subject, todo, blocked,
                    target, faults>>
    BY <1>6 DEF RecoverFinish, AtStep, workVars, guardVars, rootVars
  <2> QED
    BY <2>1, <2>2, <2>3, <2>4, <2>5, <2>6, <2>7
<1>7. CASE RecoverPublish
  <2>1. status' \in [Jobs -> Statuses]
    BY <1>7 DEF RecoverPublish, RecoverInv, AtStep
  <2>2. completion' \in [Jobs -> {"free", "guardian", "registry"}]
    BY <1>7 DEF RecoverPublish, AtStep
  <2>3. step' \in Steps
    BY <1>7 DEF RecoverPublish, AtStep
  <2>4. seen' \in Statuses
    BY <1>7 DEF RecoverPublish, RecoverInv, AtStep
  <2>5. UNCHANGED <<result, cancelFile, stamp, launchFile, worker, outcome, guardianFile,
                    guardian, view, root, rootFile, holder, op, subject, todo, blocked,
                    target, faults>>
    BY <1>7 DEF RecoverPublish, AtStep, workVars, guardVars, rootVars
  <2> QED
    BY <2>1, <2>2, <2>3, <2>4, <2>5
<1>8. CASE PollReturns
  BY <1>8 DEF PollReturns, Unlock, fileVars, workVars, guardVars, rootVars
<1>9. CASE CancelReturns
  BY <1>9 DEF CancelReturns, Unlock, workVars, guardVars, rootVars
<1>10. CASE KillCaller
  <2>1. Unlock
    BY <1>10 DEF KillCaller
  <2>2. completion' \in [Jobs -> {"free", "guardian", "registry"}]
    BY <1>10 DEF KillCaller, CompletionReleased
  <2>3. faults' \in Nat
    BY <1>10 DEF KillCaller, CompletionReleased
  <2>4. UNCHANGED <<status, result, cancelFile, stamp, launchFile, worker, outcome,
                    guardianFile, guardian, view, root, rootFile>>
    BY <1>10 DEF KillCaller, fileVars, workVars, guardVars, rootVars
  <2> QED
    BY <2>1, <2>2, <2>3, <2>4 DEF Unlock, lockVars
<1>11. ASSUME NEW j \in Jobs, Submit(j) PROVE TypeOK'
  BY <1>11 DEF Submit, Lock, workVars, guardVars, rootVars
<1>12. ASSUME NEW j \in Jobs, PublishQueued(j) PROVE TypeOK'
  BY <1>12
  DEF PublishQueued, Starting, workVars, guardVars, rootVars, lockVars
<1>13. ASSUME NEW j \in Jobs, SpawnWorker(j) PROVE TypeOK'
  BY <1>13
  DEF SpawnWorker, Starting, fileVars, guardVars, rootVars, lockVars
<1>14. ASSUME NEW j \in Jobs, RecordWorker(j) PROVE TypeOK'
  BY <1>14
  DEF RecordWorker, Starting, fileVars, guardVars, rootVars, lockVars
<1>15. ASSUME NEW j \in Jobs, OpenGate(j) PROVE TypeOK'
  BY <1>15 DEF OpenGate, Unlock, Starting, fileVars, guardVars, rootVars
<1>16. ASSUME NEW j \in Jobs, LaunchError(j) PROVE TypeOK'
  BY <1>16 DEF LaunchError, AtStep, Starting, guardVars, rootVars
<1>17. ASSUME NEW j \in Jobs, LaunchErrorPublish(j) PROVE TypeOK'
  BY <1>17 DEF LaunchErrorPublish, Unlock, workVars, guardVars, rootVars
<1>18. ASSUME NEW j \in Jobs, WorkerGateCloses(j) PROVE TypeOK'
  BY <1>18 DEF WorkerGateCloses, fileVars, guardVars, rootVars, lockVars
<1>19. ASSUME NEW j \in Jobs, Poll(j) PROVE TypeOK'
  BY <1>19 DEF Poll, Lock, Open, fileVars, workVars, guardVars, rootVars
<1>20. ASSUME NEW j \in Jobs, CancelRequest(j) PROVE TypeOK'
  BY <1>20
  DEF CancelRequest, Lock, Open, fileVars, workVars, guardVars, rootVars
<1>21. ASSUME NEW j \in Jobs, WorkerBegins(j) PROVE TypeOK'
  <2>1. \E p \in {"dead", "guarding"} : worker' = [worker EXCEPT ![j] = p]
    BY <1>21 DEF WorkerBegins
  <2>2. worker' \in [Jobs -> WorkerPoints]
    BY <2>1
  <2>3. guardian' \in [Jobs -> GuardianPoints]
    <3>1. UNCHANGED guardian \/ guardian' = [guardian EXCEPT ![j] = "born"]
      BY <1>21 DEF WorkerBegins
    <3> QED
      BY <3>1
  <2>4. UNCHANGED <<status, result, cancelFile, stamp, completion, launchFile, outcome,
                    guardianFile, view, root, rootFile, holder, op, subject, todo,
                    blocked, target, step, seen, faults>>
    BY <1>21 DEF WorkerBegins, fileVars, rootVars, lockVars
  <2> QED
    BY <2>1, <2>2, <2>3, <2>4
<1>22. ASSUME NEW j \in Jobs, StartupFails(j) PROVE TypeOK'
  BY <1>22
  DEF StartupFails, Closes, Failures, fileVars, guardVars, rootVars, lockVars
<1>23. ASSUME NEW j \in Jobs, WorkerReady(j) PROVE TypeOK'
  BY <1>23
  DEF WorkerReady, Goes, GuardianAlive, GuardianSeen, guardVars, rootVars,
     lockVars
<1>24. ASSUME NEW j \in Jobs, Heartbeat(j) PROVE TypeOK'
  BY <1>24 DEF Heartbeat, workVars, guardVars, rootVars, lockVars
<1>25. ASSUME NEW j \in Jobs, Interrupt(j) PROVE TypeOK'
  BY <1>25
  DEF Interrupt, Closes, Interruptions, fileVars, guardVars, rootVars,
     lockVars
<1>26. ASSUME NEW j \in Jobs, Asks(j) PROVE TypeOK'
  BY <1>26 DEF Asks, Goes, fileVars, guardVars, rootVars, lockVars
<1>27. ASSUME NEW j \in Jobs, ScanBegins(j) PROVE TypeOK'
  BY <1>27
  DEF ScanBegins, Closes, fileVars, guardVars, rootVars, lockVars, StatusInv,
     Published, Open, Over, Holding, Queueing, Finishing
<1>28. ASSUME NEW j \in Jobs, ScanRefuses(j) PROVE TypeOK'
  <2>1. Unlock
    BY <1>28 DEF ScanRefuses
  <2>2. worker' \in [Jobs -> WorkerPoints]
    BY <1>28 DEF ScanRefuses, Closes, Failures
  <2>3. outcome' \in [Jobs -> Terminal \cup {"none"}]
    BY <1>28 DEF ScanRefuses, Closes, Failures
  <2>4. UNCHANGED <<status, result, cancelFile, stamp, completion, launchFile,
                    guardianFile, guardian, view, root, rootFile, faults>>
    BY <1>28 DEF ScanRefuses, fileVars, guardVars, rootVars
  <2> QED
    BY <2>1, <2>2, <2>3, <2>4 DEF Unlock, lockVars
<1>29. ASSUME NEW j \in Jobs, ScanPicks(j) PROVE TypeOK'
  BY <1>29 DEF ScanPicks, Open, fileVars, workVars, guardVars, rootVars
<1>30. ASSUME NEW j \in Jobs, ScanJudges(j) PROVE TypeOK'
  BY <1>30 DEF ScanJudges, fileVars, workVars, guardVars, rootVars
<1>31. ASSUME NEW j \in Jobs, ScanBlocked(j) PROVE TypeOK'
  BY <1>31 DEF ScanBlocked, Unlock, fileVars, guardVars, rootVars
<1>32. ASSUME NEW j \in Jobs, Acquire(j) PROVE TypeOK'
  BY <1>32 DEF Acquire, Unlock, guardVars, rootVars
<1>33. ASSUME NEW j \in Jobs, PreparationFails(j) PROVE TypeOK'
  BY <1>33
  DEF PreparationFails, Closes, Failures, fileVars, guardVars, rootVars,
     lockVars
<1>34. ASSUME NEW j \in Jobs, Prepared(j) PROVE TypeOK'
  BY <1>34 DEF Prepared, Goes, fileVars, guardVars, rootVars, lockVars
<1>35. ASSUME NEW j \in Jobs, SpawnRoot(j) PROVE TypeOK'
  BY <1>35 DEF SpawnRoot, Goes, fileVars, guardVars, lockVars
<1>36. ASSUME NEW j \in Jobs, RecordRoot(j) PROVE TypeOK'
  BY <1>36 DEF RecordRoot, Goes, fileVars, guardVars, lockVars
<1>37. ASSUME NEW j \in Jobs, ReleaseRoot(j) PROVE TypeOK'
  BY <1>37 DEF ReleaseRoot, Goes, fileVars, guardVars, lockVars
<1>38. ASSUME NEW j \in Jobs, LaunchFails(j) PROVE TypeOK'
  BY <1>38
  DEF LaunchFails, Closes, Failures, fileVars, guardVars, rootVars, lockVars
<1>39. ASSUME NEW j \in Jobs, RootGateCloses(j) PROVE TypeOK'
  BY <1>39 DEF RootGateCloses, fileVars, workVars, guardVars, lockVars
<1>40. ASSUME NEW j \in Jobs, RootExits(j) PROVE TypeOK'
  BY <1>40 DEF RootExits, fileVars, workVars, guardVars, lockVars
<1>41. ASSUME NEW j \in Jobs, Completes(j) PROVE TypeOK'
  BY <1>41 DEF Completes, Closes, fileVars, guardVars, rootVars, lockVars
<1>42. ASSUME NEW j \in Jobs, StopRoot(j) PROVE TypeOK'
  <2>1. worker' \in [Jobs -> WorkerPoints]
    BY <1>42 DEF StopRoot, Stopped, Goes
  <2>2. outcome' \in [Jobs -> Terminal \cup {"none"}]
    <3>1. UNCHANGED outcome \/ outcome' = [outcome EXCEPT ![j] = "failed"]
      BY <1>42 DEF StopRoot
    <3> QED
      BY <3>1
  <2>3. root' \in [Jobs -> RootPoints]
    BY <1>42 DEF StopRoot, Stopped, Goes
  <2>4. UNCHANGED <<status, result, cancelFile, stamp, completion, launchFile,
                    guardianFile, guardian, view, rootFile, holder, op, subject, todo,
                    blocked, target, step, seen, faults>>
    BY <1>42 DEF StopRoot, fileVars, guardVars, lockVars
  <2> QED
    BY <2>1, <2>2, <2>3, <2>4
<1>43. ASSUME NEW j \in Jobs, StopRootRefused(j) PROVE TypeOK'
  BY <1>43
  DEF StopRootRefused, Goes, fileVars, guardVars, rootVars, lockVars
<1>44. ASSUME NEW j \in Jobs, LeavePending(j) PROVE TypeOK'
  BY <1>44 DEF LeavePending, Goes, guardVars, rootVars, lockVars
<1>45. ASSUME NEW j \in Jobs, WriteResult(j) PROVE TypeOK'
  BY <1>45 DEF WriteResult, Goes, guardVars, rootVars, lockVars
<1>46. ASSUME NEW j \in Jobs, PublishTerminal(j) PROVE TypeOK'
  <2>1. status' \in [Jobs -> Statuses]
    BY <1>46 DEF PublishTerminal, StatusInv, Finishing, Goes
  <2>2. worker' \in [Jobs -> WorkerPoints]
    BY <1>46 DEF PublishTerminal, Goes
  <2>3. outcome' \in [Jobs -> Terminal \cup {"none"}]
    BY <1>46 DEF PublishTerminal, Goes
  <2>4. UNCHANGED <<result, cancelFile, stamp, completion, launchFile, guardianFile,
                    guardian, view, root, rootFile, holder, op, subject, todo, blocked,
                    target, step, seen, faults>>
    BY <1>46 DEF PublishTerminal, guardVars, rootVars, lockVars
  <2> QED
    BY <2>1, <2>2, <2>3, <2>4
<1>47. ASSUME NEW j \in Jobs, KillWorker(j) PROVE TypeOK'
  <2>1. Unlock \/ UNCHANGED lockVars
    BY <1>47 DEF KillWorker
  <2>2. completion' \in [Jobs -> {"free", "guardian", "registry"}]
    BY <1>47 DEF KillWorker, CompletionReleased
  <2>3. worker' \in [Jobs -> WorkerPoints]
    BY <1>47 DEF KillWorker, CompletionReleased
  <2>4. outcome' \in [Jobs -> Terminal \cup {"none"}]
    BY <1>47 DEF KillWorker, CompletionReleased
  <2>5. faults' \in Nat
    BY <1>47 DEF KillWorker, CompletionReleased
  <2>6. UNCHANGED <<status, result, cancelFile, stamp, launchFile, guardianFile, guardian,
                    view, root, rootFile>>
    BY <1>47 DEF KillWorker, fileVars, guardVars, rootVars, lockVars
  <2>7. CASE Unlock
    BY <2>2, <2>3, <2>4, <2>5, <2>6, <2>7 DEF Unlock
  <2>8. CASE UNCHANGED lockVars
    BY <2>2, <2>3, <2>4, <2>5, <2>6, <2>8 DEF lockVars
  <2> QED
    BY <2>1, <2>7, <2>8
<1>48. ASSUME NEW j \in Jobs, GuardianReports(j) PROVE TypeOK'
  BY <1>48
  DEF GuardianReports, Moves, fileVars, workVars, rootVars, lockVars
<1>49. ASSUME NEW j \in Jobs, GuardianLooks(j) PROVE TypeOK'
  BY <1>49 DEF GuardianLooks, Moves, fileVars, workVars, rootVars, lockVars
<1>50. ASSUME NEW j \in Jobs, GuardianJudges(j) PROVE TypeOK'
  <2>1. \E p \in {"gone", "reap", "watch"} : guardian' = [guardian EXCEPT ![j] = p]
    BY <1>50 DEF GuardianJudges, Moves
  <2>2. guardian' \in [Jobs -> GuardianPoints]
    BY <2>1
  <2>3. root' \in [Jobs -> RootPoints]
    BY <1>50 DEF GuardianJudges, Stopped, Moves
  <2>4. UNCHANGED <<status, result, cancelFile, stamp, completion, launchFile, worker,
                    outcome, guardianFile, view, rootFile, holder, op, subject, todo,
                    blocked, target, step, seen, faults>>
    BY <1>50 DEF GuardianJudges, fileVars, workVars, lockVars
  <2> QED
    BY <2>1, <2>2, <2>3, <2>4
<1>51. ASSUME NEW j \in Jobs, GuardianStops(j) PROVE TypeOK'
  BY <1>51 DEF GuardianStops, Stopped, Moves, fileVars, workVars, lockVars
<1>52. ASSUME NEW j \in Jobs, GuardianStopRefused(j) PROVE TypeOK'
  BY <1>52
  DEF GuardianStopRefused, Moves, fileVars, workVars, rootVars, lockVars
<1>53. ASSUME NEW j \in Jobs, GuardianFinishes(j) PROVE TypeOK'
  <2>1. [pending |-> FALSE, state |-> CleanupState(j)] \in Results
    BY <1>53 DEF GuardianFinishes, CleanupState
  <2>2. \/ result' = result
        \/ result' = [result EXCEPT ![j] = [pending |-> FALSE, state |-> CleanupState(j)]]
    BY <1>53 DEF GuardianFinishes
  <2>3. result' \in [Jobs -> Results]
    <3> HIDE DEF Results
    <3>1. result \in [Jobs -> Results]
      OBVIOUS
    <3> HIDE DEF IInv, TypeOK
    <3> QED
      BY <2>1, <2>2, <3>1
  <2>4. completion' \in [Jobs -> {"free", "guardian", "registry"}]
    <3>1. completion \in [Jobs -> {"free", "guardian", "registry"}]
      OBVIOUS
    <3>2. completion' = completion \/ completion' = [completion EXCEPT ![j] = "guardian"]
      BY <1>53 DEF GuardianFinishes
    <3> HIDE DEF IInv, TypeOK
    <3> QED
      BY <3>1, <3>2
  <2>5. \E p \in {"gone", "publish"} : guardian' = [guardian EXCEPT ![j] = p]
    BY <1>53 DEF GuardianFinishes, Moves
  <2>6. guardian' \in [Jobs -> GuardianPoints]
    BY <2>5
  <2>7. UNCHANGED <<status, cancelFile, stamp, launchFile, worker, outcome, guardianFile,
                    view, root, rootFile, holder, op, subject, todo, blocked, target,
                    step, seen, faults>>
    BY <1>53 DEF GuardianFinishes, workVars, rootVars, lockVars
  <2> QED
    BY <2>1, <2>2, <2>3, <2>4, <2>5, <2>6, <2>7
<1>54. ASSUME NEW j \in Jobs, GuardianPublishes(j) PROVE TypeOK'
  <2>1. status' \in [Jobs -> Statuses]
    BY <1>54 DEF GuardianPublishes, RecoverInv, Moves
  <2>2. completion' \in [Jobs -> {"free", "guardian", "registry"}]
    BY <1>54 DEF GuardianPublishes, Moves
  <2>3. guardian' \in [Jobs -> GuardianPoints]
    BY <1>54 DEF GuardianPublishes, Moves
  <2>4. UNCHANGED <<result, cancelFile, stamp, launchFile, worker, outcome, guardianFile,
                    view, root, rootFile, holder, op, subject, todo, blocked, target,
                    step, seen, faults>>
    BY <1>54 DEF GuardianPublishes, workVars, rootVars, lockVars
  <2> QED
    BY <2>1, <2>2, <2>3, <2>4
<1>55. ASSUME NEW j \in Jobs, KillGuardian(j) PROVE TypeOK'
  BY <1>55
  DEF KillGuardian, GuardianAlive, fileVars, workVars, rootVars, lockVars
<1>56. CASE UNCHANGED vars
  BY <1>56 DEF vars, fileVars, workVars, guardVars, rootVars, lockVars
<1> QED
  BY <1>1, <1>2, <1>3, <1>4, <1>5, <1>6, <1>7, <1>8, <1>9, <1>10, <1>11,
     <1>12, <1>13, <1>14, <1>15, <1>16, <1>17, <1>18, <1>19, <1>20, <1>21,
     <1>22, <1>23, <1>24, <1>25, <1>26, <1>27, <1>28, <1>29, <1>30, <1>31,
     <1>32, <1>33, <1>34, <1>35, <1>36, <1>37, <1>38, <1>39, <1>40, <1>41,
     <1>42, <1>43, <1>44, <1>45, <1>46, <1>47, <1>48, <1>49, <1>50, <1>51,
     <1>52, <1>53, <1>54, <1>55, <1>56
  DEF Next, Recover, CallerStep, WorkerStep, GuardianStep, GatesClose

\* registry.lock is taken and given back as a whole.
LEMMA LockInvStep == IInv /\ [Next]_vars => LockInv'
<1> SUFFICES ASSUME IInv, [Next]_vars PROVE LockInv'
  OBVIOUS
<1> USE RequestAssumption, RegistryAssumption
     DEF IInv, TypeOK, LockInv, Nobody, Caller, Terminal
<1>1. CASE PollReturns
  BY <1>1 DEF PollReturns, Unlock, fileVars, workVars, guardVars, rootVars
<1>2. CASE CancelReturns
  BY <1>2 DEF CancelReturns, Unlock, workVars, guardVars, rootVars
<1>3. CASE KillCaller
  BY <1>3
  DEF KillCaller, Unlock, CompletionReleased, fileVars, workVars, guardVars,
     rootVars
<1>4. ASSUME NEW j \in Jobs, Submit(j) PROVE LockInv'
  BY <1>4 DEF Submit, Lock, workVars, guardVars, rootVars
<1>5. ASSUME NEW j \in Jobs, SpawnWorker(j) PROVE LockInv'
  BY <1>5 DEF SpawnWorker, Starting, fileVars, guardVars, rootVars, lockVars
<1>6. ASSUME NEW j \in Jobs, OpenGate(j) PROVE LockInv'
  BY <1>6 DEF OpenGate, Unlock, Starting, fileVars, guardVars, rootVars
<1>7. ASSUME NEW j \in Jobs, LaunchError(j) PROVE LockInv'
  BY <1>7 DEF LaunchError, AtStep, Starting, guardVars, rootVars
<1>8. ASSUME NEW j \in Jobs, LaunchErrorPublish(j) PROVE LockInv'
  BY <1>8 DEF LaunchErrorPublish, Unlock, workVars, guardVars, rootVars
<1>9. ASSUME NEW j \in Jobs, WorkerGateCloses(j) PROVE LockInv'
  BY <1>9 DEF WorkerGateCloses, fileVars, guardVars, rootVars, lockVars
<1>10. ASSUME NEW j \in Jobs, Poll(j) PROVE LockInv'
  BY <1>10 DEF Poll, Lock, Open, fileVars, workVars, guardVars, rootVars
<1>11. ASSUME NEW j \in Jobs, CancelRequest(j) PROVE LockInv'
  BY <1>11
  DEF CancelRequest, Lock, Open, fileVars, workVars, guardVars, rootVars
<1>12. ASSUME NEW j \in Jobs, WorkerBegins(j) PROVE LockInv'
  BY <1>12 DEF WorkerBegins, fileVars, rootVars, lockVars
<1>13. ASSUME NEW j \in Jobs, StartupFails(j) PROVE LockInv'
  BY <1>13
  DEF StartupFails, Closes, Failures, fileVars, guardVars, rootVars, lockVars
<1>14. ASSUME NEW j \in Jobs, WorkerReady(j) PROVE LockInv'
  BY <1>14
  DEF WorkerReady, Goes, GuardianAlive, GuardianSeen, guardVars, rootVars,
     lockVars
<1>15. ASSUME NEW j \in Jobs, Interrupt(j) PROVE LockInv'
  BY <1>15
  DEF Interrupt, Closes, Interruptions, fileVars, guardVars, rootVars,
     lockVars
<1>16. ASSUME NEW j \in Jobs, Asks(j) PROVE LockInv'
  BY <1>16 DEF Asks, Goes, fileVars, guardVars, rootVars, lockVars
<1>17. ASSUME NEW j \in Jobs, ScanBegins(j) PROVE LockInv'
  BY <1>17
  DEF ScanBegins, Closes, fileVars, guardVars, rootVars, lockVars, StatusInv,
     Published, Open, Over, Holding, Queueing, Finishing
<1>18. ASSUME NEW j \in Jobs, ScanRefuses(j) PROVE LockInv'
  BY <1>18
  DEF ScanRefuses, Unlock, Closes, Failures, fileVars, guardVars, rootVars
<1>19. ASSUME NEW j \in Jobs, ScanPicks(j) PROVE LockInv'
  BY <1>19 DEF ScanPicks, Open, fileVars, workVars, guardVars, rootVars
<1>20. ASSUME NEW j \in Jobs, ScanJudges(j) PROVE LockInv'
  BY <1>20 DEF ScanJudges, fileVars, workVars, guardVars, rootVars
<1>21. ASSUME NEW j \in Jobs, ScanBlocked(j) PROVE LockInv'
  BY <1>21 DEF ScanBlocked, Unlock, fileVars, guardVars, rootVars
<1>22. ASSUME NEW j \in Jobs, Acquire(j) PROVE LockInv'
  BY <1>22 DEF Acquire, Unlock, guardVars, rootVars
<1>23. ASSUME NEW j \in Jobs, PreparationFails(j) PROVE LockInv'
  BY <1>23
  DEF PreparationFails, Closes, Failures, fileVars, guardVars, rootVars,
     lockVars
<1>24. ASSUME NEW j \in Jobs, Prepared(j) PROVE LockInv'
  BY <1>24 DEF Prepared, Goes, fileVars, guardVars, rootVars, lockVars
<1>25. ASSUME NEW j \in Jobs, SpawnRoot(j) PROVE LockInv'
  BY <1>25 DEF SpawnRoot, Goes, fileVars, guardVars, lockVars
<1>26. ASSUME NEW j \in Jobs, RecordRoot(j) PROVE LockInv'
  BY <1>26 DEF RecordRoot, Goes, fileVars, guardVars, lockVars
<1>27. ASSUME NEW j \in Jobs, ReleaseRoot(j) PROVE LockInv'
  BY <1>27 DEF ReleaseRoot, Goes, fileVars, guardVars, lockVars
<1>28. ASSUME NEW j \in Jobs, LaunchFails(j) PROVE LockInv'
  BY <1>28
  DEF LaunchFails, Closes, Failures, fileVars, guardVars, rootVars, lockVars
<1>29. ASSUME NEW j \in Jobs, Completes(j) PROVE LockInv'
  BY <1>29 DEF Completes, Closes, fileVars, guardVars, rootVars, lockVars
<1>30. ASSUME NEW j \in Jobs, StopRoot(j) PROVE LockInv'
  BY <1>30 DEF StopRoot, Stopped, Goes, fileVars, guardVars, lockVars
<1>31. ASSUME NEW j \in Jobs, StopRootRefused(j) PROVE LockInv'
  BY <1>31
  DEF StopRootRefused, Goes, fileVars, guardVars, rootVars, lockVars
<1>32. ASSUME NEW j \in Jobs, LeavePending(j) PROVE LockInv'
  BY <1>32 DEF LeavePending, Goes, guardVars, rootVars, lockVars
<1>33. ASSUME NEW j \in Jobs, WriteResult(j) PROVE LockInv'
  BY <1>33 DEF WriteResult, Goes, guardVars, rootVars, lockVars
<1>34. ASSUME NEW j \in Jobs, PublishTerminal(j) PROVE LockInv'
  BY <1>34 DEF PublishTerminal, Goes, guardVars, rootVars, lockVars
<1>35. ASSUME NEW j \in Jobs, KillWorker(j) PROVE LockInv'
  BY <1>35
  DEF KillWorker, Unlock, CompletionReleased, WorkerAlive, fileVars,
     guardVars, rootVars, lockVars
<1>36. CASE UNCHANGED <<worker, holder, op, subject, target, todo, blocked>>
  BY <1>36
<1>37. CASE UNCHANGED vars
  BY <1>36, <1>37
  DEF vars, fileVars, workVars, guardVars, rootVars, lockVars
<1>38. CASE \/ RecoverRead
            \/ RecoverYoung
            \/ RecoverProbe
            \/ RecoverStop
            \/ RecoverStopRefused
            \/ RecoverFinish
            \/ RecoverPublish
  BY <1>36, <1>38
  DEF RecoverRead, RecoverYoung, RecoverProbe, RecoverStop,
     RecoverStopRefused, RecoverFinish, RecoverPublish, AtStep, fileVars,
     workVars, guardVars, rootVars, lockVars, Moves
<1>39. ASSUME NEW j \in Jobs, PublishQueued(j) \/ RecordWorker(j) \/
            Heartbeat(j) \/ RootGateCloses(j) \/ RootExits(j) \/
            GuardianReports(j) \/ GuardianLooks(j) \/ GuardianJudges(j) \/
            GuardianStops(j) \/ GuardianStopRefused(j) \/
            GuardianFinishes(j) \/ GuardianPublishes(j) \/ KillGuardian(j)
     PROVE  LockInv'
  BY <1>36, <1>39
  DEF PublishQueued, RecordWorker, Heartbeat, RootGateCloses, RootExits,
     GuardianReports, GuardianLooks, GuardianJudges, GuardianStops,
     GuardianStopRefused, GuardianFinishes, GuardianPublishes, KillGuardian,
     AtStep, fileVars, workVars, guardVars, rootVars, lockVars, Moves
<1> QED
  BY <1>1, <1>2, <1>3, <1>4, <1>5, <1>6, <1>7, <1>8, <1>9, <1>10, <1>11,
     <1>12, <1>13, <1>14, <1>15, <1>16, <1>17, <1>18, <1>19, <1>20, <1>21,
     <1>22, <1>23, <1>24, <1>25, <1>26, <1>27, <1>28, <1>29, <1>30, <1>31,
     <1>32, <1>33, <1>34, <1>35, <1>36, <1>37, <1>38, <1>39
  DEF Next, Recover, CallerStep, WorkerStep, GuardianStep, GatesClose

\* A worker's phase and its status.json keep agreeing.
LEMMA StatusInvStep == IInv /\ [Next]_vars => StatusInv'
<1> SUFFICES ASSUME IInv, [Next]_vars PROVE StatusInv'
  OBVIOUS
<1> USE RequestAssumption, RegistryAssumption
     DEF IInv, TypeOK, StatusInv, Published, Open, Terminal, Over, Holding,
     Queueing, Finishing, Nobody, Caller
<1>1. CASE RecoverFinish
  BY <1>1
  DEF RecoverFinish, AtStep, CleanupState, workVars, guardVars, rootVars
<1>2. CASE RecoverPublish
  BY <1>2
  DEF RecoverPublish, AtStep, workVars, guardVars, rootVars, RecoverInv,
     WorkerSeen, WorkerAlive
<1>3. ASSUME NEW j \in Jobs, Submit(j) PROVE StatusInv'
  BY <1>3 DEF Submit, Lock, workVars, guardVars, rootVars
<1>4. ASSUME NEW j \in Jobs, PublishQueued(j) PROVE StatusInv'
  BY <1>4
  DEF PublishQueued, Starting, workVars, guardVars, rootVars, lockVars
<1>5. ASSUME NEW j \in Jobs, SpawnWorker(j) PROVE StatusInv'
  BY <1>5 DEF SpawnWorker, Starting, fileVars, guardVars, rootVars, lockVars
<1>6. ASSUME NEW j \in Jobs, RecordWorker(j) PROVE StatusInv'
  BY <1>6
  DEF RecordWorker, Starting, fileVars, guardVars, rootVars, lockVars
<1>7. ASSUME NEW j \in Jobs, OpenGate(j) PROVE StatusInv'
  BY <1>7
  DEF OpenGate, Unlock, Starting, fileVars, guardVars, rootVars, StartInv
<1>8. ASSUME NEW j \in Jobs, LaunchError(j) PROVE StatusInv'
  BY <1>8 DEF LaunchError, AtStep, Starting, guardVars, rootVars
<1>9. ASSUME NEW j \in Jobs, LaunchErrorPublish(j) PROVE StatusInv'
  BY <1>9
  DEF LaunchErrorPublish, Unlock, workVars, guardVars, rootVars, StartInv
<1>10. ASSUME NEW j \in Jobs, WorkerGateCloses(j) PROVE StatusInv'
  BY <1>10 DEF WorkerGateCloses, fileVars, guardVars, rootVars, lockVars
<1>11. ASSUME NEW j \in Jobs, WorkerBegins(j) PROVE StatusInv'
  BY <1>11 DEF WorkerBegins, fileVars, rootVars, lockVars
<1>12. ASSUME NEW j \in Jobs, StartupFails(j) PROVE StatusInv'
  BY <1>12
  DEF StartupFails, Closes, Failures, fileVars, guardVars, rootVars, lockVars
<1>13. ASSUME NEW j \in Jobs, WorkerReady(j) PROVE StatusInv'
  BY <1>13
  DEF WorkerReady, Goes, GuardianAlive, GuardianSeen, guardVars, rootVars,
     lockVars
<1>14. ASSUME NEW j \in Jobs, Heartbeat(j) PROVE StatusInv'
  BY <1>14 DEF Heartbeat, workVars, guardVars, rootVars, lockVars
<1>15. ASSUME NEW j \in Jobs, Interrupt(j) PROVE StatusInv'
  BY <1>15
  DEF Interrupt, Closes, Interruptions, fileVars, guardVars, rootVars,
     lockVars
<1>16. ASSUME NEW j \in Jobs, Asks(j) PROVE StatusInv'
  BY <1>16 DEF Asks, Goes, fileVars, guardVars, rootVars, lockVars
<1>17. ASSUME NEW j \in Jobs, ScanBegins(j) PROVE StatusInv'
  BY <1>17 DEF ScanBegins, Closes, fileVars, guardVars, rootVars, lockVars
<1>18. ASSUME NEW j \in Jobs, ScanRefuses(j) PROVE StatusInv'
  BY <1>18
  DEF ScanRefuses, Unlock, Closes, Failures, fileVars, guardVars, rootVars,
     LockInv
<1>19. ASSUME NEW j \in Jobs, ScanBlocked(j) PROVE StatusInv'
  BY <1>19 DEF ScanBlocked, Unlock, fileVars, guardVars, rootVars, LockInv
<1>20. ASSUME NEW j \in Jobs, Acquire(j) PROVE StatusInv'
  BY <1>20 DEF Acquire, Unlock, guardVars, rootVars, LockInv
<1>21. ASSUME NEW j \in Jobs, PreparationFails(j) PROVE StatusInv'
  BY <1>21
  DEF PreparationFails, Closes, Failures, fileVars, guardVars, rootVars,
     lockVars
<1>22. ASSUME NEW j \in Jobs, Prepared(j) PROVE StatusInv'
  BY <1>22 DEF Prepared, Goes, fileVars, guardVars, rootVars, lockVars
<1>23. ASSUME NEW j \in Jobs, SpawnRoot(j) PROVE StatusInv'
  BY <1>23 DEF SpawnRoot, Goes, fileVars, guardVars, lockVars
<1>24. ASSUME NEW j \in Jobs, RecordRoot(j) PROVE StatusInv'
  BY <1>24 DEF RecordRoot, Goes, fileVars, guardVars, lockVars
<1>25. ASSUME NEW j \in Jobs, ReleaseRoot(j) PROVE StatusInv'
  BY <1>25 DEF ReleaseRoot, Goes, fileVars, guardVars, lockVars
<1>26. ASSUME NEW j \in Jobs, LaunchFails(j) PROVE StatusInv'
  BY <1>26
  DEF LaunchFails, Closes, Failures, fileVars, guardVars, rootVars, lockVars
<1>27. ASSUME NEW j \in Jobs, Completes(j) PROVE StatusInv'
  BY <1>27 DEF Completes, Closes, fileVars, guardVars, rootVars, lockVars
<1>28. ASSUME NEW j \in Jobs, StopRoot(j) PROVE StatusInv'
  BY <1>28 DEF StopRoot, Stopped, Goes, fileVars, guardVars, lockVars
<1>29. ASSUME NEW j \in Jobs, StopRootRefused(j) PROVE StatusInv'
  BY <1>29
  DEF StopRootRefused, Goes, fileVars, guardVars, rootVars, lockVars
<1>30. ASSUME NEW j \in Jobs, LeavePending(j) PROVE StatusInv'
  BY <1>30 DEF LeavePending, Goes, guardVars, rootVars, lockVars
<1>31. ASSUME NEW j \in Jobs, WriteResult(j) PROVE StatusInv'
  BY <1>31 DEF WriteResult, Goes, guardVars, rootVars, lockVars
<1>32. ASSUME NEW j \in Jobs, PublishTerminal(j) PROVE StatusInv'
  BY <1>32 DEF PublishTerminal, Goes, guardVars, rootVars, lockVars
<1>33. ASSUME NEW j \in Jobs, KillWorker(j) PROVE StatusInv'
  BY <1>33
  DEF KillWorker, Unlock, CompletionReleased, WorkerAlive, fileVars,
     guardVars, rootVars, lockVars
<1>34. ASSUME NEW j \in Jobs, GuardianReports(j) PROVE StatusInv'
  BY <1>34
  DEF GuardianReports, Moves, fileVars, workVars, rootVars, lockVars
<1>35. ASSUME NEW j \in Jobs, GuardianLooks(j) PROVE StatusInv'
  BY <1>35 DEF GuardianLooks, Moves, fileVars, workVars, rootVars, lockVars
<1>36. ASSUME NEW j \in Jobs, GuardianJudges(j) PROVE StatusInv'
  BY <1>36
  DEF GuardianJudges, Stopped, Moves, WorkerAlive, fileVars, workVars,
     lockVars
<1>37. ASSUME NEW j \in Jobs, GuardianStops(j) PROVE StatusInv'
  BY <1>37 DEF GuardianStops, Stopped, Moves, fileVars, workVars, lockVars
<1>38. ASSUME NEW j \in Jobs, GuardianStopRefused(j) PROVE StatusInv'
  BY <1>38
  DEF GuardianStopRefused, Moves, fileVars, workVars, rootVars, lockVars
<1>39. ASSUME NEW j \in Jobs, GuardianFinishes(j) PROVE StatusInv'
  BY <1>39
  DEF GuardianFinishes, Moves, CleanupState, workVars, rootVars, lockVars
<1>40. ASSUME NEW j \in Jobs, GuardianPublishes(j) PROVE StatusInv'
  BY <1>40
  DEF GuardianPublishes, Moves, workVars, rootVars, lockVars, RecoverInv,
     WorkerSeen, WorkerAlive
<1>41. ASSUME NEW j \in Jobs, KillGuardian(j) PROVE StatusInv'
  BY <1>41
  DEF KillGuardian, GuardianAlive, fileVars, workVars, rootVars, lockVars
<1>42. CASE UNCHANGED <<status, worker, launchFile, guardian, outcome, result>>
  BY <1>42
<1>43. CASE UNCHANGED vars
  BY <1>42, <1>43
  DEF vars, fileVars, workVars, guardVars, rootVars, lockVars
<1>44. CASE \/ RecoverRead
            \/ RecoverYoung
            \/ RecoverProbe
            \/ RecoverStop
            \/ RecoverStopRefused
            \/ PollReturns
            \/ CancelReturns
            \/ KillCaller
  BY <1>42, <1>44
  DEF RecoverRead, RecoverYoung, RecoverProbe, RecoverStop,
     RecoverStopRefused, PollReturns, CancelReturns, KillCaller, AtStep,
     fileVars, workVars, guardVars, rootVars, Unlock, CompletionReleased,
     Lock, lockVars
<1>45. ASSUME NEW j \in Jobs, Poll(j) \/ CancelRequest(j) \/
            ScanPicks(j) \/ ScanJudges(j) \/ RootGateCloses(j) \/
            RootExits(j)
     PROVE  StatusInv'
  BY <1>42, <1>45
  DEF Poll, CancelRequest, ScanPicks, ScanJudges, RootGateCloses, RootExits,
     AtStep, fileVars, workVars, guardVars, rootVars, Unlock,
     CompletionReleased, Lock, lockVars
<1> QED
  BY <1>1, <1>2, <1>3, <1>4, <1>5, <1>6, <1>7, <1>8, <1>9, <1>10, <1>11,
     <1>12, <1>13, <1>14, <1>15, <1>16, <1>17, <1>18, <1>19, <1>20, <1>21,
     <1>22, <1>23, <1>24, <1>25, <1>26, <1>27, <1>28, <1>29, <1>30, <1>31,
     <1>32, <1>33, <1>34, <1>35, <1>36, <1>37, <1>38, <1>39, <1>40, <1>41,
     <1>42, <1>43, <1>44, <1>45
  DEF Next, Recover, CallerStep, WorkerStep, GuardianStep, GatesClose

\* Nothing else reaches a job that is still being started.
LEMMA StartInvStep == IInv /\ [Next]_vars => StartInv'
<1> SUFFICES ASSUME IInv, [Next]_vars PROVE StartInv'
  OBVIOUS
<1> USE RequestAssumption, RegistryAssumption
     DEF IInv, TypeOK, StartInv, Over, Terminal, Nobody, Caller
<1>1. CASE RecoverRead
  BY <1>1 DEF RecoverRead, AtStep, fileVars, workVars, guardVars, rootVars
<1>2. CASE RecoverYoung
  BY <1>2 DEF RecoverYoung, AtStep, fileVars, workVars, guardVars, rootVars
<1>3. CASE RecoverProbe
  BY <1>3
  DEF RecoverProbe, AtStep, WorkerAlive, GuardianAlive, WorkerSeen,
     GuardianSeen, fileVars, workVars, guardVars, rootVars
<1>4. CASE RecoverStop
  BY <1>4 DEF RecoverStop, AtStep, Stopped, fileVars, workVars, guardVars
<1>5. CASE RecoverStopRefused
  BY <1>5
  DEF RecoverStopRefused, AtStep, fileVars, workVars, guardVars, rootVars
<1>6. CASE RecoverFinish
  BY <1>6
  DEF RecoverFinish, AtStep, CleanupState, workVars, guardVars, rootVars
<1>7. CASE RecoverPublish
  BY <1>7 DEF RecoverPublish, AtStep, workVars, guardVars, rootVars, LockInv
<1>8. CASE PollReturns
  BY <1>8 DEF PollReturns, Unlock, fileVars, workVars, guardVars, rootVars
<1>9. CASE CancelReturns
  BY <1>9 DEF CancelReturns, Unlock, workVars, guardVars, rootVars
<1>10. CASE KillCaller
  BY <1>10
  DEF KillCaller, Unlock, CompletionReleased, fileVars, workVars, guardVars,
     rootVars
<1>11. ASSUME NEW j \in Jobs, Submit(j) PROVE StartInv'
  <2>1. /\ status[j] = "absent" /\ status' = [status EXCEPT ![j] = "unpublished"]
        /\ subject' = j /\ step' = "none" /\ worker' = worker /\ guardian' = guardian
    BY <1>11 DEF Submit, Lock, workVars, guardVars
  <2>2. worker[j] = "none" /\ guardian[j] = "none"
    BY <2>1 DEF StatusInv, Published
  <2>3. status'[j] = "unpublished"
    BY <2>1 DEF TypeOK
  <2>. QED
    BY <2>1, <2>2, <2>3
<1>12. ASSUME NEW j \in Jobs, PublishQueued(j) PROVE StartInv'
  BY <1>12
  DEF PublishQueued, Starting, workVars, guardVars, rootVars, lockVars
<1>13. ASSUME NEW j \in Jobs, SpawnWorker(j) PROVE StartInv'
  BY <1>13
  DEF SpawnWorker, Starting, fileVars, guardVars, rootVars, lockVars
<1>14. ASSUME NEW j \in Jobs, OpenGate(j) PROVE StartInv'
  BY <1>14 DEF OpenGate, Unlock, Starting, fileVars, guardVars, rootVars
<1>15. ASSUME NEW j \in Jobs, LaunchError(j) PROVE StartInv'
  BY <1>15 DEF LaunchError, AtStep, Starting, guardVars, rootVars
<1>16. ASSUME NEW j \in Jobs, LaunchErrorPublish(j) PROVE StartInv'
  BY <1>16 DEF LaunchErrorPublish, Unlock, workVars, guardVars, rootVars
<1>17. ASSUME NEW j \in Jobs, WorkerGateCloses(j) PROVE StartInv'
  BY <1>17 DEF WorkerGateCloses, fileVars, guardVars, rootVars, lockVars
<1>18. ASSUME NEW j \in Jobs, Poll(j) PROVE StartInv'
  BY <1>18 DEF Poll, Lock, Open, fileVars, workVars, guardVars, rootVars
<1>19. ASSUME NEW j \in Jobs, CancelRequest(j) PROVE StartInv'
  BY <1>19
  DEF CancelRequest, Lock, Open, fileVars, workVars, guardVars, rootVars
<1>20. ASSUME NEW j \in Jobs, WorkerBegins(j) PROVE StartInv'
  BY <1>20
  DEF WorkerBegins, fileVars, rootVars, lockVars, StatusInv, Published, Open,
     Holding, Queueing, Finishing, LockInv
<1>21. ASSUME NEW j \in Jobs, StartupFails(j) PROVE StartInv'
  BY <1>21
  DEF StartupFails, Closes, Failures, fileVars, guardVars, rootVars, lockVars
<1>22. ASSUME NEW j \in Jobs, WorkerReady(j) PROVE StartInv'
  BY <1>22
  DEF WorkerReady, Goes, GuardianAlive, GuardianSeen, guardVars, rootVars,
     lockVars
<1>23. ASSUME NEW j \in Jobs, Heartbeat(j) PROVE StartInv'
  BY <1>23 DEF Heartbeat, workVars, guardVars, rootVars, lockVars
<1>24. ASSUME NEW j \in Jobs, Interrupt(j) PROVE StartInv'
  BY <1>24
  DEF Interrupt, Closes, Interruptions, fileVars, guardVars, rootVars,
     lockVars
<1>25. ASSUME NEW j \in Jobs, Asks(j) PROVE StartInv'
  BY <1>25 DEF Asks, Goes, fileVars, guardVars, rootVars, lockVars
<1>26. ASSUME NEW j \in Jobs, ScanBegins(j) PROVE StartInv'
  BY <1>26
  DEF ScanBegins, Closes, fileVars, guardVars, rootVars, lockVars, StatusInv,
     Published, Open, Holding, Queueing, Finishing
<1>27. ASSUME NEW j \in Jobs, ScanRefuses(j) PROVE StartInv'
  BY <1>27
  DEF ScanRefuses, Unlock, Closes, Failures, fileVars, guardVars, rootVars
<1>28. ASSUME NEW j \in Jobs, ScanPicks(j) PROVE StartInv'
  BY <1>28
  DEF ScanPicks, Open, fileVars, workVars, guardVars, rootVars, LockInv
<1>29. ASSUME NEW j \in Jobs, ScanJudges(j) PROVE StartInv'
  BY <1>29 DEF ScanJudges, fileVars, workVars, guardVars, rootVars
<1>30. ASSUME NEW j \in Jobs, ScanBlocked(j) PROVE StartInv'
  BY <1>30 DEF ScanBlocked, Unlock, fileVars, guardVars, rootVars
<1>31. ASSUME NEW j \in Jobs, Acquire(j) PROVE StartInv'
  BY <1>31 DEF Acquire, Unlock, guardVars, rootVars
<1>32. ASSUME NEW j \in Jobs, PreparationFails(j) PROVE StartInv'
  BY <1>32
  DEF PreparationFails, Closes, Failures, fileVars, guardVars, rootVars,
     lockVars
<1>33. ASSUME NEW j \in Jobs, Prepared(j) PROVE StartInv'
  BY <1>33 DEF Prepared, Goes, fileVars, guardVars, rootVars, lockVars
<1>34. ASSUME NEW j \in Jobs, SpawnRoot(j) PROVE StartInv'
  BY <1>34 DEF SpawnRoot, Goes, fileVars, guardVars, lockVars
<1>35. ASSUME NEW j \in Jobs, RecordRoot(j) PROVE StartInv'
  BY <1>35 DEF RecordRoot, Goes, fileVars, guardVars, lockVars
<1>36. ASSUME NEW j \in Jobs, ReleaseRoot(j) PROVE StartInv'
  BY <1>36 DEF ReleaseRoot, Goes, fileVars, guardVars, lockVars
<1>37. ASSUME NEW j \in Jobs, LaunchFails(j) PROVE StartInv'
  BY <1>37
  DEF LaunchFails, Closes, Failures, fileVars, guardVars, rootVars, lockVars
<1>38. ASSUME NEW j \in Jobs, Completes(j) PROVE StartInv'
  BY <1>38 DEF Completes, Closes, fileVars, guardVars, rootVars, lockVars
<1>39. ASSUME NEW j \in Jobs, StopRoot(j) PROVE StartInv'
  BY <1>39 DEF StopRoot, Stopped, Goes, fileVars, guardVars, lockVars
<1>40. ASSUME NEW j \in Jobs, StopRootRefused(j) PROVE StartInv'
  BY <1>40
  DEF StopRootRefused, Goes, fileVars, guardVars, rootVars, lockVars
<1>41. ASSUME NEW j \in Jobs, LeavePending(j) PROVE StartInv'
  BY <1>41 DEF LeavePending, Goes, guardVars, rootVars, lockVars
<1>42. ASSUME NEW j \in Jobs, WriteResult(j) PROVE StartInv'
  BY <1>42 DEF WriteResult, Goes, guardVars, rootVars, lockVars
<1>43. ASSUME NEW j \in Jobs, PublishTerminal(j) PROVE StartInv'
  BY <1>43 DEF PublishTerminal, Goes, guardVars, rootVars, lockVars
<1>44. ASSUME NEW j \in Jobs, KillWorker(j) PROVE StartInv'
  BY <1>44
  DEF KillWorker, Unlock, CompletionReleased, WorkerAlive, fileVars,
     guardVars, rootVars, lockVars
<1>45. ASSUME NEW j \in Jobs, GuardianReports(j) PROVE StartInv'
  BY <1>45
  DEF GuardianReports, Moves, fileVars, workVars, rootVars, lockVars
<1>46. ASSUME NEW j \in Jobs, GuardianLooks(j) PROVE StartInv'
  BY <1>46 DEF GuardianLooks, Moves, fileVars, workVars, rootVars, lockVars
<1>47. ASSUME NEW j \in Jobs, GuardianJudges(j) PROVE StartInv'
  BY <1>47
  DEF GuardianJudges, Stopped, Moves, WorkerAlive, fileVars, workVars,
     lockVars, StatusInv, Published, Open, Holding, Queueing, Finishing,
     LockInv
<1>48. ASSUME NEW j \in Jobs, GuardianStops(j) PROVE StartInv'
  BY <1>48 DEF GuardianStops, Stopped, Moves, fileVars, workVars, lockVars
<1>49. ASSUME NEW j \in Jobs, GuardianStopRefused(j) PROVE StartInv'
  BY <1>49
  DEF GuardianStopRefused, Moves, fileVars, workVars, rootVars, lockVars
<1>50. ASSUME NEW j \in Jobs, GuardianFinishes(j) PROVE StartInv'
  BY <1>50
  DEF GuardianFinishes, Moves, CleanupState, workVars, rootVars, lockVars,
     StatusInv, Published, Open, Holding, Queueing, Finishing, LockInv
<1>51. ASSUME NEW j \in Jobs, GuardianPublishes(j) PROVE StartInv'
  BY <1>51 DEF GuardianPublishes, Moves, workVars, rootVars, lockVars
<1>52. ASSUME NEW j \in Jobs, KillGuardian(j) PROVE StartInv'
  BY <1>52
  DEF KillGuardian, GuardianAlive, fileVars, workVars, rootVars, lockVars
<1>53. CASE UNCHANGED <<op, subject, status, step, worker, guardian>>
  BY <1>53
<1>54. CASE UNCHANGED vars
  BY <1>53, <1>54
  DEF vars, fileVars, workVars, guardVars, rootVars, lockVars
<1>55. ASSUME NEW j \in Jobs, RecordWorker(j) \/ RootGateCloses(j) \/
            RootExits(j)
     PROVE  StartInv'
  BY <1>53, <1>55
  DEF RecordWorker, RootGateCloses, RootExits, fileVars, guardVars, rootVars,
     lockVars, workVars
<1> QED
  BY <1>1, <1>2, <1>3, <1>4, <1>5, <1>6, <1>7, <1>8, <1>9, <1>10, <1>11,
     <1>12, <1>13, <1>14, <1>15, <1>16, <1>17, <1>18, <1>19, <1>20, <1>21,
     <1>22, <1>23, <1>24, <1>25, <1>26, <1>27, <1>28, <1>29, <1>30, <1>31,
     <1>32, <1>33, <1>34, <1>35, <1>36, <1>37, <1>38, <1>39, <1>40, <1>41,
     <1>42, <1>43, <1>44, <1>45, <1>46, <1>47, <1>48, <1>49, <1>50, <1>51,
     <1>52, <1>53, <1>54, <1>55
  DEF Next, Recover, CallerStep, WorkerStep, GuardianStep, GatesClose

\* Whoever publishes a job's end still holds completion.lock over an open record.
LEMMA RecoverInvStep == IInv /\ [Next]_vars => RecoverInv'
<1> SUFFICES ASSUME IInv, [Next]_vars PROVE RecoverInv'
  OBVIOUS
<1> USE RequestAssumption, RegistryAssumption
     DEF IInv, TypeOK, RecoverInv, WorkerSeen, WorkerAlive, Open, Terminal,
     Nobody, Caller
<1>1. CASE RecoverRead
  BY <1>1 DEF RecoverRead, AtStep, fileVars, workVars, guardVars, rootVars
<1>2. CASE RecoverYoung
  BY <1>2 DEF RecoverYoung, AtStep, fileVars, workVars, guardVars, rootVars
<1>3. CASE RecoverProbe
  BY <1>3
  DEF RecoverProbe, AtStep, GuardianAlive, GuardianSeen, fileVars, workVars,
     guardVars, rootVars, StatusInv, Published, Over, Holding, Queueing,
     Finishing
<1>4. CASE RecoverStop
  BY <1>4 DEF RecoverStop, AtStep, Stopped, fileVars, workVars, guardVars
<1>5. CASE RecoverStopRefused
  BY <1>5
  DEF RecoverStopRefused, AtStep, fileVars, workVars, guardVars, rootVars
<1>6. CASE RecoverFinish
  <2>1. target \in Jobs /\ ~WorkerSeen(target)
    BY <1>6 DEF RecoverFinish
  <2>2. CASE status[target] \in Terminal
    BY <1>6, <2>1, <2>2 DEF RecoverFinish, AtStep, workVars, guardVars
  <2>3. CASE status[target] \notin Terminal
    <3>1. Open(target)
      BY <1>6, <2>1, <2>3 DEF RecoverFinish, ScanInv, Published, Statuses
    <3>2. CleanupState(target) \in Terminal
      BY <2>1 DEF CleanupState, StatusInv, Results
    <3>3. /\ completion[target] = "free"
          /\ completion' = [completion EXCEPT ![target] = "registry"]
          /\ result' = [result EXCEPT ![target] =
                         [pending |-> FALSE, state |-> CleanupState(target)]]
          /\ UNCHANGED <<status, worker, launchFile, guardian, target>>
      BY <1>6, <2>3 DEF RecoverFinish, AtStep, workVars, guardVars
    <3>4. result'[target].state \in Terminal
      BY <2>1, <3>2, <3>3
    <3> QED
      BY <2>1, <3>1, <3>3, <3>4
  <2> QED
    BY <2>2, <2>3
<1>7. CASE RecoverPublish
  BY <1>7 DEF RecoverPublish, AtStep, workVars, guardVars, rootVars
<1>8. CASE PollReturns
  BY <1>8 DEF PollReturns, Unlock, fileVars, workVars, guardVars, rootVars
<1>9. CASE CancelReturns
  BY <1>9 DEF CancelReturns, Unlock, workVars, guardVars, rootVars
<1>10. CASE KillCaller
  BY <1>10
  DEF KillCaller, Unlock, CompletionReleased, fileVars, workVars, guardVars,
     rootVars
<1>11. ASSUME NEW j \in Jobs, Submit(j) PROVE RecoverInv'
  BY <1>11 DEF Submit, Lock, workVars, guardVars, rootVars
<1>12. ASSUME NEW j \in Jobs, PublishQueued(j) PROVE RecoverInv'
  BY <1>12
  DEF PublishQueued, Starting, workVars, guardVars, rootVars, lockVars
<1>13. ASSUME NEW j \in Jobs, SpawnWorker(j) PROVE RecoverInv'
  BY <1>13
  DEF SpawnWorker, Starting, fileVars, guardVars, rootVars, lockVars
<1>14. ASSUME NEW j \in Jobs, RecordWorker(j) PROVE RecoverInv'
  BY <1>14
  DEF RecordWorker, Starting, fileVars, guardVars, rootVars, lockVars
<1>15. ASSUME NEW j \in Jobs, OpenGate(j) PROVE RecoverInv'
  BY <1>15 DEF OpenGate, Unlock, Starting, fileVars, guardVars, rootVars
<1>16. ASSUME NEW j \in Jobs, LaunchError(j) PROVE RecoverInv'
  BY <1>16
  DEF LaunchError, AtStep, Starting, guardVars, rootVars, StatusInv,
     Published, Over, Holding, Queueing, Finishing, LockInv
<1>17. ASSUME NEW j \in Jobs, LaunchErrorPublish(j) PROVE RecoverInv'
  BY <1>17
  DEF LaunchErrorPublish, Unlock, workVars, guardVars, rootVars, StartInv,
     Over, LockInv, StatusInv, Published, Holding, Queueing, Finishing
<1>18. ASSUME NEW j \in Jobs, WorkerGateCloses(j) PROVE RecoverInv'
  BY <1>18 DEF WorkerGateCloses, fileVars, guardVars, rootVars, lockVars
<1>19. ASSUME NEW j \in Jobs, Poll(j) PROVE RecoverInv'
  BY <1>19 DEF Poll, Lock, fileVars, workVars, guardVars, rootVars
<1>20. ASSUME NEW j \in Jobs, CancelRequest(j) PROVE RecoverInv'
  BY <1>20 DEF CancelRequest, Lock, fileVars, workVars, guardVars, rootVars
<1>21. ASSUME NEW j \in Jobs, WorkerBegins(j) PROVE RecoverInv'
  BY <1>21 DEF WorkerBegins, fileVars, rootVars, lockVars
<1>22. ASSUME NEW j \in Jobs, StartupFails(j) PROVE RecoverInv'
  BY <1>22
  DEF StartupFails, Closes, Failures, fileVars, guardVars, rootVars, lockVars
<1>23. ASSUME NEW j \in Jobs, WorkerReady(j) PROVE RecoverInv'
  BY <1>23
  DEF WorkerReady, Goes, GuardianAlive, GuardianSeen, guardVars, rootVars,
     lockVars
<1>24. ASSUME NEW j \in Jobs, Heartbeat(j) PROVE RecoverInv'
  BY <1>24 DEF Heartbeat, workVars, guardVars, rootVars, lockVars
<1>25. ASSUME NEW j \in Jobs, Interrupt(j) PROVE RecoverInv'
  BY <1>25
  DEF Interrupt, Closes, Interruptions, fileVars, guardVars, rootVars,
     lockVars
<1>26. ASSUME NEW j \in Jobs, Asks(j) PROVE RecoverInv'
  BY <1>26 DEF Asks, Goes, fileVars, guardVars, rootVars, lockVars
<1>27. ASSUME NEW j \in Jobs, ScanBegins(j) PROVE RecoverInv'
  BY <1>27 DEF ScanBegins, Closes, fileVars, guardVars, rootVars, lockVars
<1>28. ASSUME NEW j \in Jobs, ScanRefuses(j) PROVE RecoverInv'
  BY <1>28
  DEF ScanRefuses, Unlock, Closes, Failures, fileVars, guardVars, rootVars
<1>29. ASSUME NEW j \in Jobs, ScanPicks(j) PROVE RecoverInv'
  BY <1>29 DEF ScanPicks, fileVars, workVars, guardVars, rootVars
<1>30. ASSUME NEW j \in Jobs, ScanJudges(j) PROVE RecoverInv'
  BY <1>30 DEF ScanJudges, fileVars, workVars, guardVars, rootVars
<1>31. ASSUME NEW j \in Jobs, ScanBlocked(j) PROVE RecoverInv'
  BY <1>31 DEF ScanBlocked, Unlock, fileVars, guardVars, rootVars
<1>32. ASSUME NEW j \in Jobs, Acquire(j) PROVE RecoverInv'
  BY <1>32 DEF Acquire, Unlock, guardVars, rootVars
<1>33. ASSUME NEW j \in Jobs, PreparationFails(j) PROVE RecoverInv'
  BY <1>33
  DEF PreparationFails, Closes, Failures, fileVars, guardVars, rootVars,
     lockVars
<1>34. ASSUME NEW j \in Jobs, Prepared(j) PROVE RecoverInv'
  BY <1>34 DEF Prepared, Goes, fileVars, guardVars, rootVars, lockVars
<1>35. ASSUME NEW j \in Jobs, SpawnRoot(j) PROVE RecoverInv'
  BY <1>35 DEF SpawnRoot, Goes, fileVars, guardVars, lockVars
<1>36. ASSUME NEW j \in Jobs, RecordRoot(j) PROVE RecoverInv'
  BY <1>36 DEF RecordRoot, Goes, fileVars, guardVars, lockVars
<1>37. ASSUME NEW j \in Jobs, ReleaseRoot(j) PROVE RecoverInv'
  BY <1>37 DEF ReleaseRoot, Goes, fileVars, guardVars, lockVars
<1>38. ASSUME NEW j \in Jobs, LaunchFails(j) PROVE RecoverInv'
  BY <1>38
  DEF LaunchFails, Closes, Failures, fileVars, guardVars, rootVars, lockVars
<1>39. ASSUME NEW j \in Jobs, Completes(j) PROVE RecoverInv'
  BY <1>39 DEF Completes, Closes, fileVars, guardVars, rootVars, lockVars
<1>40. ASSUME NEW j \in Jobs, StopRoot(j) PROVE RecoverInv'
  BY <1>40 DEF StopRoot, Stopped, Goes, fileVars, guardVars, lockVars
<1>41. ASSUME NEW j \in Jobs, StopRootRefused(j) PROVE RecoverInv'
  BY <1>41
  DEF StopRootRefused, Goes, fileVars, guardVars, rootVars, lockVars
<1>42. ASSUME NEW j \in Jobs, LeavePending(j) PROVE RecoverInv'
  BY <1>42
  DEF LeavePending, Goes, guardVars, rootVars, lockVars, StatusInv, Published,
     Over, Holding, Queueing, Finishing
<1>43. ASSUME NEW j \in Jobs, WriteResult(j) PROVE RecoverInv'
  BY <1>43
  DEF WriteResult, Goes, guardVars, rootVars, lockVars, StatusInv, Published,
     Over, Holding, Queueing, Finishing
<1>44. ASSUME NEW j \in Jobs, PublishTerminal(j) PROVE RecoverInv'
  BY <1>44
  DEF PublishTerminal, Goes, guardVars, rootVars, lockVars, StatusInv,
     Published, Over, Holding, Queueing, Finishing
<1>45. ASSUME NEW j \in Jobs, KillWorker(j) PROVE RecoverInv'
  BY <1>45
  DEF KillWorker, Unlock, CompletionReleased, fileVars, guardVars, rootVars,
     lockVars
<1>46. ASSUME NEW j \in Jobs, GuardianReports(j) PROVE RecoverInv'
  BY <1>46
  DEF GuardianReports, Moves, fileVars, workVars, rootVars, lockVars
<1>47. ASSUME NEW j \in Jobs, GuardianLooks(j) PROVE RecoverInv'
  BY <1>47 DEF GuardianLooks, Moves, fileVars, workVars, rootVars, lockVars
<1>48. ASSUME NEW j \in Jobs, GuardianJudges(j) PROVE RecoverInv'
  BY <1>48 DEF GuardianJudges, Stopped, Moves, fileVars, workVars, lockVars
<1>49. ASSUME NEW j \in Jobs, GuardianStops(j) PROVE RecoverInv'
  BY <1>49 DEF GuardianStops, Stopped, Moves, fileVars, workVars, lockVars
<1>50. ASSUME NEW j \in Jobs, GuardianStopRefused(j) PROVE RecoverInv'
  BY <1>50
  DEF GuardianStopRefused, Moves, fileVars, workVars, rootVars, lockVars
<1>51. ASSUME NEW j \in Jobs, GuardianFinishes(j) PROVE RecoverInv'
  <2>1. CASE status[j] \in Terminal
    BY <1>51, <2>1 DEF GuardianFinishes, Moves, workVars, lockVars
  <2>2. CASE status[j] \notin Terminal
    <3>1. /\ guardian' = [guardian EXCEPT ![j] = "publish"]
          /\ completion[j] = "free"
          /\ completion' = [completion EXCEPT ![j] = "guardian"]
          /\ result' = [result EXCEPT ![j] = [pending |-> FALSE, state |-> CleanupState(j)]]
          /\ UNCHANGED <<status, worker, launchFile, target, step>>
      BY <1>51, <2>2 DEF GuardianFinishes, Moves, workVars, lockVars
    <3>2. Open(j)
      BY <1>51, <2>2 DEF GuardianFinishes, Moves, StatusInv, Published, Statuses
    <3>3. CleanupState(j) \in Terminal
      BY DEF CleanupState, StatusInv, Results
    <3>4. result'[j].state \in Terminal
      BY <3>1, <3>3
    <3> QED
      BY <3>1, <3>2, <3>4
  <2> QED
    BY <2>1, <2>2
<1>52. ASSUME NEW j \in Jobs, GuardianPublishes(j) PROVE RecoverInv'
  BY <1>52 DEF GuardianPublishes, Moves, workVars, rootVars, lockVars
<1>53. ASSUME NEW j \in Jobs, KillGuardian(j) PROVE RecoverInv'
  BY <1>53
  DEF KillGuardian, GuardianAlive, fileVars, workVars, rootVars, lockVars
<1>54. CASE UNCHANGED <<target, step, worker, launchFile, completion, status, result,
                        guardian>>
  BY <1>54
<1>55. CASE UNCHANGED vars
  BY <1>54, <1>55
  DEF vars, fileVars, workVars, guardVars, rootVars, lockVars
<1>56. ASSUME NEW j \in Jobs, RootGateCloses(j) \/ RootExits(j)
     PROVE  RecoverInv'
  BY <1>54, <1>56
  DEF RootGateCloses, RootExits, fileVars, workVars, guardVars, lockVars
<1> QED
  BY <1>1, <1>2, <1>3, <1>4, <1>5, <1>6, <1>7, <1>8, <1>9, <1>10, <1>11,
     <1>12, <1>13, <1>14, <1>15, <1>16, <1>17, <1>18, <1>19, <1>20, <1>21,
     <1>22, <1>23, <1>24, <1>25, <1>26, <1>27, <1>28, <1>29, <1>30, <1>31,
     <1>32, <1>33, <1>34, <1>35, <1>36, <1>37, <1>38, <1>39, <1>40, <1>41,
     <1>42, <1>43, <1>44, <1>45, <1>46, <1>47, <1>48, <1>49, <1>50, <1>51,
     <1>52, <1>53, <1>54, <1>55, <1>56
  DEF Next, Recover, CallerStep, WorkerStep, GuardianStep, GatesClose

\* What the scan has passed stays as it was judged: nobody starts running under the lock.
LEMMA ScanInvStep == IInv /\ [Next]_vars => ScanInv'
<1> SUFFICES ASSUME IInv, [Next]_vars PROVE ScanInv'
  OBVIOUS
<1> USE RequestAssumption, RegistryAssumption
     DEF IInv, TypeOK, ScanInv, Published, Terminal, Nobody, Caller
<1>1. CASE RecoverRead
  BY <1>1, ConflictsSym
  DEF RecoverRead, AtStep, fileVars, workVars, guardVars, rootVars
<1>2. CASE RecoverYoung
  BY <1>2, ConflictsSym
  DEF RecoverYoung, AtStep, fileVars, workVars, guardVars, rootVars
<1>3. CASE RecoverProbe
  BY <1>3, ConflictsSym
  DEF RecoverProbe, AtStep, WorkerAlive, GuardianAlive, WorkerSeen,
     GuardianSeen, fileVars, workVars, guardVars, rootVars
<1>4. CASE RecoverStop
  BY <1>4, ConflictsSym
  DEF RecoverStop, AtStep, Stopped, fileVars, workVars, guardVars
<1>5. CASE RecoverStopRefused
  BY <1>5, ConflictsSym
  DEF RecoverStopRefused, AtStep, fileVars, workVars, guardVars, rootVars
<1>6. CASE RecoverFinish
  BY <1>6, ConflictsSym
  DEF RecoverFinish, AtStep, CleanupState, workVars, guardVars, rootVars
<1>7. CASE RecoverPublish
  BY <1>7, ConflictsSym
  DEF RecoverPublish, AtStep, workVars, guardVars, rootVars, RecoverInv,
     WorkerSeen, WorkerAlive, Open
<1>8. CASE PollReturns
  BY <1>8, ConflictsSym
  DEF PollReturns, Unlock, fileVars, workVars, guardVars, rootVars
<1>9. CASE CancelReturns
  BY <1>9, ConflictsSym
  DEF CancelReturns, Unlock, workVars, guardVars, rootVars
<1>10. CASE KillCaller
  BY <1>10, ConflictsSym
  DEF KillCaller, Unlock, CompletionReleased, fileVars, workVars, guardVars,
     rootVars
<1>11. ASSUME NEW j \in Jobs, Submit(j) PROVE ScanInv'
  BY <1>11, ConflictsSym DEF Submit, Lock, workVars, guardVars, rootVars
<1>12. ASSUME NEW j \in Jobs, PublishQueued(j) PROVE ScanInv'
  BY <1>12, ConflictsSym
  DEF PublishQueued, Starting, workVars, guardVars, rootVars, lockVars
<1>13. ASSUME NEW j \in Jobs, OpenGate(j) PROVE ScanInv'
  BY <1>13, ConflictsSym
  DEF OpenGate, Unlock, Starting, fileVars, guardVars, rootVars
<1>14. ASSUME NEW j \in Jobs, LaunchError(j) PROVE ScanInv'
  BY <1>14, ConflictsSym
  DEF LaunchError, AtStep, Starting, guardVars, rootVars
<1>15. ASSUME NEW j \in Jobs, LaunchErrorPublish(j) PROVE ScanInv'
  BY <1>15, ConflictsSym
  DEF LaunchErrorPublish, Unlock, workVars, guardVars, rootVars
<1>16. ASSUME NEW j \in Jobs, Poll(j) PROVE ScanInv'
  BY <1>16, ConflictsSym
  DEF Poll, Lock, Open, fileVars, workVars, guardVars, rootVars
<1>17. ASSUME NEW j \in Jobs, CancelRequest(j) PROVE ScanInv'
  BY <1>17, ConflictsSym
  DEF CancelRequest, Lock, Open, fileVars, workVars, guardVars, rootVars
<1>18. ASSUME NEW j \in Jobs, WorkerReady(j) PROVE ScanInv'
  BY <1>18, ConflictsSym
  DEF WorkerReady, Goes, GuardianAlive, GuardianSeen, guardVars, rootVars,
     lockVars
<1>19. ASSUME NEW j \in Jobs, Heartbeat(j) PROVE ScanInv'
  BY <1>19, ConflictsSym
  DEF Heartbeat, workVars, guardVars, rootVars, lockVars, StatusInv, Open,
     Over, Holding, Queueing, Finishing
<1>20. ASSUME NEW j \in Jobs, ScanBegins(j) PROVE ScanInv'
  BY <1>20, ConflictsSym
  DEF ScanBegins, Closes, fileVars, guardVars, rootVars, lockVars, StatusInv,
     Open, Over, Holding, Queueing, Finishing, LockInv
<1>21. ASSUME NEW j \in Jobs, ScanRefuses(j) PROVE ScanInv'
  BY <1>21, ConflictsSym
  DEF ScanRefuses, Unlock, Closes, Failures, fileVars, guardVars, rootVars
<1>22. ASSUME NEW j \in Jobs, ScanPicks(j) PROVE ScanInv'
  BY <1>22, ConflictsSym
  DEF ScanPicks, Open, fileVars, workVars, guardVars, rootVars
<1>23. ASSUME NEW j \in Jobs, ScanJudges(j) PROVE ScanInv'
  BY <1>23, ConflictsSym
  DEF ScanJudges, fileVars, workVars, guardVars, rootVars
<1>24. ASSUME NEW j \in Jobs, ScanBlocked(j) PROVE ScanInv'
  BY <1>24, ConflictsSym
  DEF ScanBlocked, Unlock, fileVars, guardVars, rootVars
<1>25. ASSUME NEW j \in Jobs, Acquire(j) PROVE ScanInv'
  BY <1>25, ConflictsSym DEF Acquire, Unlock, guardVars, rootVars
<1>26. ASSUME NEW j \in Jobs, PublishTerminal(j) PROVE ScanInv'
  <2>1. status' = [status EXCEPT ![j] = outcome[j]] /\ outcome[j] \in Terminal
    BY <1>26 DEF PublishTerminal, Goes, StatusInv, Finishing
  <2>2. UNCHANGED <<holder, todo, blocked, target, step, seen>>
    BY <1>26 DEF PublishTerminal, lockVars
  <2> QED
    BY <2>1, <2>2
<1>27. ASSUME NEW j \in Jobs, KillWorker(j) PROVE ScanInv'
  BY <1>27, ConflictsSym
  DEF KillWorker, Unlock, CompletionReleased, WorkerAlive, fileVars,
     guardVars, rootVars, lockVars
<1>28. ASSUME NEW j \in Jobs, GuardianPublishes(j) PROVE ScanInv'
  <2>1. status' = [status EXCEPT ![j] = result[j].state] /\ result[j].state \in Terminal
    BY <1>28 DEF GuardianPublishes, Moves, RecoverInv
  <2>2. UNCHANGED <<holder, todo, blocked, target, step, seen>>
    BY <1>28 DEF GuardianPublishes, lockVars
  <2> QED
    BY <2>1, <2>2
<1>29. CASE UNCHANGED <<target, step, status, seen, holder, todo, blocked>>
  BY <1>29
<1>30. CASE UNCHANGED vars
  BY <1>29, <1>30
  DEF vars, fileVars, workVars, guardVars, rootVars, lockVars
<1>31. ASSUME NEW j \in Jobs, SpawnWorker(j) \/ RecordWorker(j) \/
            WorkerGateCloses(j) \/ WorkerBegins(j) \/ StartupFails(j) \/
            Interrupt(j) \/ Asks(j) \/ PreparationFails(j) \/
            Prepared(j) \/ SpawnRoot(j) \/ RecordRoot(j) \/
            ReleaseRoot(j) \/ LaunchFails(j) \/ RootGateCloses(j) \/
            RootExits(j) \/ Completes(j) \/ StopRoot(j) \/
            StopRootRefused(j) \/ LeavePending(j) \/ WriteResult(j) \/
            GuardianReports(j) \/ GuardianLooks(j) \/ GuardianJudges(j) \/
            GuardianStops(j) \/ GuardianStopRefused(j) \/
            GuardianFinishes(j) \/ KillGuardian(j)
     PROVE  ScanInv'
  BY <1>29, <1>31
  DEF SpawnWorker, RecordWorker, WorkerGateCloses, WorkerBegins, StartupFails,
     Interrupt, Asks, PreparationFails, Prepared, SpawnRoot, RecordRoot,
     ReleaseRoot, LaunchFails, RootGateCloses, RootExits, Completes, StopRoot,
     StopRootRefused, LeavePending, WriteResult, GuardianReports,
     GuardianLooks, GuardianJudges, GuardianStops, GuardianStopRefused,
     GuardianFinishes, KillGuardian, fileVars, guardVars, rootVars, lockVars,
     Closes, Goes, workVars, Moves
<1> QED
  BY <1>1, <1>2, <1>3, <1>4, <1>5, <1>6, <1>7, <1>8, <1>9, <1>10, <1>11,
     <1>12, <1>13, <1>14, <1>15, <1>16, <1>17, <1>18, <1>19, <1>20, <1>21,
     <1>22, <1>23, <1>24, <1>25, <1>26, <1>27, <1>28, <1>29, <1>30, <1>31
  DEF Next, Recover, CallerStep, WorkerStep, GuardianStep, GatesClose

\* What a step may do to the status.json of a job j.
StatusMove(j) ==
  \/ /\ status[j] = "absent" /\ status' = [status EXCEPT ![j] = "unpublished"]
     /\ \A k \in Jobs : SameKey(j, k) => status[k] = "absent"
  \/ status[j] = "unpublished" /\ status' = [status EXCEPT ![j] = "queued"]
  \/ /\ status[j] = "queued" /\ status' = [status EXCEPT ![j] = "running"]
     /\ \A k \in Jobs : k # j /\ Conflicts(j, k) => status[k] # "running"
  \/ /\ Open(j) /\ (WorkerSeen(j) => worker[j] = "written")
     /\ \E s \in Terminal : status' = [status EXCEPT ![j] = s]

\* Every step leaves all status files alone, or makes one of these moves for one job:
\* the nine writers of status.json do no more than the claim ledger allows.
LEMMA StatusMoves ==
  IInv /\ [Next]_vars => UNCHANGED status \/ \E j \in Jobs : StatusMove(j)
<1> DEFINE Goal == UNCHANGED status \/ \E j \in Jobs : StatusMove(j)
<1> SUFFICES ASSUME IInv, [Next]_vars PROVE Goal
  OBVIOUS
<1> USE RequestAssumption, RegistryAssumption DEF IInv, TypeOK
<1>1. CASE RecoverPublish
  <2>1. target \in Jobs /\ Open(target) /\ result[target].state \in Terminal
    BY <1>1 DEF RecoverPublish, RecoverInv
  <2>2. ~WorkerSeen(target)
    BY <1>1 DEF RecoverPublish, RecoverInv
  <2>3. status' = [status EXCEPT ![target] = result[target].state]
    BY <1>1 DEF RecoverPublish
  <2>4. StatusMove(target)
    BY <2>1, <2>2, <2>3 DEF StatusMove
  <2> QED
    BY <2>1, <2>4
<1>2. ASSUME NEW j \in Jobs, Submit(j) PROVE Goal
  <2>1. StatusMove(j)
    BY <1>2 DEF Submit, StatusMove
  <2> QED
    BY <2>1
<1>3. ASSUME NEW j \in Jobs, PublishQueued(j) PROVE Goal
  <2>1. StatusMove(j)
    BY <1>3 DEF PublishQueued, StatusMove
  <2> QED
    BY <2>1
<1>4. ASSUME NEW j \in Jobs, LaunchErrorPublish(j) PROVE Goal
  <2>1. status[j] = "queued" /\ Over(j)
    BY <1>4 DEF LaunchErrorPublish, StartInv
  <2>2. ~WorkerSeen(j)
    BY <1>4, <2>1 DEF LaunchErrorPublish, StartInv, Over, WorkerSeen, WorkerAlive
  <2>3. status' = [status EXCEPT ![j] = "failed"]
    BY <1>4 DEF LaunchErrorPublish
  <2>4. StatusMove(j)
    BY <2>1, <2>2, <2>3 DEF StatusMove, Open, Terminal
  <2> QED
    BY <2>4
<1>5. ASSUME NEW j \in Jobs, WorkerReady(j) PROVE Goal
  <2>1. status[j] = "queued" /\ status' = [status EXCEPT ![j] = "queued"]
    BY <1>5 DEF WorkerReady, Goes, StatusInv, Queueing
  <2> QED
    BY <2>1
<1>6. ASSUME NEW j \in Jobs, Heartbeat(j) PROVE Goal
  <2>1. CASE worker[j] = "waiting"
    <3>1. status[j] = "queued" /\ status' = [status EXCEPT ![j] = "queued"]
      BY <1>6, <2>1 DEF Heartbeat, StatusInv, Queueing
    <3> QED
      BY <3>1
  <2>2. CASE worker[j] = "pumping"
    <3>1. status[j] = "running" /\ status' = [status EXCEPT ![j] = "running"]
      BY <1>6, <2>2 DEF Heartbeat, StatusInv, Holding
    <3> QED
      BY <3>1
  <2> QED
    BY <1>6, <2>1, <2>2 DEF Heartbeat
<1>7. ASSUME NEW j \in Jobs, Acquire(j) PROVE Goal
  <2>1. status[j] = "queued"
    BY <1>7 DEF Acquire, LockInv, StatusInv, Queueing
  <2>2. \A k \in Jobs : k # j /\ Conflicts(j, k) => status[k] # "running"
    BY <1>7 DEF Acquire, ScanInv
  <2>3. StatusMove(j)
    BY <1>7, <2>1, <2>2 DEF Acquire, StatusMove
  <2> QED
    BY <2>3
<1>8. ASSUME NEW j \in Jobs, PublishTerminal(j) PROVE Goal
  <2>1. worker[j] = "written" /\ Open(j) /\ outcome[j] \in Terminal
    BY <1>8 DEF PublishTerminal, Goes, StatusInv, Finishing
  <2>2. StatusMove(j)
    BY <1>8, <2>1 DEF PublishTerminal, StatusMove
  <2> QED
    BY <2>2
<1>9. ASSUME NEW j \in Jobs, GuardianPublishes(j) PROVE Goal
  <2>1. ~WorkerSeen(j)
    BY <1>9 DEF GuardianPublishes, Moves, StatusInv, WorkerSeen, WorkerAlive
  <2>2. Open(j) /\ result[j].state \in Terminal
    BY <1>9 DEF GuardianPublishes, Moves, RecoverInv
  <2>3. StatusMove(j)
    BY <1>9, <2>1, <2>2 DEF GuardianPublishes, StatusMove
  <2> QED
    BY <2>3
<1>10. CASE UNCHANGED vars
  BY <1>10 DEF vars, fileVars
<1>11. CASE \/ RecoverRead
         \/ RecoverYoung
         \/ RecoverProbe
         \/ RecoverStop
         \/ RecoverStopRefused
         \/ RecoverFinish
         \/ PollReturns
         \/ CancelReturns
         \/ KillCaller
  BY <1>11
  DEF RecoverRead, RecoverYoung, RecoverProbe, RecoverStop,
     RecoverStopRefused, RecoverFinish, PollReturns, CancelReturns,
     KillCaller, fileVars
<1>12. ASSUME NEW j \in Jobs,
         SpawnWorker(j) \/ RecordWorker(j) \/ OpenGate(j) \/ LaunchError(j) \/
         WorkerGateCloses(j) \/ Poll(j) \/ CancelRequest(j) \/ WorkerBegins(j) \/
         StartupFails(j) \/ Interrupt(j) \/ Asks(j) \/ ScanBegins(j) \/
         ScanRefuses(j) \/ ScanPicks(j) \/ ScanJudges(j) \/ ScanBlocked(j) \/
         PreparationFails(j) \/ Prepared(j) \/ SpawnRoot(j) \/ RecordRoot(j) \/
         ReleaseRoot(j) \/ LaunchFails(j) \/ RootGateCloses(j) \/ RootExits(j) \/
         Completes(j) \/ StopRoot(j) \/ StopRootRefused(j) \/ LeavePending(j) \/
         WriteResult(j) \/ KillWorker(j) \/ GuardianReports(j) \/ GuardianLooks(j) \/
         GuardianJudges(j) \/ GuardianStops(j) \/ GuardianStopRefused(j) \/
         GuardianFinishes(j) \/ KillGuardian(j)
       PROVE  Goal
  BY <1>12
  DEF SpawnWorker, RecordWorker, OpenGate, LaunchError, WorkerGateCloses,
     Poll, CancelRequest, WorkerBegins, StartupFails, Interrupt, Asks,
     ScanBegins, ScanRefuses, ScanPicks, ScanJudges, ScanBlocked,
     PreparationFails, Prepared, SpawnRoot, RecordRoot, ReleaseRoot,
     LaunchFails, RootGateCloses, RootExits, Completes, StopRoot,
     StopRootRefused, LeavePending, WriteResult, KillWorker, GuardianReports,
     GuardianLooks, GuardianJudges, GuardianStops, GuardianStopRefused,
     GuardianFinishes, KillGuardian, fileVars
<1> QED
  BY <1>1, <1>2, <1>3, <1>4, <1>5, <1>6, <1>7, <1>8, <1>9, <1>10, <1>11, <1>12
  DEF Next, Recover, CallerStep, WorkerStep, GuardianStep, GatesClose

\* RunningExclusive is kept: a step makes at most one job running, beside no conflicting one.
LEMMA RunningExclusiveStep == IInv /\ [Next]_vars => RunningExclusive'
<1> SUFFICES ASSUME IInv, [Next]_vars PROVE RunningExclusive'
  OBVIOUS
<1> USE DEF IInv, TypeOK
<1>1. CASE UNCHANGED status
  BY <1>1 DEF RunningExclusive
<1>2. ASSUME NEW j \in Jobs, StatusMove(j) PROVE RunningExclusive'
  <2>1. CASE status' = [status EXCEPT ![j] = "running"]
    <3>1. \A k \in Jobs : k # j /\ Conflicts(j, k) => status[k] # "running"
      BY <1>2, <2>1 DEF StatusMove, Terminal
    <3> QED
      BY <2>1, <3>1, ConflictsSym DEF RunningExclusive
  <2>2. CASE \E s : s # "running" /\ status' = [status EXCEPT ![j] = s]
    BY <2>2 DEF RunningExclusive
  <2> QED
    BY <1>2, <2>1, <2>2 DEF StatusMove, Terminal
<1> QED
  BY <1>1, <1>2, StatusMoves

\* IInv is inductive.
LEMMA InvStep == IInv /\ [Next]_vars => IInv'
  BY TypeOKStep, LockInvStep, StatusInvStep, StartInvStep, RecoverInvStep, ScanInvStep,
     RunningExclusiveStep
  DEF IInv

\* The invariant holds of every behaviour, for every request, fault bound and stale view.
THEOREM Invariant == Spec => []IInv
  BY InvInit, InvStep, PTL DEF Spec

-----------------------------------------------------------------------------
(* What the registry promises *)

\* Every file, process and lock stays in one of its named phases.
THEOREM TypeCorrect == Spec => []TypeOK
<1>1. IInv => TypeOK
  BY DEF IInv
<1> QED
  BY <1>1, Invariant, PTL

\* Conflicting jobs are never both recorded as running, whatever the claims, the clocks
\* and the crashes: Worker.acquire decides under registry.lock.
THEOREM Exclusive == Spec => []RunningExclusive
<1>1. IInv => RunningExclusive
  BY DEF IInv
<1> QED
  BY <1>1, Invariant, PTL

\* No writer of status.json ever revives or rewrites a job that has ended.
THEOREM TerminalIsFinal == Spec => TerminalFinal
<1> DEFINE Kept == \A j \in Jobs : status[j] \in Terminal => status'[j] = status[j]
<1>1. IInv /\ [Next]_vars => [Kept]_vars
  <2> SUFFICES ASSUME IInv, [Next]_vars PROVE Kept
    OBVIOUS
  <2>1. CASE UNCHANGED status
    BY <2>1
  <2>2. ASSUME NEW j \in Jobs, StatusMove(j) PROVE Kept
    <3>1. status[j] \notin Terminal
      BY <2>2 DEF StatusMove, Open, Terminal
    <3>2. \E s : status' = [status EXCEPT ![j] = s]
      BY <2>2 DEF StatusMove
    <3> QED
      BY <3>1, <3>2 DEF IInv, TypeOK
  <2> QED
    BY <2>1, <2>2, StatusMoves
<1> QED
  BY <1>1, Invariant, PTL DEF Spec, TerminalFinal

\* recover, the guardian and a failing start never end a job whose worker is alive.
THEOREM LiveJobsAreKept == Spec => LiveJobsKept
<1> DEFINE Kept == \A j \in Jobs : WorkerSeen(j) /\ Open(j) /\ status'[j] \in Terminal
                                     => worker[j] = "written"
<1>1. IInv /\ [Next]_vars => [Kept]_vars
  <2> SUFFICES ASSUME IInv, [Next]_vars PROVE Kept
    OBVIOUS
  <2>1. \A j \in Jobs : Open(j) => status[j] \notin Terminal
    BY DEF Open, Terminal
  <2>2. CASE UNCHANGED status
    BY <2>1, <2>2
  <2>3. ASSUME NEW j \in Jobs, StatusMove(j), NEW k \in Jobs,
               WorkerSeen(k), Open(k), status'[k] \in Terminal
        PROVE  worker[k] = "written"
    <3>1. k = j
      BY <2>1, <2>3 DEF StatusMove, IInv, TypeOK
    <3>2. status[j] \in {"queued", "running"}
      BY <2>3, <3>1 DEF Open
    <3>3. CASE status' = [status EXCEPT ![j] = "running"]
      BY <2>3, <3>1, <3>3 DEF IInv, TypeOK, Terminal
    <3>4. CASE WorkerSeen(j) => worker[j] = "written"
      BY <2>3, <3>1, <3>4
    <3> QED
      BY <2>3, <3>2, <3>3, <3>4 DEF StatusMove
  <2> QED
    BY <2>2, <2>3, StatusMoves
<1> QED
  BY <1>1, Invariant, PTL DEF Spec, LiveJobsKept

-----------------------------------------------------------------------------
(* Refinement *)

\* The registry implements the claim ledger: a status move is a ledger step or a stutter.
THEOREM LedgerRefinement == Spec => LedgerRefined
<1> USE DEF Ledger!LedgerSpec, LedgerRefined
<1>1. Init => Ledger!LedgerInit
  BY DEF Init, Ledger!LedgerInit, ClaimOf, Published
<1>2. IInv /\ [Next]_vars => [Ledger!LedgerNext]_ClaimOf
  <2> SUFFICES ASSUME IInv, [Next]_vars PROVE [Ledger!LedgerNext]_ClaimOf
    OBVIOUS
  <2>1. CASE UNCHANGED status
    BY <2>1 DEF ClaimOf, Published
  <2>2. ASSUME NEW j \in Jobs, StatusMove(j) PROVE [Ledger!LedgerNext]_ClaimOf
    <3> USE DEF IInv, TypeOK, ClaimOf, Published
    <3>1. CASE status[j] = "absent" /\ status' = [status EXCEPT ![j] = "unpublished"]
      <4>1. UNCHANGED ClaimOf
        BY <3>1
      <4> QED
        BY <4>1
    <3>2. CASE status[j] = "unpublished" /\ status' = [status EXCEPT ![j] = "queued"]
      <4>1. Ledger!Ask(j)
        BY <3>2 DEF Ledger!Ask
      <4> QED
        BY <4>1 DEF Ledger!LedgerNext
    <3>3. CASE /\ status[j] = "queued" /\ status' = [status EXCEPT ![j] = "running"]
               /\ \A k \in Jobs : k # j /\ Conflicts(j, k) => status[k] # "running"
      <4>1. \A k \in Jobs : ClaimOf[k] = "held" => status[k] = "running"
        OBVIOUS
      <4>2. ClaimOf[j] = "waiting" /\ ClaimOf' = [ClaimOf EXCEPT ![j] = "held"]
        BY <3>3
      <4>3. \A k \in Jobs : Ledger!Conflicts(j, k) => Conflicts(j, k)
        BY DEF Conflicts, ConflictingRequests, SameSession, Serializes, Overlap, Mode,
               Ledger!Conflicts, Ledger!ConflictingRequests, Ledger!SameSession,
               Ledger!Serializes, Ledger!Overlap, Ledger!Mode
      <4>4. Ledger!Grant(j)
        BY <3>3, <4>1, <4>2, <4>3 DEF Ledger!Grant
      <4> QED
        BY <4>4 DEF Ledger!LedgerNext
    <3>4. ASSUME Open(j), NEW s \in Terminal, status' = [status EXCEPT ![j] = s]
          PROVE  Ledger!Release(j)
      <4>1. ClaimOf[j] \in {"waiting", "held"}
        BY <3>4 DEF Open
      <4>2. ClaimOf' = [ClaimOf EXCEPT ![j] = "released"]
        BY <3>4 DEF Terminal
      <4> QED
        BY <4>1, <4>2 DEF Ledger!Release
    <3> QED
      BY <2>2, <3>1, <3>2, <3>3, <3>4 DEF StatusMove, Ledger!LedgerNext
  <2> QED
    BY <2>1, <2>2, StatusMoves
<1> QED
  BY <1>1, <1>2, Invariant, PTL DEF Spec

-----------------------------------------------------------------------------
(* Native programs, when the guardian's view is current *)


\* With a current view, supervisors stop every native program before they publish its end.
LEMMA RootInvStep ==
  ASSUME StaleViews = FALSE
  PROVE  IInv /\ RootInv /\ [Next]_vars => RootInv'
<1> SUFFICES ASSUME IInv, RootInv, [Next]_vars PROVE RootInv'
  OBVIOUS
<1> USE RequestAssumption, RegistryAssumption
     DEF IInv, TypeOK, RootInv, RootsOwned, Published, Terminal, Nobody,
     Caller
<1>1. CASE RecoverRead
  BY <1>1 DEF RecoverRead, AtStep, fileVars, workVars, guardVars, rootVars
<1>2. CASE RecoverYoung
  BY <1>2 DEF RecoverYoung, AtStep, fileVars, workVars, guardVars, rootVars
<1>3. CASE RecoverProbe
  BY <1>3
  DEF RecoverProbe, AtStep, WorkerAlive, GuardianAlive, WorkerSeen,
     GuardianSeen, fileVars, workVars, guardVars, rootVars
<1>4. CASE RecoverStop
  BY <1>4 DEF RecoverStop, AtStep, Stopped, fileVars, workVars, guardVars
<1>5. CASE RecoverStopRefused
  BY <1>5
  DEF RecoverStopRefused, AtStep, fileVars, workVars, guardVars, rootVars
<1>6. CASE RecoverFinish
  BY <1>6
  DEF RecoverFinish, AtStep, CleanupState, workVars, guardVars, rootVars
<1>7. CASE RecoverPublish
  BY <1>7
  DEF RecoverPublish, AtStep, workVars, guardVars, rootVars, RecoverInv,
     WorkerSeen, WorkerAlive, Open
<1>8. CASE PollReturns
  BY <1>8 DEF PollReturns, Unlock, fileVars, workVars, guardVars, rootVars
<1>9. CASE CancelReturns
  BY <1>9 DEF CancelReturns, Unlock, workVars, guardVars, rootVars
<1>10. CASE KillCaller
  BY <1>10
  DEF KillCaller, Unlock, CompletionReleased, fileVars, workVars, guardVars,
     rootVars
<1>11. ASSUME NEW j \in Jobs, Submit(j) PROVE RootInv'
  BY <1>11 DEF Submit, Lock, workVars, guardVars, rootVars
<1>12. ASSUME NEW j \in Jobs, PublishQueued(j) PROVE RootInv'
  BY <1>12
  DEF PublishQueued, Starting, workVars, guardVars, rootVars, lockVars
<1>13. ASSUME NEW j \in Jobs, SpawnWorker(j) PROVE RootInv'
  BY <1>13
  DEF SpawnWorker, Starting, fileVars, guardVars, rootVars, lockVars
<1>14. ASSUME NEW j \in Jobs, OpenGate(j) PROVE RootInv'
  BY <1>14 DEF OpenGate, Unlock, Starting, fileVars, guardVars, rootVars
<1>15. ASSUME NEW j \in Jobs, LaunchError(j) PROVE RootInv'
  BY <1>15
  DEF LaunchError, AtStep, Starting, guardVars, rootVars, StatusInv, Open,
     Over, Holding, Queueing, Finishing, StartInv, LockInv
<1>16. ASSUME NEW j \in Jobs, LaunchErrorPublish(j) PROVE RootInv'
  BY <1>16
  DEF LaunchErrorPublish, Unlock, workVars, guardVars, rootVars, StartInv,
     Over
<1>17. ASSUME NEW j \in Jobs, WorkerGateCloses(j) PROVE RootInv'
  BY <1>17 DEF WorkerGateCloses, fileVars, guardVars, rootVars, lockVars
<1>18. ASSUME NEW j \in Jobs, Poll(j) PROVE RootInv'
  BY <1>18 DEF Poll, Lock, Open, fileVars, workVars, guardVars, rootVars
<1>19. ASSUME NEW j \in Jobs, CancelRequest(j) PROVE RootInv'
  BY <1>19
  DEF CancelRequest, Lock, Open, fileVars, workVars, guardVars, rootVars
<1>20. ASSUME NEW j \in Jobs, WorkerBegins(j) PROVE RootInv'
  BY <1>20 DEF WorkerBegins, fileVars, rootVars, lockVars
<1>21. ASSUME NEW j \in Jobs, StartupFails(j) PROVE RootInv'
  BY <1>21
  DEF StartupFails, Closes, Failures, fileVars, guardVars, rootVars, lockVars
<1>22. ASSUME NEW j \in Jobs, WorkerReady(j) PROVE RootInv'
  BY <1>22
  DEF WorkerReady, Goes, GuardianAlive, GuardianSeen, guardVars, rootVars,
     lockVars, StatusInv, Open, Over, Holding, Queueing, Finishing
<1>23. ASSUME NEW j \in Jobs, Heartbeat(j) PROVE RootInv'
  BY <1>23
  DEF Heartbeat, workVars, guardVars, rootVars, lockVars, StatusInv, Open,
     Over, Holding, Queueing, Finishing
<1>24. ASSUME NEW j \in Jobs, Interrupt(j) PROVE RootInv'
  BY <1>24
  DEF Interrupt, Closes, Interruptions, fileVars, guardVars, rootVars,
     lockVars
<1>25. ASSUME NEW j \in Jobs, Asks(j) PROVE RootInv'
  BY <1>25 DEF Asks, Goes, fileVars, guardVars, rootVars, lockVars
<1>26. ASSUME NEW j \in Jobs, ScanBegins(j) PROVE RootInv'
  BY <1>26 DEF ScanBegins, Closes, fileVars, guardVars, rootVars, lockVars
<1>27. ASSUME NEW j \in Jobs, ScanRefuses(j) PROVE RootInv'
  BY <1>27
  DEF ScanRefuses, Unlock, Closes, Failures, fileVars, guardVars, rootVars
<1>28. ASSUME NEW j \in Jobs, ScanPicks(j) PROVE RootInv'
  BY <1>28 DEF ScanPicks, Open, fileVars, workVars, guardVars, rootVars
<1>29. ASSUME NEW j \in Jobs, ScanJudges(j) PROVE RootInv'
  BY <1>29 DEF ScanJudges, fileVars, workVars, guardVars, rootVars
<1>30. ASSUME NEW j \in Jobs, ScanBlocked(j) PROVE RootInv'
  BY <1>30 DEF ScanBlocked, Unlock, fileVars, guardVars, rootVars
<1>31. ASSUME NEW j \in Jobs, Acquire(j) PROVE RootInv'
  BY <1>31 DEF Acquire, Unlock, guardVars, rootVars
<1>32. ASSUME NEW j \in Jobs, PreparationFails(j) PROVE RootInv'
  BY <1>32
  DEF PreparationFails, Closes, Failures, fileVars, guardVars, rootVars,
     lockVars
<1>33. ASSUME NEW j \in Jobs, Prepared(j) PROVE RootInv'
  BY <1>33 DEF Prepared, Goes, fileVars, guardVars, rootVars, lockVars
<1>34. ASSUME NEW j \in Jobs, SpawnRoot(j) PROVE RootInv'
  BY <1>34
  DEF SpawnRoot, Goes, fileVars, guardVars, lockVars, StatusInv, Open, Over,
     Holding, Queueing, Finishing
<1>35. ASSUME NEW j \in Jobs, RecordRoot(j) PROVE RootInv'
  <2>1. guardian[j] \notin {"looked", "reap"}
    BY <1>35, StaleViews = FALSE DEF RecordRoot, Goes, StatusInv
  <2>2. /\ worker' = [worker EXCEPT ![j] = "recorded"]
        /\ rootFile' = [rootFile EXCEPT ![j] = TRUE]
        /\ UNCHANGED <<root, status, view, guardian, target, step>>
    BY <1>35 DEF RecordRoot, Goes, fileVars, guardVars, lockVars
  <2>3. RootsOwned'
    BY <2>2
  <2>4. \A k \in Jobs : (worker'[k] = "recorded" => rootFile'[k])
                      /\ (worker'[k] \in {"cleaned", "written"} => root'[k] # "native")
                      /\ (guardian'[k] \in {"looked", "reap"} => view'[k] = rootFile'[k])
    <3>1. TAKE k \in Jobs
    <3>2. CASE k = j
      <4>1. worker'[j] = "recorded" /\ guardian'[j] \notin {"looked", "reap"}
        BY <2>1, <2>2
      <4>2. rootFile \in [Jobs -> BOOLEAN]
        OBVIOUS
      <4>3. rootFile'[j]
        BY <2>2, <4>2, FlagSet
      <4> QED
        BY <3>2, <4>1, <4>3
    <3>3. CASE k # j
      BY <2>2, <3>3
    <3> QED
      BY <3>2, <3>3
  <2> QED
    BY <2>2, <2>3, <2>4
<1>36. ASSUME NEW j \in Jobs, ReleaseRoot(j) PROVE RootInv'
  BY <1>36
  DEF ReleaseRoot, Goes, fileVars, guardVars, lockVars, StatusInv, Open, Over,
     Holding, Queueing, Finishing, RecoverInv, WorkerSeen, WorkerAlive
<1>37. ASSUME NEW j \in Jobs, LaunchFails(j) PROVE RootInv'
  BY <1>37
  DEF LaunchFails, Closes, Failures, fileVars, guardVars, rootVars, lockVars
<1>38. ASSUME NEW j \in Jobs, RootGateCloses(j) PROVE RootInv'
  BY <1>38 DEF RootGateCloses, fileVars, workVars, guardVars, lockVars
<1>39. ASSUME NEW j \in Jobs, RootExits(j) PROVE RootInv'
  BY <1>39 DEF RootExits, fileVars, workVars, guardVars, lockVars
<1>40. ASSUME NEW j \in Jobs, Completes(j) PROVE RootInv'
  BY <1>40 DEF Completes, Closes, fileVars, guardVars, rootVars, lockVars
<1>41. ASSUME NEW j \in Jobs, StopRoot(j) PROVE RootInv'
  BY <1>41 DEF StopRoot, Stopped, Goes, fileVars, guardVars, lockVars
<1>42. ASSUME NEW j \in Jobs, StopRootRefused(j) PROVE RootInv'
  BY <1>42
  DEF StopRootRefused, Goes, fileVars, guardVars, rootVars, lockVars
<1>43. ASSUME NEW j \in Jobs, LeavePending(j) PROVE RootInv'
  BY <1>43 DEF LeavePending, Goes, guardVars, rootVars, lockVars
<1>44. ASSUME NEW j \in Jobs, WriteResult(j) PROVE RootInv'
  BY <1>44 DEF WriteResult, Goes, guardVars, rootVars, lockVars
<1>45. ASSUME NEW j \in Jobs, PublishTerminal(j) PROVE RootInv'
  <2>1. root[j] # "native" /\ Published(j) /\ outcome[j] \in Terminal
    BY <1>45 DEF PublishTerminal, Goes, StatusInv, Finishing, Open
  <2>2. /\ worker' = [worker EXCEPT ![j] = "dead"]
        /\ status' = [status EXCEPT ![j] = outcome[j]]
        /\ UNCHANGED <<root, rootFile, view, guardian, target, step>>
    BY <1>45 DEF PublishTerminal, Goes, guardVars, rootVars, lockVars
  <2> QED
    BY <2>1, <2>2
<1>46. ASSUME NEW j \in Jobs, KillWorker(j) PROVE RootInv'
  BY <1>46
  DEF KillWorker, Unlock, CompletionReleased, WorkerAlive, fileVars,
     guardVars, rootVars, lockVars
<1>47. ASSUME NEW j \in Jobs, GuardianReports(j) PROVE RootInv'
  BY <1>47
  DEF GuardianReports, Moves, fileVars, workVars, rootVars, lockVars
<1>48. ASSUME NEW j \in Jobs, GuardianLooks(j) PROVE RootInv'
  BY <1>48 DEF GuardianLooks, Moves, fileVars, workVars, rootVars, lockVars
<1>49. ASSUME NEW j \in Jobs, GuardianJudges(j) PROVE RootInv'
  BY <1>49
  DEF GuardianJudges, Stopped, Moves, WorkerAlive, fileVars, workVars,
     lockVars
<1>50. ASSUME NEW j \in Jobs, GuardianStops(j) PROVE RootInv'
  BY <1>50 DEF GuardianStops, Stopped, Moves, fileVars, workVars, lockVars
<1>51. ASSUME NEW j \in Jobs, GuardianStopRefused(j) PROVE RootInv'
  BY <1>51
  DEF GuardianStopRefused, Moves, fileVars, workVars, rootVars, lockVars
<1>52. ASSUME NEW j \in Jobs, GuardianFinishes(j) PROVE RootInv'
  BY <1>52
  DEF GuardianFinishes, Moves, CleanupState, workVars, rootVars, lockVars
<1>53. ASSUME NEW j \in Jobs, GuardianPublishes(j) PROVE RootInv'
  BY <1>53
  DEF GuardianPublishes, Moves, workVars, rootVars, lockVars, StatusInv, Open,
     Over, Holding, Queueing, Finishing, LockInv, StartInv, RecoverInv,
     WorkerSeen, WorkerAlive, ScanInv
<1>54. ASSUME NEW j \in Jobs, KillGuardian(j) PROVE RootInv'
  BY <1>54
  DEF KillGuardian, GuardianAlive, fileVars, workVars, rootVars, lockVars
<1>55. CASE UNCHANGED <<root, rootFile, status, worker, view, guardian, target, step>>
  BY <1>55
<1>56. CASE UNCHANGED vars
  BY <1>55, <1>56
  DEF vars, fileVars, workVars, guardVars, rootVars, lockVars
<1>57. ASSUME NEW j \in Jobs, RecordWorker(j)
     PROVE  RootInv'
  BY <1>55, <1>57 DEF RecordWorker, fileVars, guardVars, rootVars, lockVars
<1> QED
  BY <1>1, <1>2, <1>3, <1>4, <1>5, <1>6, <1>7, <1>8, <1>9, <1>10, <1>11,
     <1>12, <1>13, <1>14, <1>15, <1>16, <1>17, <1>18, <1>19, <1>20, <1>21,
     <1>22, <1>23, <1>24, <1>25, <1>26, <1>27, <1>28, <1>29, <1>30, <1>31,
     <1>32, <1>33, <1>34, <1>35, <1>36, <1>37, <1>38, <1>39, <1>40, <1>41,
     <1>42, <1>43, <1>44, <1>45, <1>46, <1>47, <1>48, <1>49, <1>50, <1>51,
     <1>52, <1>53, <1>54, <1>55, <1>56, <1>57
  DEF Next, Recover, CallerStep, WorkerStep, GuardianStep, GatesClose


\* RootInv is inductive together with IInv when no root is recorded behind a reading.
LEMMA RootInvariant ==
  ASSUME StaleViews = FALSE
  PROVE  Spec => []RootInv
<1>1. Init => RootInv
  BY DEF Init, RootInv, RootsOwned, Published
<1>2. IInv /\ RootInv /\ [Next]_vars => RootInv'
  BY RootInvStep, StaleViews = FALSE
<1> QED
  BY <1>1, <1>2, Invariant, PTL DEF Spec

\* A native program only executes under a running record whose provider.json names it.
THEOREM RootsAreOwned ==
  ASSUME StaleViews = FALSE
  PROVE  Spec => []RootsOwned
<1>1. RootInv => RootsOwned
  BY DEF RootInv
<1> QED
  BY <1>1, RootInvariant, StaleViews = FALSE, PTL

\* Conflicting jobs never execute native programs together, however many processes are
\* killed, provided the guardian judges a job by a current provider.json.
THEOREM NativeSafe ==
  ASSUME StaleViews = FALSE
  PROVE  Spec => []NativeExclusive
<1>1. RootInv /\ IInv => NativeExclusive
  BY DEF RootInv, IInv, RootsOwned, RunningExclusive, NativeExclusive
<1> QED
  BY <1>1, RootInvariant, Invariant, StaleViews = FALSE, PTL

-----------------------------------------------------------------------------
(* Result and status agree *)

\* What is about to be published is in result.json: by the worker that has written
\* it, by the guardian and recover at their last step, by a caller whose launch failed.
AgreeInv ==
  /\ ResultAgrees
  /\ \A j \in Jobs : worker[j] = "written" => result[j] = [pending |-> FALSE, state |-> outcome[j]]
  /\ \A j \in Jobs : guardian[j] = "publish" => ~result[j].pending
  /\ target # NoJob /\ step = "publish" => ~result[target].pending
  /\ op = "start" /\ step = "publish" => result[subject] = [pending |-> FALSE, state |-> "failed"]

\* A step that writes neither a result nor a terminal state, and brings nobody
\* closer to publishing one, keeps them in agreement.
LEMMA AgreeKept ==
  ASSUME AgreeInv, UNCHANGED result,
         \A j \in Jobs : status'[j] \in Terminal => status'[j] = status[j],
         \A j \in Jobs : worker'[j] = "written" => worker[j] = "written" /\ outcome'[j] = outcome[j],
         \A j \in Jobs : guardian'[j] = "publish" => guardian[j] = "publish",
         step' = "publish" => step = "publish" /\ UNCHANGED <<target, subject>> /\ (op' = "start" => op = "start")
  PROVE  AgreeInv'
BY DEF AgreeInv, ResultAgrees

\* What finish_cleanup publishes is a terminal state.
LEMMA CleanupStates ==
  ASSUME IInv, NEW j \in Jobs
  PROVE  CleanupState(j) \in Terminal
BY DEF IInv, StatusInv, CleanupState, Terminal

\* A worker that is finishing is the only one who writes the end of its job.
LEMMA FinishesAlone ==
  ASSUME IInv, NEW j \in Jobs, worker[j] \in Finishing
  PROVE  /\ status[j] \notin Terminal /\ outcome[j] \in Terminal
         /\ guardian[j] # "publish"
         /\ ~(target = j /\ step = "publish")
         /\ ~(op = "start" /\ subject = j)
<1>1. Open(j) /\ outcome[j] \in Terminal /\ guardian[j] # "publish" /\ launchFile[j]
  BY DEF IInv, StatusInv, Over, Finishing
<1>2. WorkerSeen(j)
  BY <1>1 DEF WorkerSeen, WorkerAlive, Finishing
<1>3. ~(target = j /\ step = "publish")
  BY <1>2, RequestAssumption DEF IInv, RecoverInv
<1>4. ~(op = "start" /\ subject = j)
  BY DEF IInv, StartInv, Over, Finishing
<1> QED
  BY <1>1, <1>3, <1>4 DEF Open, Terminal

\* The shapes of the variables these proofs are about.
Shapes ==
  /\ status \in [Jobs -> Statuses] /\ result \in [Jobs -> Results]
  /\ cancelFile \in [Jobs -> BOOLEAN]
  /\ worker \in [Jobs -> WorkerPoints] /\ outcome \in [Jobs -> Terminal \cup {"none"}]
  /\ guardian \in [Jobs -> GuardianPoints]
  /\ root \in [Jobs -> RootPoints] /\ rootFile \in [Jobs -> BOOLEAN]
  /\ target \in Jobs \cup {NoJob}
  /\ op = "start" => subject \in Jobs

LEMMA ShapesFollow == IInv => Shapes
BY DEF IInv, TypeOK, LockInv, Shapes

\* A writer of result.json has the job to itself, and finds it open.
LEMMA ResultRewritten ==
  ASSUME Shapes, AgreeInv, NEW j \in Jobs, NEW r \in Results,
         result' = [result EXCEPT ![j] = r], UNCHANGED status, status[j] \notin Terminal,
         \A k \in Jobs : worker'[k] = "written" =>
             \/ k # j /\ worker[k] = "written" /\ outcome'[k] = outcome[k]
             \/ k = j /\ r = [pending |-> FALSE, state |-> outcome'[j]],
         \A k \in Jobs : guardian'[k] = "publish" =>
             \/ k # j /\ guardian[k] = "publish"
             \/ k = j /\ ~r.pending,
         target' # NoJob /\ step' = "publish" =>
             \/ target' = j /\ ~r.pending
             \/ target' # j /\ target' = target /\ step = "publish",
         op' = "start" /\ step' = "publish" =>
             \/ subject' = j /\ r = [pending |-> FALSE, state |-> "failed"]
             \/ subject' # j /\ subject' = subject /\ op = "start" /\ step = "publish"
  PROVE  AgreeInv'
<1>1. result \in [Jobs -> Results]
  BY DEF Shapes
<1>2. result'[j] = r /\ \A k \in Jobs \ {j} : result'[k] = result[k]
  BY <1>1
<1>3. ResultAgrees'
  BY <1>2 DEF AgreeInv, ResultAgrees
<1>4. \A k \in Jobs : worker'[k] = "written" => result'[k] = [pending |-> FALSE, state |-> outcome'[k]]
  BY <1>2 DEF AgreeInv
<1>5. \A k \in Jobs : guardian'[k] = "publish" => ~result'[k].pending
  BY <1>2 DEF AgreeInv
<1>6. target' # NoJob /\ step' = "publish" => ~result'[target'].pending
  BY <1>2 DEF AgreeInv, Shapes
<1>7. op' = "start" /\ step' = "publish" => result'[subject'] = [pending |-> FALSE, state |-> "failed"]
  BY <1>2 DEF AgreeInv, Shapes
<1> QED
  BY <1>3, <1>4, <1>5, <1>6, <1>7 DEF AgreeInv

LEMMA AgreeInvStep == IInv /\ AgreeInv /\ [Next]_vars => AgreeInv'
<1> DEFINE Quiet ==
      /\ UNCHANGED result
      /\ \A j \in Jobs : status'[j] \in Terminal => status'[j] = status[j]
      /\ \A j \in Jobs : worker'[j] = "written" => worker[j] = "written" /\ outcome'[j] = outcome[j]
      /\ \A j \in Jobs : guardian'[j] = "publish" => guardian[j] = "publish"
      /\ step' = "publish" => step = "publish" /\ UNCHANGED <<target, subject>> /\ (op' = "start" => op = "start")
<1> SUFFICES ASSUME IInv, AgreeInv, [Next]_vars PROVE AgreeInv'
  OBVIOUS
<1>0. Shapes
  BY ShapesFollow
<1>1. Quiet => AgreeInv'
  BY AgreeKept
<1>2. CASE RecoverFinish
  <2>1. CASE status[target] \in Terminal
    BY <1>1, <1>2, <2>1 DEF RecoverFinish, AtStep, workVars, guardVars
  <2>2. CASE status[target] \notin Terminal
    <3> DEFINE r == [pending |-> FALSE, state |-> CleanupState(target)]
    <3>0. target \in Jobs
      BY <1>0, <1>2 DEF RecoverFinish, Shapes
    <3>1. r \in Results /\ ~r.pending
      BY <3>0, CleanupStates DEF Results
    <3>2. /\ target \in Jobs /\ step = "finish" /\ completion[target] = "free"
          /\ result' = [result EXCEPT ![target] = r] /\ step' = "publish"
          /\ UNCHANGED <<status, worker, outcome, guardian, target, op, subject>>
      BY <1>2, <2>2, <3>0 DEF RecoverFinish, AtStep, workVars, guardVars
    <3>3. worker[target] # "written" /\ guardian[target] # "publish" /\ op # "start"
      <4>1. ~WorkerSeen(target) /\ target # NoJob
        BY <3>2, RequestAssumption DEF IInv, RecoverInv
      <4>2. worker[target] \notin Finishing
        BY <3>0, <4>1 DEF IInv, StatusInv, Over, WorkerSeen, WorkerAlive, Finishing
      <4>3. guardian[target] # "publish"
        BY <3>2 DEF IInv, RecoverInv
      <4>4. op # "start"
        BY <4>1 DEF IInv, LockInv
      <4> QED
        BY <4>2, <4>3, <4>4 DEF Finishing
    <3> HIDE DEF r
    <3>4. /\ \A k \in Jobs : worker'[k] = "written" => k # target /\ worker[k] = "written" /\ outcome'[k] = outcome[k]
          /\ \A k \in Jobs : guardian'[k] = "publish" => k # target /\ guardian[k] = "publish"
      BY <3>2, <3>3
    <3> QED
      BY <1>0, <2>2, <3>1, <3>2, <3>3, <3>4, ResultRewritten
  <2> QED
    BY <2>1, <2>2
<1>3. CASE RecoverPublish
  <2>1. /\ target \in Jobs /\ step = "publish" /\ step' = "judge"
        /\ status' = [status EXCEPT ![target] = result[target].state]
        /\ UNCHANGED <<result, worker, outcome, guardian>>
    BY <1>0, <1>3 DEF RecoverPublish, AtStep, workVars, guardVars, Shapes
  <2>2. result[target] = [pending |-> FALSE, state |-> result[target].state]
    BY <1>0, <2>1, RequestAssumption DEF AgreeInv, Results, Shapes
  <2>3. ResultAgrees'
    BY <1>0, <2>1, <2>2 DEF AgreeInv, ResultAgrees, Shapes
  <2>4. /\ \A j \in Jobs : worker'[j] = "written" => result'[j] = [pending |-> FALSE, state |-> outcome'[j]]
        /\ \A j \in Jobs : guardian'[j] = "publish" => ~result'[j].pending
    BY <1>0, <2>1 DEF AgreeInv
  <2>5. step' # "publish"
    BY <2>1
  <2> QED
    BY <2>3, <2>4, <2>5 DEF AgreeInv
<1>4. ASSUME NEW j \in Jobs, LaunchError(j) PROVE AgreeInv'
  <2> DEFINE r == [pending |-> FALSE, state |-> "failed"]
  <2>1. r \in Results /\ ~r.pending /\ r = [pending |-> FALSE, state |-> "failed"]
    BY DEF Results, Terminal
  <2>2. /\ op = "start" /\ subject = j /\ step = "none" /\ status[j] = "queued"
        /\ worker' = [worker EXCEPT ![j] = IF @ = "gated" THEN "dead" ELSE @]
        /\ result' = [result EXCEPT ![j] = r]
        /\ UNCHANGED <<status, outcome, guardian, target, op, subject>>
    BY <1>4 DEF LaunchError, Starting, AtStep, guardVars
  <2>3. target = NoJob /\ guardian[j] = "none" /\ worker[j] # "written" /\ worker'[j] # "written"
    BY <1>0, <2>2 DEF IInv, LockInv, StartInv, Over, Shapes
  <2>4. \A k \in Jobs : worker'[k] = "written" => k # j /\ worker[k] = "written" /\ outcome'[k] = outcome[k]
    BY <1>0, <2>2, <2>3 DEF Shapes
  <2>5. status[j] \notin Terminal
    BY <2>2 DEF Terminal
  <2>6. result' = [result EXCEPT ![j] = r] /\ UNCHANGED status
    BY <2>2
  <2>7. /\ \A k \in Jobs : guardian'[k] = "publish" => k # j /\ guardian[k] = "publish"
        /\ target' = NoJob
        /\ subject' = j
    BY <2>2, <2>3
  <2> HIDE DEF r
  <2>8. /\ \A k \in Jobs : worker'[k] = "written" =>
            \/ k # j /\ worker[k] = "written" /\ outcome'[k] = outcome[k]
            \/ k = j /\ r = [pending |-> FALSE, state |-> outcome'[j]]
        /\ \A k \in Jobs : guardian'[k] = "publish" =>
            \/ k # j /\ guardian[k] = "publish"
            \/ k = j /\ ~r.pending
    BY <2>4, <2>7
  <2>9. /\ target' # NoJob /\ step' = "publish" =>
            \/ target' = j /\ ~r.pending
            \/ target' # j /\ target' = target /\ step = "publish"
        /\ op' = "start" /\ step' = "publish" =>
            \/ subject' = j /\ r = [pending |-> FALSE, state |-> "failed"]
            \/ subject' # j /\ subject' = subject /\ op = "start" /\ step = "publish"
    BY <2>1, <2>7
  <2> QED
    BY <1>0, <2>1, <2>5, <2>6, <2>8, <2>9, ResultRewritten
<1>5. ASSUME NEW j \in Jobs, LaunchErrorPublish(j) PROVE AgreeInv'
  <2>1. /\ op = "start" /\ subject = j /\ step = "publish" /\ step' = "none"
        /\ status' = [status EXCEPT ![j] = "failed"] /\ UNCHANGED <<result, worker, outcome, guardian>>
    BY <1>5 DEF LaunchErrorPublish, Unlock, workVars, guardVars
  <2> QED
    BY <1>0, <2>1 DEF AgreeInv, ResultAgrees, Shapes
<1>6. ASSUME NEW j \in Jobs, LeavePending(j) PROVE AgreeInv'
  <2> DEFINE r == [pending |-> TRUE, state |-> outcome[j]]
  <2>1. /\ worker[j] = "uncleaned" /\ worker' = [worker EXCEPT ![j] = "dead"]
        /\ result' = [result EXCEPT ![j] = r] /\ outcome' = [outcome EXCEPT ![j] = "none"]
        /\ UNCHANGED <<status, guardian, target, step, op, subject>>
    BY <1>6 DEF LeavePending, Goes, guardVars, lockVars
  <2>2. /\ status[j] \notin Terminal /\ r \in Results /\ guardian[j] # "publish"
        /\ ~(target = j /\ step = "publish") /\ ~(op = "start" /\ subject = j)
    BY <2>1, FinishesAlone DEF Finishing, Results
  <2>3. \A k \in Jobs : worker'[k] = "written" => k # j /\ worker[k] = "written" /\ outcome'[k] = outcome[k]
    BY <1>0, <2>1 DEF Shapes
  <2>5. /\ \A k \in Jobs : guardian'[k] = "publish" => k # j /\ guardian[k] = "publish"
        /\ target' # NoJob /\ step' = "publish" => target' # j /\ target' = target /\ step = "publish"
        /\ op' = "start" /\ step' = "publish" =>
             subject' # j /\ subject' = subject /\ op = "start" /\ step = "publish"
    BY <2>1, <2>2
  <2>6. result' = [result EXCEPT ![j] = r] /\ UNCHANGED status
    BY <2>1
  <2> HIDE DEF r
  <2> QED
    BY <1>0, <2>2, <2>3, <2>5, <2>6, ResultRewritten
<1>7. ASSUME NEW j \in Jobs, WriteResult(j) PROVE AgreeInv'
  <2> DEFINE r == [pending |-> FALSE, state |-> outcome[j]]
  <2>1. /\ worker[j] = "cleaned" /\ worker' = [worker EXCEPT ![j] = "written"]
        /\ result' = [result EXCEPT ![j] = r]
        /\ UNCHANGED <<status, outcome, guardian, target, step, op, subject>>
    BY <1>7 DEF WriteResult, Goes, guardVars, lockVars
  <2>2. /\ status[j] \notin Terminal /\ r \in Results /\ guardian[j] # "publish"
        /\ ~(target = j /\ step = "publish") /\ ~(op = "start" /\ subject = j)
    BY <2>1, FinishesAlone DEF Finishing, Results
  <2>3. r = [pending |-> FALSE, state |-> outcome'[j]] /\ ~r.pending
    BY <2>1
  <2>4. \A k \in Jobs : worker'[k] = "written" =>
             \/ k # j /\ worker[k] = "written" /\ outcome'[k] = outcome[k]
             \/ k = j /\ r = [pending |-> FALSE, state |-> outcome'[j]]
    BY <1>0, <2>1, <2>3 DEF Shapes
  <2>5. /\ \A k \in Jobs : guardian'[k] = "publish" => k # j /\ guardian[k] = "publish"
        /\ target' # NoJob /\ step' = "publish" => target' # j /\ target' = target /\ step = "publish"
        /\ op' = "start" /\ step' = "publish" =>
             subject' # j /\ subject' = subject /\ op = "start" /\ step = "publish"
    BY <2>1, <2>2
  <2>6. result' = [result EXCEPT ![j] = r] /\ UNCHANGED status
    BY <2>1
  <2> HIDE DEF r
  <2> QED
    BY <1>0, <2>2, <2>4, <2>5, <2>6, ResultRewritten
<1>8. ASSUME NEW j \in Jobs, PublishTerminal(j) PROVE AgreeInv'
  <2>1. /\ worker[j] = "written" /\ worker' = [worker EXCEPT ![j] = "dead"]
        /\ status' = [status EXCEPT ![j] = outcome[j]] /\ outcome' = [outcome EXCEPT ![j] = "none"]
        /\ UNCHANGED <<result, guardian, target, step, op, subject>>
    BY <1>8 DEF PublishTerminal, Goes, guardVars, lockVars
  <2> QED
    BY <1>0, <2>1 DEF AgreeInv, ResultAgrees, Shapes
<1>9. ASSUME NEW j \in Jobs, GuardianFinishes(j) PROVE AgreeInv'
  <2>1. CASE status[j] \in Terminal
    BY <1>0, <1>1, <1>9, <2>1 DEF GuardianFinishes, Moves, workVars, lockVars, Shapes
  <2>2. CASE status[j] \notin Terminal
    <3> DEFINE r == [pending |-> FALSE, state |-> CleanupState(j)]
    <3>1. r \in Results /\ ~r.pending
      BY CleanupStates DEF Results
    <3>2. /\ guardian[j] = "finish" /\ guardian' = [guardian EXCEPT ![j] = "publish"]
          /\ completion[j] = "free" /\ result' = [result EXCEPT ![j] = r]
          /\ UNCHANGED <<status, worker, outcome, target, step, op, subject>>
      BY <1>9, <2>2 DEF GuardianFinishes, Moves, workVars, lockVars
    <3>3. worker[j] # "written" /\ ~(target = j /\ step = "publish") /\ ~(op = "start" /\ subject = j)
      BY <3>2, RequestAssumption DEF IInv, RecoverInv, StatusInv, StartInv
    <3>4. \A k \in Jobs : guardian'[k] = "publish" => k = j \/ guardian[k] = "publish"
      BY <1>0, <3>2 DEF Shapes
    <3> HIDE DEF r
    <3> QED
      BY <1>0, <2>2, <3>1, <3>2, <3>3, <3>4, ResultRewritten
  <2> QED
    BY <2>1, <2>2
<1>10. ASSUME NEW j \in Jobs, GuardianPublishes(j) PROVE AgreeInv'
  <2>1. /\ guardian[j] = "publish" /\ guardian' = [guardian EXCEPT ![j] = "gone"]
        /\ status' = [status EXCEPT ![j] = result[j].state]
        /\ UNCHANGED <<result, worker, outcome, target, step, op, subject>>
    BY <1>10 DEF GuardianPublishes, Moves, workVars, lockVars
  <2>2. result[j] = [pending |-> FALSE, state |-> result[j].state]
    BY <1>0, <2>1 DEF AgreeInv, Results, Shapes
  <2> QED
    BY <1>0, <2>1, <2>2 DEF AgreeInv, ResultAgrees, Shapes
<1>11. CASE \/ RecoverRead \/ RecoverYoung \/ RecoverProbe \/ RecoverStop \/ RecoverStopRefused
            \/ PollReturns \/ CancelReturns \/ KillCaller \/ UNCHANGED vars
  <2>1. Quiet
    BY <1>11 DEF RecoverRead, RecoverYoung, RecoverProbe, RecoverStop, RecoverStopRefused, PollReturns, CancelReturns,
       KillCaller, AtStep, Unlock, fileVars, workVars, guardVars, lockVars, vars
  <2> QED
    BY <1>1, <2>1
<1>12. ASSUME NEW j \in Jobs,
         Submit(j) \/ PublishQueued(j) \/ WorkerReady(j) \/ Heartbeat(j) \/ Acquire(j)
       PROVE AgreeInv'
  <2>1. \E s \in {"unpublished", "queued", "running"} : status' = [status EXCEPT ![j] = s]
    BY <1>12 DEF Submit, PublishQueued, WorkerReady, Heartbeat, Acquire
  <2>2. \A k \in Jobs : status'[k] \in Terminal => status'[k] = status[k]
    BY <1>0, <2>1 DEF Terminal, Shapes
  <2>3. \A k \in Jobs : worker'[k] = "written" => worker[k] = "written" /\ outcome'[k] = outcome[k]
    BY <1>0, <1>12 DEF Submit, PublishQueued, WorkerReady, Heartbeat, Acquire, Goes, workVars, Shapes
  <2>4. UNCHANGED <<result, guardian>> /\ (step' = "publish" => step = "publish" /\ UNCHANGED <<target, subject>> /\ (op' = "start" => op = "start"))
    BY <1>12 DEF Submit, PublishQueued, WorkerReady, Heartbeat, Acquire, Lock, Unlock, guardVars, lockVars
  <2> QED
    BY <1>1, <2>2, <2>3, <2>4
<1>13. ASSUME NEW j \in Jobs,
         SpawnWorker(j) \/ RecordWorker(j) \/ OpenGate(j) \/ WorkerGateCloses(j) \/ Poll(j) \/
         CancelRequest(j) \/ Asks(j) \/ ScanPicks(j) \/ ScanJudges(j) \/ ScanBlocked(j) \/ Prepared(j) \/
         SpawnRoot(j) \/ RecordRoot(j) \/ ReleaseRoot(j) \/ RootGateCloses(j) \/ RootExits(j) \/
         StopRootRefused(j)
       PROVE AgreeInv'
  <2>1. UNCHANGED <<status, result, outcome, guardian>>
    BY <1>13 DEF SpawnWorker, RecordWorker, OpenGate, WorkerGateCloses, Poll, CancelRequest, Asks, ScanPicks,
       ScanJudges, ScanBlocked, Prepared, SpawnRoot, RecordRoot, ReleaseRoot, RootGateCloses, RootExits,
       StopRootRefused, fileVars, workVars, guardVars
  <2>2. \A k \in Jobs : worker'[k] = "written" => worker[k] = "written"
    <3>1. CASE UNCHANGED worker
      BY <3>1
    <3>2. ASSUME NEW p \in WorkerPoints \ {"written"}, worker' = [worker EXCEPT ![j] = p]
          PROVE  \A k \in Jobs : worker'[k] = "written" => worker[k] = "written"
      BY <1>0, <3>2 DEF Shapes
    <3>3. UNCHANGED worker \/ \E p \in WorkerPoints \ {"written"} : worker' = [worker EXCEPT ![j] = p]
      <4>1. CASE RecordWorker(j) \/ Poll(j) \/ CancelRequest(j) \/ ScanPicks(j) \/ ScanJudges(j)
                 \/ RootGateCloses(j) \/ RootExits(j)
        BY <4>1 DEF RecordWorker, Poll, CancelRequest, ScanPicks, ScanJudges, RootGateCloses, RootExits, workVars
      <4>2. CASE OpenGate(j)
        <5>1. worker' = [worker EXCEPT ![j] = IF @ = "gated" THEN "begin" ELSE @]
          BY <4>2 DEF OpenGate
        <5>2. CASE worker[j] = "gated"
          BY <5>1, <5>2 DEF WorkerPoints
        <5>3. CASE worker[j] # "gated"
          BY <1>0, <5>1, <5>3 DEF Shapes
        <5> QED
          BY <5>2, <5>3
      <4>3. CASE SpawnWorker(j) \/ WorkerGateCloses(j) \/ Asks(j) \/ ScanBlocked(j) \/ Prepared(j) \/ SpawnRoot(j)
        BY <4>3 DEF SpawnWorker, WorkerGateCloses, Asks, ScanBlocked, Prepared, SpawnRoot, Goes, WorkerPoints
      <4>4. CASE RecordRoot(j) \/ ReleaseRoot(j) \/ StopRootRefused(j)
        BY <4>4 DEF RecordRoot, ReleaseRoot, StopRootRefused, Goes, WorkerPoints
      <4> QED
        BY <1>13, <4>1, <4>2, <4>3, <4>4
    <3> QED
      BY <3>1, <3>2, <3>3
  <2>3. step' = "publish" => step = "publish" /\ UNCHANGED <<target, subject>> /\ (op' = "start" => op = "start")
    BY <1>13 DEF SpawnWorker, RecordWorker, OpenGate, WorkerGateCloses, Poll, CancelRequest, Asks, ScanPicks,
       ScanJudges, ScanBlocked, Prepared, SpawnRoot, RecordRoot, ReleaseRoot, RootGateCloses, RootExits,
       StopRootRefused, Lock, Unlock, lockVars
  <2> QED
    BY <1>1, <2>1, <2>2, <2>3
<1>14. ASSUME NEW j \in Jobs,
         StartupFails(j) \/ Interrupt(j) \/ ScanBegins(j) \/ ScanRefuses(j) \/ PreparationFails(j) \/
         LaunchFails(j) \/ Completes(j) \/ StopRoot(j) \/ KillWorker(j) \/ WorkerBegins(j)
       PROVE AgreeInv'
  <2>1. UNCHANGED <<status, result>>
    BY <1>14 DEF StartupFails, Interrupt, ScanBegins, ScanRefuses, PreparationFails, LaunchFails, Completes, StopRoot,
       KillWorker, WorkerBegins, fileVars
  <2>2. \A k \in Jobs : guardian'[k] = "publish" => guardian[k] = "publish"
    BY <1>0, <1>14
    DEF StartupFails, Interrupt, ScanBegins, ScanRefuses, PreparationFails, LaunchFails, Completes, StopRoot,
       KillWorker, WorkerBegins, guardVars, Shapes
  <2>3. step' = "publish" => step = "publish" /\ UNCHANGED <<target, subject>> /\ (op' = "start" => op = "start")
    <3>1. CASE ScanBegins(j)
      BY <3>1 DEF ScanBegins, lockVars
    <3>2. CASE ~ScanBegins(j)
      BY <1>14, <3>2 DEF StartupFails, Interrupt, ScanRefuses, PreparationFails, LaunchFails, Completes, StopRoot,
         KillWorker, WorkerBegins, Unlock, lockVars
    <3> QED
      BY <3>1, <3>2
  <2>4. worker'[j] # "written" /\ \A k \in Jobs \ {j} : worker'[k] = worker[k] /\ outcome'[k] = outcome[k]
    BY <1>0, <1>14
    DEF StartupFails, Interrupt, ScanBegins, ScanRefuses, PreparationFails, LaunchFails, Completes, StopRoot,
       KillWorker, WorkerBegins, Closes, Goes, Shapes
  <2> QED
    BY <1>1, <2>1, <2>2, <2>3, <2>4
<1>15. ASSUME NEW j \in Jobs,
         GuardianReports(j) \/ GuardianLooks(j) \/ GuardianJudges(j) \/ GuardianStops(j) \/
         GuardianStopRefused(j) \/ KillGuardian(j)
       PROVE AgreeInv'
  <2>1. UNCHANGED <<status, result, worker, outcome, step, target, op, subject>>
    BY <1>15 DEF GuardianReports, GuardianLooks, GuardianJudges, GuardianStops, GuardianStopRefused, KillGuardian,
       fileVars, workVars, lockVars
  <2>2. \A k \in Jobs : guardian'[k] = "publish" => guardian[k] = "publish"
    BY <1>0, <1>15
    DEF GuardianReports, GuardianLooks, GuardianJudges, GuardianStops, GuardianStopRefused, KillGuardian, Moves, Shapes
  <2> QED
    BY <1>1, <2>1, <2>2
<1> QED
  BY <1>2, <1>3, <1>4, <1>5, <1>6, <1>7, <1>8, <1>9, <1>10, <1>11, <1>12, <1>13, <1>14, <1>15
  DEF Next, Recover, CallerStep, WorkerStep, GuardianStep, GatesClose

\* The terminal state of status.json is that of the result.json beside it, whichever
\* of worker, guardian, recovering caller and failed launcher wrote the two.
THEOREM ResultsAgree == Spec => []ResultAgrees
<1>1. Init => AgreeInv
  BY DEF Init, AgreeInv, ResultAgrees, Terminal
<1>2. AgreeInv => ResultAgrees
  BY DEF AgreeInv
<1> QED
  BY <1>1, <1>2, AgreeInvStep, Invariant, PTL DEF Spec

-----------------------------------------------------------------------------
(* Before the root program, and when supervisors are lost *)

Early   == {"none", "gated", "preparing", "launching"} \cup Queueing
Guarded == {"waiting", "asking", "scanning"} \cup Holding

\* A job has no root before its worker launches one, and a guardian by then.
PathInv ==
  \A j \in Jobs :
    /\ worker[j] \in Early => root[j] = "none"
    /\ status[j] \in {"absent", "unpublished", "queued"} => root[j] = "none"
    /\ root[j] # "none" => guardian[j] # "none"
    /\ worker[j] \in Guarded => guardian[j] # "none"

\* provider.json names every program that runs; a worker past its cleanup has none.
RecordInv ==
  \A j \in Jobs :
    /\ root[j] = "native" \/ worker[j] = "recorded" => rootFile[j]
    /\ worker[j] \in {"cleaned", "written"} => root[j] # "native"

\* The steps other than the launch itself, as far as these invariants and
\* cancellation go: nothing leads back to a point before the launch, nothing but an
\* uncancelled preparation leads to one, and no program runs that is not recorded.
PathMove ==
  /\ \A j \in Jobs : root'[j] # "none" => root[j] # "none"
  /\ \A j \in Jobs : worker'[j] \in Early => worker[j] \in Early
  /\ \A j \in Jobs : guardian'[j] = "none" => guardian[j] = "none"
  /\ \A j \in Jobs : worker'[j] \in Guarded => worker[j] \in Guarded \/ guardian[j] # "none"
  /\ \A j \in Jobs : worker'[j] = "launching" => worker[j] = "launching" \/ ~cancelFile[j]
  /\ \A j \in Jobs : worker'[j] \in {"spawned", "recorded"} => worker[j] \in {"spawned", "recorded"}
  /\ \A j \in Jobs : cancelFile[j] => cancelFile'[j]
  /\ \A j \in Jobs : root'[j] = "native" => root[j] = "native" \/ worker[j] = "recorded"
  /\ \A j \in Jobs : rootFile[j] => rootFile'[j]
  /\ \A j \in Jobs : worker'[j] = "recorded" => worker[j] = "recorded" \/ rootFile'[j]
  /\ \A j \in Jobs : worker'[j] \in {"cleaned", "written"} =>
       worker[j] \in {"cleaned", "written"} \/ root'[j] # "native" \/ ~rootFile[j]

LEMMA PathMoves ==
  ASSUME IInv, [Next]_vars
  PROVE  PathMove \/ \E j \in Jobs : SpawnRoot(j)
<1>0. Shapes
  BY ShapesFollow
<1> USE <1>0 DEF Shapes
<1> DEFINE Ended(j) == root'[j] = root[j] \/ (root[j] # "none" /\ root'[j] = "gone")
<1>1. ASSUME UNCHANGED <<root, rootFile, worker, guardian, cancelFile>>
     PROVE  PathMove
  BY <1>1 DEF PathMove
<1>2. CASE \/ RecoverRead \/ RecoverYoung \/ RecoverProbe \/ RecoverStopRefused \/ RecoverFinish \/ RecoverPublish
           \/ PollReturns \/ KillCaller \/ UNCHANGED vars
  BY <1>1, <1>2
  DEF RecoverRead, RecoverYoung, RecoverProbe, RecoverStopRefused, RecoverFinish, RecoverPublish, PollReturns,
     KillCaller, fileVars, workVars, guardVars, rootVars, vars
<1>3. ASSUME NEW j \in Jobs,
         Submit(j) \/ PublishQueued(j) \/ RecordWorker(j) \/ LaunchErrorPublish(j) \/ Poll(j) \/ CancelRequest(j) \/
         Heartbeat(j) \/ ScanPicks(j) \/ ScanJudges(j)
      PROVE PathMove
  BY <1>1, <1>3
  DEF Submit, PublishQueued, RecordWorker, LaunchErrorPublish, Poll, CancelRequest, Heartbeat, ScanPicks, ScanJudges,
     fileVars, workVars, guardVars, rootVars
<1>4. ASSUME UNCHANGED <<root, rootFile, worker, guardian>> /\ \A j \in Jobs : cancelFile[j] => cancelFile'[j]
     PROVE  PathMove
  BY <1>4 DEF PathMove
<1>5. CASE CancelReturns
  <2>1. /\ UNCHANGED <<root, rootFile, worker, guardian>> /\ subject \in Jobs
        /\ cancelFile' = [cancelFile EXCEPT ![subject] = @ \/ seen \notin Terminal]
    BY <1>5 DEF CancelReturns, workVars, guardVars, rootVars, IInv, LockInv
  <2>2. cancelFile \in [Jobs -> BOOLEAN]
    OBVIOUS
  <2>3. \A j \in Jobs : cancelFile[j] => cancelFile'[j]
    BY <2>1, <2>2, Zenon
  <2> QED
    BY <1>4, <2>1, <2>3
<1>6. ASSUME UNCHANGED <<rootFile, worker, guardian, cancelFile>> /\ \A j \in Jobs : Ended(j)
     PROVE  PathMove
  BY <1>6 DEF PathMove
<1>7. CASE RecoverStop
  BY <1>6, <1>7 DEF RecoverStop, Stopped, fileVars, workVars, guardVars
<1>8. ASSUME NEW j \in Jobs, RootGateCloses(j) \/ RootExits(j)
      PROVE PathMove
  BY <1>6, <1>8 DEF RootGateCloses, RootExits, fileVars, workVars, guardVars
<1>9. ASSUME /\ UNCHANGED <<rootFile, worker, cancelFile>>
             /\ \A j \in Jobs : Ended(j)
             /\ \A j \in Jobs : guardian'[j] = "none" => guardian[j] = "none"
     PROVE  PathMove
  BY <1>9 DEF PathMove
<1>10. ASSUME NEW j \in Jobs,
          GuardianReports(j) \/ GuardianLooks(j) \/ GuardianStops(j) \/ GuardianStopRefused(j) \/
          GuardianFinishes(j) \/ GuardianPublishes(j) \/ KillGuardian(j)
       PROVE PathMove
  BY <1>9, <1>10
  DEF GuardianReports, GuardianLooks, GuardianStops, GuardianStopRefused, GuardianFinishes, GuardianPublishes,
     KillGuardian, Moves, Stopped, fileVars, workVars, rootVars
<1>11. ASSUME NEW j \in Jobs, GuardianJudges(j) PROVE PathMove
  BY <1>9, <1>11 DEF GuardianJudges, Moves, Stopped, fileVars, workVars
<1>12. ASSUME /\ UNCHANGED <<root, rootFile, guardian, cancelFile>>
              /\ \E j \in Jobs, p \in WorkerPoints :
                   /\ worker' = [worker EXCEPT ![j] = p]
                   /\ p \in Early => worker[j] \in Early
                   /\ p \in Guarded => worker[j] \in Guarded \/ guardian[j] # "none"
                   /\ p = "launching" => ~cancelFile[j]
                   /\ p \notin {"spawned", "recorded", "cleaned"} /\ (p = "written" => worker[j] = "cleaned")
     PROVE  PathMove
  BY <1>12 DEF PathMove
<1>13. ASSUME NEW j \in Jobs, SpawnWorker(j) \/ WorkerGateCloses(j) \/ Asks(j) \/ ScanBlocked(j) \/ Acquire(j)
       PROVE PathMove
  BY <1>12, <1>13
  DEF SpawnWorker, WorkerGateCloses, Asks, ScanBlocked, Acquire, Goes, IInv, LockInv, fileVars, guardVars, rootVars,
     WorkerPoints, Early, Queueing, Guarded, Holding
<1>14. ASSUME NEW j \in Jobs,
          StartupFails(j) \/ Interrupt(j) \/ ScanRefuses(j) \/ PreparationFails(j) \/ LaunchFails(j) \/ Completes(j)
          \/ StopRootRefused(j) \/ LeavePending(j) \/ WriteResult(j) \/ PublishTerminal(j) \/ KillWorker(j)
       PROVE PathMove
  <2>1. UNCHANGED <<root, rootFile, guardian, cancelFile>>
    BY <1>14
    DEF StartupFails, Interrupt, ScanRefuses, PreparationFails, LaunchFails, Completes, StopRootRefused,
       LeavePending, WriteResult, PublishTerminal, KillWorker, fileVars, guardVars, rootVars
  <2>2. \E p \in {"closing", "uncleaned", "written", "dead"} :
           worker' = [worker EXCEPT ![j] = p] /\ (p = "written" => worker[j] = "cleaned")
    BY <1>14
    DEF StartupFails, Interrupt, ScanRefuses, PreparationFails, LaunchFails, Completes, StopRootRefused,
       LeavePending, WriteResult, PublishTerminal, KillWorker, Closes, Goes
  <2> QED
    BY <1>12, <2>1, <2>2 DEF WorkerPoints, Early, Queueing, Guarded, Holding
<1>15. ASSUME NEW j \in Jobs, OpenGate(j) \/ LaunchError(j) PROVE PathMove
  <2>1. /\ UNCHANGED <<root, rootFile, guardian, cancelFile>>
        /\ \/ UNCHANGED worker
           \/ \E p \in {"begin", "dead"} : worker[j] = "gated" /\ worker' = [worker EXCEPT ![j] = p]
    BY <1>15 DEF OpenGate, LaunchError, fileVars, guardVars, rootVars
  <2> QED
    BY <1>1, <1>12, <2>1 DEF WorkerPoints, Early, Queueing, Guarded, Holding
<1>16. ASSUME NEW j \in Jobs, WorkerBegins(j) PROVE PathMove
  <2>1. /\ UNCHANGED <<root, rootFile, cancelFile>> /\ worker[j] = "begin" /\ status[j] \notin Terminal
        /\ worker' = [worker EXCEPT ![j] = "guarding"] /\ guardian' = [guardian EXCEPT ![j] = "born"]
    BY <1>16 DEF WorkerBegins, fileVars, rootVars, IInv, StatusInv, Queueing, Terminal
  <2> QED
    BY <2>1 DEF PathMove, Early, Queueing, Guarded, Holding
<1>17. ASSUME NEW j \in Jobs, WorkerReady(j) PROVE PathMove
  <2>1. /\ UNCHANGED <<root, rootFile, cancelFile, guardian>> /\ worker[j] = "guarding" /\ guardian[j] # "none"
        /\ worker' = [worker EXCEPT ![j] = "waiting"]
    BY <1>17 DEF WorkerReady, Goes, GuardianSeen, GuardianAlive, rootVars, guardVars
  <2> QED
    BY <1>12, <2>1 DEF WorkerPoints, Early, Queueing
<1>18. ASSUME NEW j \in Jobs, ScanBegins(j) PROVE PathMove
  <2>1. /\ UNCHANGED <<root, rootFile, cancelFile, guardian>> /\ worker[j] = "asking"
        /\ \E p \in {"closing", "scanning"} : worker' = [worker EXCEPT ![j] = p]
    BY <1>18 DEF ScanBegins, Closes, fileVars, rootVars, guardVars
  <2> QED
    BY <1>12, <2>1 DEF WorkerPoints, Early, Queueing, Guarded, Holding
<1>19. ASSUME NEW j \in Jobs, Prepared(j) PROVE PathMove
  BY <1>12, <1>19 DEF Prepared, Goes, fileVars, rootVars, guardVars, WorkerPoints, Early, Queueing, Guarded, Holding
<1>20. ASSUME NEW j \in Jobs, RecordRoot(j) PROVE PathMove
  <2>1. /\ UNCHANGED <<root, cancelFile, guardian>> /\ worker[j] = "spawned"
        /\ worker' = [worker EXCEPT ![j] = "recorded"] /\ rootFile' = [rootFile EXCEPT ![j] = TRUE]
    BY <1>20 DEF RecordRoot, Goes, fileVars, guardVars
  <2>2. rootFile \in [Jobs -> BOOLEAN]
    OBVIOUS
  <2>3. rootFile'[j]
    BY <2>1, <2>2, FlagSet
  <2>4. \A k \in Jobs : rootFile[k] => rootFile'[k]
    BY <2>1, <2>2, Zenon
  <2> QED
    BY <2>1, <2>3, <2>4 DEF PathMove, Early, Queueing, Guarded, Holding
<1>21. ASSUME NEW j \in Jobs, ReleaseRoot(j) PROVE PathMove
  <2>1. /\ UNCHANGED <<rootFile, cancelFile, guardian>> /\ worker[j] = "recorded"
        /\ worker' = [worker EXCEPT ![j] = "pumping"]
        /\ \A k \in Jobs : root'[k] # root[k] => k = j /\ root[k] = "gated"
    BY <1>21 DEF ReleaseRoot, Goes, fileVars, guardVars
  <2> QED
    BY <2>1 DEF PathMove, Early, Queueing, Guarded, Holding
<1>22. ASSUME NEW j \in Jobs, StopRoot(j) PROVE PathMove
  <2>1. /\ UNCHANGED <<rootFile, cancelFile, guardian>> /\ worker' = [worker EXCEPT ![j] = "cleaned"]
        /\ \A k \in Jobs : Ended(k)
        /\ rootFile[j] => root'[j] # "native"
    BY <1>22 DEF StopRoot, Stopped, Goes, fileVars, guardVars
  <2> QED
    BY <2>1 DEF PathMove, Early, Queueing, Guarded, Holding
<1> QED
  BY <1>2, <1>3, <1>5, <1>7, <1>8, <1>10, <1>11, <1>13, <1>14, <1>15, <1>16, <1>17, <1>18, <1>19, <1>20, <1>21, <1>22
  DEF Next, Recover, CallerStep, WorkerStep, GuardianStep, GatesClose

\* No status becomes young again, and no terminal one open.
LEMMA StatusAges ==
  ASSUME IInv, [Next]_vars, NEW k \in Jobs
  PROVE  /\ status'[k] \in {"absent", "unpublished", "queued"} => status[k] \in {"absent", "unpublished", "queued"}
         /\ status[k] \in Terminal => status'[k] \in Terminal
<1>1. CASE UNCHANGED status
  BY <1>1
<1>2. ASSUME NEW j \in Jobs, StatusMove(j)
      PROVE  /\ status'[k] \in {"absent", "unpublished", "queued"} => status[k] \in {"absent", "unpublished", "queued"}
             /\ status[k] \in Terminal => status'[k] \in Terminal
  <2>1. status \in [Jobs -> Statuses]
    BY DEF IInv, TypeOK
  <2>2. CASE k # j
    BY <1>2, <2>1, <2>2 DEF StatusMove
  <2>3. CASE k = j
    BY <1>2, <2>1, <2>3 DEF StatusMove, Open, Terminal
  <2> QED
    BY <2>2, <2>3
<1> QED
  BY <1>1, <1>2, StatusMoves

LEMMA PathInvStep ==
  ASSUME IInv, PathInv, [Next]_vars
  PROVE  PathInv'
<1>1. CASE PathMove
  BY <1>1, StatusAges DEF PathMove, PathInv
<1>2. ASSUME NEW j \in Jobs, SpawnRoot(j) PROVE PathInv'
  <2>1. /\ worker[j] = "launching" /\ worker' = [worker EXCEPT ![j] = "spawned"]
        /\ root' = [root EXCEPT ![j] = "gated"] /\ UNCHANGED <<status, guardian>>
    BY <1>2 DEF SpawnRoot, Goes, fileVars, guardVars
  <2>2. status[j] = "running" /\ guardian[j] # "none"
    BY <2>1 DEF IInv, StatusInv, PathInv, Holding, Guarded
  <2>3. worker \in [Jobs -> WorkerPoints] /\ root \in [Jobs -> RootPoints]
    BY DEF IInv, TypeOK
  <2> QED
    BY <2>1, <2>2, <2>3 DEF PathInv, Early, Queueing, Guarded, Holding
<1> QED
  BY <1>1, <1>2, PathMoves

LEMMA RecordInvStep ==
  ASSUME IInv, RecordInv, [Next]_vars
  PROVE  RecordInv'
<1>1. CASE PathMove
  BY <1>1 DEF PathMove, RecordInv
<1>2. ASSUME NEW j \in Jobs, SpawnRoot(j) PROVE RecordInv'
  <2>1. /\ worker' = [worker EXCEPT ![j] = "spawned"] /\ root' = [root EXCEPT ![j] = "gated"]
        /\ UNCHANGED rootFile
    BY <1>2 DEF SpawnRoot, Goes
  <2>2. worker \in [Jobs -> WorkerPoints] /\ root \in [Jobs -> RootPoints]
    BY DEF IInv, TypeOK
  <2> QED
    BY <2>1, <2>2 DEF RecordInv
<1> QED
  BY <1>1, <1>2, PathMoves

LEMMA PathInvariant == Spec => [](PathInv /\ RecordInv)
<1>1. Init => PathInv /\ RecordInv
  BY DEF Init, PathInv, RecordInv, Early, Queueing, Guarded, Holding
<1>2. IInv /\ PathInv /\ RecordInv /\ [Next]_vars => (PathInv /\ RecordInv)'
  BY PathInvStep, RecordInvStep
<1> QED
  BY <1>1, <1>2, Invariant, PTL DEF Spec

\* A cancelled job that has no root gets none.
Halted(j) == cancelFile[j] /\ root[j] = "none" /\ worker[j] \notin {"launching", "spawned", "recorded"}

\* Once cancelled while it is queued, a job never starts its native program,
\* although the cancellation may arrive while its claim is being granted
\* (Worker.acquire, Worker.run).
THEOREM CancelledStays == Spec => CancelledNeverLaunches
<1> SUFFICES ASSUME NEW j \in Jobs
             PROVE  Spec => [](status[j] = "queued" /\ cancelFile[j] => [](root[j] # "native"))
  BY DEF CancelledNeverLaunches
<1>1. IInv /\ PathInv => (status[j] = "queued" /\ cancelFile[j] => Halted(j))
  BY DEF IInv, StatusInv, PathInv, Halted, Holding
<1>2. IInv /\ Halted(j) /\ [Next]_vars => Halted(j)'
  <2> SUFFICES ASSUME IInv, Halted(j), [Next]_vars PROVE Halted(j)'
    OBVIOUS
  <2>1. CASE PathMove
    BY <2>1 DEF PathMove, Halted
  <2>2. ASSUME NEW k \in Jobs, SpawnRoot(k) PROVE Halted(j)'
    <3>1. /\ k # j /\ worker' = [worker EXCEPT ![k] = "spawned"] /\ root' = [root EXCEPT ![k] = "gated"]
          /\ UNCHANGED cancelFile
      BY <2>2 DEF SpawnRoot, Goes, Halted, fileVars
    <3>2. worker \in [Jobs -> WorkerPoints] /\ root \in [Jobs -> RootPoints]
      BY DEF IInv, TypeOK
    <3> QED
      BY <3>1, <3>2 DEF Halted
  <2> QED
    BY <2>1, <2>2, PathMoves
<1>3. Halted(j) => root[j] # "native"
  BY DEF Halted
<1> QED
  BY <1>1, <1>2, <1>3, Invariant, PathInvariant, PTL DEF Spec

\* A worker that is gone, or gives up, while its program may still run; a guardian
\* that is gone before the end.
Lost(j) == worker[j] = "uncleaned" \/ (worker[j] = "dead" /\ root[j] = "native")
Left(j) == guardian[j] = "gone" /\ status[j] \notin Terminal

\* Each loss costs a fault of its own.
FaultInv ==
  \A j \in Jobs :
    /\ Lost(j) => faults >= 1
    /\ Left(j) => faults >= 1
    /\ Lost(j) /\ Left(j) => faults >= 2

\* What a step does to those counts: nobody is lost, or one side and one fault.
FaultMove ==
  /\ faults' \in Nat
  /\ \/ faults' >= faults /\ \A j \in Jobs : (Lost(j)' => Lost(j)) /\ (Left(j)' => Left(j))
     \/ faults' = faults + 1 /\ \A j \in Jobs : Left(j)' => Left(j)
     \/ faults' = faults + 1 /\ \A j \in Jobs : Lost(j)' => Lost(j)

\* Nobody is lost by a step that only moves processes on.
LEMMA NobodyLost ==
  ASSUME IInv, [Next]_vars,
         faults' = faults \/ faults' = faults + 1,
         \A j \in Jobs : root'[j] = "native" => root[j] = "native" \/ worker'[j] # "dead",
         \A j \in Jobs : worker'[j] = "uncleaned" => worker[j] = "uncleaned",
         \A j \in Jobs : worker'[j] = "dead" => worker[j] \in {"dead", "uncleaned"} \/ root[j] # "native",
         \A j \in Jobs : guardian'[j] = "gone" => guardian[j] = "gone" \/ status'[j] \in Terminal
  PROVE  FaultMove
<1>1. faults \in Nat /\ faults' \in Nat /\ faults' >= faults
  BY DEF IInv, TypeOK
<1>2. ASSUME NEW j \in Jobs PROVE (Lost(j)' => Lost(j)) /\ (Left(j)' => Left(j))
  BY StatusAges DEF Lost, Left
<1> QED
  BY <1>1, <1>2 DEF FaultMove

LEMMA FaultMoves ==
  ASSUME IInv, PathInv, RecordInv, [Next]_vars
  PROVE  FaultMove
<1>0. Shapes
  BY ShapesFollow
<1> USE <1>0 DEF Shapes
<1>1. CASE UNCHANGED <<root, worker, guardian>> /\ (faults' = faults \/ faults' = faults + 1)
  BY <1>1, NobodyLost
<1>2. CASE \/ RecoverRead \/ RecoverYoung \/ RecoverProbe \/ RecoverStopRefused \/ RecoverFinish \/ RecoverPublish
           \/ PollReturns \/ CancelReturns \/ KillCaller \/ UNCHANGED vars
  BY <1>1, <1>2
  DEF RecoverRead, RecoverYoung, RecoverProbe, RecoverStopRefused, RecoverFinish, RecoverPublish, PollReturns,
     CancelReturns, KillCaller, workVars, guardVars, rootVars, vars
<1>3. ASSUME NEW j \in Jobs,
         Submit(j) \/ PublishQueued(j) \/ RecordWorker(j) \/ LaunchErrorPublish(j) \/ Poll(j) \/ CancelRequest(j) \/
         Heartbeat(j) \/ ScanPicks(j) \/ ScanJudges(j)
      PROVE FaultMove
  BY <1>1, <1>3
  DEF Submit, PublishQueued, RecordWorker, LaunchErrorPublish, Poll, CancelRequest, Heartbeat, ScanPicks, ScanJudges,
     workVars, guardVars, rootVars
<1>4. CASE UNCHANGED <<worker, guardian, faults>> /\ \A j \in Jobs : root'[j] = "native" => root[j] = "native"
  BY <1>4, NobodyLost
<1>5. CASE RecoverStop
  BY <1>4, <1>5 DEF RecoverStop, Stopped, workVars, guardVars
<1>6. ASSUME NEW j \in Jobs, RootGateCloses(j) \/ RootExits(j)
      PROVE FaultMove
  BY <1>4, <1>6 DEF RootGateCloses, RootExits, workVars, guardVars
<1>7. CASE /\ UNCHANGED <<root, guardian, faults>>
           /\ \E j \in Jobs, p \in WorkerPoints \ {"uncleaned", "dead"} : worker' = [worker EXCEPT ![j] = p]
  BY <1>7, NobodyLost
<1>8. ASSUME NEW j \in Jobs,
         SpawnWorker(j) \/ Asks(j) \/ ScanBlocked(j) \/ Acquire(j) \/ WorkerReady(j) \/ ScanBegins(j) \/ Prepared(j)
         \/ RecordRoot(j) \/ WriteResult(j)
      PROVE FaultMove
  <2>1. UNCHANGED <<root, guardian, faults>>
    BY <1>8
    DEF SpawnWorker, Asks, ScanBlocked, Acquire, WorkerReady, ScanBegins, Prepared, RecordRoot, WriteResult,
       guardVars, rootVars
  <2>2. \E p \in {"gated", "asking", "waiting", "preparing", "closing", "scanning", "launching", "recorded", "written"} :
           worker' = [worker EXCEPT ![j] = p]
    BY <1>8
    DEF SpawnWorker, Asks, ScanBlocked, Acquire, WorkerReady, ScanBegins, Prepared, RecordRoot, WriteResult, Goes,
       Closes
  <2> QED
    BY <1>7, <2>1, <2>2 DEF WorkerPoints
<1>9. ASSUME NEW j \in Jobs,
         StartupFails(j) \/ Interrupt(j) \/ ScanRefuses(j) \/ PreparationFails(j) \/ LaunchFails(j) \/ Completes(j)
      PROVE FaultMove
  <2>1. UNCHANGED <<root, guardian, faults>> /\ worker' = [worker EXCEPT ![j] = "closing"]
    BY <1>9
    DEF StartupFails, Interrupt, ScanRefuses, PreparationFails, LaunchFails, Completes, Closes, guardVars, rootVars
  <2> QED
    BY <1>7, <2>1 DEF WorkerPoints
<1>10. ASSUME NEW j \in Jobs, OpenGate(j) \/ LaunchError(j) \/ WorkerGateCloses(j) PROVE FaultMove
  <2>1. /\ UNCHANGED <<root, guardian, faults>>
        /\ \/ UNCHANGED worker
           \/ \E p \in {"begin", "dead"} : worker[j] = "gated" /\ worker' = [worker EXCEPT ![j] = p]
    BY <1>10 DEF OpenGate, LaunchError, WorkerGateCloses, guardVars, rootVars
  <2>2. worker[j] = "gated" => root[j] = "none"
    BY DEF PathInv, Early
  <2> QED
    BY <2>1, <2>2, NobodyLost
<1>11. ASSUME NEW j \in Jobs, WorkerBegins(j) PROVE FaultMove
  <2>1. /\ UNCHANGED <<root, faults>> /\ worker' = [worker EXCEPT ![j] = "guarding"]
        /\ guardian' = [guardian EXCEPT ![j] = "born"]
    BY <1>11 DEF WorkerBegins, rootVars, IInv, StatusInv, Queueing, Terminal
  <2> QED
    BY <2>1, NobodyLost
<1>12. ASSUME NEW j \in Jobs, SpawnRoot(j) PROVE FaultMove
  <2>1. /\ UNCHANGED <<guardian, faults>> /\ worker' = [worker EXCEPT ![j] = "spawned"]
        /\ root' = [root EXCEPT ![j] = "gated"]
    BY <1>12 DEF SpawnRoot, Goes, guardVars
  <2> QED
    BY <2>1, NobodyLost
<1>13. ASSUME NEW j \in Jobs, ReleaseRoot(j) PROVE FaultMove
  <2>1. /\ UNCHANGED <<guardian, faults>> /\ worker' = [worker EXCEPT ![j] = "pumping"]
        /\ \A k \in Jobs \ {j} : root'[k] = root[k]
    BY <1>13 DEF ReleaseRoot, Goes, guardVars
  <2> QED
    BY <2>1, NobodyLost
<1>14. ASSUME NEW j \in Jobs, StopRoot(j) PROVE FaultMove
  <2>1. /\ UNCHANGED <<guardian, faults>> /\ worker' = [worker EXCEPT ![j] = "cleaned"]
        /\ \A k \in Jobs : root'[k] = "native" => root[k] = "native"
    BY <1>14 DEF StopRoot, Stopped, Goes, guardVars
  <2> QED
    BY <2>1, NobodyLost
<1>15. ASSUME NEW j \in Jobs, LeavePending(j) PROVE FaultMove
  <2>1. UNCHANGED <<root, guardian, faults>> /\ worker[j] = "uncleaned" /\ worker' = [worker EXCEPT ![j] = "dead"]
    BY <1>15 DEF LeavePending, Goes, guardVars, rootVars
  <2> QED
    BY <2>1, NobodyLost
<1>16. ASSUME NEW j \in Jobs, PublishTerminal(j) PROVE FaultMove
  <2>1. UNCHANGED <<root, guardian, faults>> /\ worker[j] = "written" /\ worker' = [worker EXCEPT ![j] = "dead"]
    BY <1>16 DEF PublishTerminal, Goes, guardVars, rootVars
  <2>2. root[j] # "native"
    BY <2>1 DEF RecordInv
  <2> QED
    BY <2>1, <2>2, NobodyLost
<1>17. ASSUME NEW j \in Jobs, StopRootRefused(j) \/ KillWorker(j) PROVE FaultMove
  <2>1. faults \in Nat /\ faults' = faults + 1 /\ UNCHANGED <<guardian, status>>
    BY <1>17 DEF StopRootRefused, KillWorker, fileVars, guardVars, IInv, TypeOK
  <2> QED
    BY <2>1 DEF FaultMove, Left
<1>18. ASSUME NEW j \in Jobs, KillGuardian(j) PROVE FaultMove
  <2>1. faults \in Nat /\ faults' = faults + 1 /\ UNCHANGED <<worker, root>>
    BY <1>18 DEF KillGuardian, workVars, rootVars, IInv, TypeOK
  <2> QED
    BY <2>1 DEF FaultMove, Lost
<1>19. ASSUME NEW j \in Jobs,
          GuardianReports(j) \/ GuardianLooks(j) \/ GuardianJudges(j) \/ GuardianStops(j) \/ GuardianStopRefused(j) \/
          GuardianFinishes(j) \/ GuardianPublishes(j)
       PROVE FaultMove
  <2>1. UNCHANGED worker /\ (faults' = faults \/ faults' = faults + 1)
    BY <1>19
    DEF GuardianReports, GuardianLooks, GuardianJudges, GuardianStops, GuardianStopRefused, GuardianFinishes,
       GuardianPublishes, workVars
  <2>2. \A k \in Jobs : root'[k] = "native" => root[k] = "native"
    BY <1>19
    DEF GuardianReports, GuardianLooks, GuardianJudges, GuardianStops, GuardianStopRefused, GuardianFinishes,
       GuardianPublishes, rootVars, Stopped
  <2>3. \A k \in Jobs : guardian'[k] = "gone" => guardian[k] = "gone" \/ status'[k] \in Terminal
    <3>1. CASE GuardianReports(j) \/ GuardianLooks(j) \/ GuardianStops(j) \/ GuardianStopRefused(j)
      BY <3>1 DEF GuardianReports, GuardianLooks, GuardianStops, GuardianStopRefused, Moves
    <3>2. CASE GuardianJudges(j)
      BY <3>2 DEF GuardianJudges, Moves, fileVars
    <3>3. CASE GuardianFinishes(j)
      BY <3>3 DEF GuardianFinishes, Moves
    <3>4. CASE GuardianPublishes(j)
      <4>1. result[j].state \in Terminal
        BY <3>4 DEF GuardianPublishes, Moves, IInv, RecoverInv
      <4> QED
        BY <3>4, <4>1 DEF GuardianPublishes, Moves
    <3> QED
      BY <1>19, <3>1, <3>2, <3>3, <3>4
  <2> QED
    BY <2>1, <2>2, <2>3, NobodyLost
<1> QED
  BY <1>2, <1>3, <1>5, <1>6, <1>8, <1>9, <1>10, <1>11, <1>12, <1>13, <1>14, <1>15, <1>16, <1>17, <1>18, <1>19
  DEF Next, Recover, CallerStep, WorkerStep, GuardianStep, GatesClose

LEMMA FaultInvStep ==
  ASSUME IInv, PathInv, RecordInv, FaultInv, [Next]_vars
  PROVE  FaultInv'
<1>1. FaultMove
  BY FaultMoves
<1>2. faults \in Nat
  BY DEF IInv, TypeOK
<1>3. ASSUME NEW j \in Jobs
      PROVE  /\ Lost(j)' => faults' >= 1
             /\ Left(j)' => faults' >= 1
             /\ Lost(j)' /\ Left(j)' => faults' >= 2
  BY <1>1, <1>2 DEF FaultMove, FaultInv
<1> QED
  BY <1>3 DEF FaultInv

\* After any single fault some supervisor still holds the environment-use lock while a
\* native program executes, if no root is recorded behind the guardian's reading
\* (Worker._finish_after_cleanup, guardian.main).
THEOREM EnvironmentIsHeld ==
  ASSUME StaleViews = FALSE
  PROVE  Spec => []EnvironmentHeld
<1>1. Init => FaultInv
  BY DEF Init, FaultInv, Lost, Left
<1>2. IInv /\ PathInv /\ RecordInv /\ FaultInv /\ [Next]_vars => FaultInv'
  BY FaultInvStep
<1>3. IInv /\ RootInv /\ PathInv /\ FaultInv => EnvironmentHeld
  <2> SUFFICES ASSUME IInv, RootInv, PathInv, FaultInv, faults <= 1, NEW j \in Jobs, root[j] = "native"
               PROVE  WorkerAlive(j) \/ GuardianAlive(j)
    BY DEF EnvironmentHeld
  <2>1. status[j] = "running" /\ guardian[j] # "none" /\ worker[j] # "none"
    BY DEF RootInv, RootsOwned, PathInv, Early
  <2>2. ~WorkerAlive(j) => Lost(j)
    BY <2>1 DEF WorkerAlive, Lost
  <2>3. ~GuardianAlive(j) => Left(j)
    BY <2>1 DEF GuardianAlive, Left, Terminal
  <2> QED
    BY <2>2, <2>3 DEF FaultInv, IInv, TypeOK
<1> QED
  BY <1>1, <1>2, <1>3, Invariant, RootInvariant, PathInvariant, StaleViews = FALSE, PTL DEF Spec

-----------------------------------------------------------------------------
(* Idempotency keys *)


LEMMA SameKeySym == \A j, k \in Jobs : SameKey(j, k) <=> SameKey(k, j)
  BY DEF SameKey

\* One idempotency key never has two jobs: start looks for the key under registry.lock,
\* and the job directory of a killed caller still counts (jobs._deduplicate, start).
THEOREM KeysAreUnique == Spec => []OneJobPerKey
<1>1. Init => OneJobPerKey
  BY DEF Init, OneJobPerKey
<1>2. IInv /\ OneJobPerKey /\ [Next]_vars => OneJobPerKey'
  <2> SUFFICES ASSUME IInv, OneJobPerKey, [Next]_vars PROVE OneJobPerKey'
    OBVIOUS
  <2>1. CASE UNCHANGED status
    BY <2>1 DEF OneJobPerKey
  <2>2. ASSUME NEW j \in Jobs, StatusMove(j) PROVE OneJobPerKey'
    <3>1. status \in [Jobs -> Statuses]
      BY DEF IInv, TypeOK
    <3>2. \A k \in Jobs \ {j} : status'[k] = status[k]
      BY <2>2, <3>1 DEF StatusMove
    <3>3. CASE status[j] # "absent"
      <4>1. status'[j] # "absent"
        BY <2>2, <3>1, <3>3 DEF StatusMove, Terminal
      <4> QED
        BY <3>2, <3>3, <4>1 DEF OneJobPerKey
    <3>4. CASE status[j] = "absent"
      <4>1. \A k \in Jobs : SameKey(j, k) => status[k] = "absent"
        BY <2>2, <3>4 DEF StatusMove, Open
      <4> QED
        BY <3>2, <4>1, SameKeySym DEF OneJobPerKey
    <3> QED
      BY <3>3, <3>4
  <2> QED
    BY <2>1, <2>2, StatusMoves
<1> QED
  BY <1>1, <1>2, Invariant, PTL DEF Spec

=============================================================================
