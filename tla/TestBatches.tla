----------------------------- MODULE TestBatches -----------------------------
(***************************************************************************)
(* Deterministic test batches (test_batches.py) and the delivery of their  *)
(* notices to the initiating task (completion.py), from the acquisition of *)
(* the batch's claim to its last notice.                                   *)
(*                                                                         *)
(* The worker runs the cases one after the other, each behind a launch     *)
(* gate; its guardian, or a polling caller once both are dead, closes the  *)
(* batch.  Project resources (devices) are released by the project's own   *)
(* runner, which writes resource-cleanup.json.  Worker, guardian and       *)
(* callers may all try to deliver a notice.  Queueing and claims are those *)
(* of AgentJobs; a guardian's view of provider.json is taken as current    *)
(* here, and completion was requested.                                     *)
(***************************************************************************)
EXTENDS Naturals, FiniteSets

CONSTANTS
  Size,            \* number of cases, executed in the order 1 .. Size
  Depends,         \* Depends[c]: earlier cases that must have passed
  CleanupRequired, \* must the project acknowledge that resources are released?
  Callers,         \* host processes that poll, cancel and deliver
  MaxKills,        \* bound on killed supervisors and callers
  MaxRefusals,     \* bound on refused signals
  MaxEdits,        \* bound on changes of the declared inputs
  MaxRetries       \* bound on explicit delivery retries

Cases == 1 .. Size

ASSUME BatchAssumption ==
  /\ Size \in Nat \ {0}
  /\ Depends \in [Cases -> SUBSET Cases] /\ \A c \in Cases : \A d \in Depends[c] : d < c
  /\ CleanupRequired \in BOOLEAN
  /\ Callers \cap {"worker", "guardian", "none"} = {}
  /\ {MaxKills, MaxRefusals, MaxEdits, MaxRetries} \subseteq Nat

VARIABLES
  status,    \* status.json: "running" or a terminal state
  stage,     \* its stage asks for cleanup by the project
  result,    \* result.json
  progress,  \* batch-progress.json
  ack,       \* resource-cleanup.json confirms cleanup
  provider,  \* case whose root provider.json names, 0 if none
  cancel,    \* cancel.json
  notice,    \* notice[k]: notification-cleanup.json and notification.json
  noticeLock, \* holder of notification.lock
  inputs,    \* the declared inputs are the bound ones
  resource,  \* is the project's resource held?
  program,   \* the root of the case at hand
  worker,    \* where the worker is
  case,      \* the case it is at
  outcomes, assess, \* its batch_result
  verdict,   \* the terminal state it is heading for, or "none"
  guardian,  \* where the guardian is
  closer,    \* who holds completion.lock to close the batch, and where it is
  sender,    \* where a delivery attempt is
  about,     \* the notice it is about
  retry,     \* was it asked to retry?
  sent,      \* sent[k]: messages the host has accepted
  retries,   \* retries[k]: explicit retries that sent again
  told,      \* result.json as named in the last completion notice
  vouched,   \* cases run between two successful looks at their inputs
  kills, refusals, edits

fileVars   == <<status, stage, result, progress, ack, provider, cancel>>
noticeVars == <<notice, noticeLock, sender, about, retry, sent, retries, told>>
worldVars  == <<inputs, resource, program>>
caseVars   == <<case, outcomes, assess>>
workVars   == <<worker, caseVars, verdict, vouched>>
closeVars  == <<guardian, closer>>
countVars  == <<kills, refusals, edits>>
vars == <<fileVars, noticeVars, worldVars, workVars, closeVars, countVars>>

\* What the steps of the worker and of those who close leave alone.
Filed    == UNCHANGED <<noticeVars, worldVars, closeVars, countVars>>
OnlyWork == Filed /\ UNCHANGED fileVars
Closed   == UNCHANGED <<noticeVars, worldVars, workVars, countVars>>

-----------------------------------------------------------------------------

Terminal  == {"succeeded", "failed", "cancelled", "timed_out"}
Outcomes  == {"not-run", "passed", "failed", "blocked"}
NoEvidence == [cases |-> [c \in Cases |-> "not-run"], assess |-> FALSE]
NoResult  == [kind |-> "none", state |-> "none", evidence |-> NoEvidence]
Kinds     == {"attention", "terminal"}
Senders   == {"worker", "guardian"} \cup Callers

Ended == status \in Terminal

\* cleanup_confirmed: nothing to release, nothing launched, or acknowledged.
CleanupConfirmed == ~CleanupRequired \/ provider = 0 \/ ack

Gathered == [cases |-> outcomes, assess |-> assess]

NoCloser == [who |-> "none", at |-> "none"]

Init ==
  /\ status = "running" /\ stage = FALSE
  /\ result = NoResult /\ progress = NoEvidence
  /\ ack = FALSE /\ provider = 0 /\ cancel = FALSE
  /\ notice = [k \in Kinds |-> "none"] /\ noticeLock = "none"
  /\ inputs \in BOOLEAN /\ resource = "free" /\ program = "none"
  /\ worker = "starts" /\ case = 1
  /\ outcomes = [c \in Cases |-> "not-run"] /\ assess = FALSE
  /\ verdict = "none" /\ vouched = {}
  /\ guardian = "watching" /\ closer = NoCloser
  /\ sender = [d \in Senders |-> "idle"] /\ about = [d \in Senders |-> "terminal"]
  /\ retry = [d \in Senders |-> FALSE]
  /\ sent = [k \in Kinds |-> 0] /\ retries = [k \in Kinds |-> 0] /\ told = NoResult
  /\ kills = 0 /\ refusals = 0 /\ edits = 0

-----------------------------------------------------------------------------
(* The worker: execute and _run_case *)

Goes(from, to) == worker = from /\ worker' = to

\* execute ends: with a state, or with what the cases say.
Ends(s) == worker' = "closing" /\ verdict' = s

\* Worker.interrupted: cancel.json goes before any deadline.
Interrupted == IF cancel THEN {"cancelled"} ELSE {"timed_out"}

\* execute publishes the untouched inventory and looks at the inputs once.
ExecuteBegins ==
  /\ worker = "starts"
  /\ progress' = NoEvidence
  /\ assess' = inputs
  /\ IF inputs
     THEN worker' = "next" /\ UNCHANGED verdict
     ELSE \E s \in Interrupted \cup (IF cancel THEN {} ELSE {"failed"}) : Ends(s)
  /\ UNCHANGED <<status, stage, result, ack, provider, cancel, case, outcomes, vouched>> /\ Filed

Ready(c) == \A d \in Depends[c] : outcomes[d] = "passed"

SkipsCase ==
  /\ worker = "next" /\ case <= Size /\ ~Ready(case)
  /\ case' = case + 1
  /\ UNCHANGED <<worker, outcomes, assess, verdict, vouched>> /\ OnlyWork

TakesCase ==
  /\ Goes("next", "verify") /\ case <= Size /\ Ready(case) /\ ~cancel
  /\ UNCHANGED <<caseVars, verdict, vouched>> /\ OnlyWork

StopsBetweenCases ==
  /\ worker = "next" /\ case <= Size /\ Ready(case)
  /\ \E s \in Interrupted : Ends(s)
  /\ UNCHANGED <<case, outcomes, assess, vouched>> /\ OnlyWork

AllCasesDone ==
  /\ worker = "next" /\ case > Size
  /\ Ends(IF \E c \in Cases : outcomes[c] \in {"failed", "blocked"} THEN "failed" ELSE "succeeded")
  /\ UNCHANGED <<case, outcomes, assess, vouched>> /\ OnlyWork

\* Inputs or executable differ, or the case cannot be run: nothing may be assessed.
Invalid ==
  /\ outcomes' = [outcomes EXCEPT ![case] = "failed"]
  /\ assess' = FALSE
  /\ Ends("failed")

VerifiesInputs ==
  /\ worker = "verify"
  /\ IF inputs
     THEN worker' = "unlink" /\ UNCHANGED <<outcomes, assess, verdict>>
     ELSE Invalid
  /\ UNCHANGED <<case, vouched>> /\ OnlyWork

\* Faulty: the acknowledgment of an earlier case is kept.
UnlinksNothing ==
  /\ Goes("unlink", "spawn")
  /\ UNCHANGED <<caseVars, verdict, vouched>> /\ OnlyWork

\* Every case start invalidates the earlier acknowledgment.
UnlinksAck ==
  /\ Goes("unlink", "spawn")
  /\ ack' = (ack /\ ~CleanupRequired)
  /\ UNCHANGED <<status, stage, result, progress, provider, cancel>>
  /\ UNCHANGED <<caseVars, verdict, vouched>> /\ Filed

SpawnsCase ==
  /\ worker = "spawn"
  /\ \/ worker' = "record" /\ program' = "gated" /\ UNCHANGED <<outcomes, assess, verdict>>
     \/ Invalid /\ UNCHANGED program
  /\ UNCHANGED <<case, vouched, inputs, resource, fileVars, noticeVars, closeVars, countVars>>

RecordsCase ==
  /\ Goes("record", "release")
  /\ provider' = case
  /\ UNCHANGED <<status, stage, result, progress, ack, cancel>>
  /\ UNCHANGED <<caseVars, verdict, vouched>> /\ Filed

\* The gate opens; a device case takes its resource.
ReleasesCase ==
  /\ Goes("release", "wait")
  /\ program' = "running"
  /\ resource' \in {resource} \cup (IF CleanupRequired THEN {"held"} ELSE {})
  /\ UNCHANGED <<inputs, case, outcomes, assess, verdict, vouched>>
  /\ UNCHANGED <<fileVars, noticeVars, closeVars, countVars>>

\* _wait_case after the program has ended by itself, and _case_receipt: an
\* expected exit is what a valid receipt says.  No valid receipt (nothing may
\* be assessed) or an end by a signal stops the batch.
CaseEnds ==
  /\ Goes("wait", "check") /\ program \in {"well", "badly"}
  /\ \E o \in Outcomes \ {"not-run"} :
       /\ o # "failed" => program = "well"
       /\ outcomes' = [outcomes EXCEPT ![case] = o]
  /\ \/ UNCHANGED <<verdict, assess>>
     \/ verdict' = "failed" /\ outcomes'[case] = "failed"
        /\ assess' \in IF program = "badly" THEN {assess, FALSE} ELSE {FALSE}
  /\ program' = "none"
  /\ UNCHANGED <<case, vouched, inputs, resource, fileVars, noticeVars, closeVars, countVars>>

\* _wait_case past a deadline or after a cancellation stops the owned processes.
CaseStopped ==
  /\ Goes("wait", "check") /\ program = "running"
  /\ program' = "none"
  /\ outcomes' = [outcomes EXCEPT ![case] = "failed"]
  /\ \E s \in Interrupted : verdict' = s
  /\ UNCHANGED <<case, assess, vouched, inputs, resource, fileVars, noticeVars, closeVars, countVars>>

\* ... or could not: cleanup remains unconfirmed.
CaseStopRefused ==
  /\ Goes("wait", "check") /\ program = "running" /\ refusals < MaxRefusals
  /\ refusals' = refusals + 1
  /\ outcomes' = [outcomes EXCEPT ![case] = "failed"]
  /\ verdict' = "failed"
  /\ UNCHANGED <<case, assess, vouched, kills, edits, fileVars, noticeVars, worldVars, closeVars>>

\* Inputs are looked at again; only then the outcome is on record.
Recorded ==
  /\ progress' = Gathered
  /\ vouched' = IF inputs THEN vouched \cup {case} ELSE vouched
  /\ IF verdict = "none"
     THEN worker' = "next" /\ case' = case + 1 /\ UNCHANGED verdict
     ELSE Ends(verdict) /\ UNCHANGED case
  /\ UNCHANGED <<outcomes, assess>>

\* Faulty: inputs are looked at before the case only.
ChecksNothing ==
  /\ worker = "check" /\ Recorded
  /\ UNCHANGED <<status, stage, result, ack, provider, cancel>> /\ Filed

ChecksInputs ==
  /\ worker = "check"
  /\ IF inputs THEN Recorded ELSE Invalid /\ UNCHANGED <<progress, vouched, case>>
  /\ UNCHANGED <<status, stage, result, ack, provider, cancel>> /\ Filed

-----------------------------------------------------------------------------
(* The worker: _finish_after_cleanup and finish *)

\* terminate_owned; a gated program is none of its business.
Stopped == program' = IF program = "gated" THEN "gated" ELSE "none"

\* Signals may be refused while the program runs.
Refused ==
  /\ program = "running" /\ refusals < MaxRefusals
  /\ refusals' = refusals + 1
  /\ UNCHANGED program

CleansUp ==
  /\ worker = "closing"
  /\ \/ Stopped /\ UNCHANGED refusals
        /\ worker' = IF CleanupConfirmed THEN "result" ELSE "pending"
     \/ Refused /\ worker' = "pending"
  /\ UNCHANGED <<caseVars, verdict, vouched, inputs, resource, kills, edits>>
  /\ UNCHANGED <<fileVars, noticeVars, closeVars>>

WritesResult ==
  /\ LET Written(kind) == result' = [kind |-> kind, state |-> verdict, evidence |-> Gathered]
     IN  \/ Goes("result", "publish") /\ Written("final")
         \/ Goes("pending", "asks") /\ Written("pending")
  /\ UNCHANGED <<status, stage, progress, ack, provider, cancel>>
  /\ UNCHANGED <<caseVars, verdict, vouched>> /\ Filed

\* The terminal status comes last; an unclean end only changes the stage.
Publishes ==
  /\ \/ Goes("publish", "notifying") /\ status' = verdict /\ stage' = FALSE
     \/ Goes("asks", "notifying") /\ stage' = TRUE /\ UNCHANGED status
  /\ UNCHANGED <<result, progress, ack, provider, cancel, caseVars, verdict, vouched>> /\ Filed

Executes ==
  \/ ExecuteBegins \/ SkipsCase \/ TakesCase \/ StopsBetweenCases \/ AllCasesDone
  \/ VerifiesInputs \/ UnlinksAck \/ SpawnsCase \/ RecordsCase \/ ReleasesCase
  \/ CaseEnds \/ CaseStopped \/ CaseStopRefused \/ ChecksInputs
  \/ CleansUp \/ WritesResult \/ Publishes

-----------------------------------------------------------------------------
(* The guardian and finish_cleanup *)

Gone(who) == who \in {"gone", "killed"}

\* Faulty: the guardian waits for the worker, dead or not.
GuardianWaits ==
  /\ guardian = "watching" /\ Ended
  /\ Stopped /\ guardian' = "leaving"
  /\ UNCHANGED <<closer, inputs, resource, fileVars, noticeVars, workVars, countVars>>

\* The guardian acts on a terminal status or a dead worker, once the recorded
\* programs have stopped; until then it tries again.
GuardianStops ==
  /\ guardian = "watching" /\ (Ended \/ Gone(worker)) /\ closer = NoCloser
  /\ \/ /\ Stopped /\ UNCHANGED refusals
        /\ IF Ended THEN guardian' = "leaving" /\ UNCHANGED closer
           ELSE closer' = [who |-> "guardian", at |-> "judge"] /\ UNCHANGED guardian
     \/ Refused /\ UNCHANGED closeVars
  /\ UNCHANGED <<inputs, resource, kills, edits, fileVars, noticeVars, workVars>>

\* recover: a polling caller finds both supervisors dead and stops the programs.
CallerStops(c) ==
  /\ Gone(worker) /\ Gone(guardian) /\ ~Ended /\ closer = NoCloser
  /\ \/ Stopped /\ closer' = [who |-> c, at |-> "judge"] /\ UNCHANGED refusals
     \/ Refused /\ UNCHANGED closer
  /\ UNCHANGED <<guardian, inputs, resource, kills, edits, fileVars, noticeVars, workVars>>

\* Faulty: the guardian just leaves when all is over.
ReturnsSilently(over) ==
  /\ closer' = NoCloser
  /\ guardian' = IF closer.who # "guardian" THEN guardian
                 ELSE IF over THEN "gone" ELSE "notifying"

\* finish_cleanup returns; the guardian attempts a notice and leaves if all is over.
Returned(over) ==
  /\ closer' = NoCloser
  /\ guardian' = IF closer.who # "guardian" THEN guardian
                 ELSE IF over THEN "leaving" ELSE "notifying"

Judges ==
  /\ closer.at = "judge"
  /\ IF Ended THEN Returned(TRUE) /\ UNCHANGED stage
     ELSE IF ~CleanupConfirmed THEN Returned(FALSE) /\ stage' = TRUE
     ELSE closer' = [closer EXCEPT !.at = "result"] /\ UNCHANGED <<guardian, stage>>
  /\ UNCHANGED <<status, result, progress, ack, provider, cancel>> /\ Closed

\* recover_result: a pending end is kept; otherwise only the inventory is, and
\* a dead worker attests nothing.
Recovered == IF result.kind = "pending" THEN result.evidence
             ELSE [progress EXCEPT !.assess = FALSE]

ClosingState == IF cancel THEN "cancelled"
                ELSE IF result.kind = "pending" THEN result.state ELSE "failed"

ClosesResult ==
  /\ closer.at = "result"
  /\ closer' = [closer EXCEPT !.at = "publish"]
  /\ result' = [kind |-> "final", state |-> ClosingState, evidence |-> Recovered]
  /\ UNCHANGED <<status, stage, progress, ack, provider, cancel, guardian>> /\ Closed

\* Faulty: the stage still asks for cleanup.
ClosesKeepingStage ==
  /\ closer.at = "publish"
  /\ status' = result.state
  /\ Returned(TRUE)
  /\ UNCHANGED <<stage, result, progress, ack, provider, cancel>> /\ Closed

ClosesStatus ==
  /\ closer.at = "publish"
  /\ status' = result.state /\ stage' = FALSE
  /\ Returned(TRUE)
  /\ UNCHANGED <<result, progress, ack, provider, cancel>> /\ Closed

Closes == Judges \/ ClosesResult \/ ClosesStatus

-----------------------------------------------------------------------------
(* deliver *)

\* What a worker knew of its cases ends with it.
ForgetsCases == case' = 1 /\ outcomes' = NoEvidence.cases /\ assess' = FALSE

\* A supervisor goes on after its one attempt.
Attempted(d) ==
  /\ IF d = "worker" THEN worker' = "gone" /\ ForgetsCases ELSE UNCHANGED <<worker, caseVars>>
  /\ guardian' = IF d # "guardian" THEN guardian
                 ELSE IF guardian = "leaving" THEN "gone" ELSE "watching"
  /\ UNCHANGED <<verdict, vouched, closer>>

\* The locals of deliver end with it.
Forgets(d) ==
  /\ about' = [about EXCEPT ![d] = "terminal"]
  /\ retry' = [retry EXCEPT ![d] = FALSE]

Attempts(d) ==
  /\ sender[d] = "idle"
  /\ d = "worker" => worker = "notifying"
  /\ d = "guardian" => guardian \in {"notifying", "leaving"}

Due == stage \/ Ended

\* What status.json calls for is decided before the lock is taken.
Reads(d, again) ==
  /\ Attempts(d) /\ (again => d \in Callers)
  /\ IF Due
     THEN /\ sender' = [sender EXCEPT ![d] = "waits"]
          /\ about' = [about EXCEPT ![d] = IF stage THEN "attention" ELSE "terminal"]
          /\ retry' = [retry EXCEPT ![d] = again]
          /\ UNCHANGED <<workVars, closeVars>>
     ELSE Attempted(d) /\ UNCHANGED <<sender, about, retry>>
  /\ UNCHANGED <<notice, noticeLock, sent, retries, told, fileVars, worldVars, countVars>>

\* An earlier attempt, whatever became of it, stands unless a retry is asked for.
Unanswered(d) == TRUE                                                       \* faulty

Answered(d) == notice[about[d]] # "none" /\ (~retry[d] \/ notice[about[d]] = "queued")
StillToSend(d) == ~Answered(d)

Locks(d) ==
  /\ sender[d] = "waits" /\ noticeLock = "none"
  /\ IF StillToSend(d)
     THEN /\ IF retry[d] /\ notice[about[d]] # "none"
             THEN retries[about[d]] < MaxRetries /\ retries' = [retries EXCEPT ![about[d]] = @ + 1]
             ELSE UNCHANGED retries
          /\ noticeLock' = d
          /\ sender' = [sender EXCEPT ![d] = "sends"]
          /\ notice' = [notice EXCEPT ![about[d]] = "sending"]
          /\ told' = IF about[d] = "terminal" THEN result ELSE told
          /\ UNCHANGED <<workVars, closeVars, about, retry>>
     ELSE /\ sender' = [sender EXCEPT ![d] = "idle"]
          /\ Attempted(d) /\ Forgets(d)
          /\ UNCHANGED <<notice, noticeLock, retries, told>>
  /\ UNCHANGED sent
  /\ UNCHANGED <<fileVars, worldVars, countVars>>

\* The host accepts the message; a timeout may strike after it has.
Accepts(k) == sent' = [sent EXCEPT ![k] = @ + 1]

SendEnds(d) ==
  /\ sender[d] = "sends"
  /\ \/ Accepts(about[d]) /\ notice' = [notice EXCEPT ![about[d]] = "queued"]
     \/ /\ Accepts(about[d]) \/ UNCHANGED sent
        /\ notice' = [notice EXCEPT ![about[d]] = "failed"]
  /\ noticeLock' = "none" /\ sender' = [sender EXCEPT ![d] = "idle"]
  /\ Attempted(d) /\ Forgets(d)
  /\ UNCHANGED <<retries, told, fileVars, worldVars, countVars>>

-----------------------------------------------------------------------------
(* Programs, the project, its inputs, and losses *)

ProgramEnds ==
  /\ program = "running" /\ program' \in {"well", "badly"}
  /\ UNCHANGED <<inputs, resource, fileVars, noticeVars, workVars, closeVars, countVars>>

\* The case's own program, or a recovery runner once cleanup is asked for.
RunnerActs == program = "running" \/ (stage /\ ~Ended)

RunnerReleases ==
  /\ RunnerActs /\ resource = "held" /\ resource' = "free"
  /\ UNCHANGED <<inputs, program, fileVars, noticeVars, workVars, closeVars, countVars>>

RunnerAcknowledges ==
  /\ RunnerActs /\ CleanupRequired /\ resource = "free" /\ ~ack /\ ack' = TRUE
  /\ UNCHANGED <<status, stage, result, progress, provider, cancel>>
  /\ UNCHANGED <<noticeVars, worldVars, workVars, closeVars, countVars>>

InputsChange ==
  /\ ~Gone(worker)   \* nobody looks later
  /\ edits < MaxEdits /\ edits' = edits + 1 /\ inputs' = ~inputs
  /\ UNCHANGED <<resource, program, kills, refusals, fileVars, noticeVars, workVars, closeVars>>

Cancels ==
  /\ ~cancel /\ cancel' = TRUE
  /\ UNCHANGED <<status, stage, result, progress, ack, provider>>
  /\ UNCHANGED <<noticeVars, worldVars, workVars, closeVars, countVars>>

\* Whoever dies frees its locks; a message it was sending may still arrive.
Loses(d) ==
  /\ kills < MaxKills /\ kills' = kills + 1 /\ UNCHANGED <<refusals, edits>>
  /\ sender' = [sender EXCEPT ![d] = "idle"]
  /\ noticeLock' = IF noticeLock = d THEN "none" ELSE noticeLock
  /\ UNCHANGED sent \/ (sender[d] = "sends" /\ Accepts(about[d]))
  /\ closer' = IF closer.who = d THEN NoCloser ELSE closer
  /\ Forgets(d)
  /\ UNCHANGED <<notice, retries, told>>

\* A gated program never starts without its worker.
WorkerKilled ==
  /\ ~Gone(worker) /\ Loses("worker")
  /\ worker' = "killed" /\ ForgetsCases
  /\ program' = IF program = "gated" THEN "none" ELSE program
  /\ UNCHANGED <<verdict, vouched, inputs, resource, guardian>>
  /\ UNCHANGED fileVars

GuardianKilled ==
  /\ ~Gone(guardian) /\ Loses("guardian")
  /\ guardian' = "killed"
  /\ UNCHANGED <<fileVars, worldVars, workVars>>

CallerKilled(c) ==
  /\ (closer.who = c \/ sender[c] # "idle") /\ Loses(c)
  /\ UNCHANGED <<guardian, fileVars, worldVars, workVars>>

-----------------------------------------------------------------------------

Supervises == Executes \/ GuardianStops \/ Closes

Delivers == \E d \in Senders :
  \/ \E again \in BOOLEAN : Reads(d, again)
  \/ Locks(d) \/ SendEnds(d)

World ==
  \/ ProgramEnds \/ RunnerReleases \/ RunnerAcknowledges \/ InputsChange \/ Cancels
  \/ WorkerKilled \/ GuardianKilled \/ \E c \in Callers : CallerKilled(c) \/ CallerStops(c)

Next == Supervises \/ Delivers \/ World

Spec == Init /\ [][Next]_vars

\* Worker and guardian run on while they live, and a caller's delivery ends
\* within its ten seconds.  Nothing is assumed of the project, its programs, the
\* host, or a caller's polling.
Attempt(d) == Reads(d, FALSE) \/ Locks(d) \/ SendEnds(d)

WorkerRuns == Executes \/ Attempt("worker")

GuardianRuns ==
  \/ Stopped /\ GuardianStops
  \/ (closer.who = "guardian" /\ Closes)
  \/ Attempt("guardian")

Fairness ==
  /\ WF_vars(WorkerRuns) /\ WF_vars(GuardianRuns)
  /\ \A c \in Callers : WF_vars(SendEnds(c))

FairSpec == Spec /\ Fairness

-----------------------------------------------------------------------------
(* Properties *)

\* A batch reaches a terminal state only when none of its programs runs and the
\* project has released what it holds: an acknowledgment of an earlier case, a
\* lost worker or a refused signal never gives the claim away (cleanup_confirmed,
\* _run_case).
TerminalClean == Ended => program \notin {"gated", "running"} /\ resource = "free"

\* The published result vouches for no more than was looked at: a case that ran
\* had its dependencies passed; an assessable result comes from a worker that
\* reached the end of execute and vouched for every pass; success means that all
\* cases passed (execute, finish, recover_result).
PublishedEvidence == result.kind # "none" =>
  LET seen == result.evidence.cases IN
  /\ \A c \in Cases : seen[c] # "not-run" => \A d \in Depends[c] : seen[d] = "passed"
  /\ result.evidence.assess => verdict # "none" /\ {c \in Cases : seen[c] = "passed"} \subseteq vouched
  /\ status = "succeeded" => result.kind = "final" /\ result.evidence.assess
                               /\ \A c \in Cases : seen[c] = "passed"

\* However worker, guardian and callers race or die, the task gets each notice
\* at most once, and once more per explicit retry; and the completion notice
\* names the digest of the result that stays (deliver, finish, finish_cleanup).
NoticesTrue ==
  /\ \A k \in Kinds : sent[k] <= 1 + retries[k]
  /\ told.kind # "none" => Ended /\ told = result

\* A supervisor never tells that ownership remains held once the batch has
\* ended: only an explicit delivery can, decided before the end (deliver).
AttentionTrue == [][\A d \in {"worker", "guardian"} :
  sender[d] = "waits" /\ sender'[d] = "sends" /\ about[d] = "attention" => ~Ended]_vars

BothLost == Gone(worker) /\ guardian = "killed"

\* Every end is followed by an attempt to tell the task, unless both supervisors
\* are lost (Worker.run, guardian.main).
NoticesArrive == Ended ~> (notice["terminal"] # "none" \/ BothLost)

\* A batch ends, or the task is told that it needs cleanup, unless both
\* supervisors are lost (guardian.main, finish_cleanup).
BatchSettles == <>(Ended \/ notice["attention"] # "none" \/ BothLost)
=============================================================================
