--------------------------- MODULE RuntimeUpdates ---------------------------
(***************************************************************************)
(* Startup runtime updates: startup.py (native session events, receipts,   *)
(* finish), startup_transaction.py (apply, recover), startup_git.py        *)
(* (snapshots and the isolated commit) and runtime_access.py (readers).    *)
(*                                                                         *)
(* One worktree serves the version "old" and one update to "new" is on     *)
(* offer.  Every top-level task has a host process, at most one hook and   *)
(* at most one startup command.  Commands, hooks and ordinary readers meet *)
(* in two non-blocking file locks (update.lock, runtime-use.lock), the     *)
(* update journal and the task receipts; receipts are rewritten from an    *)
(* earlier reading, and not always under a lock.                           *)
(*                                                                         *)
(* Enabling the integration, bootstrap and release metadata are not part   *)
(* of this module; a release on offer is always eligible.                  *)
(***************************************************************************)
EXTENDS Naturals, Sequences

CONSTANTS
  Tasks,       \* native top-level tasks of the worktree
  Readers,     \* ordinary processes running from the installed runtime
  NoTask,
  MaxHosts,    \* bound on the host processes a task runs under, one by one
  MaxForeign,  \* bound on commits and edits by others
  MaxCrashes,  \* bound on killed commands and hooks
  Orphans,     \* may git commit outlive the updater that started it?
  Overlap      \* may a task's hook run while one of its commands does?

ASSUME UpdateAssumption ==
  /\ NoTask \notin Tasks
  /\ Tasks \cap Readers = {}
  /\ MaxHosts \in Nat /\ MaxForeign \in Nat /\ MaxCrashes \in Nat
  /\ Orphans \in BOOLEAN /\ Overlap \in BOOLEAN

VARIABLES
  pointer,   \* version .governance/runtime points to
  lockFile,  \* version in runtime.lock.yaml of the worktree
  commits,   \* the branch: lock version of every commit, HEAD last
  git,       \* the git commit the updater started
  authority, \* revision of profile, packs and hooks
  work,      \* revision of the unrelated work in the worktree and index
  journal,   \* transaction.json
  updateLock, \* holder of update.lock
  exclusive, \* exclusive holder of runtime-use.lock
  shared,    \* shared holders of runtime-use.lock
  receipts,  \* receipts[t]: <task>.json
  pc,        \* where the startup command of a task is
  mode,      \* "apply", "recover", "finish" or "none"
  left,      \* receipts other_tasks has not looked at
  target,    \* the task whose receipt is being rewritten
  copy,      \* the reading that rewrite starts from
  before,    \* the snapshot the command works with
  answer,    \* what the command will report
  hook,      \* where the native hook of a task is
  kind,      \* the event it handles
  draft,     \* the receipt it has read or prepared
  loaded,    \* version a hook or reader process was started from
  reader,    \* where an ordinary reader is
  host,      \* the live host process of a task, 0 if none
  hosts,     \* host processes the task has had
  uses,      \* the version a task has been told to work with, or "none"
  foreign, crashes  \* counters of MaxForeign and MaxCrashes

fileVars    == <<pointer, lockFile, commits, git, authority, work, journal>>
lockVars    == <<updateLock, exclusive, shared>>
commandVars == <<pc, mode, left, target, copy, before, answer>>
hookVars    == <<hook, kind, draft>>
hostVars    == <<host, hosts>>
countVars   == <<foreign, crashes>>
vars == <<fileVars, lockVars, receipts, commandVars, hookVars, loaded, reader,
          hostVars, uses, countVars>>

-----------------------------------------------------------------------------

Versions == {"old", "new"}
Results  == {"none", "reserved", "available", "refresh", "wait", "updated", "retained"}
Receipts ==
  [state : {"none", "open", "closed"}, owner : Nat, lock : Versions \cup {"none"},
   result : Results]
NoReceipt == [state |-> "none", owner |-> 0, lock |-> "none", result |-> "none"]

Commits   == [lock : Versions, isolated : BOOLEAN]
Snapshots == [head : Nat, authority : Nat, work : Nat]
NoSnapshot == [head |-> 0, authority |-> 0, work |-> 0]
Phases    == {"none", "prepared", "activated", "committed"}
Journals  == [task : Tasks \cup {NoTask}, phase : Phases, before : Snapshots]
NoJournal == [task |-> NoTask, phase |-> "none", before |-> NoSnapshot]
Children  == [state : {"none", "running", "committed", "failed"}, lock : Versions, parent : Nat]
NoChild   == [state |-> "none", lock |-> "old", parent |-> 0]

\* apply from its first lock to the journal, inside the try block, in
\* _restore, after it; recover; finish.
Assessing == {"scan", "disown", "prepare", "claim", "rescan", "redisown"}
Trying    == {"activate", "lockfile", "mark", "doctor", "commit", "waiting", "verify",
              "marked", "check"}
Restoring == {"restore", "oldlock", "oldpointer", "confirm"}
Closing   == {"revalidate", "receipt", "rewrite", "unlink"}
Points    == {"idle", "journal", "adopt", "release"} \cup Assessing \cup Trying
               \cup Restoring \cup Closing
HookPoints == {"idle", "called", "register", "refused", "discover", "searching",
               "publish", "ending", "close"}

\* transaction.json exists.
Journalled == journal.task # NoTask

HeadLock == commits[Len(commits)].lock

Snapshot == [head |-> Len(commits), authority |-> authority, work |-> work]

\* snapshot raises unless the lock file is the committed one.
Eligible == lockFile = HeadLock

\* assert_unchanged
Unchanged(snap, committed) ==
  /\ committed \/ Len(commits) = snap.head
  /\ authority = snap.authority /\ work = snap.work

\* Faulty: every commit on top of the journal's counts as its own.
CommitStateByParent(snap) ==
  IF Len(commits) = snap.head THEN "none"
  ELSE IF Len(commits) = snap.head + 1 THEN "own" ELSE "foreign"

\* _committed: HEAD is still the journal's, its own isolated commit, or neither.
CommitState(snap) ==
  IF Len(commits) = snap.head THEN "none"
  ELSE IF Len(commits) = snap.head + 1 /\ commits[Len(commits)] = [lock |-> "new", isolated |-> TRUE]
       THEN "own" ELSE "foreign"

\* _receipt: the calling task holds an open reservation of the current lock.
Holds(t) == receipts[t].state = "open" /\ receipts[t].lock = lockFile

\* owner_gone: the recorded host is positively absent or replaced.
OwnerGone(o, receipt) == receipt.owner # 0 /\ receipt.owner # host[o]

Others(t) == {o \in Tasks \ {t} : receipts[o].state # "none"}

TypeOK ==
  /\ pointer \in Versions /\ lockFile \in Versions
  /\ commits \in Seq(Commits) /\ Len(commits) > 0
  /\ git \in Children
  /\ authority \in Nat /\ work \in Nat
  /\ journal \in Journals
  /\ updateLock \in Tasks \cup {NoTask} /\ exclusive \in Tasks \cup {NoTask}
  /\ shared \subseteq Tasks \cup Readers
  /\ receipts \in [Tasks -> Receipts]
  /\ pc \in [Tasks -> Points]
  /\ mode \in [Tasks -> {"none", "apply", "recover", "finish"}]
  /\ left \in [Tasks -> SUBSET Tasks]
  /\ target \in [Tasks -> Tasks \cup {NoTask}]
  /\ copy \in [Tasks -> Receipts]
  /\ before \in [Tasks -> Snapshots]
  /\ answer \in [Tasks -> Results]
  /\ hook \in [Tasks -> HookPoints]
  /\ kind \in [Tasks -> {"none", "startup", "resume", "prompt", "end"}]
  /\ draft \in [Tasks -> Receipts]
  /\ loaded \in [Tasks \cup Readers -> Versions \cup {"none"}]
  /\ reader \in [Readers -> {"out", "started", "inside"}]
  /\ host \in [Tasks -> Nat] /\ hosts \in [Tasks -> Nat]
  /\ uses \in [Tasks -> Versions \cup {"none"}]
  /\ foreign \in Nat /\ crashes \in Nat

Init ==
  /\ pointer = "old" /\ lockFile = "old"
  /\ commits = <<[lock |-> "old", isolated |-> FALSE]>>
  /\ git = NoChild
  /\ authority = 0 /\ work = 0
  /\ journal = NoJournal
  /\ updateLock = NoTask /\ exclusive = NoTask /\ shared = {}
  /\ receipts = [t \in Tasks |-> NoReceipt]
  /\ pc = [t \in Tasks |-> "idle"] /\ mode = [t \in Tasks |-> "none"]
  /\ left = [t \in Tasks |-> {}] /\ target = [t \in Tasks |-> NoTask]
  /\ copy = [t \in Tasks |-> NoReceipt]
  /\ before = [t \in Tasks |-> NoSnapshot] /\ answer = [t \in Tasks |-> "none"]
  /\ hook = [t \in Tasks |-> "idle"] /\ kind = [t \in Tasks |-> "none"]
  /\ draft = [t \in Tasks |-> NoReceipt]
  /\ loaded = [p \in Tasks \cup Readers |-> "none"]
  /\ reader = [r \in Readers |-> "out"]
  /\ host = [t \in Tasks |-> 0] /\ hosts = [t \in Tasks |-> 0]
  /\ uses = [t \in Tasks |-> "none"]
  /\ foreign = 0 /\ crashes = 0

-----------------------------------------------------------------------------
(* Steps of a startup command *)

\* A host runs one command of the task at a time, unless turns overlap not
\* beside one of its hooks.
CanRun(t) == pc[t] = "idle" /\ host[t] # 0 /\ (Overlap \/ hook[t] = "idle")

\* The process ends: the kernel drops its file locks, its memory is gone.
Gone(t) ==
  /\ pc' = [pc EXCEPT ![t] = "idle"] /\ mode' = [mode EXCEPT ![t] = "none"]
  /\ left' = [left EXCEPT ![t] = {}] /\ target' = [target EXCEPT ![t] = NoTask]
  /\ copy' = [copy EXCEPT ![t] = NoReceipt]
  /\ before' = [before EXCEPT ![t] = NoSnapshot] /\ answer' = [answer EXCEPT ![t] = "none"]
  /\ updateLock' = NoTask /\ exclusive' = NoTask /\ UNCHANGED shared

\* The command goes on at point p and changes no memory, lock or receipt.
Goes(t, p) ==
  /\ pc' = [pc EXCEPT ![t] = p]
  /\ UNCHANGED <<mode, left, target, copy, before, answer, lockVars, receipts>>

\* Everything that is neither a file of the update nor the command's.
Elsewhere == UNCHANGED <<hookVars, loaded, reader, hostVars, uses, countVars>>

-----------------------------------------------------------------------------
(* apply: assessment and preparation *)

\* Calls refused by update.lock, a journal, the receipt or the answer on record
\* change nothing and are left out.
ApplyBegins(t) ==
  /\ CanRun(t)
  /\ updateLock = NoTask /\ ~Journalled
  /\ Holds(t) /\ receipts[t].result = "available"
  /\ updateLock' = t
  /\ pc' = [pc EXCEPT ![t] = "scan"] /\ mode' = [mode EXCEPT ![t] = "apply"]
  /\ left' = [left EXCEPT ![t] = Others(t)]
  /\ UNCHANGED <<fileVars, exclusive, shared, receipts, target, copy, before, answer>>
  /\ Elsewhere

\* other_tasks looks at one receipt: closed ones are skipped, one whose owner is
\* gone is about to be rewritten as closed, any other ends the command.
Looks(t, o) ==
  /\ pc[t] \in {"scan", "rescan"} /\ o \in left[t]
  /\ IF receipts[o].state = "closed"
     THEN /\ left' = [left EXCEPT ![t] = @ \ {o}]
          /\ UNCHANGED <<pc, mode, target, copy, before, answer, lockVars>>
     ELSE IF OwnerGone(o, receipts[o])
     THEN /\ target' = [target EXCEPT ![t] = o]
          /\ copy' = [copy EXCEPT ![t] = receipts[o]]
          /\ pc' = [pc EXCEPT ![t] = IF @ = "scan" THEN "disown" ELSE "redisown"]
          /\ UNCHANGED <<mode, left, before, answer, lockVars>>
     ELSE Gone(t)
  /\ UNCHANGED <<fileVars, receipts>> /\ Elsewhere

Disowns(t) ==
  /\ pc[t] \in {"disown", "redisown"}
  /\ receipts' = [receipts EXCEPT ![target[t]] = [copy[t] EXCEPT !.state = "closed"]]
  /\ left' = [left EXCEPT ![t] = @ \ {target[t]}]
  /\ pc' = [pc EXCEPT ![t] = IF @ = "disown" THEN "scan" ELSE "rescan"]
  /\ target' = [target EXCEPT ![t] = NoTask] /\ copy' = [copy EXCEPT ![t] = NoReceipt]
  /\ UNCHANGED <<fileVars, lockVars, mode, before, answer>> /\ Elsewhere

\* First snapshot, authority digest and environment, then the installation of
\* the candidate beside the live runtime, without runtime-use.lock.  A snapshot is
\* also refused by Git operations and changes this module does not tell apart.
Assesses(t) ==
  /\ pc[t] = "scan" /\ left[t] = {}
  /\ \/ /\ Eligible
        /\ before' = [before EXCEPT ![t] = Snapshot]
        /\ pc' = [pc EXCEPT ![t] = "prepare"]
        /\ UNCHANGED <<mode, left, target, copy, answer, lockVars>>
     \/ Gone(t)
  /\ UNCHANGED <<fileVars, receipts>> /\ Elsewhere

Prepares(t) ==
  /\ pc[t] = "prepare"
  /\ Goes(t, "claim") \/ (Gone(t) /\ UNCHANGED receipts)
  /\ UNCHANGED fileVars /\ Elsewhere

\* Faulty: the other tasks are not looked at again under the exclusive lock.
ClaimsUnscanned(t) ==
  /\ pc[t] = "claim"
  /\ IF exclusive = NoTask /\ shared = {} /\ Holds(t)
     THEN /\ exclusive' = t
          /\ pc' = [pc EXCEPT ![t] = "rescan"]
          /\ UNCHANGED <<mode, left, target, copy, before, answer, updateLock, shared>>
     ELSE Gone(t)
  /\ UNCHANGED <<fileVars, receipts>> /\ Elsewhere

\* runtime-use.lock is taken exclusively and the receipt is read again.
Claims(t) ==
  /\ pc[t] = "claim"
  /\ IF exclusive = NoTask /\ shared = {} /\ Holds(t)
     THEN /\ exclusive' = t
          /\ pc' = [pc EXCEPT ![t] = "rescan"]
          /\ left' = [left EXCEPT ![t] = Others(t)]
          /\ UNCHANGED <<mode, target, copy, before, answer, updateLock, shared>>
     ELSE Gone(t)
  /\ UNCHANGED <<fileVars, receipts>> /\ Elsewhere

\* The second snapshot replaces the first unless governance authority moved.
Reassesses(t) ==
  /\ pc[t] = "rescan" /\ left[t] = {}
  /\ \/ /\ Eligible /\ authority = before[t].authority
        /\ before' = [before EXCEPT ![t] = Snapshot]
        /\ pc' = [pc EXCEPT ![t] = "journal"]
        /\ UNCHANGED <<mode, left, target, copy, answer, lockVars>>
     \/ Gone(t)
  /\ UNCHANGED <<fileVars, receipts>> /\ Elsewhere

-----------------------------------------------------------------------------
(* apply: activation and commit, inside the try block *)

WritesJournal(t) ==
  /\ pc[t] = "journal"
  /\ journal' = [task |-> t, phase |-> "prepared", before |-> before[t]]
  /\ Goes(t, "activate")
  /\ UNCHANGED <<pointer, lockFile, commits, git, authority, work>> /\ Elsewhere

Activates(t) ==
  /\ pc[t] = "activate"
  /\ pointer' = "new"
  /\ Goes(t, "lockfile")
  /\ UNCHANGED <<lockFile, commits, git, authority, work, journal>> /\ Elsewhere

WritesLock(t) ==
  /\ pc[t] = "lockfile"
  /\ lockFile' = "new"
  /\ Goes(t, "mark")
  /\ UNCHANGED <<pointer, commits, git, authority, work, journal>> /\ Elsewhere

\* The journal's phase is written twice: before the doctor and after the commit.
Marks(t) ==
  /\ \/ pc[t] = "mark" /\ journal' = [journal EXCEPT !.phase = "activated"] /\ Goes(t, "doctor")
     \/ pc[t] = "marked" /\ journal' = [journal EXCEPT !.phase = "committed"] /\ Goes(t, "check")
  /\ UNCHANGED <<pointer, lockFile, commits, git, authority, work>> /\ Elsewhere

DoctorPasses(t) ==
  /\ pc[t] = "doctor"
  /\ Goes(t, "commit")
  /\ UNCHANGED fileVars /\ Elsewhere

\* commit_lock up to the start of git commit, which reads the lock file at once.
StartsCommit(t) ==
  /\ pc[t] = "commit"
  /\ Unchanged(before[t], FALSE) /\ lockFile = "new"
  /\ git' = [state |-> "running", lock |-> lockFile, parent |-> Len(commits)]
  /\ Goes(t, "waiting")
  /\ UNCHANGED <<pointer, lockFile, commits, authority, work, journal>> /\ Elsewhere

\* git commit ends; past its deadline its process group is killed, which may come
\* after the commit.
CommitReturns(t) ==
  /\ pc[t] = "waiting"
  /\ git' = NoChild
  /\ Goes(t, "restore") \/ (git.state = "committed" /\ Goes(t, "verify"))
  /\ UNCHANGED <<pointer, lockFile, commits, authority, work, journal>> /\ Elsewhere

\* commit_lock after git commit: parent, tree, lock file, everything else.
Verifies(t) ==
  /\ pc[t] = "verify"
  /\ CommitState(before[t]) = "own" /\ lockFile = "new" /\ Unchanged(before[t], TRUE)
  /\ Goes(t, "marked")
  /\ UNCHANGED fileVars /\ Elsewhere

Checks(t) ==
  /\ pc[t] = "check" /\ pointer = "new"
  /\ answer' = [answer EXCEPT ![t] = "updated"]
  /\ pc' = [pc EXCEPT ![t] = "receipt"]
  /\ UNCHANGED <<fileVars, lockVars, receipts, mode, left, target, copy, before>> /\ Elsewhere

\* Any step of the try block may fail: a failed check, a deadline, a full disk.
Fails(t) ==
  /\ pc[t] \in Trying \ {"waiting"}
  /\ Goes(t, "restore")
  /\ UNCHANGED fileVars /\ Elsewhere

-----------------------------------------------------------------------------
(* _restore, in the exception handler of apply and in recover *)

\* Faulty: a journal that is merely prepared is taken for nothing to recover.
RecoverBeginsActivated(t) ==
  /\ CanRun(t)
  /\ updateLock = NoTask /\ exclusive = NoTask /\ shared = {}
  /\ Journalled /\ journal.phase # "prepared"
  /\ updateLock' = t /\ exclusive' = t
  /\ pc' = [pc EXCEPT ![t] = "adopt"] /\ mode' = [mode EXCEPT ![t] = "recover"]
  /\ before' = [before EXCEPT ![t] = journal.before]
  /\ UNCHANGED <<fileVars, shared, receipts, left, target, copy, answer>> /\ Elsewhere

RecoverBegins(t) ==
  /\ CanRun(t)
  /\ updateLock = NoTask /\ exclusive = NoTask /\ shared = {}
  /\ Journalled
  /\ updateLock' = t /\ exclusive' = t
  /\ pc' = [pc EXCEPT ![t] = "adopt"] /\ mode' = [mode EXCEPT ![t] = "recover"]
  /\ before' = [before EXCEPT ![t] = journal.before]
  /\ UNCHANGED <<fileVars, shared, receipts, left, target, copy, answer>> /\ Elsewhere

\* recover becomes the journal's owner and derives its phase from HEAD.
Adopts(t) ==
  /\ pc[t] = "adopt"
  /\ IF CommitState(before[t]) = "foreign"
     THEN Gone(t) /\ UNCHANGED <<receipts, journal>>
     ELSE /\ journal' = [journal EXCEPT !.phase =
                           IF CommitState(before[t]) = "own" THEN "committed" ELSE "activated"]
          /\ Goes(t, "restore")
  /\ UNCHANGED <<pointer, lockFile, commits, git, authority, work>> /\ Elsewhere

\* _restore judges HEAD once; lock file and pointer then follow that judgement.
Judges(t) ==
  /\ pc[t] = "restore"
  /\ IF CommitState(before[t]) = "foreign"
     THEN Gone(t)
     ELSE /\ answer' = [answer EXCEPT ![t] =
                          IF CommitState(before[t]) = "own" THEN "updated" ELSE "retained"]
          /\ pc' = [pc EXCEPT ![t] = "oldlock"]
          /\ UNCHANGED <<mode, left, target, copy, before, lockVars>>
  /\ UNCHANGED <<fileVars, receipts>> /\ Elsewhere

Follows(t) == IF answer[t] = "updated" THEN "new" ELSE "old"

\* Faulty: only the runtime pointer is restored.
RestoresLockNot(t) ==
  /\ pc[t] = "oldlock"
  /\ Goes(t, "oldpointer")
  /\ UNCHANGED fileVars /\ Elsewhere

RestoresLock(t) ==
  /\ pc[t] = "oldlock"
  /\ lockFile' = Follows(t)
  /\ Goes(t, "oldpointer")
  /\ UNCHANGED <<pointer, commits, git, authority, work, journal>> /\ Elsewhere

RestoresPointer(t) ==
  /\ pc[t] = "oldpointer"
  /\ pointer' = Follows(t)
  /\ Goes(t, "confirm")
  /\ UNCHANGED <<lockFile, commits, git, authority, work, journal>> /\ Elsewhere

\* assert_unchanged; apply leaves a committed update to recover, which asks the
\* committed runtime's doctor first.
Confirms(t) ==
  /\ pc[t] = "confirm"
  /\ IF ~Unchanged(before[t], answer[t] = "updated") \/ (mode[t] = "apply" /\ answer[t] = "updated")
     THEN Gone(t) /\ UNCHANGED receipts
     ELSE Goes(t, IF answer[t] = "updated" THEN "revalidate" ELSE "receipt")
  /\ UNCHANGED fileVars /\ Elsewhere

Revalidates(t) ==
  /\ pc[t] = "revalidate"
  /\ Goes(t, "receipt") \/ (Gone(t) /\ UNCHANGED receipts)
  /\ UNCHANGED fileVars /\ Elsewhere

\* _complete_receipt reads the receipt of the journal's task and writes it back.
ReadsReceipt(t) ==
  /\ pc[t] = "receipt"
  /\ copy' = [copy EXCEPT ![t] = receipts[journal.task]]
  /\ pc' = [pc EXCEPT ![t] = "rewrite"]
  /\ UNCHANGED <<fileVars, lockVars, receipts, mode, left, target, before, answer>> /\ Elsewhere

RewritesReceipt(t) ==
  /\ pc[t] = "rewrite"
  /\ receipts' = [receipts EXCEPT ![journal.task] =
                    [copy[t] EXCEPT !.lock = lockFile, !.result = answer[t]]]
  /\ pc' = [pc EXCEPT ![t] = "unlink"]
  /\ UNCHANGED <<fileVars, lockVars, mode, left, target, copy, before, answer>> /\ Elsewhere

\* The journal goes last; the parent of a finished apply works with its answer.
Unlinks(t) ==
  /\ pc[t] = "unlink"
  /\ journal' = NoJournal
  /\ uses' = IF mode[t] = "apply" /\ answer[t] = "updated" THEN [uses EXCEPT ![t] = lockFile] ELSE uses
  /\ Gone(t)
  /\ UNCHANGED <<pointer, lockFile, commits, git, authority, work, receipts>>
  /\ UNCHANGED <<hookVars, loaded, reader, hostVars, countVars>>

-----------------------------------------------------------------------------
(* finish, and commands that are killed *)

FinishBegins(t) ==
  /\ CanRun(t)
  /\ updateLock = NoTask /\ receipts[t].state = "open"
  /\ updateLock' = t
  /\ copy' = [copy EXCEPT ![t] = receipts[t]]
  /\ pc' = [pc EXCEPT ![t] = "release"] /\ mode' = [mode EXCEPT ![t] = "finish"]
  /\ UNCHANGED <<fileVars, exclusive, shared, receipts, left, target, before, answer>>
  /\ Elsewhere

Releases(t) ==
  /\ pc[t] = "release"
  /\ receipts' = [receipts EXCEPT ![t] = [copy[t] EXCEPT !.state = "closed"]]
  /\ uses' = [uses EXCEPT ![t] = "none"]
  /\ Gone(t)
  /\ UNCHANGED <<fileVars, hookVars, loaded, reader, hostVars, countVars>>

\* SIGKILL or an interrupt, which the handler of apply does not catch.  git commit
\* runs in a session of its own and may go on.
Killed(t) ==
  /\ pc[t] # "idle" /\ crashes < MaxCrashes
  /\ crashes' = crashes + 1
  /\ git' = IF Orphans THEN git ELSE NoChild
  /\ Gone(t)
  /\ UNCHANGED <<pointer, lockFile, commits, authority, work, journal, receipts>>
  /\ UNCHANGED <<hookVars, loaded, reader, hostVars, uses, foreign>>

Begins(t) == ApplyBegins(t) \/ RecoverBegins(t) \/ FinishBegins(t)

Continues(t) ==
  \/ (\E o \in Tasks : Looks(t, o)) \/ Disowns(t) \/ Assesses(t)
  \/ Prepares(t) \/ Claims(t) \/ Reassesses(t) \/ WritesJournal(t) \/ Activates(t)
  \/ WritesLock(t) \/ Marks(t) \/ DoctorPasses(t) \/ StartsCommit(t) \/ CommitReturns(t)
  \/ Verifies(t) \/ Checks(t) \/ Fails(t)
  \/ Adopts(t) \/ Judges(t) \/ RestoresLock(t) \/ RestoresPointer(t)
  \/ Confirms(t) \/ Revalidates(t) \/ ReadsReceipt(t) \/ RewritesReceipt(t) \/ Unlinks(t)
  \/ Releases(t)

-----------------------------------------------------------------------------
(* Native session events: handle_event and _register_and_discover *)

HookIs(t, p) == hook' = [hook EXCEPT ![t] = p]

\* The hook process returns or is killed.
HookGone(t) ==
  /\ HookIs(t, "idle")
  /\ kind' = [kind EXCEPT ![t] = "none"] /\ draft' = [draft EXCEPT ![t] = NoReceipt]
  /\ loaded' = [loaded EXCEPT ![t] = "none"]
  /\ shared' = shared \ {t}
  /\ updateLock' = IF hook[t] = "searching" THEN NoTask ELSE updateLock
  /\ UNCHANGED exclusive

\* The parent reads the answer: it waits, or works with the active runtime.
Told(t, result) ==
  uses' = [uses EXCEPT ![t] = IF result = "wait" THEN "none" ELSE lockFile]

Event(t, k) ==
  /\ host[t] # 0 /\ hook[t] = "idle" /\ (Overlap \/ pc[t] = "idle")
  /\ HookIs(t, IF k = "end" THEN "ending" ELSE "called")
  /\ kind' = [kind EXCEPT ![t] = k]
  /\ loaded' = [loaded EXCEPT ![t] = pointer]
  /\ UNCHANGED <<fileVars, lockVars, receipts, commandVars, draft, reader, hostVars,
                 uses, countVars>>

\* Faulty: the journal is not looked for.
AdmittedDuringRecovery(p) == exclusive = NoTask /\ loaded[p] = pointer

\* runtime_reader: the shared lock, the active environment, no journal.
Admitted(p) == exclusive = NoTask /\ loaded[p] = pointer /\ ~Journalled

HookEnters(t) ==
  /\ hook[t] = "called"
  /\ IF Admitted(t)
     THEN HookIs(t, "register") /\ shared' = shared \cup {t}
     ELSE HookIs(t, "refused") /\ UNCHANGED shared
  /\ draft' = [draft EXCEPT ![t] = receipts[t]]
  /\ UNCHANGED <<fileVars, updateLock, exclusive, receipts, commandVars, kind, loaded,
                 reader, hostVars, uses, countVars>>

\* What a registration answers before any discovery.
Answered(t) ==
  IF draft[t].state # "none" /\ draft[t].lock # lockFile THEN "refresh"
  ELSE IF draft[t].state = "open" /\ kind[t] \in {"prompt", "startup"} THEN draft[t].result
  ELSE "reserved"

Reservation(t) ==
  [state |-> "open", owner |-> host[t],
   lock |-> IF draft[t].state = "none" THEN lockFile ELSE draft[t].lock,
   result |-> Answered(t)]

Discovers(t) == draft[t].state = "none" /\ kind[t] = "startup"

HookRegisters(t) ==
  /\ hook[t] = "register"
  /\ receipts' = [receipts EXCEPT ![t] = Reservation(t)]
  /\ IF Discovers(t)
     THEN /\ HookIs(t, "discover")
          /\ draft' = [draft EXCEPT ![t] = Reservation(t)]
          /\ UNCHANGED <<kind, loaded, lockVars, uses>>
     ELSE HookGone(t) /\ Told(t, Answered(t))
  /\ UNCHANGED <<fileVars, commandVars, reader, hostVars, countVars>>

\* Discovery needs update.lock; without it the runtime is kept.
DiscoveryStarts(t) ==
  /\ hook[t] = "discover"
  /\ IF updateLock = NoTask
     THEN updateLock' = t /\ HookIs(t, "searching")
     ELSE HookIs(t, "publish") /\ UNCHANGED updateLock
  /\ UNCHANGED <<fileVars, exclusive, shared, receipts, commandVars, kind, draft, loaded,
                 reader, hostVars, uses, countVars>>

DiscoveryEnds(t) ==
  /\ hook[t] = "searching"
  /\ \E r \in {"reserved"} \cup (IF lockFile = "old" THEN {"available"} ELSE {}) :
       draft' = [draft EXCEPT ![t].result = r]
  /\ updateLock' = NoTask
  /\ HookIs(t, "publish")
  /\ UNCHANGED <<fileVars, exclusive, shared, receipts, commandVars, kind, loaded,
                 reader, hostVars, uses, countVars>>

\* The receipt prepared before discovery is written over the file.
HookPublishes(t) ==
  /\ hook[t] = "publish"
  /\ receipts' = [receipts EXCEPT ![t] = draft[t]]
  /\ HookGone(t) /\ Told(t, draft[t].result)
  /\ UNCHANGED <<fileVars, commandVars, reader, hostVars, countVars>>

\* Runtime access refused: the reservation is written all the same, without a lock.
HookRefused(t) ==
  /\ hook[t] = "refused"
  /\ receipts' = [receipts EXCEPT ![t] =
                    [draft[t] EXCEPT !.state = "open", !.owner = host[t], !.result = "wait"]]
  /\ HookGone(t) /\ Told(t, "wait")
  /\ UNCHANGED <<fileVars, commandVars, reader, hostVars, countVars>>

\* SessionEnd reads the receipt and writes it back as closed, without a lock.
EndReads(t) ==
  /\ hook[t] = "ending"
  /\ draft' = [draft EXCEPT ![t] = receipts[t]]
  /\ HookIs(t, "close")
  /\ UNCHANGED <<fileVars, lockVars, receipts, commandVars, kind, loaded, reader, hostVars,
                 uses, countVars>>

EndCloses(t) ==
  /\ hook[t] = "close"
  /\ receipts' = IF draft[t].state = "none" THEN receipts
                 ELSE [receipts EXCEPT ![t] = [draft[t] EXCEPT !.state = "closed"]]
  /\ HookGone(t)
  /\ uses' = [uses EXCEPT ![t] = "none"]
  /\ UNCHANGED <<fileVars, commandVars, reader, hostVars, countVars>>

\* The host kills a hook past its timeout.
HookKilled(t) ==
  /\ hook[t] # "idle" /\ crashes < MaxCrashes
  /\ crashes' = crashes + 1
  /\ HookGone(t)
  /\ UNCHANGED <<fileVars, receipts, commandVars, reader, hostVars, uses, foreign>>

Hook(t) ==
  \/ HookEnters(t) \/ HookRegisters(t) \/ DiscoveryStarts(t) \/ DiscoveryEnds(t)
  \/ HookPublishes(t) \/ HookRefused(t) \/ EndReads(t) \/ EndCloses(t)

-----------------------------------------------------------------------------
(* Hosts, readers, git and other writers *)

HostStarts(t) ==
  /\ host[t] = 0 /\ hosts[t] < MaxHosts
  /\ hosts' = [hosts EXCEPT ![t] = @ + 1] /\ host' = [host EXCEPT ![t] = hosts[t] + 1]
  /\ UNCHANGED <<fileVars, lockVars, receipts, commandVars, hookVars, loaded, reader, uses, countVars>>

\* A host that exits without SessionEnd leaves its receipt open.
HostExits(t) ==
  /\ host[t] # 0 /\ pc[t] = "idle" /\ hook[t] = "idle"
  /\ host' = [host EXCEPT ![t] = 0] /\ uses' = [uses EXCEPT ![t] = "none"]
  /\ UNCHANGED <<fileVars, lockVars, receipts, commandVars, hookVars, loaded, reader, hosts, countVars>>

ReaderStarts(r) ==
  /\ reader[r] = "out"
  /\ reader' = [reader EXCEPT ![r] = "started"]
  /\ loaded' = [loaded EXCEPT ![r] = pointer]
  /\ UNCHANGED <<fileVars, lockVars, receipts, commandVars, hookVars, hostVars, uses, countVars>>

ReaderEnters(r) ==
  /\ reader[r] = "started" /\ Admitted(r)
  /\ reader' = [reader EXCEPT ![r] = "inside"]
  /\ shared' = shared \cup {r}
  /\ UNCHANGED <<fileVars, updateLock, exclusive, receipts, commandVars, hookVars, loaded,
                 hostVars, uses, countVars>>

\* The process ends, refused or done.
ReaderEnds(r) ==
  /\ reader[r] # "out"
  /\ reader' = [reader EXCEPT ![r] = "out"]
  /\ shared' = shared \ {r}
  /\ loaded' = [loaded EXCEPT ![r] = "none"]
  /\ UNCHANGED <<fileVars, updateLock, exclusive, receipts, commandVars, hookVars, hostVars,
                 uses, countVars>>

\* The hooks of git commit end; the commit fails if one fails or HEAD has moved.
GitEnds ==
  /\ git.state = "running"
  /\ \/ /\ Len(commits) = git.parent
        /\ commits' = Append(commits, [lock |-> git.lock, isolated |-> TRUE])
        /\ git' = [git EXCEPT !.state = "committed"]
     \/ /\ git' = [git EXCEPT !.state = "failed"]
        /\ UNCHANGED commits
  /\ UNCHANGED <<pointer, lockFile, authority, work, journal, lockVars, receipts, commandVars>>
  /\ Elsewhere

\* Somebody else commits (not beside a running git commit, which holds
\* index.lock), with or without the lock file, or edits what snapshots compare.
OthersWrite ==
  /\ foreign < MaxForeign
  /\ foreign' = foreign + 1
  /\ \/ /\ git.state # "running"
        /\ \E l \in {HeadLock, lockFile} : commits' = Append(commits, [lock |-> l, isolated |-> FALSE])
        /\ UNCHANGED <<authority, work>>
     \/ authority' = authority + 1 /\ UNCHANGED <<commits, work>>
     \/ work' = work + 1 /\ UNCHANGED <<commits, authority>>
  /\ UNCHANGED <<pointer, lockFile, git, journal, lockVars, receipts, commandVars>>
  /\ UNCHANGED <<hookVars, loaded, reader, hostVars, uses, crashes>>

Next ==
  \/ \E t \in Tasks :
       \/ Begins(t) \/ Continues(t) \/ Killed(t) \/ Hook(t) \/ HookKilled(t) \/ HostStarts(t) \/ HostExits(t)
       \/ \E k \in {"startup", "resume", "prompt", "end"} : Event(t, k)
  \/ \E r \in Readers : ReaderStarts(r) \/ ReaderEnters(r) \/ ReaderEnds(r)
  \/ GitEnds \/ OthersWrite

Spec == Init /\ [][Next]_vars

\* Started commands and hooks run on; git hooks end; whoever is told that recovery
\* is required keeps calling startup recover, whose locks refuse at once when they
\* are taken; the doctor of a committed runtime does not fail for ever.  Nothing
\* is assumed of hosts, readers and new events.
Fairness ==
  /\ \A t \in Tasks :
       /\ WF_vars(Continues(t)) /\ WF_vars(Hook(t))
       /\ SF_vars(RecoverBegins(t))
       /\ SF_vars(Revalidates(t) /\ pc'[t] = "receipt")
  /\ WF_vars(GitEnds)

FairSpec == Spec /\ Fairness

-----------------------------------------------------------------------------
(* Properties *)

\* Everything that runs from the installed runtime while the gate is open sees
\* one version, and no activation happens under it.
GateUsers ==
  [u \in Tasks \cup Readers |-> IF u \in shared THEN loaded[u] ELSE "none"]
GateServing == IF exclusive = NoTask /\ ~Journalled THEN pointer ELSE "closed"
Gate == INSTANCE RuntimeGate WITH Users <- Tasks \cup Readers, serving <- GateServing, using <- GateUsers
GateRefined == Gate!GateSpec

\* Whoever was killed in an update, ordinary commands are admitted only when
\* runtime pointer and lock file name the same version.
NoPartialActivation ==
  exclusive = NoTask /\ ~Journalled => pointer = lockFile

\* ... and HEAD names it too, once no git commit of an update is left.
SettledAgrees ==
  exclusive = NoTask /\ ~Journalled /\ git.state # "running" =>
    pointer = lockFile /\ lockFile = HeadLock

\* The runtime under a task that has been told to work with it is not replaced
\* by another task's update.
ReservationKept ==
  [][\A t \in Tasks : pointer' # pointer /\ uses[t] # "none" => journal.task = t]_vars

\* An interrupted update is resolved as long as some task's host is there to run
\* startup recover and nobody else changes the worktree.
RecoveryConverges ==
  Journalled ~> ~Journalled \/ foreign > 0 \/ \A t \in Tasks : host[t] = 0
=============================================================================
