---------------------------- MODULE RuntimeEnable ----------------------------
(***************************************************************************)
(* The one-time switch of a repository to startup updates: the runtime     *)
(* directory is moved away and becomes a pointer to a generation of its    *)
(* own, under a journal; with the bootstrap launcher that installs the     *)
(* locked wheel, both recoveries, lock updates and the processes that run  *)
(* from the environment (startup_integration.py, startup_installation.py,  *)
(* governance-bootstrap.py, installation.py, runtime_access.py).           *)
(*                                                                         *)
(* An environment is its number; an installation is the version of the     *)
(* lock it was made from and whether it is complete.                       *)
(***************************************************************************)
EXTENDS Naturals, FiniteSets, Sequences

CONSTANTS
  Operators,   \* processes that enable, bootstrap or recover
  Users,       \* processes that run from the environment
  ManagedFiles,  \* the tracked files that enabling changes
  MaxEnvironments, MaxLocks  \* bounds on installations and on versions of the lock

ASSUME EnableAssumption ==
  /\ MaxEnvironments \in Nat \ {0} /\ MaxLocks \in Nat \ {0} /\ ManagedFiles # {}
  /\ "nobody" \notin Operators

VARIABLES
  runtime,      \* .governance/runtime: absent, a directory or a pointer
  environments, \* what was installed, in order
  journal,      \* .governance/startup/enable.json
  integrated,   \* managed files already written
  pinned,       \* the version in config/governance/runtime.lock.yaml
  operator,     \* what each operator is doing
  exclusiveUse, \* the operator that holds runtime-use.lock
  uses          \* the environment and the place each user runs from

enableVars == <<runtime, environments, journal, integrated, pinned, operator, exclusiveUse, uses>>

Nobody == "nobody"
NoJournal == [previous |-> 0, candidate |-> 0, pinned |-> 0]
Absent == [kind |-> "absent", env |-> 0]
Directory(e) == [kind |-> "directory", env |-> e]
Pointer(e) == [kind |-> "pointer", env |-> e]
Resting == [at |-> "rest", kind |-> "none", env |-> 0]
NoUse == [env |-> 0, place |-> "none"]

EnableInit ==
  /\ runtime = Absent /\ environments = <<>> /\ journal = NoJournal /\ integrated = {} /\ pinned = 1
  /\ operator = [o \in Operators |-> Resting] /\ exclusiveUse = Nobody
  /\ uses = [u \in Users |-> NoUse]

Complete(e) == e \in DOMAIN environments /\ environments[e].complete
Runnable == runtime.kind # "absent" /\ Complete(runtime.env)
Place(e) == IF runtime = Directory(e) THEN "runtime" ELSE "generations"

Free == exclusiveUse = Nobody /\ \A u \in Users : uses[u] = NoUse
Doing(o, kind, at) == operator[o].kind = kind /\ operator[o].at = at
GoesOn(o, at) == operator' = [operator EXCEPT ![o].at = at]
Leaves(o) == operator' = [operator EXCEPT ![o] = Resting] /\ exclusiveUse' = Nobody

\* The locks are taken at once or the operation is refused; what it finds then
\* decides whether it goes on.
Begin(o) ==
  /\ operator[o] = Resting /\ Free
  /\ \E kind \in {"enable", "recover", "bootstrap", "restore"} :
       /\ kind \in {"enable", "recover"} => Runnable
       /\ (kind \in {"enable", "bootstrap"}) = (journal = NoJournal)
       /\ kind = "restore" => runtime.kind = "absent" /\ pinned = journal.pinned
       /\ kind = "recover" => pinned = journal.pinned
       /\ operator' = [operator EXCEPT ![o] = [at |-> "begun", kind |-> kind, env |-> 0]]
  /\ exclusiveUse' = o
  /\ UNCHANGED <<runtime, environments, journal, integrated, pinned, uses>>

-----------------------------------------------------------------------------
(* Installing (install_locked): the environment is made, then filled. *)

Installs(o) ==
  Doing(o, "bootstrap", "begun") \/ (Doing(o, "enable", "begun") /\ runtime.kind = "directory")

\* A bootstrap clears the directory in place; any other goes beside it.
Create(o) ==
  /\ Installs(o) /\ Len(environments) < MaxEnvironments
  /\ environments' = Append(environments, [pinned |-> pinned, complete |-> FALSE])
  /\ operator' = [operator EXCEPT ![o].at = "filling", ![o].env = Len(environments) + 1]
  /\ runtime' = IF operator[o].kind = "bootstrap" /\ runtime.kind # "pointer"
                THEN Directory(Len(environments) + 1) ELSE runtime
  /\ UNCHANGED <<journal, integrated, pinned, exclusiveUse, uses>>

Fill(o) ==
  /\ operator[o].at = "filling"
  /\ \/ environments' = [environments EXCEPT ![operator[o].env].complete = TRUE] /\ GoesOn(o, "filled") /\ UNCHANGED exclusiveUse
     \/ Leaves(o) /\ UNCHANGED environments
  /\ UNCHANGED <<runtime, journal, integrated, pinned, uses>>

\* replace_generation switches the pointer; a directory is in place already.
Bootstrapped(o) ==
  /\ Doing(o, "bootstrap", "filled") /\ Leaves(o)
  /\ runtime' = IF runtime.kind = "pointer" THEN Pointer(operator[o].env) ELSE runtime
  /\ UNCHANGED <<environments, journal, integrated, pinned, uses>>

-----------------------------------------------------------------------------
(* enable: the candidate, the tracked files, the journal, the switch. *)

Integrating(o) ==
  Doing(o, "enable", "filled") \/ (Doing(o, "enable", "begun") /\ runtime.kind = "pointer")

Integrate(o) ==
  /\ Integrating(o)
  /\ \E f \in ManagedFiles \ integrated : integrated' = integrated \cup {f}
  /\ UNCHANGED <<runtime, environments, journal, pinned, operator, exclusiveUse, uses>>

\* Faulty: the journal is written after the move.
MoveFirst(o) ==
  /\ Integrating(o) /\ integrated = ManagedFiles /\ runtime.kind = "directory"
  /\ runtime' = Absent /\ GoesOn(o, "journalled")
  /\ UNCHANGED <<environments, journal, integrated, pinned, exclusiveUse, uses>>

\* Nothing is left to do when the runtime is a pointer already.
Integrated(o) ==
  /\ Integrating(o) /\ integrated = ManagedFiles
  /\ IF runtime.kind = "pointer" THEN Leaves(o) /\ UNCHANGED journal
     ELSE /\ journal' = [previous |-> runtime.env, candidate |-> operator[o].env, pinned |-> pinned]
          /\ GoesOn(o, "journalled") /\ UNCHANGED exclusiveUse
  /\ UNCHANGED <<runtime, environments, integrated, pinned, uses>>

Move(o) ==
  /\ Doing(o, "enable", "journalled") /\ runtime' = Absent /\ GoesOn(o, "moved")
  /\ UNCHANGED <<environments, journal, integrated, pinned, exclusiveUse, uses>>

\* The pointer is made beside and renamed into place.
ActivateCandidate(o) ==
  /\ Doing(o, "enable", "moved") /\ runtime' = Pointer(operator[o].env) /\ GoesOn(o, "switched")
  /\ UNCHANGED <<environments, journal, integrated, pinned, exclusiveUse, uses>>

Closed(o) == journal' = NoJournal /\ Leaves(o) /\ UNCHANGED <<runtime, environments, integrated, pinned, uses>>
Close(o) == Doing(o, "enable", "switched") /\ Closed(o)

-----------------------------------------------------------------------------
(* The two recoveries: recover_enable of the installed runtime, and of the *)
(* launcher when there is none to run.                                     *)

RecoverApplies == runtime \in {Directory(journal.previous), Pointer(journal.candidate)}
RestoreApplies == runtime = Absent /\ Complete(journal.previous)

RecoverEnable(o) ==
  /\ Doing(o, "recover", "begun")
  /\ IF RecoverApplies /\ pinned = journal.pinned THEN Closed(o)
     ELSE Leaves(o) /\ UNCHANGED <<runtime, environments, journal, integrated, pinned, uses>>

Restore(o) ==
  /\ Doing(o, "restore", "begun") /\ RestoreApplies
  /\ runtime' = Directory(journal.previous) /\ GoesOn(o, "restored")
  /\ UNCHANGED <<environments, journal, integrated, pinned, exclusiveUse, uses>>
Restored(o) == Doing(o, "restore", "restored") /\ Closed(o)

-----------------------------------------------------------------------------
\* The operator is killed: its locks go, what it wrote stays.
KillOperator(o) ==
  /\ operator[o] # Resting /\ Leaves(o)
  /\ UNCHANGED <<runtime, environments, journal, integrated, pinned, uses>>

\* update --to --apply, or the lock of another commit; it takes no lock.
PinAnother ==
  /\ \E v \in (1 .. MaxLocks) \ {pinned} : pinned' = v
  /\ UNCHANGED <<runtime, environments, journal, integrated, operator, exclusiveUse, uses>>

\* A process that registers its use (runtime_access) runs until it ends.
Use(u) ==
  /\ uses[u] = NoUse /\ exclusiveUse = Nobody /\ Runnable
  /\ uses' = [uses EXCEPT ![u] = [env |-> runtime.env, place |-> Place(runtime.env)]]
  /\ UNCHANGED <<runtime, environments, journal, integrated, pinned, operator, exclusiveUse>>
EndUse(u) ==
  /\ uses[u] # NoUse /\ uses' = [uses EXCEPT ![u] = NoUse]
  /\ UNCHANGED <<runtime, environments, journal, integrated, pinned, operator, exclusiveUse>>

EnableNext ==
  \/ PinAnother
  \/ \E u \in Users : Use(u) \/ EndUse(u)
  \/ \E o \in Operators :
       \/ Begin(o) \/ Create(o) \/ Fill(o) \/ Bootstrapped(o) \/ Integrate(o) \/ Integrated(o)
       \/ Move(o) \/ ActivateCandidate(o) \/ Close(o) \/ RecoverEnable(o) \/ Restore(o) \/ Restored(o) \/ KillOperator(o)

EnableSpec == EnableInit /\ [][EnableNext]_enableVars

-----------------------------------------------------------------------------
(* Properties. *)

\* Wherever enabling, a bootstrap or a recovery is killed: a pointer leads to a
\* complete generation; a runtime that is gone is named by the journal, whole;
\* a journal left behind is one that a recovery resolves while the lock is the
\* one it names; the instructions are written before the switch they describe;
\* and an environment in use stays where it is (enable, recover_enable,
\* governance-bootstrap.py main).
EnableRecovers ==
  /\ runtime.kind = "pointer" => Complete(runtime.env) /\ integrated = ManagedFiles
  /\ runtime.kind = "absent" /\ environments # <<>> => journal # NoJournal
  /\ journal # NoJournal =>
       /\ Complete(journal.previous) /\ Complete(journal.candidate) /\ journal.previous # journal.candidate
       /\ RecoverApplies \/ RestoreApplies
       /\ integrated = ManagedFiles
  /\ \A u \in Users : uses[u] # NoUse => Complete(uses[u].env) /\ Place(uses[u].env) = uses[u].place
=============================================================================
