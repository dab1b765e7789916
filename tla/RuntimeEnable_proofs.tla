------------------------- MODULE RuntimeEnable_proofs -------------------------
(***************************************************************************)
(* Proofs about RuntimeEnable for every set of operators, users and managed *)
(* files and any number of installations, pins and kills: wherever          *)
(* enabling, a bootstrap or a recovery stops, the runtime can be recovered. *)
(***************************************************************************)
EXTENDS RuntimeEnable, TLAPS

-----------------------------------------------------------------------------
(* The inductive invariant *)

Points == {"rest", "begun", "filling", "filled", "journalled", "moved", "switched", "restored"}
Kinds  == {"none", "enable", "recover", "bootstrap", "restore"}
Operations == [at : Points, kind : Kinds, env : Nat]

EnableTypes ==
  /\ runtime \in [kind : {"absent", "directory", "pointer"}, env : Nat]
  /\ environments \in Seq([pinned : Nat, complete : BOOLEAN])
  /\ journal \in [previous : Nat, candidate : Nat, pinned : Nat]
  /\ integrated \subseteq ManagedFiles
  /\ pinned \in Nat
  /\ operator \in [Operators -> Operations]
  /\ uses \in [Users -> [env : Nat, place : {"none", "runtime", "generations"}]]

\* One operator at a time, and nobody runs from the environment meanwhile.
LockInv ==
  \A o \in Operators : operator[o] # Resting => exclusiveUse = o /\ \A u \in Users : uses[u] = NoUse

\* What an operator has brought about, or found, at each place it can be.
PlaceOf(o) ==
  LET at == operator[o].at  e == operator[o].env IN
  /\ Doing(o, "enable", "begun") => journal = NoJournal /\ Runnable
  /\ operator[o].kind = "enable" /\ at \in {"filling", "filled"} =>
       journal = NoJournal /\ Runnable /\ runtime.kind = "directory" /\ e \in DOMAIN environments /\ e # runtime.env
  /\ Doing(o, "enable", "journalled") => journal # NoJournal /\ runtime = Directory(journal.previous) /\ journal.candidate = e
  /\ Doing(o, "enable", "moved") => journal # NoJournal /\ runtime = Absent /\ journal.candidate = e
  /\ Doing(o, "enable", "switched") => runtime = Pointer(journal.candidate)
  /\ operator[o].kind = "bootstrap" => journal = NoJournal
  /\ operator[o].kind = "bootstrap" /\ at \in {"filling", "filled"} =>
       e \in DOMAIN environments /\ (runtime = Directory(e) \/ runtime.kind = "pointer")
  /\ at = "filling" => operator[o].kind \in {"enable", "bootstrap"}
  /\ at = "filled" => Complete(e)
  /\ Doing(o, "restore", "restored") => runtime = Directory(journal.previous)

PlaceInv == \A o \in Operators : PlaceOf(o)

EnableInv == EnableTypes /\ LockInv /\ PlaceInv /\ EnableRecovers

-----------------------------------------------------------------------------
(* Lemmas *)

LEMMA EnableInvInit == EnableInit => EnableInv
<1>. SUFFICES ASSUME EnableInit PROVE EnableInv
  OBVIOUS
<1>1. EnableTypes
  BY EnableAssumption DEF EnableInit, EnableTypes, Absent, NoJournal, Resting, Operations, Points, Kinds, NoUse
<1>2. \A o \in Operators : operator[o] = Resting
  BY DEF EnableInit
<1>3. LockInv
  BY <1>2 DEF LockInv
<1>4. PlaceInv
  BY <1>2 DEF PlaceInv, PlaceOf, Doing, Resting
<1>5. EnableRecovers
  BY DEF EnableInit, EnableRecovers, Absent
<1>. QED
  BY <1>1, <1>3, <1>4, <1>5 DEF EnableInv

\* An operator at work is the only one.
LEMMA Alone ==
  ASSUME EnableInv, NEW o \in Operators, operator[o] # Resting \/ Free
  PROVE  \A p \in Operators \ {o} : operator[p] = Resting
BY EnableAssumption DEF EnableInv, LockInv, Free, Nobody

\* An operator that leaves leaves nobody at work.
LEMMA LeavesKeeps ==
  ASSUME EnableInv, NEW o \in Operators, operator[o] # Resting, Leaves(o), UNCHANGED uses
  PROVE  operator' \in [Operators -> Operations] /\ LockInv' /\ PlaceInv'
<1>1. operator' \in [Operators -> Operations]
  BY DEF EnableInv, EnableTypes, Leaves, Resting, Operations, Points, Kinds
<1>2. \A p \in Operators : operator'[p] = Resting
  BY Alone DEF EnableInv, EnableTypes, Leaves
<1>3. LockInv'
  BY <1>2 DEF LockInv, Resting
<1>4. PlaceInv'
  BY <1>2 DEF PlaceInv, PlaceOf, Doing, Resting
<1>. QED
  BY <1>1, <1>3, <1>4

\* An operator that goes on stays alone.
LEMMA GoesOnKeeps ==
  ASSUME EnableInv, NEW o \in Operators, operator[o] # Resting \/ Free, NEW v \in Operations,
         operator' = [operator EXCEPT ![o] = v], exclusiveUse' = o, UNCHANGED uses, PlaceOf(o)'
  PROVE  operator' \in [Operators -> Operations] /\ LockInv' /\ PlaceInv'
<1>1. operator' \in [Operators -> Operations]
  BY DEF EnableInv, EnableTypes
<1>2. \A p \in Operators \ {o} : operator'[p] = Resting
  BY Alone DEF EnableInv, EnableTypes
<1>3. \A u \in Users : uses[u] = NoUse
  BY DEF EnableInv, LockInv, Free
<1>4. LockInv'
  BY <1>2, <1>3 DEF LockInv, Resting, NoUse
<1>5. PlaceInv'
  BY <1>2 DEF PlaceInv, PlaceOf, Doing, Resting
<1>. QED
  BY <1>1, <1>4, <1>5

\* What GoesOn means for one operator.
LEMMA GoesOnIs ==
  ASSUME EnableInv, NEW o \in Operators, NEW at \in Points, GoesOn(o, at)
  PROVE  \E v \in Operations : /\ operator' = [operator EXCEPT ![o] = v] /\ operator'[o] = v
                               /\ v.at = at /\ v.kind = operator[o].kind /\ v.env = operator[o].env
<1>. DEFINE v == [operator[o] EXCEPT !.at = at]
<1>1. operator \in [Operators -> Operations]
  BY DEF EnableInv, EnableTypes
<1>2. v \in Operations /\ v.at = at /\ v.kind = operator[o].kind /\ v.env = operator[o].env
  BY <1>1 DEF Operations
<1>3. operator' = [operator EXCEPT ![o] = v]
  BY DEF GoesOn
<1>. QED
  BY <1>1, <1>2, <1>3

-----------------------------------------------------------------------------
(* Every step *)

LEMMA BeginKeeps ==
  ASSUME EnableInv, NEW o \in Operators, Begin(o)
  PROVE  EnableInv'
<1>1. PICK kind \in {"enable", "recover", "bootstrap", "restore"} :
        /\ kind \in {"enable", "recover"} => Runnable
        /\ (kind \in {"enable", "bootstrap"}) = (journal = NoJournal)
        /\ operator' = [operator EXCEPT ![o] = [at |-> "begun", kind |-> kind, env |-> 0]]
  BY DEF Begin
<1>2. /\ operator[o] = Resting /\ Free /\ exclusiveUse' = o
      /\ UNCHANGED <<runtime, environments, journal, integrated, pinned, uses>>
  BY DEF Begin
<1>. DEFINE v == [at |-> "begun", kind |-> kind, env |-> 0]
<1>3. v \in Operations /\ operator'[o] = v
  BY <1>1 DEF Operations, Points, Kinds, EnableInv, EnableTypes
<1>4. PlaceOf(o)'
  BY <1>1, <1>2, <1>3 DEF PlaceOf, Doing, Runnable, Complete
<1>5. operator' \in [Operators -> Operations] /\ LockInv' /\ PlaceInv'
  BY <1>1, <1>2, <1>3, <1>4, GoesOnKeeps
<1>6. EnableRecovers'
  BY <1>2 DEF EnableInv, EnableRecovers, Complete, RecoverApplies, RestoreApplies, Place
<1>. QED
  BY <1>2, <1>5, <1>6 DEF EnableInv, EnableTypes

\* Installing adds an environment, and completes it.
LEMMA CreateKeeps ==
  ASSUME EnableInv, NEW o \in Operators, Create(o)
  PROVE  EnableInv'
<1>. PICK e \in Nat : e = Len(environments) + 1
  BY DEF EnableInv, EnableTypes
<1>. DEFINE v == [operator[o] EXCEPT !.at = "filling", !.env = e]
<1>1. /\ Installs(o) /\ environments' = Append(environments, [pinned |-> pinned, complete |-> FALSE])
      /\ operator' = [operator EXCEPT ![o] = v]
      /\ runtime' = IF operator[o].kind = "bootstrap" /\ runtime.kind # "pointer" THEN Directory(e) ELSE runtime
      /\ UNCHANGED <<journal, integrated, pinned, exclusiveUse, uses>>
  BY DEF Create
<1>2. EnableTypes /\ LockInv /\ PlaceOf(o) /\ EnableRecovers
  BY DEF EnableInv, PlaceInv
<1>3. operator[o] # Resting /\ exclusiveUse = o /\ \A u \in Users : uses[u] = NoUse
  BY <1>1, <1>2 DEF Installs, Doing, Resting, LockInv
<1>4. e \in Nat /\ Len(environments) \in Nat
  BY <1>2 DEF EnableTypes
<1>5. v \in Operations /\ v.at = "filling" /\ v.kind = operator[o].kind /\ v.env = e /\ operator'[o] = v
  BY <1>1, <1>2, <1>4 DEF EnableTypes, Operations, Points
<1>6. /\ environments' \in Seq([pinned : Nat, complete : BOOLEAN])
      /\ DOMAIN environments' = DOMAIN environments \cup {e} /\ e \notin DOMAIN environments
      /\ \A x \in DOMAIN environments : environments'[x] = environments[x]
  BY <1>1, <1>2, <1>4 DEF EnableTypes
<1>7. \A x : Complete(x) => Complete(x)' /\ x # e
  BY <1>6 DEF Complete
<1>. HIDE DEF v
<1>8. runtime' \in [kind : {"absent", "directory", "pointer"}, env : Nat]
  BY <1>1, <1>2, <1>4 DEF EnableTypes, Directory
<1>9. journal = NoJournal
  BY <1>1, <1>2 DEF Installs, PlaceOf, Doing
<1>10. CASE operator[o].kind = "enable"
  <2>1. runtime' = runtime /\ Runnable /\ runtime.kind = "directory"
    BY <1>1, <1>2, <1>10 DEF Installs, PlaceOf, Doing
  <2>2. PlaceOf(o)'
    BY <1>1, <1>5, <1>6, <1>7, <1>9, <1>10, <2>1 DEF PlaceOf, Doing, Runnable
  <2>3. EnableRecovers'
    BY <1>1, <1>2, <1>3, <1>9, <2>1 DEF EnableRecovers
  <2>. QED
    BY <1>1, <1>2, <1>3, <1>5, <1>6, <1>8, <2>2, <2>3, GoesOnKeeps DEF EnableInv, EnableTypes
<1>11. CASE operator[o].kind = "bootstrap"
  <2>1. runtime' = Directory(e) \/ (runtime' = runtime /\ runtime.kind = "pointer")
    BY <1>1, <1>11
  <2>2. PlaceOf(o)'
    BY <1>1, <1>5, <1>6, <1>9, <1>11, <2>1 DEF PlaceOf, Doing
  <2>3. EnableRecovers'
    BY <1>1, <1>2, <1>3, <1>7, <1>9, <2>1 DEF EnableRecovers, Directory
  <2>. QED
    BY <1>1, <1>2, <1>3, <1>5, <1>6, <1>8, <2>2, <2>3, GoesOnKeeps DEF EnableInv, EnableTypes
<1>. QED
  BY <1>1, <1>10, <1>11 DEF Installs, Doing

LEMMA FillKeeps ==
  ASSUME EnableInv, NEW o \in Operators, Fill(o)
  PROVE  EnableInv'
<1>. PICK e \in Nat : e = operator[o].env
  BY DEF EnableInv, EnableTypes, Operations
<1>1. operator[o].at = "filling" /\ UNCHANGED <<runtime, journal, integrated, pinned, uses>>
  BY DEF Fill
<1>2. EnableTypes /\ LockInv /\ PlaceOf(o) /\ EnableRecovers
  BY DEF EnableInv, PlaceInv
<1>3. operator[o] # Resting /\ exclusiveUse = o
  BY <1>1, <1>2 DEF Resting, LockInv
<1>4. CASE environments' = [environments EXCEPT ![e].complete = TRUE] /\ GoesOn(o, "filled") /\ UNCHANGED exclusiveUse
  <2>1. e \in DOMAIN environments
    BY <1>1, <1>2 DEF PlaceOf
  <2>2. environments' = [environments EXCEPT ![e] = [environments[e] EXCEPT !.complete = TRUE]]
    BY <1>4
  <2>3. environments[e] \in [pinned : Nat, complete : BOOLEAN]
    <3>. DEFINE S == [pinned : Nat, complete : BOOLEAN]
    <3>1. environments \in Seq(S)
      BY <1>2 DEF EnableTypes
    <3>. HIDE DEF S
    <3>2. environments[e] \in S
      BY <2>1, <3>1
    <3>. QED
      BY <3>2 DEF S
  <2>. DEFINE w == [environments[e] EXCEPT !.complete = TRUE]
  <2>4. w \in [pinned : Nat, complete : BOOLEAN] /\ w.complete
    BY <2>3
  <2>. HIDE DEF w
  <2>5. environments' = [environments EXCEPT ![e] = w]
    BY <2>2 DEF w
  <2>6. environments' \in Seq([pinned : Nat, complete : BOOLEAN]) /\ DOMAIN environments' = DOMAIN environments
    BY <1>2, <2>1, <2>4, <2>5 DEF EnableTypes
  <2>7. environments'[e] = w /\ \A x \in DOMAIN environments : x # e => environments'[x] = environments[x]
    BY <1>2, <2>1, <2>5 DEF EnableTypes
  <2>8. Complete(e)' /\ \A x : Complete(x) => Complete(x)'
    BY <2>1, <2>4, <2>6, <2>7 DEF Complete
  <2>9. PICK v \in Operations : /\ operator' = [operator EXCEPT ![o] = v] /\ operator'[o] = v
                                /\ v.at = "filled" /\ v.kind = operator[o].kind /\ v.env = e
    BY <1>4, GoesOnIs DEF Points
  <2>10. PlaceOf(o)'
    BY <1>1, <1>2, <2>6, <2>8, <2>9 DEF PlaceOf, Doing, Runnable, Directory
  <2>11. EnableRecovers'
    BY <1>1, <1>2, <2>1, <2>6, <2>8 DEF EnableRecovers, RecoverApplies, RestoreApplies, Place
  <2>. QED
    BY <1>1, <1>2, <1>3, <1>4, <2>6, <2>9, <2>10, <2>11, GoesOnKeeps DEF EnableInv, EnableTypes
<1>5. CASE Leaves(o) /\ UNCHANGED environments
  <2>1. EnableRecovers'
    BY <1>1, <1>2, <1>5 DEF EnableRecovers, RecoverApplies, RestoreApplies, Complete, Place
  <2>. QED
    BY <1>1, <1>2, <1>3, <1>5, <2>1, LeavesKeeps DEF EnableInv, EnableTypes
<1>. QED
  BY <1>4, <1>5 DEF Fill

\* The steps that keep what is installed: enough is what they do with runtime
\* and journal.
LEMMA InPlace ==
  ASSUME EnableInv, NEW o \in Operators, operator[o] # Resting, UNCHANGED <<environments, integrated, pinned, uses>>,
         runtime' \in [kind : {"absent", "directory", "pointer"}, env : Nat],
         journal' \in [previous : Nat, candidate : Nat, pinned : Nat],
         operator' \in [Operators -> Operations], LockInv', PlaceInv',
         runtime'.kind = "pointer" => Complete(runtime'.env) /\ integrated = ManagedFiles,
         runtime'.kind = "absent" => journal' # NoJournal,
         journal' # NoJournal =>
           /\ Complete(journal'.previous) /\ Complete(journal'.candidate) /\ journal'.previous # journal'.candidate
           /\ runtime' \in {Directory(journal'.previous), Pointer(journal'.candidate), Absent}
           /\ integrated = ManagedFiles
  PROVE  EnableInv'
<1>1. EnableTypes /\ \A u \in Users : uses[u] = NoUse
  BY DEF EnableInv, LockInv
<1>2. EnableTypes'
  BY <1>1 DEF EnableTypes
<1>3. EnableRecovers'
  BY <1>1 DEF EnableRecovers, Complete, RecoverApplies, RestoreApplies
<1>. QED
  BY <1>2, <1>3 DEF EnableInv

LEMMA BootstrappedKeeps ==
  ASSUME EnableInv, NEW o \in Operators, Bootstrapped(o)
  PROVE  EnableInv'
<1>. PICK e \in Nat : e = operator[o].env
  BY DEF EnableInv, EnableTypes, Operations
<1>1. /\ Doing(o, "bootstrap", "filled") /\ Leaves(o)
      /\ runtime' = IF runtime.kind = "pointer" THEN Pointer(e) ELSE runtime
      /\ UNCHANGED <<environments, journal, integrated, pinned, uses>>
  BY DEF Bootstrapped
<1>2. EnableTypes /\ PlaceOf(o) /\ EnableRecovers
  BY DEF EnableInv, PlaceInv
<1>3. Complete(e) /\ journal = NoJournal /\ (runtime = Directory(e) \/ runtime.kind = "pointer")
  BY <1>1, <1>2 DEF PlaceOf, Doing
<1>4. operator[o] # Resting
  BY <1>1 DEF Doing, Resting
<1>5. operator' \in [Operators -> Operations] /\ LockInv' /\ PlaceInv'
  BY <1>1, <1>4, LeavesKeeps
<1>6. runtime' \in {Directory(e), Pointer(e)}
  BY <1>1, <1>3
<1>7. runtime' \in [kind : {"absent", "directory", "pointer"}, env : Nat] /\ runtime'.kind # "absent" /\ runtime'.env = e
  BY <1>6 DEF Directory, Pointer
<1>8. runtime'.kind = "pointer" => integrated = ManagedFiles
  BY <1>1, <1>2, <1>3 DEF EnableRecovers, Directory
<1>. QED
  BY <1>1, <1>2, <1>3, <1>4, <1>5, <1>7, <1>8, InPlace DEF EnableTypes

LEMMA IntegrateKeeps ==
  ASSUME EnableInv, NEW o \in Operators, Integrate(o)
  PROVE  EnableInv'
<1>1. /\ integrated # ManagedFiles /\ integrated' \subseteq ManagedFiles
      /\ UNCHANGED <<runtime, environments, journal, pinned, operator, exclusiveUse, uses>>
  BY DEF Integrate, EnableInv, EnableTypes
<1>2. EnableTypes'
  BY <1>1 DEF EnableInv, EnableTypes
<1>3. LockInv' /\ PlaceInv'
  BY <1>1 DEF EnableInv, LockInv, PlaceInv, PlaceOf, Doing, Runnable, Complete
<1>4. EnableRecovers'
  BY <1>1 DEF EnableInv, EnableRecovers, Complete, Place
<1>. QED
  BY <1>2, <1>3, <1>4 DEF EnableInv

LEMMA IntegratedKeeps ==
  ASSUME EnableInv, NEW o \in Operators, Integrated(o)
  PROVE  EnableInv'
<1>. PICK e \in Nat, f \in Nat : e = operator[o].env /\ f = runtime.env
  BY DEF EnableInv, EnableTypes, Operations
<1>1. /\ Integrating(o) /\ integrated = ManagedFiles
      /\ UNCHANGED <<runtime, environments, integrated, pinned, uses>>
  BY DEF Integrated
<1>2. EnableTypes /\ LockInv /\ PlaceOf(o) /\ EnableRecovers
  BY DEF EnableInv, PlaceInv
<1>3. operator[o] # Resting /\ exclusiveUse = o
  BY <1>1, <1>2 DEF Integrating, Doing, Resting, LockInv
<1>4. CASE runtime.kind = "pointer"
  <2>1. Leaves(o) /\ UNCHANGED journal
    BY <1>4 DEF Integrated
  <2>2. EnableRecovers'
    BY <1>1, <1>2, <2>1 DEF EnableRecovers, RecoverApplies, RestoreApplies, Complete, Place
  <2>. QED
    BY <1>1, <1>2, <1>3, <2>1, <2>2, LeavesKeeps DEF EnableInv, EnableTypes
<1>5. CASE runtime.kind # "pointer"
  <2>1. /\ journal' = [previous |-> f, candidate |-> e, pinned |-> pinned]
        /\ GoesOn(o, "journalled") /\ UNCHANGED exclusiveUse
    BY <1>5 DEF Integrated
  <2>2. Doing(o, "enable", "filled")
    BY <1>1, <1>5 DEF Integrating
  <2>3. Runnable /\ runtime.kind = "directory" /\ e # f /\ Complete(e)
    BY <1>2, <2>2 DEF PlaceOf, Doing
  <2>4. Complete(f) /\ runtime = Directory(f)
    BY <1>2, <2>3 DEF Runnable, EnableTypes, Directory
  <2>5. e # 0
    BY <1>2, <2>3 DEF Complete, EnableTypes
  <2>6. /\ journal' \in [previous : Nat, candidate : Nat, pinned : Nat]
        /\ journal' # NoJournal /\ journal'.previous = f /\ journal'.candidate = e
    BY <1>2, <2>1, <2>5 DEF EnableTypes, NoJournal
  <2>7. PICK v \in Operations : /\ operator' = [operator EXCEPT ![o] = v] /\ operator'[o] = v
                                /\ v.at = "journalled" /\ v.kind = "enable" /\ v.env = e
    BY <2>1, <2>2, GoesOnIs DEF Points, Doing
  <2>8. PlaceOf(o)'
    BY <1>1, <2>4, <2>6, <2>7 DEF PlaceOf, Doing, Directory
  <2>9. operator' \in [Operators -> Operations] /\ LockInv' /\ PlaceInv'
    BY <1>1, <1>3, <2>1, <2>7, <2>8, GoesOnKeeps
  <2>. QED
    BY <1>1, <1>2, <1>3, <2>3, <2>4, <2>6, <2>9, InPlace DEF EnableTypes
<1>. QED
  BY <1>4, <1>5

LEMMA MoveKeeps ==
  ASSUME EnableInv, NEW o \in Operators, Move(o)
  PROVE  EnableInv'
<1>1. /\ Doing(o, "enable", "journalled") /\ runtime' = Absent /\ GoesOn(o, "moved")
      /\ UNCHANGED <<environments, journal, integrated, pinned, exclusiveUse, uses>>
  BY DEF Move
<1>2. EnableTypes /\ LockInv /\ PlaceOf(o) /\ EnableRecovers
  BY DEF EnableInv, PlaceInv
<1>3. operator[o] # Resting /\ exclusiveUse = o
  BY <1>1, <1>2 DEF Doing, Resting, LockInv
<1>4. journal # NoJournal /\ journal.candidate = operator[o].env
  BY <1>1, <1>2 DEF PlaceOf
<1>5. PICK v \in Operations : /\ operator' = [operator EXCEPT ![o] = v] /\ operator'[o] = v
                              /\ v.at = "moved" /\ v.kind = "enable" /\ v.env = operator[o].env
  BY <1>1, GoesOnIs DEF Points, Doing
<1>6. PlaceOf(o)'
  BY <1>1, <1>4, <1>5 DEF PlaceOf, Doing
<1>7. operator' \in [Operators -> Operations] /\ LockInv' /\ PlaceInv'
  BY <1>1, <1>3, <1>5, <1>6, GoesOnKeeps
<1>8. runtime' \in [kind : {"absent", "directory", "pointer"}, env : Nat] /\ runtime'.kind = "absent"
  BY <1>1 DEF Absent
<1>. QED
  BY <1>1, <1>2, <1>3, <1>4, <1>7, <1>8, InPlace DEF EnableRecovers, EnableTypes

LEMMA ActivateKeeps ==
  ASSUME EnableInv, NEW o \in Operators, ActivateCandidate(o)
  PROVE  EnableInv'
<1>. PICK e \in Nat : e = operator[o].env
  BY DEF EnableInv, EnableTypes, Operations
<1>1. /\ Doing(o, "enable", "moved") /\ runtime' = Pointer(e) /\ GoesOn(o, "switched")
      /\ UNCHANGED <<environments, journal, integrated, pinned, exclusiveUse, uses>>
  BY DEF ActivateCandidate
<1>2. EnableTypes /\ LockInv /\ PlaceOf(o) /\ EnableRecovers
  BY DEF EnableInv, PlaceInv
<1>3. operator[o] # Resting /\ exclusiveUse = o
  BY <1>1, <1>2 DEF Doing, Resting, LockInv
<1>4. journal # NoJournal /\ journal.candidate = e
  BY <1>1, <1>2 DEF PlaceOf
<1>5. Complete(e) /\ integrated = ManagedFiles
  BY <1>2, <1>4 DEF EnableRecovers
<1>6. PICK v \in Operations : /\ operator' = [operator EXCEPT ![o] = v] /\ operator'[o] = v
                              /\ v.at = "switched" /\ v.kind = "enable" /\ v.env = e
  BY <1>1, GoesOnIs DEF Points, Doing
<1>7. PlaceOf(o)'
  BY <1>1, <1>4, <1>6 DEF PlaceOf, Doing
<1>8. operator' \in [Operators -> Operations] /\ LockInv' /\ PlaceInv'
  BY <1>1, <1>3, <1>6, <1>7, GoesOnKeeps
<1>9. runtime' \in [kind : {"absent", "directory", "pointer"}, env : Nat] /\ runtime'.kind = "pointer" /\ runtime'.env = e
  BY <1>1 DEF Pointer
<1>. QED
  BY <1>1, <1>2, <1>3, <1>4, <1>5, <1>8, <1>9, InPlace DEF EnableRecovers, EnableTypes

\* A journal is closed over a runtime that is there.
LEMMA ClosedKeeps ==
  ASSUME EnableInv, NEW o \in Operators, operator[o] # Resting, Closed(o), runtime.kind # "absent"
  PROVE  EnableInv'
<1>1. operator' \in [Operators -> Operations] /\ LockInv' /\ PlaceInv'
  BY LeavesKeeps DEF Closed
<1>2. journal' \in [previous : Nat, candidate : Nat, pinned : Nat] /\ journal' = NoJournal
  BY DEF Closed, NoJournal
<1>3. runtime.kind = "pointer" => Complete(runtime.env) /\ integrated = ManagedFiles
  BY DEF EnableInv, EnableRecovers
<1>. QED
  BY <1>1, <1>2, <1>3, InPlace DEF Closed, EnableInv, EnableTypes

\* A step that only leaves.
LEMMA LeavingKeeps ==
  ASSUME EnableInv, NEW o \in Operators, operator[o] # Resting, Leaves(o),
         UNCHANGED <<runtime, environments, journal, integrated, pinned, uses>>
  PROVE  EnableInv'
<1>1. EnableRecovers'
  BY DEF EnableInv, EnableRecovers, RecoverApplies, RestoreApplies, Complete, Place
<1>. QED
  BY <1>1, LeavesKeeps DEF EnableInv, EnableTypes

LEMMA RecoveriesKeep ==
  ASSUME EnableInv, NEW o \in Operators, Close(o) \/ RecoverEnable(o) \/ Restored(o)
  PROVE  EnableInv'
<1>1. operator[o] # Resting /\ PlaceOf(o)
  BY DEF Close, RecoverEnable, Restored, Doing, Resting, EnableInv, PlaceInv
<1>2. CASE Close(o)
  BY <1>1, <1>2, ClosedKeeps DEF Close, PlaceOf, Pointer
<1>3. CASE RecoverEnable(o)
  <2>1. RecoverApplies => runtime.kind # "absent"
    BY DEF RecoverApplies, Directory, Pointer
  <2>. QED
    BY <1>1, <1>3, <2>1, ClosedKeeps, LeavingKeeps DEF RecoverEnable
<1>4. CASE Restored(o)
  BY <1>1, <1>4, ClosedKeeps DEF Restored, PlaceOf, Directory
<1>. QED
  BY <1>2, <1>3, <1>4

LEMMA RestoreKeeps ==
  ASSUME EnableInv, NEW o \in Operators, Restore(o)
  PROVE  EnableInv'
<1>. PICK e \in Nat : e = journal.previous
  BY DEF EnableInv, EnableTypes
<1>1. /\ Doing(o, "restore", "begun") /\ Complete(e) /\ runtime' = Directory(e) /\ GoesOn(o, "restored")
      /\ UNCHANGED <<environments, journal, integrated, pinned, exclusiveUse, uses>>
  BY DEF Restore, RestoreApplies
<1>2. EnableTypes /\ LockInv /\ EnableRecovers
  BY DEF EnableInv
<1>3. operator[o] # Resting /\ exclusiveUse = o
  BY <1>1, <1>2 DEF Doing, Resting, LockInv
<1>4. PICK v \in Operations : /\ operator' = [operator EXCEPT ![o] = v] /\ operator'[o] = v
                              /\ v.at = "restored" /\ v.kind = "restore"
  BY <1>1, GoesOnIs DEF Points, Doing
<1>5. PlaceOf(o)'
  BY <1>1, <1>4 DEF PlaceOf, Doing
<1>6. operator' \in [Operators -> Operations] /\ LockInv' /\ PlaceInv'
  BY <1>1, <1>3, <1>4, <1>5, GoesOnKeeps
<1>7. runtime' \in [kind : {"absent", "directory", "pointer"}, env : Nat] /\ runtime'.kind = "directory"
  BY <1>1 DEF Directory
<1>. QED
  BY <1>1, <1>2, <1>3, <1>6, <1>7, InPlace DEF EnableRecovers, EnableTypes

\* Processes that run from the environment, and pins.
LEMMA OthersKeep ==
  ASSUME EnableInv, PinAnother \/ \E u \in Users : Use(u) \/ EndUse(u)
  PROVE  EnableInv'
<1>1. EnableTypes /\ LockInv /\ PlaceInv /\ EnableRecovers
  BY DEF EnableInv
<1>2. CASE PinAnother
  <2>1. /\ pinned' \in Nat
        /\ UNCHANGED <<runtime, environments, journal, integrated, operator, exclusiveUse, uses>>
    BY <1>2, EnableAssumption DEF PinAnother
  <2>2. LockInv' /\ PlaceInv'
    BY <1>1, <2>1 DEF LockInv, PlaceInv, PlaceOf, Doing, Runnable, Complete
  <2>3. EnableRecovers'
    BY <1>1, <2>1 DEF EnableRecovers, Complete, RecoverApplies, RestoreApplies, Place
  <2>. QED
    BY <1>1, <2>1, <2>2, <2>3 DEF EnableInv, EnableTypes
<1>3. ASSUME NEW u \in Users, NEW n \in [env : Nat, place : {"none", "runtime", "generations"}],
             uses' = [uses EXCEPT ![u] = n],
             UNCHANGED <<runtime, environments, journal, integrated, pinned, operator, exclusiveUse>>,
             \A o \in Operators : operator[o] = Resting \/ n = NoUse,
             n # NoUse => Complete(n.env) /\ Place(n.env) = n.place
      PROVE  EnableInv'
  <2>1. EnableTypes'
    BY <1>1, <1>3 DEF EnableTypes
  <2>2. \A v \in Users : uses'[v] = IF v = u THEN n ELSE uses[v]
    BY <1>1, <1>3 DEF EnableTypes
  <2>3. LockInv'
    BY <1>1, <1>3, <2>2 DEF LockInv
  <2>4. PlaceInv'
    BY <1>1, <1>3 DEF PlaceInv, PlaceOf, Doing, Runnable, Complete
  <2>5. EnableRecovers'
    BY <1>1, <1>3, <2>2 DEF EnableRecovers, Complete, RecoverApplies, RestoreApplies, Place
  <2>. QED
    BY <2>1, <2>3, <2>4, <2>5 DEF EnableInv
<1>4. ASSUME NEW u \in Users, Use(u) PROVE EnableInv'
  <2>1. exclusiveUse = Nobody /\ Runnable
    BY <1>4 DEF Use
  <2>2. \A o \in Operators : operator[o] = Resting
    BY <1>1, <2>1, EnableAssumption DEF LockInv, Nobody
  <2>. DEFINE n == [env |-> runtime.env, place |-> Place(runtime.env)]
  <2>3. n \in [env : Nat, place : {"none", "runtime", "generations"}] /\ Complete(n.env) /\ Place(n.env) = n.place
    BY <1>1, <2>1 DEF EnableTypes, Place, Runnable
  <2>4. /\ uses' = [uses EXCEPT ![u] = n]
        /\ UNCHANGED <<runtime, environments, journal, integrated, pinned, operator, exclusiveUse>>
    BY <1>4 DEF Use
  <2>. HIDE DEF n
  <2>. QED
    BY <1>3, <2>2, <2>3, <2>4
<1>5. ASSUME NEW u \in Users, EndUse(u) PROVE EnableInv'
  <2>1. NoUse \in [env : Nat, place : {"none", "runtime", "generations"}]
    BY DEF NoUse
  <2>2. /\ uses' = [uses EXCEPT ![u] = NoUse]
        /\ UNCHANGED <<runtime, environments, journal, integrated, pinned, operator, exclusiveUse>>
    BY <1>5 DEF EndUse
  <2>. QED
    BY <1>3, <2>1, <2>2
<1>. QED
  BY <1>2, <1>4, <1>5

LEMMA EnableInvStep == EnableInv /\ [EnableNext]_enableVars => EnableInv'
<1>. SUFFICES ASSUME EnableInv, [EnableNext]_enableVars PROVE EnableInv'
  OBVIOUS
<1>1. CASE PinAnother \/ \E u \in Users : Use(u) \/ EndUse(u)
  BY <1>1, OthersKeep
<1>2. ASSUME NEW o \in Operators, Begin(o) \/ Create(o) \/ Fill(o) \/ Bootstrapped(o) \/ Integrate(o) \/ Integrated(o)
      PROVE  EnableInv'
  BY <1>2, BeginKeeps, CreateKeeps, FillKeeps, BootstrappedKeeps, IntegrateKeeps, IntegratedKeeps
<1>3. ASSUME NEW o \in Operators, Move(o) \/ ActivateCandidate(o) \/ Close(o) \/ RecoverEnable(o) \/ Restore(o) \/ Restored(o)
      PROVE  EnableInv'
  BY <1>3, MoveKeeps, ActivateKeeps, RecoveriesKeep, RestoreKeeps
<1>4. ASSUME NEW o \in Operators, KillOperator(o) PROVE EnableInv'
  BY <1>4, LeavingKeeps DEF KillOperator
<1>5. CASE UNCHANGED enableVars
  BY <1>5 DEF enableVars, EnableInv, EnableTypes, LockInv, PlaceInv, PlaceOf, Doing, Runnable, Complete,
     EnableRecovers, RecoverApplies, RestoreApplies, Place
<1>. QED
  BY <1>1, <1>2, <1>3, <1>4, <1>5 DEF EnableNext

-----------------------------------------------------------------------------
(* Theorems *)

\* Wherever an operator is killed, the runtime is whole or a recovery makes it so
\* (enable, recover_enable, governance-bootstrap.py main).
THEOREM EnablingRecovers == EnableSpec => []EnableRecovers
<1>1. EnableInv => EnableRecovers
  BY DEF EnableInv
<1>. QED
  BY EnableInvInit, EnableInvStep, <1>1, PTL DEF EnableSpec
=============================================================================
