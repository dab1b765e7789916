------------------------ MODULE RuntimeUpdates_proofs ------------------------
(***************************************************************************)
(* Proofs about RuntimeUpdates for every set of tasks and readers, any     *)
(* number of hosts, crashes and foreign changes, with or without orphaned  *)
(* git commits and overlapping turns.                                      *)
(***************************************************************************)
EXTENDS RuntimeUpdates, TLAPS

-----------------------------------------------------------------------------
(* The inductive invariant *)

\* The points at which a command owns runtime-use.lock, at which a journal
\* exists, and at which apply has not written one yet.
Owning      == {"rescan", "redisown", "journal", "adopt"} \cup Trying \cup Restoring \cup Closing
Journalling == {"adopt"} \cup Trying \cup Restoring \cup Closing
Unwritten   == {"journal"} \cup Assessing
Activated   == Trying \ {"activate", "lockfile"}
Agreeing    == Closing \cup {"confirm"}
Inside      == {"register", "discover", "searching", "publish"}

\* Who holds update.lock and runtime-use.lock.
LockInv ==
  /\ \A t \in Tasks : pc[t] # "idle" => updateLock = t
  /\ \A t \in Tasks : hook[t] = "searching" => updateLock = t /\ pc[t] = "idle"
  /\ \A t \in Tasks : exclusive = t <=> pc[t] \in Owning
  /\ exclusive # NoTask => shared = {}
  /\ \A t \in Tasks : t \in shared => hook[t] \in Inside
  /\ \A r \in Readers : r \in shared => reader[r] = "inside"

\* The journal, and what lock file and pointer say at each point of an update.
JournalInv ==
  /\ \A t \in Tasks : pc[t] \in Journalling => Journalled
  /\ \A t \in Tasks : pc[t] \in Unwritten => ~Journalled
  /\ ~Journalled => pointer = lockFile
  /\ \A t \in Tasks : pc[t] = "lockfile" => pointer = "new"
  /\ \A t \in Tasks : pc[t] \in Activated => pointer = "new" /\ lockFile = "new"
  /\ \A t \in Tasks : pc[t] = "oldpointer" => lockFile = Follows(t)
  /\ \A t \in Tasks : pc[t] \in Agreeing => pointer = lockFile

\* Whoever holds runtime-use.lock shared runs the active version.
UserInv == \A u \in shared : loaded[u] = pointer /\ ~Journalled

IInv == TypeOK /\ LockInv /\ JournalInv /\ UserInv

-----------------------------------------------------------------------------
(* Lemmas *)

\* What the steps do with a receipt leaves it a receipt.
LEMMA ReceiptFacts ==
  /\ NoReceipt \in Receipts
  /\ \A c \in Receipts : [c EXCEPT !.state = "closed"] \in Receipts
  /\ \A c \in Receipts, r \in Results : [c EXCEPT !.result = r] \in Receipts
  /\ \A c \in Receipts, r \in Results, v \in Versions :
       [c EXCEPT !.lock = v, !.result = r] \in Receipts
  /\ \A c \in Receipts, n \in Nat :
       [c EXCEPT !.state = "open", !.owner = n, !.result = "wait"] \in Receipts
BY DEF Receipts, NoReceipt, Results, Versions

\* Snapshots, reservations, journals and commits are built from values of their types.
LEMMA SnapshotFacts == TypeOK => Snapshot \in Snapshots /\ NoSnapshot \in Snapshots
BY DEF TypeOK, Snapshot, Snapshots, NoSnapshot

LEMMA ReservationFacts ==
  ASSUME TypeOK, NEW t \in Tasks
  PROVE  Answered(t) \in Results /\ Reservation(t) \in Receipts
<1>1. draft[t] \in Receipts /\ host[t] \in Nat /\ lockFile \in Versions
  BY DEF TypeOK
<1>2. Answered(t) \in Results
  BY <1>1 DEF Answered, Results, Receipts
<1>. QED
  BY <1>1, <1>2 DEF Reservation, Receipts, Versions

\* The shapes of the functions most steps update.
Types ==
  /\ pc \in [Tasks -> Points] /\ hook \in [Tasks -> HookPoints]
  /\ reader \in [Readers -> {"out", "started", "inside"}]
  /\ loaded \in [Tasks \cup Readers -> Versions \cup {"none"}]
  /\ answer \in [Tasks -> Results]
  /\ journal \in Journals
  /\ shared \subseteq Tasks \cup Readers
  /\ updateLock \in Tasks \cup {NoTask} /\ exclusive \in Tasks \cup {NoTask}

LEMMA TypesFollow == TypeOK => Types
BY DEF TypeOK, Types

\* TypeOK in parts, by who changes the variables.
FileTypes ==
  /\ pointer \in Versions /\ lockFile \in Versions
  /\ commits \in Seq(Commits) /\ Len(commits) > 0
  /\ git \in Children
  /\ authority \in Nat /\ work \in Nat
  /\ journal \in Journals
LockTypes ==
  /\ updateLock \in Tasks \cup {NoTask} /\ exclusive \in Tasks \cup {NoTask}
  /\ shared \subseteq Tasks \cup Readers
CommandTypes ==
  /\ pc \in [Tasks -> Points]
  /\ mode \in [Tasks -> {"none", "apply", "recover", "finish"}]
  /\ left \in [Tasks -> SUBSET Tasks]
  /\ target \in [Tasks -> Tasks \cup {NoTask}]
  /\ copy \in [Tasks -> Receipts]
  /\ before \in [Tasks -> Snapshots]
  /\ answer \in [Tasks -> Results]
HookTypes ==
  /\ hook \in [Tasks -> HookPoints]
  /\ kind \in [Tasks -> {"none", "startup", "resume", "prompt", "end"}]
  /\ draft \in [Tasks -> Receipts]
  /\ loaded \in [Tasks \cup Readers -> Versions \cup {"none"}]
  /\ reader \in [Readers -> {"out", "started", "inside"}]
HostTypes ==
  /\ host \in [Tasks -> Nat] /\ hosts \in [Tasks -> Nat]
  /\ uses \in [Tasks -> Versions \cup {"none"}]
  /\ foreign \in Nat /\ crashes \in Nat
ReceiptTypes == receipts \in [Tasks -> Receipts]

LEMMA TypeParts ==
  TypeOK <=> FileTypes /\ LockTypes /\ CommandTypes /\ HookTypes /\ HostTypes /\ ReceiptTypes
BY DEF TypeOK, FileTypes, LockTypes, CommandTypes, HookTypes, HostTypes, ReceiptTypes

LEMMA GoneTypes ==
  ASSUME TypeOK, NEW t \in Tasks, Gone(t)
  PROVE  CommandTypes' /\ LockTypes'
<1>1. NoReceipt \in Receipts /\ NoSnapshot \in Snapshots /\ "idle" \in Points /\ "none" \in Results
  BY ReceiptFacts, SnapshotFacts DEF Points, Results
<1>. QED
  BY <1>1, TypeParts DEF Gone, CommandTypes, LockTypes

LEMMA GoesTypes ==
  ASSUME TypeOK, NEW t \in Tasks, NEW p \in Points, Goes(t, p)
  PROVE  CommandTypes' /\ LockTypes'
BY TypeParts DEF Goes, CommandTypes, LockTypes, lockVars

\* Locks and commands.
LEMMA CommandTypeStep ==
  ASSUME TypeOK, JournalInv, [Next]_vars
  PROVE  (CommandTypes /\ LockTypes)'
<1>. USE TypeParts DEF CommandTypes, LockTypes, commandVars, lockVars, Elsewhere, fileVars,
      hookVars, hostVars, countVars
<1>1. ASSUME NEW t \in Tasks, ApplyBegins(t) PROVE (CommandTypes /\ LockTypes)'
  BY <1>1, TypeParts, ReceiptFacts DEF CommandTypes, LockTypes, Points, Assessing, Trying,
      Restoring, Closing, ReceiptTypes, Results, ApplyBegins, CanRun, Holds, Others
<1>2. ASSUME NEW t \in Tasks, RecoverBegins(t) PROVE (CommandTypes /\ LockTypes)'
<2>1. journal.before \in Snapshots
  BY TypeParts DEF FileTypes, Journals
<2>. QED
  BY <1>2, <2>1, TypeParts DEF CommandTypes, LockTypes, Points, Assessing, Trying, Restoring,
      Closing, RecoverBegins, CanRun
<1>3. ASSUME NEW t \in Tasks, FinishBegins(t) PROVE (CommandTypes /\ LockTypes)'
  BY <1>3, TypeParts, ReceiptFacts DEF CommandTypes, LockTypes, Points, Assessing, Trying,
      Restoring, Closing, ReceiptTypes, Results, FinishBegins, CanRun
<1>4. ASSUME NEW t \in Tasks, NEW o \in Tasks, Looks(t, o) PROVE (CommandTypes /\ LockTypes)'
<2>1. CASE Gone(t)
  BY <2>1, GoneTypes
<2>2. CASE ~Gone(t)
  BY <1>4, <2>2, TypeParts, SnapshotFacts DEF CommandTypes, LockTypes, Points, Assessing,
      Trying, Restoring, Closing, ReceiptTypes, Others, Results, lockVars, Looks, Gone, lockVars
<2>. QED
  BY <2>1, <2>2
<1>5. ASSUME NEW t \in Tasks, Disowns(t) PROVE (CommandTypes /\ LockTypes)'
  BY <1>5, TypeParts, ReceiptFacts DEF CommandTypes, LockTypes, Points, Assessing, Trying,
      Restoring, Closing, ReceiptTypes, Results, Disowns
<1>6. ASSUME NEW t \in Tasks, Assesses(t) PROVE (CommandTypes /\ LockTypes)'
<2>1. CASE Gone(t)
  BY <2>1, GoneTypes
<2>2. CASE ~Gone(t)
  BY <1>6, <2>2, TypeParts, SnapshotFacts DEF CommandTypes, LockTypes, Points, Assessing,
      Trying, Restoring, Closing, ReceiptTypes, Others, Results, lockVars, Assesses, Gone,
      Snapshot, Eligible, lockVars
<2>. QED
  BY <2>1, <2>2
<1>7. ASSUME NEW t \in Tasks, Prepares(t) PROVE (CommandTypes /\ LockTypes)'
  BY <1>7, GoesTypes, GoneTypes DEF Points, Assessing, Trying, Restoring, Closing, Prepares
<1>8. ASSUME NEW t \in Tasks, Claims(t) PROVE (CommandTypes /\ LockTypes)'
<2>1. CASE Gone(t)
  BY <2>1, GoneTypes
<2>2. CASE ~Gone(t)
  BY <1>8, <2>2, TypeParts, SnapshotFacts DEF CommandTypes, LockTypes, Points, Assessing,
      Trying, Restoring, Closing, ReceiptTypes, Others, Results, lockVars, Claims, Gone,
      Others, lockVars
<2>. QED
  BY <2>1, <2>2
<1>9. ASSUME NEW t \in Tasks, Reassesses(t) PROVE (CommandTypes /\ LockTypes)'
<2>1. CASE Gone(t)
  BY <2>1, GoneTypes
<2>2. CASE ~Gone(t)
  BY <1>9, <2>2, TypeParts, SnapshotFacts DEF CommandTypes, LockTypes, Points, Assessing,
      Trying, Restoring, Closing, ReceiptTypes, Others, Results, lockVars, Reassesses, Gone,
      Snapshot, lockVars
<2>. QED
  BY <2>1, <2>2
<1>10. ASSUME NEW t \in Tasks, WritesJournal(t) PROVE (CommandTypes /\ LockTypes)'
  BY <1>10, GoesTypes DEF Points, Assessing, Trying, Restoring, Closing, WritesJournal
<1>11. ASSUME NEW t \in Tasks, Activates(t) PROVE (CommandTypes /\ LockTypes)'
  BY <1>11, GoesTypes DEF Points, Assessing, Trying, Restoring, Closing, Activates
<1>12. ASSUME NEW t \in Tasks, WritesLock(t) PROVE (CommandTypes /\ LockTypes)'
  BY <1>12, GoesTypes DEF Points, Assessing, Trying, Restoring, Closing, WritesLock
<1>13. ASSUME NEW t \in Tasks, Marks(t) PROVE (CommandTypes /\ LockTypes)'
  BY <1>13, GoesTypes DEF Points, Assessing, Trying, Restoring, Closing, Marks
<1>14. ASSUME NEW t \in Tasks, DoctorPasses(t) PROVE (CommandTypes /\ LockTypes)'
  BY <1>14, GoesTypes DEF Points, Assessing, Trying, Restoring, Closing, DoctorPasses
<1>15. ASSUME NEW t \in Tasks, StartsCommit(t) PROVE (CommandTypes /\ LockTypes)'
  BY <1>15, GoesTypes DEF Points, Assessing, Trying, Restoring, Closing, StartsCommit
<1>16. ASSUME NEW t \in Tasks, CommitReturns(t) PROVE (CommandTypes /\ LockTypes)'
  BY <1>16, GoesTypes DEF Points, Assessing, Trying, Restoring, Closing, CommitReturns
<1>17. ASSUME NEW t \in Tasks, Verifies(t) PROVE (CommandTypes /\ LockTypes)'
  BY <1>17, GoesTypes DEF Points, Assessing, Trying, Restoring, Closing, Verifies
<1>18. ASSUME NEW t \in Tasks, Checks(t) PROVE (CommandTypes /\ LockTypes)'
  BY <1>18, TypeParts, ReceiptFacts DEF CommandTypes, LockTypes, Points, Assessing, Trying,
      Restoring, Closing, ReceiptTypes, Results, Checks
<1>19. ASSUME NEW t \in Tasks, Fails(t) PROVE (CommandTypes /\ LockTypes)'
  BY <1>19, GoesTypes DEF Points, Assessing, Trying, Restoring, Closing, Fails
<1>20. ASSUME NEW t \in Tasks, Adopts(t) PROVE (CommandTypes /\ LockTypes)'
  BY <1>20, GoesTypes, GoneTypes DEF Points, Assessing, Trying, Restoring, Closing, Adopts
<1>21. ASSUME NEW t \in Tasks, Judges(t) PROVE (CommandTypes /\ LockTypes)'
<2>1. CASE Gone(t)
  BY <2>1, GoneTypes
<2>2. CASE ~Gone(t)
  BY <1>21, <2>2, TypeParts, SnapshotFacts DEF CommandTypes, LockTypes, Points, Assessing,
      Trying, Restoring, Closing, ReceiptTypes, Others, Results, lockVars, Judges, Gone,
      lockVars
<2>. QED
  BY <2>1, <2>2
<1>22. ASSUME NEW t \in Tasks, RestoresLock(t) PROVE (CommandTypes /\ LockTypes)'
  BY <1>22, GoesTypes DEF Points, Assessing, Trying, Restoring, Closing, RestoresLock
<1>23. ASSUME NEW t \in Tasks, RestoresPointer(t) PROVE (CommandTypes /\ LockTypes)'
  BY <1>23, GoesTypes DEF Points, Assessing, Trying, Restoring, Closing, RestoresPointer
<1>24. ASSUME NEW t \in Tasks, Confirms(t) PROVE (CommandTypes /\ LockTypes)'
  BY <1>24, GoesTypes, GoneTypes DEF Points, Assessing, Trying, Restoring, Closing, Confirms
<1>25. ASSUME NEW t \in Tasks, Revalidates(t) PROVE (CommandTypes /\ LockTypes)'
  BY <1>25, GoesTypes, GoneTypes DEF Points, Assessing, Trying, Restoring, Closing, Revalidates
<1>26. ASSUME NEW t \in Tasks, ReadsReceipt(t) PROVE (CommandTypes /\ LockTypes)'
<2>1. journal.task \in Tasks
  BY <1>26, TypeParts DEF FileTypes, Journals, JournalInv, Journalling, Closing, Journalled,
      ReadsReceipt
<2>. QED
  BY <1>26, <2>1, TypeParts DEF CommandTypes, LockTypes, Points, Assessing, Trying, Restoring,
      Closing, ReceiptTypes, ReadsReceipt
<1>27. ASSUME NEW t \in Tasks, RewritesReceipt(t) PROVE (CommandTypes /\ LockTypes)'
  BY <1>27, TypeParts, ReceiptFacts DEF CommandTypes, LockTypes, Points, Assessing, Trying,
      Restoring, Closing, ReceiptTypes, Results, RewritesReceipt
<1>28. ASSUME NEW t \in Tasks, Unlinks(t) PROVE (CommandTypes /\ LockTypes)'
  BY <1>28, GoneTypes DEF Unlinks
<1>29. ASSUME NEW t \in Tasks, Releases(t) PROVE (CommandTypes /\ LockTypes)'
  BY <1>29, GoneTypes DEF Releases
<1>30. ASSUME NEW t \in Tasks, Killed(t) PROVE (CommandTypes /\ LockTypes)'
  BY <1>30, GoneTypes DEF Killed
<1>31. ASSUME NEW t \in Tasks, HookEnters(t) PROVE (CommandTypes /\ LockTypes)'
  BY <1>31, TypeParts DEF CommandTypes, LockTypes, HookEnters, HookIs, Admitted
<1>32. ASSUME NEW t \in Tasks, HookRegisters(t) PROVE (CommandTypes /\ LockTypes)'
  BY <1>32, TypeParts DEF CommandTypes, LockTypes, HookRegisters, HookGone, HookIs, Told
<1>33. ASSUME NEW t \in Tasks, DiscoveryStarts(t) PROVE (CommandTypes /\ LockTypes)'
  BY <1>33, TypeParts DEF CommandTypes, LockTypes, DiscoveryStarts, HookIs
<1>34. ASSUME NEW t \in Tasks, DiscoveryEnds(t) PROVE (CommandTypes /\ LockTypes)'
  BY <1>34, TypeParts DEF CommandTypes, LockTypes, DiscoveryEnds, HookIs
<1>35. ASSUME NEW t \in Tasks, HookPublishes(t) PROVE (CommandTypes /\ LockTypes)'
  BY <1>35, TypeParts DEF CommandTypes, LockTypes, HookPublishes, HookGone, HookIs, Told
<1>36. ASSUME NEW t \in Tasks, HookRefused(t) PROVE (CommandTypes /\ LockTypes)'
  BY <1>36, TypeParts DEF CommandTypes, LockTypes, HookRefused, HookGone, HookIs, Told
<1>37. ASSUME NEW t \in Tasks, EndCloses(t) PROVE (CommandTypes /\ LockTypes)'
  BY <1>37, TypeParts DEF CommandTypes, LockTypes, EndCloses, HookGone, HookIs
<1>38. ASSUME NEW t \in Tasks, HookKilled(t) PROVE (CommandTypes /\ LockTypes)'
  BY <1>38, TypeParts DEF CommandTypes, LockTypes, HookKilled, HookGone, HookIs
<1>39. ASSUME NEW r \in Readers, ReaderEnters(r) PROVE (CommandTypes /\ LockTypes)'
  BY <1>39, TypeParts DEF CommandTypes, LockTypes, ReaderEnters, Admitted
<1>40. ASSUME NEW r \in Readers, ReaderEnds(r) PROVE (CommandTypes /\ LockTypes)'
  BY <1>40, TypeParts DEF CommandTypes, LockTypes, ReaderEnds
<1>41. CASE UNCHANGED <<commandVars, lockVars>>
  BY <1>41
<1>42. ASSUME \/ UNCHANGED vars
     \/ (\E t \in Tasks : EndReads(t)) \/ (\E t \in Tasks : HostStarts(t))
     \/ (\E t \in Tasks : HostExits(t)) \/ (\E t \in Tasks, k \in {"startup", "resume",
      "prompt", "end"} : Event(t, k))
     \/ (\E r \in Readers : ReaderStarts(r)) \/ GitEnds
     \/ OthersWrite
      PROVE  UNCHANGED <<commandVars, lockVars>>
  BY <1>42 DEF vars, EndReads, HostStarts, HostExits, Event, ReaderStarts, GitEnds,
      OthersWrite, HookIs
<1>43. QED
  BY <1>1, <1>2, <1>3, <1>4, <1>5, <1>6, <1>7, <1>8, <1>9, <1>10, <1>11, <1>12, <1>13, <1>14,
      <1>15, <1>16, <1>17, <1>18, <1>19, <1>20, <1>21, <1>22, <1>23, <1>24, <1>25, <1>26,
      <1>27, <1>28, <1>29, <1>30, <1>31, <1>32, <1>33, <1>34, <1>35, <1>36, <1>37, <1>38,
      <1>39, <1>40, <1>41, <1>42 DEF Next, Begins, Continues, Hook

LEMMA AppendFacts ==
  \A s \in Seq(Commits), c \in Commits :
    Append(s, c) \in Seq(Commits) /\ Len(Append(s, c)) > 0
OBVIOUS

\* Files, Git and the journal.
LEMMA FileTypeStep ==
  ASSUME TypeOK, [Next]_vars
  PROVE  FileTypes'
<1>. USE TypeParts DEF FileTypes, Elsewhere, fileVars, lockVars, commandVars, hookVars,
      hostVars, countVars
<1>1. ASSUME NEW t \in Tasks, WritesJournal(t) PROVE FileTypes'
  BY <1>1, TypeParts, SnapshotFacts DEF FileTypes, CommandTypes, Journals, Phases, NoJournal,
      NoSnapshot, Snapshots, Versions, WritesJournal, Goes
<1>2. ASSUME NEW t \in Tasks, Activates(t) PROVE FileTypes'
  BY <1>2, TypeParts, SnapshotFacts DEF FileTypes, Versions, Activates, Goes
<1>3. ASSUME NEW t \in Tasks, WritesLock(t) PROVE FileTypes'
  BY <1>3, TypeParts, SnapshotFacts DEF FileTypes, Versions, WritesLock, Goes
<1>4. ASSUME NEW t \in Tasks, Marks(t) PROVE FileTypes'
  BY <1>4, TypeParts, SnapshotFacts DEF FileTypes, CommandTypes, Journals, Phases, NoJournal,
      NoSnapshot, Snapshots, Versions, Marks, Goes
<1>5. ASSUME NEW t \in Tasks, StartsCommit(t) PROVE FileTypes'
  BY <1>5, TypeParts, SnapshotFacts DEF FileTypes, Children, Versions, StartsCommit, Goes
<1>6. ASSUME NEW t \in Tasks, CommitReturns(t) PROVE FileTypes'
  BY <1>6, TypeParts, SnapshotFacts DEF FileTypes, Children, NoChild, Versions, CommitReturns,
      Goes
<1>7. ASSUME NEW t \in Tasks, Adopts(t) PROVE FileTypes'
  BY <1>7, TypeParts, SnapshotFacts DEF FileTypes, CommandTypes, Journals, Phases, NoJournal,
      NoSnapshot, Snapshots, Versions, Adopts, Goes, Gone
<1>8. ASSUME NEW t \in Tasks, RestoresLock(t) PROVE FileTypes'
  BY <1>8, TypeParts, SnapshotFacts DEF FileTypes, Versions, RestoresLock, Goes, Follows
<1>9. ASSUME NEW t \in Tasks, RestoresPointer(t) PROVE FileTypes'
  BY <1>9, TypeParts, SnapshotFacts DEF FileTypes, Versions, RestoresPointer, Goes, Follows
<1>10. ASSUME NEW t \in Tasks, Unlinks(t) PROVE FileTypes'
  BY <1>10, TypeParts, SnapshotFacts DEF FileTypes, CommandTypes, Journals, Phases, NoJournal,
      NoSnapshot, Snapshots, Versions, Unlinks, Gone
<1>11. ASSUME NEW t \in Tasks, Killed(t) PROVE FileTypes'
  BY <1>11, TypeParts, SnapshotFacts DEF FileTypes, Children, NoChild, Versions, Killed, Gone
<1>12. ASSUME GitEnds PROVE FileTypes'
<2>1. git.lock \in Versions /\ [lock |-> git.lock, isolated |-> TRUE] \in Commits
  BY TypeParts DEF FileTypes, Children, Commits
<2>2. commits' \in Seq(Commits) /\ Len(commits') > 0
  BY <1>12, <2>1, TypeParts, AppendFacts DEF FileTypes, GitEnds
<2>3. git' \in Children
  BY <1>12, TypeParts DEF FileTypes, Children, GitEnds
<2>. QED
  BY <1>12, <2>2, <2>3, TypeParts DEF FileTypes, GitEnds
<1>13. ASSUME OthersWrite PROVE FileTypes'
<2>1. commits[Len(commits)] \in Commits
  BY TypeParts DEF FileTypes
<2>2. \A l \in {HeadLock, lockFile} : [lock |-> l, isolated |-> FALSE] \in Commits
  BY <2>1, TypeParts DEF FileTypes, HeadLock, Commits
<2>3. commits' \in Seq(Commits) /\ Len(commits') > 0
  BY <1>13, <2>2, TypeParts, AppendFacts DEF FileTypes, OthersWrite
<2>. QED
  BY <1>13, <2>3, TypeParts DEF FileTypes, OthersWrite
<1>14. CASE UNCHANGED fileVars
  BY <1>14
<1>15. ASSUME \/ UNCHANGED vars
     \/ (\E t \in Tasks : ApplyBegins(t)) \/ (\E t \in Tasks : RecoverBegins(t))
     \/ (\E t \in Tasks : FinishBegins(t)) \/ (\E t, o \in Tasks : Looks(t, o))
     \/ (\E t \in Tasks : Disowns(t)) \/ (\E t \in Tasks : Assesses(t))
     \/ (\E t \in Tasks : Prepares(t)) \/ (\E t \in Tasks : Claims(t))
     \/ (\E t \in Tasks : Reassesses(t)) \/ (\E t \in Tasks : DoctorPasses(t))
     \/ (\E t \in Tasks : Verifies(t)) \/ (\E t \in Tasks : Checks(t))
     \/ (\E t \in Tasks : Fails(t)) \/ (\E t \in Tasks : Judges(t))
     \/ (\E t \in Tasks : Confirms(t)) \/ (\E t \in Tasks : Revalidates(t))
     \/ (\E t \in Tasks : ReadsReceipt(t)) \/ (\E t \in Tasks : RewritesReceipt(t))
     \/ (\E t \in Tasks : Releases(t)) \/ (\E t \in Tasks : HookEnters(t))
     \/ (\E t \in Tasks : HookRegisters(t)) \/ (\E t \in Tasks : DiscoveryStarts(t))
     \/ (\E t \in Tasks : DiscoveryEnds(t)) \/ (\E t \in Tasks : HookPublishes(t))
     \/ (\E t \in Tasks : HookRefused(t)) \/ (\E t \in Tasks : EndReads(t))
     \/ (\E t \in Tasks : EndCloses(t)) \/ (\E t \in Tasks : HookKilled(t))
     \/ (\E t \in Tasks : HostStarts(t)) \/ (\E t \in Tasks : HostExits(t))
     \/ (\E t \in Tasks, k \in {"startup", "resume", "prompt", "end"} : Event(t,
      k)) \/ (\E r \in Readers : ReaderStarts(r))
     \/ (\E r \in Readers : ReaderEnters(r)) \/ (\E r \in Readers : ReaderEnds(r))
      PROVE  UNCHANGED fileVars
  BY <1>15 DEF vars, ApplyBegins, RecoverBegins, FinishBegins, Looks, Disowns, Assesses,
      Prepares, Claims, Reassesses, DoctorPasses, Verifies, Checks, Fails, Judges, Confirms,
      Revalidates, ReadsReceipt, RewritesReceipt, Releases, HookEnters, HookRegisters,
      DiscoveryStarts, DiscoveryEnds, HookPublishes, HookRefused, EndReads, EndCloses,
      HookKilled, HostStarts, HostExits, Event, ReaderStarts, ReaderEnters, ReaderEnds, Goes,
      Gone, HookGone, HookIs, Told
<1>16. QED
  BY <1>1, <1>2, <1>3, <1>4, <1>5, <1>6, <1>7, <1>8, <1>9, <1>10, <1>11, <1>12, <1>13, <1>14,
      <1>15 DEF Next, Begins, Continues, Hook

\* Hooks and readers.
LEMMA HookTypeStep ==
  ASSUME TypeOK, [Next]_vars
  PROVE  HookTypes'
<1>. USE TypeParts DEF HookTypes, hookVars, Elsewhere, fileVars, lockVars, commandVars,
      hostVars, countVars
<1>1. ASSUME NEW t \in Tasks, HookEnters(t) PROVE HookTypes'
  BY <1>1, TypeParts, ReceiptFacts DEF HookTypes, HookPoints, ReceiptTypes, FileTypes,
      HookEnters, HookIs, Admitted
<1>2. ASSUME NEW t \in Tasks, HookRegisters(t) PROVE HookTypes'
  BY <1>2, TypeParts, ReceiptFacts, ReservationFacts DEF HookTypes, HookPoints, ReceiptTypes,
      FileTypes, HookRegisters, HookGone, HookIs, Told
<1>3. ASSUME NEW t \in Tasks, DiscoveryStarts(t) PROVE HookTypes'
  BY <1>3, TypeParts, ReceiptFacts DEF HookTypes, HookPoints, ReceiptTypes, FileTypes,
      DiscoveryStarts, HookIs
<1>4. ASSUME NEW t \in Tasks, DiscoveryEnds(t) PROVE HookTypes'
<2>1. \A r \in {"reserved"} \cup (IF lockFile = "old" THEN {"available"} ELSE {}) :
        [draft[t] EXCEPT !.result = r] \in Receipts
  BY TypeParts, ReceiptFacts DEF HookTypes, Results
<2>2. \E d \in Receipts : draft' = [draft EXCEPT ![t] = d]
  BY <1>4, <2>1, TypeParts DEF DiscoveryEnds, HookTypes
<2>. QED
  BY <1>4, <2>2, TypeParts DEF HookTypes, HookPoints, DiscoveryEnds, HookIs
<1>5. ASSUME NEW t \in Tasks, HookPublishes(t) PROVE HookTypes'
  BY <1>5, TypeParts, ReceiptFacts DEF HookTypes, HookPoints, ReceiptTypes, FileTypes,
      HookPublishes, HookGone, HookIs, Told
<1>6. ASSUME NEW t \in Tasks, HookRefused(t) PROVE HookTypes'
  BY <1>6, TypeParts, ReceiptFacts DEF HookTypes, HookPoints, ReceiptTypes, FileTypes,
      HookRefused, HookGone, HookIs, Told
<1>7. ASSUME NEW t \in Tasks, EndReads(t) PROVE HookTypes'
  BY <1>7, TypeParts, ReceiptFacts DEF HookTypes, HookPoints, ReceiptTypes, FileTypes,
      EndReads, HookIs
<1>8. ASSUME NEW t \in Tasks, EndCloses(t) PROVE HookTypes'
  BY <1>8, TypeParts, ReceiptFacts DEF HookTypes, HookPoints, ReceiptTypes, FileTypes,
      EndCloses, HookGone, HookIs
<1>9. ASSUME NEW t \in Tasks, HookKilled(t) PROVE HookTypes'
  BY <1>9, TypeParts, ReceiptFacts DEF HookTypes, HookPoints, ReceiptTypes, FileTypes,
      HookKilled, HookGone, HookIs
<1>10. ASSUME NEW t \in Tasks, NEW k \in {"startup", "resume", "prompt", "end"}, Event(t,
      k) PROVE HookTypes'
  BY <1>10, TypeParts, ReceiptFacts DEF HookTypes, HookPoints, ReceiptTypes, FileTypes, Event,
      HookIs
<1>11. ASSUME NEW r \in Readers, ReaderStarts(r) PROVE HookTypes'
  BY <1>11, TypeParts, ReceiptFacts DEF HookTypes, HookPoints, ReceiptTypes, FileTypes,
      ReaderStarts
<1>12. ASSUME NEW r \in Readers, ReaderEnters(r) PROVE HookTypes'
  BY <1>12, TypeParts, ReceiptFacts DEF HookTypes, HookPoints, ReceiptTypes, FileTypes,
      ReaderEnters, Admitted
<1>13. ASSUME NEW r \in Readers, ReaderEnds(r) PROVE HookTypes'
  BY <1>13, TypeParts, ReceiptFacts DEF HookTypes, HookPoints, ReceiptTypes, FileTypes,
      ReaderEnds
<1>14. CASE UNCHANGED <<hookVars, loaded, reader>>
  BY <1>14
<1>15. ASSUME \/ UNCHANGED vars
     \/ (\E t \in Tasks : ApplyBegins(t)) \/ (\E t \in Tasks : RecoverBegins(t))
     \/ (\E t \in Tasks : FinishBegins(t)) \/ (\E t, o \in Tasks : Looks(t, o))
     \/ (\E t \in Tasks : Disowns(t)) \/ (\E t \in Tasks : Assesses(t))
     \/ (\E t \in Tasks : Prepares(t)) \/ (\E t \in Tasks : Claims(t))
     \/ (\E t \in Tasks : Reassesses(t)) \/ (\E t \in Tasks : WritesJournal(t))
     \/ (\E t \in Tasks : Activates(t)) \/ (\E t \in Tasks : WritesLock(t))
     \/ (\E t \in Tasks : Marks(t)) \/ (\E t \in Tasks : DoctorPasses(t))
     \/ (\E t \in Tasks : StartsCommit(t)) \/ (\E t \in Tasks : CommitReturns(t))
     \/ (\E t \in Tasks : Verifies(t)) \/ (\E t \in Tasks : Checks(t))
     \/ (\E t \in Tasks : Fails(t)) \/ (\E t \in Tasks : Adopts(t))
     \/ (\E t \in Tasks : Judges(t)) \/ (\E t \in Tasks : RestoresLock(t))
     \/ (\E t \in Tasks : RestoresPointer(t)) \/ (\E t \in Tasks : Confirms(t))
     \/ (\E t \in Tasks : Revalidates(t)) \/ (\E t \in Tasks : ReadsReceipt(t))
     \/ (\E t \in Tasks : RewritesReceipt(t)) \/ (\E t \in Tasks : Unlinks(t))
     \/ (\E t \in Tasks : Releases(t)) \/ (\E t \in Tasks : Killed(t))
     \/ (\E t \in Tasks : HostStarts(t)) \/ (\E t \in Tasks : HostExits(t))
     \/ GitEnds \/ OthersWrite
      PROVE  UNCHANGED <<hookVars, loaded, reader>>
  BY <1>15 DEF vars, ApplyBegins, RecoverBegins, FinishBegins, Looks, Disowns, Assesses,
      Prepares, Claims, Reassesses, WritesJournal, Activates, WritesLock, Marks, DoctorPasses,
      StartsCommit, CommitReturns, Verifies, Checks, Fails, Adopts, Judges, RestoresLock,
      RestoresPointer, Confirms, Revalidates, ReadsReceipt, RewritesReceipt, Unlinks, Releases,
      Killed, HostStarts, HostExits, GitEnds, OthersWrite, Goes, Gone
<1>16. QED
  BY <1>1, <1>2, <1>3, <1>4, <1>5, <1>6, <1>7, <1>8, <1>9, <1>10, <1>11, <1>12, <1>13, <1>14,
      <1>15 DEF Next, Begins, Continues, Hook

\* Hosts, what tasks use, and the counters.
LEMMA HostTypeStep ==
  ASSUME TypeOK, [Next]_vars
  PROVE  HostTypes'
<1>. USE TypeParts DEF HostTypes, hostVars, countVars, Elsewhere, fileVars, lockVars,
      commandVars, hookVars
<1>1. ASSUME NEW t \in Tasks, Unlinks(t) PROVE HostTypes'
  BY <1>1, TypeParts DEF HostTypes, FileTypes, Unlinks, Gone
<1>2. ASSUME NEW t \in Tasks, Releases(t) PROVE HostTypes'
  BY <1>2, TypeParts DEF HostTypes, FileTypes, Releases, Gone
<1>3. ASSUME NEW t \in Tasks, Killed(t) PROVE HostTypes'
  BY <1>3, TypeParts DEF HostTypes, FileTypes, Killed, Gone
<1>4. ASSUME NEW t \in Tasks, HookRegisters(t) PROVE HostTypes'
  BY <1>4, TypeParts DEF HostTypes, FileTypes, HookRegisters, HookGone, HookIs, Told
<1>5. ASSUME NEW t \in Tasks, HookPublishes(t) PROVE HostTypes'
  BY <1>5, TypeParts DEF HostTypes, FileTypes, HookPublishes, HookGone, HookIs, Told
<1>6. ASSUME NEW t \in Tasks, HookRefused(t) PROVE HostTypes'
  BY <1>6, TypeParts DEF HostTypes, FileTypes, HookRefused, HookGone, HookIs, Told
<1>7. ASSUME NEW t \in Tasks, EndCloses(t) PROVE HostTypes'
  BY <1>7, TypeParts DEF HostTypes, FileTypes, EndCloses, HookGone, HookIs
<1>8. ASSUME NEW t \in Tasks, HookKilled(t) PROVE HostTypes'
  BY <1>8, TypeParts DEF HostTypes, FileTypes, HookKilled, HookGone, HookIs
<1>9. ASSUME NEW t \in Tasks, HostStarts(t) PROVE HostTypes'
  BY <1>9, TypeParts DEF HostTypes, FileTypes, HostStarts
<1>10. ASSUME NEW t \in Tasks, HostExits(t) PROVE HostTypes'
  BY <1>10, TypeParts DEF HostTypes, FileTypes, HostExits
<1>11. ASSUME OthersWrite PROVE HostTypes'
  BY <1>11, TypeParts DEF HostTypes, FileTypes, OthersWrite
<1>12. CASE UNCHANGED <<hostVars, uses, countVars>>
  BY <1>12
<1>13. ASSUME \/ UNCHANGED vars
     \/ (\E t \in Tasks : ApplyBegins(t)) \/ (\E t \in Tasks : RecoverBegins(t))
     \/ (\E t \in Tasks : FinishBegins(t)) \/ (\E t, o \in Tasks : Looks(t, o))
     \/ (\E t \in Tasks : Disowns(t)) \/ (\E t \in Tasks : Assesses(t))
     \/ (\E t \in Tasks : Prepares(t)) \/ (\E t \in Tasks : Claims(t))
     \/ (\E t \in Tasks : Reassesses(t)) \/ (\E t \in Tasks : WritesJournal(t))
     \/ (\E t \in Tasks : Activates(t)) \/ (\E t \in Tasks : WritesLock(t))
     \/ (\E t \in Tasks : Marks(t)) \/ (\E t \in Tasks : DoctorPasses(t))
     \/ (\E t \in Tasks : StartsCommit(t)) \/ (\E t \in Tasks : CommitReturns(t))
     \/ (\E t \in Tasks : Verifies(t)) \/ (\E t \in Tasks : Checks(t))
     \/ (\E t \in Tasks : Fails(t)) \/ (\E t \in Tasks : Adopts(t))
     \/ (\E t \in Tasks : Judges(t)) \/ (\E t \in Tasks : RestoresLock(t))
     \/ (\E t \in Tasks : RestoresPointer(t)) \/ (\E t \in Tasks : Confirms(t))
     \/ (\E t \in Tasks : Revalidates(t)) \/ (\E t \in Tasks : ReadsReceipt(t))
     \/ (\E t \in Tasks : RewritesReceipt(t)) \/ (\E t \in Tasks : HookEnters(t))
     \/ (\E t \in Tasks : DiscoveryStarts(t)) \/ (\E t \in Tasks : DiscoveryEnds(t))
     \/ (\E t \in Tasks : EndReads(t)) \/ (\E t \in Tasks, k \in {"startup", "resume",
      "prompt", "end"} : Event(t, k))
     \/ (\E r \in Readers : ReaderStarts(r)) \/ (\E r \in Readers : ReaderEnters(r))
     \/ (\E r \in Readers : ReaderEnds(r)) \/ GitEnds
      PROVE  UNCHANGED <<hostVars, uses, countVars>>
  BY <1>13 DEF vars, ApplyBegins, RecoverBegins, FinishBegins, Looks, Disowns, Assesses,
      Prepares, Claims, Reassesses, WritesJournal, Activates, WritesLock, Marks, DoctorPasses,
      StartsCommit, CommitReturns, Verifies, Checks, Fails, Adopts, Judges, RestoresLock,
      RestoresPointer, Confirms, Revalidates, ReadsReceipt, RewritesReceipt, HookEnters,
      DiscoveryStarts, DiscoveryEnds, EndReads, Event, ReaderStarts, ReaderEnters, ReaderEnds,
      GitEnds, Goes, Gone, HookIs
<1>14. QED
  BY <1>1, <1>2, <1>3, <1>4, <1>5, <1>6, <1>7, <1>8, <1>9, <1>10, <1>11, <1>12, <1>13 DEF Next,
      Begins, Continues, Hook

\* Receipts, whoever writes them.
LEMMA ReceiptTypeStep ==
  ASSUME TypeOK, [Next]_vars
  PROVE  ReceiptTypes'
<1>. USE TypeParts DEF ReceiptTypes, Elsewhere, fileVars, lockVars, commandVars, hookVars,
      hostVars, countVars
<1>1. ASSUME NEW t \in Tasks, Disowns(t) PROVE ReceiptTypes'
  BY <1>1, TypeParts, ReceiptFacts DEF ReceiptTypes, CommandTypes, HookTypes, Disowns
<1>2. ASSUME NEW t \in Tasks, RewritesReceipt(t) PROVE ReceiptTypes'
  BY <1>2, TypeParts, ReceiptFacts DEF ReceiptTypes, CommandTypes, FileTypes, RewritesReceipt
<1>3. ASSUME NEW t \in Tasks, Releases(t) PROVE ReceiptTypes'
  BY <1>3, TypeParts, ReceiptFacts DEF ReceiptTypes, CommandTypes, HookTypes, Releases
<1>4. ASSUME NEW t \in Tasks, HookRegisters(t) PROVE ReceiptTypes'
  BY <1>4, TypeParts, ReservationFacts DEF ReceiptTypes, HookRegisters
<1>5. ASSUME NEW t \in Tasks, HookPublishes(t) PROVE ReceiptTypes'
  BY <1>5, TypeParts, ReceiptFacts DEF ReceiptTypes, CommandTypes, HookTypes, HookPublishes
<1>6. ASSUME NEW t \in Tasks, HookRefused(t) PROVE ReceiptTypes'
  BY <1>6, TypeParts, ReceiptFacts DEF ReceiptTypes, HookTypes, HostTypes, HookRefused
<1>7. ASSUME NEW t \in Tasks, EndCloses(t) PROVE ReceiptTypes'
  BY <1>7, TypeParts, ReceiptFacts DEF ReceiptTypes, CommandTypes, HookTypes, EndCloses
<1>8. CASE UNCHANGED receipts
  BY <1>8
<1>9. ASSUME \/ UNCHANGED vars
     \/ (\E t \in Tasks : ApplyBegins(t)) \/ (\E t \in Tasks : RecoverBegins(t))
     \/ (\E t \in Tasks : FinishBegins(t)) \/ (\E t, o \in Tasks : Looks(t, o))
     \/ (\E t \in Tasks : Assesses(t)) \/ (\E t \in Tasks : Prepares(t))
     \/ (\E t \in Tasks : Claims(t)) \/ (\E t \in Tasks : Reassesses(t))
     \/ (\E t \in Tasks : WritesJournal(t)) \/ (\E t \in Tasks : Activates(t))
     \/ (\E t \in Tasks : WritesLock(t)) \/ (\E t \in Tasks : Marks(t))
     \/ (\E t \in Tasks : DoctorPasses(t)) \/ (\E t \in Tasks : StartsCommit(t))
     \/ (\E t \in Tasks : CommitReturns(t)) \/ (\E t \in Tasks : Verifies(t))
     \/ (\E t \in Tasks : Checks(t)) \/ (\E t \in Tasks : Fails(t))
     \/ (\E t \in Tasks : Adopts(t)) \/ (\E t \in Tasks : Judges(t))
     \/ (\E t \in Tasks : RestoresLock(t)) \/ (\E t \in Tasks : RestoresPointer(t))
     \/ (\E t \in Tasks : Confirms(t)) \/ (\E t \in Tasks : Revalidates(t))
     \/ (\E t \in Tasks : ReadsReceipt(t)) \/ (\E t \in Tasks : Unlinks(t))
     \/ (\E t \in Tasks : Killed(t)) \/ (\E t \in Tasks : HookEnters(t))
     \/ (\E t \in Tasks : DiscoveryStarts(t)) \/ (\E t \in Tasks : DiscoveryEnds(t))
     \/ (\E t \in Tasks : EndReads(t)) \/ (\E t \in Tasks : HookKilled(t))
     \/ (\E t \in Tasks : HostStarts(t)) \/ (\E t \in Tasks : HostExits(t))
     \/ (\E t \in Tasks, k \in {"startup", "resume", "prompt", "end"} : Event(t,
      k)) \/ (\E r \in Readers : ReaderStarts(r))
     \/ (\E r \in Readers : ReaderEnters(r)) \/ (\E r \in Readers : ReaderEnds(r))
     \/ GitEnds \/ OthersWrite
      PROVE  UNCHANGED receipts
  BY <1>9 DEF vars, ApplyBegins, RecoverBegins, FinishBegins, Looks, Assesses, Prepares,
      Claims, Reassesses, WritesJournal, Activates, WritesLock, Marks, DoctorPasses,
      StartsCommit, CommitReturns, Verifies, Checks, Fails, Adopts, Judges, RestoresLock,
      RestoresPointer, Confirms, Revalidates, ReadsReceipt, Unlinks, Killed, HookEnters,
      DiscoveryStarts, DiscoveryEnds, EndReads, HookKilled, HostStarts, HostExits, Event,
      ReaderStarts, ReaderEnters, ReaderEnds, GitEnds, OthersWrite, Goes, Gone, HookGone, HookIs
<1>10. QED
  BY <1>1, <1>2, <1>3, <1>4, <1>5, <1>6, <1>7, <1>8, <1>9 DEF Next, Begins, Continues, Hook

-----------------------------------------------------------------------------
(* The parts of the invariant *)

\* The locks: whoever is past a lock's guard holds it, and releases it when it ends.
LEMMA LockStep ==
  ASSUME TypeOK, LockInv, JournalInv, UserInv, [Next]_vars
  PROVE  LockInv'
<1>. USE TypesFollow, UpdateAssumption DEF Types, LockInv, Owning, Trying, Restoring, Closing,
      Inside, Elsewhere, fileVars, lockVars, commandVars, hookVars, hostVars, countVars
<1>1. ASSUME NEW t \in Tasks, ApplyBegins(t) PROVE LockInv'
  BY <1>1 DEF ApplyBegins, CanRun, Holds, Others
<1>2. ASSUME NEW t \in Tasks, RecoverBegins(t) PROVE LockInv'
  BY <1>2 DEF RecoverBegins, CanRun
<1>3. ASSUME NEW t \in Tasks, FinishBegins(t) PROVE LockInv'
  BY <1>3 DEF FinishBegins, CanRun
<1>4. ASSUME NEW t \in Tasks, NEW o \in Tasks, Looks(t, o) PROVE LockInv'
  BY <1>4 DEF Looks, Gone
<1>5. ASSUME NEW t \in Tasks, Disowns(t) PROVE LockInv'
  BY <1>5 DEF Disowns
<1>6. ASSUME NEW t \in Tasks, Assesses(t) PROVE LockInv'
  BY <1>6 DEF Assesses, Gone, Snapshot, Eligible
<1>7. ASSUME NEW t \in Tasks, Prepares(t) PROVE LockInv'
  BY <1>7 DEF Prepares, Goes, Gone
<1>8. ASSUME NEW t \in Tasks, Claims(t) PROVE LockInv'
  BY <1>8 DEF Claims, Gone, Others
<1>9. ASSUME NEW t \in Tasks, Reassesses(t) PROVE LockInv'
  BY <1>9 DEF Reassesses, Gone, Snapshot
<1>10. ASSUME NEW t \in Tasks, WritesJournal(t) PROVE LockInv'
  BY <1>10 DEF WritesJournal, Goes
<1>11. ASSUME NEW t \in Tasks, Activates(t) PROVE LockInv'
  BY <1>11 DEF Activates, Goes
<1>12. ASSUME NEW t \in Tasks, WritesLock(t) PROVE LockInv'
  BY <1>12 DEF WritesLock, Goes
<1>13. ASSUME NEW t \in Tasks, Marks(t) PROVE LockInv'
  BY <1>13 DEF Marks, Goes
<1>14. ASSUME NEW t \in Tasks, DoctorPasses(t) PROVE LockInv'
  BY <1>14 DEF DoctorPasses, Goes
<1>15. ASSUME NEW t \in Tasks, StartsCommit(t) PROVE LockInv'
  BY <1>15 DEF StartsCommit, Goes
<1>16. ASSUME NEW t \in Tasks, CommitReturns(t) PROVE LockInv'
  BY <1>16 DEF CommitReturns, Goes
<1>17. ASSUME NEW t \in Tasks, Verifies(t) PROVE LockInv'
  BY <1>17 DEF Verifies, Goes
<1>18. ASSUME NEW t \in Tasks, Checks(t) PROVE LockInv'
  BY <1>18 DEF Checks
<1>19. ASSUME NEW t \in Tasks, Fails(t) PROVE LockInv'
  BY <1>19 DEF Fails, Goes
<1>20. ASSUME NEW t \in Tasks, Adopts(t) PROVE LockInv'
  BY <1>20 DEF Adopts, Goes, Gone
<1>21. ASSUME NEW t \in Tasks, Judges(t) PROVE LockInv'
  BY <1>21 DEF Judges, Gone
<1>22. ASSUME NEW t \in Tasks, RestoresLock(t) PROVE LockInv'
  BY <1>22 DEF RestoresLock, Goes, Follows
<1>23. ASSUME NEW t \in Tasks, RestoresPointer(t) PROVE LockInv'
  BY <1>23 DEF RestoresPointer, Goes, Follows
<1>24. ASSUME NEW t \in Tasks, Confirms(t) PROVE LockInv'
  BY <1>24 DEF Confirms, Goes, Gone
<1>25. ASSUME NEW t \in Tasks, Revalidates(t) PROVE LockInv'
  BY <1>25 DEF Revalidates, Goes, Gone
<1>26. ASSUME NEW t \in Tasks, ReadsReceipt(t) PROVE LockInv'
  BY <1>26 DEF ReadsReceipt
<1>27. ASSUME NEW t \in Tasks, RewritesReceipt(t) PROVE LockInv'
  BY <1>27 DEF RewritesReceipt
<1>28. ASSUME NEW t \in Tasks, Unlinks(t) PROVE LockInv'
  BY <1>28 DEF Unlinks, Gone
<1>29. ASSUME NEW t \in Tasks, Releases(t) PROVE LockInv'
  BY <1>29 DEF Releases, Gone
<1>30. ASSUME NEW t \in Tasks, Killed(t) PROVE LockInv'
  BY <1>30 DEF Killed, Gone
<1>31. ASSUME NEW t \in Tasks, HookEnters(t) PROVE LockInv'
  BY <1>31 DEF HookEnters, HookIs, Admitted
<1>32. ASSUME NEW t \in Tasks, HookRegisters(t) PROVE LockInv'
  BY <1>32 DEF HookRegisters, HookGone, HookIs, Told
<1>33. ASSUME NEW t \in Tasks, DiscoveryStarts(t) PROVE LockInv'
  BY <1>33 DEF DiscoveryStarts, HookIs
<1>34. ASSUME NEW t \in Tasks, DiscoveryEnds(t) PROVE LockInv'
  BY <1>34 DEF DiscoveryEnds, HookIs
<1>35. ASSUME NEW t \in Tasks, HookPublishes(t) PROVE LockInv'
  BY <1>35 DEF HookPublishes, HookGone, HookIs, Told
<1>36. ASSUME NEW t \in Tasks, HookRefused(t) PROVE LockInv'
  BY <1>36 DEF HookRefused, HookGone, HookIs, Told
<1>37. ASSUME NEW t \in Tasks, EndReads(t) PROVE LockInv'
  BY <1>37 DEF EndReads, HookIs
<1>38. ASSUME NEW t \in Tasks, EndCloses(t) PROVE LockInv'
  BY <1>38 DEF EndCloses, HookGone, HookIs
<1>39. ASSUME NEW t \in Tasks, HookKilled(t) PROVE LockInv'
  BY <1>39 DEF HookKilled, HookGone, HookIs
<1>40. ASSUME NEW t \in Tasks, HostStarts(t) PROVE LockInv'
  BY <1>40 DEF HostStarts
<1>41. ASSUME NEW t \in Tasks, HostExits(t) PROVE LockInv'
  BY <1>41 DEF HostExits
<1>42. ASSUME NEW t \in Tasks, NEW k \in {"startup", "resume", "prompt", "end"}, Event(t,
      k) PROVE LockInv'
  BY <1>42 DEF Event, HookIs
<1>43. ASSUME NEW r \in Readers, ReaderStarts(r) PROVE LockInv'
  BY <1>43 DEF ReaderStarts
<1>44. ASSUME NEW r \in Readers, ReaderEnters(r) PROVE LockInv'
  BY <1>44 DEF ReaderEnters, Admitted
<1>45. ASSUME NEW r \in Readers, ReaderEnds(r) PROVE LockInv'
  BY <1>45 DEF ReaderEnds
<1>46. ASSUME GitEnds PROVE LockInv'
  BY <1>46 DEF GitEnds
<1>47. ASSUME OthersWrite PROVE LockInv'
  BY <1>47 DEF OthersWrite
<1>48. CASE UNCHANGED vars
  BY <1>48 DEF vars
<1>49. QED
  BY <1>1, <1>2, <1>3, <1>4, <1>5, <1>6, <1>7, <1>8, <1>9, <1>10, <1>11, <1>12, <1>13, <1>14,
      <1>15, <1>16, <1>17, <1>18, <1>19, <1>20, <1>21, <1>22, <1>23, <1>24, <1>25, <1>26,
      <1>27, <1>28, <1>29, <1>30, <1>31, <1>32, <1>33, <1>34, <1>35, <1>36, <1>37, <1>38,
      <1>39, <1>40, <1>41, <1>42, <1>43, <1>44, <1>45, <1>46, <1>47, <1>48 DEF Next, Begins,
      Continues, Hook

\* Lock file and pointer are written in the order the journal protects.
LEMMA JournalStep ==
  ASSUME TypeOK, LockInv, JournalInv, UserInv, [Next]_vars
  PROVE  JournalInv'
<1>. USE TypesFollow, UpdateAssumption DEF Types, LockInv, JournalInv, Journalled, NoJournal,
      Follows, Journalling, Unwritten, Activated, Agreeing, Assessing, Trying, Restoring,
      Closing, Elsewhere, fileVars, lockVars, commandVars, hookVars, hostVars, countVars
<1>1. ASSUME NEW t \in Tasks, ApplyBegins(t) PROVE JournalInv'
  BY <1>1 DEF ApplyBegins, CanRun, Holds, Others
<1>2. ASSUME NEW t \in Tasks, RecoverBegins(t) PROVE JournalInv'
  BY <1>2 DEF RecoverBegins, CanRun
<1>3. ASSUME NEW t \in Tasks, FinishBegins(t) PROVE JournalInv'
  BY <1>3 DEF FinishBegins, CanRun
<1>4. ASSUME NEW t \in Tasks, NEW o \in Tasks, Looks(t, o) PROVE JournalInv'
  BY <1>4 DEF Looks, Gone
<1>5. ASSUME NEW t \in Tasks, Disowns(t) PROVE JournalInv'
  BY <1>5 DEF Disowns
<1>6. ASSUME NEW t \in Tasks, Assesses(t) PROVE JournalInv'
  BY <1>6 DEF Assesses, Gone, Snapshot, Eligible
<1>7. ASSUME NEW t \in Tasks, Prepares(t) PROVE JournalInv'
  BY <1>7 DEF Prepares, Goes, Gone
<1>8. ASSUME NEW t \in Tasks, Claims(t) PROVE JournalInv'
  BY <1>8 DEF Claims, Gone, Others
<1>9. ASSUME NEW t \in Tasks, Reassesses(t) PROVE JournalInv'
  BY <1>9 DEF Reassesses, Gone, Snapshot
<1>10. ASSUME NEW t \in Tasks, WritesJournal(t) PROVE JournalInv'
  BY <1>10 DEF WritesJournal, Goes
<1>11. ASSUME NEW t \in Tasks, Activates(t) PROVE JournalInv'
  BY <1>11 DEF Activates, Goes
<1>12. ASSUME NEW t \in Tasks, WritesLock(t) PROVE JournalInv'
  BY <1>12 DEF WritesLock, Goes
<1>13. ASSUME NEW t \in Tasks, Marks(t) PROVE JournalInv'
  BY <1>13 DEF Journals, Marks, Goes
<1>14. ASSUME NEW t \in Tasks, DoctorPasses(t) PROVE JournalInv'
  BY <1>14 DEF DoctorPasses, Goes
<1>15. ASSUME NEW t \in Tasks, StartsCommit(t) PROVE JournalInv'
  BY <1>15 DEF StartsCommit, Goes
<1>16. ASSUME NEW t \in Tasks, CommitReturns(t) PROVE JournalInv'
  BY <1>16 DEF CommitReturns, Goes
<1>17. ASSUME NEW t \in Tasks, Verifies(t) PROVE JournalInv'
  BY <1>17 DEF Verifies, Goes
<1>18. ASSUME NEW t \in Tasks, Checks(t) PROVE JournalInv'
  BY <1>18 DEF Checks
<1>19. ASSUME NEW t \in Tasks, Fails(t) PROVE JournalInv'
  BY <1>19 DEF Fails, Goes
<1>20. ASSUME NEW t \in Tasks, Adopts(t) PROVE JournalInv'
  BY <1>20 DEF Journals, Adopts, Goes, Gone
<1>21. ASSUME NEW t \in Tasks, Judges(t) PROVE JournalInv'
  BY <1>21 DEF Judges, Gone
<1>22. ASSUME NEW t \in Tasks, RestoresLock(t) PROVE JournalInv'
  BY <1>22 DEF RestoresLock, Goes, Follows
<1>23. ASSUME NEW t \in Tasks, RestoresPointer(t) PROVE JournalInv'
  BY <1>23 DEF RestoresPointer, Goes, Follows
<1>24. ASSUME NEW t \in Tasks, Confirms(t) PROVE JournalInv'
  BY <1>24 DEF Confirms, Goes, Gone
<1>25. ASSUME NEW t \in Tasks, Revalidates(t) PROVE JournalInv'
  BY <1>25 DEF Revalidates, Goes, Gone
<1>26. ASSUME NEW t \in Tasks, ReadsReceipt(t) PROVE JournalInv'
  BY <1>26 DEF ReadsReceipt
<1>27. ASSUME NEW t \in Tasks, RewritesReceipt(t) PROVE JournalInv'
  BY <1>27 DEF RewritesReceipt
<1>28. ASSUME NEW t \in Tasks, Unlinks(t) PROVE JournalInv'
  BY <1>28 DEF Unlinks, Gone
<1>29. ASSUME NEW t \in Tasks, Releases(t) PROVE JournalInv'
  BY <1>29 DEF Releases, Gone
<1>30. ASSUME NEW t \in Tasks, Killed(t) PROVE JournalInv'
  BY <1>30 DEF Killed, Gone
<1>31. ASSUME NEW t \in Tasks, HookEnters(t) PROVE JournalInv'
  BY <1>31 DEF HookEnters, HookIs, Admitted
<1>32. ASSUME NEW t \in Tasks, HookRegisters(t) PROVE JournalInv'
  BY <1>32 DEF HookRegisters, HookGone, HookIs, Told
<1>33. ASSUME NEW t \in Tasks, DiscoveryStarts(t) PROVE JournalInv'
  BY <1>33 DEF DiscoveryStarts, HookIs
<1>34. ASSUME NEW t \in Tasks, DiscoveryEnds(t) PROVE JournalInv'
  BY <1>34 DEF DiscoveryEnds, HookIs
<1>35. ASSUME NEW t \in Tasks, HookPublishes(t) PROVE JournalInv'
  BY <1>35 DEF HookPublishes, HookGone, HookIs, Told
<1>36. ASSUME NEW t \in Tasks, HookRefused(t) PROVE JournalInv'
  BY <1>36 DEF HookRefused, HookGone, HookIs, Told
<1>37. ASSUME NEW t \in Tasks, EndReads(t) PROVE JournalInv'
  BY <1>37 DEF EndReads, HookIs
<1>38. ASSUME NEW t \in Tasks, EndCloses(t) PROVE JournalInv'
  BY <1>38 DEF EndCloses, HookGone, HookIs
<1>39. ASSUME NEW t \in Tasks, HookKilled(t) PROVE JournalInv'
  BY <1>39 DEF HookKilled, HookGone, HookIs
<1>40. ASSUME NEW t \in Tasks, HostStarts(t) PROVE JournalInv'
  BY <1>40 DEF HostStarts
<1>41. ASSUME NEW t \in Tasks, HostExits(t) PROVE JournalInv'
  BY <1>41 DEF HostExits
<1>42. ASSUME NEW t \in Tasks, NEW k \in {"startup", "resume", "prompt", "end"}, Event(t,
      k) PROVE JournalInv'
  BY <1>42 DEF Event, HookIs
<1>43. ASSUME NEW r \in Readers, ReaderStarts(r) PROVE JournalInv'
  BY <1>43 DEF ReaderStarts
<1>44. ASSUME NEW r \in Readers, ReaderEnters(r) PROVE JournalInv'
  BY <1>44 DEF ReaderEnters, Admitted
<1>45. ASSUME NEW r \in Readers, ReaderEnds(r) PROVE JournalInv'
  BY <1>45 DEF ReaderEnds
<1>46. ASSUME GitEnds PROVE JournalInv'
  BY <1>46 DEF GitEnds
<1>47. ASSUME OthersWrite PROVE JournalInv'
  BY <1>47 DEF OthersWrite
<1>48. CASE UNCHANGED vars
  BY <1>48 DEF vars
<1>49. QED
  BY <1>1, <1>2, <1>3, <1>4, <1>5, <1>6, <1>7, <1>8, <1>9, <1>10, <1>11, <1>12, <1>13, <1>14,
      <1>15, <1>16, <1>17, <1>18, <1>19, <1>20, <1>21, <1>22, <1>23, <1>24, <1>25, <1>26,
      <1>27, <1>28, <1>29, <1>30, <1>31, <1>32, <1>33, <1>34, <1>35, <1>36, <1>37, <1>38,
      <1>39, <1>40, <1>41, <1>42, <1>43, <1>44, <1>45, <1>46, <1>47, <1>48 DEF Next, Begins,
      Continues, Hook

\* Whoever is inside keeps an unchanged runtime: pointer and journal are only written
\* under the exclusive lock.
LEMMA UserStep ==
  ASSUME TypeOK, LockInv, JournalInv, UserInv, [Next]_vars
  PROVE  UserInv'
<1>. USE TypesFollow, UpdateAssumption DEF Types, LockInv, JournalInv, UserInv, Journalled,
      NoJournal, Owning, Trying, Restoring, Closing, Journalling, Elsewhere, fileVars,
      lockVars, commandVars, hookVars, hostVars, countVars
<1>1. ASSUME NEW t \in Tasks, ApplyBegins(t) PROVE UserInv'
  BY <1>1 DEF ApplyBegins, CanRun, Holds, Others
<1>2. ASSUME NEW t \in Tasks, RecoverBegins(t) PROVE UserInv'
  BY <1>2 DEF RecoverBegins, CanRun
<1>3. ASSUME NEW t \in Tasks, FinishBegins(t) PROVE UserInv'
  BY <1>3 DEF FinishBegins, CanRun
<1>4. ASSUME NEW t \in Tasks, NEW o \in Tasks, Looks(t, o) PROVE UserInv'
  BY <1>4 DEF Looks, Gone
<1>5. ASSUME NEW t \in Tasks, Disowns(t) PROVE UserInv'
  BY <1>5 DEF Disowns
<1>6. ASSUME NEW t \in Tasks, Assesses(t) PROVE UserInv'
  BY <1>6 DEF Assesses, Gone, Snapshot, Eligible
<1>7. ASSUME NEW t \in Tasks, Prepares(t) PROVE UserInv'
  BY <1>7 DEF Prepares, Goes, Gone
<1>8. ASSUME NEW t \in Tasks, Claims(t) PROVE UserInv'
  BY <1>8 DEF Claims, Gone, Others
<1>9. ASSUME NEW t \in Tasks, Reassesses(t) PROVE UserInv'
  BY <1>9 DEF Reassesses, Gone, Snapshot
<1>10. ASSUME NEW t \in Tasks, WritesJournal(t) PROVE UserInv'
  BY <1>10 DEF WritesJournal, Goes
<1>11. ASSUME NEW t \in Tasks, Activates(t) PROVE UserInv'
  BY <1>11 DEF Activates, Goes
<1>12. ASSUME NEW t \in Tasks, WritesLock(t) PROVE UserInv'
  BY <1>12 DEF WritesLock, Goes
<1>13. ASSUME NEW t \in Tasks, Marks(t) PROVE UserInv'
  BY <1>13 DEF Marks, Goes
<1>14. ASSUME NEW t \in Tasks, DoctorPasses(t) PROVE UserInv'
  BY <1>14 DEF DoctorPasses, Goes
<1>15. ASSUME NEW t \in Tasks, StartsCommit(t) PROVE UserInv'
  BY <1>15 DEF StartsCommit, Goes
<1>16. ASSUME NEW t \in Tasks, CommitReturns(t) PROVE UserInv'
  BY <1>16 DEF CommitReturns, Goes
<1>17. ASSUME NEW t \in Tasks, Verifies(t) PROVE UserInv'
  BY <1>17 DEF Verifies, Goes
<1>18. ASSUME NEW t \in Tasks, Checks(t) PROVE UserInv'
  BY <1>18 DEF Checks
<1>19. ASSUME NEW t \in Tasks, Fails(t) PROVE UserInv'
  BY <1>19 DEF Fails, Goes
<1>20. ASSUME NEW t \in Tasks, Adopts(t) PROVE UserInv'
  BY <1>20 DEF Adopts, Goes, Gone
<1>21. ASSUME NEW t \in Tasks, Judges(t) PROVE UserInv'
  BY <1>21 DEF Judges, Gone
<1>22. ASSUME NEW t \in Tasks, RestoresLock(t) PROVE UserInv'
  BY <1>22 DEF RestoresLock, Goes, Follows
<1>23. ASSUME NEW t \in Tasks, RestoresPointer(t) PROVE UserInv'
  BY <1>23 DEF RestoresPointer, Goes, Follows
<1>24. ASSUME NEW t \in Tasks, Confirms(t) PROVE UserInv'
  BY <1>24 DEF Confirms, Goes, Gone
<1>25. ASSUME NEW t \in Tasks, Revalidates(t) PROVE UserInv'
  BY <1>25 DEF Revalidates, Goes, Gone
<1>26. ASSUME NEW t \in Tasks, ReadsReceipt(t) PROVE UserInv'
  BY <1>26 DEF ReadsReceipt
<1>27. ASSUME NEW t \in Tasks, RewritesReceipt(t) PROVE UserInv'
  BY <1>27 DEF RewritesReceipt
<1>28. ASSUME NEW t \in Tasks, Unlinks(t) PROVE UserInv'
  BY <1>28 DEF Unlinks, Gone
<1>29. ASSUME NEW t \in Tasks, Releases(t) PROVE UserInv'
  BY <1>29 DEF Releases, Gone
<1>30. ASSUME NEW t \in Tasks, Killed(t) PROVE UserInv'
  BY <1>30 DEF Killed, Gone
<1>31. ASSUME NEW t \in Tasks, HookEnters(t) PROVE UserInv'
  BY <1>31 DEF HookEnters, HookIs, Admitted
<1>32. ASSUME NEW t \in Tasks, HookRegisters(t) PROVE UserInv'
  BY <1>32 DEF HookRegisters, HookGone, HookIs, Told
<1>33. ASSUME NEW t \in Tasks, DiscoveryStarts(t) PROVE UserInv'
  BY <1>33 DEF DiscoveryStarts, HookIs
<1>34. ASSUME NEW t \in Tasks, DiscoveryEnds(t) PROVE UserInv'
  BY <1>34 DEF DiscoveryEnds, HookIs
<1>35. ASSUME NEW t \in Tasks, HookPublishes(t) PROVE UserInv'
  BY <1>35 DEF HookPublishes, HookGone, HookIs, Told
<1>36. ASSUME NEW t \in Tasks, HookRefused(t) PROVE UserInv'
  BY <1>36 DEF HookRefused, HookGone, HookIs, Told
<1>37. ASSUME NEW t \in Tasks, EndReads(t) PROVE UserInv'
  BY <1>37 DEF EndReads, HookIs
<1>38. ASSUME NEW t \in Tasks, EndCloses(t) PROVE UserInv'
  BY <1>38 DEF EndCloses, HookGone, HookIs
<1>39. ASSUME NEW t \in Tasks, HookKilled(t) PROVE UserInv'
  BY <1>39 DEF HookKilled, HookGone, HookIs
<1>40. ASSUME NEW t \in Tasks, HostStarts(t) PROVE UserInv'
  BY <1>40 DEF HostStarts
<1>41. ASSUME NEW t \in Tasks, HostExits(t) PROVE UserInv'
  BY <1>41 DEF HostExits
<1>42. ASSUME NEW t \in Tasks, NEW k \in {"startup", "resume", "prompt", "end"}, Event(t,
      k) PROVE UserInv'
  BY <1>42 DEF Event, HookIs
<1>43. ASSUME NEW r \in Readers, ReaderStarts(r) PROVE UserInv'
  BY <1>43 DEF ReaderStarts
<1>44. ASSUME NEW r \in Readers, ReaderEnters(r) PROVE UserInv'
  BY <1>44 DEF ReaderEnters, Admitted
<1>45. ASSUME NEW r \in Readers, ReaderEnds(r) PROVE UserInv'
  BY <1>45 DEF ReaderEnds
<1>46. ASSUME GitEnds PROVE UserInv'
  BY <1>46 DEF GitEnds
<1>47. ASSUME OthersWrite PROVE UserInv'
  BY <1>47 DEF OthersWrite
<1>48. CASE UNCHANGED vars
  BY <1>48 DEF vars
<1>49. QED
  BY <1>1, <1>2, <1>3, <1>4, <1>5, <1>6, <1>7, <1>8, <1>9, <1>10, <1>11, <1>12, <1>13, <1>14,
      <1>15, <1>16, <1>17, <1>18, <1>19, <1>20, <1>21, <1>22, <1>23, <1>24, <1>25, <1>26,
      <1>27, <1>28, <1>29, <1>30, <1>31, <1>32, <1>33, <1>34, <1>35, <1>36, <1>37, <1>38,
      <1>39, <1>40, <1>41, <1>42, <1>43, <1>44, <1>45, <1>46, <1>47, <1>48 DEF Next, Begins,
      Continues, Hook

-----------------------------------------------------------------------------
(* Refinement *)

\* A step that lets nobody in or out closes the gate only when nobody is inside,
\* and never turns one open version into another.
ServingMoves ==
  /\ UNCHANGED <<shared, loaded>>
  /\ \/ GateServing' = GateServing
     \/ GateServing = "closed"
     \/ GateServing' = "closed" /\ shared = {}

\* A step that leaves the gate as it is lets one user in or out.
UserMoves ==
  /\ GateServing' = GateServing
  /\ \E u \in Tasks \cup Readers :
       \/ /\ GateServing \in Versions /\ u \notin shared
          /\ GateUsers' = [GateUsers EXCEPT ![u] = GateServing]
       \/ GateUsers' = [GateUsers EXCEPT ![u] = "none"]

LEMMA ServingIsGate ==
  ASSUME TypeOK, TypeOK', ServingMoves
  PROVE  [Gate!GateNext]_<<GateServing, GateUsers>>
<1>1. GateUsers' = GateUsers
  BY DEF ServingMoves, GateUsers
<1>2. GateServing \in Versions \cup {"closed"} /\ GateServing' \in Versions \cup {"closed"}
  BY DEF TypeOK, GateServing
<1>3. CASE GateServing' = GateServing
  BY <1>1, <1>3
<1>4. CASE GateServing = "closed" /\ GateServing' # "closed"
  BY <1>1, <1>2, <1>4 DEF Gate!GateNext, Gate!Reopen, Gate!Served, Versions
<1>5. CASE GateServing' = "closed" /\ shared = {}
  <2>1. \A u \in Tasks \cup Readers : GateUsers[u] = "none"
    BY <1>5 DEF GateUsers
  <2>. QED
    BY <1>1, <1>5, <2>1 DEF Gate!GateNext, Gate!Close
<1>. QED
  BY <1>3, <1>4, <1>5 DEF ServingMoves

LEMMA UserIsGate ==
  ASSUME UserMoves
  PROVE  [Gate!GateNext]_<<GateServing, GateUsers>>
<1>1. PICK u \in Tasks \cup Readers :
        \/ /\ GateServing \in Versions /\ u \notin shared
           /\ GateUsers' = [GateUsers EXCEPT ![u] = GateServing]
        \/ GateUsers' = [GateUsers EXCEPT ![u] = "none"]
  BY DEF UserMoves
<1>2. u \notin shared => GateUsers[u] = "none"
  BY DEF GateUsers
<1>. QED
  BY <1>1, <1>2 DEF UserMoves, Gate!GateNext, Gate!Enter, Gate!Leave, Gate!Served, Versions

\* Every step opens, closes, enters or leaves the gate.
LEMMA GateStep ==
  ASSUME TypeOK, LockInv, JournalInv, UserInv, [Next]_vars
  PROVE  ServingMoves \/ UserMoves
<1>. USE DEF ServingMoves, Elsewhere, fileVars, lockVars, commandVars, hookVars, hostVars,
      countVars
<1>1. ASSUME NEW t \in Tasks, ApplyBegins(t) PROVE ServingMoves \/ UserMoves
  BY <1>1, TypesFollow, UpdateAssumption DEF Types, LockInv, GateServing, Journalled, Owning,
      Trying, Restoring, Closing, ApplyBegins, CanRun, Holds, Others
<1>2. ASSUME NEW t \in Tasks, RecoverBegins(t) PROVE ServingMoves \/ UserMoves
  BY <1>2, TypesFollow, UpdateAssumption DEF Types, LockInv, GateServing, Journalled, Owning,
      Trying, Restoring, Closing, RecoverBegins, CanRun
<1>3. ASSUME NEW t \in Tasks, FinishBegins(t) PROVE ServingMoves \/ UserMoves
  BY <1>3, TypesFollow, UpdateAssumption DEF Types, LockInv, GateServing, Journalled, Owning,
      Trying, Restoring, Closing, FinishBegins, CanRun
<1>4. ASSUME NEW t \in Tasks, NEW o \in Tasks, Looks(t, o) PROVE ServingMoves \/ UserMoves
  BY <1>4, TypesFollow, UpdateAssumption DEF Types, LockInv, GateServing, Journalled, Owning,
      Trying, Restoring, Closing, Looks, Gone
<1>5. ASSUME NEW t \in Tasks, Disowns(t) PROVE ServingMoves \/ UserMoves
  BY <1>5, TypesFollow, UpdateAssumption DEF Types, LockInv, GateServing, Journalled, Owning,
      Trying, Restoring, Closing, Disowns
<1>6. ASSUME NEW t \in Tasks, Assesses(t) PROVE ServingMoves \/ UserMoves
  BY <1>6, TypesFollow, UpdateAssumption DEF Types, LockInv, GateServing, Journalled, Owning,
      Trying, Restoring, Closing, Assesses, Gone, Snapshot, Eligible
<1>7. ASSUME NEW t \in Tasks, Prepares(t) PROVE ServingMoves \/ UserMoves
  BY <1>7, TypesFollow, UpdateAssumption DEF Types, LockInv, GateServing, Journalled, Owning,
      Trying, Restoring, Closing, Prepares, Goes, Gone
<1>8. ASSUME NEW t \in Tasks, Claims(t) PROVE ServingMoves \/ UserMoves
  BY <1>8, TypesFollow, UpdateAssumption DEF Types, LockInv, GateServing, Journalled, Owning,
      Trying, Restoring, Closing, Claims, Gone, Others
<1>9. ASSUME NEW t \in Tasks, Reassesses(t) PROVE ServingMoves \/ UserMoves
  BY <1>9, TypesFollow, UpdateAssumption DEF Types, LockInv, GateServing, Journalled, Owning,
      Trying, Restoring, Closing, Reassesses, Gone, Snapshot
<1>10. ASSUME NEW t \in Tasks, WritesJournal(t) PROVE ServingMoves \/ UserMoves
  BY <1>10, TypesFollow, UpdateAssumption DEF Types, LockInv, GateServing, Journalled, Owning,
      Trying, Restoring, Closing, NoJournal, WritesJournal, Goes
<1>11. ASSUME NEW t \in Tasks, Activates(t) PROVE ServingMoves \/ UserMoves
  BY <1>11, TypesFollow, UpdateAssumption DEF Types, LockInv, GateServing, Journalled, Owning,
      Trying, Restoring, Closing, Activates, Goes
<1>12. ASSUME NEW t \in Tasks, WritesLock(t) PROVE ServingMoves \/ UserMoves
  BY <1>12, TypesFollow, UpdateAssumption DEF Types, LockInv, GateServing, Journalled, Owning,
      Trying, Restoring, Closing, WritesLock, Goes
<1>13. ASSUME NEW t \in Tasks, Marks(t) PROVE ServingMoves \/ UserMoves
  BY <1>13, TypesFollow, UpdateAssumption DEF Types, LockInv, GateServing, Journalled, Owning,
      Trying, Restoring, Closing, Journals, Marks, Goes
<1>14. ASSUME NEW t \in Tasks, DoctorPasses(t) PROVE ServingMoves \/ UserMoves
  BY <1>14, TypesFollow, UpdateAssumption DEF Types, LockInv, GateServing, Journalled, Owning,
      Trying, Restoring, Closing, DoctorPasses, Goes
<1>15. ASSUME NEW t \in Tasks, StartsCommit(t) PROVE ServingMoves \/ UserMoves
  BY <1>15, TypesFollow, UpdateAssumption DEF Types, LockInv, GateServing, Journalled, Owning,
      Trying, Restoring, Closing, StartsCommit, Goes
<1>16. ASSUME NEW t \in Tasks, CommitReturns(t) PROVE ServingMoves \/ UserMoves
  BY <1>16, TypesFollow, UpdateAssumption DEF Types, LockInv, GateServing, Journalled, Owning,
      Trying, Restoring, Closing, CommitReturns, Goes
<1>17. ASSUME NEW t \in Tasks, Verifies(t) PROVE ServingMoves \/ UserMoves
  BY <1>17, TypesFollow, UpdateAssumption DEF Types, LockInv, GateServing, Journalled, Owning,
      Trying, Restoring, Closing, Verifies, Goes
<1>18. ASSUME NEW t \in Tasks, Checks(t) PROVE ServingMoves \/ UserMoves
  BY <1>18, TypesFollow, UpdateAssumption DEF Types, LockInv, GateServing, Journalled, Owning,
      Trying, Restoring, Closing, Checks
<1>19. ASSUME NEW t \in Tasks, Fails(t) PROVE ServingMoves \/ UserMoves
  BY <1>19, TypesFollow, UpdateAssumption DEF Types, LockInv, GateServing, Journalled, Owning,
      Trying, Restoring, Closing, Fails, Goes
<1>20. ASSUME NEW t \in Tasks, Adopts(t) PROVE ServingMoves \/ UserMoves
  BY <1>20, TypesFollow, UpdateAssumption DEF Types, LockInv, GateServing, Journalled, Owning,
      Trying, Restoring, Closing, Journals, Adopts, Goes, Gone
<1>21. ASSUME NEW t \in Tasks, Judges(t) PROVE ServingMoves \/ UserMoves
  BY <1>21, TypesFollow, UpdateAssumption DEF Types, LockInv, GateServing, Journalled, Owning,
      Trying, Restoring, Closing, Judges, Gone
<1>22. ASSUME NEW t \in Tasks, RestoresLock(t) PROVE ServingMoves \/ UserMoves
  BY <1>22, TypesFollow, UpdateAssumption DEF Types, LockInv, GateServing, Journalled, Owning,
      Trying, Restoring, Closing, RestoresLock, Goes, Follows
<1>23. ASSUME NEW t \in Tasks, RestoresPointer(t) PROVE ServingMoves \/ UserMoves
  BY <1>23, TypesFollow, UpdateAssumption DEF Types, LockInv, GateServing, Journalled, Owning,
      Trying, Restoring, Closing, RestoresPointer, Goes, Follows
<1>24. ASSUME NEW t \in Tasks, Confirms(t) PROVE ServingMoves \/ UserMoves
  BY <1>24, TypesFollow, UpdateAssumption DEF Types, LockInv, GateServing, Journalled, Owning,
      Trying, Restoring, Closing, Confirms, Goes, Gone
<1>25. ASSUME NEW t \in Tasks, Revalidates(t) PROVE ServingMoves \/ UserMoves
  BY <1>25, TypesFollow, UpdateAssumption DEF Types, LockInv, GateServing, Journalled, Owning,
      Trying, Restoring, Closing, Revalidates, Goes, Gone
<1>26. ASSUME NEW t \in Tasks, ReadsReceipt(t) PROVE ServingMoves \/ UserMoves
  BY <1>26, TypesFollow, UpdateAssumption DEF Types, LockInv, GateServing, Journalled, Owning,
      Trying, Restoring, Closing, ReadsReceipt
<1>27. ASSUME NEW t \in Tasks, RewritesReceipt(t) PROVE ServingMoves \/ UserMoves
  BY <1>27, TypesFollow, UpdateAssumption DEF Types, LockInv, GateServing, Journalled, Owning,
      Trying, Restoring, Closing, RewritesReceipt
<1>28. ASSUME NEW t \in Tasks, Unlinks(t) PROVE ServingMoves \/ UserMoves
  BY <1>28, TypesFollow, UpdateAssumption DEF Types, LockInv, GateServing, Journalled, Owning,
      Trying, Restoring, Closing, NoJournal, Unlinks, Gone
<1>29. ASSUME NEW t \in Tasks, Releases(t) PROVE ServingMoves \/ UserMoves
  BY <1>29, TypesFollow, UpdateAssumption DEF Types, LockInv, GateServing, Journalled, Owning,
      Trying, Restoring, Closing, Releases, Gone
<1>30. ASSUME NEW t \in Tasks, Killed(t) PROVE ServingMoves \/ UserMoves
  BY <1>30, TypesFollow, UpdateAssumption DEF Types, LockInv, GateServing, Journalled, Owning,
      Trying, Restoring, Closing, Killed, Gone
<1>31. ASSUME NEW t \in Tasks, HookEnters(t) PROVE ServingMoves \/ UserMoves
<2>1. t \notin shared
  BY <1>31, TypesFollow DEF LockInv, Inside, HookEnters
<2>2. GateServing' = GateServing
  BY <1>31 DEF GateServing, Journalled, HookEnters, HookIs, Admitted
<2>3. CASE Admitted(t)
  <3>1. GateUsers' = [GateUsers EXCEPT ![t] = GateServing]
    BY <1>31, <2>1, <2>3 DEF GateUsers, GateServing, HookEnters, HookIs, Admitted
  <3>2. GateServing \in Versions
    BY <2>3 DEF TypeOK, GateServing, Admitted
  <3>. QED
    BY <2>1, <2>2, <3>1, <3>2 DEF UserMoves
<2>4. CASE ~Admitted(t)
  BY <1>31, <2>2, <2>4 DEF ServingMoves, HookEnters, HookIs, Admitted
<2>. QED
  BY <2>3, <2>4
<1>32. ASSUME NEW t \in Tasks, HookRegisters(t) PROVE ServingMoves \/ UserMoves
<2>1. CASE Discovers(t)
  BY <1>32, <2>1 DEF ServingMoves, GateServing, Journalled, HookRegisters, HookGone, HookIs,
      Told
<2>2. CASE ~Discovers(t)
  <3>1. GateUsers' = [GateUsers EXCEPT ![t] = "none"]
    BY <1>32, <2>2, TypesFollow, UpdateAssumption DEF Types, GateUsers, HookRegisters,
      HookGone, HookIs, Told
  <3>2. GateServing' = GateServing
    BY <1>32, <2>2 DEF GateServing, Journalled, HookRegisters, HookGone, HookIs, Told
  <3>. QED
    BY <3>1, <3>2 DEF UserMoves
<2>. QED
  BY <2>1, <2>2
<1>33. ASSUME NEW t \in Tasks, DiscoveryStarts(t) PROVE ServingMoves \/ UserMoves
  BY <1>33, TypesFollow, UpdateAssumption DEF Types, LockInv, GateServing, Journalled, Owning,
      Trying, Restoring, Closing, DiscoveryStarts, HookIs
<1>34. ASSUME NEW t \in Tasks, DiscoveryEnds(t) PROVE ServingMoves \/ UserMoves
  BY <1>34, TypesFollow, UpdateAssumption DEF Types, LockInv, GateServing, Journalled, Owning,
      Trying, Restoring, Closing, DiscoveryEnds, HookIs
<1>35. ASSUME NEW t \in Tasks, HookPublishes(t) PROVE ServingMoves \/ UserMoves
<2>1. GateUsers' = [GateUsers EXCEPT ![t] = "none"]
  BY <1>35, TypesFollow, UpdateAssumption DEF Types, GateUsers, HookPublishes, HookGone,
      HookIs, Told
<2>2. GateServing' = GateServing
  BY <1>35 DEF GateServing, Journalled, HookPublishes, HookGone, HookIs, Told
<2>. QED
  BY <2>1, <2>2 DEF UserMoves
<1>36. ASSUME NEW t \in Tasks, HookRefused(t) PROVE ServingMoves \/ UserMoves
<2>1. GateUsers' = [GateUsers EXCEPT ![t] = "none"]
  BY <1>36, TypesFollow, UpdateAssumption DEF Types, GateUsers, HookRefused, HookGone, HookIs,
      Told
<2>2. GateServing' = GateServing
  BY <1>36 DEF GateServing, Journalled, HookRefused, HookGone, HookIs, Told
<2>. QED
  BY <2>1, <2>2 DEF UserMoves
<1>37. ASSUME NEW t \in Tasks, EndReads(t) PROVE ServingMoves \/ UserMoves
  BY <1>37, TypesFollow, UpdateAssumption DEF Types, LockInv, GateServing, Journalled, Owning,
      Trying, Restoring, Closing, EndReads, HookIs
<1>38. ASSUME NEW t \in Tasks, EndCloses(t) PROVE ServingMoves \/ UserMoves
<2>1. GateUsers' = [GateUsers EXCEPT ![t] = "none"]
  BY <1>38, TypesFollow, UpdateAssumption DEF Types, GateUsers, EndCloses, HookGone, HookIs
<2>2. GateServing' = GateServing
  BY <1>38 DEF GateServing, Journalled, EndCloses, HookGone, HookIs
<2>. QED
  BY <2>1, <2>2 DEF UserMoves
<1>39. ASSUME NEW t \in Tasks, HookKilled(t) PROVE ServingMoves \/ UserMoves
<2>1. GateUsers' = [GateUsers EXCEPT ![t] = "none"]
  BY <1>39, TypesFollow, UpdateAssumption DEF Types, GateUsers, HookKilled, HookGone, HookIs
<2>2. GateServing' = GateServing
  BY <1>39 DEF GateServing, Journalled, HookKilled, HookGone, HookIs
<2>. QED
  BY <2>1, <2>2 DEF UserMoves
<1>40. ASSUME NEW t \in Tasks, HostStarts(t) PROVE ServingMoves \/ UserMoves
  BY <1>40, TypesFollow, UpdateAssumption DEF Types, LockInv, GateServing, Journalled, Owning,
      Trying, Restoring, Closing, HostStarts
<1>41. ASSUME NEW t \in Tasks, HostExits(t) PROVE ServingMoves \/ UserMoves
  BY <1>41, TypesFollow, UpdateAssumption DEF Types, LockInv, GateServing, Journalled, Owning,
      Trying, Restoring, Closing, HostExits
<1>42. ASSUME NEW t \in Tasks, NEW k \in {"startup", "resume", "prompt", "end"}, Event(t,
      k) PROVE ServingMoves \/ UserMoves
<2>1. t \notin shared
  BY <1>42 DEF LockInv, Inside, Event
<2>2. GateUsers' = [GateUsers EXCEPT ![t] = "none"]
  BY <1>42, <2>1, TypesFollow DEF Types, GateUsers, Event, HookIs
<2>3. GateServing' = GateServing
  BY <1>42 DEF GateServing, Journalled, Event, HookIs
<2>. QED
  BY <2>2, <2>3 DEF UserMoves
<1>43. ASSUME NEW r \in Readers, ReaderStarts(r) PROVE ServingMoves \/ UserMoves
<2>1. r \notin shared
  BY <1>43 DEF LockInv, Inside, ReaderStarts
<2>2. GateUsers' = [GateUsers EXCEPT ![r] = "none"]
  BY <1>43, <2>1, TypesFollow DEF Types, GateUsers, ReaderStarts
<2>3. GateServing' = GateServing
  BY <1>43 DEF GateServing, Journalled, ReaderStarts
<2>. QED
  BY <2>2, <2>3 DEF UserMoves
<1>44. ASSUME NEW r \in Readers, ReaderEnters(r) PROVE ServingMoves \/ UserMoves
<2>1. r \notin shared
  BY <1>44, TypesFollow DEF LockInv, Inside, ReaderEnters
<2>2. GateServing' = GateServing
  BY <1>44 DEF GateServing, Journalled, ReaderEnters, Admitted
<2>3. CASE Admitted(r)
  <3>1. GateUsers' = [GateUsers EXCEPT ![r] = GateServing]
    BY <1>44, <2>1, <2>3 DEF GateUsers, GateServing, ReaderEnters, Admitted
  <3>2. GateServing \in Versions
    BY <2>3 DEF TypeOK, GateServing, Admitted
  <3>. QED
    BY <2>1, <2>2, <3>1, <3>2 DEF UserMoves
<2>4. CASE ~Admitted(r)
  BY <1>44, <2>2, <2>4 DEF ServingMoves, ReaderEnters, Admitted
<2>. QED
  BY <2>3, <2>4
<1>45. ASSUME NEW r \in Readers, ReaderEnds(r) PROVE ServingMoves \/ UserMoves
<2>1. GateUsers' = [GateUsers EXCEPT ![r] = "none"]
  BY <1>45, TypesFollow, UpdateAssumption DEF Types, GateUsers, ReaderEnds
<2>2. GateServing' = GateServing
  BY <1>45 DEF GateServing, Journalled, ReaderEnds
<2>. QED
  BY <2>1, <2>2 DEF UserMoves
<1>46. ASSUME GitEnds PROVE ServingMoves \/ UserMoves
  BY <1>46, TypesFollow, UpdateAssumption DEF Types, LockInv, GateServing, Journalled, Owning,
      Trying, Restoring, Closing, GitEnds
<1>47. ASSUME OthersWrite PROVE ServingMoves \/ UserMoves
  BY <1>47, TypesFollow, UpdateAssumption DEF Types, LockInv, GateServing, Journalled, Owning,
      Trying, Restoring, Closing, OthersWrite
<1>48. CASE UNCHANGED vars
  BY <1>48 DEF GateServing, Journalled, vars
<1>49. QED
  BY <1>1, <1>2, <1>3, <1>4, <1>5, <1>6, <1>7, <1>8, <1>9, <1>10, <1>11, <1>12, <1>13, <1>14,
      <1>15, <1>16, <1>17, <1>18, <1>19, <1>20, <1>21, <1>22, <1>23, <1>24, <1>25, <1>26,
      <1>27, <1>28, <1>29, <1>30, <1>31, <1>32, <1>33, <1>34, <1>35, <1>36, <1>37, <1>38,
      <1>39, <1>40, <1>41, <1>42, <1>43, <1>44, <1>45, <1>46, <1>47, <1>48 DEF Next, Begins,
      Continues, Hook

-----------------------------------------------------------------------------
(* Theorems *)

LEMMA InvInit == Init => IInv
<1>. SUFFICES ASSUME Init PROVE IInv
  OBVIOUS
<1>1. NoSnapshot \in Snapshots /\ NoReceipt \in Receipts
  BY ReceiptFacts DEF NoSnapshot, Snapshots
<1>2. FileTypes
  <2>1. [lock |-> "old", isolated |-> FALSE] \in Commits
    BY DEF Commits, Versions
  <2>2. commits \in Seq(Commits) /\ Len(commits) > 0
    BY <2>1 DEF Init
  <2>. QED
    BY <1>1, <2>2 DEF Init, FileTypes, Versions, Children, NoChild, Journals, NoJournal, Phases
<1>3. CommandTypes
  BY <1>1 DEF Init, CommandTypes, Points, Results
<1>4. LockTypes /\ HookTypes /\ HostTypes /\ ReceiptTypes
  BY <1>1 DEF Init, LockTypes, HookTypes, HostTypes, ReceiptTypes, HookPoints
<1>5. LockInv
  BY UpdateAssumption DEF Init, LockInv, Owning, Trying, Restoring, Closing
<1>6. JournalInv
  BY DEF Init, JournalInv, Journalled, NoJournal, Journalling, Unwritten, Activated, Agreeing,
     Assessing, Trying, Restoring, Closing
<1>7. UserInv
  BY DEF Init, UserInv
<1>. QED
  BY <1>2, <1>3, <1>4, <1>5, <1>6, <1>7, TypeParts DEF IInv

LEMMA InvStep == IInv /\ [Next]_vars => IInv'
<1>. SUFFICES ASSUME IInv, [Next]_vars PROVE IInv'
  OBVIOUS
<1>. USE DEF IInv
<1>1. TypeOK'
  <2>1. (CommandTypes /\ LockTypes)'
    BY CommandTypeStep
  <2>2. FileTypes' /\ HookTypes' /\ HostTypes' /\ ReceiptTypes'
    BY FileTypeStep, HookTypeStep, HostTypeStep, ReceiptTypeStep
  <2>. QED
    BY <2>1, <2>2 DEF TypeOK, FileTypes, LockTypes, CommandTypes, HookTypes, HostTypes, ReceiptTypes
<1>. QED
  BY <1>1, LockStep, JournalStep, UserStep

\* The inductive invariant holds in every reachable state of every instance.
THEOREM Invariant == Spec => []IInv
BY InvInit, InvStep, PTL DEF Spec

\* Every file, lock and process of an update stays in one of its named phases.
THEOREM TypeCorrect == Spec => []TypeOK
BY Invariant, PTL DEF IInv

\* Whoever was killed, pointer and lock file agree whenever ordinary commands can be
\* admitted: both are written under a journal that is removed only once they do.
THEOREM AgreementWhenOpen == Spec => []NoPartialActivation
<1>1. IInv => NoPartialActivation
  BY DEF IInv, JournalInv, NoPartialActivation
<1>. QED
  BY <1>1, Invariant, PTL

\* The locks, the journal and the checks of runtime_reader implement the gate: one
\* version is served at a time and it never changes while somebody runs from it.
THEOREM GateRefinement == Spec => GateRefined
<1>1. Init => Gate!GateInit
  BY UpdateAssumption DEF Init, Gate!GateInit, GateServing, GateUsers, Journalled, NoJournal
<1>2. IInv /\ IInv' /\ [Next]_vars => [Gate!GateNext]_<<GateServing, GateUsers>>
  <2>. SUFFICES ASSUME IInv, IInv', [Next]_vars
                PROVE  [Gate!GateNext]_<<GateServing, GateUsers>>
    OBVIOUS
  <2>1. ServingMoves \/ UserMoves
    BY GateStep DEF IInv
  <2>. QED
    BY <2>1, ServingIsGate, UserIsGate DEF IInv
<1>. QED
  BY <1>1, <1>2, Invariant, PTL DEF Spec, GateRefined, Gate!GateSpec
-----------------------------------------------------------------------------
(* HEAD agrees as well, when no git commit outlives its updater *)

\* The commit an update makes lies on top of the one its journal began with.
OwnCommit ==
  /\ Len(commits) > journal.before.head
  /\ commits[journal.before.head + 1].isolated

\* Only a runtime of version "old" is offered an update, whatever is on record or
\* about to be written.
Offered(c) == c.result = "available" => c.lock = "old"
OfferInv ==
  /\ \A t \in Tasks : Offered(receipts[t]) /\ Offered(copy[t]) /\ Offered(draft[t])
  /\ \A t \in Tasks : answer[t] # "available"

\* The version an update that has not begun, and a discovery, rest on.
BasisInv ==
  /\ \A t \in Tasks : hook[t] \in Inside => t \in shared
  /\ \A t \in Tasks : hook[t] \in {"discover", "searching"} => draft[t].lock = lockFile
  /\ \A t \in Tasks : pc[t] \in Unwritten => lockFile = "old"

\* A git commit runs only under its updater, on top of the journal's HEAD, and
\* nothing but such a commit is an isolated one.
GitInv ==
  /\ \A i \in 1..Len(commits) : commits[i].isolated => commits[i].lock = "new"
  /\ git.state # "none" => exclusive # NoTask /\ pc[exclusive] = "waiting"
  /\ git.state = "running" => git.lock = "new" /\ git.parent = journal.before.head

\* Where HEAD can be once an update has begun, and what has been concluded from it.
HeadInv ==
  /\ ~Journalled => lockFile = HeadLock
  /\ \A t \in Tasks : pc[t] = "journal" =>
       /\ before[t].head \in 1..Len(commits)
       /\ \A i \in before[t].head..Len(commits) : commits[i].lock = "old"
  /\ \A t \in Tasks : pc[t] \in Journalling => before[t] = journal.before
  /\ Journalled =>
       /\ journal.before.head \in 1..Len(commits)
       /\ commits[journal.before.head].lock = "old"
       /\ OwnCommit => lockFile = "new" /\ HeadLock = "new"
  /\ \A t \in Tasks : pc[t] \in {"oldlock", "oldpointer", "confirm"} =>
       (answer[t] = "updated" <=> OwnCommit)
  /\ \A t \in Tasks : pc[t] \in {"oldpointer", "confirm"} => lockFile = Follows(t)
  /\ \A t \in Tasks : pc[t] \in {"marked", "check"} => OwnCommit
  /\ \A t \in Tasks : pc[t] \in Closing => lockFile = HeadLock


\* The shapes of what records and commits are rewritten from.
Shapes ==
  /\ receipts \in [Tasks -> Receipts] /\ copy \in [Tasks -> Receipts]
  /\ draft \in [Tasks -> Receipts] /\ answer \in [Tasks -> Results]
  /\ host \in [Tasks -> Nat] /\ lockFile \in Versions
  /\ before \in [Tasks -> Snapshots]

LEMMA ShapesFollow == TypeOK => Shapes
BY DEF TypeOK, Shapes

\* The branch after one more commit.
LEMMA BranchFacts ==
  ASSUME NEW c \in Commits, commits \in Seq(Commits), Len(commits) > 0,
         commits' = Append(commits, c)
  PROVE  /\ Len(commits) \in Nat /\ Len(commits') = Len(commits) + 1
         /\ \A i \in 1..Len(commits) : commits'[i] = commits[i]
         /\ commits'[Len(commits) + 1] = c
         /\ HeadLock' = c.lock
BY DEF HeadLock

LEMMA HeadFacts ==
  ASSUME TypeOK
  PROVE  /\ Len(commits) \in Nat \ {0} /\ HeadLock \in Versions
         /\ \A i \in 1..Len(commits) : commits[i] \in Commits
<1>1. commits \in Seq(Commits) /\ Len(commits) > 0
  BY DEF TypeOK
<1>2. \A i \in 1..Len(commits) : commits[i] \in Commits
  BY <1>1
<1>3. Len(commits) \in Nat \ {0}
  BY <1>1
<1>. QED
  BY <1>2, <1>3 DEF HeadLock, Commits

\* What the steps do with a receipt keeps the offer on it one for version "old".
LEMMA OfferFacts ==
  /\ Offered(NoReceipt)
  /\ \A c \in Receipts : Offered(c) => Offered([c EXCEPT !.state = "closed"])
  /\ \A c \in Receipts, r \in Results : r # "available" => Offered([c EXCEPT !.result = r])
  /\ \A c \in Receipts, r \in Results, v \in Versions :
       r # "available" => Offered([c EXCEPT !.lock = v, !.result = r])
  /\ \A c \in Receipts, n \in Nat :
       Offered([c EXCEPT !.state = "open", !.owner = n, !.result = "wait"])
BY DEF Receipts, NoReceipt, Offered

LEMMA ReservationOffered ==
  ASSUME TypeOK, NEW t \in Tasks, Offered(draft[t])
  PROVE  Offered(Reservation(t))
BY ShapesFollow DEF Shapes, Offered, Reservation, Answered, Receipts, Results

LEMMA OfferStep ==
  ASSUME TypeOK, JournalInv, BasisInv, OfferInv, [Next]_vars
  PROVE  OfferInv'
<1>. USE TypesFollow, ShapesFollow, UpdateAssumption, OfferFacts DEF Types, Shapes, OfferInv,
      Elsewhere, fileVars, lockVars, commandVars,
      hookVars, hostVars, countVars
<1>1. ASSUME NEW t \in Tasks, FinishBegins(t) PROVE OfferInv'
  BY <1>1 DEF FinishBegins, CanRun
<1>2. ASSUME NEW t \in Tasks, NEW o \in Tasks, Looks(t, o) PROVE OfferInv'
<2>1. UNCHANGED <<receipts, draft>>
  BY <1>2 DEF Looks
<2>2. copy' \in {copy, [copy EXCEPT ![t] = receipts[o]], [copy EXCEPT ![t] = NoReceipt]}
  BY <1>2 DEF Looks, Gone
<2>3. answer' \in {answer, [answer EXCEPT ![t] = "none"]}
  BY <1>2 DEF Looks, Gone
<2>. QED
  BY <2>1, <2>2, <2>3
<1>3. ASSUME NEW t \in Tasks, Disowns(t) PROVE OfferInv'
  BY <1>3 DEF Disowns
<1>4. ASSUME NEW t \in Tasks, Assesses(t) PROVE OfferInv'
  BY <1>4 DEF Assesses, Gone, Snapshot, Eligible
<1>5. ASSUME NEW t \in Tasks, Prepares(t) PROVE OfferInv'
<2>1. UNCHANGED <<receipts, draft>>
  BY <1>5 DEF Prepares, Goes
<2>2. copy' \in {copy, [copy EXCEPT ![t] = NoReceipt]} /\ answer' \in {answer, [answer EXCEPT ![t] = "none"]}
  BY <1>5 DEF Prepares, Goes, Gone
<2>. QED
  BY <2>1, <2>2
<1>6. ASSUME NEW t \in Tasks, Claims(t) PROVE OfferInv'
  BY <1>6 DEF Claims, Gone, Others
<1>7. ASSUME NEW t \in Tasks, Reassesses(t) PROVE OfferInv'
  BY <1>7 DEF Reassesses, Gone, Snapshot
<1>8. ASSUME NEW t \in Tasks, Checks(t) PROVE OfferInv'
  BY <1>8 DEF Checks
<1>9. ASSUME NEW t \in Tasks, Adopts(t) PROVE OfferInv'
<2>1. UNCHANGED <<receipts, draft>>
  BY <1>9 DEF Adopts, Goes
<2>2. copy' \in {copy, [copy EXCEPT ![t] = NoReceipt]} /\ answer' \in {answer, [answer EXCEPT ![t] = "none"]}
  BY <1>9 DEF Adopts, Goes, Gone
<2>. QED
  BY <2>1, <2>2
<1>10. ASSUME NEW t \in Tasks, Judges(t) PROVE OfferInv'
<2>1. UNCHANGED <<receipts, draft>> /\ copy' \in {copy, [copy EXCEPT ![t] = NoReceipt]}
  BY <1>10 DEF Judges, Gone
<2>2. \E a \in {"none", "updated", "retained"} : answer' = [answer EXCEPT ![t] = a]
  BY <1>10 DEF Judges, Gone
<2>. QED
  BY <2>1, <2>2
<1>11. ASSUME NEW t \in Tasks, Confirms(t) PROVE OfferInv'
<2>1. UNCHANGED <<receipts, draft>>
  BY <1>11 DEF Confirms, Goes
<2>2. copy' \in {copy, [copy EXCEPT ![t] = NoReceipt]} /\ answer' \in {answer, [answer EXCEPT ![t] = "none"]}
  BY <1>11 DEF Confirms, Goes, Gone
<2>. QED
  BY <2>1, <2>2
<1>12. ASSUME NEW t \in Tasks, Revalidates(t) PROVE OfferInv'
<2>1. UNCHANGED <<receipts, draft>>
  BY <1>12 DEF Revalidates, Goes
<2>2. copy' \in {copy, [copy EXCEPT ![t] = NoReceipt]} /\ answer' \in {answer, [answer EXCEPT ![t] = "none"]}
  BY <1>12 DEF Revalidates, Goes, Gone
<2>. QED
  BY <2>1, <2>2
<1>13. ASSUME NEW t \in Tasks, ReadsReceipt(t) PROVE OfferInv'
<2>1. journal.task \in Tasks
  BY <1>13 DEF JournalInv, Journalling, Closing, Journalled, Journals, ReadsReceipt
<2>. QED
  BY <1>13, <2>1 DEF ReadsReceipt
<1>14. ASSUME NEW t \in Tasks, RewritesReceipt(t) PROVE OfferInv'
  BY <1>14 DEF RewritesReceipt
<1>15. ASSUME NEW t \in Tasks, Unlinks(t) PROVE OfferInv'
  BY <1>15 DEF Unlinks, Gone
<1>16. ASSUME NEW t \in Tasks, Releases(t) PROVE OfferInv'
  BY <1>16 DEF Releases, Gone
<1>17. ASSUME NEW t \in Tasks, Killed(t) PROVE OfferInv'
  BY <1>17 DEF Killed, Gone
<1>18. ASSUME NEW t \in Tasks, HookEnters(t) PROVE OfferInv'
  BY <1>18 DEF HookEnters, HookIs, Admitted
<1>19. ASSUME NEW t \in Tasks, HookRegisters(t) PROVE OfferInv'
<2>1. Offered(Reservation(t))
  BY ReservationOffered
<2>2. receipts' = [receipts EXCEPT ![t] = Reservation(t)] /\ UNCHANGED <<copy, answer>>
  BY <1>19 DEF HookRegisters
<2>3. \/ draft' = [draft EXCEPT ![t] = Reservation(t)]
      \/ draft' = [draft EXCEPT ![t] = NoReceipt]
  BY <1>19 DEF HookRegisters, HookGone
<2>. QED
  BY <2>1, <2>2, <2>3
<1>20. ASSUME NEW t \in Tasks, DiscoveryEnds(t) PROVE OfferInv'
<2>1. ASSUME NEW r \in {"reserved"} \cup (IF lockFile = "old" THEN {"available"} ELSE {}),
             draft' = [draft EXCEPT ![t].result = r]
      PROVE  Offered(draft'[t])
  BY <1>20, <2>1 DEF BasisInv, Offered, Receipts, DiscoveryEnds
<2>2. Offered(draft'[t]) /\ \A o \in Tasks \ {t} : draft'[o] = draft[o]
  BY <1>20, <2>1 DEF DiscoveryEnds
<2>. QED
  BY <1>20, <2>2 DEF DiscoveryEnds
<1>21. ASSUME NEW t \in Tasks, HookPublishes(t) PROVE OfferInv'
  BY <1>21 DEF HookPublishes, HookGone, HookIs, Told
<1>22. ASSUME NEW t \in Tasks, HookRefused(t) PROVE OfferInv'
  BY <1>22 DEF HookRefused, HookGone, HookIs, Told
<1>23. ASSUME NEW t \in Tasks, EndReads(t) PROVE OfferInv'
  BY <1>23 DEF EndReads, HookIs
<1>24. ASSUME NEW t \in Tasks, EndCloses(t) PROVE OfferInv'
  BY <1>24 DEF EndCloses, HookGone, HookIs
<1>25. ASSUME NEW t \in Tasks, HookKilled(t) PROVE OfferInv'
  BY <1>25 DEF HookKilled, HookGone, HookIs
<1>26. ASSUME \/ UNCHANGED vars
     \/ (\E t \in Tasks : ApplyBegins(t)) \/ (\E t \in Tasks : RecoverBegins(t))
     \/ (\E t \in Tasks : WritesJournal(t)) \/ (\E t \in Tasks : Activates(t))
     \/ (\E t \in Tasks : WritesLock(t)) \/ (\E t \in Tasks : Marks(t))
     \/ (\E t \in Tasks : DoctorPasses(t)) \/ (\E t \in Tasks : StartsCommit(t))
     \/ (\E t \in Tasks : CommitReturns(t)) \/ (\E t \in Tasks : Verifies(t))
     \/ (\E t \in Tasks : Fails(t)) \/ (\E t \in Tasks : RestoresLock(t))
     \/ (\E t \in Tasks : RestoresPointer(t)) \/ (\E t \in Tasks : DiscoveryStarts(t))
     \/ (\E t \in Tasks : HostStarts(t)) \/ (\E t \in Tasks : HostExits(t))
     \/ (\E t \in Tasks, k \in {"startup", "resume", "prompt", "end"} : Event(t, k))
     \/ (\E r \in Readers : ReaderStarts(r)) \/ (\E r \in Readers : ReaderEnters(r))
     \/ (\E r \in Readers : ReaderEnds(r)) \/ GitEnds \/ OthersWrite
      PROVE  UNCHANGED <<receipts, copy, draft, answer>>
  BY <1>26 DEF vars, ApplyBegins, CanRun, Holds, Others, RecoverBegins, WritesJournal, Goes,
      Activates, WritesLock, Journals, Marks, DoctorPasses, StartsCommit, CommitReturns,
      Verifies, Fails, RestoresLock, Follows, RestoresPointer, DiscoveryStarts, HookIs,
      HostStarts, HostExits, Event, ReaderStarts, ReaderEnters, Admitted, ReaderEnds,
      GitEnds, OthersWrite
<1>27. CASE UNCHANGED <<receipts, copy, draft, answer>>
  BY <1>27
<1>. HIDE DEF Types, Shapes, OfferInv
<1>. QED
  BY <1>1, <1>2, <1>3, <1>4, <1>5, <1>6, <1>7, <1>8, <1>9, <1>10, <1>11, <1>12, <1>13,
      <1>14, <1>15, <1>16, <1>17, <1>18, <1>19, <1>20, <1>21, <1>22, <1>23, <1>24, <1>25,
      <1>26, <1>27 DEF Next, Begins, Continues, Hook

LEMMA BasisStep ==
  ASSUME TypeOK, LockInv, JournalInv, BasisInv, OfferInv, [Next]_vars
  PROVE  BasisInv'
<1>. USE TypesFollow, ShapesFollow, UpdateAssumption DEF Types, Shapes, LockInv, BasisInv, Owning,
      Unwritten, Inside, Assessing, Trying, Restoring,
      Closing, Elsewhere, fileVars, lockVars, commandVars, hookVars, hostVars, countVars
<1>1. ASSUME NEW t \in Tasks, ApplyBegins(t) PROVE BasisInv'
  BY <1>1 DEF ApplyBegins, CanRun, Holds, Others, OfferInv, Offered
<1>2. ASSUME NEW t \in Tasks, RecoverBegins(t) PROVE BasisInv'
  BY <1>2 DEF RecoverBegins, CanRun
<1>3. ASSUME NEW t \in Tasks, FinishBegins(t) PROVE BasisInv'
  BY <1>3 DEF FinishBegins, CanRun
<1>4. ASSUME NEW t \in Tasks, NEW o \in Tasks, Looks(t, o) PROVE BasisInv'
  BY <1>4 DEF Looks, Gone
<1>5. ASSUME NEW t \in Tasks, Disowns(t) PROVE BasisInv'
  BY <1>5 DEF Disowns
<1>6. ASSUME NEW t \in Tasks, Assesses(t) PROVE BasisInv'
  BY <1>6 DEF Assesses, Gone, Snapshot, Eligible
<1>7. ASSUME NEW t \in Tasks, Prepares(t) PROVE BasisInv'
  BY <1>7 DEF Prepares, Goes, Gone
<1>8. ASSUME NEW t \in Tasks, Claims(t) PROVE BasisInv'
  BY <1>8 DEF Claims, Gone, Others
<1>9. ASSUME NEW t \in Tasks, Reassesses(t) PROVE BasisInv'
  BY <1>9 DEF Reassesses, Gone, Snapshot
<1>10. ASSUME NEW t \in Tasks, WritesJournal(t) PROVE BasisInv'
  BY <1>10 DEF WritesJournal, Goes
<1>11. ASSUME NEW t \in Tasks, Activates(t) PROVE BasisInv'
  BY <1>11 DEF Activates, Goes
<1>12. ASSUME NEW t \in Tasks, WritesLock(t) PROVE BasisInv'
  BY <1>12 DEF WritesLock, Goes
<1>13. ASSUME NEW t \in Tasks, Marks(t) PROVE BasisInv'
  BY <1>13 DEF Journals, Marks, Goes
<1>14. ASSUME NEW t \in Tasks, DoctorPasses(t) PROVE BasisInv'
  BY <1>14 DEF DoctorPasses, Goes
<1>15. ASSUME NEW t \in Tasks, StartsCommit(t) PROVE BasisInv'
  BY <1>15 DEF StartsCommit, Goes
<1>16. ASSUME NEW t \in Tasks, CommitReturns(t) PROVE BasisInv'
  BY <1>16 DEF CommitReturns, Goes
<1>17. ASSUME NEW t \in Tasks, Verifies(t) PROVE BasisInv'
  BY <1>17 DEF Verifies, Goes
<1>18. ASSUME NEW t \in Tasks, Checks(t) PROVE BasisInv'
  BY <1>18 DEF Checks
<1>19. ASSUME NEW t \in Tasks, Fails(t) PROVE BasisInv'
  BY <1>19 DEF Fails, Goes
<1>20. ASSUME NEW t \in Tasks, Adopts(t) PROVE BasisInv'
  BY <1>20 DEF Journals, Adopts, Goes, Gone
<1>21. ASSUME NEW t \in Tasks, Judges(t) PROVE BasisInv'
  BY <1>21 DEF Judges, Gone
<1>22. ASSUME NEW t \in Tasks, RestoresLock(t) PROVE BasisInv'
  BY <1>22 DEF RestoresLock, Goes, Follows
<1>23. ASSUME NEW t \in Tasks, RestoresPointer(t) PROVE BasisInv'
  BY <1>23 DEF RestoresPointer, Goes, Follows
<1>24. ASSUME NEW t \in Tasks, Confirms(t) PROVE BasisInv'
  BY <1>24 DEF Confirms, Goes, Gone
<1>25. ASSUME NEW t \in Tasks, Revalidates(t) PROVE BasisInv'
  BY <1>25 DEF Revalidates, Goes, Gone
<1>26. ASSUME NEW t \in Tasks, ReadsReceipt(t) PROVE BasisInv'
  BY <1>26 DEF ReadsReceipt
<1>27. ASSUME NEW t \in Tasks, RewritesReceipt(t) PROVE BasisInv'
  BY <1>27 DEF RewritesReceipt
<1>28. ASSUME NEW t \in Tasks, Unlinks(t) PROVE BasisInv'
  BY <1>28 DEF Unlinks, Gone
<1>29. ASSUME NEW t \in Tasks, Releases(t) PROVE BasisInv'
  BY <1>29 DEF Releases, Gone
<1>30. ASSUME NEW t \in Tasks, Killed(t) PROVE BasisInv'
  BY <1>30 DEF Killed, Gone
<1>31. ASSUME NEW t \in Tasks, HookEnters(t) PROVE BasisInv'
  BY <1>31 DEF HookEnters, HookIs, Admitted
<1>32. ASSUME NEW t \in Tasks, HookRegisters(t) PROVE BasisInv'
<2>1. CASE Discovers(t)
  <3>1. Reservation(t).lock = lockFile
    BY <2>1 DEF Discovers, Reservation
  <3>. QED
    BY <1>32, <2>1, <3>1 DEF HookRegisters, HookIs
<2>2. CASE ~Discovers(t)
  BY <1>32, <2>2 DEF HookRegisters, HookGone, HookIs
<2>. QED
  BY <2>1, <2>2
<1>33. ASSUME NEW t \in Tasks, DiscoveryStarts(t) PROVE BasisInv'
  BY <1>33 DEF DiscoveryStarts, HookIs
<1>34. ASSUME NEW t \in Tasks, DiscoveryEnds(t) PROVE BasisInv'
  BY <1>34 DEF DiscoveryEnds, HookIs, Receipts
<1>35. ASSUME NEW t \in Tasks, HookPublishes(t) PROVE BasisInv'
  BY <1>35 DEF HookPublishes, HookGone, HookIs, Told
<1>36. ASSUME NEW t \in Tasks, HookRefused(t) PROVE BasisInv'
  BY <1>36 DEF HookRefused, HookGone, HookIs, Told
<1>37. ASSUME NEW t \in Tasks, EndReads(t) PROVE BasisInv'
  BY <1>37 DEF EndReads, HookIs
<1>38. ASSUME NEW t \in Tasks, EndCloses(t) PROVE BasisInv'
  BY <1>38 DEF EndCloses, HookGone, HookIs
<1>39. ASSUME NEW t \in Tasks, HookKilled(t) PROVE BasisInv'
  BY <1>39 DEF HookKilled, HookGone, HookIs
<1>40. ASSUME NEW t \in Tasks, NEW k \in {"startup", "resume", "prompt", "end"}, Event(t, k) PROVE BasisInv'
  BY <1>40 DEF Event, HookIs
<1>41. ASSUME NEW r \in Readers, ReaderEnters(r) PROVE BasisInv'
  BY <1>41 DEF ReaderEnters, Admitted
<1>42. ASSUME NEW r \in Readers, ReaderEnds(r) PROVE BasisInv'
  BY <1>42 DEF ReaderEnds
<1>43. ASSUME \/ UNCHANGED vars
     \/ (\E t \in Tasks : HostStarts(t)) \/ (\E t \in Tasks : HostExits(t))
     \/ (\E r \in Readers : ReaderStarts(r)) \/ GitEnds \/ OthersWrite
      PROVE  UNCHANGED <<hook, shared, draft, lockFile, pc>>
  BY <1>43 DEF vars, HostStarts, HostExits, ReaderStarts, GitEnds, OthersWrite
<1>44. CASE UNCHANGED <<hook, shared, draft, lockFile, pc>>
  BY <1>44
<1>. HIDE DEF Types, Shapes, LockInv, BasisInv
<1>. QED
  BY <1>1, <1>2, <1>3, <1>4, <1>5, <1>6, <1>7, <1>8, <1>9, <1>10, <1>11, <1>12, <1>13,
      <1>14, <1>15, <1>16, <1>17, <1>18, <1>19, <1>20, <1>21, <1>22, <1>23, <1>24, <1>25,
      <1>26, <1>27, <1>28, <1>29, <1>30, <1>31, <1>32, <1>33, <1>34, <1>35, <1>36, <1>37,
      <1>38, <1>39, <1>40, <1>41, <1>42, <1>43, <1>44 DEF Next, Begins, Continues, Hook

LEMMA GitStep ==
  ASSUME TypeOK, LockInv, GitInv, HeadInv, Orphans = FALSE, [Next]_vars
  PROVE  GitInv'
<1>. USE TypesFollow, TypeParts, UpdateAssumption DEF Types, LockInv, GitInv, Owning, Assessing, Trying, Restoring,
      Closing, Elsewhere, fileVars, lockVars, commandVars, hookVars, hostVars, countVars
<1>1. ASSUME NEW t \in Tasks, ApplyBegins(t) PROVE GitInv'
  BY <1>1 DEF ApplyBegins, CanRun, Holds, Others
<1>2. ASSUME NEW t \in Tasks, RecoverBegins(t) PROVE GitInv'
  BY <1>2 DEF RecoverBegins, CanRun
<1>3. ASSUME NEW t \in Tasks, FinishBegins(t) PROVE GitInv'
  BY <1>3 DEF FinishBegins, CanRun
<1>4. ASSUME NEW t \in Tasks, NEW o \in Tasks, Looks(t, o) PROVE GitInv'
  BY <1>4 DEF Looks, Gone
<1>5. ASSUME NEW t \in Tasks, Disowns(t) PROVE GitInv'
  BY <1>5 DEF Disowns
<1>6. ASSUME NEW t \in Tasks, Assesses(t) PROVE GitInv'
  BY <1>6 DEF Assesses, Gone, Snapshot, Eligible
<1>7. ASSUME NEW t \in Tasks, Prepares(t) PROVE GitInv'
  BY <1>7 DEF Prepares, Goes, Gone
<1>8. ASSUME NEW t \in Tasks, Claims(t) PROVE GitInv'
  BY <1>8 DEF Claims, Gone, Others
<1>9. ASSUME NEW t \in Tasks, Reassesses(t) PROVE GitInv'
  BY <1>9 DEF Reassesses, Gone, Snapshot
<1>10. ASSUME NEW t \in Tasks, WritesJournal(t) PROVE GitInv'
  BY <1>10 DEF WritesJournal, Goes
<1>11. ASSUME NEW t \in Tasks, Activates(t) PROVE GitInv'
  BY <1>11 DEF Activates, Goes
<1>12. ASSUME NEW t \in Tasks, WritesLock(t) PROVE GitInv'
  BY <1>12 DEF WritesLock, Goes
<1>13. ASSUME NEW t \in Tasks, Marks(t) PROVE GitInv'
  BY <1>13 DEF Journals, Marks, Goes
<1>14. ASSUME NEW t \in Tasks, DoctorPasses(t) PROVE GitInv'
  BY <1>14 DEF DoctorPasses, Goes
<1>15. ASSUME NEW t \in Tasks, StartsCommit(t) PROVE GitInv'
<2>1. before[t] = journal.before /\ exclusive = t
  BY <1>15 DEF HeadInv, Journalling, StartsCommit
<2>2. git' = [state |-> "running", lock |-> "new", parent |-> journal.before.head]
  BY <1>15, <2>1 DEF StartsCommit, Unchanged
<2>. QED
  BY <1>15, <2>1, <2>2 DEF StartsCommit, Goes
<1>16. ASSUME NEW t \in Tasks, CommitReturns(t) PROVE GitInv'
  BY <1>16 DEF CommitReturns, NoChild, Goes
<1>17. ASSUME NEW t \in Tasks, Verifies(t) PROVE GitInv'
  BY <1>17 DEF Verifies, Goes
<1>18. ASSUME NEW t \in Tasks, Checks(t) PROVE GitInv'
  BY <1>18 DEF Checks
<1>19. ASSUME NEW t \in Tasks, Fails(t) PROVE GitInv'
  BY <1>19 DEF Fails, Goes
<1>20. ASSUME NEW t \in Tasks, Adopts(t) PROVE GitInv'
  BY <1>20 DEF Journals, Adopts, Goes, Gone
<1>21. ASSUME NEW t \in Tasks, Judges(t) PROVE GitInv'
  BY <1>21 DEF Judges, Gone
<1>22. ASSUME NEW t \in Tasks, RestoresLock(t) PROVE GitInv'
  BY <1>22 DEF RestoresLock, Goes, Follows
<1>23. ASSUME NEW t \in Tasks, RestoresPointer(t) PROVE GitInv'
  BY <1>23 DEF RestoresPointer, Goes, Follows
<1>24. ASSUME NEW t \in Tasks, Confirms(t) PROVE GitInv'
  BY <1>24 DEF Confirms, Goes, Gone
<1>25. ASSUME NEW t \in Tasks, Revalidates(t) PROVE GitInv'
  BY <1>25 DEF Revalidates, Goes, Gone
<1>26. ASSUME NEW t \in Tasks, ReadsReceipt(t) PROVE GitInv'
  BY <1>26 DEF ReadsReceipt
<1>27. ASSUME NEW t \in Tasks, RewritesReceipt(t) PROVE GitInv'
  BY <1>27 DEF RewritesReceipt
<1>28. ASSUME NEW t \in Tasks, Unlinks(t) PROVE GitInv'
  BY <1>28 DEF Unlinks, Gone
<1>29. ASSUME NEW t \in Tasks, Releases(t) PROVE GitInv'
  BY <1>29 DEF Releases, Gone
<1>30. ASSUME NEW t \in Tasks, Killed(t) PROVE GitInv'
  BY <1>30 DEF Killed, NoChild, Gone
<1>31. ASSUME GitEnds PROVE GitInv'
<2>1. CASE UNCHANGED commits
  BY <1>31, <2>1 DEF GitEnds, FileTypes, Children
<2>2. CASE commits' = Append(commits, [lock |-> git.lock, isolated |-> TRUE])
  <3>1. git.lock = "new" /\ [lock |-> git.lock, isolated |-> TRUE] \in Commits
    BY <1>31 DEF GitEnds, Commits, Versions
  <3>2. \A i \in 1..Len(commits)' : commits'[i].isolated => commits'[i].lock = "new"
    BY <2>2, <3>1, BranchFacts DEF FileTypes
  <3>3. UNCHANGED <<exclusive, pc, journal>> /\ git'.state # "running" /\ git.state # "none"
    BY <1>31 DEF GitEnds, FileTypes, Children
  <3>. QED
    BY <3>2, <3>3
<2>. QED
  BY <1>31, <2>1, <2>2 DEF GitEnds
<1>32. ASSUME OthersWrite PROVE GitInv'
<2>1. UNCHANGED <<git, exclusive, pc, journal>>
  BY <1>32 DEF OthersWrite
<2>2. CASE UNCHANGED commits
  BY <2>1, <2>2
<2>3. ASSUME NEW l \in {HeadLock, lockFile}, commits' = Append(commits, [lock |-> l, isolated |-> FALSE])
      PROVE  GitInv'
  <3>1. [lock |-> l, isolated |-> FALSE] \in Commits
    BY HeadFacts DEF FileTypes, Commits
  <3>2. \A i \in 1..Len(commits)' : commits'[i].isolated => commits'[i].lock = "new"
    BY <2>3, <3>1, BranchFacts DEF FileTypes
  <3>. QED
    BY <2>1, <3>2
<2>. QED
  BY <1>32, <2>2, <2>3 DEF OthersWrite
<1>33. ASSUME \/ UNCHANGED vars
     \/ (\E t \in Tasks : HookEnters(t)) \/ (\E t \in Tasks : HookRegisters(t))
     \/ (\E t \in Tasks : DiscoveryStarts(t)) \/ (\E t \in Tasks : DiscoveryEnds(t))
     \/ (\E t \in Tasks : HookPublishes(t)) \/ (\E t \in Tasks : HookRefused(t))
     \/ (\E t \in Tasks : EndReads(t)) \/ (\E t \in Tasks : EndCloses(t))
     \/ (\E t \in Tasks : HookKilled(t)) \/ (\E t \in Tasks : HostStarts(t))
     \/ (\E t \in Tasks : HostExits(t))
     \/ (\E t \in Tasks, k \in {"startup", "resume", "prompt", "end"} : Event(t, k))
     \/ (\E r \in Readers : ReaderStarts(r)) \/ (\E r \in Readers : ReaderEnters(r))
     \/ (\E r \in Readers : ReaderEnds(r))
      PROVE  UNCHANGED <<git, commits, exclusive, pc, journal>>
  BY <1>33 DEF vars, HookEnters, HookIs, Admitted, HookRegisters, HookGone, Told,
      DiscoveryStarts, DiscoveryEnds, HookPublishes, HookRefused, EndReads, EndCloses,
      HookKilled, HostStarts, HostExits, Event, ReaderStarts, ReaderEnters, ReaderEnds
<1>34. CASE UNCHANGED <<git, commits, exclusive, pc, journal>>
  BY <1>34
<1>. HIDE DEF Types, LockInv, GitInv
<1>. QED
  BY <1>1, <1>2, <1>3, <1>4, <1>5, <1>6, <1>7, <1>8, <1>9, <1>10, <1>11, <1>12, <1>13,
      <1>14, <1>15, <1>16, <1>17, <1>18, <1>19, <1>20, <1>21, <1>22, <1>23, <1>24, <1>25,
      <1>26, <1>27, <1>28, <1>29, <1>30, <1>31, <1>32, <1>33, <1>34 DEF Next, Begins,
      Continues, Hook

\* The end of a command leaves what HEAD and lock file say.
LEMMA HeadGone ==
  ASSUME TypeOK, HeadInv, NEW t \in Tasks, Gone(t), UNCHANGED <<lockFile, commits>>,
         journal'.task = journal.task, journal'.before = journal.before
  PROVE  HeadInv'
<1>1. (OwnCommit' <=> OwnCommit) /\ HeadLock' = HeadLock /\ (Journalled' <=> Journalled)
  BY DEF OwnCommit, HeadLock, Journalled
<1>2. /\ pc'[t] = "idle"
      /\ \A o \in Tasks \ {t} : pc'[o] = pc[o] /\ before'[o] = before[o] /\ answer'[o] = answer[o]
  BY TypesFollow, ShapesFollow DEF Types, Shapes, Gone
<1>. QED
  BY <1>1, <1>2 DEF HeadInv, Follows, Journalling, Trying, Restoring, Closing

LEMMA HeadStep ==
  ASSUME TypeOK, LockInv, JournalInv, BasisInv, OfferInv, GitInv, HeadInv, [Next]_vars
  PROVE  HeadInv'
<1>. USE TypesFollow, ShapesFollow, UpdateAssumption DEF Types, Shapes, LockInv, HeadInv, Owning,
      Journalling, Journalled, Follows, Assessing, Trying, Restoring,
      Closing, Elsewhere, fileVars, lockVars, commandVars, hookVars, hostVars, countVars
<1>0. commits' = commits /\ journal'.before = journal.before =>
          (OwnCommit' <=> OwnCommit) /\ HeadLock' = HeadLock
  BY DEF OwnCommit, HeadLock
<1>. USE <1>0
<1>1. ASSUME NEW t \in Tasks, ApplyBegins(t) PROVE HeadInv'
  BY <1>1 DEF ApplyBegins, CanRun, Holds, Others
<1>2. ASSUME NEW t \in Tasks, RecoverBegins(t) PROVE HeadInv'
  BY <1>2 DEF RecoverBegins, CanRun, OwnCommit
<1>3. ASSUME NEW t \in Tasks, FinishBegins(t) PROVE HeadInv'
  BY <1>3 DEF FinishBegins, CanRun
<1>4. ASSUME NEW t \in Tasks, NEW o \in Tasks, Looks(t, o) PROVE HeadInv'
<2>1. CASE Gone(t)
  BY <1>4, <2>1, HeadGone DEF Looks
<2>2. CASE ~Gone(t)
  BY <1>4, <2>2 DEF Looks, Gone
<2>. QED
  BY <2>1, <2>2
<1>5. ASSUME NEW t \in Tasks, Disowns(t) PROVE HeadInv'
  BY <1>5 DEF Disowns
<1>6. ASSUME NEW t \in Tasks, Assesses(t) PROVE HeadInv'
<2>1. CASE Gone(t)
  BY <1>6, <2>1, HeadGone DEF Assesses
<2>2. CASE ~Gone(t)
  <3>1. /\ pc' = [pc EXCEPT ![t] = "prepare"] /\ before' = [before EXCEPT ![t] = Snapshot]
        /\ UNCHANGED <<lockFile, commits, journal, answer>>
    BY <1>6, <2>2 DEF Assesses
  <3>. QED
    BY <3>1
<2>. QED
  BY <2>1, <2>2
<1>7. ASSUME NEW t \in Tasks, Prepares(t) PROVE HeadInv'
<2>1. CASE Gone(t)
  BY <1>7, <2>1, HeadGone DEF Prepares
<2>2. CASE ~Gone(t)
  BY <1>7, <2>2 DEF Prepares, Goes, Gone
<2>. QED
  BY <2>1, <2>2
<1>8. ASSUME NEW t \in Tasks, Claims(t) PROVE HeadInv'
<2>1. CASE Gone(t)
  BY <1>8, <2>1, HeadGone DEF Claims
<2>2. CASE ~Gone(t)
  BY <1>8, <2>2 DEF Claims, Gone, Others
<2>. QED
  BY <2>1, <2>2
<1>9. ASSUME NEW t \in Tasks, Reassesses(t) PROVE HeadInv'
<2>1. CASE Gone(t)
  BY <1>9, <2>1, HeadGone DEF Reassesses
<2>2. CASE ~Gone(t)
  <3>1. before' = [before EXCEPT ![t] = Snapshot] /\ Eligible /\ pc' = [pc EXCEPT ![t] = "journal"]
    BY <1>9, <2>2 DEF Reassesses
  <3>2. HeadLock = "old"
    BY <1>9, <3>1 DEF Reassesses, BasisInv, Unwritten, Eligible
  <3>3. Snapshot.head = Len(commits) /\ Len(commits) \in Nat \ {0} /\ before \in [Tasks -> Snapshots]
    BY HeadFacts, TypeParts DEF Snapshot, CommandTypes
  <3>4. before'[t].head = Len(commits) /\ \A o \in Tasks \ {t} : before'[o] = before[o]
    BY <3>1, <3>3
  <3>5. UNCHANGED <<lockFile, commits, journal, answer>>
    BY <1>9, <2>2 DEF Reassesses
  <3>6. \A i \in Len(commits)..Len(commits) : commits[i].lock = "old"
    BY <3>2, <3>3 DEF HeadLock
  <3>. QED
    BY <3>1, <3>3, <3>4, <3>5, <3>6
<2>. QED
  BY <2>1, <2>2
<1>10. ASSUME NEW t \in Tasks, WritesJournal(t) PROVE HeadInv'
<2>1. journal'.before = before[t] /\ Journalled' /\ UNCHANGED <<lockFile, commits, before, answer>>
  BY <1>10 DEF WritesJournal, Goes, Journalled
<2>2. /\ before[t].head \in 1..Len(commits)
      /\ \A i \in before[t].head..Len(commits) : commits[i].lock = "old"
  BY <1>10 DEF WritesJournal
<2>3. ~OwnCommit'
  <3>. SUFFICES ASSUME OwnCommit' PROVE FALSE
    OBVIOUS
  <3>1. before[t].head + 1 \in before[t].head..Len(commits) /\ before[t].head + 1 \in 1..Len(commits)
    BY <2>1, <2>2, HeadFacts DEF OwnCommit
  <3>2. commits[before[t].head + 1].isolated
    BY <2>1 DEF OwnCommit
  <3>. QED
    BY <2>2, <3>1, <3>2 DEF GitInv
<2>4. commits[before[t].head].lock = "old"
  BY <2>2, HeadFacts
<2>. QED
  BY <1>10, <2>1, <2>2, <2>3, <2>4 DEF WritesJournal, Goes
<1>11. ASSUME NEW t \in Tasks, Activates(t) PROVE HeadInv'
  BY <1>11 DEF Activates, Goes
<1>12. ASSUME NEW t \in Tasks, WritesLock(t) PROVE HeadInv'
  BY <1>12 DEF WritesLock, Goes, JournalInv
<1>13. ASSUME NEW t \in Tasks, Marks(t) PROVE HeadInv'
  BY <1>13 DEF Journals, Marks, Goes
<1>14. ASSUME NEW t \in Tasks, DoctorPasses(t) PROVE HeadInv'
  BY <1>14 DEF DoctorPasses, Goes
<1>15. ASSUME NEW t \in Tasks, StartsCommit(t) PROVE HeadInv'
  BY <1>15 DEF StartsCommit, Goes
<1>16. ASSUME NEW t \in Tasks, CommitReturns(t) PROVE HeadInv'
  BY <1>16 DEF CommitReturns, Goes
<1>17. ASSUME NEW t \in Tasks, Verifies(t) PROVE HeadInv'
<2>1. OwnCommit
  <3>1. before[t] = journal.before /\ journal.before.head \in 1..Len(commits)
    BY <1>17 DEF Verifies, JournalInv
  <3>. QED
    BY <1>17, <3>1, HeadFacts DEF Verifies, CommitState, OwnCommit
<2>. QED
  BY <1>17, <2>1 DEF Verifies, Goes
<1>18. ASSUME NEW t \in Tasks, Checks(t) PROVE HeadInv'
  BY <1>18 DEF Checks
<1>19. ASSUME NEW t \in Tasks, Fails(t) PROVE HeadInv'
  BY <1>19 DEF Fails, Goes
<1>20. ASSUME NEW t \in Tasks, Adopts(t) PROVE HeadInv'
<2>1. CASE Gone(t)
  <3>1. UNCHANGED <<lockFile, commits>>
    BY <1>20 DEF Adopts
  <3>2. journal'.task = journal.task /\ journal'.before = journal.before
    BY <1>20 DEF Adopts, Journals
  <3>. QED
    BY <2>1, <3>1, <3>2, HeadGone
<2>2. CASE ~Gone(t)
  BY <1>20, <2>2 DEF Journals, Adopts, Goes, Gone
<2>. QED
  BY <2>1, <2>2
<1>21. ASSUME NEW t \in Tasks, Judges(t) PROVE HeadInv'
<2>1. CASE Gone(t)
  BY <1>21, <2>1, HeadGone DEF Judges
<2>2. CASE ~Gone(t)
  <3>1. before[t] = journal.before /\ journal.before.head \in 1..Len(commits)
    BY <1>21 DEF Judges, JournalInv
  <3>2. CommitState(before[t]) = "own" => OwnCommit
    BY <3>1, HeadFacts DEF CommitState, OwnCommit
  <3>3. CommitState(before[t]) = "none" => ~OwnCommit
    BY <3>1, HeadFacts DEF CommitState, OwnCommit
  <3>4. CommitState(before[t]) \in {"own", "none"}
    BY <1>21, <2>2 DEF Judges, CommitState
  <3>5. /\ pc' = [pc EXCEPT ![t] = "oldlock"] /\ UNCHANGED <<fileVars, before>>
        /\ answer' = [answer EXCEPT ![t] = IF OwnCommit THEN "updated" ELSE "retained"]
    BY <1>21, <2>2, <3>2, <3>3, <3>4 DEF Judges
  <3>. QED
    BY <1>21, <3>1, <3>5 DEF Judges
<2>. QED
  BY <2>1, <2>2
<1>22. ASSUME NEW t \in Tasks, RestoresLock(t) PROVE HeadInv'
<2>1. lockFile' = IF OwnCommit THEN "new" ELSE "old"
  BY <1>22 DEF RestoresLock, Follows
<2>. QED
  BY <1>22, <2>1 DEF RestoresLock, Goes, JournalInv
<1>23. ASSUME NEW t \in Tasks, RestoresPointer(t) PROVE HeadInv'
  BY <1>23 DEF RestoresPointer, Goes, Follows
<1>24. ASSUME NEW t \in Tasks, Confirms(t) PROVE HeadInv'
<2>1. CASE Gone(t)
  BY <1>24, <2>1, HeadGone DEF Confirms
<2>2. CASE ~Gone(t)
  <3>1. before[t] = journal.before /\ Journalled /\ journal.before.head \in 1..Len(commits)
    BY <1>24 DEF Confirms, JournalInv
  <3>2. OwnCommit \/ Len(commits) = journal.before.head
    BY <1>24, <2>2, <3>1 DEF Confirms, Unchanged
  <3>3. ~OwnCommit => HeadLock = "old"
    BY <3>1, <3>2 DEF HeadLock
  <3>4. lockFile = HeadLock
    BY <1>24, <3>1, <3>3 DEF Confirms, Follows
  <3>. QED
    BY <1>24, <2>2, <3>4 DEF Confirms, Goes
<2>. QED
  BY <2>1, <2>2
<1>25. ASSUME NEW t \in Tasks, Revalidates(t) PROVE HeadInv'
<2>1. CASE Gone(t)
  BY <1>25, <2>1, HeadGone DEF Revalidates
<2>2. CASE ~Gone(t)
  BY <1>25, <2>2 DEF Revalidates, Goes, Gone
<2>. QED
  BY <2>1, <2>2
<1>26. ASSUME NEW t \in Tasks, ReadsReceipt(t) PROVE HeadInv'
  BY <1>26 DEF ReadsReceipt
<1>27. ASSUME NEW t \in Tasks, RewritesReceipt(t) PROVE HeadInv'
  BY <1>27 DEF RewritesReceipt
<1>28. ASSUME NEW t \in Tasks, Unlinks(t) PROVE HeadInv'
<2>1. ~Journalled' /\ HeadLock' = HeadLock /\ lockFile = HeadLock /\ UNCHANGED lockFile
  BY <1>28 DEF Unlinks, NoJournal, HeadLock
<2>2. \A o \in Tasks : pc'[o] = "idle"
  BY <1>28 DEF Unlinks, Gone
<2>. QED
  BY <2>1, <2>2
<1>29. ASSUME NEW t \in Tasks, Releases(t) PROVE HeadInv'
  BY <1>29 DEF Releases, Gone
<1>30. ASSUME NEW t \in Tasks, Killed(t) PROVE HeadInv'
  BY <1>30 DEF Killed, Gone
<1>31. ASSUME GitEnds PROVE HeadInv'
<2>0. UNCHANGED <<lockFile, journal, pc, before, answer>> /\ exclusive # NoTask
  /\ exclusive \in Tasks /\ pc[exclusive] = "waiting" /\ git.state = "running"
  BY <1>31 DEF GitEnds, GitInv
<2>1. CASE UNCHANGED commits
  BY <1>31, <2>0, <2>1 DEF OwnCommit, HeadLock, Follows
<2>2. CASE commits' = Append(commits, [lock |-> git.lock, isolated |-> TRUE])
  <3>1. git.lock = "new" /\ [lock |-> git.lock, isolated |-> TRUE] \in Commits
    BY <2>0 DEF GitInv, Commits, Versions
  <3>2. /\ Len(commits') = Len(commits) + 1 /\ commits'[Len(commits) + 1] = [lock |-> git.lock, isolated |-> TRUE]
        /\ \A i \in 1..Len(commits) : commits'[i] = commits[i]
        /\ HeadLock' = ([lock |-> git.lock, isolated |-> TRUE]).lock
    BY <2>2, <3>1, BranchFacts, TypeParts DEF FileTypes
  <3>3. lockFile = "new" /\ Journalled /\ Len(commits) = journal.before.head
    <4>1. lockFile = "new" /\ Journalled
      BY <2>0 DEF JournalInv, Activated
    <4>2. Len(commits) = git.parent
      BY <1>31, <3>2, HeadFacts DEF GitEnds
    <4>. QED
      BY <2>0, <4>1, <4>2 DEF GitInv
  <3>4. \A o \in Tasks : o # exclusive => pc[o] = "idle"
    BY <2>0
  <3>5. OwnCommit' /\ HeadLock' = "new"
    BY <2>0, <3>1, <3>2, <3>3, HeadFacts DEF OwnCommit
  <3>6. /\ journal.before.head \in 1..Len(commits') /\ commits'[journal.before.head].lock = "old"
    BY <3>2, <3>3, HeadFacts
  <3>. QED
    BY <2>0, <3>3, <3>4, <3>5, <3>6
<2>. QED
  BY <1>31, <2>1, <2>2 DEF GitEnds
<1>32. ASSUME OthersWrite PROVE HeadInv'
<2>0. UNCHANGED <<lockFile, journal, pc, before, answer>>
  BY <1>32 DEF OthersWrite
<2>1. CASE UNCHANGED commits
  BY <2>0, <2>1 DEF OwnCommit, HeadLock, Follows
<2>2. ASSUME NEW l \in {HeadLock, lockFile}, commits' = Append(commits, [lock |-> l, isolated |-> FALSE])
      PROVE  HeadInv'
  <3>1. [lock |-> l, isolated |-> FALSE] \in Commits
    BY HeadFacts DEF Commits
  <3>2. /\ Len(commits') = Len(commits) + 1 /\ commits'[Len(commits) + 1] = [lock |-> l, isolated |-> FALSE]
        /\ \A i \in 1..Len(commits) : commits'[i] = commits[i]
        /\ HeadLock' = ([lock |-> l, isolated |-> FALSE]).lock
    BY <2>2, <3>1, BranchFacts, TypeParts DEF FileTypes
  <3>3. HeadLock' \in {HeadLock, lockFile}
    BY <3>2
  <3>4. ASSUME Journalled PROVE OwnCommit' <=> OwnCommit
    <4>1. journal.before.head \in 1..Len(commits) /\ UNCHANGED journal
      BY <2>0, <3>4
    <4>2. CASE journal.before.head = Len(commits)
      BY <3>2, <4>1, <4>2, HeadFacts DEF OwnCommit
    <4>3. CASE journal.before.head < Len(commits)
      <5>1. journal.before.head + 1 \in 1..Len(commits)
        BY <4>1, <4>3, HeadFacts
      <5>2. Len(commits) > journal.before.head /\ Len(commits') > journal.before.head
        BY <3>2, <4>1, <4>3, HeadFacts
      <5>. QED
        BY <3>2, <4>1, <5>1, <5>2 DEF OwnCommit
    <4>. QED
      BY <4>1, <4>2, <4>3, HeadFacts
  <3>5. ASSUME Journalled
        PROVE  journal.before.head \in 1..Len(commits') /\ commits'[journal.before.head].lock = "old"
    BY <3>2, <3>5, HeadFacts
  <3>6. ASSUME NEW t \in Tasks, pc[t] = "journal"
        PROVE  /\ before[t].head \in 1..Len(commits')
               /\ \A i \in before[t].head..Len(commits') : commits'[i].lock = "old"
    <4>0. lockFile = "old"
      BY <3>6 DEF BasisInv, Unwritten
    <4>1. lockFile = "old" /\ HeadLock = "old"
      <5>1. Len(commits) \in before[t].head..Len(commits)
        BY <3>6, HeadFacts
      <5>2. commits[Len(commits)].lock = "old"
        BY <3>6, <5>1
      <5>. QED
        BY <4>0, <5>2 DEF HeadLock
    <4>2. l = "old"
      BY <4>1
    <4>3. /\ before[t].head \in 1..Len(commits)
          /\ \A i \in before[t].head..Len(commits) : commits[i].lock = "old"
      BY <3>6
    <4>4. before[t].head \in 1..Len(commits')
      BY <3>2, <4>3, HeadFacts
    <4>5. ASSUME NEW i \in before[t].head..Len(commits')
          PROVE  commits'[i].lock = "old"
      <5>1. (i \in before[t].head..Len(commits) /\ i \in 1..Len(commits)) \/ i = Len(commits) + 1
        BY <3>2, <4>3, <4>5, HeadFacts
      <5>2. CASE i \in before[t].head..Len(commits) /\ i \in 1..Len(commits)
        BY <3>2, <4>3, <5>2
      <5>3. CASE i = Len(commits) + 1
        BY <3>2, <4>2, <5>3
      <5>. QED
        BY <5>1, <5>2, <5>3
    <4>. QED
      BY <4>4, <4>5
  <3>7. \A t \in Tasks : pc[t] \in Journalling => Journalled
    BY DEF JournalInv
  <3>. QED
    BY <2>0, <3>3, <3>4, <3>5, <3>6, <3>7 DEF Follows
<2>. QED
  BY <1>32, <2>1, <2>2 DEF OthersWrite
<1>33. ASSUME \/ UNCHANGED vars
     \/ (\E t \in Tasks : HookEnters(t)) \/ (\E t \in Tasks : HookRegisters(t))
     \/ (\E t \in Tasks : DiscoveryStarts(t)) \/ (\E t \in Tasks : DiscoveryEnds(t))
     \/ (\E t \in Tasks : HookPublishes(t)) \/ (\E t \in Tasks : HookRefused(t))
     \/ (\E t \in Tasks : EndReads(t)) \/ (\E t \in Tasks : EndCloses(t))
     \/ (\E t \in Tasks : HookKilled(t)) \/ (\E t \in Tasks : HostStarts(t))
     \/ (\E t \in Tasks : HostExits(t))
     \/ (\E t \in Tasks, k \in {"startup", "resume", "prompt", "end"} : Event(t, k))
     \/ (\E r \in Readers : ReaderStarts(r)) \/ (\E r \in Readers : ReaderEnters(r))
     \/ (\E r \in Readers : ReaderEnds(r))
      PROVE  UNCHANGED <<lockFile, commits, journal, pc, before, answer>>
  BY <1>33 DEF vars, HookEnters, HookIs, Admitted, HookRegisters, HookGone, Told,
      DiscoveryStarts, DiscoveryEnds, HookPublishes, HookRefused, EndReads, EndCloses,
      HookKilled, HostStarts, HostExits, Event, ReaderStarts, ReaderEnters, ReaderEnds
<1>34. CASE UNCHANGED <<lockFile, commits, journal, pc, before, answer>>
  BY <1>34 DEF OwnCommit, HeadLock, Follows
<1>. HIDE DEF Types, Shapes, LockInv, HeadInv
<1>. QED
  BY <1>1, <1>2, <1>3, <1>4, <1>5, <1>6, <1>7, <1>8, <1>9, <1>10, <1>11, <1>12, <1>13,
      <1>14, <1>15, <1>16, <1>17, <1>18, <1>19, <1>20, <1>21, <1>22, <1>23, <1>24, <1>25,
      <1>26, <1>27, <1>28, <1>29, <1>30, <1>31, <1>32, <1>33, <1>34 DEF Next, Begins,
      Continues, Hook

-----------------------------------------------------------------------------
(* The theorem about HEAD *)

\* What makes HEAD agree: inductive together with IInv.
AgreeInv == OfferInv /\ BasisInv /\ GitInv /\ HeadInv

LEMMA AgreeInit == Init => AgreeInv
<1>. SUFFICES ASSUME Init PROVE AgreeInv
  OBVIOUS
<1>1. OfferInv /\ BasisInv
  BY DEF Init, OfferInv, BasisInv, Offered, NoReceipt, Inside, Unwritten, Assessing
<1>2. Len(commits) = 1 /\ commits[1] = [lock |-> "old", isolated |-> FALSE]
  BY DEF Init
<1>3. GitInv
  BY <1>2 DEF Init, GitInv, NoChild
<1>4. HeadInv
  BY <1>2 DEF Init, HeadInv, HeadLock, Journalled, NoJournal, Journalling, Trying, Restoring, Closing
<1>. QED
  BY <1>1, <1>3, <1>4 DEF AgreeInv

LEMMA AgreeStep ==
  ASSUME IInv, AgreeInv, Orphans = FALSE, [Next]_vars
  PROVE  AgreeInv'
BY OfferStep, BasisStep, GitStep, HeadStep DEF IInv, AgreeInv

\* HEAD, lock file and pointer name one version whenever ordinary commands can be
\* admitted, whoever was killed and whatever others committed in between, provided a
\* killed updater takes its git commit with it: the offer is only made to version
\* "old", and recovery follows the one commit that lies on top of its journal.
THEOREM HeadAgreesWhenOpen ==
  ASSUME Orphans = FALSE
  PROVE  Spec => []SettledAgrees
<1>1. IInv /\ AgreeInv => SettledAgrees
  BY DEF IInv, AgreeInv, JournalInv, HeadInv, SettledAgrees
<1>2. IInv /\ AgreeInv /\ [Next]_vars => AgreeInv'
  BY AgreeStep, Orphans = FALSE
<1>. QED
  BY <1>1, <1>2, AgreeInit, Invariant, PTL DEF Spec
-----------------------------------------------------------------------------
(* The runtime under a task that works with it *)

\* A host is the latest one of its task; a task without one runs nothing and works
\* with nothing.
AliveInv ==
  /\ \A t \in Tasks : host[t] \in {0, hosts[t]}
  /\ \A t \in Tasks : host[t] = 0 => uses[t] = "none" /\ hook[t] = "idle" /\ pc[t] = "idle"

\* Receipts, and what hooks rewrite them from, name hosts the task has had; a hook
\* that discovers does so for the host it runs under.
OwnerInv ==
  /\ \A t \in Tasks : receipts[t].owner <= hosts[t] /\ draft[t].owner <= hosts[t]
  /\ \A t \in Tasks : hook[t] \in {"discover", "searching", "publish"} =>
       draft[t].state = "open" /\ draft[t].owner = host[t]

\* So do the readings of the command that is about to rewrite a receipt.
CopyInv ==
  /\ \A t \in Tasks : pc[t] \in {"disown", "redisown"} =>
       target[t] \in Tasks /\ copy[t].owner <= hosts[target[t]]
  /\ \A t \in Tasks : pc[t] = "rewrite" => copy[t].owner <= hosts[journal.task]
  /\ \A t \in Tasks : pc[t] = "release" => copy[t].owner <= hosts[t]

\* What a command concludes is what it has restored or committed.
FollowInv == \A t \in Tasks : pc[t] \in Agreeing => lockFile = Follows(t)

\* Whoever works with the old version has its receipt open under its own host; whoever
\* works with the new one does so after the update.
UseInv ==
  /\ \A t \in Tasks : uses[t] = "old" => receipts[t].state = "open" /\ receipts[t].owner = host[t]
  /\ \A t \in Tasks : uses[t] = "new" => ~Journalled /\ lockFile = "new"

\* The owner of a receipt that is about to be closed is gone for good, and the task
\* works with nothing, as long as its receipt is what has been read.
DisownInv ==
  /\ \A t \in Tasks : pc[t] = "disown" =>
       /\ receipts[target[t]] = copy[t]
       /\ copy[t].owner # 0 /\ copy[t].owner # host[target[t]]
  /\ \A t \in Tasks : pc[t] = "redisown" => uses[target[t]] = "none"

\* The receipt of an update's task is rewritten as it was, or the task has ended.
KeepInv ==
  \A t \in Tasks : pc[t] = "rewrite" /\ uses[journal.task] = "old" =>
    copy[t].state = "open" /\ copy[t].owner = host[journal.task]

\* Nobody else works with a runtime that is going to be replaced.
ClearInv ==
  /\ \A t, o \in Tasks : pc[t] \in {"rescan", "redisown"} /\ o # t /\ o \notin left[t] =>
       uses[o] = "none"
  /\ \A t, o \in Tasks : pc[t] = "journal" /\ o # t => uses[o] = "none"
  /\ Journalled => \A o \in Tasks : o # journal.task => uses[o] = "none"

\* No receipt changes between other_tasks' first reading of it, which holds no
\* runtime-use.lock, and its closing.
Undisturbed ==
  \A t \in Tasks : pc[t] = "disown" /\ pc'[t] = "disown" =>
    receipts'[target[t]] = receipts[target[t]]

\* The shapes of what hosts and tasks are told.
Users ==
  /\ hosts \in [Tasks -> Nat] /\ uses \in [Tasks -> Versions \cup {"none"}]
  /\ target \in [Tasks -> Tasks \cup {NoTask}] /\ left \in [Tasks -> SUBSET Tasks]
  /\ mode \in [Tasks -> {"none", "apply", "recover", "finish"}]

LEMMA UsersFollow == TypeOK => Users
BY DEF TypeOK, Users

\* Only a registration changes the owner of a receipt.
LEMMA OwnerFacts ==
  /\ NoReceipt \in Receipts /\ NoReceipt.owner = 0
  /\ \A c \in Receipts : c.owner \in Nat
  /\ \A c \in Receipts :
       [c EXCEPT !.state = "closed"].owner = c.owner /\ [c EXCEPT !.state = "closed"].state = "closed"
  /\ \A c \in Receipts, r \in Results :
       [c EXCEPT !.result = r].owner = c.owner /\ [c EXCEPT !.result = r].state = c.state
  /\ \A c \in Receipts, r \in Results, v \in Versions :
       /\ [c EXCEPT !.lock = v, !.result = r].owner = c.owner
       /\ [c EXCEPT !.lock = v, !.result = r].state = c.state
  /\ \A c \in Receipts, n \in Nat :
       /\ [c EXCEPT !.state = "open", !.owner = n, !.result = "wait"].owner = n
       /\ [c EXCEPT !.state = "open", !.owner = n, !.result = "wait"].state = "open"
BY DEF Receipts, NoReceipt, Results

LEMMA ReservationOwner ==
  ASSUME TypeOK, NEW t \in Tasks
  PROVE  Reservation(t).owner = host[t] /\ Reservation(t).state = "open"
BY DEF Reservation

\* How a command gets to the points the invariant speaks of: it was there with the same
\* memory, or it took the step named.
Arrives ==
  /\ \A t \in Tasks : pc'[t] \in {"disown", "redisown"} =>
       \/ pc'[t] = pc[t] /\ target'[t] = target[t] /\ copy'[t] = copy[t] /\ left'[t] = left[t]
       \/ \E o \in Tasks : Looks(t, o)
  /\ \A t \in Tasks : pc'[t] = "rescan" =>
       \/ pc[t] = "rescan" /\ left'[t] = left[t]
       \/ (\E o \in Tasks : Looks(t, o)) \/ Disowns(t) \/ Claims(t)
  /\ \A t \in Tasks : pc'[t] = "journal" => pc[t] = "journal" \/ Reassesses(t)
  /\ \A t \in Tasks : pc'[t] = "rewrite" =>
       \/ pc[t] = "rewrite" /\ copy'[t] = copy[t]
       \/ ReadsReceipt(t)
  /\ \A t \in Tasks : pc'[t] = "release" =>
       \/ pc[t] = "release" /\ copy'[t] = copy[t]
       \/ FinishBegins(t)
  /\ journal'.task = journal.task \/ \E t \in Tasks : WritesJournal(t) \/ Unlinks(t)

\* A host changes by a start or an exit, and the task works with nothing then.
HostMoves ==
  \A o \in Tasks :
    \/ host'[o] = host[o]
    \/ host'[o] = 0 /\ uses'[o] = "none"
    \/ host'[o] = hosts[o] + 1 /\ uses'[o] = "none"

\* Only a start gives a task another host.
HostsMove ==
  \A o \in Tasks :
    \/ hosts'[o] = hosts[o] /\ host'[o] = host[o]
    \/ hosts'[o] = hosts[o] /\ host'[o] = 0 /\ uses'[o] = "none"
    \/ HostStarts(o)

\* Nobody is told to work but by the end of an update.
UsesFall ==
  (\A o \in Tasks : uses'[o] \in {uses[o], "none"}) \/ (\E u \in Tasks : Unlinks(u))

\* The runtime pointer moves at two points of a command.
PointerMoves == pointer' = pointer \/ \E u \in Tasks : Activates(u) \/ RestoresPointer(u)

LEMMA ArrivesStep ==
  ASSUME TypeOK, [Next]_vars
  PROVE  Arrives
<1>. USE TypesFollow, ShapesFollow, UsersFollow, UpdateAssumption DEF Types, Shapes, Users, Journals,
      Assessing, Trying, Restoring,
      Closing, Elsewhere, fileVars, lockVars, commandVars, hookVars, hostVars, countVars
<1>1. ASSUME NEW t \in Tasks, ApplyBegins(t) PROVE Arrives
  <2>1. \A o \in Tasks \ {t} : pc'[o] = pc[o] /\ target'[o] = target[o]
            /\ copy'[o] = copy[o] /\ left'[o] = left[o]
    BY <1>1 DEF ApplyBegins, CanRun, Holds, Others
  <2>2. pc'[t] \notin {"disown", "redisown", "rescan", "journal", "rewrite", "release"}
    BY <1>1 DEF ApplyBegins, CanRun, Holds, Others
  <2>3. journal'.task = journal.task
    BY <1>1 DEF ApplyBegins, CanRun, Holds, Others
  <2>. QED
    BY <2>1, <2>2, <2>3 DEF Arrives
<1>2. ASSUME NEW t \in Tasks, RecoverBegins(t) PROVE Arrives
  <2>1. \A o \in Tasks \ {t} : pc'[o] = pc[o] /\ target'[o] = target[o]
            /\ copy'[o] = copy[o] /\ left'[o] = left[o]
    BY <1>2 DEF RecoverBegins, CanRun
  <2>2. pc'[t] \notin {"disown", "redisown", "rescan", "journal", "rewrite", "release"}
    BY <1>2 DEF RecoverBegins, CanRun
  <2>3. journal'.task = journal.task
    BY <1>2 DEF RecoverBegins, CanRun
  <2>. QED
    BY <2>1, <2>2, <2>3 DEF Arrives
<1>3. ASSUME NEW t \in Tasks, FinishBegins(t) PROVE Arrives
  <2>1. \A o \in Tasks \ {t} : pc'[o] = pc[o] /\ target'[o] = target[o]
            /\ copy'[o] = copy[o] /\ left'[o] = left[o]
    BY <1>3 DEF FinishBegins, Goes, Gone, commandVars, CanRun
  <2>2. pc'[t] = "release"
    BY <1>3 DEF FinishBegins
  <2>3. journal' = journal
    BY <1>3 DEF FinishBegins
  <2>. QED
    BY <1>3, <2>1, <2>2, <2>3 DEF Arrives
<1>4. ASSUME NEW t \in Tasks, NEW o \in Tasks, Looks(t, o) PROVE Arrives
  <2>1. \A p \in Tasks \ {t} : pc'[p] = pc[p] /\ target'[p] = target[p]
            /\ copy'[p] = copy[p] /\ left'[p] = left[p]
    BY <1>4 DEF Looks, Goes, Gone, commandVars, CanRun
  <2>2. pc'[t] \notin {"journal", "rewrite", "release"}
    BY <1>4 DEF Looks, Gone
  <2>3. journal' = journal
    BY <1>4 DEF Looks
  <2>. QED
    BY <1>4, <2>1, <2>2, <2>3 DEF Arrives
<1>5. ASSUME NEW t \in Tasks, Disowns(t) PROVE Arrives
  <2>1. \A o \in Tasks \ {t} : pc'[o] = pc[o] /\ target'[o] = target[o]
            /\ copy'[o] = copy[o] /\ left'[o] = left[o]
    BY <1>5 DEF Disowns, Goes, Gone, commandVars, CanRun
  <2>2. pc'[t] \in {"scan", "rescan"}
    BY <1>5 DEF Disowns
  <2>3. journal' = journal
    BY <1>5 DEF Disowns
  <2>. QED
    BY <1>5, <2>1, <2>2, <2>3 DEF Arrives
<1>6. ASSUME NEW t \in Tasks, Assesses(t) PROVE Arrives
  <2>1. \A o \in Tasks \ {t} : pc'[o] = pc[o] /\ target'[o] = target[o]
            /\ copy'[o] = copy[o] /\ left'[o] = left[o]
    BY <1>6 DEF Assesses, Gone, Snapshot, Eligible
  <2>2. pc'[t] \notin {"disown", "redisown", "rescan", "journal", "rewrite", "release"}
    BY <1>6 DEF Assesses, Gone, Snapshot, Eligible
  <2>3. journal'.task = journal.task
    BY <1>6 DEF Assesses, Gone, Snapshot, Eligible
  <2>. QED
    BY <2>1, <2>2, <2>3 DEF Arrives
<1>7. ASSUME NEW t \in Tasks, Prepares(t) PROVE Arrives
  <2>1. \A o \in Tasks \ {t} : pc'[o] = pc[o] /\ target'[o] = target[o]
            /\ copy'[o] = copy[o] /\ left'[o] = left[o]
    BY <1>7 DEF Prepares, Goes, Gone
  <2>2. pc'[t] \notin {"disown", "redisown", "rescan", "journal", "rewrite", "release"}
    BY <1>7 DEF Prepares, Goes, Gone
  <2>3. journal'.task = journal.task
    BY <1>7 DEF Prepares, Goes, Gone
  <2>. QED
    BY <2>1, <2>2, <2>3 DEF Arrives
<1>8. ASSUME NEW t \in Tasks, Claims(t) PROVE Arrives
  <2>1. \A o \in Tasks \ {t} : pc'[o] = pc[o] /\ target'[o] = target[o]
            /\ copy'[o] = copy[o] /\ left'[o] = left[o]
    BY <1>8 DEF Claims, Goes, Gone, commandVars, CanRun
  <2>2. pc'[t] \in {"idle", "rescan"}
    BY <1>8 DEF Claims, Gone
  <2>3. journal' = journal
    BY <1>8 DEF Claims
  <2>. QED
    BY <1>8, <2>1, <2>2, <2>3 DEF Arrives
<1>9. ASSUME NEW t \in Tasks, Reassesses(t) PROVE Arrives
  <2>1. \A o \in Tasks \ {t} : pc'[o] = pc[o] /\ target'[o] = target[o]
            /\ copy'[o] = copy[o] /\ left'[o] = left[o]
    BY <1>9 DEF Reassesses, Goes, Gone, commandVars, CanRun
  <2>2. pc'[t] \in {"idle", "journal"}
    BY <1>9 DEF Reassesses, Gone
  <2>3. journal' = journal
    BY <1>9 DEF Reassesses
  <2>. QED
    BY <1>9, <2>1, <2>2, <2>3 DEF Arrives
<1>10. ASSUME NEW t \in Tasks, WritesJournal(t) PROVE Arrives
  <2>1. \A o \in Tasks \ {t} : pc'[o] = pc[o] /\ target'[o] = target[o]
            /\ copy'[o] = copy[o] /\ left'[o] = left[o]
    BY <1>10 DEF WritesJournal, Goes, Gone, commandVars, CanRun
  <2>2. pc'[t] = "activate"
    BY <1>10 DEF WritesJournal, Goes
  <2>. QED
    BY <1>10, <2>1, <2>2 DEF Arrives
<1>11. ASSUME NEW t \in Tasks, Activates(t) PROVE Arrives
  <2>1. \A o \in Tasks \ {t} : pc'[o] = pc[o] /\ target'[o] = target[o]
            /\ copy'[o] = copy[o] /\ left'[o] = left[o]
    BY <1>11 DEF Activates, Goes
  <2>2. pc'[t] \notin {"disown", "redisown", "rescan", "journal", "rewrite", "release"}
    BY <1>11 DEF Activates, Goes
  <2>3. journal'.task = journal.task
    BY <1>11 DEF Activates, Goes
  <2>. QED
    BY <2>1, <2>2, <2>3 DEF Arrives
<1>12. ASSUME NEW t \in Tasks, WritesLock(t) PROVE Arrives
  <2>1. \A o \in Tasks \ {t} : pc'[o] = pc[o] /\ target'[o] = target[o]
            /\ copy'[o] = copy[o] /\ left'[o] = left[o]
    BY <1>12 DEF WritesLock, Goes
  <2>2. pc'[t] \notin {"disown", "redisown", "rescan", "journal", "rewrite", "release"}
    BY <1>12 DEF WritesLock, Goes
  <2>3. journal'.task = journal.task
    BY <1>12 DEF WritesLock, Goes
  <2>. QED
    BY <2>1, <2>2, <2>3 DEF Arrives
<1>13. ASSUME NEW t \in Tasks, Marks(t) PROVE Arrives
  <2>1. \A o \in Tasks \ {t} : pc'[o] = pc[o] /\ target'[o] = target[o]
            /\ copy'[o] = copy[o] /\ left'[o] = left[o]
    BY <1>13 DEF Journals, Marks, Goes
  <2>2. pc'[t] \notin {"disown", "redisown", "rescan", "journal", "rewrite", "release"}
    BY <1>13 DEF Journals, Marks, Goes
  <2>3. journal'.task = journal.task
    BY <1>13 DEF Journals, Marks, Goes
  <2>. QED
    BY <2>1, <2>2, <2>3 DEF Arrives
<1>14. ASSUME NEW t \in Tasks, DoctorPasses(t) PROVE Arrives
  <2>1. \A o \in Tasks \ {t} : pc'[o] = pc[o] /\ target'[o] = target[o]
            /\ copy'[o] = copy[o] /\ left'[o] = left[o]
    BY <1>14 DEF DoctorPasses, Goes
  <2>2. pc'[t] \notin {"disown", "redisown", "rescan", "journal", "rewrite", "release"}
    BY <1>14 DEF DoctorPasses, Goes
  <2>3. journal'.task = journal.task
    BY <1>14 DEF DoctorPasses, Goes
  <2>. QED
    BY <2>1, <2>2, <2>3 DEF Arrives
<1>15. ASSUME NEW t \in Tasks, StartsCommit(t) PROVE Arrives
  <2>1. \A o \in Tasks \ {t} : pc'[o] = pc[o] /\ target'[o] = target[o]
            /\ copy'[o] = copy[o] /\ left'[o] = left[o]
    BY <1>15 DEF StartsCommit, Goes
  <2>2. pc'[t] \notin {"disown", "redisown", "rescan", "journal", "rewrite", "release"}
    BY <1>15 DEF StartsCommit, Goes
  <2>3. journal'.task = journal.task
    BY <1>15 DEF StartsCommit, Goes
  <2>. QED
    BY <2>1, <2>2, <2>3 DEF Arrives
<1>16. ASSUME NEW t \in Tasks, CommitReturns(t) PROVE Arrives
  <2>1. \A o \in Tasks \ {t} : pc'[o] = pc[o] /\ target'[o] = target[o]
            /\ copy'[o] = copy[o] /\ left'[o] = left[o]
    BY <1>16 DEF CommitReturns, Goes
  <2>2. pc'[t] \notin {"disown", "redisown", "rescan", "journal", "rewrite", "release"}
    BY <1>16 DEF CommitReturns, Goes
  <2>3. journal'.task = journal.task
    BY <1>16 DEF CommitReturns, Goes
  <2>. QED
    BY <2>1, <2>2, <2>3 DEF Arrives
<1>17. ASSUME NEW t \in Tasks, Verifies(t) PROVE Arrives
  <2>1. \A o \in Tasks \ {t} : pc'[o] = pc[o] /\ target'[o] = target[o]
            /\ copy'[o] = copy[o] /\ left'[o] = left[o]
    BY <1>17 DEF Verifies, Goes
  <2>2. pc'[t] \notin {"disown", "redisown", "rescan", "journal", "rewrite", "release"}
    BY <1>17 DEF Verifies, Goes
  <2>3. journal'.task = journal.task
    BY <1>17 DEF Verifies, Goes
  <2>. QED
    BY <2>1, <2>2, <2>3 DEF Arrives
<1>18. ASSUME NEW t \in Tasks, Checks(t) PROVE Arrives
  <2>1. \A o \in Tasks \ {t} : pc'[o] = pc[o] /\ target'[o] = target[o]
            /\ copy'[o] = copy[o] /\ left'[o] = left[o]
    BY <1>18 DEF Checks
  <2>2. pc'[t] \notin {"disown", "redisown", "rescan", "journal", "rewrite", "release"}
    BY <1>18 DEF Checks
  <2>3. journal'.task = journal.task
    BY <1>18 DEF Checks
  <2>. QED
    BY <2>1, <2>2, <2>3 DEF Arrives
<1>19. ASSUME NEW t \in Tasks, Fails(t) PROVE Arrives
  <2>1. \A o \in Tasks \ {t} : pc'[o] = pc[o] /\ target'[o] = target[o]
            /\ copy'[o] = copy[o] /\ left'[o] = left[o]
    BY <1>19 DEF Fails, Goes
  <2>2. pc'[t] \notin {"disown", "redisown", "rescan", "journal", "rewrite", "release"}
    BY <1>19 DEF Fails, Goes
  <2>3. journal'.task = journal.task
    BY <1>19 DEF Fails, Goes
  <2>. QED
    BY <2>1, <2>2, <2>3 DEF Arrives
<1>20. ASSUME NEW t \in Tasks, Adopts(t) PROVE Arrives
  <2>1. \A o \in Tasks \ {t} : pc'[o] = pc[o] /\ target'[o] = target[o]
            /\ copy'[o] = copy[o] /\ left'[o] = left[o]
    BY <1>20 DEF Journals, Adopts, Goes, Gone
  <2>2. pc'[t] \notin {"disown", "redisown", "rescan", "journal", "rewrite", "release"}
    BY <1>20 DEF Journals, Adopts, Goes, Gone
  <2>3. journal'.task = journal.task
    BY <1>20 DEF Journals, Adopts, Goes, Gone
  <2>. QED
    BY <2>1, <2>2, <2>3 DEF Arrives
<1>21. ASSUME NEW t \in Tasks, Judges(t) PROVE Arrives
  <2>1. \A o \in Tasks \ {t} : pc'[o] = pc[o] /\ target'[o] = target[o]
            /\ copy'[o] = copy[o] /\ left'[o] = left[o]
    BY <1>21 DEF Judges, Gone
  <2>2. pc'[t] \notin {"disown", "redisown", "rescan", "journal", "rewrite", "release"}
    BY <1>21 DEF Judges, Gone
  <2>3. journal'.task = journal.task
    BY <1>21 DEF Judges, Gone
  <2>. QED
    BY <2>1, <2>2, <2>3 DEF Arrives
<1>22. ASSUME NEW t \in Tasks, RestoresLock(t) PROVE Arrives
  <2>1. \A o \in Tasks \ {t} : pc'[o] = pc[o] /\ target'[o] = target[o]
            /\ copy'[o] = copy[o] /\ left'[o] = left[o]
    BY <1>22 DEF RestoresLock, Goes, Follows
  <2>2. pc'[t] \notin {"disown", "redisown", "rescan", "journal", "rewrite", "release"}
    BY <1>22 DEF RestoresLock, Goes, Follows
  <2>3. journal'.task = journal.task
    BY <1>22 DEF RestoresLock, Goes, Follows
  <2>. QED
    BY <2>1, <2>2, <2>3 DEF Arrives
<1>23. ASSUME NEW t \in Tasks, RestoresPointer(t) PROVE Arrives
  <2>1. \A o \in Tasks \ {t} : pc'[o] = pc[o] /\ target'[o] = target[o]
            /\ copy'[o] = copy[o] /\ left'[o] = left[o]
    BY <1>23 DEF RestoresPointer, Goes, Follows
  <2>2. pc'[t] \notin {"disown", "redisown", "rescan", "journal", "rewrite", "release"}
    BY <1>23 DEF RestoresPointer, Goes, Follows
  <2>3. journal'.task = journal.task
    BY <1>23 DEF RestoresPointer, Goes, Follows
  <2>. QED
    BY <2>1, <2>2, <2>3 DEF Arrives
<1>24. ASSUME NEW t \in Tasks, Confirms(t) PROVE Arrives
  <2>1. \A o \in Tasks \ {t} : pc'[o] = pc[o] /\ target'[o] = target[o]
            /\ copy'[o] = copy[o] /\ left'[o] = left[o]
    BY <1>24 DEF Confirms, Goes, Gone
  <2>2. pc'[t] \notin {"disown", "redisown", "rescan", "journal", "rewrite", "release"}
    BY <1>24 DEF Confirms, Goes, Gone
  <2>3. journal'.task = journal.task
    BY <1>24 DEF Confirms, Goes, Gone
  <2>. QED
    BY <2>1, <2>2, <2>3 DEF Arrives
<1>25. ASSUME NEW t \in Tasks, Revalidates(t) PROVE Arrives
  <2>1. \A o \in Tasks \ {t} : pc'[o] = pc[o] /\ target'[o] = target[o]
            /\ copy'[o] = copy[o] /\ left'[o] = left[o]
    BY <1>25 DEF Revalidates, Goes, Gone
  <2>2. pc'[t] \notin {"disown", "redisown", "rescan", "journal", "rewrite", "release"}
    BY <1>25 DEF Revalidates, Goes, Gone
  <2>3. journal'.task = journal.task
    BY <1>25 DEF Revalidates, Goes, Gone
  <2>. QED
    BY <2>1, <2>2, <2>3 DEF Arrives
<1>26. ASSUME NEW t \in Tasks, ReadsReceipt(t) PROVE Arrives
  <2>1. \A o \in Tasks \ {t} : pc'[o] = pc[o] /\ target'[o] = target[o]
            /\ copy'[o] = copy[o] /\ left'[o] = left[o]
    BY <1>26 DEF ReadsReceipt, Goes, Gone, commandVars, CanRun
  <2>2. pc'[t] = "rewrite"
    BY <1>26 DEF ReadsReceipt
  <2>3. journal' = journal
    BY <1>26 DEF ReadsReceipt
  <2>. QED
    BY <1>26, <2>1, <2>2, <2>3 DEF Arrives
<1>27. ASSUME NEW t \in Tasks, RewritesReceipt(t) PROVE Arrives
  <2>1. \A o \in Tasks \ {t} : pc'[o] = pc[o] /\ target'[o] = target[o]
            /\ copy'[o] = copy[o] /\ left'[o] = left[o]
    BY <1>27 DEF RewritesReceipt
  <2>2. pc'[t] \notin {"disown", "redisown", "rescan", "journal", "rewrite", "release"}
    BY <1>27 DEF RewritesReceipt
  <2>3. journal'.task = journal.task
    BY <1>27 DEF RewritesReceipt
  <2>. QED
    BY <2>1, <2>2, <2>3 DEF Arrives
<1>28. ASSUME NEW t \in Tasks, Unlinks(t) PROVE Arrives
  <2>1. \A o \in Tasks \ {t} : pc'[o] = pc[o] /\ target'[o] = target[o]
            /\ copy'[o] = copy[o] /\ left'[o] = left[o]
    BY <1>28 DEF Unlinks, Goes, Gone, commandVars, CanRun
  <2>2. pc'[t] = "idle"
    BY <1>28 DEF Unlinks, Gone
  <2>. QED
    BY <1>28, <2>1, <2>2 DEF Arrives
<1>29. ASSUME NEW t \in Tasks, Releases(t) PROVE Arrives
  <2>1. \A o \in Tasks \ {t} : pc'[o] = pc[o] /\ target'[o] = target[o]
            /\ copy'[o] = copy[o] /\ left'[o] = left[o]
    BY <1>29 DEF Releases, Gone
  <2>2. pc'[t] \notin {"disown", "redisown", "rescan", "journal", "rewrite", "release"}
    BY <1>29 DEF Releases, Gone
  <2>3. journal'.task = journal.task
    BY <1>29 DEF Releases, Gone
  <2>. QED
    BY <2>1, <2>2, <2>3 DEF Arrives
<1>30. ASSUME NEW t \in Tasks, Killed(t) PROVE Arrives
  <2>1. \A o \in Tasks \ {t} : pc'[o] = pc[o] /\ target'[o] = target[o]
            /\ copy'[o] = copy[o] /\ left'[o] = left[o]
    BY <1>30 DEF Killed, Gone
  <2>2. pc'[t] \notin {"disown", "redisown", "rescan", "journal", "rewrite", "release"}
    BY <1>30 DEF Killed, Gone
  <2>3. journal'.task = journal.task
    BY <1>30 DEF Killed, Gone
  <2>. QED
    BY <2>1, <2>2, <2>3 DEF Arrives
<1>31. ASSUME \/ UNCHANGED vars
     \/ (\E t \in Tasks : HookEnters(t)) \/ (\E t \in Tasks : HookRegisters(t))
     \/ (\E t \in Tasks : DiscoveryStarts(t)) \/ (\E t \in Tasks : DiscoveryEnds(t))
     \/ (\E t \in Tasks : HookPublishes(t)) \/ (\E t \in Tasks : HookRefused(t))
     \/ (\E t \in Tasks : EndReads(t)) \/ (\E t \in Tasks : EndCloses(t))
     \/ (\E t \in Tasks : HookKilled(t)) \/ (\E t \in Tasks : HostStarts(t))
     \/ (\E t \in Tasks : HostExits(t))
     \/ (\E t \in Tasks, k \in {"startup", "resume", "prompt", "end"} : Event(t, k))
     \/ (\E r \in Readers : ReaderStarts(r)) \/ (\E r \in Readers : ReaderEnters(r))
     \/ (\E r \in Readers : ReaderEnds(r)) \/ GitEnds \/ OthersWrite
      PROVE  UNCHANGED <<pc, target, copy, left, journal>>
  BY <1>31 DEF vars, HookEnters, HookIs, Admitted, HookRegisters, HookGone, Told,
      DiscoveryStarts, DiscoveryEnds, HookPublishes, HookRefused, EndReads, EndCloses,
      HookKilled, HostStarts, HostExits, Event, ReaderStarts, ReaderEnters, ReaderEnds,
      GitEnds, OthersWrite
<1>32. CASE UNCHANGED <<pc, target, copy, left, journal>>
  BY <1>32 DEF Arrives
<1>. HIDE DEF Types, Shapes, Users
<1>. QED
  BY <1>1, <1>2, <1>3, <1>4, <1>5, <1>6, <1>7, <1>8, <1>9, <1>10, <1>11, <1>12, <1>13,
      <1>14, <1>15, <1>16, <1>17, <1>18, <1>19, <1>20, <1>21, <1>22, <1>23, <1>24, <1>25,
      <1>26, <1>27, <1>28, <1>29, <1>30, <1>31, <1>32 DEF Next, Begins, Continues, Hook

LEMMA HostsStep ==
  ASSUME TypeOK, [Next]_vars
  PROVE  HostsMove
<1>. USE TypesFollow, ShapesFollow, UsersFollow, UpdateAssumption DEF Types, Shapes, Users, HostsMove,
      Elsewhere, fileVars, lockVars, commandVars,
      hookVars, hostVars, countVars
<1>1. ASSUME NEW t \in Tasks, HostStarts(t) PROVE HostsMove
  <2>1. \A o \in Tasks \ {t} : hosts'[o] = hosts[o] /\ host'[o] = host[o]
    BY <1>1 DEF HostStarts
  <2>. QED
    BY <1>1, <2>1
<1>2. ASSUME NEW t \in Tasks, HostExits(t) PROVE HostsMove
  BY <1>2 DEF HostExits
<1>3. ASSUME \/ UNCHANGED vars
     \/ (\E t \in Tasks : ApplyBegins(t)) \/ (\E t \in Tasks : RecoverBegins(t))
     \/ (\E t \in Tasks : FinishBegins(t)) \/ (\E t, o \in Tasks : Looks(t, o))
     \/ (\E t \in Tasks : Disowns(t)) \/ (\E t \in Tasks : Assesses(t))
     \/ (\E t \in Tasks : Prepares(t)) \/ (\E t \in Tasks : Claims(t))
     \/ (\E t \in Tasks : Reassesses(t)) \/ (\E t \in Tasks : WritesJournal(t))
     \/ (\E t \in Tasks : Activates(t)) \/ (\E t \in Tasks : WritesLock(t))
     \/ (\E t \in Tasks : Marks(t)) \/ (\E t \in Tasks : DoctorPasses(t))
     \/ (\E t \in Tasks : StartsCommit(t)) \/ (\E t \in Tasks : CommitReturns(t))
     \/ (\E t \in Tasks : Verifies(t)) \/ (\E t \in Tasks : Checks(t))
     \/ (\E t \in Tasks : Fails(t)) \/ (\E t \in Tasks : Adopts(t))
     \/ (\E t \in Tasks : Judges(t)) \/ (\E t \in Tasks : RestoresLock(t))
     \/ (\E t \in Tasks : RestoresPointer(t)) \/ (\E t \in Tasks : Confirms(t))
     \/ (\E t \in Tasks : Revalidates(t)) \/ (\E t \in Tasks : ReadsReceipt(t))
     \/ (\E t \in Tasks : RewritesReceipt(t)) \/ (\E t \in Tasks : Unlinks(t))
     \/ (\E t \in Tasks : Releases(t)) \/ (\E t \in Tasks : Killed(t))
     \/ (\E t \in Tasks : HookEnters(t)) \/ (\E t \in Tasks : HookRegisters(t))
     \/ (\E t \in Tasks : DiscoveryStarts(t)) \/ (\E t \in Tasks : DiscoveryEnds(t))
     \/ (\E t \in Tasks : HookPublishes(t)) \/ (\E t \in Tasks : HookRefused(t))
     \/ (\E t \in Tasks : EndReads(t)) \/ (\E t \in Tasks : EndCloses(t))
     \/ (\E t \in Tasks : HookKilled(t))
     \/ (\E t \in Tasks, k \in {"startup", "resume", "prompt", "end"} : Event(t, k))
     \/ (\E r \in Readers : ReaderStarts(r)) \/ (\E r \in Readers : ReaderEnters(r))
     \/ (\E r \in Readers : ReaderEnds(r)) \/ GitEnds \/ OthersWrite
      PROVE  UNCHANGED <<host, hosts>>
  BY <1>3 DEF vars, ApplyBegins, CanRun, Holds, Others, RecoverBegins, FinishBegins, Looks,
      Gone, Disowns, Assesses, Snapshot, Eligible, Prepares, Goes, Claims, Reassesses,
      WritesJournal, Activates, WritesLock, Journals, Marks, DoctorPasses, StartsCommit,
      CommitReturns, Verifies, Checks, Fails, Adopts, Judges, RestoresLock, Follows,
      RestoresPointer, Confirms, Revalidates, ReadsReceipt, RewritesReceipt, Unlinks,
      Releases, Killed, HookEnters, HookIs, Admitted, HookRegisters, HookGone, Told,
      DiscoveryStarts, DiscoveryEnds, HookPublishes, HookRefused, EndReads, EndCloses,
      HookKilled, Event, ReaderStarts, ReaderEnters, ReaderEnds, GitEnds, OthersWrite
<1>4. CASE UNCHANGED <<host, hosts>>
  BY <1>4
<1>. HIDE DEF Types, Shapes, Users
<1>. QED
  BY <1>1, <1>2, <1>3, <1>4 DEF Next, Begins, Continues, Hook

LEMMA HostStep ==
  ASSUME TypeOK, AliveInv, [Next]_vars
  PROVE  HostMoves
<1>1. ASSUME NEW o \in Tasks, HostStarts(o)
      PROVE  host'[o] = hosts[o] + 1 /\ uses'[o] = "none"
  BY <1>1, ShapesFollow DEF Shapes, HostStarts, AliveInv
<1>. QED
  BY <1>1, HostsStep DEF HostsMove, HostMoves

LEMMA PointerStep ==
  ASSUME TypeOK, [Next]_vars
  PROVE  PointerMoves
<1>. USE DEF PointerMoves, Elsewhere, fileVars, lockVars, commandVars,
      hookVars, hostVars, countVars
<1>1. ASSUME NEW t \in Tasks, Activates(t) PROVE PointerMoves
  BY <1>1
<1>2. ASSUME NEW t \in Tasks, RestoresPointer(t) PROVE PointerMoves
  BY <1>2
<1>3. ASSUME \/ UNCHANGED vars
     \/ (\E t \in Tasks : ApplyBegins(t)) \/ (\E t \in Tasks : RecoverBegins(t))
     \/ (\E t \in Tasks : FinishBegins(t)) \/ (\E t, o \in Tasks : Looks(t, o))
     \/ (\E t \in Tasks : Disowns(t)) \/ (\E t \in Tasks : Assesses(t))
     \/ (\E t \in Tasks : Prepares(t)) \/ (\E t \in Tasks : Claims(t))
     \/ (\E t \in Tasks : Reassesses(t)) \/ (\E t \in Tasks : WritesJournal(t))
     \/ (\E t \in Tasks : WritesLock(t)) \/ (\E t \in Tasks : Marks(t))
     \/ (\E t \in Tasks : DoctorPasses(t)) \/ (\E t \in Tasks : StartsCommit(t))
     \/ (\E t \in Tasks : CommitReturns(t)) \/ (\E t \in Tasks : Verifies(t))
     \/ (\E t \in Tasks : Checks(t)) \/ (\E t \in Tasks : Fails(t))
     \/ (\E t \in Tasks : Adopts(t)) \/ (\E t \in Tasks : Judges(t))
     \/ (\E t \in Tasks : RestoresLock(t)) \/ (\E t \in Tasks : Confirms(t))
     \/ (\E t \in Tasks : Revalidates(t)) \/ (\E t \in Tasks : ReadsReceipt(t))
     \/ (\E t \in Tasks : RewritesReceipt(t)) \/ (\E t \in Tasks : Unlinks(t))
     \/ (\E t \in Tasks : Releases(t)) \/ (\E t \in Tasks : Killed(t))
     \/ (\E t \in Tasks : HookEnters(t)) \/ (\E t \in Tasks : HookRegisters(t))
     \/ (\E t \in Tasks : DiscoveryStarts(t)) \/ (\E t \in Tasks : DiscoveryEnds(t))
     \/ (\E t \in Tasks : HookPublishes(t)) \/ (\E t \in Tasks : HookRefused(t))
     \/ (\E t \in Tasks : EndReads(t)) \/ (\E t \in Tasks : EndCloses(t))
     \/ (\E t \in Tasks : HookKilled(t)) \/ (\E t \in Tasks : HostStarts(t))
     \/ (\E t \in Tasks : HostExits(t))
     \/ (\E t \in Tasks, k \in {"startup", "resume", "prompt", "end"} : Event(t, k))
     \/ (\E r \in Readers : ReaderStarts(r)) \/ (\E r \in Readers : ReaderEnters(r))
     \/ (\E r \in Readers : ReaderEnds(r)) \/ GitEnds \/ OthersWrite
      PROVE  UNCHANGED pointer
  BY <1>3 DEF vars, ApplyBegins, CanRun, Holds, Others, RecoverBegins, FinishBegins, Looks,
      Gone, Disowns, Assesses, Snapshot, Eligible, Prepares, Goes, Claims, Reassesses,
      WritesJournal, WritesLock, Journals, Marks, DoctorPasses, StartsCommit, CommitReturns,
      Verifies, Checks, Fails, Adopts, Judges, RestoresLock, Follows, Confirms, Revalidates,
      ReadsReceipt, RewritesReceipt, Unlinks, Releases, Killed, HookEnters, HookIs,
      Admitted, HookRegisters, HookGone, Told, DiscoveryStarts, DiscoveryEnds,
      HookPublishes, HookRefused, EndReads, EndCloses, HookKilled, HostStarts, HostExits,
      Event, ReaderStarts, ReaderEnters, ReaderEnds, GitEnds, OthersWrite
<1>4. CASE UNCHANGED pointer
  BY <1>4
<1>. QED
  BY <1>1, <1>2, <1>3, <1>4 DEF Next, Begins, Continues, Hook

\* A command that holds update.lock is alone.
LEMMA CommandAlone ==
  ASSUME TypeOK, LockInv, NEW t \in Tasks, pc[t] # "idle"
  PROVE  \A o \in Tasks : pc[o] # "idle" => o = t
BY DEF LockInv

\* What a look at another task's receipt leaves behind.
LEMMA LookFacts ==
  ASSUME TypeOK, NEW t \in Tasks, NEW o \in Tasks, Looks(t, o), pc'[t] # "idle"
  PROVE  /\ UNCHANGED <<receipts, host, hosts, uses, lockFile, journal>>
         /\ \/ /\ receipts[o].state = "closed" /\ left' = [left EXCEPT ![t] = @ \ {o}]
               /\ pc' = pc
            \/ /\ OwnerGone(o, receipts[o]) /\ UNCHANGED left
               /\ target'[t] = o /\ copy'[t] = receipts[o]
               /\ pc'[t] = IF pc[t] = "scan" THEN "disown" ELSE "redisown"
         /\ pc[t] \in {"scan", "rescan"}
<1>1. ~Gone(t)
  BY TypesFollow DEF Types, Gone
<1>2. UNCHANGED <<receipts, host, hosts, uses, lockFile, journal>> /\ pc[t] \in {"scan", "rescan"}
  BY DEF Looks, Elsewhere, hostVars, fileVars
<1>3. CASE receipts[o].state = "closed"
  BY <1>2, <1>3 DEF Looks
<1>4. CASE receipts[o].state # "closed"
  BY <1>1, <1>2, <1>4, TypesFollow, ShapesFollow, UsersFollow DEF Types, Shapes, Users, Looks
<1>. QED
  BY <1>2, <1>3, <1>4

LEMMA AliveStep ==
  ASSUME TypeOK, AliveInv, [Next]_vars
  PROVE  AliveInv'
<1>. USE TypesFollow, ShapesFollow, UsersFollow, UpdateAssumption DEF Types, Shapes, Users, AliveInv,
      Elsewhere, fileVars, lockVars, commandVars,
      hookVars, hostVars, countVars
<1>1. ASSUME NEW t \in Tasks, ApplyBegins(t) PROVE AliveInv'
  BY <1>1 DEF ApplyBegins, CanRun, Holds, Others
<1>2. ASSUME NEW t \in Tasks, RecoverBegins(t) PROVE AliveInv'
  BY <1>2 DEF RecoverBegins, CanRun
<1>3. ASSUME NEW t \in Tasks, FinishBegins(t) PROVE AliveInv'
  BY <1>3 DEF FinishBegins, CanRun
<1>4. ASSUME NEW t \in Tasks, NEW o \in Tasks, Looks(t, o) PROVE AliveInv'
  BY <1>4 DEF Looks, Gone
<1>5. ASSUME NEW t \in Tasks, Disowns(t) PROVE AliveInv'
  BY <1>5 DEF Disowns
<1>6. ASSUME NEW t \in Tasks, Assesses(t) PROVE AliveInv'
  BY <1>6 DEF Assesses, Gone, Snapshot, Eligible
<1>7. ASSUME NEW t \in Tasks, Prepares(t) PROVE AliveInv'
  BY <1>7 DEF Prepares, Goes, Gone
<1>8. ASSUME NEW t \in Tasks, Claims(t) PROVE AliveInv'
  BY <1>8 DEF Claims, Gone, Others
<1>9. ASSUME NEW t \in Tasks, Reassesses(t) PROVE AliveInv'
  BY <1>9 DEF Reassesses, Gone, Snapshot
<1>10. ASSUME NEW t \in Tasks, WritesJournal(t) PROVE AliveInv'
  BY <1>10 DEF WritesJournal, Goes
<1>11. ASSUME NEW t \in Tasks, Activates(t) PROVE AliveInv'
  BY <1>11 DEF Activates, Goes
<1>12. ASSUME NEW t \in Tasks, WritesLock(t) PROVE AliveInv'
  BY <1>12 DEF WritesLock, Goes
<1>13. ASSUME NEW t \in Tasks, Marks(t) PROVE AliveInv'
  BY <1>13 DEF Journals, Marks, Goes
<1>14. ASSUME NEW t \in Tasks, DoctorPasses(t) PROVE AliveInv'
  BY <1>14 DEF DoctorPasses, Goes
<1>15. ASSUME NEW t \in Tasks, StartsCommit(t) PROVE AliveInv'
  BY <1>15 DEF StartsCommit, Goes
<1>16. ASSUME NEW t \in Tasks, CommitReturns(t) PROVE AliveInv'
  BY <1>16 DEF CommitReturns, Goes
<1>17. ASSUME NEW t \in Tasks, Verifies(t) PROVE AliveInv'
  BY <1>17 DEF Verifies, Goes
<1>18. ASSUME NEW t \in Tasks, Checks(t) PROVE AliveInv'
  BY <1>18 DEF Checks
<1>19. ASSUME NEW t \in Tasks, Fails(t) PROVE AliveInv'
  <2>1. pc[t] # "idle" /\ pc' = [pc EXCEPT ![t] = "restore"]
    BY <1>19 DEF Fails, Goes, Trying
  <2>2. UNCHANGED <<host, hosts, uses, hook>>
    BY <1>19 DEF Fails
  <2>. QED
    BY <2>1, <2>2
<1>20. ASSUME NEW t \in Tasks, Adopts(t) PROVE AliveInv'
  BY <1>20 DEF Journals, Adopts, Goes, Gone
<1>21. ASSUME NEW t \in Tasks, Judges(t) PROVE AliveInv'
  BY <1>21 DEF Judges, Gone
<1>22. ASSUME NEW t \in Tasks, RestoresLock(t) PROVE AliveInv'
  BY <1>22 DEF RestoresLock, Goes, Follows
<1>23. ASSUME NEW t \in Tasks, RestoresPointer(t) PROVE AliveInv'
  BY <1>23 DEF RestoresPointer, Goes, Follows
<1>24. ASSUME NEW t \in Tasks, Confirms(t) PROVE AliveInv'
  BY <1>24 DEF Confirms, Goes, Gone
<1>25. ASSUME NEW t \in Tasks, Revalidates(t) PROVE AliveInv'
  BY <1>25 DEF Revalidates, Goes, Gone
<1>26. ASSUME NEW t \in Tasks, ReadsReceipt(t) PROVE AliveInv'
  BY <1>26 DEF ReadsReceipt
<1>27. ASSUME NEW t \in Tasks, RewritesReceipt(t) PROVE AliveInv'
  BY <1>27 DEF RewritesReceipt
<1>28. ASSUME NEW t \in Tasks, Unlinks(t) PROVE AliveInv'
  BY <1>28 DEF Unlinks, Gone
<1>29. ASSUME NEW t \in Tasks, Releases(t) PROVE AliveInv'
  BY <1>29 DEF Releases, Gone
<1>30. ASSUME NEW t \in Tasks, Killed(t) PROVE AliveInv'
  BY <1>30 DEF Killed, Gone
<1>31. ASSUME NEW t \in Tasks, HookEnters(t) PROVE AliveInv'
  BY <1>31 DEF HookEnters, HookIs, Admitted
<1>32. ASSUME NEW t \in Tasks, HookRegisters(t) PROVE AliveInv'
  BY <1>32 DEF HookRegisters, HookGone, HookIs, Told
<1>33. ASSUME NEW t \in Tasks, DiscoveryStarts(t) PROVE AliveInv'
  BY <1>33 DEF DiscoveryStarts, HookIs
<1>34. ASSUME NEW t \in Tasks, DiscoveryEnds(t) PROVE AliveInv'
  BY <1>34 DEF DiscoveryEnds, HookIs
<1>35. ASSUME NEW t \in Tasks, HookPublishes(t) PROVE AliveInv'
  BY <1>35 DEF HookPublishes, HookGone, HookIs, Told
<1>36. ASSUME NEW t \in Tasks, HookRefused(t) PROVE AliveInv'
  BY <1>36 DEF HookRefused, HookGone, HookIs, Told
<1>37. ASSUME NEW t \in Tasks, EndReads(t) PROVE AliveInv'
  BY <1>37 DEF EndReads, HookIs
<1>38. ASSUME NEW t \in Tasks, EndCloses(t) PROVE AliveInv'
  BY <1>38 DEF EndCloses, HookGone, HookIs
<1>39. ASSUME NEW t \in Tasks, HookKilled(t) PROVE AliveInv'
  BY <1>39 DEF HookKilled, HookGone, HookIs
<1>40. ASSUME NEW t \in Tasks, HostStarts(t) PROVE AliveInv'
  BY <1>40 DEF HostStarts
<1>41. ASSUME NEW t \in Tasks, HostExits(t) PROVE AliveInv'
  BY <1>41 DEF HostExits
<1>42. ASSUME NEW t \in Tasks, NEW k \in {"startup", "resume", "prompt", "end"}, Event(t, k) PROVE AliveInv'
  BY <1>42 DEF Event, HookIs
<1>43. ASSUME \/ UNCHANGED vars
     \/ (\E r \in Readers : ReaderStarts(r)) \/ (\E r \in Readers : ReaderEnters(r))
     \/ (\E r \in Readers : ReaderEnds(r)) \/ GitEnds \/ OthersWrite
      PROVE  UNCHANGED <<host, hosts, uses, hook, pc>>
  BY <1>43 DEF vars, ReaderStarts, ReaderEnters, Admitted, ReaderEnds, GitEnds, OthersWrite
<1>44. CASE UNCHANGED <<host, hosts, uses, hook, pc>>
  BY <1>44
<1>. HIDE DEF Types, Shapes, Users, AliveInv
<1>. QED
  BY <1>1, <1>2, <1>3, <1>4, <1>5, <1>6, <1>7, <1>8, <1>9, <1>10, <1>11, <1>12, <1>13,
      <1>14, <1>15, <1>16, <1>17, <1>18, <1>19, <1>20, <1>21, <1>22, <1>23, <1>24, <1>25,
      <1>26, <1>27, <1>28, <1>29, <1>30, <1>31, <1>32, <1>33, <1>34, <1>35, <1>36, <1>37,
      <1>38, <1>39, <1>40, <1>41, <1>42, <1>43, <1>44 DEF Next, Begins, Continues, Hook

LEMMA OwnerStep ==
  ASSUME TypeOK, AliveInv, OwnerInv, CopyInv, [Next]_vars
  PROVE  OwnerInv'
<1>. USE TypesFollow, ShapesFollow, UsersFollow, UpdateAssumption, OwnerFacts, ReservationOwner
      DEF Types, Shapes, Users, OwnerInv, CopyInv, AliveInv,
      Elsewhere, fileVars, lockVars, commandVars,
      hookVars, hostVars, countVars
<1>1. ASSUME NEW t \in Tasks, Disowns(t) PROVE OwnerInv'
  BY <1>1 DEF Disowns
<1>2. ASSUME NEW t \in Tasks, RewritesReceipt(t) PROVE OwnerInv'
  BY <1>2 DEF RewritesReceipt
<1>3. ASSUME NEW t \in Tasks, Releases(t) PROVE OwnerInv'
  BY <1>3 DEF Releases, Gone
<1>4. ASSUME NEW t \in Tasks, HookEnters(t) PROVE OwnerInv'
  BY <1>4 DEF HookEnters, HookIs, Admitted
<1>5. ASSUME NEW t \in Tasks, HookRegisters(t) PROVE OwnerInv'
  <2>1. /\ receipts' = [receipts EXCEPT ![t] = Reservation(t)] /\ UNCHANGED <<host, hosts>>
        /\ \/ draft' = [draft EXCEPT ![t] = Reservation(t)]
           \/ draft' = [draft EXCEPT ![t] = NoReceipt] /\ hook'[t] = "idle"
    BY <1>5 DEF HookRegisters, HookGone, HookIs
  <2>2. \A o \in Tasks \ {t} : hook'[o] = hook[o]
    BY <1>5 DEF HookRegisters, HookGone, HookIs
  <2>3. \A o \in Tasks \ {t} : receipts'[o] = receipts[o] /\ draft'[o] = draft[o]
    BY <2>1
  <2>4. host[t] <= hosts[t] /\ 0 <= hosts[t]
    OBVIOUS
  <2>5. receipts'[t].owner = host[t]
    BY <2>1
  <2>6. \/ draft'[t].owner = host[t] /\ draft'[t].state = "open"
        \/ draft'[t].owner = 0 /\ hook'[t] = "idle"
    BY <2>1
  <2>7. \A o \in Tasks : receipts'[o].owner <= hosts'[o] /\ draft'[o].owner <= hosts'[o]
    BY <2>1, <2>3, <2>4, <2>5, <2>6
  <2>8. \A o \in Tasks : hook'[o] \in {"discover", "searching", "publish"} =>
          draft'[o].state = "open" /\ draft'[o].owner = host'[o]
    BY <2>1, <2>2, <2>3, <2>6
  <2>. QED
    BY <2>7, <2>8
<1>6. ASSUME NEW t \in Tasks, DiscoveryStarts(t) PROVE OwnerInv'
  BY <1>6 DEF DiscoveryStarts, HookIs
<1>7. ASSUME NEW t \in Tasks, DiscoveryEnds(t) PROVE OwnerInv'
  BY <1>7 DEF DiscoveryEnds, HookIs
<1>8. ASSUME NEW t \in Tasks, HookPublishes(t) PROVE OwnerInv'
  BY <1>8 DEF HookPublishes, HookGone, HookIs, Told
<1>9. ASSUME NEW t \in Tasks, HookRefused(t) PROVE OwnerInv'
  BY <1>9 DEF HookRefused, HookGone, HookIs, Told
<1>10. ASSUME NEW t \in Tasks, EndReads(t) PROVE OwnerInv'
  BY <1>10 DEF EndReads, HookIs
<1>11. ASSUME NEW t \in Tasks, EndCloses(t) PROVE OwnerInv'
  BY <1>11 DEF EndCloses, HookGone, HookIs
<1>12. ASSUME NEW t \in Tasks, HookKilled(t) PROVE OwnerInv'
  BY <1>12 DEF HookKilled, HookGone, HookIs
<1>13. ASSUME NEW t \in Tasks, HostStarts(t) PROVE OwnerInv'
  BY <1>13 DEF HostStarts
<1>14. ASSUME NEW t \in Tasks, HostExits(t) PROVE OwnerInv'
  BY <1>14 DEF HostExits
<1>15. ASSUME NEW t \in Tasks, NEW k \in {"startup", "resume", "prompt", "end"}, Event(t, k) PROVE OwnerInv'
  BY <1>15 DEF Event, HookIs
<1>16. ASSUME \/ UNCHANGED vars
     \/ (\E t \in Tasks : ApplyBegins(t)) \/ (\E t \in Tasks : RecoverBegins(t))
     \/ (\E t \in Tasks : FinishBegins(t)) \/ (\E t, o \in Tasks : Looks(t, o))
     \/ (\E t \in Tasks : Assesses(t)) \/ (\E t \in Tasks : Prepares(t))
     \/ (\E t \in Tasks : Claims(t)) \/ (\E t \in Tasks : Reassesses(t))
     \/ (\E t \in Tasks : WritesJournal(t)) \/ (\E t \in Tasks : Activates(t))
     \/ (\E t \in Tasks : WritesLock(t)) \/ (\E t \in Tasks : Marks(t))
     \/ (\E t \in Tasks : DoctorPasses(t)) \/ (\E t \in Tasks : StartsCommit(t))
     \/ (\E t \in Tasks : CommitReturns(t)) \/ (\E t \in Tasks : Verifies(t))
     \/ (\E t \in Tasks : Checks(t)) \/ (\E t \in Tasks : Fails(t))
     \/ (\E t \in Tasks : Adopts(t)) \/ (\E t \in Tasks : Judges(t))
     \/ (\E t \in Tasks : RestoresLock(t)) \/ (\E t \in Tasks : RestoresPointer(t))
     \/ (\E t \in Tasks : Confirms(t)) \/ (\E t \in Tasks : Revalidates(t))
     \/ (\E t \in Tasks : ReadsReceipt(t)) \/ (\E t \in Tasks : Unlinks(t))
     \/ (\E t \in Tasks : Killed(t)) \/ (\E r \in Readers : ReaderStarts(r))
     \/ (\E r \in Readers : ReaderEnters(r)) \/ (\E r \in Readers : ReaderEnds(r)) \/ GitEnds
     \/ OthersWrite
      PROVE  UNCHANGED <<host, hosts, receipts, draft, hook>>
  BY <1>16 DEF vars, ApplyBegins, CanRun, Holds, Others, RecoverBegins, FinishBegins, Looks,
      Gone, Assesses, Snapshot, Eligible, Prepares, Goes, Claims, Reassesses, WritesJournal,
      Activates, WritesLock, Journals, Marks, DoctorPasses, StartsCommit, CommitReturns,
      Verifies, Checks, Fails, Adopts, Judges, RestoresLock, Follows, RestoresPointer,
      Confirms, Revalidates, ReadsReceipt, Unlinks, Killed, ReaderStarts, ReaderEnters,
      Admitted, ReaderEnds, GitEnds, OthersWrite
<1>17. CASE UNCHANGED <<host, hosts, receipts, draft, hook>>
  BY <1>17
<1>. HIDE DEF Types, Shapes, Users, OwnerInv, CopyInv, AliveInv
<1>. QED
  BY <1>1, <1>2, <1>3, <1>4, <1>5, <1>6, <1>7, <1>8, <1>9, <1>10, <1>11, <1>12, <1>13,
      <1>14, <1>15, <1>16, <1>17 DEF Next, Begins, Continues, Hook

LEMMA CopyStep ==
  ASSUME TypeOK, LockInv, JournalInv, OwnerInv, CopyInv, [Next]_vars
  PROVE  CopyInv'
<1>1. ASSUME NEW o \in Tasks
      PROVE  hosts[o] \in Nat /\ hosts'[o] \in Nat /\ hosts[o] <= hosts'[o]
  <2>1. hosts'[o] = hosts[o] \/ hosts'[o] = hosts[o] + 1
    BY HostsStep, UsersFollow DEF Users, HostsMove, HostStarts
  <2>. QED
    BY <2>1, UsersFollow DEF Users
<1>2. ASSUME NEW o \in Tasks
      PROVE  /\ receipts[o].owner \in Nat /\ copy[o].owner \in Nat
             /\ receipts[o].owner <= hosts[o]
  BY ShapesFollow, OwnerFacts DEF Shapes, OwnerInv
<1>3. ASSUME NEW t \in Tasks, pc'[t] \in {"disown", "redisown"}
      PROVE  target'[t] \in Tasks /\ copy'[t].owner <= hosts'[target'[t]]
  <2>1. CASE \E o \in Tasks : Looks(t, o)
    <3>1. PICK o \in Tasks : Looks(t, o)
      BY <2>1
    <3>2. UNCHANGED hosts /\ target'[t] = o /\ copy'[t] = receipts[o]
      <4>1. pc[t] \in {"scan", "rescan"} /\ pc'[t] # "idle"
        BY <1>3, <3>1 DEF Looks
      <4>. QED
        BY <1>3, <3>1, <4>1, LookFacts
    <3>. QED
      BY <1>2, <3>2
  <2>2. CASE pc[t] = pc'[t] /\ target'[t] = target[t] /\ copy'[t] = copy[t]
    <3>1. target[t] \in Tasks /\ copy[t].owner <= hosts[target[t]]
      BY <1>3, <2>2 DEF CopyInv
    <3>. QED
      BY <1>1, <1>2, <2>2, <3>1
  <2>. QED
    BY <1>3, <2>1, <2>2, ArrivesStep DEF Arrives
<1>4. ASSUME NEW t \in Tasks, pc'[t] = "rewrite"
      PROVE  copy'[t].owner <= hosts'[journal'.task]
  <2>1. CASE ReadsReceipt(t)
    <3>1. journal.task \in Tasks
      BY <2>1, TypesFollow DEF Types, Journals, JournalInv, Journalling, Closing, Journalled, ReadsReceipt
    <3>2. copy' = [copy EXCEPT ![t] = receipts[journal.task]] /\ UNCHANGED <<hosts, journal>>
      BY <2>1 DEF ReadsReceipt, Elsewhere, hostVars, fileVars
    <3>3. copy'[t] = receipts[journal.task]
      BY <3>2, ShapesFollow DEF Shapes
    <3>. QED
      BY <1>2, <3>1, <3>2, <3>3
  <2>2. CASE pc[t] = "rewrite" /\ copy'[t] = copy[t]
    <3>1. journal.task \in Tasks
      BY <2>2, TypesFollow DEF Types, Journals, JournalInv, Journalling, Closing, Journalled
    <3>2. \A o \in Tasks : pc[o] # "idle" => o = t
      BY <2>2, CommandAlone
    <3>3. ~\E o \in Tasks : WritesJournal(o) \/ Unlinks(o)
      BY <2>2, <3>2 DEF WritesJournal, Unlinks
    <3>4. journal'.task = journal.task
      BY <3>3, ArrivesStep DEF Arrives
    <3>5. copy[t].owner <= hosts[journal.task]
      BY <2>2 DEF CopyInv
    <3>. QED
      BY <1>1, <1>2, <2>2, <3>1, <3>4, <3>5
  <2>. QED
    BY <1>4, <2>1, <2>2, ArrivesStep DEF Arrives
<1>5. ASSUME NEW t \in Tasks, pc'[t] = "release"
      PROVE  copy'[t].owner <= hosts'[t]
  <2>1. CASE FinishBegins(t)
    <3>1. copy' = [copy EXCEPT ![t] = receipts[t]] /\ UNCHANGED hosts
      BY <2>1 DEF FinishBegins, Elsewhere, hostVars
    <3>2. copy'[t] = receipts[t]
      BY <3>1, ShapesFollow DEF Shapes
    <3>. QED
      BY <1>2, <3>1, <3>2
  <2>2. CASE pc[t] = "release" /\ copy'[t] = copy[t]
    <3>1. copy[t].owner <= hosts[t]
      BY <2>2 DEF CopyInv
    <3>. QED
      BY <1>1, <1>2, <2>2, <3>1
  <2>. QED
    BY <1>5, <2>1, <2>2, ArrivesStep DEF Arrives
<1>. QED
  BY <1>3, <1>4, <1>5 DEF CopyInv

LEMMA FollowStep ==
  ASSUME TypeOK, LockInv, JournalInv, FollowInv, [Next]_vars
  PROVE  FollowInv'
<1>. USE TypesFollow, ShapesFollow, UsersFollow, UpdateAssumption
      DEF Types, Shapes, Users, LockInv, FollowInv, Agreeing, Follows,
      Assessing, Trying, Restoring,
      Closing, Elsewhere, fileVars, lockVars, commandVars, hookVars, hostVars, countVars
<1>1. ASSUME NEW t \in Tasks, ApplyBegins(t) PROVE FollowInv'
  BY <1>1 DEF ApplyBegins, CanRun, Holds, Others
<1>2. ASSUME NEW t \in Tasks, RecoverBegins(t) PROVE FollowInv'
  BY <1>2 DEF RecoverBegins, CanRun
<1>3. ASSUME NEW t \in Tasks, FinishBegins(t) PROVE FollowInv'
  BY <1>3 DEF FinishBegins, CanRun
<1>4. ASSUME NEW t \in Tasks, NEW o \in Tasks, Looks(t, o) PROVE FollowInv'
  BY <1>4 DEF Looks, Gone
<1>5. ASSUME NEW t \in Tasks, Disowns(t) PROVE FollowInv'
  BY <1>5 DEF Disowns
<1>6. ASSUME NEW t \in Tasks, Assesses(t) PROVE FollowInv'
  BY <1>6 DEF Assesses, Gone, Snapshot, Eligible
<1>7. ASSUME NEW t \in Tasks, Prepares(t) PROVE FollowInv'
  BY <1>7 DEF Prepares, Goes, Gone
<1>8. ASSUME NEW t \in Tasks, Claims(t) PROVE FollowInv'
  BY <1>8 DEF Claims, Gone, Others
<1>9. ASSUME NEW t \in Tasks, Reassesses(t) PROVE FollowInv'
  BY <1>9 DEF Reassesses, Gone, Snapshot
<1>10. ASSUME NEW t \in Tasks, WritesJournal(t) PROVE FollowInv'
  BY <1>10 DEF WritesJournal, Goes
<1>11. ASSUME NEW t \in Tasks, Activates(t) PROVE FollowInv'
  BY <1>11 DEF Activates, Goes
<1>12. ASSUME NEW t \in Tasks, WritesLock(t) PROVE FollowInv'
  BY <1>12 DEF WritesLock, Goes
<1>13. ASSUME NEW t \in Tasks, Marks(t) PROVE FollowInv'
  BY <1>13 DEF Journals, Marks, Goes
<1>14. ASSUME NEW t \in Tasks, DoctorPasses(t) PROVE FollowInv'
  BY <1>14 DEF DoctorPasses, Goes
<1>15. ASSUME NEW t \in Tasks, StartsCommit(t) PROVE FollowInv'
  BY <1>15 DEF StartsCommit, Goes
<1>16. ASSUME NEW t \in Tasks, CommitReturns(t) PROVE FollowInv'
  BY <1>16 DEF CommitReturns, Goes
<1>17. ASSUME NEW t \in Tasks, Verifies(t) PROVE FollowInv'
  BY <1>17 DEF Verifies, Goes
<1>18. ASSUME NEW t \in Tasks, Checks(t) PROVE FollowInv'
  <2>1. pc' = [pc EXCEPT ![t] = "receipt"] /\ answer' = [answer EXCEPT ![t] = "updated"]
    BY <1>18 DEF Checks
  <2>2. lockFile' = "new"
    BY <1>18 DEF JournalInv, Activated, Checks
  <2>. QED
    BY <2>1, <2>2, <1>18 DEF Checks
<1>19. ASSUME NEW t \in Tasks, Fails(t) PROVE FollowInv'
  BY <1>19 DEF Fails, Goes
<1>20. ASSUME NEW t \in Tasks, Adopts(t) PROVE FollowInv'
  BY <1>20 DEF Journals, Adopts, Goes, Gone
<1>21. ASSUME NEW t \in Tasks, Judges(t) PROVE FollowInv'
  BY <1>21 DEF Judges, Gone
<1>22. ASSUME NEW t \in Tasks, RestoresLock(t) PROVE FollowInv'
  BY <1>22 DEF RestoresLock, Goes, Follows
<1>23. ASSUME NEW t \in Tasks, RestoresPointer(t) PROVE FollowInv'
  <2>1. pc' = [pc EXCEPT ![t] = "confirm"] /\ UNCHANGED <<answer, lockFile>>
    BY <1>23 DEF RestoresPointer, Goes
  <2>2. lockFile = Follows(t)
    BY <1>23 DEF JournalInv, RestoresPointer
  <2>. QED
    BY <2>1, <2>2
<1>24. ASSUME NEW t \in Tasks, Confirms(t) PROVE FollowInv'
  BY <1>24 DEF Confirms, Goes, Gone
<1>25. ASSUME NEW t \in Tasks, Revalidates(t) PROVE FollowInv'
  BY <1>25 DEF Revalidates, Goes, Gone
<1>26. ASSUME NEW t \in Tasks, ReadsReceipt(t) PROVE FollowInv'
  BY <1>26 DEF ReadsReceipt
<1>27. ASSUME NEW t \in Tasks, RewritesReceipt(t) PROVE FollowInv'
  BY <1>27 DEF RewritesReceipt
<1>28. ASSUME NEW t \in Tasks, Unlinks(t) PROVE FollowInv'
  BY <1>28 DEF Unlinks, Gone
<1>29. ASSUME NEW t \in Tasks, Releases(t) PROVE FollowInv'
  BY <1>29 DEF Releases, Gone
<1>30. ASSUME NEW t \in Tasks, Killed(t) PROVE FollowInv'
  BY <1>30 DEF Killed, Gone
<1>31. ASSUME \/ UNCHANGED vars
     \/ (\E t \in Tasks : HookEnters(t)) \/ (\E t \in Tasks : HookRegisters(t))
     \/ (\E t \in Tasks : DiscoveryStarts(t)) \/ (\E t \in Tasks : DiscoveryEnds(t))
     \/ (\E t \in Tasks : HookPublishes(t)) \/ (\E t \in Tasks : HookRefused(t))
     \/ (\E t \in Tasks : EndReads(t)) \/ (\E t \in Tasks : EndCloses(t))
     \/ (\E t \in Tasks : HookKilled(t)) \/ (\E t \in Tasks : HostStarts(t))
     \/ (\E t \in Tasks : HostExits(t))
     \/ (\E t \in Tasks, k \in {"startup", "resume", "prompt", "end"} : Event(t, k))
     \/ (\E r \in Readers : ReaderStarts(r)) \/ (\E r \in Readers : ReaderEnters(r))
     \/ (\E r \in Readers : ReaderEnds(r)) \/ GitEnds \/ OthersWrite
      PROVE  UNCHANGED <<answer, lockFile, pc>>
  BY <1>31 DEF vars, HookEnters, HookIs, Admitted, HookRegisters, HookGone, Told,
      DiscoveryStarts, DiscoveryEnds, HookPublishes, HookRefused, EndReads, EndCloses,
      HookKilled, HostStarts, HostExits, Event, ReaderStarts, ReaderEnters, ReaderEnds,
      GitEnds, OthersWrite
<1>32. CASE UNCHANGED <<answer, lockFile, pc>>
  BY <1>32
<1>. HIDE DEF Types, Shapes, Users, LockInv, FollowInv
<1>. QED
  BY <1>1, <1>2, <1>3, <1>4, <1>5, <1>6, <1>7, <1>8, <1>9, <1>10, <1>11, <1>12, <1>13,
      <1>14, <1>15, <1>16, <1>17, <1>18, <1>19, <1>20, <1>21, <1>22, <1>23, <1>24, <1>25,
      <1>26, <1>27, <1>28, <1>29, <1>30, <1>31, <1>32 DEF Next, Begins, Continues, Hook

LEMMA UseStep ==
  ASSUME TypeOK, LockInv, JournalInv, UserInv, BasisInv, AliveInv, OwnerInv, CopyInv, FollowInv,
         UseInv, DisownInv, KeepInv, [Next]_vars
  PROVE  UseInv'
<1>. USE TypesFollow, ShapesFollow, UsersFollow, UpdateAssumption DEF Types, Shapes, Users, UseInv, Journalled, Journals, NoJournal,
      Assessing, Trying, Restoring,
      Closing, Elsewhere, fileVars, lockVars, commandVars, hookVars, hostVars, countVars
<1>1. ASSUME NEW t \in Tasks, Disowns(t) PROVE UseInv'
  <2>1. target[t] \in Tasks
    BY <1>1 DEF CopyInv, Disowns
  <2>2. uses[target[t]] # "old"
    BY <1>1, <2>1 DEF Disowns, DisownInv
  <2>3. /\ \A o \in Tasks \ {target[t]} : receipts'[o] = receipts[o]
        /\ UNCHANGED <<host, uses, journal, lockFile>>
    BY <1>1, <2>1 DEF Disowns
  <2>. QED
    BY <2>1, <2>2, <2>3
<1>2. ASSUME NEW t \in Tasks, WritesJournal(t) PROVE UseInv'
  <2>1. lockFile = "old"
    BY <1>2 DEF BasisInv, Unwritten, WritesJournal
  <2>2. UNCHANGED <<receipts, host, uses, lockFile>>
    BY <1>2 DEF WritesJournal, Goes
  <2>. QED
    BY <2>1, <2>2
<1>3. ASSUME NEW t \in Tasks, WritesLock(t) PROVE UseInv'
  BY <1>3 DEF WritesLock, Goes
<1>4. ASSUME NEW t \in Tasks, Marks(t) PROVE UseInv'
  BY <1>4 DEF Journals, Marks, Goes
<1>5. ASSUME NEW t \in Tasks, Adopts(t) PROVE UseInv'
  BY <1>5 DEF Journals, Adopts, Goes, Gone
<1>6. ASSUME NEW t \in Tasks, RestoresLock(t) PROVE UseInv'
  <2>1. Journalled
    BY <1>6 DEF JournalInv, Journalling, RestoresLock
  <2>2. UNCHANGED <<receipts, host, uses, journal>>
    BY <1>6 DEF RestoresLock, Goes
  <2>. QED
    BY <2>1, <2>2
<1>7. ASSUME NEW t \in Tasks, RewritesReceipt(t) PROVE UseInv'
  <2>1. journal.task \in Tasks
    BY <1>7 DEF JournalInv, Journalling, RewritesReceipt
  <2>2. /\ receipts' = [receipts EXCEPT ![journal.task] =
                          [copy[t] EXCEPT !.lock = lockFile, !.result = answer[t]]]
        /\ UNCHANGED <<host, uses, journal, lockFile>>
    BY <1>7 DEF RewritesReceipt
  <2>3. receipts'[journal.task].state = copy[t].state /\ receipts'[journal.task].owner = copy[t].owner
    BY <2>1, <2>2, OwnerFacts
  <2>4. \A o \in Tasks \ {journal.task} : receipts'[o] = receipts[o]
    BY <2>1, <2>2
  <2>5. uses[journal.task] = "old" => copy[t].state = "open" /\ copy[t].owner = host[journal.task]
    BY <1>7 DEF KeepInv, RewritesReceipt
  <2>. QED
    BY <2>1, <2>2, <2>3, <2>4, <2>5
<1>8. ASSUME NEW t \in Tasks, Unlinks(t) PROVE UseInv'
  <2>1. Journalled /\ ~Journalled'
    BY <1>8 DEF JournalInv, Journalling, Unlinks
  <2>2. UNCHANGED <<receipts, host, lockFile>>
    BY <1>8 DEF Unlinks
  <2>3. CASE mode[t] = "apply" /\ answer[t] = "updated"
    <3>1. lockFile = "new"
      BY <1>8, <2>3 DEF FollowInv, Agreeing, Follows, Unlinks
    <3>2. uses' = [uses EXCEPT ![t] = "new"]
      BY <1>8, <2>3, <3>1 DEF Unlinks
    <3>. QED
      BY <2>1, <2>2, <3>1, <3>2
  <2>4. CASE ~(mode[t] = "apply" /\ answer[t] = "updated")
    <3>1. uses' = uses
      BY <1>8, <2>4 DEF Unlinks
    <3>. QED
      BY <2>1, <2>2, <3>1
  <2>. QED
    BY <2>3, <2>4
<1>9. ASSUME NEW t \in Tasks, Releases(t) PROVE UseInv'
  BY <1>9 DEF Releases, Gone
<1>10. ASSUME NEW t \in Tasks, HookRegisters(t) PROVE UseInv'
  <2>1. ~Journalled
    BY <1>10 DEF BasisInv, UserInv, Inside, HookRegisters
  <2>2. receipts' = [receipts EXCEPT ![t] = Reservation(t)] /\ UNCHANGED <<host, journal, lockFile>>
    BY <1>10 DEF HookRegisters
  <2>3. \/ uses' = uses
        \/ uses' = [uses EXCEPT ![t] = "none"] \/ uses' = [uses EXCEPT ![t] = lockFile]
    BY <1>10 DEF HookRegisters, Told
  <2>4. receipts'[t].state = "open" /\ receipts'[t].owner = host[t]
    BY <2>2, ReservationOwner
  <2>5. \A o \in Tasks \ {t} : receipts'[o] = receipts[o] /\ uses'[o] = uses[o]
    BY <2>2, <2>3
  <2>. QED
    BY <2>1, <2>2, <2>3, <2>4, <2>5
<1>11. ASSUME NEW t \in Tasks, HookPublishes(t) PROVE UseInv'
  <2>1. ~Journalled
    BY <1>11 DEF BasisInv, UserInv, Inside, HookPublishes
  <2>2. receipts' = [receipts EXCEPT ![t] = draft[t]] /\ UNCHANGED <<host, journal, lockFile>>
    BY <1>11 DEF HookPublishes
  <2>3. uses' = [uses EXCEPT ![t] = "none"] \/ uses' = [uses EXCEPT ![t] = lockFile]
    BY <1>11 DEF HookPublishes, Told
  <2>4. draft[t].state = "open" /\ draft[t].owner = host[t]
    BY <1>11 DEF OwnerInv, HookPublishes
  <2>. QED
    BY <2>1, <2>2, <2>3, <2>4
<1>12. ASSUME NEW t \in Tasks, HookRefused(t) PROVE UseInv'
  BY <1>12 DEF HookRefused, HookGone, HookIs, Told
<1>13. ASSUME NEW t \in Tasks, EndCloses(t) PROVE UseInv'
  BY <1>13 DEF EndCloses, HookGone, HookIs
<1>14. ASSUME NEW t \in Tasks, HostStarts(t) PROVE UseInv'
  <2>1. uses[t] = "none"
    BY <1>14 DEF AliveInv, HostStarts
  <2>2. /\ \A o \in Tasks \ {t} : host'[o] = host[o]
        /\ UNCHANGED <<receipts, uses, journal, lockFile>>
    BY <1>14 DEF HostStarts
  <2>. QED
    BY <2>1, <2>2
<1>15. ASSUME NEW t \in Tasks, HostExits(t) PROVE UseInv'
  BY <1>15 DEF HostExits
<1>16. ASSUME \/ UNCHANGED vars
     \/ (\E t \in Tasks : ApplyBegins(t)) \/ (\E t \in Tasks : RecoverBegins(t))
     \/ (\E t \in Tasks : FinishBegins(t)) \/ (\E t, o \in Tasks : Looks(t, o))
     \/ (\E t \in Tasks : Assesses(t)) \/ (\E t \in Tasks : Prepares(t))
     \/ (\E t \in Tasks : Claims(t)) \/ (\E t \in Tasks : Reassesses(t))
     \/ (\E t \in Tasks : Activates(t)) \/ (\E t \in Tasks : DoctorPasses(t))
     \/ (\E t \in Tasks : StartsCommit(t)) \/ (\E t \in Tasks : CommitReturns(t))
     \/ (\E t \in Tasks : Verifies(t)) \/ (\E t \in Tasks : Checks(t))
     \/ (\E t \in Tasks : Fails(t)) \/ (\E t \in Tasks : Judges(t))
     \/ (\E t \in Tasks : RestoresPointer(t)) \/ (\E t \in Tasks : Confirms(t))
     \/ (\E t \in Tasks : Revalidates(t)) \/ (\E t \in Tasks : ReadsReceipt(t))
     \/ (\E t \in Tasks : Killed(t)) \/ (\E t \in Tasks : HookEnters(t))
     \/ (\E t \in Tasks : DiscoveryStarts(t)) \/ (\E t \in Tasks : DiscoveryEnds(t))
     \/ (\E t \in Tasks : EndReads(t)) \/ (\E t \in Tasks : HookKilled(t))
     \/ (\E t \in Tasks, k \in {"startup", "resume", "prompt", "end"} : Event(t, k))
     \/ (\E r \in Readers : ReaderStarts(r)) \/ (\E r \in Readers : ReaderEnters(r))
     \/ (\E r \in Readers : ReaderEnds(r)) \/ GitEnds \/ OthersWrite
      PROVE  UNCHANGED <<receipts, host, uses, journal, lockFile>>
  BY <1>16 DEF vars, ApplyBegins, CanRun, Holds, Others, RecoverBegins, FinishBegins, Looks,
      Gone, Assesses, Snapshot, Eligible, Prepares, Goes, Claims, Reassesses, Activates,
      DoctorPasses, StartsCommit, CommitReturns, Verifies, Checks, Fails, Judges,
      RestoresPointer, Follows, Confirms, Revalidates, ReadsReceipt, Killed, HookEnters,
      HookIs, Admitted, DiscoveryStarts, DiscoveryEnds, EndReads, HookKilled, HookGone,
      Event, ReaderStarts, ReaderEnters, ReaderEnds, GitEnds, OthersWrite
<1>17. CASE UNCHANGED <<receipts, host, uses, journal, lockFile>>
  BY <1>17
<1>. HIDE DEF Types, Shapes, Users, UseInv
<1>. QED
  BY <1>1, <1>2, <1>3, <1>4, <1>5, <1>6, <1>7, <1>8, <1>9, <1>10, <1>11, <1>12, <1>13,
      <1>14, <1>15, <1>16, <1>17 DEF Next, Begins, Continues, Hook

LEMMA UsesFallStep ==
  ASSUME TypeOK, LockInv, UserInv, BasisInv, exclusive # NoTask \/ Journalled, [Next]_vars
  PROVE  UsesFall
<1>. USE TypesFollow, ShapesFollow, UsersFollow, UpdateAssumption DEF Types, Shapes, Users, UsesFall,
      Elsewhere, fileVars, lockVars, commandVars,
      hookVars, hostVars, countVars
<1>1. ASSUME NEW t \in Tasks, Unlinks(t) PROVE UsesFall
  BY <1>1
<1>2. ASSUME NEW t \in Tasks, Releases(t) PROVE UsesFall
  BY <1>2 DEF Releases, Gone
<1>3. ASSUME NEW t \in Tasks, HookRegisters(t) PROVE UsesFall
  <2>1. t \in shared
    BY <1>3 DEF BasisInv, Inside, HookRegisters
  <2>2. ~Journalled /\ exclusive = NoTask
    BY <2>1 DEF UserInv, LockInv
  <2>. QED
    BY <2>2
<1>4. ASSUME NEW t \in Tasks, HookPublishes(t) PROVE UsesFall
  <2>1. t \in shared
    BY <1>4 DEF BasisInv, Inside, HookPublishes
  <2>2. ~Journalled /\ exclusive = NoTask
    BY <2>1 DEF UserInv, LockInv
  <2>. QED
    BY <2>2
<1>5. ASSUME NEW t \in Tasks, HookRefused(t) PROVE UsesFall
  BY <1>5 DEF HookRefused, HookGone, HookIs, Told
<1>6. ASSUME NEW t \in Tasks, EndCloses(t) PROVE UsesFall
  BY <1>6 DEF EndCloses, HookGone, HookIs
<1>7. ASSUME NEW t \in Tasks, HostExits(t) PROVE UsesFall
  BY <1>7 DEF HostExits
<1>8. ASSUME \/ UNCHANGED vars
     \/ (\E t \in Tasks : ApplyBegins(t)) \/ (\E t \in Tasks : RecoverBegins(t))
     \/ (\E t \in Tasks : FinishBegins(t)) \/ (\E t, o \in Tasks : Looks(t, o))
     \/ (\E t \in Tasks : Disowns(t)) \/ (\E t \in Tasks : Assesses(t))
     \/ (\E t \in Tasks : Prepares(t)) \/ (\E t \in Tasks : Claims(t))
     \/ (\E t \in Tasks : Reassesses(t)) \/ (\E t \in Tasks : WritesJournal(t))
     \/ (\E t \in Tasks : Activates(t)) \/ (\E t \in Tasks : WritesLock(t))
     \/ (\E t \in Tasks : Marks(t)) \/ (\E t \in Tasks : DoctorPasses(t))
     \/ (\E t \in Tasks : StartsCommit(t)) \/ (\E t \in Tasks : CommitReturns(t))
     \/ (\E t \in Tasks : Verifies(t)) \/ (\E t \in Tasks : Checks(t))
     \/ (\E t \in Tasks : Fails(t)) \/ (\E t \in Tasks : Adopts(t))
     \/ (\E t \in Tasks : Judges(t)) \/ (\E t \in Tasks : RestoresLock(t))
     \/ (\E t \in Tasks : RestoresPointer(t)) \/ (\E t \in Tasks : Confirms(t))
     \/ (\E t \in Tasks : Revalidates(t)) \/ (\E t \in Tasks : ReadsReceipt(t))
     \/ (\E t \in Tasks : RewritesReceipt(t)) \/ (\E t \in Tasks : Killed(t))
     \/ (\E t \in Tasks : HookEnters(t)) \/ (\E t \in Tasks : DiscoveryStarts(t))
     \/ (\E t \in Tasks : DiscoveryEnds(t)) \/ (\E t \in Tasks : EndReads(t))
     \/ (\E t \in Tasks : HookKilled(t)) \/ (\E t \in Tasks : HostStarts(t))
     \/ (\E t \in Tasks, k \in {"startup", "resume", "prompt", "end"} : Event(t, k))
     \/ (\E r \in Readers : ReaderStarts(r)) \/ (\E r \in Readers : ReaderEnters(r))
     \/ (\E r \in Readers : ReaderEnds(r)) \/ GitEnds \/ OthersWrite
      PROVE  UNCHANGED uses
  BY <1>8 DEF vars, ApplyBegins, CanRun, Holds, Others, RecoverBegins, FinishBegins, Looks,
      Gone, Disowns, Assesses, Snapshot, Eligible, Prepares, Goes, Claims, Reassesses,
      WritesJournal, Activates, WritesLock, Journals, Marks, DoctorPasses, StartsCommit,
      CommitReturns, Verifies, Checks, Fails, Adopts, Judges, RestoresLock, Follows,
      RestoresPointer, Confirms, Revalidates, ReadsReceipt, RewritesReceipt, Killed,
      HookEnters, HookIs, Admitted, DiscoveryStarts, DiscoveryEnds, EndReads, HookKilled,
      HookGone, HostStarts, Event, ReaderStarts, ReaderEnters, ReaderEnds, GitEnds,
      OthersWrite
<1>9. CASE UNCHANGED uses
  BY <1>9
<1>. HIDE DEF Types, Shapes, Users, UsesFall
<1>. QED
  BY <1>1, <1>2, <1>3, <1>4, <1>5, <1>6, <1>7, <1>8, <1>9 DEF Next, Begins, Continues, Hook

LEMMA KeepStep ==
  ASSUME TypeOK, LockInv, JournalInv, UserInv, BasisInv, AliveInv, UseInv, KeepInv, [Next]_vars
  PROVE  KeepInv'
<1>. SUFFICES ASSUME NEW t \in Tasks, pc'[t] = "rewrite", uses'[journal'.task] = "old"
              PROVE  copy'[t].state = "open" /\ copy'[t].owner = host'[journal'.task]
  BY DEF KeepInv
<1>1. CASE ReadsReceipt(t)
  <2>1. journal.task \in Tasks
    BY <1>1, TypesFollow DEF Types, Journals, JournalInv, Journalling, Closing, Journalled, ReadsReceipt
  <2>2. /\ copy' = [copy EXCEPT ![t] = receipts[journal.task]]
        /\ UNCHANGED <<uses, host, journal>>
    BY <1>1 DEF ReadsReceipt, Elsewhere, hostVars, fileVars
  <2>. QED
    BY <2>1, <2>2, ShapesFollow DEF Shapes, UseInv
<1>2. CASE pc[t] = "rewrite" /\ copy'[t] = copy[t]
  <2>1. Journalled /\ journal.task \in Tasks
    BY <1>2, TypesFollow DEF Types, Journals, JournalInv, Journalling, Closing, Journalled
  <2>2. \A o \in Tasks : pc[o] # "idle" => o = t
    BY <1>2, CommandAlone
  <2>3. ~\E o \in Tasks : WritesJournal(o) \/ Unlinks(o)
    BY <1>2, <2>2 DEF WritesJournal, Unlinks
  <2>4. journal'.task = journal.task
    BY <2>3, ArrivesStep DEF Arrives
  <2>5. uses[journal.task] = "old"
    BY <2>1, <2>3, <2>4, UsesFallStep DEF UsesFall
  <2>6. host'[journal.task] = host[journal.task]
    BY <2>1, <2>4, HostStep DEF HostMoves
  <2>. QED
    BY <1>2, <2>4, <2>5, <2>6 DEF KeepInv
<1>. QED
  BY <1>1, <1>2, ArrivesStep DEF Arrives

\* Whoever takes runtime-use.lock finds what tasks work with unchanged until it goes.
LEMMA UsesSettle ==
  ASSUME TypeOK, LockInv, UserInv, BasisInv, [Next]_vars, NEW t \in Tasks, pc[t] \in Owning,
         pc'[t] # "idle"
  PROVE  \A o \in Tasks : uses'[o] \in {uses[o], "none"}
<1>1. exclusive # NoTask
  BY UpdateAssumption DEF LockInv
<1>2. pc[t] # "idle"
  BY DEF Owning, Trying, Restoring, Closing
<1>3. ASSUME NEW u \in Tasks, Unlinks(u) PROVE FALSE
  <2>1. u = t
    BY <1>2, <1>3, CommandAlone DEF Unlinks
  <2>2. pc'[u] = "idle"
    BY <1>3, TypesFollow DEF Types, Unlinks, Gone
  <2>. QED
    BY <2>1, <2>2
<1>. QED
  BY <1>1, <1>3, UsesFallStep DEF UsesFall

LEMMA DisownStep ==
  ASSUME TypeOK, LockInv, UserInv, BasisInv, AliveInv, CopyInv, UseInv, DisownInv,
         [Next]_vars, [Undisturbed]_vars
  PROVE  DisownInv'
<1>1. ASSUME NEW t \in Tasks, pc'[t] = "disown"
      PROVE  /\ receipts'[target'[t]] = copy'[t]
             /\ copy'[t].owner # 0 /\ copy'[t].owner # host'[target'[t]]
  <2>1. CASE \E o \in Tasks : Looks(t, o)
    <3>1. PICK o \in Tasks : Looks(t, o)
      BY <2>1
    <3>2. /\ UNCHANGED <<receipts, host>> /\ OwnerGone(o, receipts[o])
          /\ target'[t] = o /\ copy'[t] = receipts[o]
      BY <1>1, <3>1, LookFacts
    <3>. QED
      BY <3>2 DEF OwnerGone
  <2>2. CASE pc[t] = "disown" /\ target'[t] = target[t] /\ copy'[t] = copy[t]
    <3>1. target[t] \in Tasks /\ copy[t].owner <= hosts[target[t]]
      BY <2>2 DEF CopyInv
    <3>2. copy[t].owner \in Nat /\ hosts[target[t]] \in Nat
      BY <3>1, ShapesFollow, UsersFollow, OwnerFacts DEF Shapes, Users
    <3>3. receipts'[target[t]] = receipts[target[t]]
      BY <1>1, <2>2 DEF Undisturbed, vars
    <3>4. host'[target[t]] \in {host[target[t]], 0, hosts[target[t]] + 1}
      BY <3>1, HostStep DEF HostMoves
    <3>5. /\ receipts[target[t]] = copy[t]
          /\ copy[t].owner # 0 /\ copy[t].owner # host[target[t]]
      BY <2>2 DEF DisownInv
    <3>6. copy[t].owner # hosts[target[t]] + 1
      BY <3>1, <3>2
    <3>. QED
      BY <2>2, <3>3, <3>4, <3>5, <3>6
  <2>. QED
    BY <1>1, <2>1, <2>2, ArrivesStep DEF Arrives
<1>2. ASSUME NEW t \in Tasks, pc'[t] = "redisown"
      PROVE  uses'[target'[t]] = "none"
  <2>1. CASE \E o \in Tasks : Looks(t, o)
    <3>1. PICK o \in Tasks : Looks(t, o)
      BY <2>1
    <3>2. /\ UNCHANGED uses /\ OwnerGone(o, receipts[o]) /\ target'[t] = o /\ pc[t] = "rescan"
      BY <1>2, <3>1, LookFacts
    <3>3. lockFile = "old"
      BY <3>2 DEF BasisInv, Unwritten, Assessing
    <3>4. uses[o] # "old" /\ uses[o] # "new"
      BY <3>2, <3>3 DEF UseInv, OwnerGone
    <3>. QED
      BY <3>2, <3>4, UsersFollow DEF Users, Versions
  <2>2. CASE pc[t] = "redisown" /\ target'[t] = target[t]
    <3>1. target[t] \in Tasks
      BY <2>2 DEF CopyInv
    <3>2. uses'[target[t]] \in {uses[target[t]], "none"}
      BY <1>2, <2>2, <3>1, UsesSettle DEF Owning
    <3>. QED
      BY <2>2, <3>2 DEF DisownInv
  <2>. QED
    BY <1>2, <2>1, <2>2, ArrivesStep DEF Arrives
<1>. HIDE DEF DisownInv
<1>. QED
  BY <1>1, <1>2 DEF DisownInv

\* At the points of an update that has not begun, who works with nothing old works
\* with nothing.
LEMMA UsesNothing ==
  ASSUME TypeOK, BasisInv, UseInv, NEW t \in Tasks, pc[t] \in Unwritten,
         NEW o \in Tasks, receipts[o].state # "open"
  PROVE  uses[o] = "none"
<1>1. lockFile = "old"
  BY DEF BasisInv
<1>2. uses[o] # "old" /\ uses[o] # "new"
  BY <1>1 DEF UseInv
<1>. QED
  BY <1>2, UsersFollow DEF Users, Versions

LEMMA ClearStep ==
  ASSUME TypeOK, LockInv, JournalInv, UserInv, BasisInv, CopyInv, UseInv, DisownInv, ClearInv,
         [Next]_vars
  PROVE  ClearInv'
<1>1. ASSUME NEW t \in Tasks, NEW o \in Tasks, pc'[t] \in {"rescan", "redisown"}, o # t,
             o \notin left'[t]
      PROVE  uses'[o] = "none"
  <2>. USE DEF Owning, Unwritten, Assessing
  <2>1. CASE pc[t] \in {"rescan", "redisown"} /\ left'[t] = left[t]
    <3>1. uses'[o] \in {uses[o], "none"}
      BY <1>1, <2>1, UsesSettle
    <3>. QED
      BY <1>1, <2>1, <3>1 DEF ClearInv
  <2>2. CASE \E p \in Tasks : Looks(t, p)
    <3>1. PICK p \in Tasks : Looks(t, p)
      BY <2>2
    <3>2. UNCHANGED uses /\ pc[t] = "rescan"
      BY <1>1, <3>1, LookFacts
    <3>3. CASE o \notin left[t]
      BY <1>1, <3>2, <3>3 DEF ClearInv
    <3>4. CASE o \in left[t]
      <4>1. receipts[p].state = "closed" /\ left' = [left EXCEPT ![t] = @ \ {p}]
        BY <1>1, <3>1, <3>4, LookFacts
      <4>2. o = p
        BY <1>1, <3>4, <4>1, UsersFollow DEF Users
      <4>. QED
        BY <3>2, <4>1, <4>2, UsesNothing
    <3>. QED
      BY <3>3, <3>4
  <2>3. CASE Disowns(t)
    <3>1. /\ pc[t] = "redisown" /\ left' = [left EXCEPT ![t] = @ \ {target[t]}]
          /\ UNCHANGED uses
      BY <1>1, <2>3, TypesFollow DEF Types, Disowns, Elsewhere
    <3>2. o \notin left[t] \/ o = target[t]
      BY <1>1, <3>1, UsersFollow DEF Users
    <3>. QED
      BY <1>1, <3>1, <3>2 DEF ClearInv, DisownInv
  <2>4. CASE Claims(t)
    <3>1. ~Gone(t)
      BY <1>1, TypesFollow DEF Types, Gone
    <3>2. pc[t] = "claim" /\ left' = [left EXCEPT ![t] = Others(t)] /\ UNCHANGED uses
      BY <2>4, <3>1 DEF Claims, Elsewhere
    <3>3. receipts[o].state = "none"
      BY <1>1, <3>2, UsersFollow DEF Users, Others
    <3>. QED
      BY <3>2, <3>3, UsesNothing
  <2>. QED
    BY <1>1, <2>1, <2>2, <2>3, <2>4, ArrivesStep DEF Arrives
<1>2. ASSUME NEW t \in Tasks, NEW o \in Tasks, pc'[t] = "journal", o # t
      PROVE  uses'[o] = "none"
  <2>1. CASE pc[t] = "journal"
    <3>1. uses'[o] \in {uses[o], "none"}
      BY <1>2, <2>1, UsesSettle DEF Owning
    <3>. QED
      BY <1>2, <2>1, <3>1 DEF ClearInv
  <2>2. CASE Reassesses(t)
    BY <1>2, <2>2 DEF ClearInv, Reassesses, Elsewhere
  <2>. QED
    BY <1>2, <2>1, <2>2, ArrivesStep DEF Arrives
<1>3. ASSUME Journalled', NEW o \in Tasks, o # journal'.task
      PROVE  uses'[o] = "none"
  <2>1. CASE \E t \in Tasks : WritesJournal(t)
    <3>1. PICK t \in Tasks : WritesJournal(t)
      BY <2>1
    <3>2. pc[t] = "journal" /\ journal'.task = t /\ UNCHANGED uses
      BY <3>1 DEF WritesJournal, Elsewhere
    <3>. QED
      BY <1>3, <3>2 DEF ClearInv
  <2>2. ASSUME NEW t \in Tasks, Unlinks(t) PROVE FALSE
    BY <1>3, <2>2 DEF Unlinks, Journalled, NoJournal
  <2>3. CASE journal'.task = journal.task
    <3>1. Journalled
      BY <1>3, <2>3 DEF Journalled
    <3>2. uses'[o] \in {uses[o], "none"}
      BY <2>2, <3>1, UsesFallStep DEF UsesFall
    <3>. QED
      BY <1>3, <2>3, <3>1, <3>2 DEF ClearInv
  <2>. QED
    BY <2>1, <2>2, <2>3, ArrivesStep DEF Arrives
<1>. QED
  BY <1>1, <1>2, <1>3 DEF ClearInv

-----------------------------------------------------------------------------
(* The theorems about reservations *)

\* What holds whatever tasks, hosts and commands do, and what holds as long as no
\* receipt changes under the command that closes it.
BaseInv == IInv /\ OfferInv /\ BasisInv /\ AliveInv /\ OwnerInv /\ CopyInv /\ FollowInv
ReserveInv == UseInv /\ DisownInv /\ KeepInv /\ ClearInv

LEMMA BaseInvariant == Spec => []BaseInv
<1>1. Init => OfferInv /\ BasisInv
  BY AgreeInit DEF AgreeInv
<1>2. Init => AliveInv /\ OwnerInv /\ CopyInv /\ FollowInv
  BY DEF Init, AliveInv, OwnerInv, CopyInv, FollowInv, NoReceipt, Agreeing, Closing
<1>3. IInv /\ OfferInv /\ BasisInv /\ AliveInv /\ OwnerInv /\ CopyInv /\ FollowInv /\ [Next]_vars =>
        (OfferInv /\ BasisInv /\ AliveInv /\ OwnerInv /\ CopyInv /\ FollowInv)'
  BY OfferStep, BasisStep, AliveStep, OwnerStep, CopyStep, FollowStep DEF IInv
<1>. QED
  BY <1>1, <1>2, <1>3, Invariant, PTL DEF Spec, BaseInv

LEMMA ReserveInit == Init => ReserveInv
BY DEF Init, ReserveInv, UseInv, DisownInv, KeepInv, ClearInv, Journalled, NoJournal

LEMMA ReserveStep == BaseInv /\ ReserveInv /\ [Next]_vars /\ [Undisturbed]_vars => ReserveInv'
BY UseStep, DisownStep, KeepStep, ClearStep DEF BaseInv, ReserveInv, IInv

Keeping == \A t \in Tasks : pointer' # pointer /\ uses[t] # "none" => journal.task = t

\* The pointer moves under a journal only, and then nobody else works.
LEMMA PointerKept ==
  ASSUME BaseInv, ClearInv, [Next]_vars
  PROVE  Keeping
<1>1. ASSUME NEW t \in Tasks, Activates(t) \/ RestoresPointer(t) PROVE Journalled
  BY <1>1 DEF BaseInv, IInv, JournalInv, Journalling, Trying, Restoring, Activates, RestoresPointer
<1>2. pointer' # pointer => Journalled
  BY <1>1, PointerStep DEF PointerMoves, BaseInv, IInv
<1>. QED
  BY <1>2 DEF Keeping, ClearInv

\* The runtime under a task that has been told to work with it is not replaced by
\* another task's update, with any number of tasks, hosts, crashes and foreign changes
\* and with turns that overlap, as long as no receipt changes between the reading and
\* the closing of it in other_tasks: the unlocked rewriting of a receipt is all that
\* can take a reservation away.
THEOREM ReservationsKept ==
  Spec /\ [][Undisturbed]_vars => ReservationKept
<1>1. BaseInv /\ ReserveInv /\ [Next]_vars => [Keeping]_vars
  BY PointerKept DEF ReserveInv
<1>. QED
  BY <1>1, BaseInvariant, ReserveInit, ReserveStep, PTL DEF Spec, ReservationKept, Keeping

\* With one host per task nobody comes back, so nothing disturbs the closing.
DeadInv ==
  \A t \in Tasks :
    /\ hosts[t] <= 1
    /\ pc[t] = "disown" => host[target[t]] = 0 /\ hosts[target[t]] = 1

LEMMA DeadStep ==
  ASSUME MaxHosts <= 1, TypeOK, AliveInv, OwnerInv, CopyInv, DeadInv, [Next]_vars
  PROVE  DeadInv'
<1>1. ASSUME NEW o \in Tasks, HostStarts(o) PROVE hosts[o] = 0 /\ hosts'[o] = 1
  <2>1. hosts[o] < MaxHosts /\ hosts'[o] = hosts[o] + 1
    BY <1>1, UsersFollow DEF Users, HostStarts
  <2>. QED
    BY <2>1, UsersFollow, UpdateAssumption DEF Users
<1>2. ASSUME NEW t \in Tasks PROVE hosts'[t] <= 1
  BY <1>1, HostsStep DEF HostsMove, DeadInv
<1>3. ASSUME NEW t \in Tasks, pc'[t] = "disown"
      PROVE  host'[target'[t]] = 0 /\ hosts'[target'[t]] = 1
  <2>1. CASE \E o \in Tasks : Looks(t, o)
    <3>1. PICK o \in Tasks : Looks(t, o)
      BY <2>1
    <3>2. UNCHANGED <<host, hosts>> /\ OwnerGone(o, receipts[o]) /\ target'[t] = o
      BY <1>3, <3>1, LookFacts
    <3>3. receipts[o].owner \in Nat /\ hosts[o] \in Nat
      BY ShapesFollow, UsersFollow, OwnerFacts DEF Shapes, Users
    <3>4. hosts[o] <= 1 /\ receipts[o].owner <= hosts[o] /\ host[o] \in {0, hosts[o]}
      BY DEF DeadInv, OwnerInv, AliveInv
    <3>. QED
      BY <3>2, <3>3, <3>4 DEF OwnerGone
  <2>2. CASE pc[t] = "disown" /\ target'[t] = target[t]
    <3>1. target[t] \in Tasks /\ host[target[t]] = 0 /\ hosts[target[t]] = 1
      BY <2>2 DEF CopyInv, DeadInv
    <3>. QED
      BY <1>1, <2>2, <3>1, HostsStep DEF HostsMove
  <2>. QED
    BY <1>3, <2>1, <2>2, ArrivesStep DEF Arrives
<1>. QED
  BY <1>2, <1>3 DEF DeadInv

LEMMA UndisturbedStep ==
  ASSUME TypeOK, LockInv, AliveInv, CopyInv, DeadInv, [Next]_vars
  PROVE  Undisturbed
<1>. USE TypesFollow, ShapesFollow, UsersFollow, UpdateAssumption DEF Types, Shapes, Users,
      Elsewhere, fileVars, lockVars, commandVars,
      hookVars, hostVars, countVars
<1>1. ASSUME NEW t \in Tasks, Disowns(t) PROVE Undisturbed
  <2>1. ASSUME NEW o \in Tasks, pc[o] = "disown", pc'[o] = "disown" PROVE FALSE
    <3>1. o = t
      BY <1>1, <2>1, CommandAlone DEF Disowns
    <3>. QED
      BY <1>1, <2>1, <3>1 DEF Disowns, Gone
  <2>. QED
    BY <2>1 DEF Undisturbed
<1>2. ASSUME NEW t \in Tasks, RewritesReceipt(t) PROVE Undisturbed
  <2>1. ASSUME NEW o \in Tasks, pc[o] = "disown", pc'[o] = "disown" PROVE FALSE
    <3>1. o = t
      BY <1>2, <2>1, CommandAlone DEF RewritesReceipt
    <3>. QED
      BY <1>2, <2>1, <3>1 DEF RewritesReceipt, Gone
  <2>. QED
    BY <2>1 DEF Undisturbed
<1>3. ASSUME NEW t \in Tasks, Releases(t) PROVE Undisturbed
  <2>1. ASSUME NEW o \in Tasks, pc[o] = "disown", pc'[o] = "disown" PROVE FALSE
    <3>1. o = t
      BY <1>3, <2>1, CommandAlone DEF Releases
    <3>. QED
      BY <1>3, <2>1, <3>1 DEF Releases, Gone
  <2>. QED
    BY <2>1 DEF Undisturbed
<1>4. ASSUME NEW t \in Tasks, HookRegisters(t) PROVE Undisturbed
  <2>1. \A o \in Tasks \ {t} : receipts'[o] = receipts[o]
    BY <1>4 DEF HookRegisters
  <2>2. \A o \in Tasks : pc[o] = "disown" => target[o] \in Tasks \ {t}
    BY <1>4 DEF HookRegisters, AliveInv, CopyInv, DeadInv
  <2>. QED
    BY <2>1, <2>2 DEF Undisturbed
<1>5. ASSUME NEW t \in Tasks, HookPublishes(t) PROVE Undisturbed
  <2>1. \A o \in Tasks \ {t} : receipts'[o] = receipts[o]
    BY <1>5 DEF HookPublishes
  <2>2. \A o \in Tasks : pc[o] = "disown" => target[o] \in Tasks \ {t}
    BY <1>5 DEF HookPublishes, AliveInv, CopyInv, DeadInv
  <2>. QED
    BY <2>1, <2>2 DEF Undisturbed
<1>6. ASSUME NEW t \in Tasks, HookRefused(t) PROVE Undisturbed
  <2>1. \A o \in Tasks \ {t} : receipts'[o] = receipts[o]
    BY <1>6 DEF HookRefused
  <2>2. \A o \in Tasks : pc[o] = "disown" => target[o] \in Tasks \ {t}
    BY <1>6 DEF HookRefused, AliveInv, CopyInv, DeadInv
  <2>. QED
    BY <2>1, <2>2 DEF Undisturbed
<1>7. ASSUME NEW t \in Tasks, EndCloses(t) PROVE Undisturbed
  <2>1. \A o \in Tasks \ {t} : receipts'[o] = receipts[o]
    BY <1>7 DEF EndCloses
  <2>2. \A o \in Tasks : pc[o] = "disown" => target[o] \in Tasks \ {t}
    BY <1>7 DEF EndCloses, AliveInv, CopyInv, DeadInv
  <2>. QED
    BY <2>1, <2>2 DEF Undisturbed
<1>8. ASSUME \/ UNCHANGED vars
     \/ (\E t \in Tasks : ApplyBegins(t)) \/ (\E t \in Tasks : RecoverBegins(t))
     \/ (\E t \in Tasks : FinishBegins(t)) \/ (\E t, o \in Tasks : Looks(t, o))
     \/ (\E t \in Tasks : Assesses(t)) \/ (\E t \in Tasks : Prepares(t))
     \/ (\E t \in Tasks : Claims(t)) \/ (\E t \in Tasks : Reassesses(t))
     \/ (\E t \in Tasks : WritesJournal(t)) \/ (\E t \in Tasks : Activates(t))
     \/ (\E t \in Tasks : WritesLock(t)) \/ (\E t \in Tasks : Marks(t))
     \/ (\E t \in Tasks : DoctorPasses(t)) \/ (\E t \in Tasks : StartsCommit(t))
     \/ (\E t \in Tasks : CommitReturns(t)) \/ (\E t \in Tasks : Verifies(t))
     \/ (\E t \in Tasks : Checks(t)) \/ (\E t \in Tasks : Fails(t))
     \/ (\E t \in Tasks : Adopts(t)) \/ (\E t \in Tasks : Judges(t))
     \/ (\E t \in Tasks : RestoresLock(t)) \/ (\E t \in Tasks : RestoresPointer(t))
     \/ (\E t \in Tasks : Confirms(t)) \/ (\E t \in Tasks : Revalidates(t))
     \/ (\E t \in Tasks : ReadsReceipt(t)) \/ (\E t \in Tasks : Unlinks(t))
     \/ (\E t \in Tasks : Killed(t)) \/ (\E t \in Tasks : HookEnters(t))
     \/ (\E t \in Tasks : DiscoveryStarts(t)) \/ (\E t \in Tasks : DiscoveryEnds(t))
     \/ (\E t \in Tasks : EndReads(t)) \/ (\E t \in Tasks : HookKilled(t))
     \/ (\E t \in Tasks : HostStarts(t)) \/ (\E t \in Tasks : HostExits(t))
     \/ (\E t \in Tasks, k \in {"startup", "resume", "prompt", "end"} : Event(t, k))
     \/ (\E r \in Readers : ReaderStarts(r)) \/ (\E r \in Readers : ReaderEnters(r))
     \/ (\E r \in Readers : ReaderEnds(r)) \/ GitEnds \/ OthersWrite
      PROVE  UNCHANGED receipts
  BY <1>8 DEF vars, ApplyBegins, CanRun, Holds, Others, RecoverBegins, FinishBegins, Looks,
      Gone, Assesses, Snapshot, Eligible, Prepares, Goes, Claims, Reassesses, WritesJournal,
      Activates, WritesLock, Journals, Marks, DoctorPasses, StartsCommit, CommitReturns,
      Verifies, Checks, Fails, Adopts, Judges, RestoresLock, Follows, RestoresPointer,
      Confirms, Revalidates, ReadsReceipt, Unlinks, Killed, HookEnters, HookIs, Admitted,
      DiscoveryStarts, DiscoveryEnds, EndReads, HookKilled, HookGone, HostStarts, HostExits,
      Event, ReaderStarts, ReaderEnters, ReaderEnds, GitEnds, OthersWrite
<1>9. CASE UNCHANGED receipts
  BY <1>9 DEF Undisturbed
<1>. HIDE DEF Types, Shapes, Users
<1>. QED
  BY <1>1, <1>2, <1>3, <1>4, <1>5, <1>6, <1>7, <1>8, <1>9 DEF Next, Begins, Continues, Hook

\* So the runtime under a task that works with it is never replaced by another task's
\* update when closed hosts do not come back: the instance RuntimeUpdatesPair checks,
\* for any number of tasks, crashes and foreign changes.
THEOREM ReservationsKeptOnce ==
  ASSUME MaxHosts <= 1
  PROVE  Spec => ReservationKept
<1>1. Init => DeadInv
  <2>1. ASSUME Init, NEW t \in Tasks PROVE hosts[t] <= 1 /\ pc[t] # "disown"
    <3>1. hosts[t] = 0 /\ pc[t] = "idle"
      BY <2>1 DEF Init
    <3>. QED
      BY <3>1
  <2>. QED
    BY <2>1 DEF DeadInv
<1>2. BaseInv /\ DeadInv /\ [Next]_vars => DeadInv'
  BY DeadStep, MaxHosts <= 1 DEF BaseInv, IInv
<1>3. BaseInv /\ DeadInv /\ [Next]_vars => [Undisturbed]_vars
  BY UndisturbedStep DEF BaseInv, IInv
<1>. QED
  BY <1>1, <1>2, <1>3, BaseInvariant, ReservationsKept, PTL DEF Spec
=============================================================================
