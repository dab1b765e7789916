------------------------ MODULE PackExecution_proofs ------------------------
(***************************************************************************)
(* Proofs about PackExecution, for any packs, requests, results and number *)
(* of runs.                                                                *)
(***************************************************************************)
EXTENDS PackExecution, FiniteSetTheorems, SequenceTheorems, WellFoundedInduction, TLAPS

Places == {"asked", "binding", "planned", "marking", "looking", "sweeping", "opened", "packs", "command",
           "running", "inspect", "closing", "over", "killed"}

OnRuns(f) == f = [r \in Runs |-> f[r]]

-----------------------------------------------------------------------------
(* The evidence directories. *)

TreeTypes ==
  /\ at \in [Runs -> Places] /\ OnRuns(verdict) /\ OnRuns(left)
  /\ lock \in Runs \cup {NoRun} /\ dirs \subseteq Runs /\ active \subseteq Runs
  /\ victims \in [Runs -> SUBSET Runs] /\ manifests \in [Runs -> [Ids -> ManifestKinds]]

Waits(r) == at[r] \in {"asked", "binding", "planned"}
InPacks(r) == at[r] \in {"packs", "command", "running", "inspect"}

\* Before it claims its directory a run has nothing on disk and no verdict.
WaitingOf(r) ==
  Waits(r) => r \notin dirs /\ r \notin active /\ verdict[r] = NoVerdict /\ \A d \in packDirs : d[1] # r

\* Whoever opens or sweeps holds the lock; a run that opens has its marker, one that
\* closes has taken it away.
SweepOf(r) ==
  /\ at[r] = "marking" => lock = r /\ verdict[r] = NoVerdict
  /\ at[r] \in {"looking", "sweeping"} => lock = r /\ (verdict[r] = NoVerdict <=> r \in active)
  /\ at[r] = "sweeping" =>
       victims[r] \cap active = {} /\ (verdict[r] # NoVerdict /\ r \in dirs => r \in victims[r])

\* A run's marker is there from its opening to its closing.
MarkerOf(r) ==
  /\ at[r] = "opened" => r \in active /\ verdict[r] = NoVerdict
  /\ InPacks(r) => r \in active /\ verdict[r].status # "none"
  /\ at[r] = "closing" => verdict[r].status # "none"

HomeOf(r) ==
  /\ at[r] = "marking" => r \in dirs
  /\ InPack(r) => r \in dirs /\ Here(r) \in packDirs
  /\ \A d \in packDirs : d[1] = r => r \in dirs

KeptOf(r) ==
  /\ \A p \in Ids : manifests[r][p] # "absent" => r \in dirs /\ <<r, p>> \in packDirs
  /\ at[r] = "over" =>
       /\ r \in dirs => \E d \in packDirs : d[1] = r
       /\ \A d \in packDirs : d[1] = r => manifests[r][d[2]] # "absent"

Of(r) == WaitingOf(r) /\ SweepOf(r) /\ MarkerOf(r) /\ HomeOf(r) /\ KeptOf(r)

EvidenceInv == TreeTypes /\ \A r \in Runs : Of(r)

-----------------------------------------------------------------------------
\* A step of r leaves what other runs have on disk, and their progress, as it is.
Local(r) ==
  /\ packs' = packs
  /\ \A q \in Runs \ {r} :
       /\ at'[q] = at[q] /\ verdict'[q] = verdict[q] /\ left'[q] = left[q]
       /\ victims'[q] = victims[q] /\ manifests'[q] = manifests[q]
       /\ q \in dirs' <=> q \in dirs
       /\ q \in active' <=> q \in active
       /\ lock = q => lock' = q /\ active' = active
  /\ \A d \in packDirs \cup packDirs' : d[1] # r => (d \in packDirs <=> d \in packDirs')

\* Such a step keeps the invariant if it keeps r's part of it.
LEMMA OthersKept ==
  ASSUME NEW r \in Runs, EvidenceInv, Local(r), TreeTypes', Of(r)'
  PROVE  EvidenceInv'
<1>1. SUFFICES ASSUME NEW q \in Runs, q # r PROVE Of(q)'
  BY DEF EvidenceInv
<1>2. /\ at'[q] = at[q] /\ verdict'[q] = verdict[q] /\ left'[q] = left[q]
      /\ victims'[q] = victims[q] /\ manifests'[q] = manifests[q]
      /\ q \in dirs' <=> q \in dirs
      /\ q \in active' <=> q \in active
      /\ lock = q => lock' = q /\ active' = active
  BY <1>1 DEF Local
<1>3. \A d \in packDirs \cup packDirs' : d[1] = q => (d \in packDirs <=> d \in packDirs')
  BY <1>1 DEF Local
<1>4. Ids' = Ids
  BY DEF Local, Ids
<1>5. Of(q)
  BY DEF EvidenceInv
<1>6. WaitingOf(q)'
  BY <1>2, <1>3, <1>5 DEF Of, WaitingOf, Waits, NoVerdict
<1>7. SweepOf(q)'
  BY <1>2, <1>5 DEF Of, SweepOf, NoVerdict
<1>8. MarkerOf(q)'
  BY <1>2, <1>5 DEF Of, MarkerOf, InPacks, NoVerdict
<1>9. HomeOf(q)'
  <2>1. Here(q)' = Here(q) /\ Here(q)[1] = q
    BY <1>2 DEF Here
  <2>2. Here(q) \in packDirs => Here(q) \in packDirs'
    BY <1>3, <2>1
  <2>3. HomeOf(q)
    BY <1>5 DEF Of
  <2>4. QED
    BY <1>2, <1>3, <2>1, <2>2, <2>3 DEF HomeOf, InPack
<1>10. KeptOf(q)'
  <2>1. \A p : <<q, p>>[1] = q
    OBVIOUS
  <2>2. KeptOf(q)
    BY <1>5 DEF Of
  <2>3. \A p \in Ids : manifests'[q][p] # "absent" => q \in dirs' /\ <<q, p>> \in packDirs'
    BY <1>2, <1>3, <2>1, <2>2 DEF KeptOf
  <2>4. QED
    BY <1>2, <1>3, <1>4, <2>2, <2>3 DEF KeptOf
<1>11. QED
  BY <1>6, <1>7, <1>8, <1>9, <1>10 DEF Of

\* The moves of a run between its opening and its closing, and before.
Moves(r) ==
  \/ Waits(r) /\ Waits(r)' /\ verdict'[r] = verdict[r]
  \/ Waits(r) /\ at'[r] = "over"
  \/ at[r] = "opened" /\ at'[r] \in {"packs", "closing"} /\ verdict'[r].status # "none"
  \/ /\ InPacks(r) /\ at'[r] \in {"packs", "command", "running", "inspect", "closing"}
     /\ verdict'[r].status # "none"
     /\ InPack(r)' => InPack(r) /\ left'[r] = left[r]

Quiet(r) ==
  /\ UNCHANGED <<packs, treeVars, victims>>
  /\ at'[r] \in Places /\ at' = [at EXCEPT ![r] = at'[r]]
  /\ verdict' = [verdict EXCEPT ![r] = verdict'[r]]
  /\ left' = [left EXCEPT ![r] = left'[r]]
  /\ Moves(r)

LEMMA QuietKeeps ==
  ASSUME NEW r \in Runs, EvidenceInv, Quiet(r)
  PROVE  EvidenceInv'
<1>1. /\ packs' = packs /\ lock' = lock /\ dirs' = dirs /\ active' = active /\ packDirs' = packDirs
      /\ manifests' = manifests /\ victims' = victims
  BY DEF Quiet, treeVars
<1>2. at \in [Runs -> Places] /\ OnRuns(verdict) /\ OnRuns(left)
  BY DEF EvidenceInv, TreeTypes
<1>3. at' \in [Runs -> Places] /\ \A q \in Runs \ {r} : at'[q] = at[q]
  BY <1>2 DEF Quiet
<1>4. OnRuns(verdict)' /\ \A q \in Runs \ {r} : verdict'[q] = verdict[q]
  BY <1>2 DEF Quiet, OnRuns
<1>5. OnRuns(left)' /\ \A q \in Runs \ {r} : left'[q] = left[q]
  BY <1>2 DEF Quiet, OnRuns
<1>6. TreeTypes'
  BY <1>1, <1>3, <1>4, <1>5 DEF EvidenceInv, TreeTypes, Ids
<1>7. Local(r)
  BY <1>1, <1>3, <1>4, <1>5 DEF Local
<1>8. Of(r)
  BY DEF EvidenceInv
<1>9. Of(r)'
  <2>1. CASE Waits(r) /\ Waits(r)' /\ verdict'[r] = verdict[r]
    <3>1. WaitingOf(r)'
      BY <1>1, <1>8, <2>1 DEF Of, WaitingOf, NoVerdict
    <3>2. KeptOf(r)'
      BY <1>1, <1>8, <2>1 DEF Of, KeptOf, Waits, Ids
    <3>3. QED
      BY <1>1, <1>8, <2>1, <3>1, <3>2 DEF Of, SweepOf, MarkerOf, HomeOf, Waits, InPacks, InPack
  <2>2. CASE Waits(r) /\ at'[r] = "over"
    <3>1. KeptOf(r)'
      BY <1>1, <1>8, <2>2 DEF Of, KeptOf, WaitingOf, Waits, Ids
    <3>2. QED
      BY <1>1, <1>8, <2>2, <3>1 DEF Of, WaitingOf, SweepOf, MarkerOf, HomeOf, Waits, InPacks, InPack
  <2>3. CASE at[r] = "opened" /\ at'[r] \in {"packs", "closing"} /\ verdict'[r].status # "none"
    <3>1. KeptOf(r)'
      BY <1>1, <1>8, <2>3 DEF Of, KeptOf, Ids
    <3>2. MarkerOf(r)'
      BY <1>1, <1>8, <2>3 DEF Of, MarkerOf, InPacks
    <3>3. QED
      BY <1>1, <1>8, <2>3, <3>1, <3>2 DEF Of, WaitingOf, SweepOf, HomeOf, Waits, InPacks, InPack
  <2>4. CASE /\ InPacks(r) /\ at'[r] \in {"packs", "command", "running", "inspect", "closing"}
             /\ verdict'[r].status # "none"
             /\ InPack(r)' => InPack(r) /\ left'[r] = left[r]
    <3>1. KeptOf(r)'
      BY <1>1, <1>8, <2>4 DEF Of, KeptOf, Ids
    <3>2. MarkerOf(r)'
      BY <1>1, <1>8, <2>4 DEF Of, MarkerOf, InPacks
    <3>3. HomeOf(r)'
      BY <1>1, <1>8, <2>4 DEF Of, HomeOf, InPack, Here
    <3>4. QED
      BY <2>4, <3>1, <3>2, <3>3 DEF Of, WaitingOf, SweepOf, Waits
  <2>5. QED
    BY <2>1, <2>2, <2>3, <2>4 DEF Quiet, Moves
<1>10. QED
  BY <1>6, <1>7, <1>9, OthersKept

LEMMA Update ==
  ASSUME NEW r \in Runs, NEW f, NEW v, OnRuns(f)
  PROVE  [f EXCEPT ![r] = v][r] = v /\ f = [f EXCEPT ![r] = f[r]]
  BY DEF OnRuns

LEMMA Going ==
  ASSUME NEW r \in Runs, NEW place \in Places, EvidenceInv, Goes(r, place)
  PROVE  at'[r] = place /\ at'[r] \in Places /\ at' = [at EXCEPT ![r] = at'[r]]
  BY DEF Goes, EvidenceInv, TreeTypes

LEMMA Judging ==
  ASSUME NEW r \in Runs, NEW v, EvidenceInv, verdict' = [verdict EXCEPT ![r] = v]
  PROVE  verdict'[r] = v /\ verdict' = [verdict EXCEPT ![r] = verdict'[r]]
  BY DEF EvidenceInv, TreeTypes, OnRuns

LEMMA Staying ==
  ASSUME NEW r \in Runs, EvidenceInv
  PROVE  /\ at' = at => at'[r] \in Places /\ at' = [at EXCEPT ![r] = at'[r]]
         /\ verdict' = verdict => verdict' = [verdict EXCEPT ![r] = verdict'[r]]
         /\ left' = left => left' = [left EXCEPT ![r] = left'[r]]
  BY DEF EvidenceInv, TreeTypes, OnRuns

LEMMA Leaving ==
  ASSUME NEW r \in Runs, NEW v, EvidenceInv, left' = [left EXCEPT ![r] = v]
  PROVE  left' = [left EXCEPT ![r] = left'[r]]
  BY DEF EvidenceInv, TreeTypes, OnRuns

LEMMA PlacesAre ==
  /\ "asked" \in Places /\ "binding" \in Places /\ "planned" \in Places /\ "marking" \in Places
  /\ "looking" \in Places /\ "sweeping" \in Places /\ "opened" \in Places /\ "packs" \in Places
  /\ "command" \in Places /\ "running" \in Places /\ "inspect" \in Places /\ "closing" \in Places
  /\ "over" \in Places /\ "killed" \in Places
  BY DEF Places

\* Before a run has a plan it only looks.
LEMMA EndsQuiet ==
  ASSUME NEW r \in Runs, NEW status, NEW reason, EvidenceInv, Waits(r), Ends(r, status, reason),
         UNCHANGED <<packs, treeVars, victims, left>>
  PROVE  Quiet(r)
<1>1. at'[r] = "over" /\ at'[r] \in Places /\ at' = [at EXCEPT ![r] = at'[r]]
  BY Going, PlacesAre DEF Ends
<1>2. verdict' = [verdict EXCEPT ![r] = verdict'[r]]
  BY Judging DEF Ends
<1>3. left' = [left EXCEPT ![r] = left'[r]]
  BY Staying
<1>4. QED
  BY <1>1, <1>2, <1>3 DEF Quiet, Moves

LEMMA PlannedQuiet ==
  ASSUME NEW r \in Runs, NEW resolved, NEW resolves, EvidenceInv, Waits(r), Planned(r, resolved, resolves),
         UNCHANGED <<packs, treeVars, victims, left>>
  PROVE  Quiet(r)
<1>1. \/ Goes(r, "planned") /\ UNCHANGED verdict
      \/ Ends(r, "blocked", "selection-blocked")
  BY DEF Planned
<1>2. CASE Goes(r, "planned") /\ UNCHANGED verdict
  <2>1. at'[r] = "planned" /\ at'[r] \in Places /\ at' = [at EXCEPT ![r] = at'[r]]
    BY <1>2, Going, PlacesAre
  <2>2. /\ verdict' = [verdict EXCEPT ![r] = verdict'[r]]
        /\ left' = [left EXCEPT ![r] = left'[r]]
    BY <1>2, Staying
  <2>3. QED
    BY <1>2, <2>1, <2>2 DEF Quiet, Moves, Waits
<1>3. CASE Ends(r, "blocked", "selection-blocked")
  BY <1>3, EndsQuiet
<1>4. QED
  BY <1>1, <1>2, <1>3

LEMMA RefuseQuiet ==
  ASSUME NEW r \in Runs, EvidenceInv, Refuse(r)
  PROVE  Quiet(r)
<1>1. /\ Waits(r) /\ UNCHANGED <<packs, treeVars, victims, left>>
      /\ Ends(r, "failed", IF Loads(packs) THEN "invocation" ELSE "selection-blocked")
  BY DEF Refuse, Same, Waits
<1>2. QED
  BY <1>1, EndsQuiet

LEMMA LookQuiet ==
  ASSUME NEW r \in Runs, EvidenceInv, Look(r)
  PROVE  Quiet(r)
<1>1. Waits(r) /\ UNCHANGED <<packs, treeVars, victims, left>>
  BY DEF Look, Same, Waits
<1>2. CASE Planned(r, AllScope, TRUE)
  BY <1>1, <1>2, PlannedQuiet
<1>3. CASE Planned(r, NoScope(request[r]), FALSE)
  BY <1>1, <1>3, PlannedQuiet
<1>4. CASE Goes(r, "binding") /\ UNCHANGED <<scope, plan, verdict>>
  <2>1. at'[r] = "binding" /\ at'[r] \in Places /\ at' = [at EXCEPT ![r] = at'[r]]
    BY <1>4, Going, PlacesAre
  <2>2. /\ verdict' = [verdict EXCEPT ![r] = verdict'[r]]
        /\ left' = [left EXCEPT ![r] = left'[r]]
    BY <1>1, <1>4, Staying
  <2>3. QED
    BY <1>1, <1>4, <2>1, <2>2 DEF Quiet, Moves, Waits
<1>5. QED
  BY <1>2, <1>3, <1>4 DEF Look

LEMMA BindQuiet ==
  ASSUME NEW r \in Runs, EvidenceInv, Bind(r)
  PROVE  Quiet(r)
<1>1. Waits(r) /\ UNCHANGED <<packs, treeVars, victims, left>>
  BY DEF Bind, Same, Waits
<1>2. Planned(r, NoScope(request[r]), FALSE) \/ UNCHANGED <<at, plan, verdict>>
  BY DEF Bind
<1>3. CASE Planned(r, NoScope(request[r]), FALSE)
  BY <1>1, <1>3, PlannedQuiet
<1>4. CASE UNCHANGED <<at, plan, verdict>>
  BY <1>1, <1>4, Staying DEF Quiet, Moves, Waits
<1>5. QED
  BY <1>2, <1>3, <1>4

LEMMA ConfirmQuiet ==
  ASSUME NEW r \in Runs, EvidenceInv, Confirm(r)
  PROVE  Quiet(r)
<1>1. Waits(r) /\ UNCHANGED <<packs, treeVars, victims, left>>
  BY DEF Confirm, Same, Waits
<1>2. CASE Planned(r, Scope("changed", PacketMode(request[r]), scope[r].records), TRUE)
  BY <1>1, <1>2, PlannedQuiet
<1>3. CASE Planned(r, NoScope(request[r]), FALSE)
  BY <1>1, <1>3, PlannedQuiet
<1>4. QED
  BY <1>2, <1>3 DEF Confirm

LEMMA MaterializeQuiet ==
  ASSUME NEW r \in Runs, EvidenceInv, Materialize(r)
  PROVE  Quiet(r)
<1>1. at[r] = "opened" /\ UNCHANGED <<packs, treeVars, victims>>
  BY DEF Materialize, Same
<1>2. CASE Stale(r)
  <2>1. Raises(r) /\ Goes(r, "closing") /\ UNCHANGED left
    BY <1>2 DEF Materialize
  <2>2. at'[r] = "closing" /\ at'[r] \in Places /\ at' = [at EXCEPT ![r] = at'[r]]
    BY <2>1, Going, PlacesAre
  <2>3. /\ verdict'[r] = [status |-> "failed", reason |-> "runtime-exception"]
        /\ verdict' = [verdict EXCEPT ![r] = verdict'[r]]
    BY <2>1, Judging DEF Raises
  <2>4. QED
    BY <1>1, <2>1, <2>2, <2>3, Staying DEF Quiet, Moves
<1>3. CASE ~Stale(r)
  <2>1. /\ verdict' = [verdict EXCEPT ![r] = [status |-> "passed", reason |-> "completed"]]
        /\ left' = [left EXCEPT ![r] = plan[r].order] /\ Goes(r, "packs")
    BY <1>3 DEF Materialize
  <2>2. at'[r] = "packs" /\ at'[r] \in Places /\ at' = [at EXCEPT ![r] = at'[r]]
    BY <2>1, Going, PlacesAre
  <2>3. /\ verdict'[r] = [status |-> "passed", reason |-> "completed"]
        /\ verdict' = [verdict EXCEPT ![r] = verdict'[r]]
    BY <2>1, Judging
  <2>4. left' = [left EXCEPT ![r] = left'[r]]
    BY <2>1, Leaving
  <2>5. QED
    BY <1>1, <2>2, <2>3, <2>4 DEF Quiet, Moves
<1>4. QED
  BY <1>2, <1>3

LEMMA HasVerdict ==
  ASSUME NEW r \in Runs, EvidenceInv, InPacks(r)
  PROVE  verdict[r].status # "none"
  BY DEF EvidenceInv, Of, MarkerOf

LEMMA LeaveOutQuiet ==
  ASSUME NEW r \in Runs, EvidenceInv, LeaveOut(r)
  PROVE  Quiet(r)
<1>1. at[r] = "packs" /\ at' = at /\ UNCHANGED <<packs, treeVars, victims>>
  BY DEF LeaveOut, Same
<1>2. verdict[r].status # "none"
  BY <1>1, HasVerdict DEF InPacks
<1>3. left' = [left EXCEPT ![r] = left'[r]]
  <2>1. left' = [left EXCEPT ![r] = Tail(left[r])]
    BY DEF LeaveOut
  <2>2. QED
    BY <2>1, Leaving
<1>4. verdict' = [verdict EXCEPT ![r] = verdict'[r]] /\ verdict'[r].status # "none"
  <2>1. CASE Fails(r)
    <3>1. /\ verdict'[r] = [status |-> "failed", reason |-> verdict[r].reason]
          /\ verdict' = [verdict EXCEPT ![r] = verdict'[r]]
      BY <2>1, Judging DEF Fails
    <3>2. QED
      BY <3>1
  <2>2. CASE verdict' = verdict
    BY <1>2, <2>2, Staying
  <2>3. QED
    BY <2>1, <2>2 DEF LeaveOut
<1>5. QED
  BY <1>1, <1>3, <1>4, Staying DEF Quiet, Moves, InPacks, InPack

\* Within its packs a run moves on with what it has on disk.
LEMMA PackStepQuiet ==
  ASSUME NEW r \in Runs, NEW place \in {"command", "running", "inspect", "closing"}, EvidenceInv,
         InPacks(r), place # "closing" => InPack(r), UNCHANGED <<packs, treeVars, victims, left>>,
         Goes(r, place) \/ (at' = at /\ place = at[r]),
         verdict' = verdict \/ Raises(r)
  PROVE  Quiet(r)
<1>1. place \in Places
  BY PlacesAre
<1>2. at'[r] = place /\ at'[r] \in Places /\ at' = [at EXCEPT ![r] = at'[r]]
  BY <1>1, Going, Staying
<1>3. left' = [left EXCEPT ![r] = left'[r]]
  BY Staying
<1>4. verdict' = [verdict EXCEPT ![r] = verdict'[r]] /\ verdict'[r].status # "none"
  <2>1. CASE verdict' = verdict
    BY <2>1, HasVerdict, Staying
  <2>2. CASE Raises(r)
    <3>1. /\ verdict'[r] = [status |-> "failed", reason |-> "runtime-exception"]
          /\ verdict' = [verdict EXCEPT ![r] = verdict'[r]]
      BY <2>2, Judging DEF Raises
    <3>2. QED
      BY <3>1
  <2>3. QED
    BY <2>1, <2>2
<1>5. QED
  BY <1>2, <1>3, <1>4 DEF Quiet, Moves, InPack

LEMMA AllPacksQuiet ==
  ASSUME NEW r \in Runs, EvidenceInv, AllPacks(r)
  PROVE  Quiet(r)
<1>1. /\ InPacks(r) /\ Goes(r, "closing")
      /\ UNCHANGED <<packs, treeVars, victims, left, verdict>>
  BY DEF AllPacks, Same, InPacks, packVars
<1>2. QED
  BY <1>1, PackStepQuiet

LEMMA RecordedGoes ==
  ASSUME NEW r \in Runs, NEW item, Recorded(r, item)
  PROVE  \E place \in {"command", "inspect"} : Goes(r, place)
  BY DEF Recorded

LEMMA StartCommandQuiet ==
  ASSUME NEW r \in Runs, EvidenceInv, StartCommand(r)
  PROVE  Quiet(r)
<1>1. /\ InPacks(r) /\ InPack(r) /\ at[r] = "command"
      /\ UNCHANGED <<packs, treeVars, victims, left, verdict>>
  BY DEF StartCommand, Same, InPacks, InPack
<1>2. (\E place \in {"command", "running", "inspect"} : Goes(r, place)) \/ at' = at
  BY RecordedGoes DEF StartCommand
<1>3. QED
  BY <1>1, <1>2, PackStepQuiet

LEMMA EndCommandQuiet ==
  ASSUME NEW r \in Runs, EvidenceInv, EndCommand(r)
  PROVE  Quiet(r)
<1>1. InPacks(r) /\ InPack(r) /\ UNCHANGED <<packs, treeVars, victims, left, verdict>>
  BY DEF EndCommand, Same, InPacks, InPack
<1>2. \E place \in {"command", "inspect"} : Goes(r, place)
  BY RecordedGoes DEF EndCommand
<1>3. QED
  BY <1>1, <1>2, PackStepQuiet

LEMMA CannotStartQuiet ==
  ASSUME NEW r \in Runs, EvidenceInv, CannotStart(r)
  PROVE  Quiet(r)
<1>1. /\ InPacks(r) /\ Raises(r) /\ Goes(r, "closing")
      /\ UNCHANGED <<packs, treeVars, victims, left>>
  BY DEF CannotStart, Same, InPacks
<1>2. QED
  BY <1>1, PackStepQuiet

LEMMA TamperQuiet ==
  ASSUME NEW r \in Runs, EvidenceInv, Tamper(r)
  PROVE  Quiet(r)
<1>1. /\ InPacks(r) /\ InPack(r) /\ at[r] = "running" /\ at' = at
      /\ UNCHANGED <<packs, treeVars, victims, left, verdict>>
  BY DEF Tamper, Same, InPacks, InPack
<1>2. QED
  BY <1>1, PackStepQuiet

\* The steps that open and close a run's directory.
LEMMA ClaimKeeps ==
  ASSUME NEW r \in Runs, EvidenceInv, Claim(r)
  PROVE  EvidenceInv'
<1>1. /\ at[r] = "planned" /\ lock = NoRun /\ lock' = r /\ dirs' = dirs \cup {r} /\ Goes(r, "marking")
      /\ UNCHANGED <<packs, verdict, left, victims, active, packDirs, manifests>>
  BY DEF Claim, Same, packVars
<1>2. at'[r] = "marking" /\ at' \in [Runs -> Places] /\ \A q \in Runs \ {r} : at'[q] = at[q]
  BY <1>1, PlacesAre DEF Goes, EvidenceInv, TreeTypes
<1>3. TreeTypes'
  BY <1>1, <1>2 DEF EvidenceInv, TreeTypes, Ids, OnRuns
<1>4. Local(r)
  BY <1>1, <1>2, ExecutionAssumption DEF Local, NoRun
<1>5. Of(r)
  BY DEF EvidenceInv
<1>6. Of(r)'
  <2>1. SweepOf(r)'
    BY <1>1, <1>2, <1>5 DEF Of, SweepOf, WaitingOf, Waits, NoVerdict
  <2>2. KeptOf(r)'
    BY <1>1, <1>2, <1>5 DEF Of, KeptOf, Ids
  <2>3. QED
    BY <1>1, <1>2, <2>1, <2>2 DEF Of, WaitingOf, MarkerOf, HomeOf, Waits, InPacks, InPack
<1>7. QED
  BY <1>3, <1>4, <1>6, OthersKept

LEMMA MarkKeeps ==
  ASSUME NEW r \in Runs, EvidenceInv, Mark(r)
  PROVE  EvidenceInv'
<1>1. /\ at[r] = "marking" /\ active' = active \cup {r} /\ Goes(r, "looking")
      /\ UNCHANGED <<packs, verdict, left, victims, lock, dirs, packDirs, manifests>>
  BY DEF Mark, Same, packVars
<1>2. at'[r] = "looking" /\ at' \in [Runs -> Places] /\ \A q \in Runs \ {r} : at'[q] = at[q]
  BY <1>1, PlacesAre DEF Goes, EvidenceInv, TreeTypes
<1>3. TreeTypes'
  BY <1>1, <1>2 DEF EvidenceInv, TreeTypes, Ids, OnRuns
<1>4. Of(r)
  BY DEF EvidenceInv
<1>5. lock = r /\ verdict[r] = NoVerdict
  BY <1>1, <1>4 DEF Of, SweepOf
<1>6. Local(r)
  BY <1>1, <1>2, <1>5 DEF Local
<1>7. Of(r)'
  <2>1. SweepOf(r)'
    BY <1>1, <1>2, <1>5 DEF SweepOf, NoVerdict
  <2>2. KeptOf(r)'
    BY <1>1, <1>2, <1>4 DEF Of, KeptOf, Ids
  <2>3. QED
    BY <1>1, <1>2, <1>4, <2>1, <2>2 DEF Of, WaitingOf, MarkerOf, HomeOf, Waits, InPacks, InPack
<1>8. QED
  BY <1>3, <1>6, <1>7, OthersKept

LEMMA UnmarkKeeps ==
  ASSUME NEW r \in Runs, EvidenceInv, Unmark(r)
  PROVE  EvidenceInv'
<1>1. /\ at[r] = "closing" /\ lock = NoRun /\ lock' = r /\ active' = active \ {r} /\ Goes(r, "looking")
      /\ UNCHANGED <<packs, verdict, left, victims, dirs, packDirs, manifests>>
  BY DEF Unmark, Same, packVars
<1>2. at'[r] = "looking" /\ at' \in [Runs -> Places] /\ \A q \in Runs \ {r} : at'[q] = at[q]
  BY <1>1, PlacesAre DEF Goes, EvidenceInv, TreeTypes
<1>3. TreeTypes'
  BY <1>1, <1>2 DEF EvidenceInv, TreeTypes, Ids, OnRuns
<1>4. Local(r)
  BY <1>1, <1>2, ExecutionAssumption DEF Local, NoRun
<1>5. Of(r)
  BY DEF EvidenceInv
<1>6. verdict[r] # NoVerdict
  BY <1>1, <1>5 DEF Of, MarkerOf, NoVerdict
<1>7. Of(r)'
  <2>1. SweepOf(r)'
    BY <1>1, <1>2, <1>6 DEF SweepOf, NoVerdict
  <2>2. KeptOf(r)'
    BY <1>1, <1>2, <1>5 DEF Of, KeptOf, Ids
  <2>3. QED
    BY <1>1, <1>2, <1>5, <2>1, <2>2 DEF Of, WaitingOf, MarkerOf, HomeOf, Waits, InPacks, InPack
<1>8. QED
  BY <1>3, <1>4, <1>7, OthersKept

LEMMA SweepLookKeeps ==
  ASSUME NEW r \in Runs, EvidenceInv, SweepLook(r)
  PROVE  EvidenceInv'
<1>1. /\ at[r] = "looking" /\ victims' = [victims EXCEPT ![r] = Inactive] /\ Goes(r, "sweeping")
      /\ UNCHANGED <<packs, verdict, left, lock, dirs, active, packDirs, manifests>>
  BY DEF SweepLook, Same, packVars, treeVars
<1>2. at'[r] = "sweeping" /\ at' \in [Runs -> Places] /\ \A q \in Runs \ {r} : at'[q] = at[q]
  BY <1>1, PlacesAre DEF Goes, EvidenceInv, TreeTypes
<1>3. /\ victims' \in [Runs -> SUBSET Runs] /\ victims'[r] = dirs \ active
      /\ \A q \in Runs \ {r} : victims'[q] = victims[q]
  BY <1>1 DEF EvidenceInv, TreeTypes, Inactive
<1>4. TreeTypes'
  BY <1>1, <1>2, <1>3 DEF EvidenceInv, TreeTypes, Ids, OnRuns
<1>5. Local(r)
  BY <1>1, <1>2, <1>3 DEF Local
<1>6. Of(r)
  BY DEF EvidenceInv
<1>7. Of(r)'
  <2>1. SweepOf(r)'
    BY <1>1, <1>2, <1>3, <1>6 DEF Of, SweepOf, NoVerdict
  <2>2. KeptOf(r)'
    BY <1>1, <1>2, <1>6 DEF Of, KeptOf, Ids
  <2>3. QED
    BY <1>1, <1>2, <1>6, <2>1, <2>2 DEF Of, WaitingOf, MarkerOf, HomeOf, Waits, InPacks, InPack
<1>8. QED
  BY <1>4, <1>5, <1>7, OthersKept

\* The sweep itself takes what others left, but never from a run that is under way.
LEMMA SweepRemoveKeeps ==
  ASSUME NEW r \in Runs, EvidenceInv, SweepRemove(r)
  PROVE  EvidenceInv'
<1>1. /\ at[r] = "sweeping" /\ lock' = NoRun
      /\ packDirs' = packDirs \ EmptyPackDirs(victims[r])
      /\ dirs' = dirs \ {v \in victims[r] : v \notin active /\ \A d \in packDirs' : d[1] # v}
      /\ Goes(r, IF verdict[r] = NoVerdict THEN "opened" ELSE "over")
      /\ UNCHANGED <<packs, verdict, left, victims, active, manifests>>
  BY DEF SweepRemove, Same, packVars
<1>2. Of(r)
  BY DEF EvidenceInv
<1>3. /\ lock = r /\ (verdict[r] = NoVerdict <=> r \in active) /\ victims[r] \cap active = {}
      /\ verdict[r] # NoVerdict /\ r \in dirs => r \in victims[r]
  BY <1>1, <1>2 DEF Of, SweepOf
<1>4. /\ at'[r] = IF verdict[r] = NoVerdict THEN "opened" ELSE "over"
      /\ at' \in [Runs -> Places] /\ \A q \in Runs \ {r} : at'[q] = at[q]
  BY <1>1, PlacesAre DEF Goes, EvidenceInv, TreeTypes
<1>5. TreeTypes'
  BY <1>1, <1>4 DEF EvidenceInv, TreeTypes, Ids, OnRuns
<1>6. \A q \in Runs : /\ q \in active /\ q \in dirs => q \in dirs'
                      /\ q \in dirs' => q \in dirs
  BY <1>1
<1>7. \A d \in packDirs : d[1] \in active => d \in packDirs'
  BY <1>1, <1>3 DEF EmptyPackDirs
<1>8. \A q \in Runs : \A p \in Ids : manifests[q][p] # "absent" /\ <<q, p>> \in packDirs => <<q, p>> \in packDirs'
  BY <1>1 DEF EmptyPackDirs
<1>9. \A q \in Runs : (\E d \in packDirs' : d[1] = q) /\ q \in dirs => q \in dirs'
  BY <1>1
<1>10. \A q \in Runs : q \in dirs' =>
          q \in dirs /\ (q \in victims[r] /\ q \notin active => \E d \in packDirs' : d[1] = q)
  BY <1>1
<1>11. \A d \in packDirs' : d \in packDirs /\ ~(d[1] \in victims[r] /\ manifests[d[1]][d[2]] = "absent")
  BY <1>1 DEF EmptyPackDirs
<1>12. ASSUME NEW q \in Runs PROVE KeptOf(q)'
  <2>1. KeptOf(q)
    BY DEF EvidenceInv, Of
  <2>2. ASSUME NEW p \in Ids, manifests[q][p] # "absent" PROVE q \in dirs' /\ <<q, p>> \in packDirs'
    <3>1. q \in dirs /\ <<q, p>> \in packDirs /\ <<q, p>>[1] = q
      BY <2>1, <2>2 DEF KeptOf
    <3>2. <<q, p>> \in packDirs'
      BY <1>8, <2>2, <3>1
    <3>3. QED
      BY <1>9, <3>1, <3>2
  <2>3. ASSUME at'[q] = "over" PROVE /\ q \in dirs' => \E d \in packDirs' : d[1] = q
                                     /\ \A d \in packDirs' : d[1] = q => manifests[q][d[2]] # "absent"
    <3>1. CASE q = r
      <4>1. verdict[r] # NoVerdict /\ r \notin active
        BY <1>3, <1>4, <2>3, <3>1
      <4>2. r \in dirs' => r \in victims[r] /\ \E d \in packDirs' : d[1] = r
        BY <1>3, <1>10, <4>1
      <4>3. \A d \in packDirs' : d[1] = r => r \in dirs
        BY <1>2, <1>11 DEF Of, HomeOf
      <4>4. QED
        BY <1>3, <1>11, <3>1, <4>1, <4>2, <4>3
    <3>2. CASE q # r
      <4>1. at[q] = "over"
        BY <1>4, <2>3, <3>2
      <4>2. \A d \in packDirs : d[1] = q => manifests[q][d[2]] # "absent"
        BY <2>1, <4>1 DEF KeptOf
      <4>3. \A d \in packDirs : d[1] = q => d \in packDirs'
        BY <1>1, <4>2 DEF EmptyPackDirs
      <4>4. QED
        BY <1>10, <1>11, <2>1, <4>1, <4>2, <4>3 DEF KeptOf
    <3>3. QED
      BY <3>1, <3>2
  <2>4. QED
    BY <1>1, <2>2, <2>3 DEF KeptOf, Ids
<1>13. ASSUME NEW q \in Runs PROVE WaitingOf(q)' /\ SweepOf(q)' /\ MarkerOf(q)' /\ HomeOf(q)'
  <2>1. Of(q)
    BY DEF EvidenceInv
  <2>2. CASE q = r
    <3>1. HomeOf(r)'
      BY <1>4, <1>9, <1>11, <2>1, <2>2 DEF Of, HomeOf, InPack
    <3>2. QED
      BY <1>1, <1>3, <1>4, <2>2, <3>1 DEF WaitingOf, SweepOf, MarkerOf, Waits, InPacks, NoVerdict
  <2>3. CASE q # r
    <3>1. at'[q] = at[q]
      BY <1>4, <2>3
    <3>2. WaitingOf(q)'
      BY <1>1, <1>6, <1>11, <2>1, <3>1 DEF Of, WaitingOf, Waits, NoVerdict
    <3>3. SweepOf(q)'
      BY <1>3, <2>1, <2>3, <3>1 DEF Of, SweepOf
    <3>4. MarkerOf(q)'
      BY <1>1, <2>1, <3>1 DEF Of, MarkerOf, InPacks, NoVerdict
    <3>5. HomeOf(q)'
      <4>1. at[q] # "marking"
        BY <1>3, <2>1, <2>3 DEF Of, SweepOf
      <4>2. Here(q)' = Here(q) /\ Here(q)[1] = q
        BY <1>1 DEF Here
      <4>3. InPack(q) => q \in active /\ q \in dirs /\ Here(q) \in packDirs
        BY <2>1 DEF Of, HomeOf, MarkerOf, InPack, InPacks
      <4>4. InPack(q) => Here(q) \in packDirs'
        BY <1>7, <4>2, <4>3
      <4>5. \A d \in packDirs' : d[1] = q => q \in dirs'
        BY <1>9, <1>11, <2>1 DEF Of, HomeOf
      <4>6. QED
        BY <1>6, <3>1, <4>1, <4>2, <4>3, <4>4, <4>5 DEF HomeOf, InPack
    <3>6. QED
      BY <3>2, <3>3, <3>4, <3>5
  <2>4. QED
    BY <2>2, <2>3
<1>14. QED
  BY <1>5, <1>12, <1>13 DEF EvidenceInv, Of

\* The steps that make, fill and close a pack's directory.
LEMMA OpenPackKeeps ==
  ASSUME NEW r \in Runs, EvidenceInv, OpenPack(r)
  PROVE  EvidenceInv'
<1>1. /\ at[r] = "packs" /\ dirs' = dirs \cup {r} /\ packDirs' = packDirs \cup {Here(r)}
      /\ Goes(r, "command")
      /\ UNCHANGED <<packs, verdict, left, victims, lock, active, manifests>>
  BY DEF OpenPack, Same
<1>2. at'[r] = "command" /\ at' \in [Runs -> Places] /\ \A q \in Runs \ {r} : at'[q] = at[q]
  BY <1>1, PlacesAre DEF Goes, EvidenceInv, TreeTypes
<1>3. TreeTypes'
  BY <1>1, <1>2 DEF EvidenceInv, TreeTypes, Ids, OnRuns
<1>4. Here(r)[1] = r /\ Here(r)' = Here(r)
  BY <1>1 DEF Here
<1>5. Local(r)
  BY <1>1, <1>2, <1>4 DEF Local
<1>6. Of(r)
  BY DEF EvidenceInv
<1>7. Of(r)'
  <2>1. MarkerOf(r)'
    BY <1>1, <1>2, <1>6 DEF Of, MarkerOf, InPacks
  <2>2. KeptOf(r)'
    BY <1>1, <1>2, <1>6 DEF Of, KeptOf, Ids
  <2>3. HomeOf(r)'
    BY <1>1, <1>2, <1>4 DEF HomeOf
  <2>4. QED
    BY <1>1, <1>2, <2>1, <2>2, <2>3 DEF Of, WaitingOf, SweepOf, Waits
<1>8. QED
  BY <1>3, <1>5, <1>7, OthersKept

LEMMA WriteManifestKeeps ==
  ASSUME NEW r \in Runs, EvidenceInv, WriteManifest(r)
  PROVE  EvidenceInv'
<1>1. /\ at[r] = "running" /\ Here(r) \in packDirs
      /\ UNCHANGED <<packs, at, verdict, left, victims, lock, dirs, active, packDirs>>
  BY DEF WriteManifest, Same, packVars
<1>2. PICK kind \in ManifestKinds \ {"absent"} : manifests' = [manifests EXCEPT ![r][Head(left[r])] = kind]
  BY DEF WriteManifest
<1>3. TreeTypes
  BY DEF EvidenceInv
<1>4. /\ manifests' \in [Runs -> [Ids -> ManifestKinds]]
      /\ \A q \in Runs \ {r} : manifests'[q] = manifests[q]
      /\ \A p \in Ids : p # Head(left[r]) => manifests'[r][p] = manifests[r][p]
  BY <1>2, <1>3 DEF TreeTypes
<1>5. TreeTypes'
  BY <1>1, <1>3, <1>4 DEF TreeTypes, Ids
<1>6. Local(r)
  BY <1>1, <1>4 DEF Local
<1>7. Of(r)
  BY DEF EvidenceInv
<1>8. Of(r)'
  <2>1. Here(r) = <<r, Head(left[r])>> /\ r \in dirs
    BY <1>1, <1>7 DEF Of, HomeOf, InPack, Here
  <2>2. KeptOf(r)'
    BY <1>1, <1>4, <1>7, <2>1 DEF Of, KeptOf, Ids
  <2>3. HomeOf(r)'
    BY <1>1, <1>7 DEF Of, HomeOf, InPack, Here
  <2>4. MarkerOf(r)'
    BY <1>1, <1>7 DEF Of, MarkerOf, InPacks
  <2>5. QED
    BY <1>1, <2>2, <2>3, <2>4 DEF Of, WaitingOf, SweepOf, Waits
<1>9. QED
  BY <1>5, <1>6, <1>8, OthersKept

LEMMA OverallIs ==
  ASSUME NEW r, NEW item, verdict[r].status # "none"
  PROVE  Overall(r, item) # "none"
  BY DEF Overall

LEMMA ClosePackKeeps ==
  ASSUME NEW r \in Runs, EvidenceInv, ClosePack(r)
  PROVE  EvidenceInv'
<1> DEFINE item == PackEvidence(r)
           place == IF DiagnosticStop(item) THEN "closing" ELSE "packs"
<1>1. /\ at[r] = "inspect" /\ Goes(r, place)
      /\ packDirs' = packDirs \ (EmptyPackDirs({r}) \cap {Here(r)})
      /\ verdict' = [verdict EXCEPT ![r] = [status |-> Overall(r, item), reason |-> Reason(r, item)]]
      /\ left' = [left EXCEPT ![r] = Tail(@)]
      /\ UNCHANGED <<packs, victims, lock, dirs, active, manifests>>
  BY DEF ClosePack, Same
<1>2. place \in {"packs", "closing"} /\ place \in Places
  BY PlacesAre
<1> HIDE DEF place, item
<1>3. at'[r] = place /\ at' \in [Runs -> Places] /\ \A q \in Runs \ {r} : at'[q] = at[q]
  BY <1>1, <1>2 DEF Goes, EvidenceInv, TreeTypes
<1>4. Of(r)
  BY DEF EvidenceInv
<1>5. /\ OnRuns(verdict)' /\ \A q \in Runs \ {r} : verdict'[q] = verdict[q]
      /\ verdict'[r].status # "none"
  <2>1. verdict[r].status # "none"
    BY <1>1, HasVerdict DEF InPacks
  <2>2. Overall(r, item) # "none"
    BY <2>1, OverallIs
  <2>3. verdict'[r] = [status |-> Overall(r, item), reason |-> Reason(r, item)]
    BY <1>1, Judging
  <2>4. QED
    BY <1>1, <2>2, <2>3 DEF EvidenceInv, TreeTypes, OnRuns
<1>6. OnRuns(left)' /\ \A q \in Runs \ {r} : left'[q] = left[q]
  BY <1>1 DEF EvidenceInv, TreeTypes, OnRuns
<1>7. TreeTypes'
  BY <1>1, <1>3, <1>5, <1>6 DEF EvidenceInv, TreeTypes, Ids
<1>8. \A d \in packDirs : (d[1] # r \/ manifests[d[1]][d[2]] # "absent") => d \in packDirs'
  BY <1>1 DEF EmptyPackDirs
<1>9. packDirs' \subseteq packDirs
  BY <1>1
<1>10. Local(r)
  BY <1>1, <1>3, <1>5, <1>6, <1>8, <1>9 DEF Local
<1>11. Of(r)'
  <2>1. MarkerOf(r)'
    BY <1>1, <1>2, <1>3, <1>4, <1>5 DEF Of, MarkerOf, InPacks
  <2>2. KeptOf(r)'
    <3>1. \A p \in Ids : <<r, p>>[1] = r /\ <<r, p>>[2] = p
      OBVIOUS
    <3>2. QED
      BY <1>1, <1>2, <1>3, <1>4, <1>8, <3>1 DEF Of, KeptOf, Ids
  <2>3. HomeOf(r)'
    BY <1>1, <1>2, <1>3, <1>4, <1>9 DEF Of, HomeOf, InPack
  <2>4. QED
    BY <1>2, <1>3, <2>1, <2>2, <2>3 DEF Of, WaitingOf, SweepOf, Waits
<1>12. QED
  BY <1>7, <1>10, <1>11, OthersKept

LEMMA KillKeeps ==
  ASSUME NEW r \in Runs, EvidenceInv, Kill(r)
  PROVE  EvidenceInv'
<1>1. /\ Goes(r, "killed") /\ lock' = IF lock = r THEN NoRun ELSE lock
      /\ UNCHANGED <<packs, verdict, left, victims, dirs, active, packDirs, manifests>>
  BY DEF Kill, packVars
<1>2. at'[r] = "killed" /\ at' \in [Runs -> Places] /\ \A q \in Runs \ {r} : at'[q] = at[q]
  BY <1>1, PlacesAre DEF Goes, EvidenceInv, TreeTypes
<1>3. TreeTypes'
  BY <1>1, <1>2 DEF EvidenceInv, TreeTypes, Ids, OnRuns
<1>4. Local(r)
  BY <1>1, <1>2 DEF Local
<1>5. Of(r)'
  <2>1. Of(r)
    BY DEF EvidenceInv
  <2>2. KeptOf(r)' /\ HomeOf(r)'
    BY <1>1, <1>2, <2>1 DEF Of, KeptOf, HomeOf, InPack, Ids
  <2>3. QED
    BY <1>2, <2>2 DEF Of, WaitingOf, SweepOf, MarkerOf, Waits, InPacks
<1>6. QED
  BY <1>3, <1>4, <1>5, OthersKept

LEMMA StepKeepsEvidence ==
  ASSUME NEW r \in Runs, EvidenceInv, Step(r)
  PROVE  EvidenceInv'
<1>1. CASE \/ Refuse(r) \/ Look(r) \/ Bind(r) \/ Confirm(r) \/ Materialize(r) \/ LeaveOut(r)
           \/ AllPacks(r) \/ StartCommand(r) \/ EndCommand(r) \/ CannotStart(r)
  BY <1>1, RefuseQuiet, LookQuiet, BindQuiet, ConfirmQuiet, MaterializeQuiet, LeaveOutQuiet,
     AllPacksQuiet, StartCommandQuiet, EndCommandQuiet, CannotStartQuiet, QuietKeeps
<1>2. CASE Claim(r) \/ Mark(r) \/ Unmark(r) \/ SweepLook(r) \/ SweepRemove(r)
  BY <1>2, ClaimKeeps, MarkKeeps, UnmarkKeeps, SweepLookKeeps, SweepRemoveKeeps
<1>3. CASE OpenPack(r) \/ ClosePack(r)
  BY <1>3, OpenPackKeeps, ClosePackKeeps
<1>4. QED
  BY <1>1, <1>2, <1>3 DEF Step

LEMMA EvidenceStutters ==
  ASSUME EvidenceInv, UNCHANGED <<packs, at, planVars, packVars, victims, treeVars>>
  PROVE  EvidenceInv'
<1>1. UNCHANGED <<packs, at, verdict, left, lock, dirs, active, packDirs, manifests, victims>>
  BY DEF packVars, treeVars
<1>2. ASSUME NEW q \in Runs PROVE Of(q)'
  BY <1>1 DEF EvidenceInv, Of, WaitingOf, SweepOf, MarkerOf, HomeOf, KeptOf, Waits, InPacks, InPack,
              Here, Ids, NoVerdict
<1>3. QED
  BY <1>1, <1>2 DEF EvidenceInv, TreeTypes, OnRuns, Ids

LEMMA EvidenceBegins == Init => EvidenceInv
<1> SUFFICES ASSUME Init PROVE EvidenceInv
  OBVIOUS
<1>1. /\ at = [r \in Runs |-> IF request[r] = NoRequest THEN "over" ELSE "asked"]
      /\ left = [r \in Runs |-> <<>>] /\ verdict = [r \in Runs |-> NoVerdict]
      /\ victims = [r \in Runs |-> {}] /\ lock = NoRun /\ dirs = {} /\ active = {} /\ packDirs = {}
      /\ manifests = [r \in Runs |-> [p \in Ids |-> "absent"]]
  BY DEF Init
<1>2. TreeTypes
  BY <1>1, PlacesAre DEF TreeTypes, OnRuns, ManifestKinds
<1>3. ASSUME NEW r \in Runs PROVE Of(r)
  <2>1. at[r] \in {"asked", "over"} /\ verdict[r] = NoVerdict
    BY <1>1
  <2>2. QED
    BY <1>1, <2>1 DEF Of, WaitingOf, SweepOf, MarkerOf, HomeOf, KeptOf, Waits, InPacks, InPack
<1>4. QED
  BY <1>2, <1>3 DEF EvidenceInv

\* EvidenceInv holds all along: the lock, the markers and the pruning of runs that
\* come, go and are killed in any order agree (run_state_lock, _mark_run_active,
\* _prune_empty_evidence_scaffolding).
THEOREM EvidenceInvariant == Spec => []EvidenceInv
<1>1. Init => EvidenceInv
  BY EvidenceBegins
<1>2. EvidenceInv /\ [Next]_vars => EvidenceInv'
  <2> SUFFICES ASSUME EvidenceInv, [Next]_vars PROVE EvidenceInv'
    OBVIOUS
  <2>1. CASE \E r \in Runs : Step(r)
    BY <2>1, StepKeepsEvidence
  <2>2. CASE \E r \in Runs : Tamper(r) \/ WriteManifest(r) \/ Kill(r)
    BY <2>2, TamperQuiet, QuietKeeps, WriteManifestKeeps, KillKeeps
  <2>3. CASE UNCHANGED <<packs, at, planVars, packVars, victims, treeVars, kills>>
    BY <2>3, EvidenceStutters
  <2>4. CASE UNCHANGED vars
    BY <2>4, EvidenceStutters DEF vars
  <2>5. QED
    BY <2>1, <2>2, <2>3, <2>4 DEF Next
<1>3. QED
  BY <1>1, <1>2, PTL DEF Spec

\* No run loses the directory it is about to use or evidence it has left, and none
\* leaves anything empty behind.
THEOREM EvidenceIsSafe == Spec => []EvidenceSafe
<1>1. EvidenceInv => EvidenceSafe
  BY DEF EvidenceInv, Of, HomeOf, KeptOf, EvidenceSafe, EvidenceHome, EvidenceKept
<1>2. QED
  BY <1>1, EvidenceInvariant, PTL

-----------------------------------------------------------------------------
(* Planning.  Closure and order are recursive functions: that they exist,  *)
(* and what they yield, is shown by least counterexamples.                 *)

\* Numbers have a least one: the form in which the proofs below use induction.
LEMMA Smallest ==
  ASSUME NEW S \in SUBSET Nat, S # {}
  PROVE  \E x \in S : \A y \in S : x <= y
<1> DEFINE Less == {ss \in Nat \X Nat : ss[1] < ss[2]}
<1>1. IsWellFoundedOn(OpToRel(<, Nat), Nat)
  BY NatLessThanWellFounded, Zenon
<1>2. IsWellFoundedOn(Less, Nat)
  BY <1>1, Zenon DEF OpToRel
<1> HIDE DEF Less
<1>3. PICK x \in S : \A y \in S : <<y, x>> \notin Less
  BY <1>2, WFMin
<1>4. ASSUME NEW y \in S PROVE x <= y
  <2>1. x \in Nat /\ y \in Nat
    OBVIOUS
  <2>2. <<y, x>> \in Nat \X Nat /\ <<y, x>>[1] = y /\ <<y, x>>[2] = x
    BY <2>1
  <2>3. ~(y < x)
    BY <1>3, <2>2 DEF Less
  <2>4. QED
    BY <2>1, <2>3
<1>5. QED
  BY <1>4

\* Each member of a finite set of numbers has its place in the sorted sequence.
LEMMA SortedIs ==
  ASSUME NEW T \in SUBSET Nat, IsFiniteSet(T)
  PROVE  /\ Cardinality(T) \in Nat
         /\ Sorted(T) \in [1 .. Cardinality(T) -> T]
         /\ \A x \in T : \E i \in 1 .. Cardinality(T) : Sorted(T)[i] = x
<1> DEFINE Below(x) == {y \in T : y < x}
           n == Cardinality(T)
<1>1. n \in Nat
  BY FS_CardinalityType
<1>2. ASSUME NEW x \in T
      PROVE  IsFiniteSet(Below(x)) /\ Cardinality(Below(x)) \in 0 .. n - 1
  <2>1. Below(x) \in SUBSET T /\ x \in T /\ x \notin Below(x)
    OBVIOUS
  <2>2. /\ IsFiniteSet(Below(x)) /\ Cardinality(Below(x)) <= n /\ Cardinality(Below(x)) # n
    <3> HIDE DEF Below
    <3> QED
      BY <2>1, FS_Subset
  <2>3. Cardinality(Below(x)) \in Nat
    BY <2>2, FS_CardinalityType
  <2> HIDE DEF Below, n
  <2>4. QED
    BY <1>1, <2>2, <2>3
<1>3. ASSUME NEW x \in T, NEW z \in T, x < z
      PROVE  Cardinality(Below(x)) # Cardinality(Below(z))
  <2>1. \A y \in T : y < x => y < z
    BY <1>3
  <2>2. Below(x) \subseteq Below(z) /\ x \in Below(z) /\ x \notin Below(x)
    <3>1. ~(x < x)
      OBVIOUS
    <3>2. QED
      BY <1>3, <2>1, <3>1
  <2>3. IsFiniteSet(Below(z))
    BY <1>2
  <2> HIDE DEF Below
  <2>4. QED
    BY <2>2, <2>3, FS_Subset
<1> DEFINE rank == [x \in T |-> Cardinality(Below(x))]
<1>4. rank \in [T -> 0 .. n - 1]
  BY <1>2
<1>5. \A x, z \in T : rank[x] = rank[z] => x = z
  <2> HIDE DEF Below
  <2> SUFFICES ASSUME NEW x \in T, NEW z \in T, rank[x] = rank[z] PROVE x = z
    OBVIOUS
  <2>1. ~(x < z) /\ ~(z < x)
    BY <1>3
  <2>2. QED
    BY <2>1
<1> HIDE DEF rank
<1>6. rank \in Injection(T, 0 .. n - 1)
  BY <1>4, <1>5 DEF Injection, IsInjective
<1>7. IsFiniteSet(0 .. n - 1) /\ Cardinality(0 .. n - 1) = n
  <2> HIDE DEF n
  <2> QED
    BY <1>1, FS_Interval
<1>8. rank \in Surjection(T, 0 .. n - 1)
  BY <1>6, <1>7, FS_Injection
<1>9. ASSUME NEW i \in 1 .. n
      PROVE  \E x \in T : rank[x] = i - 1
  BY <1>1, <1>8 DEF Surjection
<1>10. \A x \in T : rank[x] = Cardinality(Below(x))
  BY DEF rank
<1>11. ASSUME NEW i \in 1 .. n
       PROVE  Sorted(T)[i] \in T /\ rank[Sorted(T)[i]] = i - 1
  <2>1. Sorted(T)[i] = CHOOSE x \in T : Cardinality(Below(x)) = i - 1
    BY DEF Sorted
  <2>2. \E x \in T : Cardinality(Below(x)) = i - 1
    BY <1>9, <1>10
  <2> HIDE DEF Below, n
  <2>3. Sorted(T)[i] \in T /\ Cardinality(Below(Sorted(T)[i])) = i - 1
    BY <2>1, <2>2, Zenon
  <2>4. QED
    BY <1>10, <2>3
<1>12. ASSUME NEW x \in T PROVE \E i \in 1 .. n : Sorted(T)[i] = x
  <2>1. rank[x] \in 0 .. n - 1
    BY <1>4
  <2> DEFINE i == rank[x] + 1
  <2>2. i \in 1 .. n /\ i - 1 = rank[x]
    BY <1>1, <2>1
  <2> HIDE DEF i, n
  <2>3. Sorted(T)[i] \in T /\ rank[Sorted(T)[i]] = rank[x]
    BY <1>11, <2>2
  <2>4. QED
    BY <1>5, <2>2, <2>3
<1>13. Sorted(T) \in [1 .. n -> T]
  BY <1>11 DEF Sorted
<1>14. QED
  BY <1>1, <1>12, <1>13

-----------------------------------------------------------------------------
\* reach is the recursive function of Dependencies.
Reaches(config, selected, reach) ==
  reach = [n \in 0 .. Cardinality(DOMAIN config) |->
             IF n = 0 THEN selected
             ELSE reach[n - 1] \cup UNION {config[id].depends : id \in reach[n - 1] \cap DOMAIN config}]

\* That function exists: of the numbers up to which none does there would be a
\* least one.
LEMMA ReachExists ==
  ASSUME NEW config, NEW selected, Cardinality(DOMAIN config) \in Nat
  PROVE  \E reach : Reaches(config, selected, reach)
<1> DEFINE N == Cardinality(DOMAIN config)
           Wider(ids) == ids \cup UNION {config[id].depends : id \in ids \cap DOMAIN config}
           UpTo(k, f) == f = [n \in 0 .. k |-> IF n = 0 THEN selected ELSE Wider(f[n - 1])]
           Bad == {k \in 0 .. N : ~\E f : UpTo(k, f)}
<1> HIDE DEF N, Wider
<1>1. SUFFICES ASSUME N \in Nat, Bad # {} PROVE FALSE
  <2>1. N \in Nat
    BY DEF N
  <2>2. CASE Bad = {}
    <3>1. N \notin Bad /\ N \in 0 .. N
      BY <2>1, <2>2
    <3>2. \E f : UpTo(N, f)
      BY <3>1
    <3>3. QED
      BY <3>2 DEF N, Wider, Reaches
  <2>3. QED
    BY <2>1, <2>2
<1>2. PICK m \in Bad : \A k \in Bad : m <= k
  <2>1. Bad \in SUBSET Nat
    BY <1>1
  <2> HIDE DEF Bad
  <2>2. QED
    BY <1>1, <2>1, Smallest
<1>3. m \in 0 .. N
  BY <1>2
<1>4. m # 0
  <2>1. UpTo(0, [n \in 0 .. 0 |-> selected])
    <3>1. \A n \in 0 .. 0 : n = 0
      OBVIOUS
    <3>2. QED
      BY <3>1
  <2>2. 0 \notin Bad
    BY <2>1
  <2>3. QED
    BY <1>2, <2>2
<1>5. m - 1 \in 0 .. N /\ ~(m <= m - 1)
  BY <1>1, <1>3, <1>4
<1>6. PICK f : UpTo(m - 1, f)
  BY <1>2, <1>5
<1> DEFINE g == [n \in 0 .. m |-> IF n = 0 THEN selected ELSE Wider(f[n - 1])]
<1>7. \A n \in 0 .. m - 1 : g[n] = f[n]
  <2> SUFFICES ASSUME NEW n \in 0 .. m - 1 PROVE g[n] = f[n]
    OBVIOUS
  <2>1. n \in 0 .. m
    BY <1>1, <1>3
  <2>2. f[n] = IF n = 0 THEN selected ELSE Wider(f[n - 1])
    BY <1>6
  <2>3. QED
    BY <2>1, <2>2
<1>8. \A n \in 0 .. m : n # 0 => g[n - 1] = f[n - 1]
  <2>1. \A n \in 0 .. m : n # 0 => n - 1 \in 0 .. m - 1
    BY <1>1, <1>3
  <2> HIDE DEF g
  <2>2. QED
    BY <1>7, <2>1
<1>9. UpTo(m, g)
  <2>1. g = [n \in 0 .. m |-> IF n = 0 THEN selected ELSE Wider(f[n - 1])]
    OBVIOUS
  <2> HIDE DEF g
  <2>2. \A n \in 0 .. m : (IF n = 0 THEN selected ELSE Wider(f[n - 1])) = (IF n = 0 THEN selected ELSE Wider(g[n - 1]))
    BY <1>8
  <2>3. QED
    BY <2>1, <2>2
<1>10. QED
  BY <1>2, <1>9

Wider(config, ids) == ids \cup UNION {config[id].depends : id \in ids \cap DOMAIN config}
Widens(config, reach, N) == \A n \in 1 .. N : reach[n] = Wider(config, reach[n - 1])

LEMMA DependenciesReach ==
  ASSUME NEW config, NEW selected, Cardinality(DOMAIN config) \in Nat
  PROVE  \E reach :
           /\ Dependencies(config, selected) = reach[Cardinality(DOMAIN config)]
           /\ reach[0] = selected
           /\ Widens(config, reach, Cardinality(DOMAIN config))
<1> DEFINE reach == CHOOSE f : Reaches(config, selected, f)
           N == Cardinality(DOMAIN config)
<1>1. Reaches(config, selected, reach)
  BY ReachExists
<1>2. Dependencies(config, selected) = reach[N]
  BY DEF Dependencies, Reaches
<1> HIDE DEF reach
<1>3. reach = [n \in 0 .. N |-> IF n = 0 THEN selected ELSE Wider(config, reach[n - 1])]
  BY <1>1 DEF Reaches, Wider
<1> HIDE DEF N
<1>4. N \in Nat
  BY DEF N
<1>5. reach[0] = selected
  BY <1>3, <1>4
<1>6. ASSUME NEW n \in 1 .. N PROVE reach[n] = Wider(config, reach[n - 1])
  <2>1. n \in 0 .. N /\ n # 0
    BY <1>4
  <2>2. QED
    BY <1>3, <2>1
<1>7. QED
  BY <1>2, <1>5, <1>6 DEF N, Widens

\* The sets only grow, and once one is the next, they stay.
LEMMA ReachGrows ==
  ASSUME NEW config, NEW reach, NEW N \in Nat, Widens(config, reach, N), NEW i \in 0 .. N
  PROVE  /\ \A j \in i .. N : reach[i] \subseteq reach[j]
         /\ i < N /\ reach[i + 1] = reach[i] => \A j \in i .. N : reach[j] = reach[i]
<1>1. ASSUME NEW j \in i .. N, j # i
      PROVE  j - 1 \in i .. N /\ ~(j <= j - 1) /\ reach[j] = Wider(config, reach[j - 1])
  <2>1. j \in 1 .. N /\ j - 1 \in i .. N /\ ~(j <= j - 1)
    BY <1>1
  <2>2. QED
    BY <2>1 DEF Widens
<1>2. \A j \in i .. N : reach[i] \subseteq reach[j]
  <2> DEFINE Bad == {j \in i .. N : ~(reach[i] \subseteq reach[j])}
  <2>1. SUFFICES ASSUME Bad # {} PROVE FALSE
    OBVIOUS
  <2>2. PICK j \in Bad : \A k \in Bad : j <= k
    <3>1. Bad \in SUBSET Nat
      OBVIOUS
    <3> HIDE DEF Bad
    <3>2. QED
      BY <2>1, <3>1, Smallest
  <2>3. j \in i .. N /\ j # i
    BY <2>2
  <2>4. reach[i] \subseteq reach[j - 1] /\ reach[j] = Wider(config, reach[j - 1])
    BY <1>1, <2>2, <2>3
  <2>5. QED
    BY <2>2, <2>4 DEF Wider
<1>3. ASSUME i < N, reach[i + 1] = reach[i] PROVE \A j \in i .. N : reach[j] = reach[i]
  <2> DEFINE Bad == {j \in i .. N : reach[j] # reach[i]}
  <2>1. SUFFICES ASSUME Bad # {} PROVE FALSE
    OBVIOUS
  <2>2. PICK j \in Bad : \A k \in Bad : j <= k
    <3>1. Bad \in SUBSET Nat
      OBVIOUS
    <3> HIDE DEF Bad
    <3>2. QED
      BY <2>1, <3>1, Smallest
  <2>3. j \in i .. N /\ j # i
    BY <2>2
  <2>4. reach[i] = reach[j - 1] /\ reach[j] = Wider(config, reach[j - 1])
    BY <1>1, <2>2, <2>3
  <2>5. reach[i + 1] = Wider(config, reach[i])
    <3>1. i + 1 \in 1 .. N /\ (i + 1) - 1 = i
      BY <1>3
    <3>2. QED
      BY <1>1, <3>1
  <2>6. QED
    BY <1>3, <2>2, <2>4, <2>5
<1>4. QED
  BY <1>2, <1>3

\* A closure within the packs there are is closed: as long as it was not, each of
\* the steps added a pack, and there are no more packs than steps.
LEMMA DependenciesClosed ==
  ASSUME NEW config, NEW selected, IsFiniteSet(DOMAIN config),
         Dependencies(config, selected) \subseteq DOMAIN config
  PROVE  /\ selected \subseteq Dependencies(config, selected)
         /\ \A id \in Dependencies(config, selected) : config[id].depends \subseteq Dependencies(config, selected)
<1> DEFINE N == Cardinality(DOMAIN config)
           closure == Dependencies(config, selected)
<1>1. N \in Nat
  BY FS_CardinalityType
<1>2. PICK reach : /\ closure = reach[N] /\ reach[0] = selected
                   /\ Widens(config, reach, N)
  BY <1>1, DependenciesReach
<1>3. closure \subseteq DOMAIN config
  OBVIOUS
<1> HIDE DEF closure
<1>4. \A i \in 0 .. N : reach[i] \subseteq closure
  <2> HIDE DEF N
  <2> SUFFICES ASSUME NEW i \in 0 .. N PROVE reach[i] \subseteq closure
    OBVIOUS
  <2>1. N \in i .. N
    BY <1>1
  <2>2. QED
    BY <1>1, <1>2, <2>1, ReachGrows
<1>5. selected \subseteq closure
  <2>1. 0 \in 0 .. N
    BY <1>1
  <2>2. QED
    BY <1>2, <1>4, <2>1
<1>6. CASE \E i \in 0 .. N : i < N /\ reach[i + 1] = reach[i]
  <2>1. PICK i \in 0 .. N : i < N /\ reach[i + 1] = reach[i]
    BY <1>6
  <2> HIDE DEF N
  <2>2. i + 1 \in 1 .. N /\ (i + 1) - 1 = i /\ N \in i .. N
    BY <1>1, <2>1
  <2>3. reach[N] = reach[i]
    BY <1>1, <1>2, <2>1, <2>2, ReachGrows
  <2>4. reach[i + 1] = Wider(config, reach[i])
    BY <1>2, <2>2 DEF Widens
  <2>5. closure = Wider(config, closure)
    BY <1>2, <2>1, <2>3, <2>4
  <2>6. QED
    BY <1>3, <1>5, <2>5 DEF Wider, closure
<1>7. CASE selected = {}
  <2>1. CASE N = 0
    <3>1. closure = {}
      BY <1>2, <1>7, <2>1
    <3>2. QED
      BY <1>7, <3>1 DEF closure
  <2>2. CASE N # 0
    <3> HIDE DEF N
    <3>1. 0 \in 0 .. N /\ 0 < N /\ 1 \in 1 .. N /\ 1 - 1 = 0 /\ 0 + 1 = 1
      BY <1>1, <2>2
    <3>2. reach[1] = Wider(config, {})
      BY <1>2, <1>7, <3>1 DEF Widens
    <3>3. Wider(config, {}) = {}
      BY DEF Wider
    <3>4. QED
      BY <1>2, <1>6, <1>7, <3>1, <3>2, <3>3
  <2>3. QED
    BY <2>1, <2>2
<1>8. CASE selected # {} /\ \A i \in 0 .. N : i < N => reach[i + 1] # reach[i]
  <2> DEFINE Bad == {n \in 0 .. N : ~(Cardinality(reach[n]) >= n + 1)}
  <2>1. \A n \in 0 .. N : IsFiniteSet(reach[n]) /\ Cardinality(reach[n]) \in Nat
    BY <1>3, <1>4, FS_Subset, FS_CardinalityType
  <2>2. Cardinality(reach[N]) <= N
    BY <1>2, <1>3, FS_Subset
  <2>3. N \in Bad
    <3> HIDE DEF N
    <3>1. N \in 0 .. N
      BY <1>1
    <3>2. QED
      BY <1>1, <2>1, <2>2, <3>1
  <2>4. PICK m \in Bad : \A k \in Bad : m <= k
    <3>1. Bad \in SUBSET Nat
      BY <1>1
    <3> HIDE DEF Bad
    <3>2. QED
      BY <2>3, <3>1, Smallest
  <2>5. m # 0
    <3>1. Cardinality(selected) # 0
      <4>1. IsFiniteSet(selected)
        BY <1>3, <1>5, FS_Subset
      <4>2. QED
        BY <1>8, <4>1, FS_EmptySet
    <3> HIDE DEF N
    <3>2. 0 \in 0 .. N
      BY <1>1
    <3>3. QED
      BY <1>2, <2>1, <2>4, <3>1, <3>2
  <2> HIDE DEF N
  <2>6. m \in 1 .. N /\ m - 1 \in 0 .. N /\ m - 1 < N /\ (m - 1) + 1 = m /\ ~(m <= m - 1)
    BY <1>1, <2>4, <2>5
  <2>7. Cardinality(reach[m - 1]) >= m
    BY <2>1, <2>4, <2>6
  <2>8. reach[m - 1] \subseteq reach[m] /\ reach[m - 1] # reach[m]
    BY <1>2, <1>8, <2>6 DEF Wider, Widens
  <2>9. Cardinality(reach[m - 1]) < Cardinality(reach[m])
    <3>1. /\ Cardinality(reach[m - 1]) <= Cardinality(reach[m])
          /\ Cardinality(reach[m - 1]) # Cardinality(reach[m])
      BY <2>1, <2>4, <2>8, FS_Subset
    <3>2. QED
      BY <2>1, <2>4, <2>6, <3>1
  <2>10. QED
    BY <2>1, <2>4, <2>6, <2>7, <2>9
<1>9. QED
  BY <1>6, <1>7, <1>8

\* What no pack depends on, only a selection brings in.
LEMMA DependenciesAvoid ==
  ASSUME NEW config, NEW selected, NEW R, Cardinality(DOMAIN config) \in Nat,
         selected \cap R = {}, \A id \in DOMAIN config : config[id].depends \cap R = {}
  PROVE  Dependencies(config, selected) \cap R = {}
<1> DEFINE N == Cardinality(DOMAIN config)
<1>1. PICK reach : /\ Dependencies(config, selected) = reach[N] /\ reach[0] = selected
                   /\ Widens(config, reach, N)
  BY DependenciesReach
<1> DEFINE Bad == {n \in 0 .. N : reach[n] \cap R # {}}
<1>2. SUFFICES ASSUME Bad # {} PROVE FALSE
  <2>1. N \in 0 .. N
    OBVIOUS
  <2>2. QED
    BY <1>1, <2>1
<1>3. PICK m \in Bad : \A k \in Bad : m <= k
  <2>1. Bad \in SUBSET Nat
    OBVIOUS
  <2> HIDE DEF Bad
  <2>2. QED
    BY <1>2, <2>1, Smallest
<1>4. m # 0
  BY <1>1, <1>3
<1> HIDE DEF N
<1>5. N \in Nat
  BY DEF N
<1>6. m \in 1 .. N /\ m - 1 \in 0 .. N /\ ~(m <= m - 1)
  BY <1>3, <1>4, <1>5
<1>7. reach[m] = Wider(config, reach[m - 1]) /\ reach[m - 1] \cap R = {}
  BY <1>1, <1>3, <1>6 DEF Widens
<1>8. QED
  BY <1>3, <1>7 DEF Wider

-----------------------------------------------------------------------------
Ready(config, todo) == {id \in todo : config[id].depends \cap todo = {}}

\* order is the recursive function of ExecutionOrder, for the sets of some family.
Orders(config, family, order) ==
  order = [todo \in family |-> IF todo = {} THEN <<>> ELSE Sorted(Ready(config, todo)) \o order[todo \ Ready(config, todo)]]

\* Without a cycle some pack of every set is ready, and fewer are left.
LEMMA SomeReady ==
  ASSUME NEW config, NEW selected, IsFiniteSet(selected), ~Cyclic(config, selected),
         NEW todo \in SUBSET selected, todo # {}
  PROVE  /\ Ready(config, todo) # {} /\ Ready(config, todo) \subseteq todo
         /\ IsFiniteSet(todo) /\ Cardinality(todo) \in Nat
         /\ IsFiniteSet(todo \ Ready(config, todo)) /\ Cardinality(todo \ Ready(config, todo)) \in Nat
         /\ Cardinality(todo \ Ready(config, todo)) < Cardinality(todo)
<1> DEFINE ready == Ready(config, todo)
<1>1. ready # {} /\ ready \subseteq todo
  BY DEF Cyclic, Ready
<1> HIDE DEF ready
<1>2. IsFiniteSet(todo) /\ Cardinality(todo) \in Nat
  BY FS_Subset, FS_CardinalityType
<1>3. todo \ ready \in SUBSET todo /\ todo \ ready # todo
  BY <1>1
<1>4. IsFiniteSet(todo \ ready) /\ Cardinality(todo \ ready) \in Nat
  BY <1>2, <1>3, FS_Subset, FS_CardinalityType
<1>5. Cardinality(todo \ ready) <= Cardinality(todo) /\ Cardinality(todo \ ready) # Cardinality(todo)
  BY <1>2, <1>3, FS_Subset
<1>6. Cardinality(todo \ ready) < Cardinality(todo)
  BY <1>2, <1>4, <1>5
<1>7. QED
  BY <1>1, <1>2, <1>4, <1>6 DEF ready

LEMMA OrderExists ==
  ASSUME NEW config, NEW selected, IsFiniteSet(selected), ~Cyclic(config, selected)
  PROVE  \E order : Orders(config, SUBSET selected, order)
<1> DEFINE N == Cardinality(selected)
           Small(k) == {todo \in SUBSET selected : Cardinality(todo) <= k}
           Follow(f, todo) == Sorted(Ready(config, todo)) \o f[todo \ Ready(config, todo)]
           UpTo(k, f) == f = [todo \in Small(k) |-> IF todo = {} THEN <<>> ELSE Follow(f, todo)]
           Bad == {k \in 0 .. N : ~\E f : UpTo(k, f)}
<1>1. N \in Nat
  BY FS_CardinalityType
<1>2. \A todo \in SUBSET selected : Cardinality(todo) \in 0 .. N /\ IsFiniteSet(todo)
  <2> SUFFICES ASSUME NEW todo \in SUBSET selected PROVE Cardinality(todo) \in 0 .. N /\ IsFiniteSet(todo)
    OBVIOUS
  <2>1. IsFiniteSet(todo) /\ Cardinality(todo) <= N
    BY FS_Subset
  <2>2. Cardinality(todo) \in Nat
    BY <2>1, FS_CardinalityType
  <2> HIDE DEF N
  <2>3. QED
    BY <1>1, <2>1, <2>2
<1>3. \A todo \in SUBSET selected : todo # {} =>
        todo \ Ready(config, todo) \in SUBSET selected
        /\ Cardinality(todo \ Ready(config, todo)) < Cardinality(todo)
  BY SomeReady
<1> HIDE DEF N, Follow
<1>4. SUFFICES ASSUME Bad # {} PROVE FALSE
  <2>1. CASE Bad = {}
    <3>1. N \in 0 .. N
      BY <1>1
    <3>2. PICK f : UpTo(N, f)
      BY <2>1, <3>1
    <3>3. Small(N) = SUBSET selected
      BY <1>2
    <3>4. QED
      BY <3>2, <3>3 DEF Orders, Follow
  <2>2. QED
    BY <2>1
<1>5. PICK m \in Bad : \A k \in Bad : m <= k
  <2>1. Bad \in SUBSET Nat
    BY <1>1
  <2> HIDE DEF Bad
  <2>2. QED
    BY <1>4, <2>1, Smallest
<1>6. m \in 0 .. N
  BY <1>5
<1>7. m # 0
  <2>1. \A todo \in Small(0) : todo = {}
    <3> SUFFICES ASSUME NEW todo \in Small(0) PROVE todo = {}
      OBVIOUS
    <3>1. todo \in SUBSET selected /\ Cardinality(todo) <= 0
      OBVIOUS
    <3>2. IsFiniteSet(todo) /\ Cardinality(todo) = 0
      BY <1>1, <1>2, <3>1
    <3>3. QED
      BY <3>2, FS_EmptySet
  <2> HIDE DEF Small
  <2>2. UpTo(0, [todo \in Small(0) |-> <<>>])
    BY <2>1
  <2>3. 0 \notin Bad
    BY <2>2
  <2>4. QED
    BY <1>5, <2>3
<1>8. m - 1 \in 0 .. N /\ ~(m <= m - 1)
  BY <1>1, <1>6, <1>7
<1>9. PICK f : UpTo(m - 1, f)
  BY <1>5, <1>8
<1> DEFINE g == [todo \in Small(m) |-> IF todo = {} THEN <<>> ELSE Follow(f, todo)]
<1>10. \A todo \in Small(m) : todo # {} => todo \ Ready(config, todo) \in Small(m - 1)
  <2> SUFFICES ASSUME NEW todo \in Small(m), todo # {} PROVE todo \ Ready(config, todo) \in Small(m - 1)
    OBVIOUS
  <2>1. /\ todo \ Ready(config, todo) \in SUBSET selected
        /\ Cardinality(todo \ Ready(config, todo)) < Cardinality(todo) /\ Cardinality(todo) <= m
    BY <1>3
  <2>2. Cardinality(todo) \in Nat /\ Cardinality(todo \ Ready(config, todo)) \in Nat
    BY <1>1, <1>2, <2>1
  <2>3. QED
    BY <1>6, <2>1, <2>2
<1>11. Small(m - 1) \subseteq Small(m)
  BY <1>1, <1>2, <1>6
<1> HIDE DEF Small
<1>12. \A todo \in Small(m - 1) : g[todo] = f[todo]
  <2> SUFFICES ASSUME NEW todo \in Small(m - 1) PROVE g[todo] = f[todo]
    OBVIOUS
  <2>1. todo \in Small(m)
    BY <1>11
  <2>2. f[todo] = IF todo = {} THEN <<>> ELSE Follow(f, todo)
    BY <1>9
  <2>3. QED
    BY <2>1, <2>2
<1>13. \A todo \in Small(m) : todo # {} => Follow(g, todo) = Follow(f, todo)
  <2> HIDE DEF g
  <2> QED
    BY <1>10, <1>12 DEF Follow
<1>14. UpTo(m, g)
  <2>1. g = [todo \in Small(m) |-> IF todo = {} THEN <<>> ELSE Follow(f, todo)]
    OBVIOUS
  <2> HIDE DEF g
  <2>2. \A todo \in Small(m) : (IF todo = {} THEN <<>> ELSE Follow(f, todo)) = (IF todo = {} THEN <<>> ELSE Follow(g, todo))
    BY <1>13
  <2>3. QED
    BY <2>1, <2>2
<1>15. QED
  BY <1>5, <1>14

LEMMA ExecutionOrderIs ==
  ASSUME NEW config, NEW selected, IsFiniteSet(selected), ~Cyclic(config, selected)
  PROVE  \E order :
           /\ ExecutionOrder(config, selected) = order[selected]
           /\ Orders(config, SUBSET selected, order)
<1> DEFINE order == CHOOSE f : Orders(config, SUBSET selected, f)
<1>1. Orders(config, SUBSET selected, order)
  BY OrderExists
<1>2. ExecutionOrder(config, selected) = order[selected]
  BY DEF ExecutionOrder, Orders, Ready
<1>3. QED
  BY <1>1, <1>2

\* s has each pack of left in one place, after those of left it depends on.
Placed(config, todo, s) ==
  /\ s \in [1 .. Cardinality(todo) -> todo]
  /\ \A id \in todo : \E i \in 1 .. Cardinality(todo) : s[i] = id
  /\ \A i \in 1 .. Cardinality(todo) : \A p \in config[s[i]].depends \cap todo : \E j \in 1 .. i - 1 : s[j] = p

\* Those that are ready come first, then the others as they are placed.
LEMMA ReadyFirst ==
  ASSUME NEW config, NEW todo \in SUBSET Nat, IsFiniteSet(todo), NEW ready, ready = Ready(config, todo),
         NEW tail, Placed(config, todo \ ready, tail)
  PROVE  Placed(config, todo, Sorted(ready) \o tail)
<1> DEFINE a == Cardinality(ready)
           b == Cardinality(todo \ ready)
           head == Sorted(ready)
           s == head \o tail
<1>1. ready \in SUBSET todo /\ \A id \in ready : config[id].depends \cap todo = {}
  BY DEF Ready
<1>2. IsFiniteSet(ready) /\ IsFiniteSet(todo \ ready)
  BY <1>1, FS_Subset
<1>3. a \in Nat /\ b \in Nat /\ Cardinality(todo) \in Nat
  BY <1>2, FS_CardinalityType
<1>4. Cardinality(todo) = a + b
  <2>1. b = Cardinality(todo) - Cardinality(todo \cap ready)
    BY FS_Difference
  <2>2. todo \cap ready = ready
    BY <1>1
  <2>3. b = Cardinality(todo) - a
    BY <2>1, <2>2
  <2> HIDE DEF a, b
  <2>4. QED
    BY <1>3, <2>3
<1>5. head \in [1 .. a -> ready] /\ \A id \in ready : \E i \in 1 .. a : head[i] = id
  BY <1>1, <1>2, SortedIs
<1>6. /\ tail \in [1 .. b -> todo \ ready] /\ \A id \in todo \ ready : \E i \in 1 .. b : tail[i] = id
      /\ \A i \in 1 .. b : \A p \in config[tail[i]].depends \cap (todo \ ready) : \E j \in 1 .. i - 1 : tail[j] = p
  BY DEF Placed
<1> HIDE DEF a, b, head
<1>7. head \in Seq(todo) /\ Len(head) = a /\ tail \in Seq(todo) /\ Len(tail) = b
  BY <1>1, <1>3, <1>5, <1>6
<1>8. /\ s \in [1 .. a + b -> todo]
      /\ \A i \in 1 .. a : s[i] = head[i]
      /\ \A i \in 1 .. b : s[a + i] = tail[i]
  <2>1. s \in Seq(todo) /\ Len(s) = a + b
    BY <1>7
  <2>2. \A i \in 1 .. a : s[i] = head[i]
    BY <1>3, <1>7
  <2>3. \A i \in 1 .. b : s[a + i] = tail[i]
    BY <1>3, <1>7
  <2> HIDE DEF s
  <2>4. QED
    BY <2>1, <2>2, <2>3
<1> HIDE DEF s
<1>9. ASSUME NEW id \in todo PROVE \E i \in 1 .. a + b : s[i] = id
  <2>1. CASE id \in ready
    <3>1. PICK i \in 1 .. a : head[i] = id
      BY <1>5, <2>1
    <3>2. i \in 1 .. a + b
      BY <1>3
    <3>3. QED
      BY <1>8, <3>1, <3>2
  <2>2. CASE id \notin ready
    <3>1. PICK i \in 1 .. b : tail[i] = id
      BY <1>6, <2>2
    <3>2. a + i \in 1 .. a + b
      BY <1>3
    <3>3. QED
      BY <1>8, <3>1, <3>2
  <2>3. QED
    BY <2>1, <2>2
<1>10. ASSUME NEW i \in 1 .. a + b, NEW p \in config[s[i]].depends \cap todo
       PROVE  \E j \in 1 .. i - 1 : s[j] = p
  <2>1. CASE i \in 1 .. a
    <3>1. s[i] \in ready
      BY <1>5, <1>8, <2>1
    <3>2. QED
      BY <1>1, <3>1
  <2>2. CASE i \notin 1 .. a
    <3>1. i - a \in 1 .. b /\ a + (i - a) = i
      BY <1>3, <2>2
    <3>2. s[i] = tail[i - a]
      BY <1>8, <3>1
    <3>3. CASE p \in ready
      <4>1. PICK j \in 1 .. a : head[j] = p
        BY <1>5, <3>3
      <4>2. j \in 1 .. i - 1
        BY <1>3, <2>2
      <4>3. QED
        BY <1>8, <4>1, <4>2
    <3>4. CASE p \notin ready
      <4>1. PICK j \in 1 .. (i - a) - 1 : tail[j] = p
        BY <1>6, <3>1, <3>2, <3>4
      <4>2. a + j \in 1 .. i - 1 /\ j \in 1 .. b
        BY <1>3, <3>1
      <4>3. QED
        BY <1>8, <4>1, <4>2
    <3>5. QED
      BY <3>3, <3>4
  <2>3. QED
    BY <2>1, <2>2
<1>11. QED
  BY <1>4, <1>8, <1>9, <1>10 DEF Placed, s, head

LEMMA OrderPlaces ==
  ASSUME NEW config, NEW selected \in SUBSET Nat, IsFiniteSet(selected), ~Cyclic(config, selected)
  PROVE  Placed(config, selected, ExecutionOrder(config, selected))
<1>1. PICK order : /\ ExecutionOrder(config, selected) = order[selected]
                   /\ Orders(config, SUBSET selected, order)
  BY ExecutionOrderIs
<1> DEFINE N == Cardinality(selected)
           Bad == {k \in 0 .. N : \E todo \in SUBSET selected : Cardinality(todo) = k /\ ~Placed(config, todo, order[todo])}
<1>2. N \in Nat
  BY FS_CardinalityType
<1>3. \A todo \in SUBSET selected : Cardinality(todo) \in 0 .. N /\ IsFiniteSet(todo)
  <2> SUFFICES ASSUME NEW todo \in SUBSET selected PROVE Cardinality(todo) \in 0 .. N /\ IsFiniteSet(todo)
    OBVIOUS
  <2>1. IsFiniteSet(todo) /\ Cardinality(todo) <= N
    BY FS_Subset
  <2>2. Cardinality(todo) \in Nat
    BY <2>1, FS_CardinalityType
  <2> HIDE DEF N
  <2>3. QED
    BY <1>2, <2>1, <2>2
<1>4. SUFFICES ASSUME Bad # {} PROVE FALSE
  <2>1. CASE Bad = {}
    <3>1. Cardinality(selected) \in 0 .. N
      BY <1>3
    <3>2. QED
      BY <1>1, <2>1, <3>1
  <2>2. QED
    BY <2>1
<1>5. PICK m \in Bad : \A k \in Bad : m <= k
  <2>1. Bad \in SUBSET Nat
    BY <1>2
  <2> HIDE DEF Bad
  <2>2. QED
    BY <1>4, <2>1, Smallest
<1>6. PICK todo \in SUBSET selected : Cardinality(todo) = m /\ ~Placed(config, todo, order[todo])
  BY <1>5
<1>7. order[todo] = IF todo = {} THEN <<>> ELSE Sorted(Ready(config, todo)) \o order[todo \ Ready(config, todo)]
  BY <1>1 DEF Orders
<1>8. CASE todo = {}
  <2>1. Cardinality(todo) = 0 /\ order[todo] = <<>>
    BY <1>7, <1>8, FS_EmptySet
  <2>2. QED
    BY <1>6, <1>8, <2>1 DEF Placed
<1>9. CASE todo # {}
  <2> DEFINE rest == todo \ Ready(config, todo)
  <2>1. Cardinality(rest) < m /\ rest \in SUBSET selected
    BY <1>6, <1>9, SomeReady
  <2>2. m \in Nat /\ Cardinality(rest) \in 0 .. N
    BY <1>2, <1>3, <1>5, <2>1
  <2>3. Cardinality(rest) \notin Bad
    <3> HIDE DEF rest, Bad
    <3>1. ~(m <= Cardinality(rest))
      BY <2>1, <2>2
    <3>2. QED
      BY <1>5, <3>1
  <2>4. Placed(config, rest, order[rest])
    BY <2>1, <2>2, <2>3
  <2>5. IsFiniteSet(todo) /\ todo \in SUBSET Nat
    BY <1>3
  <2>6. Placed(config, todo, Sorted(Ready(config, todo)) \o order[rest])
    BY <2>4, <2>5, ReadyFirst
  <2>7. QED
    BY <1>6, <1>7, <1>9, <2>6
<1>10. QED
  BY <1>8, <1>9

-----------------------------------------------------------------------------
\* The operator the plan's paths come from, by its parts.
Choice(config, q) ==
  IF q.named # {} THEN ExplicitSelection(config, Candidates(config, q), q)
  ELSE IF q.mode = "all" THEN AllSelection(config, Candidates(config, q), q)
  ELSE ImpactedSelection(config, Candidates(config, q), q)

\* A plan without blockers: its closure has candidates only, each with a command
\* to run if it must, and no cycle.
LEMMA ReadyPlans ==
  ASSUME NEW config, NEW q, BuildPlan(config, q).ready
  PROVE  LET made == BuildPlan(config, q)
             chosen == Choice(config, q)
         IN /\ chosen.blockers = {}
            /\ made.selected = Dependencies(config, chosen.selected)
            /\ made.order = ExecutionOrder(config, made.selected)
            /\ made.selected \subseteq Candidates(config, q)
            /\ CommandBlockers(config, made.selected, q.stage) = {}
            /\ ~Cyclic(config, made.selected)
<1> DEFINE candidates == Candidates(config, q)
           chosen == Choice(config, q)
           closure == Dependencies(config, chosen.selected)
           graph == IF closure \ candidates # {} THEN {<<"invalid-dependency-graph", 0>>} ELSE {}
           empty == IF graph = {} THEN CommandBlockers(config, closure, q.stage) ELSE {}
           cycle == IF graph \cup empty = {} /\ Cyclic(config, closure)
                    THEN {<<"invalid-dependency-graph", 0>>} ELSE {}
           blockers == IF chosen.blockers # {} THEN chosen.blockers ELSE graph \cup empty \cup cycle
           ready == blockers = {}
<1>1. BuildPlan(config, q) =
        [ready |-> ready, blockers |-> blockers, stage |-> q.stage, mode |-> q.mode,
         paths |-> q.paths, named |-> q.named,
         selected |-> IF ready THEN closure ELSE chosen.selected,
         order |-> IF ready THEN ExecutionOrder(config, closure) ELSE <<>>]
  BY Zenon DEF BuildPlan, Choice
<1> HIDE DEF candidates, chosen, closure
<1>2. ready
  <2> HIDE DEF blockers, ready
  <2>1. QED
    BY <1>1
<1>3. chosen.blockers = {} /\ graph \cup empty \cup cycle = {}
  BY <1>2
<1>4. closure \subseteq candidates /\ graph = {}
  BY <1>3
<1>5. CommandBlockers(config, closure, q.stage) = {}
  BY <1>3, <1>4
<1>6. ~Cyclic(config, closure)
  BY <1>3, <1>4, <1>5
<1>7. BuildPlan(config, q).selected = closure /\ BuildPlan(config, q).order = ExecutionOrder(config, closure)
  BY <1>1, <1>2
<1>8. QED
  BY <1>3, <1>4, <1>5, <1>6, <1>7 DEF candidates, chosen, closure

Counted(config) == IsFiniteSet(DOMAIN config) /\ DOMAIN config \subseteq Nat

\* A ready plan has each pack of its closure once, after all it depends on.
LEMMA ReadyIsOrdered ==
  ASSUME NEW config, Counted(config), NEW q, BuildPlan(config, q).ready
  PROVE  LET made == BuildPlan(config, q)
         IN /\ Choice(config, q).selected \subseteq made.selected
            /\ made.selected \subseteq DOMAIN config
            /\ Placed(config, made.selected, made.order)
            /\ Cardinality(made.selected) \in Nat
            /\ \A id \in made.selected : config[id].depends \subseteq made.selected
<1> DEFINE closure == BuildPlan(config, q).selected
<1>1. /\ closure = Dependencies(config, Choice(config, q).selected)
      /\ BuildPlan(config, q).order = ExecutionOrder(config, closure)
      /\ closure \subseteq Candidates(config, q) /\ ~Cyclic(config, closure)
  BY ReadyPlans
<1> HIDE DEF closure
<1>2. closure \subseteq DOMAIN config
  BY <1>1 DEF Candidates
<1>3. IsFiniteSet(closure) /\ closure \in SUBSET Nat /\ Cardinality(closure) \in Nat
  BY <1>2, FS_Subset, FS_CardinalityType DEF Counted
<1>4. Placed(config, closure, ExecutionOrder(config, closure))
  BY <1>1, <1>3, OrderPlaces
<1>5. /\ Choice(config, q).selected \subseteq closure
      /\ \A id \in closure : config[id].depends \subseteq closure
  BY <1>1, <1>2, DependenciesClosed DEF Counted
<1>6. QED
  BY <1>1, <1>2, <1>3, <1>4, <1>5 DEF closure

LEMMA ReadyInOrder ==
  ASSUME Counted(packs), NEW q, BuildPlan(packs, q).ready
  PROVE  InOrder(BuildPlan(packs, q)) /\ Len(BuildPlan(packs, q).order) = Cardinality(BuildPlan(packs, q).selected)
<1> DEFINE selected == BuildPlan(packs, q).selected
           order == BuildPlan(packs, q).order
           n == Cardinality(selected)
<1>1. /\ selected \subseteq DOMAIN packs /\ Placed(packs, selected, order) /\ n \in Nat
      /\ \A id \in selected : packs[id].depends \subseteq selected
  BY ReadyIsOrdered
<1> HIDE DEF selected, order, n
<1>2. /\ order \in [1 .. n -> selected] /\ \A id \in selected : \E i \in 1 .. n : order[i] = id
      /\ \A i \in 1 .. n : \A p \in packs[order[i]].depends \cap selected : \E j \in 1 .. i - 1 : order[j] = p
  BY <1>1 DEF Placed, n
<1>3. order \in Seq(selected) /\ Len(order) = n /\ DOMAIN order = 1 .. n
  BY <1>1, <1>2
<1>4. ToSet(order) = selected
  BY <1>2, <1>3 DEF ToSet
<1>5. \A i \in DOMAIN order : \A p \in packs[order[i]].depends : \E j \in 1 .. i - 1 : order[j] = p
  BY <1>1, <1>2, <1>3
<1>6. QED
  BY <1>1, <1>3, <1>4, <1>5 DEF InOrder, Ids, selected, order, n

-----------------------------------------------------------------------------
\* Whoever replaces a built-in is the one that says so; it is a candidate wherever
\* the built-in is, and nobody replaces it.
LEMMA OwnersReplace ==
  ASSUME NEW config, Loads(config), NEW old \in Replaced(config)
  PROVE  LET owner == OwnerOf(config, old)
         IN /\ owner \in DOMAIN config \ Replaced(config) /\ config[owner].active
            /\ config[old].builtin /\ config[old].owner
            /\ config[old].stages \subseteq config[owner].stages
<1> DEFINE owner == OwnerOf(config, old)
<1>1. owner \in DOMAIN config /\ old \in config[owner].replaces
  BY DEF Replaced, OwnerOf
<1> HIDE DEF owner
<1>2. \A id \in DOMAIN config : \A other \in config[id].replaces :
        ~config[id].builtin /\ config[id].active /\ MayReplace(config, id, other)
  BY DEF Loads, ReplacementClaims
<1>3. ~config[owner].builtin /\ config[owner].active
  BY <1>1, <1>2
<1>4. config[old].builtin /\ config[old].owner /\ config[old].stages \subseteq config[owner].stages
  BY <1>1, <1>2 DEF MayReplace
<1>5. \A id \in Replaced(config) : config[id].builtin
  BY <1>2 DEF Replaced, MayReplace
<1>6. QED
  BY <1>1, <1>3, <1>4, <1>5 DEF owner

\* Nothing a plan selects is replaced.
LEMMA NoneReplaced ==
  ASSUME NEW config, Counted(config), Loads(config), NEW q, BuildPlan(config, q).ready, q.named = {}
  PROVE  BuildPlan(config, q).selected \cap Replaced(config) = {}
<1>1. Cardinality(DOMAIN config) \in Nat
  BY FS_CardinalityType DEF Counted
<1>2. Choice(config, q).selected \cap Replaced(config) = {}
  BY DEF Choice, AllSelection, ImpactedSelection, Selection, Matching
<1>3. \A id \in DOMAIN config : config[id].depends \cap Replaced(config) = {}
  BY DEF Loads, ReplacementDependencies
<1>4. BuildPlan(config, q).selected = Dependencies(config, Choice(config, q).selected)
  BY ReadyPlans
<1>5. QED
  BY <1>1, <1>2, <1>3, <1>4, DependenciesAvoid

\* An impacted plan without blockers leaves no path to nobody.
LEMMA PathsAreCovered ==
  ASSUME NEW config, NEW q, q.named = {}, q.mode # "all", Choice(config, q).blockers = {}
  PROVE  LET chosen == Choice(config, q).selected
             effective == Candidates(config, q) \ Replaced(config)
         IN /\ \A id \in effective : config[id].always \/ config[id].globs \cap q.paths # {} => id \in chosen
            /\ \A path \in q.paths : CoverageGaps(config, Candidates(config, q), path) = {}
            /\ \A path \in q.paths : \E id \in chosen : config[id].owner /\ path \in config[id].globs
<1> DEFINE candidates == Candidates(config, q)
           effective == candidates \ Replaced(config)
           matched(path) == Matching(config, candidates, path) \cap effective
           gaps == {path \in q.paths : CoverageGaps(config, candidates, path) # {}}
           unknown == {path \in q.paths : \A id \in matched(path) : ~config[id].owner} \ gaps
           chosen == {id \in effective : config[id].always} \cup UNION {matched(path) : path \in q.paths}
           blockers == {<<"replacement-coverage-gap", path>> : path \in gaps}
                       \cup {<<"unknown-impact", path>> : path \in unknown}
<1>1. Choice(config, q) = [selected |-> chosen, blockers |-> blockers]
  BY Zenon DEF Choice, ImpactedSelection, Selection
<1> HIDE DEF candidates
<1>2. Choice(config, q).selected = chosen /\ blockers = {}
  <2> HIDE DEF chosen, blockers
  <2>1. Choice(config, q).selected = chosen /\ Choice(config, q).blockers = blockers
    BY <1>1
  <2>2. QED
    BY <2>1
<1>3. gaps = {} /\ unknown = {}
  <2> HIDE DEF gaps, unknown, chosen
  <2>1. \A path \in gaps : <<"replacement-coverage-gap", path>> \in blockers
    OBVIOUS
  <2>2. \A path \in unknown : <<"unknown-impact", path>> \in blockers
    OBVIOUS
  <2> HIDE DEF blockers
  <2>3. QED
    BY <1>2, <2>1, <2>2
<1>4. \A path \in q.paths : CoverageGaps(config, candidates, path) = {}
  BY <1>3
<1>5. \A path \in q.paths : \E id \in matched(path) : config[id].owner
  BY <1>3, <1>4
<1>6. \A path : \A id : id \in matched(path) <=> id \in effective /\ path \in config[id].globs
  BY DEF Matching
<1> HIDE DEF matched, effective
<1>7. \A path \in q.paths : matched(path) \subseteq chosen
  OBVIOUS
<1>8. \A path \in q.paths : \E id \in chosen : config[id].owner /\ path \in config[id].globs
  BY <1>5, <1>6, <1>7
<1>9. \A id \in effective : config[id].always \/ config[id].globs \cap q.paths # {} => id \in chosen
  BY <1>6, <1>7
<1>10. QED
  BY <1>2, <1>4, <1>8, <1>9 DEF candidates, effective

LEMMA ReadyCovers ==
  ASSUME packs \in Configs, Loads(packs), NEW q, BuildPlan(packs, q).ready, q.named = {}
  PROVE  LET made == BuildPlan(packs, q)
             concerned == {id \in Candidates(packs, q) :
                q.mode = "all" \/ packs[id].always \/ packs[id].globs \cap q.paths # {}}
         IN /\ made.selected \cap Replaced(packs) = {}
            /\ \A id \in concerned : Effective(id) \in made.selected
            /\ q.mode = "impacted" => \A path \in q.paths :
                 \E id \in made.selected : packs[id].owner /\ path \in packs[id].globs
<1> DEFINE selected == BuildPlan(packs, q).selected
           candidates == Candidates(packs, q)
           chosen == Choice(packs, q)
<1>1. Counted(packs)
  BY ExecutionAssumption DEF Counted
<1>2. selected \cap Replaced(packs) = {}
  BY <1>1, NoneReplaced
<1>3. chosen.selected \subseteq selected /\ chosen.blockers = {}
  BY <1>1, ReadyIsOrdered, ReadyPlans
<1>4. ASSUME NEW id \in candidates, id \in Replaced(packs)
      PROVE  /\ OwnerOf(packs, id) \in candidates \ Replaced(packs)
             /\ packs[id].builtin /\ packs[id].owner
  BY <1>4, OwnersReplace DEF Candidates
<1>5. CASE q.mode = "all"
  <2>1. chosen.selected = candidates \ Replaced(packs)
    BY <1>5 DEF Choice, AllSelection, Selection
  <2>2. QED
    BY <1>2, <1>3, <1>4, <1>5, <2>1 DEF Effective
<1>6. CASE q.mode # "all"
  <2>1. /\ \A id \in candidates \ Replaced(packs) :
             packs[id].always \/ packs[id].globs \cap q.paths # {} => id \in chosen.selected
        /\ \A path \in q.paths : CoverageGaps(packs, candidates, path) = {}
        /\ \A path \in q.paths : \E id \in chosen.selected : packs[id].owner /\ path \in packs[id].globs
    BY <1>3, <1>6, PathsAreCovered
  <2>2. ASSUME NEW id \in candidates, packs[id].always \/ packs[id].globs \cap q.paths # {}
        PROVE  Effective(id) \in selected
    <3>1. CASE id \notin Replaced(packs)
      BY <1>3, <2>1, <2>2, <3>1 DEF Effective
    <3>2. CASE id \in Replaced(packs)
      <4>1. ~packs[id].always
        BY <1>4, <3>2, ExecutionAssumption DEF Candidates
      <4>2. PICK path \in q.paths : path \in packs[id].globs
        BY <2>2, <4>1
      <4>3. path \in packs[OwnerOf(packs, id)].globs
        BY <1>4, <2>1, <3>2, <4>2 DEF CoverageGaps, Matching
      <4>4. OwnerOf(packs, id) \in chosen.selected
        BY <1>4, <2>1, <3>2, <4>2, <4>3
      <4>5. QED
        BY <1>3, <3>2, <4>4 DEF Effective
    <3>3. QED
      BY <3>1, <3>2
  <2>3. QED
    BY <1>2, <1>3, <1>6, <2>1, <2>2
<1>7. QED
  BY <1>5, <1>6

LEMMA ReadyIsWhole ==
  ASSUME packs \in Configs, NEW q, BuildPlan(packs, q).ready
  PROVE  LET made == BuildPlan(packs, q)
         IN /\ q.named \subseteq made.selected
            /\ InOrder(made) /\ Len(made.order) = Cardinality(made.selected)
            /\ \A id \in made.selected : packs[id].blocking /\ q.stage # NoStage =>
                 \E c \in DOMAIN packs[id].commands : CommandApplies(packs[id].commands[c], q.stage)
<1> DEFINE made == BuildPlan(packs, q)
<1>1. Counted(packs)
  BY ExecutionAssumption DEF Counted
<1>2. InOrder(made) /\ Len(made.order) = Cardinality(made.selected)
  BY <1>1, ReadyInOrder
<1>3. /\ Choice(packs, q).selected \subseteq made.selected /\ Choice(packs, q).blockers = {}
      /\ made.selected \subseteq Candidates(packs, q)
      /\ CommandBlockers(packs, made.selected, q.stage) = {}
  BY <1>1, ReadyIsOrdered, ReadyPlans
<1> HIDE DEF made
<1>4. q.named \subseteq made.selected
  <2>1. CASE q.named # {}
    <3> DEFINE candidates == Candidates(packs, q)
               lost == {<<"unknown-explicit-pack", id>> : id \in q.named \ DOMAIN packs}
               away == {<<"explicit-pack-unavailable", id>> : id \in (q.named \cap DOMAIN packs) \ candidates}
    <3>1. Choice(packs, q) = [selected |-> q.named \cap candidates, blockers |-> lost \cup away]
      BY <2>1, Zenon DEF Choice, ExplicitSelection, Selection
    <3> HIDE DEF candidates
    <3>2. lost \cup away = {} /\ Choice(packs, q).selected = q.named \cap candidates
      <4> HIDE DEF lost, away
      <4> QED
        BY <1>3, <3>1
    <3>3. q.named \subseteq candidates
      BY <3>2
    <3>4. QED
      BY <1>3, <3>2, <3>3
  <2>2. QED
    BY <2>1
<1>5. ASSUME NEW id \in made.selected, packs[id].blocking, q.stage # NoStage
      PROVE  \E c \in DOMAIN packs[id].commands : CommandApplies(packs[id].commands[c], q.stage)
  <2>1. q.stage \notin StageGaps(packs[id])
    BY <1>3, <1>5 DEF CommandBlockers
  <2>2. packs[id].active /\ q.stage \in packs[id].stages
    BY <1>3, <1>5 DEF Candidates
  <2>3. QED
    BY <2>1, <2>2 DEF StageGaps
<1>6. QED
  BY <1>2, <1>4, <1>5 DEF made

-----------------------------------------------------------------------------
\* The plans of all runs are in order.
PlansInv == packs \in Configs /\ plan = [r \in Runs |-> plan[r]] /\ PlansInOrder

LEMMA PlanningKeeps ==
  ASSUME NEW r \in Runs, PlansInv, packs' = packs, NEW resolved, NEW resolves \in BOOLEAN,
         Planned(r, resolved, resolves)
  PROVE  PlansInv'
<1> DEFINE paths == IF request[r].paths # {} THEN request[r].paths ELSE DOMAIN resolved.records
           q == [request[r] EXCEPT !.paths = paths]
           made == BuildPlan(packs, q)
           ready == made.ready /\ resolves
<1>1. plan' = [plan EXCEPT ![r] = [made EXCEPT !.ready = ready]]
  BY DEF Planned
<1>2. ready => InOrder(made)
  <2>1. Counted(packs)
    BY ExecutionAssumption DEF PlansInv, Counted
  <2>2. QED
    BY <2>1, ReadyInOrder
<1>3. "ready" \in DOMAIN made /\ DOMAIN made = {"ready", "blockers", "stage", "mode", "paths", "named", "selected", "order"}
  BY DEF BuildPlan
<1> HIDE DEF ready, made
<1>4. /\ plan'[r].ready = ready /\ plan'[r].selected = made.selected /\ plan'[r].order = made.order
      /\ \A p \in Runs \ {r} : plan'[p] = plan[p]
      /\ plan' = [p \in Runs |-> plan'[p]]
  BY <1>1, <1>3 DEF PlansInv
<1>5. plan'[r].ready => InOrder(plan[r])'
  BY <1>2, <1>4 DEF InOrder, Ids
<1>6. ASSUME NEW p \in Runs \ {r}, plan'[p].ready PROVE InOrder(plan[p])'
  BY <1>4, <1>6 DEF InOrder, Ids, PlansInv, PlansInOrder
<1>7. QED
  BY <1>4, <1>5, <1>6 DEF PlansInv, PlansInOrder

\* Every other step leaves plans and configuration alone.
LEMMA PlansStay ==
  ASSUME PlansInv, UNCHANGED <<packs, plan>>
  PROVE  PlansInv'
BY DEF PlansInv, PlansInOrder, InOrder, Ids

THEOREM PlansInvariant == Spec => []PlansInv
<1>1. Init => PlansInv
  BY DEF Init, PlansInv, PlansInOrder, NoPlan
<1>2. PlansInv /\ [Next]_vars => PlansInv'
  <2> SUFFICES ASSUME PlansInv, [Next]_vars PROVE PlansInv'
    OBVIOUS
  <2>1. ASSUME NEW r \in Runs, Look(r) PROVE PlansInv'
    <3>1. packs' = packs
      BY <2>1 DEF Look, Same
    <3>2. \/ UNCHANGED plan \/ Planned(r, AllScope, TRUE) \/ Planned(r, NoScope(request[r]), FALSE)
      BY <2>1 DEF Look
    <3>3. QED
      BY <3>1, <3>2, PlanningKeeps, PlansStay
  <2>2. ASSUME NEW r \in Runs, Bind(r) PROVE PlansInv'
    <3>1. packs' = packs
      BY <2>2 DEF Bind, Same
    <3>2. UNCHANGED plan \/ Planned(r, NoScope(request[r]), FALSE)
      BY <2>2 DEF Bind
    <3>3. QED
      BY <3>1, <3>2, PlanningKeeps, PlansStay
  <2>3. ASSUME NEW r \in Runs, Confirm(r) PROVE PlansInv'
    <3>1. packs' = packs
      BY <2>3 DEF Confirm, Same
    <3>2. \/ Planned(r, Scope("changed", PacketMode(request[r]), scope[r].records), TRUE)
          \/ Planned(r, NoScope(request[r]), FALSE)
      BY <2>3 DEF Confirm
    <3>3. QED
      BY <3>1, <3>2, PlanningKeeps
  <2>4. CASE UNCHANGED <<packs, plan>>
    BY <2>4, PlansStay
  <2>5. CASE \E r \in Runs : Step(r)
    <3> SUFFICES ASSUME NEW r \in Runs, Step(r), ~Look(r), ~Bind(r), ~Confirm(r) PROVE UNCHANGED <<packs, plan>>
      BY <2>1, <2>2, <2>3, <2>4, <2>5
    <3>1. CASE Refuse(r) \/ Claim(r) \/ Mark(r) \/ Unmark(r) \/ SweepLook(r) \/ SweepRemove(r)
      BY <3>1 DEF Refuse, Claim, Mark, Unmark, SweepLook, SweepRemove, Same, planVars
    <3>2. CASE Materialize(r) \/ LeaveOut(r) \/ OpenPack(r) \/ AllPacks(r)
      BY <3>2 DEF Materialize, LeaveOut, OpenPack, AllPacks, Same, planVars
    <3>3. CASE StartCommand(r) \/ EndCommand(r) \/ CannotStart(r) \/ ClosePack(r)
      BY <3>3 DEF StartCommand, EndCommand, CannotStart, ClosePack, Same, planVars
    <3>4. QED
      BY <3>1, <3>2, <3>3 DEF Step
  <2>6. CASE \E r \in Runs : Tamper(r) \/ WriteManifest(r) \/ Kill(r)
    BY <2>4, <2>6 DEF Tamper, WriteManifest, Kill, Same, planVars
  <2>7. CASE UNCHANGED <<packs, at, planVars, packVars, victims, treeVars, kills>> \/ UNCHANGED vars
    BY <2>4, <2>7 DEF planVars, vars
  <2>8. QED
    BY <2>5, <2>6, <2>7 DEF Next
<1>3. QED
  BY <1>1, <1>2, PTL DEF Spec

\* For every configuration, request and selection: a ready plan looks after every
\* concern of a request, replaced packs through their replacements, in an order
\* that can be run (build_plan, _impacted_selection, _dependency_closure,
\* _execution_order).
THEOREM PlansAreSound == Spec => []PlanSound
<1>1. PlansInv => PlanSound
  <2> SUFFICES ASSUME PlansInv PROVE PlanSound
    OBVIOUS
  <2>1. PlansInOrder /\ packs \in Configs
    BY DEF PlansInv
  <2>2. Loads(packs) => PlanCovers
    BY <2>1, ReadyCovers DEF PlanCovers
  <2>3. PlanOrdered
    BY <2>1, ReadyIsWhole DEF PlanOrdered
  <2>4. QED
    BY <2>1, <2>2, <2>3 DEF PlanSound
<1>2. QED
  BY <1>1, PlansInvariant, PTL

-----------------------------------------------------------------------------
(* The verdict. *)

Statuses == {"failed", "warning", "passed", "not-applicable"}
Exits == {result.exit : result \in Results} \cup {1}
Terms == {result.term : result \in Results} \cup {"packet-integrity"}
Kinds == {"none", "timeout", "cancelled", "invalid-output", "execution", "check", "integrity"}
CommandItems ==
  [status : Statuses, exit : Exits, term : Terms, kind : Kinds, process : BOOLEAN, integrity : BOOLEAN]
PackItems ==
  [pack : Ids, commands : Seq(CommandItems), manifest : {"absent", "valid", "invalid"}, bound : BOOLEAN,
   status : {"failed", "warning", "passed"}]

JudgeTypes ==
  /\ OnRuns(packet) /\ OnRuns(plan) /\ OnRuns(blocked) /\ OnRuns(failed)
  /\ commands \in [Runs -> Seq(CommandItems)] /\ evidence \in [Runs -> Seq(PackItems)]

\* Without a verdict nothing has run; with one, a run had a plan or was refused.
FreshOf(r) ==
  /\ verdict[r].status = "none" => verdict[r] = NoVerdict
  /\ verdict[r] = NoVerdict => evidence[r] = <<>> /\ blocked[r] = {} /\ failed[r] = {}
  /\ verdict[r] = NoVerdict /\ at[r] = "over" => plan[r] = NoPlan
  /\ at[r] \in {"planned", "marking", "looking", "sweeping", "opened"} /\ verdict[r] = NoVerdict => plan[r].ready

\* While packs run, they are those of the plan, in its order, up to the one at hand.
ProgressOf(r) ==
  InPacks(r) =>
    /\ plan[r].ready
    /\ \E k \in 0 .. Len(plan[r].order) :
         /\ left[r] = SubSeq(plan[r].order, k + 1, Len(plan[r].order))
         /\ Ran(r) \cup blocked[r] = {plan[r].order[i] : i \in 1 .. k}
    /\ InPack(r) => left[r] # <<>> /\ Missing(r) = {}

FailedOf(r) ==
  InPacks(r) =>
    /\ blocked[r] \subseteq failed[r]
    /\ \A i \in DOMAIN evidence[r] : evidence[r][i].status = "failed" => evidence[r][i].pack \in failed[r]

NeedsOf(r) ==
  InPacks(r) => \A i \in DOMAIN evidence[r] : \A p \in packs[evidence[r][i].pack].depends : Succeeded(r, p)

Marked(items) == \E c \in DOMAIN items : items[c].integrity

\* A packet once changed is known by the next command's evidence.
IntactOf(r) ==
  /\ at[r] = "packs" => packet[r].intact
  /\ at[r] \in {"command", "inspect"} => packet[r].intact \/ Marked(commands[r])

\* A command that ended badly counts as failed.
Honest(c) ==
  /\ c.exit # 0 \/ c.term # "completed" => c.process \/ c.integrity
  /\ c.process => c.status = "failed"

HonestOf(r) == InPack(r) => \A c \in DOMAIN commands[r] : Honest(commands[r][c])

Proven(item) ==
  /\ item.manifest # "invalid"
  /\ \A c \in DOMAIN item.commands : item.commands[c].exit = 0 /\ ~item.commands[c].integrity
  /\ packs[item.pack].blocking => item.commands # <<>> /\ item.status # "failed"

ProvenOf(r) ==
  /\ verdict[r].status # "failed" => \A i \in DOMAIN evidence[r] : Proven(evidence[r][i])
  /\ verdict[r].status = "passed" => failed[r] = {} /\ blocked[r] = {}

CompleteOf(r) ==
  at[r] \in {"closing", "looking", "sweeping", "over"} /\ verdict[r].status \notin {"none", "failed", "blocked"} =>
    Ran(r) \cup blocked[r] = plan[r].selected /\ packet[r].intact

Judged(r) ==
  /\ FreshOf(r) /\ ProgressOf(r) /\ FailedOf(r) /\ NeedsOf(r)
  /\ IntactOf(r) /\ HonestOf(r) /\ ProvenOf(r) /\ CompleteOf(r)

VerdictInv == JudgeTypes /\ \A r \in Runs : Judged(r)

\* Only r is concerned.
Solo(r) ==
  /\ packs' = packs
  /\ \A q \in Runs \ {r} :
       /\ at'[q] = at[q] /\ verdict'[q] = verdict[q] /\ plan'[q] = plan[q] /\ packet'[q] = packet[q]
       /\ left'[q] = left[q] /\ commands'[q] = commands[q] /\ evidence'[q] = evidence[q]
       /\ blocked'[q] = blocked[q] /\ failed'[q] = failed[q]

LEMMA SameJudged ==
  ASSUME NEW q \in Runs, Judged(q), packs' = packs,
         at'[q] = at[q], verdict'[q] = verdict[q], plan'[q] = plan[q], packet'[q] = packet[q],
         left'[q] = left[q], commands'[q] = commands[q], evidence'[q] = evidence[q],
         blocked'[q] = blocked[q], failed'[q] = failed[q]
  PROVE  Judged(q)'
<1>1. FreshOf(q)'
  BY DEF Judged, FreshOf, NoVerdict, NoPlan
<1>2. ProgressOf(q)'
  <2>1. Ran(q)' = Ran(q) /\ Missing(q)' = Missing(q)
    BY DEF Ran, Missing, Pack
  <2>2. (InPacks(q)' <=> InPacks(q)) /\ (InPack(q)' <=> InPack(q))
    BY DEF InPacks, InPack
  <2>3. ProgressOf(q)
    BY DEF Judged
  <2>4. CASE InPacks(q)
    <3>1. PICK k \in 0 .. Len(plan[q].order) :
            /\ left[q] = SubSeq(plan[q].order, k + 1, Len(plan[q].order))
            /\ Ran(q) \cup blocked[q] = {plan[q].order[i] : i \in 1 .. k}
      BY <2>3, <2>4 DEF ProgressOf
    <3>2. /\ k \in 0 .. Len(plan'[q].order)
          /\ left'[q] = SubSeq(plan'[q].order, k + 1, Len(plan'[q].order))
          /\ Ran(q)' \cup blocked'[q] = {plan'[q].order[i] : i \in 1 .. k}
      BY <2>1, <3>1
    <3>3. plan'[q].ready /\ (InPack(q)' => left'[q] # <<>> /\ Missing(q)' = {})
      BY <2>1, <2>2, <2>3, <2>4 DEF ProgressOf
    <3>4. QED
      BY <3>2, <3>3 DEF ProgressOf
  <2>5. CASE ~InPacks(q)
    BY <2>2, <2>5 DEF ProgressOf
  <2>6. QED
    BY <2>4, <2>5
<1>3. FailedOf(q)' /\ NeedsOf(q)'
  BY DEF Judged, FailedOf, NeedsOf, InPacks, Succeeded
<1>4. IntactOf(q)' /\ HonestOf(q)'
  BY DEF Judged, IntactOf, HonestOf, InPack
<1>5. ProvenOf(q)' /\ CompleteOf(q)'
  BY DEF Judged, ProvenOf, Proven, CompleteOf, Ran
<1>6. QED
  BY <1>1, <1>2, <1>3, <1>4, <1>5 DEF Judged

LEMMA OthersJudged ==
  ASSUME NEW r \in Runs, VerdictInv, Solo(r), JudgeTypes', Judged(r)'
  PROVE  VerdictInv'
<1>1. ASSUME NEW q \in Runs, q # r PROVE Judged(q)'
  BY <1>1, SameJudged DEF VerdictInv, Solo
<1>2. QED
  BY <1>1 DEF VerdictInv

\* The steps that change neither what ran nor what is left to run.
TurnMoves(r) ==
  \/ /\ at[r] \in {"asked", "binding"} /\ at'[r] \in {"asked", "binding"}
     /\ verdict'[r] = verdict[r] /\ plan'[r] = plan[r]
  \/ at[r] \in {"asked", "binding"} /\ at'[r] = "planned" /\ plan'[r].ready /\ verdict'[r] = verdict[r]
  \/ at[r] \in {"asked", "binding"} /\ at'[r] = "over" /\ verdict'[r].status \in {"failed", "blocked"}
  \/ /\ verdict[r] = NoVerdict /\ verdict'[r] = verdict[r] /\ plan'[r] = plan[r]
     /\ at[r] \in {"planned", "marking", "looking", "sweeping"}
     /\ at'[r] \in {"marking", "looking", "sweeping", "opened"}
  \/ /\ verdict[r] # NoVerdict /\ verdict'[r] = verdict[r] /\ plan'[r] = plan[r]
     /\ at[r] \in {"closing", "looking", "sweeping"} /\ at'[r] \in {"looking", "sweeping", "over"}
  \/ at'[r] = "closing" /\ verdict'[r].status = "failed" /\ plan'[r] = plan[r]
  \/ at'[r] = "killed" /\ verdict'[r] = verdict[r] /\ plan'[r] = plan[r]

Turn(r) ==
  /\ UNCHANGED <<packs, packet, left, commands, evidence, blocked, failed>>
  /\ at' = [at EXCEPT ![r] = at'[r]]
  /\ verdict' = [verdict EXCEPT ![r] = verdict'[r]]
  /\ plan' = [plan EXCEPT ![r] = plan'[r]]
  /\ TurnMoves(r)

LEMMA TurnKeeps ==
  ASSUME NEW r \in Runs, EvidenceInv, VerdictInv, Turn(r)
  PROVE  VerdictInv'
<1>1. UNCHANGED <<packs, packet, left, commands, evidence, blocked, failed>>
  BY DEF Turn
<1>2. /\ at \in [Runs -> Places] /\ OnRuns(verdict) /\ OnRuns(plan)
  BY DEF EvidenceInv, TreeTypes, VerdictInv, JudgeTypes
<1>3. \A q \in Runs \ {r} : at'[q] = at[q] /\ verdict'[q] = verdict[q] /\ plan'[q] = plan[q]
  BY <1>2 DEF Turn, OnRuns
<1>4. OnRuns(plan)'
  BY <1>2 DEF Turn, OnRuns
<1>5. JudgeTypes'
  BY <1>1, <1>4 DEF VerdictInv, JudgeTypes, OnRuns, PackItems, CommandItems, Ids
<1>6. Solo(r)
  BY <1>1, <1>3 DEF Solo
<1>7. Judged(r) /\ Of(r)
  BY DEF VerdictInv, EvidenceInv
<1>8. Waits(r) => verdict[r] = NoVerdict
  BY <1>7 DEF Of, WaitingOf
<1>9. ~InPacks(r)'
  BY DEF Turn, TurnMoves, InPacks
<1>10. ProgressOf(r)' /\ FailedOf(r)' /\ NeedsOf(r)' /\ IntactOf(r)' /\ HonestOf(r)'
  BY <1>9 DEF ProgressOf, FailedOf, NeedsOf, IntactOf, HonestOf, InPacks, InPack
<1>11. FreshOf(r)' /\ ProvenOf(r)' /\ CompleteOf(r)'
  <2>1. NoVerdict.status = "none" /\ NoVerdict' = NoVerdict
    BY DEF NoVerdict
  <2>2. Ran(r)' = Ran(r)
    BY <1>1 DEF Ran
  <2>3. \A item : Proven(item)' <=> Proven(item)
    BY <1>1 DEF Proven
  <2>4. CASE /\ at[r] \in {"asked", "binding"} /\ at'[r] \in {"asked", "binding"}
             /\ verdict'[r] = verdict[r] /\ plan'[r] = plan[r]
    BY <1>1, <1>7, <1>8, <2>1, <2>3, <2>4 DEF Judged, FreshOf, ProvenOf, CompleteOf, Waits
  <2>5. CASE at[r] \in {"asked", "binding"} /\ at'[r] = "planned" /\ plan'[r].ready /\ verdict'[r] = verdict[r]
    BY <1>1, <1>7, <1>8, <2>1, <2>3, <2>5 DEF Judged, FreshOf, ProvenOf, CompleteOf, Waits
  <2>6. CASE at[r] \in {"asked", "binding"} /\ at'[r] = "over" /\ verdict'[r].status \in {"failed", "blocked"}
    BY <1>1, <1>7, <1>8, <2>1, <2>3, <2>6 DEF Judged, FreshOf, ProvenOf, CompleteOf, Waits
  <2>7. CASE /\ verdict[r] = NoVerdict /\ verdict'[r] = verdict[r] /\ plan'[r] = plan[r]
             /\ at[r] \in {"planned", "marking", "looking", "sweeping"}
             /\ at'[r] \in {"marking", "looking", "sweeping", "opened"}
    BY <1>1, <1>7, <2>1, <2>3, <2>7 DEF Judged, FreshOf, ProvenOf, CompleteOf
  <2>8. CASE /\ verdict[r] # NoVerdict /\ verdict'[r] = verdict[r] /\ plan'[r] = plan[r]
             /\ at[r] \in {"closing", "looking", "sweeping"} /\ at'[r] \in {"looking", "sweeping", "over"}
    BY <1>1, <1>7, <2>1, <2>2, <2>3, <2>8 DEF Judged, FreshOf, ProvenOf, CompleteOf
  <2>9. CASE at'[r] = "closing" /\ verdict'[r].status = "failed" /\ plan'[r] = plan[r]
    BY <2>1, <2>9 DEF FreshOf, ProvenOf, CompleteOf
  <2>10. CASE at'[r] = "killed" /\ verdict'[r] = verdict[r] /\ plan'[r] = plan[r]
    BY <1>1, <1>7, <2>1, <2>3, <2>10 DEF Judged, FreshOf, ProvenOf, CompleteOf
  <2>11. QED
    BY <2>4, <2>5, <2>6, <2>7, <2>8, <2>9, <2>10 DEF Turn, TurnMoves
<1>12. Judged(r)'
  BY <1>10, <1>11 DEF Judged
<1>13. QED
  BY <1>5, <1>6, <1>12, OthersJudged

LEMMA StayingPlan ==
  ASSUME NEW r \in Runs, VerdictInv
  PROVE  plan' = plan => plan' = [plan EXCEPT ![r] = plan'[r]]
  BY DEF VerdictInv, JudgeTypes, OnRuns

LEMMA PlannedTurns ==
  ASSUME NEW r \in Runs, NEW resolved, NEW resolves, EvidenceInv, VerdictInv,
         at[r] \in {"asked", "binding"}, Planned(r, resolved, resolves),
         UNCHANGED <<packs, packet, left, commands, evidence, blocked, failed>>
  PROVE  Turn(r)
<1> DEFINE paths == IF request[r].paths # {} THEN request[r].paths ELSE DOMAIN resolved.records
           made == BuildPlan(packs, [request[r] EXCEPT !.paths = paths])
           ready == made.ready /\ resolves
           new == [made EXCEPT !.ready = ready]
<1>1. /\ plan' = [plan EXCEPT ![r] = new]
      /\ IF ready THEN Goes(r, "planned") /\ UNCHANGED verdict
                  ELSE Ends(r, "blocked", "selection-blocked")
  BY DEF Planned
<1>2. ready => new.ready
  BY DEF BuildPlan
<1> HIDE DEF new
<1>3. plan'[r] = new /\ plan' = [plan EXCEPT ![r] = plan'[r]]
  BY <1>1 DEF VerdictInv, JudgeTypes, OnRuns
<1>4. CASE ready
  <2>1. at'[r] = "planned" /\ at' = [at EXCEPT ![r] = at'[r]]
    BY <1>1, <1>4, Going, PlacesAre
  <2>2. QED
    BY <1>1, <1>2, <1>3, <1>4, <2>1, Staying DEF Turn, TurnMoves
<1>5. CASE ~ready
  <2>1. at'[r] = "over" /\ at' = [at EXCEPT ![r] = at'[r]]
    BY <1>1, <1>5, Going, PlacesAre DEF Ends
  <2>2. /\ verdict'[r] = [status |-> "blocked", reason |-> "selection-blocked"]
        /\ verdict' = [verdict EXCEPT ![r] = verdict'[r]]
    BY <1>1, <1>5, Judging DEF Ends
  <2>3. QED
    BY <1>3, <2>1, <2>2 DEF Turn, TurnMoves
<1>6. QED
  BY <1>4, <1>5

LEMMA RefuseTurns ==
  ASSUME NEW r \in Runs, EvidenceInv, VerdictInv, Refuse(r)
  PROVE  Turn(r)
<1> DEFINE reason == IF Loads(packs) THEN "invocation" ELSE "selection-blocked"
<1>1. /\ at[r] = "asked" /\ UNCHANGED <<packs, plan, packet, left, commands, evidence, blocked, failed>>
      /\ Goes(r, "over") /\ verdict' = [verdict EXCEPT ![r] = [status |-> "failed", reason |-> reason]]
  BY DEF Refuse, Same, Ends, planVars
<1>2. at'[r] = "over" /\ at' = [at EXCEPT ![r] = at'[r]]
  BY <1>1, Going, PlacesAre
<1>3. /\ verdict'[r] = [status |-> "failed", reason |-> reason]
      /\ verdict' = [verdict EXCEPT ![r] = verdict'[r]]
  BY <1>1, Judging
<1>4. QED
  BY <1>1, <1>2, <1>3, StayingPlan DEF Turn, TurnMoves

LEMMA LookTurns ==
  ASSUME NEW r \in Runs, EvidenceInv, VerdictInv, Look(r)
  PROVE  Turn(r)
<1>1. /\ at[r] \in {"asked", "binding"}
      /\ UNCHANGED <<packs, packet, left, commands, evidence, blocked, failed>>
  BY DEF Look, Same
<1>2. CASE Planned(r, AllScope, TRUE)
  BY <1>1, <1>2, PlannedTurns
<1>3. CASE Planned(r, NoScope(request[r]), FALSE)
  BY <1>1, <1>3, PlannedTurns
<1>4. CASE Goes(r, "binding") /\ UNCHANGED <<scope, plan, verdict>>
  <2>1. at'[r] = "binding" /\ at' = [at EXCEPT ![r] = at'[r]]
    BY <1>4, Going, PlacesAre
  <2>2. QED
    BY <1>1, <1>4, <2>1, Staying, StayingPlan DEF Turn, TurnMoves
<1>5. QED
  BY <1>2, <1>3, <1>4 DEF Look

LEMMA BindTurns ==
  ASSUME NEW r \in Runs, EvidenceInv, VerdictInv, Bind(r)
  PROVE  Turn(r)
<1>1. /\ at[r] \in {"asked", "binding"}
      /\ UNCHANGED <<packs, packet, left, commands, evidence, blocked, failed>>
  BY DEF Bind, Same
<1>2. CASE Planned(r, NoScope(request[r]), FALSE)
  BY <1>1, <1>2, PlannedTurns
<1>3. CASE UNCHANGED <<at, plan, verdict>>
  BY <1>1, <1>3, Staying, StayingPlan DEF Turn, TurnMoves
<1>4. QED
  BY <1>2, <1>3 DEF Bind

LEMMA ConfirmTurns ==
  ASSUME NEW r \in Runs, EvidenceInv, VerdictInv, Confirm(r)
  PROVE  Turn(r)
<1>1. /\ at[r] \in {"asked", "binding"}
      /\ UNCHANGED <<packs, packet, left, commands, evidence, blocked, failed>>
  BY DEF Confirm, Same
<1>2. CASE Planned(r, Scope("changed", PacketMode(request[r]), scope[r].records), TRUE)
  BY <1>1, <1>2, PlannedTurns
<1>3. CASE Planned(r, NoScope(request[r]), FALSE)
  BY <1>1, <1>3, PlannedTurns
<1>4. QED
  BY <1>2, <1>3 DEF Confirm

\* The directory's steps, seen from the verdict.
LEMMA DirectoryTurns ==
  ASSUME NEW r \in Runs, EvidenceInv, VerdictInv,
         Claim(r) \/ Mark(r) \/ Unmark(r) \/ SweepLook(r) \/ SweepRemove(r) \/ Kill(r)
  PROVE  Turn(r)
<1>1. UNCHANGED <<packs, plan, verdict, packet, left, commands, evidence, blocked, failed>>
  BY DEF Claim, Mark, Unmark, SweepLook, SweepRemove, Kill, Same, planVars, packVars
<1>2. Of(r)
  BY DEF EvidenceInv
<1>3. /\ plan' = [plan EXCEPT ![r] = plan'[r]] /\ verdict' = [verdict EXCEPT ![r] = verdict'[r]]
      /\ plan'[r] = plan[r] /\ verdict'[r] = verdict[r]
  BY <1>1, Staying, StayingPlan
<1>4. at' = [at EXCEPT ![r] = at'[r]] /\ TurnMoves(r)
  <2>1. CASE Claim(r)
    <3>1. at[r] = "planned" /\ Goes(r, "marking")
      BY <2>1 DEF Claim, Same
    <3>2. at'[r] = "marking" /\ at' = [at EXCEPT ![r] = at'[r]]
      BY <3>1, Going, PlacesAre
    <3>3. verdict[r] = NoVerdict
      BY <1>2, <3>1 DEF Of, WaitingOf, Waits
    <3>4. QED
      BY <1>3, <3>1, <3>2, <3>3 DEF TurnMoves
  <2>2. CASE Mark(r)
    <3>1. at[r] = "marking" /\ Goes(r, "looking")
      BY <2>2 DEF Mark, Same
    <3>2. at'[r] = "looking" /\ at' = [at EXCEPT ![r] = at'[r]]
      BY <3>1, Going, PlacesAre
    <3>3. verdict[r] = NoVerdict
      BY <1>2, <3>1 DEF Of, SweepOf
    <3>4. QED
      BY <1>3, <3>1, <3>2, <3>3 DEF TurnMoves
  <2>3. CASE Unmark(r)
    <3>1. at[r] = "closing" /\ Goes(r, "looking")
      BY <2>3 DEF Unmark, Same
    <3>2. at'[r] = "looking" /\ at' = [at EXCEPT ![r] = at'[r]]
      BY <3>1, Going, PlacesAre
    <3>3. verdict[r] # NoVerdict
      BY <1>2, <3>1 DEF Of, MarkerOf, NoVerdict
    <3>4. QED
      BY <1>3, <3>1, <3>2, <3>3 DEF TurnMoves
  <2>4. CASE SweepLook(r)
    <3>1. at[r] = "looking" /\ Goes(r, "sweeping")
      BY <2>4 DEF SweepLook, Same
    <3>2. at'[r] = "sweeping" /\ at' = [at EXCEPT ![r] = at'[r]]
      BY <3>1, Going, PlacesAre
    <3>3. QED
      BY <1>3, <3>1, <3>2 DEF TurnMoves
  <2>5. CASE SweepRemove(r)
    <3>1. at[r] = "sweeping" /\ Goes(r, IF verdict[r] = NoVerdict THEN "opened" ELSE "over")
      BY <2>5 DEF SweepRemove, Same
    <3>2. /\ at'[r] = IF verdict[r] = NoVerdict THEN "opened" ELSE "over"
          /\ at' = [at EXCEPT ![r] = at'[r]]
      BY <3>1, Going, PlacesAre
    <3>3. QED
      BY <1>3, <3>1, <3>2 DEF TurnMoves
  <2>6. CASE Kill(r)
    <3>1. Goes(r, "killed")
      BY <2>6 DEF Kill
    <3>2. at'[r] = "killed" /\ at' = [at EXCEPT ![r] = at'[r]]
      BY <3>1, Going, PlacesAre
    <3>3. QED
      BY <1>3, <3>1, <3>2 DEF TurnMoves
  <2>7. QED
    BY <2>1, <2>2, <2>3, <2>4, <2>5, <2>6
<1>5. QED
  BY <1>1, <1>3, <1>4 DEF Turn

\* A run that cannot go on fails.
LEMMA RaisingTurns ==
  ASSUME NEW r \in Runs, EvidenceInv, VerdictInv, Raises(r), Goes(r, "closing"),
         UNCHANGED <<packs, plan, packet, left, commands, evidence, blocked, failed>>
  PROVE  Turn(r)
<1>1. at'[r] = "closing" /\ at' = [at EXCEPT ![r] = at'[r]]
  BY Going, PlacesAre
<1>2. /\ verdict'[r] = [status |-> "failed", reason |-> "runtime-exception"]
      /\ verdict' = [verdict EXCEPT ![r] = verdict'[r]]
  BY Judging DEF Raises
<1>3. QED
  BY <1>1, <1>2, StayingPlan DEF Turn, TurnMoves

-----------------------------------------------------------------------------
\* What is left of a plan, one pack on.
LEMMA Suffix ==
  ASSUME NEW S, NEW order \in Seq(S), NEW k \in 0 .. Len(order), NEW rest,
         rest = SubSeq(order, k + 1, Len(order))
  PROVE  /\ rest = <<>> <=> k = Len(order)
         /\ rest # <<>> => /\ k + 1 \in 1 .. Len(order) /\ Head(rest) = order[k + 1]
                           /\ Tail(rest) = SubSeq(order, k + 2, Len(order))
<1>1. Len(order) \in Nat
  OBVIOUS
<1>2. rest \in Seq(S) /\ Len(rest) = Len(order) - k /\ \A i \in 1 .. Len(order) - k : rest[i] = order[k + i]
  BY <1>1
<1>3. rest = <<>> <=> k = Len(order)
  <2>1. rest = <<>> <=> Len(rest) = 0
    BY <1>2, EmptySeq
  <2>2. QED
    BY <1>1, <1>2, <2>1
<1>4. ASSUME rest # <<>>
      PROVE  /\ k + 1 \in 1 .. Len(order) /\ Head(rest) = order[k + 1]
             /\ Tail(rest) = SubSeq(order, k + 2, Len(order))
  <2>1. k + 1 \in 1 .. Len(order) /\ Len(rest) > 0
    BY <1>1, <1>2, <1>3, <1>4
  <2>2. Head(rest) = order[k + 1]
    BY <1>2, <2>1
  <2>3. /\ Tail(rest) \in Seq(S) /\ Len(Tail(rest)) = Len(order) - k - 1
        /\ \A i \in 1 .. Len(order) - k - 1 : Tail(rest)[i] = order[k + i + 1]
    <3>1. /\ Tail(rest) \in Seq(S) /\ Len(Tail(rest)) = Len(rest) - 1
          /\ \A i \in 1 .. Len(Tail(rest)) : Tail(rest)[i] = rest[i + 1]
      BY <1>2, <1>4, HeadTailProperties
    <3>2. Len(Tail(rest)) = Len(order) - k - 1
      BY <1>1, <1>2, <3>1
    <3>3. ASSUME NEW i \in 1 .. Len(order) - k - 1 PROVE Tail(rest)[i] = order[k + i + 1]
      <4>1. i \in 1 .. Len(Tail(rest)) /\ i + 1 \in 1 .. Len(order) - k /\ k + (i + 1) = k + i + 1
        BY <1>1, <3>2
      <4>2. QED
        BY <1>2, <3>1, <4>1
    <3>4. QED
      BY <3>1, <3>2, <3>3
  <2>4. /\ SubSeq(order, k + 2, Len(order)) \in Seq(S)
        /\ Len(SubSeq(order, k + 2, Len(order))) = Len(order) - k - 1
        /\ \A i \in 1 .. Len(order) - k - 1 : SubSeq(order, k + 2, Len(order))[i] = order[k + i + 1]
    BY <1>1, <2>1
  <2>5. Tail(rest) = SubSeq(order, k + 2, Len(order))
    BY <1>1, <2>1, <2>3, <2>4, SeqEqual
  <2>6. QED
    BY <2>1, <2>2, <2>5
<1>5. QED
  BY <1>3, <1>4

LEMMA AppendIs ==
  ASSUME NEW S, NEW s \in Seq(S), NEW e \in S
  PROVE  /\ Append(s, e) \in Seq(S)
         /\ Len(s) + 1 \in DOMAIN Append(s, e) /\ Append(s, e)[Len(s) + 1] = e
         /\ \A i \in DOMAIN s : i \in DOMAIN Append(s, e) /\ Append(s, e)[i] = s[i]
         /\ \A i \in DOMAIN Append(s, e) : (i \in DOMAIN s /\ Append(s, e)[i] = s[i]) \/ Append(s, e)[i] = e
  OBVIOUS

\* The pack at hand is one of the plan's, and what comes before it has had its turn.
LEMMA AtHand ==
  ASSUME NEW r \in Runs, JudgeTypes, ProgressOf(r), PlansInOrder, InPacks(r), left[r] # <<>>,
         NEW k \in 0 .. Len(plan[r].order),
         left[r] = SubSeq(plan[r].order, k + 1, Len(plan[r].order)),
         Ran(r) \cup blocked[r] = {plan[r].order[i] : i \in 1 .. k}
  PROVE  /\ Head(left[r]) \in Ids /\ Head(left[r]) = plan[r].order[k + 1]
         /\ k + 1 \in 0 .. Len(plan[r].order)
         /\ Tail(left[r]) = SubSeq(plan[r].order, (k + 1) + 1, Len(plan[r].order))
         /\ {plan[r].order[i] : i \in 1 .. k + 1} = Ran(r) \cup blocked[r] \cup {Head(left[r])}
         /\ Pack(r).depends \subseteq Ran(r) \cup blocked[r]
<1>1. InOrder(plan[r])
  BY DEF ProgressOf, PlansInOrder
<1>2. plan[r].order \in Seq(plan[r].selected) /\ plan[r].selected \subseteq Ids
  BY <1>1 DEF InOrder
<1>3. /\ k + 1 \in 1 .. Len(plan[r].order) /\ Head(left[r]) = plan[r].order[k + 1]
      /\ Tail(left[r]) = SubSeq(plan[r].order, k + 2, Len(plan[r].order))
  BY <1>2, Suffix
<1>4. plan[r].order[k + 1] \in Ids
  BY <1>2, <1>3
<1>5. \A p \in Pack(r).depends : \E j \in 1 .. k : plan[r].order[j] = p
  <2>1. k + 1 \in DOMAIN plan[r].order
    BY <1>2, <1>3
  <2>2. \A p \in packs[plan[r].order[k + 1]].depends : \E j \in 1 .. (k + 1) - 1 : plan[r].order[j] = p
    BY <1>1, <2>1 DEF InOrder
  <2>3. (k + 1) - 1 = k
    OBVIOUS
  <2>4. QED
    BY <1>3, <2>2, <2>3 DEF Pack
<1>6. {plan[r].order[i] : i \in 1 .. k + 1} = {plan[r].order[i] : i \in 1 .. k} \cup {plan[r].order[k + 1]}
  <2>1. 1 .. k + 1 = (1 .. k) \cup {k + 1}
    OBVIOUS
  <2>2. QED
    BY <2>1
<1>7. Tail(left[r]) = SubSeq(plan[r].order, (k + 1) + 1, Len(plan[r].order))
  <2>1. k + 2 = (k + 1) + 1
    OBVIOUS
  <2>2. QED
    BY <1>3, <2>1
<1>8. k + 1 \in 0 .. Len(plan[r].order)
  BY <1>3
<1>9. {plan[r].order[i] : i \in 1 .. k + 1} = Ran(r) \cup blocked[r] \cup {Head(left[r])}
  BY <1>3, <1>6
<1>10. Pack(r).depends \subseteq Ran(r) \cup blocked[r]
  BY <1>5
<1>11. QED
  BY <1>3, <1>4, <1>7, <1>8, <1>9, <1>10

\* In the loop over packs or within one nothing is complete or fresh yet.
LEMMA BusyIs ==
  ASSUME NEW r \in Runs, EvidenceInv, InPacks(r)
  PROVE  verdict[r] # NoVerdict /\ verdict[r].status # "none"
  BY HasVerdict DEF NoVerdict

LEMMA MaterializeJudged ==
  ASSUME NEW r \in Runs, EvidenceInv, VerdictInv, PlansInOrder, Materialize(r)
  PROVE  VerdictInv'
<1>1. /\ at[r] = "opened"
      /\ UNCHANGED <<packs, plan, commands, evidence, blocked, failed>>
  BY DEF Materialize, Same, planVars
<1>2. CASE Stale(r)
  <2>1. Raises(r) /\ Goes(r, "closing") /\ UNCHANGED <<packet, left>>
    BY <1>2 DEF Materialize
  <2>2. QED
    BY <1>1, <2>1, RaisingTurns, TurnKeeps
<1>3. CASE ~Stale(r)
  <2>1. /\ verdict' = [verdict EXCEPT ![r] = [status |-> "passed", reason |-> "completed"]]
        /\ left' = [left EXCEPT ![r] = plan[r].order] /\ Goes(r, "packs")
    BY <1>3 DEF Materialize
  <2>2. \E contents : packet' = [packet EXCEPT ![r] = [contents |-> contents, intact |-> TRUE]]
    BY <1>3 DEF Materialize
  <2>3. TreeTypes /\ JudgeTypes /\ Judged(r) /\ Of(r)
    BY DEF EvidenceInv, VerdictInv
  <2>4. /\ verdict'[r] = [status |-> "passed", reason |-> "completed"] /\ left'[r] = plan[r].order
        /\ packet'[r].intact /\ at'[r] = "packs" /\ OnRuns(packet)'
        /\ \A q \in Runs \ {r} : /\ at'[q] = at[q] /\ verdict'[q] = verdict[q] /\ left'[q] = left[q]
                                 /\ packet'[q] = packet[q]
    <3>1. /\ verdict'[r] = [status |-> "passed", reason |-> "completed"] /\ left'[r] = plan[r].order
          /\ \A q \in Runs \ {r} : verdict'[q] = verdict[q] /\ left'[q] = left[q]
      BY <2>1, <2>3 DEF TreeTypes, OnRuns
    <3>2. at'[r] = "packs" /\ \A q \in Runs \ {r} : at'[q] = at[q]
      BY <2>1, <2>3 DEF Goes, TreeTypes
    <3>3. PICK contents : packet' = [packet EXCEPT ![r] = [contents |-> contents, intact |-> TRUE]]
      BY <2>2
    <3>4. packet'[r] = [contents |-> contents, intact |-> TRUE]
      BY <2>3, <3>3 DEF JudgeTypes, OnRuns
    <3>5. OnRuns(packet)' /\ \A q \in Runs \ {r} : packet'[q] = packet[q]
      BY <2>3, <3>3 DEF JudgeTypes, OnRuns
    <3>6. packet'[r].intact
      BY <3>4
    <3>7. QED
      BY <3>1, <3>2, <3>5, <3>6
  <2>5. JudgeTypes'
    BY <1>1, <2>3, <2>4 DEF JudgeTypes, OnRuns, PackItems, CommandItems, Ids
  <2>6. Solo(r)
    BY <1>1, <2>4 DEF Solo
  <2>7. verdict[r] = NoVerdict
    BY <1>1, <2>3 DEF Of, MarkerOf
  <2>8. plan[r].ready /\ evidence[r] = <<>> /\ blocked[r] = {} /\ failed[r] = {}
    BY <1>1, <2>3, <2>7 DEF Judged, FreshOf
  <2>9. InPacks(r)' /\ ~InPack(r)'
    BY <2>4 DEF InPacks, InPack
  <2>10. ProgressOf(r)'
    <3>1. plan[r].order \in Seq(plan[r].selected)
      BY <2>8 DEF PlansInOrder, InOrder
    <3>2. 0 \in 0 .. Len(plan[r].order) /\ plan[r].order = SubSeq(plan[r].order, 0 + 1, Len(plan[r].order))
      BY <3>1
    <3>3. Ran(r)' = {} /\ blocked'[r] = {} /\ 1 .. 0 = {}
      BY <1>1, <2>8 DEF Ran
    <3>4. left'[r] = SubSeq(plan'[r].order, 0 + 1, Len(plan'[r].order))
      BY <1>1, <2>4, <3>2
    <3>5. Ran(r)' \cup blocked'[r] = {plan'[r].order[i] : i \in 1 .. 0}
      BY <3>3
    <3>6. 0 \in 0 .. Len(plan'[r].order) /\ plan'[r].ready
      BY <1>1, <2>8, <3>2
    <3>7. QED
      BY <2>9, <3>4, <3>5, <3>6 DEF ProgressOf
  <2>11. FreshOf(r)' /\ FailedOf(r)' /\ NeedsOf(r)' /\ HonestOf(r)'
    BY <1>1, <2>4, <2>8, <2>9 DEF FreshOf, FailedOf, NeedsOf, HonestOf, NoVerdict
  <2>12. IntactOf(r)' /\ ProvenOf(r)' /\ CompleteOf(r)'
    BY <1>1, <2>4, <2>8 DEF IntactOf, ProvenOf, CompleteOf
  <2>13. QED
    BY <2>5, <2>6, <2>10, <2>11, <2>12, OthersJudged DEF Judged
<1>4. QED
  BY <1>2, <1>3

LEMMA LeaveOutJudged ==
  ASSUME NEW r \in Runs, EvidenceInv, VerdictInv, PlansInOrder, LeaveOut(r)
  PROVE  VerdictInv'
<1> DEFINE out == Head(left[r])
<1>1. /\ at[r] = "packs" /\ left[r] # <<>> /\ Missing(r) # {}
      /\ blocked' = [blocked EXCEPT ![r] = blocked[r] \cup {out}]
      /\ failed' = [failed EXCEPT ![r] = failed[r] \cup {out}]
      /\ left' = [left EXCEPT ![r] = Tail(left[r])]
      /\ UNCHANGED <<packs, at, plan, packet, commands, evidence>>
  BY DEF LeaveOut, Same, planVars
<1>2. TreeTypes /\ JudgeTypes /\ Judged(r)
  BY DEF EvidenceInv, VerdictInv
<1>3. /\ blocked'[r] = blocked[r] \cup {out} /\ failed'[r] = failed[r] \cup {out} /\ left'[r] = Tail(left[r])
      /\ OnRuns(blocked)' /\ OnRuns(failed)'
      /\ \A q \in Runs \ {r} : blocked'[q] = blocked[q] /\ failed'[q] = failed[q] /\ left'[q] = left[q]
  BY <1>1, <1>2 DEF TreeTypes, JudgeTypes, OnRuns
<1>4. InPacks(r) /\ ~InPack(r) /\ InPacks(r)' /\ ~InPack(r)'
  BY <1>1 DEF InPacks, InPack
<1>5. /\ verdict'[r] = verdict[r] \/ verdict'[r] = [status |-> "failed", reason |-> verdict[r].reason]
      /\ \A q \in Runs \ {r} : verdict'[q] = verdict[q]
  BY <1>2 DEF LeaveOut, Fails, TreeTypes, OnRuns
<1>6. JudgeTypes'
  BY <1>1, <1>2, <1>3 DEF JudgeTypes, OnRuns, PackItems, CommandItems, Ids
<1>7. Solo(r)
  BY <1>1, <1>3, <1>5 DEF Solo
<1>8. verdict[r] # NoVerdict /\ verdict[r].status \notin {"none", "passed"}
  <2>1. failed[r] # {}
    BY <1>1 DEF Missing
  <2>2. QED
    BY <1>2, <1>4, <2>1, BusyIs DEF Judged, ProvenOf
<1>9. Ran(r)' = Ran(r)
  BY <1>1 DEF Ran
<1>10. ProgressOf(r)'
  <2>1. PICK k \in 0 .. Len(plan[r].order) :
          /\ left[r] = SubSeq(plan[r].order, k + 1, Len(plan[r].order))
          /\ Ran(r) \cup blocked[r] = {plan[r].order[i] : i \in 1 .. k}
    BY <1>2, <1>4 DEF Judged, ProgressOf
  <2>2. /\ k + 1 \in 0 .. Len(plan[r].order)
        /\ Tail(left[r]) = SubSeq(plan[r].order, (k + 1) + 1, Len(plan[r].order))
        /\ {plan[r].order[i] : i \in 1 .. k + 1} = Ran(r) \cup blocked[r] \cup {out}
    BY <1>1, <1>2, <1>4, <2>1, AtHand DEF Judged
  <2>3. Ran(r)' \cup blocked'[r] = {plan'[r].order[i] : i \in 1 .. k + 1}
    BY <1>1, <1>3, <1>9, <2>2
  <2>4. k + 1 \in 0 .. Len(plan'[r].order) /\ left'[r] = SubSeq(plan'[r].order, (k + 1) + 1, Len(plan'[r].order))
    BY <1>1, <1>3, <2>2
  <2>5. plan'[r].ready
    BY <1>1, <1>2, <1>4 DEF Judged, ProgressOf
  <2>6. QED
    BY <1>4, <2>3, <2>4, <2>5 DEF ProgressOf
<1>11. FreshOf(r)' /\ IntactOf(r)' /\ HonestOf(r)' /\ CompleteOf(r)'
  BY <1>1, <1>2, <1>4, <1>5, <1>8 DEF Judged, FreshOf, IntactOf, HonestOf, CompleteOf, NoVerdict
<1>12. FailedOf(r)'
  BY <1>1, <1>2, <1>3, <1>4 DEF Judged, FailedOf
<1>13. NeedsOf(r)'
  BY <1>1, <1>2, <1>4 DEF Judged, NeedsOf, Succeeded
<1>14. ProvenOf(r)'
  BY <1>1, <1>2, <1>5, <1>8 DEF Judged, ProvenOf, Proven
<1>15. QED
  BY <1>6, <1>7, <1>10, <1>11, <1>12, <1>13, <1>14, OthersJudged DEF Judged

\* Within a pack only its commands' evidence, the packet and the place change.
Within(r) ==
  /\ UNCHANGED <<packs, verdict, plan, left, evidence, blocked, failed>>
  /\ InPacks(r) /\ InPack(r)' /\ at' = [at EXCEPT ![r] = at'[r]]
  /\ InPack(r) \/ (left[r] # <<>> /\ Missing(r) = {})
  /\ commands' \in [Runs -> Seq(CommandItems)] /\ OnRuns(packet)'
  /\ \A q \in Runs \ {r} : commands'[q] = commands[q] /\ packet'[q] = packet[q]
  /\ IntactOf(r)' /\ HonestOf(r)'

LEMMA WithinKeeps ==
  ASSUME NEW r \in Runs, EvidenceInv, VerdictInv, Within(r)
  PROVE  VerdictInv'
<1>1. /\ UNCHANGED <<packs, verdict, plan, left, evidence, blocked, failed>>
      /\ InPacks(r) /\ InPack(r)'
      /\ InPack(r) \/ (left[r] # <<>> /\ Missing(r) = {})
  BY DEF Within
<1>2. TreeTypes /\ JudgeTypes /\ Judged(r)
  BY DEF EvidenceInv, VerdictInv
<1>3. JudgeTypes'
  BY <1>1, <1>2 DEF Within, JudgeTypes, OnRuns, PackItems, CommandItems, Ids
<1>4. Solo(r)
  BY <1>1, <1>2 DEF Within, Solo, TreeTypes
<1>5. Ran(r)' = Ran(r) /\ Missing(r)' = Missing(r)
  BY <1>1 DEF Ran, Missing, Pack
<1>6. InPacks(r)' /\ at'[r] \in {"command", "running", "inspect"}
  BY <1>1 DEF InPacks, InPack
<1>7. ProgressOf(r)'
  BY <1>1, <1>2, <1>5, <1>6 DEF Judged, ProgressOf
<1>8. FailedOf(r)' /\ NeedsOf(r)'
  BY <1>1, <1>2 DEF Judged, FailedOf, NeedsOf, Succeeded
<1>9. FreshOf(r)' /\ CompleteOf(r)' /\ ProvenOf(r)'
  BY <1>1, <1>2, <1>6, BusyIs DEF Judged, FreshOf, CompleteOf, ProvenOf, Proven, NoVerdict
<1>10. QED
  BY <1>3, <1>4, <1>7, <1>8, <1>9, OthersJudged DEF Judged, Within

LEMMA WithinMarks ==
  ASSUME NEW r \in Runs, EvidenceInv, VerdictInv, InPacks(r), NEW place \in {"command", "running", "inspect"},
         at'[r] = place, at' = [at EXCEPT ![r] = at'[r]],
         InPack(r) \/ (left[r] # <<>> /\ Missing(r) = {}),
         UNCHANGED <<packs, verdict, plan, left, evidence, blocked, failed, packet>>,
         commands' \in [Runs -> Seq(CommandItems)], \A q \in Runs \ {r} : commands'[q] = commands[q],
         IntactOf(r)', HonestOf(r)'
  PROVE  VerdictInv'
<1>1. InPack(r)'
  BY DEF InPack
<1>2. OnRuns(packet)'
  BY DEF VerdictInv, JudgeTypes, OnRuns
<1>3. Within(r)
  BY <1>1, <1>2 DEF Within
<1>4. QED
  BY <1>3, WithinKeeps

LEMMA OpenPackJudged ==
  ASSUME NEW r \in Runs, EvidenceInv, VerdictInv, OpenPack(r)
  PROVE  VerdictInv'
<1>1. /\ at[r] = "packs" /\ left[r] # <<>> /\ Missing(r) = {} /\ Goes(r, "command")
      /\ commands' = [commands EXCEPT ![r] = <<>>]
      /\ UNCHANGED <<packs, verdict, plan, left, evidence, blocked, failed, packet>>
  BY DEF OpenPack, Same, planVars
<1>2. at'[r] = "command" /\ at' = [at EXCEPT ![r] = at'[r]] /\ InPacks(r)
  BY <1>1, Going, PlacesAre DEF InPacks
<1>3. /\ commands' \in [Runs -> Seq(CommandItems)] /\ commands'[r] = <<>>
      /\ \A q \in Runs \ {r} : commands'[q] = commands[q]
  BY <1>1 DEF VerdictInv, JudgeTypes
<1>4. IntactOf(r)'
  BY <1>1, <1>2 DEF VerdictInv, Judged, IntactOf
<1>5. HonestOf(r)'
  BY <1>3 DEF HonestOf
<1>6. QED
  BY <1>1, <1>2, <1>3, <1>4, <1>5, WithinMarks

\* normalized_command: what does not exit cleanly counts as failed.
LEMMA NormalizedIs ==
  ASSUME NEW result \in Results
  PROVE  Normalized(result) \in CommandItems /\ Honest(Normalized(result))
<1>1. /\ Normalized(result).exit = result.exit /\ Normalized(result).term = result.term
      /\ Normalized(result).process = (result.exit # 0 \/ result.term # "completed")
      /\ Normalized(result).status \in Statuses
      /\ result.exit # 0 \/ result.term # "completed" => Normalized(result).status = "failed"
  BY DEF Normalized, Statuses
<1>2. Normalized(result).kind \in Kinds
  BY DEF Normalized, Kinds
<1>3. Normalized(result) = [status |-> Normalized(result).status, exit |-> Normalized(result).exit,
         term |-> Normalized(result).term, kind |-> Normalized(result).kind,
         process |-> Normalized(result).process, integrity |-> Normalized(result).integrity]
  BY DEF Normalized
<1>4. /\ Normalized(result).exit \in Exits /\ Normalized(result).term \in Terms
      /\ Normalized(result).process \in BOOLEAN /\ Normalized(result).integrity \in BOOLEAN
  <2>1. Normalized(result).exit \in Exits /\ Normalized(result).term \in Terms
    BY <1>1 DEF Exits, Terms
  <2>2. Normalized(result).process \in BOOLEAN
    BY <1>1
  <2>3. Normalized(result).integrity \in BOOLEAN
    BY DEF Normalized
  <2>4. QED
    BY <2>1, <2>2, <2>3
<1>5. Normalized(result) \in CommandItems
  BY <1>1, <1>2, <1>3, <1>4 DEF CommandItems
<1>6. Honest(Normalized(result))
  BY <1>1 DEF Honest
<1>7. QED
  BY <1>5, <1>6

LEMMA PacketChangedIs ==
  ASSUME NEW c \in CommandItems
  PROVE  PacketChanged(c) \in CommandItems /\ Honest(PacketChanged(c)) /\ PacketChanged(c).integrity
<1>1. PacketChanged(c) \in CommandItems
  <2>1. "failed" \in Statuses /\ "packet-integrity" \in Terms /\ "integrity" \in Kinds
    BY DEF Statuses, Terms, Kinds
  <2>2. QED
    BY <2>1 DEF PacketChanged, CommandItems
<1>2. PacketChanged(c).integrity = TRUE /\ PacketChanged(c).status = "failed"
  BY DEF PacketChanged, CommandItems
<1>3. QED
  BY <1>1, <1>2 DEF Honest

LEMMA NotStartedIs ==
  NotStarted \in CommandItems /\ Honest(NotStarted) /\ NotStarted.integrity
<1>1. "failed" \in Statuses /\ 1 \in Exits /\ "packet-integrity" \in Terms /\ "integrity" \in Kinds
  BY DEF Statuses, Exits, Terms, Kinds
<1>2. NotStarted \in CommandItems
  BY <1>1 DEF NotStarted, CommandItems
<1>3. QED
  BY <1>2 DEF NotStarted, Honest

LEMMA RecordedKeeps ==
  ASSUME NEW r \in Runs, EvidenceInv, VerdictInv, InPack(r), NEW item \in CommandItems, Honest(item),
         packet[r].intact \/ item.integrity \/ Marked(commands[r]), Recorded(r, item),
         UNCHANGED <<packs, verdict, plan, left, evidence, blocked, failed, packet>>
  PROVE  VerdictInv'
<1>1. PICK place \in {"command", "inspect"} : Goes(r, place)
  BY RecordedGoes
<1>2. at'[r] = place /\ at' = [at EXCEPT ![r] = at'[r]] /\ InPacks(r)
  BY <1>1, Going, PlacesAre DEF InPack, InPacks
<1>3. commands[r] \in Seq(CommandItems)
  BY DEF VerdictInv, JudgeTypes
<1> DEFINE more == Append(commands[r], item)
<1>4. /\ more \in Seq(CommandItems) /\ Len(commands[r]) + 1 \in DOMAIN more
      /\ more[Len(commands[r]) + 1] = item
      /\ \A i \in DOMAIN commands[r] : i \in DOMAIN more /\ more[i] = commands[r][i]
      /\ \A i \in DOMAIN more : (i \in DOMAIN commands[r] /\ more[i] = commands[r][i]) \/ more[i] = item
  BY <1>3, AppendIs
<1>5. commands' = [commands EXCEPT ![r] = more]
  BY DEF Recorded
<1> HIDE DEF more
<1>6. /\ commands' \in [Runs -> Seq(CommandItems)] /\ commands'[r] = more
      /\ \A q \in Runs \ {r} : commands'[q] = commands[q]
  BY <1>4, <1>5 DEF VerdictInv, JudgeTypes
<1>7. IntactOf(r)'
  <2>1. packet[r].intact \/ Marked(more)
    BY <1>4 DEF Marked
  <2>2. QED
    BY <1>2, <1>6, <2>1 DEF IntactOf, Marked
<1>8. HonestOf(r)'
  <2>1. \A c \in DOMAIN more : Honest(more[c])
    BY <1>4 DEF VerdictInv, Judged, HonestOf
  <2>2. QED
    BY <1>6, <2>1 DEF HonestOf, Honest
<1>9. QED
  BY <1>2, <1>6, <1>7, <1>8, WithinMarks

LEMMA StartCommandJudged ==
  ASSUME NEW r \in Runs, EvidenceInv, VerdictInv, StartCommand(r)
  PROVE  VerdictInv'
<1>1. /\ at[r] = "command" /\ InPack(r) /\ InPacks(r)
      /\ UNCHANGED <<packs, verdict, plan, left, evidence, blocked, failed, packet>>
  BY DEF StartCommand, Same, planVars, InPack, InPacks
<1>2. JudgeTypes /\ Judged(r)
  BY DEF VerdictInv
<1>3. CASE Recorded(r, NotStarted)
  BY <1>1, <1>3, NotStartedIs, RecordedKeeps
<1>4. CASE commands' = commands /\ (Goes(r, "inspect") \/ Goes(r, "running") \/ at' = at)
  <2>1. PICK place \in {"command", "running", "inspect"} : at'[r] = place /\ at' = [at EXCEPT ![r] = at'[r]]
    BY <1>1, <1>4, Going, Staying, PlacesAre
  <2>2. IntactOf(r)'
    BY <1>1, <1>2, <1>4, <2>1 DEF Judged, IntactOf, Marked
  <2>3. HonestOf(r)'
    BY <1>1, <1>2, <1>4 DEF Judged, HonestOf, Honest
  <2>4. commands' \in [Runs -> Seq(CommandItems)]
    BY <1>2, <1>4 DEF JudgeTypes
  <2>5. QED
    BY <1>1, <1>4, <2>1, <2>2, <2>3, <2>4, WithinMarks
<1>5. QED
  BY <1>3, <1>4 DEF StartCommand

LEMMA EndCommandJudged ==
  ASSUME NEW r \in Runs, EvidenceInv, VerdictInv, EndCommand(r)
  PROVE  VerdictInv'
<1>1. /\ InPack(r)
      /\ UNCHANGED <<packs, verdict, plan, left, evidence, blocked, failed, packet>>
  BY DEF EndCommand, Same, planVars, InPack
<1>2. PICK result \in Results :
        Recorded(r, IF packet[r].intact THEN Normalized(result) ELSE PacketChanged(Normalized(result)))
  BY DEF EndCommand
<1>3. Normalized(result) \in CommandItems /\ Honest(Normalized(result))
  BY NormalizedIs
<1>4. CASE packet[r].intact
  BY <1>1, <1>2, <1>3, <1>4, RecordedKeeps
<1>5. CASE ~packet[r].intact
  BY <1>1, <1>2, <1>3, <1>5, PacketChangedIs, RecordedKeeps
<1>6. QED
  BY <1>4, <1>5

LEMMA TamperJudged ==
  ASSUME NEW r \in Runs, EvidenceInv, VerdictInv, Tamper(r)
  PROVE  VerdictInv'
<1>1. /\ at[r] = "running" /\ InPack(r) /\ InPacks(r) /\ InPack(r)' /\ at' = at
      /\ UNCHANGED <<packs, verdict, plan, left, commands, evidence, blocked, failed>>
      /\ packet' = [packet EXCEPT ![r].intact = FALSE]
  BY DEF Tamper, Same, planVars, InPack, InPacks
<1>2. JudgeTypes /\ Judged(r)
  BY DEF VerdictInv
<1>3. OnRuns(packet)' /\ \A q \in Runs \ {r} : packet'[q] = packet[q]
  BY <1>1, <1>2 DEF JudgeTypes, OnRuns
<1>4. at' = [at EXCEPT ![r] = at'[r]]
  BY <1>1, Staying
<1>5. IntactOf(r)' /\ HonestOf(r)'
  BY <1>1, <1>2 DEF Judged, IntactOf, HonestOf, Honest
<1>6. Within(r)
  BY <1>1, <1>2, <1>3, <1>4, <1>5 DEF Within, JudgeTypes
<1>7. QED
  BY <1>6, WithinKeeps

LEMMA AllPacksJudged ==
  ASSUME NEW r \in Runs, EvidenceInv, VerdictInv, PlansInOrder, AllPacks(r)
  PROVE  VerdictInv'
<1>1. /\ at[r] = "packs" /\ left[r] = <<>> /\ Goes(r, "closing")
      /\ UNCHANGED <<packs, verdict, plan, packet, left, commands, evidence, blocked, failed>>
  BY DEF AllPacks, Same, planVars, packVars
<1>2. at'[r] = "closing" /\ \A q \in Runs \ {r} : at'[q] = at[q]
  BY <1>1, PlacesAre DEF Goes, EvidenceInv, TreeTypes
<1>3. JudgeTypes /\ Judged(r) /\ InPacks(r) /\ ~InPacks(r)' /\ ~InPack(r)'
  BY <1>1, <1>2 DEF VerdictInv, InPacks, InPack
<1>4. JudgeTypes'
  BY <1>1, <1>3 DEF JudgeTypes, OnRuns, PackItems, CommandItems, Ids
<1>5. Solo(r)
  BY <1>1, <1>2 DEF Solo
<1>6. Ran(r) \cup blocked[r] = plan[r].selected
  <2>1. PICK k \in 0 .. Len(plan[r].order) :
          /\ left[r] = SubSeq(plan[r].order, k + 1, Len(plan[r].order))
          /\ Ran(r) \cup blocked[r] = {plan[r].order[i] : i \in 1 .. k}
    BY <1>3 DEF Judged, ProgressOf
  <2>2. InOrder(plan[r])
    BY <1>3 DEF Judged, ProgressOf, PlansInOrder
  <2>3. plan[r].order \in Seq(plan[r].selected) /\ ToSet(plan[r].order) = plan[r].selected
    BY <2>2 DEF InOrder
  <2>4. k = Len(plan[r].order)
    BY <1>1, <2>1, <2>3, Suffix
  <2>5. ToSet(plan[r].order) = {plan[r].order[i] : i \in 1 .. Len(plan[r].order)}
    BY <2>3 DEF ToSet
  <2>6. QED
    BY <2>1, <2>3, <2>4, <2>5
<1>7. CompleteOf(r)'
  <2>1. packet[r].intact /\ Ran(r)' = Ran(r)
    BY <1>1, <1>3 DEF Judged, IntactOf, Ran
  <2>2. QED
    BY <1>1, <1>6, <2>1 DEF CompleteOf
<1>8. FreshOf(r)' /\ ProvenOf(r)'
  BY <1>1, <1>2, <1>3, BusyIs DEF Judged, FreshOf, ProvenOf, Proven, NoVerdict
<1>9. ProgressOf(r)' /\ FailedOf(r)' /\ NeedsOf(r)' /\ IntactOf(r)' /\ HonestOf(r)'
  BY <1>2, <1>3 DEF ProgressOf, FailedOf, NeedsOf, IntactOf, HonestOf
<1>10. QED
  BY <1>4, <1>5, <1>7, <1>8, <1>9, OthersJudged DEF Judged

\* What the pack at hand needs has run and has not failed.
LEMMA NeedsMet ==
  ASSUME NEW r \in Runs, JudgeTypes, Judged(r), PlansInOrder, InPack(r)
  PROVE  \A p \in Pack(r).depends : Succeeded(r, p)
<1>1. InPacks(r)
  BY DEF InPack, InPacks
<1>2. PICK k \in 0 .. Len(plan[r].order) :
        /\ left[r] = SubSeq(plan[r].order, k + 1, Len(plan[r].order))
        /\ Ran(r) \cup blocked[r] = {plan[r].order[i] : i \in 1 .. k}
  BY <1>1 DEF Judged, ProgressOf
<1>3. left[r] # <<>> /\ Missing(r) = {}
  BY <1>1 DEF Judged, ProgressOf
<1>4. Pack(r).depends \subseteq Ran(r) \cup blocked[r]
  BY <1>1, <1>2, <1>3, AtHand DEF Judged
<1>5. ASSUME NEW p \in Pack(r).depends PROVE Succeeded(r, p)
  <2>1. p \notin failed[r]
    BY <1>3, <1>5 DEF Missing
  <2>2. p \in Ran(r)
    BY <1>1, <1>4, <1>5, <2>1 DEF Judged, FailedOf
  <2>3. PICK i \in DOMAIN evidence[r] : evidence[r][i].pack = p
    BY <2>2 DEF Ran
  <2>4. evidence[r][i].status # "failed"
    BY <1>1, <2>1, <2>3 DEF Judged, FailedOf
  <2>5. QED
    BY <2>3, <2>4 DEF Succeeded
<1>6. QED
  BY <1>5

\* The evidence of the pack at hand, and the verdict it leads to.
LEMMA EvidenceItem ==
  ASSUME NEW r \in Runs, JudgeTypes, Judged(r), at[r] = "inspect", Head(left[r]) \in Ids,
         NEW item, item = PackEvidence(r), verdict[r].status # "none"
  PROVE  /\ item \in PackItems /\ item.pack = Head(left[r])
         /\ DiagnosticStop(item) => Overall(r, item) = "failed"
         /\ verdict[r].status = "failed" => Overall(r, item) = "failed"
         /\ ~DiagnosticStop(item) => packet[r].intact
         /\ Overall(r, item) # "failed" => Proven(item)
         /\ Overall(r, item) = "passed" => item.status # "failed" /\ verdict[r].status = "passed"
<1>1. /\ item.pack = Head(left[r]) /\ item.commands = commands[r] /\ item.manifest = Inspected(r)
      /\ item.status \in {"failed", "warning", "passed"}
      /\ Had(r, "failed") \/ commands[r] = <<>> => item.status = "failed"
  BY DEF PackEvidence
<1>2. item \in PackItems
  <2>1. Inspected(r) \in {"absent", "valid", "invalid"}
    BY DEF Inspected
  <2>2. commands[r] \in Seq(CommandItems)
    BY DEF JudgeTypes
  <2>3. Bound(r) \in BOOLEAN
    BY DEF Bound
  <2>4. item.bound = Bound(r)
    BY DEF PackEvidence
  <2>5. item = [pack |-> item.pack, commands |-> item.commands, manifest |-> item.manifest,
                bound |-> item.bound, status |-> item.status]
    BY DEF PackEvidence
  <2>6. item.bound \in BOOLEAN
    BY <2>3, <2>4
  <2>7. QED
    BY <1>1, <2>1, <2>2, <2>5, <2>6 DEF PackItems
<1>3. DiagnosticStop(item) \/ verdict[r].status = "failed" => Overall(r, item) = "failed"
  BY DEF Overall
<1>4. \A c \in DOMAIN commands[r] : Unusual(commands[r][c]) => DiagnosticStop(item)
  BY <1>1 DEF DiagnosticStop, Some
<1>5. ~DiagnosticStop(item) => packet[r].intact
  BY <1>4 DEF Judged, IntactOf, Marked, Unusual
<1>6. ASSUME Overall(r, item) # "failed" PROVE Proven(item)
  <2>1. ~DiagnosticStop(item) /\ (item.status = "failed" => ~Some(item, Process) /\ ~Pack(r).blocking)
    BY <1>6 DEF Overall
  <2>2. item.manifest # "invalid"
    BY <2>1 DEF DiagnosticStop
  <2>3. ASSUME NEW c \in DOMAIN commands[r]
        PROVE  commands[r][c].exit = 0 /\ ~commands[r][c].integrity
    <3>1. /\ ~commands[r][c].integrity /\ commands[r][c].exit \in {0, 1}
      BY <1>4, <2>1, <2>3 DEF Unusual
    <3>2. Honest(commands[r][c])
      BY <2>3 DEF Judged, HonestOf, InPack
    <3>3. ~commands[r][c].process
      <4>1. SUFFICES ASSUME commands[r][c].process PROVE FALSE
        OBVIOUS
      <4>2. commands[r][c].status = "failed"
        BY <3>2, <4>1 DEF Honest
      <4>3. item.status = "failed"
        BY <1>1, <2>3, <4>2 DEF Had
      <4>4. Some(item, Process)
        BY <1>1, <2>3, <4>1 DEF Some, Process
      <4>5. QED
        BY <2>1, <4>3, <4>4
    <3>4. QED
      BY <3>1, <3>2, <3>3 DEF Honest
  <2>4. packs[item.pack].blocking => item.commands # <<>> /\ item.status # "failed"
    BY <1>1, <2>1 DEF Pack
  <2>5. QED
    BY <1>1, <2>2, <2>3, <2>4 DEF Proven
<1>7. Overall(r, item) = "passed" => item.status # "failed" /\ verdict[r].status = "passed"
  BY DEF Overall
<1>8. QED
  BY <1>1, <1>2, <1>3, <1>5, <1>6, <1>7

LEMMA ClosePackJudged ==
  ASSUME NEW r \in Runs, EvidenceInv, VerdictInv, PlansInOrder, ClosePack(r)
  PROVE  VerdictInv'
<1> DEFINE item == PackEvidence(r)
           place == IF DiagnosticStop(item) THEN "closing" ELSE "packs"
           overall == Overall(r, item)
           more == Append(evidence[r], item)
<1>1. /\ at[r] = "inspect" /\ Goes(r, place)
      /\ verdict' = [verdict EXCEPT ![r] = [status |-> overall, reason |-> Reason(r, item)]]
      /\ left' = [left EXCEPT ![r] = Tail(left[r])]
      /\ evidence' = [evidence EXCEPT ![r] = more]
      /\ failed' = IF item.status = "failed" /\ ~DiagnosticStop(item)
                   THEN [failed EXCEPT ![r] = failed[r] \cup {item.pack}] ELSE failed
      /\ UNCHANGED <<packs, plan, packet, commands, blocked>>
  BY DEF ClosePack, Same, planVars
<1>2. TreeTypes /\ JudgeTypes /\ Judged(r) /\ InPack(r) /\ InPacks(r)
  BY <1>1 DEF EvidenceInv, VerdictInv, InPack, InPacks
<1>3. PICK k \in 0 .. Len(plan[r].order) :
        /\ left[r] = SubSeq(plan[r].order, k + 1, Len(plan[r].order))
        /\ Ran(r) \cup blocked[r] = {plan[r].order[i] : i \in 1 .. k}
  BY <1>2 DEF Judged, ProgressOf
<1>4. /\ left[r] # <<>> /\ Missing(r) = {} /\ plan[r].ready
  BY <1>2 DEF Judged, ProgressOf
<1>5. /\ Head(left[r]) \in Ids /\ k + 1 \in 0 .. Len(plan[r].order)
      /\ Tail(left[r]) = SubSeq(plan[r].order, (k + 1) + 1, Len(plan[r].order))
      /\ {plan[r].order[i] : i \in 1 .. k + 1} = Ran(r) \cup blocked[r] \cup {Head(left[r])}
  BY <1>2, <1>3, <1>4, AtHand DEF Judged
<1>6. verdict[r].status # "none" /\ verdict[r] # NoVerdict
  BY <1>2, BusyIs
<1>7. /\ item \in PackItems /\ item.pack = Head(left[r])
      /\ DiagnosticStop(item) => overall = "failed"
      /\ verdict[r].status = "failed" => overall = "failed"
      /\ ~DiagnosticStop(item) => packet[r].intact
      /\ overall # "failed" => Proven(item)
      /\ overall = "passed" => item.status # "failed" /\ verdict[r].status = "passed"
  BY <1>1, <1>2, <1>5, <1>6, EvidenceItem
<1>8. overall # "none"
  BY <1>6, OverallIs
<1>9. place \in {"packs", "closing"} /\ (place = "closing" <=> DiagnosticStop(item)) /\ place \in Places
  BY PlacesAre
<1> HIDE DEF item, place, overall
<1>10. /\ more \in Seq(PackItems) /\ Len(evidence[r]) + 1 \in DOMAIN more /\ more[Len(evidence[r]) + 1] = item
       /\ \A i \in DOMAIN evidence[r] : i \in DOMAIN more /\ more[i] = evidence[r][i]
       /\ \A i \in DOMAIN more : (i \in DOMAIN evidence[r] /\ more[i] = evidence[r][i]) \/ more[i] = item
  BY <1>2, <1>7, AppendIs DEF JudgeTypes
<1> HIDE DEF more
<1>11. at'[r] = place /\ \A q \in Runs \ {r} : at'[q] = at[q]
  BY <1>1, <1>2 DEF Goes, TreeTypes
<1>12. /\ verdict'[r] = [status |-> overall, reason |-> Reason(r, item)]
       /\ \A q \in Runs \ {r} : verdict'[q] = verdict[q]
  BY <1>1, <1>2 DEF TreeTypes, OnRuns
<1>13. left'[r] = Tail(left[r]) /\ \A q \in Runs \ {r} : left'[q] = left[q]
  BY <1>1, <1>2 DEF TreeTypes, OnRuns
<1>14. /\ evidence' \in [Runs -> Seq(PackItems)] /\ evidence'[r] = more
       /\ \A q \in Runs \ {r} : evidence'[q] = evidence[q]
  BY <1>1, <1>2, <1>10 DEF JudgeTypes
<1>15. /\ OnRuns(failed)' /\ failed[r] \subseteq failed'[r]
       /\ \A q \in Runs \ {r} : failed'[q] = failed[q]
       /\ item.status = "failed" /\ ~DiagnosticStop(item) => item.pack \in failed'[r]
       /\ item.status # "failed" => failed'[r] = failed[r]
  BY <1>1, <1>2 DEF JudgeTypes, OnRuns
<1>16. JudgeTypes'
  BY <1>1, <1>2, <1>14, <1>15 DEF JudgeTypes, OnRuns, PackItems, CommandItems, Ids
<1>17. Solo(r)
  BY <1>1, <1>11, <1>12, <1>13, <1>14, <1>15 DEF Solo
<1>18. ~InPack(r)' /\ verdict'[r].status = overall
  BY <1>9, <1>11, <1>12 DEF InPack
<1>19. Ran(r)' = Ran(r) \cup {Head(left[r])}
  BY <1>7, <1>10, <1>14 DEF Ran
<1>20. ProgressOf(r)'
  <2>1. Ran(r)' \cup blocked'[r] = {plan'[r].order[i] : i \in 1 .. k + 1}
    BY <1>1, <1>5, <1>19
  <2>2. k + 1 \in 0 .. Len(plan'[r].order) /\ left'[r] = SubSeq(plan'[r].order, (k + 1) + 1, Len(plan'[r].order))
    BY <1>1, <1>5, <1>13
  <2>3. plan'[r].ready
    BY <1>1, <1>4
  <2>4. QED
    BY <1>18, <2>1, <2>2, <2>3 DEF ProgressOf
<1>21. FailedOf(r)'
  <2>1. SUFFICES ASSUME InPacks(r)'
                 PROVE  /\ blocked'[r] \subseteq failed'[r]
                        /\ \A i \in DOMAIN more : more[i].status = "failed" => more[i].pack \in failed'[r]
    BY <1>14 DEF FailedOf
  <2>2. ~DiagnosticStop(item)
    BY <1>9, <1>11, <2>1 DEF InPacks
  <2>3. blocked'[r] \subseteq failed'[r]
    BY <1>1, <1>2, <1>15 DEF Judged, FailedOf
  <2>4. ASSUME NEW i \in DOMAIN more, more[i].status = "failed" PROVE more[i].pack \in failed'[r]
    BY <1>2, <1>10, <1>15, <2>2, <2>4 DEF Judged, FailedOf
  <2>5. QED
    BY <2>3, <2>4
<1>22. NeedsOf(r)'
  <2>1. \A p : Succeeded(r, p) => Succeeded(r, p)'
    BY <1>10, <1>14 DEF Succeeded
  <2>2. \A p \in packs[item.pack].depends : Succeeded(r, p)
    BY <1>2, <1>7, NeedsMet DEF Pack
  <2>3. \A i \in DOMAIN more : \A p \in packs[more[i].pack].depends : Succeeded(r, p)
    BY <1>2, <1>10, <2>2 DEF Judged, NeedsOf
  <2>4. QED
    BY <1>1, <1>14, <2>1, <2>3 DEF NeedsOf
<1>23. IntactOf(r)' /\ HonestOf(r)'
  BY <1>1, <1>7, <1>9, <1>11, <1>18 DEF IntactOf, HonestOf
<1>24. ProvenOf(r)'
  <2>1. \A x : Proven(x)' <=> Proven(x)
    BY <1>1 DEF Proven
  <2>2. overall # "failed" => \A i \in DOMAIN more : Proven(more[i])
    BY <1>2, <1>7, <1>10 DEF Judged, ProvenOf
  <2>3. overall = "passed" => failed'[r] = {} /\ blocked'[r] = {}
    BY <1>1, <1>2, <1>7, <1>15 DEF Judged, ProvenOf
  <2>4. QED
    BY <1>14, <1>18, <2>1, <2>2, <2>3 DEF ProvenOf
<1>25. FreshOf(r)' /\ CompleteOf(r)'
  BY <1>7, <1>8, <1>9, <1>11, <1>18 DEF FreshOf, CompleteOf, NoVerdict
<1>26. QED
  BY <1>16, <1>17, <1>20, <1>21, <1>22, <1>23, <1>24, <1>25, OthersJudged DEF Judged

LEMMA CannotStartJudged ==
  ASSUME NEW r \in Runs, EvidenceInv, VerdictInv, CannotStart(r)
  PROVE  VerdictInv'
<1>1. /\ Raises(r) /\ Goes(r, "closing")
      /\ UNCHANGED <<packs, plan, packet, left, commands, evidence, blocked, failed>>
  BY DEF CannotStart, Same, planVars
<1>2. QED
  BY <1>1, RaisingTurns, TurnKeeps

LEMMA StepJudged ==
  ASSUME NEW r \in Runs, EvidenceInv, VerdictInv, PlansInOrder, Step(r)
  PROVE  VerdictInv'
<1>1. CASE Refuse(r) \/ Look(r) \/ Bind(r) \/ Confirm(r)
  BY <1>1, RefuseTurns, LookTurns, BindTurns, ConfirmTurns, TurnKeeps
<1>2. CASE Claim(r) \/ Mark(r) \/ Unmark(r) \/ SweepLook(r) \/ SweepRemove(r)
  BY <1>2, DirectoryTurns, TurnKeeps
<1>3. CASE Materialize(r) \/ LeaveOut(r) \/ OpenPack(r) \/ AllPacks(r)
  BY <1>3, MaterializeJudged, LeaveOutJudged, OpenPackJudged, AllPacksJudged
<1>4. CASE StartCommand(r) \/ EndCommand(r) \/ CannotStart(r) \/ ClosePack(r)
  BY <1>4, StartCommandJudged, EndCommandJudged, CannotStartJudged, ClosePackJudged
<1>5. QED
  BY <1>1, <1>2, <1>3, <1>4 DEF Step

LEMMA VerdictStutters ==
  ASSUME VerdictInv,
         UNCHANGED <<packs, at, verdict, plan, packet, left, commands, evidence, blocked, failed>>
  PROVE  VerdictInv'
<1>1. ASSUME NEW q \in Runs PROVE Judged(q)'
  BY <1>1, SameJudged DEF VerdictInv
<1>2. QED
  BY <1>1 DEF VerdictInv, JudgeTypes, OnRuns, PackItems, CommandItems, Ids

LEMMA VerdictBegins == Init => VerdictInv
<1> SUFFICES ASSUME Init PROVE VerdictInv
  OBVIOUS
<1>1. /\ at = [r \in Runs |-> IF request[r] = NoRequest THEN "over" ELSE "asked"]
      /\ plan = [r \in Runs |-> NoPlan] /\ packet = [r \in Runs |-> NoPacket]
      /\ commands = [r \in Runs |-> <<>>] /\ evidence = [r \in Runs |-> <<>>]
      /\ blocked = [r \in Runs |-> {}] /\ failed = [r \in Runs |-> {}]
      /\ verdict = [r \in Runs |-> NoVerdict]
  BY DEF Init
<1>2. JudgeTypes
  BY <1>1 DEF JudgeTypes, OnRuns
<1>3. ASSUME NEW r \in Runs PROVE Judged(r)
  <2>1. at[r] \in {"asked", "over"} /\ verdict[r] = NoVerdict /\ verdict[r].status = "none"
    BY <1>1 DEF NoVerdict
  <2>2. FreshOf(r) /\ ProvenOf(r) /\ CompleteOf(r)
    BY <1>1, <2>1 DEF FreshOf, ProvenOf, CompleteOf
  <2>3. ProgressOf(r) /\ FailedOf(r) /\ NeedsOf(r) /\ IntactOf(r) /\ HonestOf(r)
    BY <2>1 DEF ProgressOf, FailedOf, NeedsOf, IntactOf, HonestOf, InPacks, InPack
  <2>4. QED
    BY <2>2, <2>3 DEF Judged
<1>4. QED
  BY <1>2, <1>3 DEF VerdictInv

\* VerdictInv holds all along: what ran, what was left out,
\* what failed and the verdict so far agree (execute_packs, _execute_pack).
THEOREM VerdictInvariant == Spec => []VerdictInv
<1>1. Init => VerdictInv
  BY VerdictBegins
<1>2. EvidenceInv /\ PlansInOrder /\ VerdictInv /\ [Next]_vars => VerdictInv'
  <2> SUFFICES ASSUME EvidenceInv, PlansInOrder, VerdictInv, [Next]_vars PROVE VerdictInv'
    OBVIOUS
  <2>1. CASE \E r \in Runs : Step(r)
    BY <2>1, StepJudged
  <2>2. CASE \E r \in Runs : Tamper(r) \/ Kill(r)
    BY <2>2, TamperJudged, DirectoryTurns, TurnKeeps
  <2>3. CASE \E r \in Runs : WriteManifest(r)
    BY <2>3, VerdictStutters DEF WriteManifest, Same, planVars, packVars
  <2>4. CASE UNCHANGED <<packs, at, planVars, packVars, victims, treeVars, kills>>
    BY <2>4, VerdictStutters DEF planVars, packVars
  <2>5. CASE UNCHANGED vars
    BY <2>5, VerdictStutters DEF vars, planVars, packVars
  <2>6. QED
    BY <2>1, <2>2, <2>3, <2>4, <2>5 DEF Next
<1>3. PlansInv => PlansInOrder
  BY DEF PlansInv
<1>4. QED
  BY <1>1, <1>2, <1>3, EvidenceInvariant, PlansInvariant, PTL DEF Spec

LEMMA VerdictProves ==
  ASSUME PlansInOrder, VerdictInv
  PROVE  PassedProven
<1>1. ASSUME NEW r \in Runs, InPack(r)
      PROVE  \E needed \in SUBSET Ids :
               /\ Pack(r).depends \subseteq needed
               /\ \A p \in needed : packs[p].depends \subseteq needed /\ Succeeded(r, p)
  <2> DEFINE needed == {p \in Ids : Succeeded(r, p)}
  <2>1. JudgeTypes /\ Judged(r) /\ InPacks(r)
    BY <1>1 DEF VerdictInv, InPack, InPacks
  <2>2. ASSUME NEW p, Succeeded(r, p) PROVE p \in Ids
    <3>1. PICK i \in DOMAIN evidence[r] : evidence[r][i].pack = p
      BY <2>2 DEF Succeeded
    <3>2. evidence[r][i] \in PackItems
      BY <2>1, <3>1 DEF JudgeTypes
    <3>3. QED
      BY <3>1, <3>2 DEF PackItems
  <2>3. Pack(r).depends \subseteq needed
    BY <1>1, <2>1, <2>2, NeedsMet
  <2>4. \A p \in needed : packs[p].depends \subseteq needed
    BY <2>1, <2>2 DEF Judged, NeedsOf, Succeeded
  <2>5. needed \in SUBSET Ids /\ \A p \in needed : Succeeded(r, p)
    OBVIOUS
  <2> HIDE DEF needed
  <2>6. QED
    BY <2>3, <2>4, <2>5
<1>2. PrerequisitesFirst
  BY <1>1 DEF PrerequisitesFirst
<1>3. ASSUME NEW r \in Runs, at[r] = "over", ExitCode(r) = 0
      PROVE  /\ Ran(r) \cup blocked[r] = plan[r].selected
             /\ verdict[r].status = "passed" => blocked[r] = {}
             /\ \A i \in DOMAIN evidence[r] : Proven(evidence[r][i])
             /\ plan[r].order # <<>> => packet[r].intact
  <2>1. Judged(r)
    BY DEF VerdictInv
  <2>2. verdict[r].status \notin {"failed", "blocked"}
    BY <1>3 DEF ExitCode
  <2>3. CASE verdict[r].status = "none"
    <3>1. plan[r] = NoPlan /\ evidence[r] = <<>> /\ blocked[r] = {}
      BY <1>3, <2>1, <2>3 DEF Judged, FreshOf
    <3>2. Ran(r) = {} /\ plan[r].selected = {} /\ plan[r].order = <<>>
      BY <3>1 DEF Ran, NoPlan
    <3>3. QED
      BY <3>1, <3>2
  <2>4. CASE verdict[r].status # "none"
    BY <1>3, <2>1, <2>2, <2>4 DEF Judged, CompleteOf, ProvenOf
  <2>5. QED
    BY <2>3, <2>4
<1>4. ExitProven
  BY <1>3 DEF ExitProven, Proven
<1>5. QED
  BY <1>2, <1>4 DEF PassedProven

\* Whatever commands end with, packets become and runs meet, a check passes only on
\* proof (execution_order, execute_packs, normalized_command).
THEOREM PassingIsProven == Spec => []PassedProven
<1>1. PlansInv => PlansInOrder
  BY DEF PlansInv
<1>2. QED
  BY <1>1, PlansInvariant, VerdictInvariant, VerdictProves, PTL

-----------------------------------------------------------------------------
(* The subject: what commands are given is what the plan was made for.     *)

Asked == [stage : STRING, mode : {"impacted", "all"}, staged : BOOLEAN, paths : SUBSET Paths,
          base : BOOLEAN, named : SUBSET Nat, given : SUBSET STRING]

FileTypes == work \in [Paths -> Contents] /\ index \in [Paths -> Contents] /\ edits \in Nat

SubjectTypes ==
  /\ FileTypes /\ OnRuns(scope) /\ OnRuns(snapshot) /\ OnRuns(unread)
  /\ request \in Requests[packs] /\ packs \in Configs

ShapeOf(r) ==
  /\ scope[r] = Scope(scope[r].kind, scope[r].mode, scope[r].records)
  /\ packet[r] = [contents |-> packet[r].contents, intact |-> packet[r].intact]

AskedOf(r) ==
  /\ at[r] \in {"asked", "binding"} => request[r] # NoRequest
  /\ at[r] = "asked" => scope[r].records = <<>>
  /\ scope[r].kind = "changed" => ~Unbound(r)

\* Records are bound one by one to what the first snapshot names.
BindingOf(r) ==
  at[r] = "binding" =>
    /\ ~Unbound(r) /\ unread[r] \subseteq DOMAIN snapshot[r]
    /\ DOMAIN scope[r].records \subseteq DOMAIN snapshot[r] /\ DOMAIN snapshot[r] \subseteq Paths
    /\ \A p \in DOMAIN scope[r].records :
         /\ scope[r].records[p].status = snapshot[r][p].status
         /\ scope[r].records[p].ranges = snapshot[r][p].ranges

\* How many edits it takes for a file to be something else than its snapshot said,
\* g, and again, after it was bound to other bytes than g.
Drifted(r, p, g) ==
  IF Staged(request[r]) THEN index[p] # g => edits >= 1 /\ (work[p] = g => edits >= 2)
  ELSE work[p] # g => edits >= 1
Misbound(r, p, g) ==
  IF Staged(request[r]) THEN index[p] = g => edits >= 3
  ELSE edits >= 1 /\ (work[p] = g => edits >= 2)

DriftOf(r) ==
  at[r] = "binding" =>
    /\ \A p \in DOMAIN snapshot[r] : LET g == snapshot[r][p].ranges IN g # 0 => Drifted(r, p, g)
    /\ \A p \in DOMAIN scope[r].records :
         LET g == snapshot[r][p].ranges
             record == scope[r].records[p]
         IN g # 0 /\ record.status # "deleted" /\ record.image # g => Misbound(r, p, g)

HasScope(r) == at[r] \in {"planned", "marking", "looking", "sweeping", "opened", "closing"} \/ InPacks(r)

\* A file changed before it was bound, and back before the second snapshot.
Returned(r, p) ==
  LET record == scope[r].records[p]
  IN \/ edits >= 3
     \/ ~Staged(request[r]) /\ edits >= 2 /\ work[p] # record.image /\ ~InPacks(r)

RangesOf(r) ==
  HasScope(r) =>
    /\ DOMAIN scope[r].records \subseteq Paths
    /\ \A p \in DOMAIN scope[r].records :
         LET record == scope[r].records[p]
         IN record.ranges \notin {0, record.image} /\ record.status # "deleted" => Returned(r, p)
    /\ request[r].paths = {} => DOMAIN scope[r].records \subseteq plan[r].paths

BytesOf(r) ==
  InPacks(r) =>
    /\ DOMAIN packet[r].contents = DOMAIN scope[r].records
    /\ \A p \in DOMAIN scope[r].records :
         packet[r].contents[p] = scope[r].records[p].image \/ scope[r].records[p].status = "deleted"

OnSubject(pack, r) ==
  \A c \in DOMAIN packs[pack].commands :
    LET entry == packs[pack].commands[c]
    IN CommandApplies(entry, request[r].stage)
         => entry.checker = "none" \/ CheckerFlag(entry.checker, request[r].stage, request[r].mode) # "all"

AttestOf(r) ==
  \A i \in DOMAIN evidence[r] : evidence[r][i].manifest = "valid" =>
    /\ scope[r].kind = "changed" /\ manifests[r][evidence[r][i].pack] = "own"
    /\ OnSubject(evidence[r][i].pack, r)

SubjectOf(r) ==
  ShapeOf(r) /\ AskedOf(r) /\ BindingOf(r) /\ DriftOf(r) /\ RangesOf(r) /\ BytesOf(r) /\ AttestOf(r)

SubjectInv == SubjectTypes /\ \A r \in Runs : SubjectOf(r)

-----------------------------------------------------------------------------
\* q goes on with the same subject, or rests.
Keeps(q) ==
  /\ UNCHANGED <<fileVars, packs, request>>
  /\ scope'[q] = scope[q] /\ snapshot'[q] = snapshot[q] /\ unread'[q] = unread[q] /\ plan'[q] = plan[q]
  /\ packet'[q] = packet[q] /\ evidence'[q] = evidence[q]
  /\ \A p \in Ids : manifests[q][p] = "own" => manifests'[q][p] = "own"
  /\ \/ at'[q] = at[q]
     \/ /\ at'[q] \notin {"asked", "binding"}
        /\ HasScope(q)' => HasScope(q)
        /\ InPacks(q)' => InPacks(q)

LEMMA KeepsSubject ==
  ASSUME NEW q \in Runs, JudgeTypes, SubjectOf(q), Keeps(q)
  PROVE  SubjectOf(q)'
<1>1. /\ UNCHANGED <<work, index, edits, packs, request>>
      /\ scope'[q] = scope[q] /\ snapshot'[q] = snapshot[q] /\ unread'[q] = unread[q] /\ plan'[q] = plan[q]
      /\ packet'[q] = packet[q] /\ evidence'[q] = evidence[q]
  BY DEF Keeps, fileVars
<1>2. /\ at'[q] \in {"asked", "binding"} => at'[q] = at[q]
      /\ HasScope(q)' => HasScope(q)
      /\ InPacks(q)' => InPacks(q)
  BY DEF Keeps, HasScope, InPacks
<1>3. (Unbound(q)' <=> Unbound(q)) /\ (Staged(request[q])' <=> Staged(request[q]))
  BY <1>1 DEF Unbound
<1>4. ShapeOf(q)' /\ AskedOf(q)'
  BY <1>1, <1>2, <1>3 DEF SubjectOf, ShapeOf, AskedOf, Scope, NoRequest
<1>5. BindingOf(q)' /\ DriftOf(q)'
  <2>1. \A p, g : (Drifted(q, p, g)' <=> Drifted(q, p, g)) /\ (Misbound(q, p, g)' <=> Misbound(q, p, g))
    BY <1>1, <1>3 DEF Drifted, Misbound
  <2>2. QED
    BY <1>1, <1>2, <1>3, <2>1 DEF SubjectOf, BindingOf, DriftOf
<1>6. RangesOf(q)'
  <2>1. \A p : Returned(q, p) => Returned(q, p)'
    BY <1>1, <1>2, <1>3 DEF Returned
  <2>2. QED
    BY <1>1, <1>2, <2>1 DEF SubjectOf, RangesOf
<1>7. BytesOf(q)'
  BY <1>1, <1>2 DEF SubjectOf, BytesOf
<1>8. AttestOf(q)'
  <2>1. \A pack : OnSubject(pack, q)' <=> OnSubject(pack, q)
    BY <1>1 DEF OnSubject
  <2>2. \A i \in DOMAIN evidence[q] : evidence[q][i].pack \in Ids
    <3>1. evidence[q] \in Seq(PackItems)
      BY DEF JudgeTypes
    <3>2. \A i \in DOMAIN evidence[q] : evidence[q][i] \in PackItems
      BY <3>1
    <3>3. QED
      BY <3>2 DEF PackItems
  <2>3. ASSUME NEW i \in DOMAIN evidence[q], evidence[q][i].manifest = "valid"
        PROVE  /\ scope'[q].kind = "changed" /\ manifests'[q][evidence[q][i].pack] = "own"
               /\ OnSubject(evidence[q][i].pack, q)'
    BY <1>1, <2>1, <2>2, <2>3 DEF SubjectOf, AttestOf, Keeps
  <2>4. QED
    BY <1>1, <2>3 DEF AttestOf
<1>9. QED
  BY <1>4, <1>5, <1>6, <1>7, <1>8 DEF SubjectOf

LEMMA OthersOnSubject ==
  ASSUME NEW r \in Runs, VerdictInv, SubjectInv, SubjectTypes', SubjectOf(r)',
         \A q \in Runs \ {r} : Keeps(q)
  PROVE  SubjectInv'
<1>1. ASSUME NEW q \in Runs, q # r PROVE SubjectOf(q)'
  BY <1>1, KeepsSubject DEF SubjectInv, VerdictInv
<1>2. QED
  BY <1>1 DEF SubjectInv

\* A step of r that leaves files, scopes, packets and evidence alone.
LEMMA PassingKeeps ==
  ASSUME NEW r \in Runs, EvidenceInv, VerdictInv, SubjectInv,
         UNCHANGED <<fileVars, packs, planVars, packet, evidence>>, at' = [at EXCEPT ![r] = at'[r]],
         \A q \in Runs : \A p \in Ids : manifests[q][p] = "own" => manifests'[q][p] = "own",
         \/ at'[r] = at[r]
         \/ at'[r] \notin {"asked", "binding"} /\ (HasScope(r)' => HasScope(r)) /\ (InPacks(r)' => InPacks(r))
  PROVE  SubjectInv'
<1>1. \A q \in Runs \ {r} : at'[q] = at[q]
  BY DEF EvidenceInv, TreeTypes
<1>2. \A q \in Runs : Keeps(q)
  BY <1>1 DEF Keeps, planVars
<1>3. SubjectOf(r)'
  BY <1>2, KeepsSubject DEF SubjectInv, VerdictInv
<1>4. SubjectTypes'
  BY DEF SubjectInv, SubjectTypes, FileTypes, OnRuns, planVars, fileVars
<1>5. QED
  BY <1>2, <1>3, <1>4, OthersOnSubject

LEMMA LeastIs ==
  ASSUME NEW S \in SUBSET Nat, S # {}
  PROVE  Min(S) \in S
BY Smallest DEF Min

-----------------------------------------------------------------------------
\* Which steps leave the subject of a run as it is.
LEMMA DirectoryPasses ==
  ASSUME NEW r \in Runs, EvidenceInv, VerdictInv, SubjectInv,
         Refuse(r) \/ Claim(r) \/ Mark(r) \/ Unmark(r) \/ SweepLook(r) \/ SweepRemove(r) \/ Kill(r)
  PROVE  SubjectInv'
<1>1. UNCHANGED <<fileVars, packs, planVars, packet, evidence, manifests>>
  BY DEF Refuse, Claim, Mark, Unmark, SweepLook, SweepRemove, Kill, Same, packVars, treeVars
<1> DEFINE Outside == Places \ {"asked", "binding", "packs", "command", "running", "inspect"}
<1>2. \E place \in Outside : Goes(r, place) /\ (place \in {"over", "killed"} \/ HasScope(r))
  BY PlacesAre DEF Refuse, Claim, Mark, Unmark, SweepLook, SweepRemove, Kill, Same, HasScope, Ends
<1>3. PICK place \in Outside : Goes(r, place) /\ (place \in {"over", "killed"} \/ HasScope(r))
  BY <1>2
<1>4. at'[r] = place /\ at' = [at EXCEPT ![r] = at'[r]]
  BY <1>3, Going
<1>5. QED
  BY <1>1, <1>3, <1>4, PassingKeeps DEF HasScope, InPacks

LEMMA PacksPass ==
  ASSUME NEW r \in Runs, EvidenceInv, VerdictInv, SubjectInv,
         LeaveOut(r) \/ OpenPack(r) \/ AllPacks(r) \/ StartCommand(r) \/ EndCommand(r) \/ CannotStart(r)
  PROVE  SubjectInv'
<1>1. /\ UNCHANGED <<fileVars, packs, planVars, packet, evidence, manifests>> /\ InPacks(r) /\ HasScope(r)
  BY DEF LeaveOut, OpenPack, AllPacks, StartCommand, EndCommand, CannotStart, Same, packVars, treeVars,
         InPacks, HasScope
<1>2. at' = at \/ \E place \in {"command", "running", "inspect", "closing"} : Goes(r, place)
  BY RecordedGoes DEF LeaveOut, OpenPack, AllPacks, StartCommand, EndCommand, CannotStart
<1>3. CASE at' = at
  BY <1>1, <1>3, Staying, PassingKeeps
<1>4. CASE \E place \in {"command", "running", "inspect", "closing"} : Goes(r, place)
  <2>1. PICK place \in {"command", "running", "inspect", "closing"} : Goes(r, place)
    BY <1>4
  <2>2. at'[r] = place /\ at' = [at EXCEPT ![r] = at'[r]]
    BY <2>1, Going, PlacesAre
  <2>3. QED
    BY <1>1, <2>1, <2>2, PassingKeeps DEF HasScope, InPacks
<1>5. QED
  BY <1>2, <1>3, <1>4

LEMMA WriteManifestPasses ==
  ASSUME NEW r \in Runs, EvidenceInv, VerdictInv, SubjectInv, WriteManifest(r)
  PROVE  SubjectInv'
<1>1. /\ UNCHANGED <<fileVars, packs, planVars, packet, evidence, at>>
      /\ manifests[r][Head(left[r])] = "absent"
  BY DEF WriteManifest, Same, packVars
<1>2. PICK kind \in ManifestKinds : manifests' = [manifests EXCEPT ![r][Head(left[r])] = kind]
  BY DEF WriteManifest
<1>3. \A q \in Runs : \A p \in Ids : manifests[q][p] = "own" => manifests'[q][p] = "own"
  BY <1>1, <1>2 DEF EvidenceInv, TreeTypes
<1>4. QED
  BY <1>1, <1>3, Staying, PassingKeeps

LEMMA TamperPasses ==
  ASSUME NEW r \in Runs, EvidenceInv, VerdictInv, SubjectInv, Tamper(r)
  PROVE  SubjectInv'
<1>1. /\ UNCHANGED <<fileVars, packs, planVars, evidence, at, manifests>>
      /\ packet' = [packet EXCEPT ![r].intact = FALSE]
  BY DEF Tamper, Same, treeVars
<1>2. OnRuns(packet) /\ SubjectOf(r)
  BY DEF SubjectInv, VerdictInv, JudgeTypes
<1>3. /\ packet'[r] = [contents |-> packet[r].contents, intact |-> FALSE]
      /\ \A q \in Runs \ {r} : packet'[q] = packet[q]
  BY <1>1, <1>2 DEF OnRuns, SubjectOf, ShapeOf
<1>4. \A q \in Runs \ {r} : Keeps(q)
  BY <1>1, <1>3 DEF Keeps, planVars
<1>5. SubjectTypes'
  BY <1>1 DEF SubjectInv, SubjectTypes, FileTypes, OnRuns, planVars, fileVars
<1>6. SubjectOf(r)'
  <2>1. packet'[r] = [contents |-> packet'[r].contents, intact |-> packet'[r].intact]
    BY <1>3
  <2>2. packet'[r].contents = packet[r].contents
    BY <1>3
  <2>3. /\ UNCHANGED <<work, index, edits, packs, request, scope, snapshot, unread, plan, evidence, at, manifests>>
    BY <1>1 DEF planVars, fileVars
  <2>4. ShapeOf(r)' /\ AskedOf(r)' /\ BindingOf(r)'
    BY <1>2, <2>1, <2>3 DEF SubjectOf, ShapeOf, AskedOf, BindingOf, Scope, NoRequest, Unbound
  <2>5. DriftOf(r)'
    BY <1>2, <2>3 DEF SubjectOf, DriftOf, Drifted, Misbound
  <2>6. RangesOf(r)' /\ BytesOf(r)'
    BY <1>2, <2>2, <2>3 DEF SubjectOf, RangesOf, BytesOf, HasScope, InPacks, Returned
  <2>7. AttestOf(r)'
    BY <1>2, <2>3 DEF SubjectOf, AttestOf, OnSubject
  <2>8. QED
    BY <2>4, <2>5, <2>6, <2>7 DEF SubjectOf
<1>7. QED
  BY <1>4, <1>5, <1>6, OthersOnSubject

\* Edits of files count: none undoes what another run was bound to unseen.
LEMMA EditIs ==
  ASSUME SubjectTypes, Edit
  PROVE  /\ FileTypes' /\ edits' = edits + 1 /\ edits \in Nat
         /\ \A p \in Paths : \/ index'[p] = index[p]
                             \/ work'[p] = work[p] /\ index'[p] = work[p]
<1>1. FileTypes /\ edits' = edits + 1
  BY DEF SubjectTypes, Edit
<1>2. PICK p \in Paths :
         \/ \E c \in Contents \ {work[p]} : work' = [work EXCEPT ![p] = c] /\ UNCHANGED index
         \/ index[p] # work[p] /\ index' = [index EXCEPT ![p] = work[p]] /\ UNCHANGED work
  BY DEF Edit
<1>3. work' \in [Paths -> Contents] /\ index' \in [Paths -> Contents]
  BY <1>1, <1>2 DEF FileTypes
<1>4. edits \in Nat /\ edits' \in Nat
  BY <1>1 DEF FileTypes
<1>5. \A x \in Paths : index'[x] = index[x] \/ (work'[x] = work[x] /\ index'[x] = work[x])
  BY <1>1, <1>2 DEF FileTypes
<1>6. QED
  BY <1>1, <1>3, <1>4, <1>5 DEF FileTypes

LEMMA EditKeeps ==
  ASSUME SubjectInv, Edit, UNCHANGED <<packs, at, planVars, packet, evidence, manifests>>
  PROVE  SubjectInv'
<1>1. UNCHANGED <<packs, at, request, scope, snapshot, unread, plan, packet, evidence, manifests>>
  BY DEF planVars
<1>2. /\ FileTypes' /\ edits' = edits + 1 /\ edits \in Nat
      /\ \A p \in Paths : index'[p] = index[p] \/ (work'[p] = work[p] /\ index'[p] = work[p])
  BY EditIs DEF SubjectInv
<1>3. ASSUME NEW r \in Runs PROVE SubjectOf(r)'
  <2>1. SubjectOf(r)
    BY DEF SubjectInv
  <2>2. (Unbound(r)' <=> Unbound(r)) /\ (Staged(request[r])' <=> Staged(request[r]))
    BY <1>1 DEF Unbound
  <2>3. ShapeOf(r)' /\ AskedOf(r)' /\ BindingOf(r)' /\ BytesOf(r)'
    BY <1>1, <2>1, <2>2 DEF SubjectOf, ShapeOf, AskedOf, BindingOf, BytesOf, InPacks, Scope, NoRequest
  <2>4. AttestOf(r)'
    BY <1>1, <2>1 DEF SubjectOf, AttestOf, OnSubject
  <2>5. \A p \in Paths : \A g : Drifted(r, p, g) => Drifted(r, p, g)'
    BY <1>2, <2>2 DEF Drifted
  <2>6. \A p \in Paths : \A g : Drifted(r, p, g) /\ Misbound(r, p, g) => Misbound(r, p, g)'
    BY <1>2, <2>2 DEF Drifted, Misbound
  <2>7. DriftOf(r)'
    BY <1>1, <2>1, <2>5, <2>6 DEF SubjectOf, DriftOf, BindingOf
  <2>8. \A p \in Paths : Returned(r, p) => Returned(r, p)'
    BY <1>1, <1>2 DEF Returned, InPacks
  <2>9. RangesOf(r)'
    BY <1>1, <2>1, <2>8 DEF SubjectOf, RangesOf, HasScope, InPacks
  <2>10. QED
    BY <2>3, <2>4, <2>7, <2>9 DEF SubjectOf
<1>4. SubjectTypes'
  BY <1>1, <1>2 DEF SubjectInv, SubjectTypes, OnRuns
<1>5. QED
  BY <1>3, <1>4 DEF SubjectInv

-----------------------------------------------------------------------------
\* Resolving the scope.
LEMMA PlannedOnSubject ==
  ASSUME NEW r \in Runs, NEW kind, NEW mode, NEW records, NEW resolves,
         EvidenceInv, VerdictInv, SubjectInv, at[r] \in {"asked", "binding"},
         Planned(r, Scope(kind, mode, records), resolves),
         UNCHANGED <<fileVars, packs, request, snapshot, unread, packet, evidence, manifests>>,
         kind = "changed" => ~Unbound(r),
         resolves =>
           /\ DOMAIN records \subseteq Paths
           /\ \A p \in DOMAIN records :
                records[p].ranges \notin {0, records[p].image} /\ records[p].status # "deleted" =>
                  edits >= 3 \/ (~Staged(request[r]) /\ edits >= 2 /\ work[p] # records[p].image)
  PROVE  SubjectInv'
<1> DEFINE paths == IF request[r].paths # {} THEN request[r].paths ELSE DOMAIN Scope(kind, mode, records).records
           asked == [request[r] EXCEPT !.paths = paths]
           made == BuildPlan(packs, asked)
           ready == made.ready /\ resolves
           new == [made EXCEPT !.ready = ready]
<1>1. /\ scope' = [scope EXCEPT ![r] = Scope(kind, mode, records)] /\ plan' = [plan EXCEPT ![r] = new]
      /\ IF ready THEN Goes(r, "planned") /\ UNCHANGED verdict
                  ELSE Ends(r, "blocked", "selection-blocked")
  BY DEF Planned
<1>2. TreeTypes /\ JudgeTypes /\ SubjectTypes /\ SubjectOf(r)
  BY DEF EvidenceInv, VerdictInv, SubjectInv
<1>3. evidence[r] = <<>>
  <2>1. verdict[r] = NoVerdict
    BY DEF EvidenceInv, Of, WaitingOf, Waits
  <2>2. QED
    BY <2>1 DEF VerdictInv, Judged, FreshOf
<1>4. new.paths = asked.paths
  BY DEF BuildPlan
<1>5. request[r].paths = {} => asked.paths = DOMAIN records
  <2>1. request[r] \in Asked
    BY <1>2, ExecutionAssumption DEF SubjectTypes, SubjectOf, AskedOf, Asked
  <2>2. asked.paths = paths
    BY <2>1 DEF Asked
  <2>3. QED
    BY <2>2 DEF Scope
<1> HIDE DEF new
<1>6. /\ scope'[r] = Scope(kind, mode, records) /\ plan'[r] = new
      /\ OnRuns(scope)' /\ \A q \in Runs \ {r} : scope'[q] = scope[q] /\ plan'[q] = plan[q]
  BY <1>1, <1>2 DEF SubjectTypes, JudgeTypes, OnRuns
<1>7. scope'[r].kind = kind /\ scope'[r].mode = mode /\ scope'[r].records = records
  BY <1>6 DEF Scope
<1>8. /\ (at'[r] = "planned" /\ resolves) \/ at'[r] = "over"
      /\ \A q \in Runs \ {r} : at'[q] = at[q]
  BY <1>1, <1>2 DEF Ends, Goes, TreeTypes
<1>9. (Unbound(r)' <=> Unbound(r)) /\ (Staged(request[r])' <=> Staged(request[r])) /\ ~InPacks(r)'
  BY <1>8 DEF Unbound, InPacks
<1>10. \A q \in Runs \ {r} : Keeps(q)
  BY <1>6, <1>8 DEF Keeps
<1>11. SubjectTypes'
  BY <1>2, <1>6 DEF SubjectTypes, FileTypes, OnRuns, fileVars
<1>12. ShapeOf(r)'
  BY <1>2, <1>6, <1>7 DEF SubjectOf, ShapeOf
<1>13. AskedOf(r)' /\ BindingOf(r)' /\ DriftOf(r)' /\ BytesOf(r)'
  BY <1>7, <1>8, <1>9 DEF AskedOf, BindingOf, DriftOf, BytesOf
<1>14. RangesOf(r)'
  <2>1. CASE at'[r] = "over"
    BY <1>9, <2>1 DEF RangesOf, HasScope
  <2>2. CASE at'[r] = "planned" /\ resolves
    <3>1. DOMAIN records \subseteq Paths
      BY <2>2
    <3>2. \A p \in DOMAIN records :
            records[p].ranges \notin {0, records[p].image} /\ records[p].status # "deleted" => Returned(r, p)'
      BY <1>7, <1>9, <2>2 DEF Returned, fileVars
    <3>3. request[r].paths = {} => DOMAIN records \subseteq new.paths
      BY <1>4, <1>5
    <3>4. QED
      BY <1>6, <1>7, <3>1, <3>2, <3>3 DEF RangesOf
  <2>3. QED
    BY <1>8, <2>1, <2>2
<1>15. AttestOf(r)'
  BY <1>3 DEF AttestOf
<1>16. QED
  BY <1>10, <1>11, <1>12, <1>13, <1>14, <1>15, OthersOnSubject DEF SubjectOf

LEMMA UnresolvedOnSubject ==
  ASSUME NEW r \in Runs, EvidenceInv, VerdictInv, SubjectInv, at[r] \in {"asked", "binding"}, ~Unbound(r),
         Planned(r, NoScope(request[r]), FALSE),
         UNCHANGED <<fileVars, packs, request, snapshot, unread, packet, evidence, manifests>>
  PROVE  SubjectInv'
  BY PlannedOnSubject DEF NoScope

LEMMA LookOnSubject ==
  ASSUME NEW r \in Runs, EvidenceInv, VerdictInv, SubjectInv, Look(r)
  PROVE  SubjectInv'
<1>1. at[r] = "asked" /\ UNCHANGED <<fileVars, packs, request, packet, evidence, manifests>>
  BY DEF Look, Same, treeVars
<1>2. CASE Unbound(r) /\ Planned(r, AllScope, TRUE) /\ UNCHANGED <<snapshot, unread>>
  <2>1. Planned(r, Scope("all", "all", <<>>), TRUE)
    BY <1>2 DEF AllScope
  <2>2. DOMAIN <<>> = {}
    OBVIOUS
  <2>3. QED
    BY <1>1, <1>2, <2>1, <2>2, PlannedOnSubject
<1>3. CASE ~Unbound(r) /\ Planned(r, NoScope(request[r]), FALSE) /\ UNCHANGED <<snapshot, unread>>
  BY <1>1, <1>3, UnresolvedOnSubject
<1>4. CASE /\ ~Unbound(r) /\ Goes(r, "binding") /\ UNCHANGED <<scope, plan>>
           /\ snapshot' = [snapshot EXCEPT ![r] = Snapshot(request[r])]
           /\ unread' = [unread EXCEPT ![r] = DOMAIN Snapshot(request[r])]
  <2>1. TreeTypes /\ SubjectTypes /\ SubjectOf(r)
    BY DEF EvidenceInv, SubjectInv
  <2>2. /\ snapshot'[r] = Snapshot(request[r]) /\ unread'[r] = DOMAIN Snapshot(request[r])
        /\ OnRuns(snapshot)' /\ OnRuns(unread)' /\ OnRuns(scope)'
        /\ \A q \in Runs \ {r} : snapshot'[q] = snapshot[q] /\ unread'[q] = unread[q]
    BY <1>4, <2>1 DEF SubjectTypes, OnRuns
  <2>3. at'[r] = "binding" /\ \A q \in Runs \ {r} : at'[q] = at[q]
    BY <1>4, <2>1 DEF Goes, TreeTypes
  <2>4. \A q \in Runs \ {r} : Keeps(q)
    BY <1>1, <1>4, <2>2, <2>3 DEF Keeps
  <2>5. SubjectTypes'
    BY <1>1, <2>1, <2>2 DEF SubjectTypes, FileTypes, fileVars
  <2>6. scope'[r] = scope[r] /\ scope[r].records = <<>> /\ DOMAIN scope[r].records = {}
    BY <1>1, <1>4, <2>1 DEF SubjectOf, AskedOf
  <2>7. (Unbound(r)' <=> Unbound(r)) /\ (Staged(request[r])' <=> Staged(request[r]))
    BY <1>1 DEF Unbound
  <2>8. ShapeOf(r)' /\ AskedOf(r)'
    BY <1>1, <1>4, <2>1, <2>3, <2>6, <2>7 DEF SubjectOf, ShapeOf, AskedOf, Scope, NoRequest
  <2>9. DOMAIN Snapshot(request[r]) \subseteq Paths
    BY DEF Snapshot, Diffed, Supplement
  <2>10. BindingOf(r)'
    BY <1>4, <2>2, <2>6, <2>7, <2>9 DEF BindingOf
  <2>11. \A p \in DOMAIN Snapshot(request[r]) :
           LET g == Snapshot(request[r])[p].ranges IN g # 0 => g = Tracked(request[r], p)
    BY DEF Snapshot
  <2>12. \A p, g : g # 0 /\ g = Tracked(request[r], p) => Drifted(r, p, g)'
    BY <1>1 DEF Drifted, Tracked, fileVars
  <2>13. DriftOf(r)'
    BY <2>2, <2>6, <2>11, <2>12 DEF DriftOf
  <2>14. RangesOf(r)' /\ BytesOf(r)'
    BY <2>3 DEF RangesOf, BytesOf, HasScope, InPacks
  <2>15. AttestOf(r)'
    BY <1>1, <1>4, <2>1 DEF SubjectOf, AttestOf, OnSubject
  <2>16. QED
    BY <2>4, <2>5, <2>8, <2>10, <2>13, <2>14, <2>15, OthersOnSubject DEF SubjectOf
<1>5. QED
  BY <1>2, <1>3, <1>4 DEF Look

LEMMA BindOnSubject ==
  ASSUME NEW r \in Runs, EvidenceInv, VerdictInv, SubjectInv, Bind(r)
  PROVE  SubjectInv'
<1> DEFINE p == Min(unread[r])
           image == IF snapshot[r][p].status = "deleted" THEN 0 ELSE AfterImage(request[r], p)
           bound == [status |-> snapshot[r][p].status, ranges |-> snapshot[r][p].ranges, image |-> image]
           records == [q \in DOMAIN scope[r].records \cup {p} |->
                         IF q = p THEN bound ELSE scope[r].records[q]]
<1>1. /\ at[r] = "binding" /\ unread[r] # {}
      /\ UNCHANGED <<fileVars, packs, request, snapshot, packet, evidence, manifests>>
  BY DEF Bind, Same, treeVars
<1>2. TreeTypes /\ SubjectTypes /\ SubjectOf(r) /\ BindingOf(r) /\ ~Unbound(r)
  BY <1>1 DEF EvidenceInv, SubjectInv, SubjectOf, BindingOf
<1>3. CASE Planned(r, NoScope(request[r]), FALSE) /\ UNCHANGED unread
  BY <1>1, <1>2, <1>3, UnresolvedOnSubject
<1>4. CASE /\ scope' = [scope EXCEPT ![r].records = records]
           /\ unread' = [unread EXCEPT ![r] = unread[r] \ {p}]
           /\ UNCHANGED <<at, plan>>
  <2>1. p \in unread[r] /\ p \in DOMAIN snapshot[r] /\ p \in Paths
    <3>1. unread[r] \in SUBSET Nat
      BY <1>1, <1>2, ScopeAssumption DEF BindingOf
    <3>2. p \in unread[r]
      BY <1>1, <3>1, LeastIs
    <3>3. QED
      BY <1>1, <1>2, <3>2 DEF BindingOf
  <2> HIDE DEF p
  <2>2. /\ scope'[r] = Scope(scope[r].kind, scope[r].mode, records) /\ unread'[r] = unread[r] \ {p}
        /\ OnRuns(scope)' /\ OnRuns(unread)'
        /\ \A q \in Runs \ {r} : scope'[q] = scope[q] /\ unread'[q] = unread[q]
    <3>1. scope[r] = Scope(scope[r].kind, scope[r].mode, scope[r].records)
      BY <1>2 DEF SubjectOf, ShapeOf
    <3>2. [scope[r] EXCEPT !.records = records] = Scope(scope[r].kind, scope[r].mode, records)
      BY <3>1 DEF Scope
    <3>3. QED
      BY <1>2, <1>4, <3>2 DEF SubjectTypes, OnRuns
  <2>3. scope'[r].kind = scope[r].kind /\ scope'[r].mode = scope[r].mode /\ scope'[r].records = records
    BY <2>2 DEF Scope
  <2>4. /\ DOMAIN records = DOMAIN scope[r].records \cup {p} /\ records[p] = bound
        /\ \A x \in DOMAIN scope[r].records \ {p} : records[x] = scope[r].records[x]
    OBVIOUS
  <2>5. /\ bound.status = snapshot[r][p].status /\ bound.ranges = snapshot[r][p].ranges /\ bound.image = image
    OBVIOUS
  <2> HIDE DEF records, bound
  <2>6. \A q \in Runs \ {r} : Keeps(q)
    BY <1>1, <1>4, <2>2 DEF Keeps
  <2>7. SubjectTypes'
    BY <1>1, <1>2, <2>2 DEF SubjectTypes, FileTypes, OnRuns, fileVars
  <2>8. (Unbound(r)' <=> Unbound(r)) /\ (Staged(request[r])' <=> Staged(request[r]))
    BY <1>1 DEF Unbound
  <2>9. ShapeOf(r)' /\ AskedOf(r)'
    BY <1>1, <1>2, <1>4, <2>2, <2>3, <2>8 DEF SubjectOf, ShapeOf, AskedOf, NoRequest
  <2>10. BindingOf(r)'
    BY <1>1, <1>2, <2>1, <2>2, <2>3, <2>4, <2>5, <2>8 DEF BindingOf
  <2>11. \A x, g : (Drifted(r, x, g)' <=> Drifted(r, x, g)) /\ (Misbound(r, x, g)' <=> Misbound(r, x, g))
    BY <1>1, <2>8 DEF Drifted, Misbound, fileVars
  <2>12. ASSUME snapshot[r][p].ranges # 0, bound.status # "deleted", bound.image # snapshot[r][p].ranges
         PROVE  Misbound(r, p, snapshot[r][p].ranges)
    <3>1. image = AfterImage(request[r], p)
      BY <2>5, <2>12
    <3>2. Drifted(r, p, snapshot[r][p].ranges)
      BY <1>1, <1>2, <2>1, <2>12 DEF SubjectOf, DriftOf
    <3>3. QED
      BY <2>5, <2>12, <3>1, <3>2 DEF Drifted, Misbound, AfterImage
  <2>13. DriftOf(r)'
    <3>1. ASSUME NEW x \in DOMAIN snapshot[r], snapshot[r][x].ranges # 0
          PROVE  Drifted(r, x, snapshot[r][x].ranges)
      BY <1>1, <1>2, <3>1 DEF SubjectOf, DriftOf
    <3>2. ASSUME NEW x \in DOMAIN records, snapshot[r][x].ranges # 0, records[x].status # "deleted",
                 records[x].image # snapshot[r][x].ranges
          PROVE  Misbound(r, x, snapshot[r][x].ranges)
      <4>1. CASE x = p
        BY <2>4, <2>12, <3>2, <4>1
      <4>2. CASE x # p
        BY <1>1, <1>2, <2>4, <3>2, <4>2 DEF SubjectOf, DriftOf
      <4>3. QED
        BY <4>1, <4>2
    <3>3. ASSUME NEW x, NEW g
          PROVE  (Drifted(r, x, g) => Drifted(r, x, g)') /\ (Misbound(r, x, g) => Misbound(r, x, g)')
      BY <2>11
    <3>4. snapshot' = snapshot /\ scope'[r].records = records
      BY <1>1, <2>3
    <3>5. ASSUME NEW x \in DOMAIN snapshot[r], snapshot[r][x].ranges # 0
          PROVE  Drifted(r, x, snapshot[r][x].ranges)'
      BY <3>1, <3>3, <3>4, <3>5
    <3>6. ASSUME NEW x \in DOMAIN records, snapshot[r][x].ranges # 0, records[x].status # "deleted",
                 records[x].image # snapshot[r][x].ranges
          PROVE  Misbound(r, x, snapshot[r][x].ranges)'
      BY <3>2, <3>3, <3>4, <3>6
    <3>7. QED
      BY <3>4, <3>5, <3>6 DEF DriftOf
  <2>14. RangesOf(r)' /\ BytesOf(r)'
    BY <1>1, <1>4 DEF RangesOf, BytesOf, HasScope, InPacks
  <2>15. AttestOf(r)'
    BY <1>1, <1>2, <2>3 DEF SubjectOf, AttestOf, OnSubject
  <2>16. QED
    BY <2>6, <2>7, <2>9, <2>10, <2>13, <2>14, <2>15, OthersOnSubject DEF SubjectOf
<1>5. QED
  BY <1>3, <1>4 DEF Bind

LEMMA ConfirmOnSubject ==
  ASSUME NEW r \in Runs, EvidenceInv, VerdictInv, SubjectInv, Confirm(r)
  PROVE  SubjectInv'
<1>1. at[r] = "binding" /\ UNCHANGED <<fileVars, packs, request, snapshot, unread, packet, evidence, manifests>>
  BY DEF Confirm, Same, treeVars
<1>2. SubjectTypes /\ SubjectOf(r) /\ BindingOf(r) /\ DriftOf(r) /\ ~Unbound(r)
  BY <1>1 DEF SubjectInv, SubjectOf, BindingOf
<1>3. CASE Planned(r, NoScope(request[r]), FALSE)
  BY <1>1, <1>2, <1>3, UnresolvedOnSubject
<1>4. CASE /\ Snapshot(request[r]) = snapshot[r]
           /\ Planned(r, Scope("changed", PacketMode(request[r]), scope[r].records), TRUE)
  <2> DEFINE records == scope[r].records
  <2>1. ASSUME NEW p \in DOMAIN records, records[p].ranges \notin {0, records[p].image},
               records[p].status # "deleted"
        PROVE  edits >= 3 \/ (~Staged(request[r]) /\ edits >= 2 /\ work[p] # records[p].image)
    <3>1. /\ p \in DOMAIN snapshot[r] /\ records[p].ranges = snapshot[r][p].ranges
      BY <1>1, <1>2, <2>1 DEF BindingOf
    <3> DEFINE g == snapshot[r][p].ranges
    <3>2. Misbound(r, p, g)
      BY <1>1, <1>2, <2>1, <3>1 DEF DriftOf
    <3>3. g = Tracked(request[r], p)
      BY <1>4, <2>1, <3>1 DEF Snapshot
    <3>4. QED
      BY <2>1, <3>1, <3>2, <3>3 DEF Misbound, Tracked
  <2>2. DOMAIN records \subseteq Paths
    BY <1>1, <1>2 DEF BindingOf
  <2>3. QED
    BY <1>1, <1>2, <1>4, <2>1, <2>2, PlannedOnSubject
<1>5. QED
  BY <1>3, <1>4 DEF Confirm

\* Worktree bytes go into the packet only as they were bound.
LEMMA MaterializeOnSubject ==
  ASSUME NEW r \in Runs, EvidenceInv, VerdictInv, SubjectInv, Materialize(r)
  PROVE  SubjectInv'
<1>1. at[r] = "opened" /\ UNCHANGED <<fileVars, packs, planVars, evidence, manifests>>
  BY DEF Materialize, Same, treeVars
<1>2. TreeTypes /\ JudgeTypes /\ SubjectTypes /\ SubjectOf(r) /\ HasScope(r) /\ ~InPacks(r)
  BY <1>1 DEF EvidenceInv, VerdictInv, SubjectInv, HasScope, InPacks
<1>3. CASE Stale(r)
  <2>1. Goes(r, "closing") /\ UNCHANGED packet
    BY <1>3 DEF Materialize
  <2>2. at'[r] = "closing" /\ at' = [at EXCEPT ![r] = at'[r]]
    BY <2>1, Going, PlacesAre
  <2>3. QED
    BY <1>1, <1>2, <2>1, <2>2, PassingKeeps DEF HasScope, InPacks
<1>4. CASE ~Stale(r)
  <2> DEFINE contents == [p \in DOMAIN scope[r].records |->
                            IF Staged(request[r]) THEN scope[r].records[p].image ELSE AfterImage(request[r], p)]
  <2>1. packet' = [packet EXCEPT ![r] = [contents |-> contents, intact |-> TRUE]] /\ Goes(r, "packs")
    BY <1>4 DEF Materialize
  <2>2. /\ packet'[r] = [contents |-> contents, intact |-> TRUE]
        /\ \A q \in Runs \ {r} : packet'[q] = packet[q]
    BY <1>2, <2>1 DEF JudgeTypes, OnRuns
  <2>3. at'[r] = "packs" /\ \A q \in Runs \ {r} : at'[q] = at[q]
    BY <1>2, <2>1 DEF Goes, TreeTypes
  <2>4. \A q \in Runs \ {r} : Keeps(q)
    BY <1>1, <2>2, <2>3 DEF Keeps, planVars
  <2>5. SubjectTypes'
    BY <1>1, <1>2 DEF SubjectTypes, FileTypes, OnRuns, planVars, fileVars
  <2>6. UNCHANGED <<work, index, edits, packs, request, scope, snapshot, unread, plan, evidence, manifests>>
    BY <1>1 DEF planVars, fileVars
  <2>7. /\ packet'[r] = [contents |-> packet'[r].contents, intact |-> packet'[r].intact]
        /\ packet'[r].contents = contents
    BY <2>2
  <2>8. ShapeOf(r)' /\ AskedOf(r)' /\ BindingOf(r)' /\ DriftOf(r)'
    BY <1>2, <2>3, <2>6, <2>7 DEF SubjectOf, ShapeOf, AskedOf, BindingOf, DriftOf, Scope, Unbound
  <2>9. \A p \in DOMAIN scope[r].records :
          contents[p] = scope[r].records[p].image \/ scope[r].records[p].status = "deleted"
    BY <1>4 DEF Stale, AfterImage
  <2>10. BytesOf(r)'
    BY <2>6, <2>7, <2>9 DEF BytesOf
  <2>11. RangesOf(r)'
    <3>1. ASSUME NEW p \in DOMAIN scope[r].records, scope[r].records[p].status # "deleted", Returned(r, p)
          PROVE  edits >= 3
      BY <1>4, <3>1 DEF Returned, Stale
    <3>2. \A p \in DOMAIN scope[r].records : scope[r].records[p].status # "deleted" =>
            (Returned(r, p) => Returned(r, p)')
      BY <2>6, <3>1 DEF Returned
    <3>3. RangesOf(r)
      BY <1>2 DEF SubjectOf
    <3>4. QED
      BY <1>2, <2>6, <3>2, <3>3 DEF RangesOf
  <2>12. AttestOf(r)'
    BY <1>2, <2>6 DEF SubjectOf, AttestOf, OnSubject
  <2>13. QED
    BY <2>4, <2>5, <2>8, <2>10, <2>11, <2>12, OthersOnSubject DEF SubjectOf
<1>5. QED
  BY <1>3, <1>4

\* A manifest is valid only where the subject was given.
LEMMA ClosePackOnSubject ==
  ASSUME NEW r \in Runs, EvidenceInv, VerdictInv, SubjectInv, PlansInOrder, ClosePack(r)
  PROVE  SubjectInv'
<1> DEFINE item == PackEvidence(r)
           place == IF DiagnosticStop(item) THEN "closing" ELSE "packs"
           more == Append(evidence[r], item)
<1>1. /\ at[r] = "inspect" /\ Goes(r, place) /\ evidence' = [evidence EXCEPT ![r] = more]
      /\ UNCHANGED <<fileVars, packs, planVars, packet, manifests>>
  BY DEF ClosePack, Same
<1>2. /\ TreeTypes /\ JudgeTypes /\ SubjectTypes /\ SubjectOf(r) /\ Judged(r)
      /\ InPack(r) /\ InPacks(r) /\ HasScope(r)
  BY <1>1 DEF EvidenceInv, VerdictInv, SubjectInv, InPack, InPacks, HasScope
<1>3. Head(left[r]) \in Ids
  BY <1>2, AtHand DEF Judged, ProgressOf
<1>4. at'[r] \in {"closing", "packs"} /\ \A q \in Runs \ {r} : at'[q] = at[q]
  BY <1>1, <1>2 DEF Goes, TreeTypes
<1>5. evidence[r] \in Seq(PackItems) /\ item \in PackItems
  <2>1. evidence[r] \in Seq(PackItems) /\ commands[r] \in Seq(CommandItems)
    BY <1>2 DEF JudgeTypes
  <2>2. Bound(r) \in BOOLEAN /\ Inspected(r) \in {"absent", "valid", "invalid"}
    BY DEF Bound, Inspected
  <2>3. QED
    BY <1>3, <2>1, <2>2 DEF PackEvidence, PackItems
<1>6. \A i \in DOMAIN more : (i \in DOMAIN evidence[r] /\ more[i] = evidence[r][i]) \/ more[i] = item
  BY <1>5, AppendIs
<1>7. item.pack = Head(left[r]) /\ item.manifest = Inspected(r)
  BY DEF PackEvidence
<1> HIDE DEF item, more
<1>8. evidence'[r] = more /\ \A q \in Runs \ {r} : evidence'[q] = evidence[q]
  BY <1>1, <1>2 DEF JudgeTypes
<1>9. \A q \in Runs \ {r} : Keeps(q)
  BY <1>1, <1>4, <1>8 DEF Keeps, planVars
<1>10. SubjectTypes'
  BY <1>1, <1>2 DEF SubjectTypes, FileTypes, OnRuns, planVars, fileVars
<1>11. UNCHANGED <<work, index, edits, packs, request, scope, snapshot, unread, plan, packet, manifests>>
  BY <1>1 DEF planVars, fileVars
<1>12. ShapeOf(r)' /\ AskedOf(r)' /\ BindingOf(r)' /\ DriftOf(r)' /\ BytesOf(r)'
  BY <1>2, <1>4, <1>11 DEF SubjectOf, ShapeOf, AskedOf, BindingOf, DriftOf, BytesOf, Scope, Unbound
<1>13. RangesOf(r)'
  <2>1. \A p : Returned(r, p) => Returned(r, p)'
    BY <1>2, <1>11 DEF Returned
  <2>2. QED
    BY <1>2, <1>11, <2>1 DEF SubjectOf, RangesOf
<1>14. ASSUME item.manifest = "valid"
       PROVE  /\ scope[r].kind = "changed" /\ manifests[r][item.pack] = "own"
              /\ OnSubject(item.pack, r)
  <2>1. manifests[r][Head(left[r])] = "own" /\ Bound(r)
    BY <1>7, <1>14 DEF Inspected
  <2>2. scope[r].kind = "changed" /\ ~ReadsLiveCheckout(r) /\ request[r].mode # "all"
    BY <1>2, <2>1 DEF Bound, SubjectOf, AskedOf, Unbound
  <2>3. OnSubject(Head(left[r]), r)
    BY <2>2 DEF OnSubject, ReadsLiveCheckout, Pack, CheckerFlag, SelectionFlag
  <2>4. QED
    BY <1>7, <2>1, <2>2, <2>3
<1>15. AttestOf(r)'
  <2>1. \A pack : OnSubject(pack, r)' <=> OnSubject(pack, r)
    BY <1>11 DEF OnSubject
  <2>2. ASSUME NEW i \in DOMAIN more, more[i].manifest = "valid"
        PROVE  /\ scope[r].kind = "changed" /\ manifests[r][more[i].pack] = "own"
               /\ OnSubject(more[i].pack, r)
    BY <1>2, <1>6, <1>14, <2>2 DEF SubjectOf, AttestOf
  <2>3. QED
    BY <1>8, <1>11, <2>1, <2>2 DEF AttestOf
<1>16. QED
  BY <1>9, <1>10, <1>12, <1>13, <1>15, OthersOnSubject DEF SubjectOf

LEMMA SubjectBegins == Init => SubjectInv
<1> SUFFICES ASSUME Init PROVE SubjectInv
  OBVIOUS
<1>1. /\ FilesInit /\ packs \in Configs /\ request \in Requests[packs]
      /\ at = [r \in Runs |-> IF request[r] = NoRequest THEN "over" ELSE "asked"]
      /\ scope = [r \in Runs |-> Scope("none", "none", <<>>)]
      /\ snapshot = [r \in Runs |-> <<>>] /\ unread = [r \in Runs |-> {}]
      /\ packet = [r \in Runs |-> NoPacket] /\ evidence = [r \in Runs |-> <<>>]
  BY DEF Init
<1>2. FileTypes
  BY <1>1, ScopeAssumption DEF FilesInit, FileTypes
<1>3. SubjectTypes
  BY <1>1, <1>2 DEF SubjectTypes, OnRuns
<1>4. ASSUME NEW r \in Runs PROVE SubjectOf(r)
  <2>1. /\ at[r] \in {"asked", "over"} /\ (at[r] = "asked" => request[r] # NoRequest)
        /\ scope[r] = Scope("none", "none", <<>>) /\ packet[r] = NoPacket /\ evidence[r] = <<>>
    BY <1>1
  <2>2. scope[r].kind = "none" /\ scope[r].mode = "none" /\ scope[r].records = <<>>
    BY <2>1 DEF Scope
  <2>3. ShapeOf(r) /\ AskedOf(r)
    BY <2>1, <2>2 DEF ShapeOf, AskedOf, NoPacket
  <2>4. BindingOf(r) /\ DriftOf(r) /\ RangesOf(r) /\ BytesOf(r) /\ AttestOf(r)
    BY <2>1 DEF BindingOf, DriftOf, RangesOf, BytesOf, AttestOf, HasScope, InPacks
  <2>5. QED
    BY <2>3, <2>4 DEF SubjectOf
<1>5. QED
  BY <1>3, <1>4 DEF SubjectInv

\* SubjectInv holds all along: records, packet and manifests
\* are about the bytes the scope was bound to (resolve_change_scope, _materialize_source).
THEOREM SubjectInvariant == Spec => []SubjectInv
<1>1. Init => SubjectInv
  BY SubjectBegins
<1>2. EvidenceInv /\ PlansInOrder /\ VerdictInv /\ SubjectInv /\ [Next]_vars => SubjectInv'
  <2> SUFFICES ASSUME EvidenceInv, PlansInOrder, VerdictInv, SubjectInv, [Next]_vars PROVE SubjectInv'
    OBVIOUS
  <2>1. CASE \E r \in Runs : \/ Refuse(r) \/ Claim(r) \/ Mark(r) \/ Unmark(r)
                            \/ SweepLook(r) \/ SweepRemove(r) \/ Kill(r)
    BY <2>1, DirectoryPasses
  <2>2. CASE \E r \in Runs : Look(r) \/ Bind(r) \/ Confirm(r) \/ Materialize(r)
    BY <2>2, LookOnSubject, BindOnSubject, ConfirmOnSubject, MaterializeOnSubject
  <2>3. CASE \E r \in Runs : \/ LeaveOut(r) \/ OpenPack(r) \/ AllPacks(r)
                            \/ StartCommand(r) \/ EndCommand(r) \/ CannotStart(r)
    BY <2>3, PacksPass
  <2>4. CASE \E r \in Runs : ClosePack(r) \/ Tamper(r) \/ WriteManifest(r)
    BY <2>4, ClosePackOnSubject, TamperPasses, WriteManifestPasses
  <2>5. CASE Edit /\ UNCHANGED <<packs, at, planVars, packVars, victims, treeVars, kills>>
    BY <2>5, EditKeeps DEF packVars, treeVars
  <2>6. CASE UNCHANGED vars
    <3>1. UNCHANGED <<fileVars, packs, at, planVars, packet, evidence, manifests>>
      BY <2>6 DEF vars, packVars, treeVars
    <3>2. \A q \in Runs : Keeps(q)
      BY <3>1 DEF Keeps, planVars
    <3>3. SubjectTypes'
      BY <3>1 DEF SubjectInv, SubjectTypes, FileTypes, OnRuns, planVars, fileVars
    <3>4. QED
      BY <3>2, <3>3, KeepsSubject DEF SubjectInv, VerdictInv
  <2>7. QED
    BY <2>1, <2>2, <2>3, <2>4, <2>5, <2>6 DEF Next, Step
<1>3. PlansInv => PlansInOrder
  BY DEF PlansInv
<1>4. QED
  BY <1>1, <1>2, <1>3, EvidenceInvariant, PlansInvariant, VerdictInvariant, PTL DEF Spec

LEMMA SubjectProves ==
  ASSUME SubjectInv
  PROVE  OneSubject
<1>1. ASSUME NEW r \in Runs, InPack(r), NEW p \in DOMAIN packet[r].contents
      PROVE  /\ packet[r].contents[p] = scope[r].records[p].image \/ scope[r].records[p].status = "deleted"
             /\ \/ scope[r].records[p].ranges \in {0, scope[r].records[p].image}
                \/ scope[r].records[p].status = "deleted" \/ edits > 2
             /\ request[r].paths = {} => p \in plan[r].paths
  <2>1. SubjectOf(r) /\ InPacks(r) /\ HasScope(r) /\ edits \in Nat
    BY <1>1 DEF SubjectInv, SubjectTypes, FileTypes, InPack, InPacks, HasScope
  <2>2. p \in DOMAIN scope[r].records
    BY <1>1, <2>1 DEF SubjectOf, BytesOf
  <2>3. packet[r].contents[p] = scope[r].records[p].image \/ scope[r].records[p].status = "deleted"
    BY <2>1, <2>2 DEF SubjectOf, BytesOf
  <2>4. Returned(r, p) => edits > 2
    BY <2>1 DEF Returned
  <2>5. QED
    BY <2>1, <2>2, <2>3, <2>4 DEF SubjectOf, RangesOf
<1>2. CommandsOnSubject
  BY <1>1 DEF CommandsOnSubject
<1>3. ManifestsOnSubject
  BY DEF SubjectInv, SubjectOf, AttestOf, OnSubject, ManifestsOnSubject
<1>4. QED
  BY <1>2, <1>3 DEF OneSubject

\* However files are edited meanwhile and whatever packs are planned, commands and
\* manifests are about the run's one subject (resolve_change_scope, _materialize_source).
THEOREM SubjectIsOne == Spec => []OneSubject
<1>1. QED
  BY SubjectInvariant, SubjectProves, PTL
=============================================================================
