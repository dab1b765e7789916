-------------------------- MODULE Checkout_proofs --------------------------
(***************************************************************************)
(* Proofs about the parts of a checkout that MCCheckout looks at beside    *)
(* the checks, the context and the startup updates: the documentation      *)
(* module, the registry of dispositions, the surfaces of a multiplatform   *)
(* repository, the releases a startup update adopts and the packets that   *)
(* tasks are given.                                                        *)
(***************************************************************************)
EXTENDS MCCheckout, TelemetryLog_proofs

(*****************************************************************************)
(* docs init (DocumentationCorpus)                                           *)
(*****************************************************************************)

-----------------------------------------------------------------------------
(* The inductive invariant *)

FileStates == {"absent", "odd", "directory", "empty", "default", "kept"}

\* Where an init can be once the catalog, the index and each directory exist.
CatalogThere   == {"write catalog", "profile"}
IndexThere     == {"write index", "catalog", "open catalog"} \cup CatalogThere
ReferenceThere == {"index", "open index"} \cup IndexThere
GuidesThere    == {"reference"} \cup ReferenceThere
RootThere      == {"guides"} \cup GuidesThere
Places         == {"none", "root"} \cup RootThere

\* The profile, the files of the structure and the places of the inits.
CorpusTypes ==
  /\ tree \in [StructureFiles -> FileStates]
  /\ profile \in [kind : {"regular", "absent", "odd"}, text : Nat,
                  section : {"none", "null", "enabled", "disabled", "invalid"}]
  /\ installer \in [Installers -> [at : Places, text : Nat, adds : BOOLEAN]]

\* What an init has passed stays there, whoever made it.
BuiltSoFar ==
  \A i \in Installers :
    /\ installer[i].at \in RootThere => tree["root"] # "absent"
    /\ installer[i].at \in GuidesThere => tree["guides"] # "absent"
    /\ installer[i].at \in ReferenceThere => tree["reference"] # "absent"
    /\ installer[i].at \in IndexThere => tree["index"] # "absent"
    /\ installer[i].at \in CatalogThere => tree["catalog"] # "absent"

\* The exclusive open: a file that an init is about to write is the empty one it
\* made, and nobody else's.
OneWriter ==
  \A i \in Installers :
    /\ installer[i].at = "write index" =>
         tree["index"] = "empty" /\ \A j \in Installers : installer[j].at = "write index" => i = j
    /\ installer[i].at = "write catalog" =>
         tree["catalog"] = "empty" /\ \A j \in Installers : installer[j].at = "write catalog" => i = j

CorpusInv == CorpusTypes /\ BuiltSoFar /\ OneWriter
-----------------------------------------------------------------------------
(* Lemmas *)

LEMMA CorpusInvInit == CorpusInit => CorpusInv
<1>. SUFFICES ASSUME CorpusInit PROVE CorpusInv
  OBVIOUS
<1>1. tree \in [StructureFiles -> FileStates]
  BY SMTT(30) DEF CorpusInit, StructureFiles, Directories, FileStates
<1>2. profile \in [kind : {"regular", "absent", "odd"}, text : Nat,
                   section : {"none", "null", "enabled", "disabled", "invalid"}]
  BY DEF CorpusInit
<1>3. \A i \in Installers : installer[i] = Waiting
  BY DEF CorpusInit
<1>4. installer \in [Installers -> [at : Places, text : Nat, adds : BOOLEAN]]
  BY DEF CorpusInit, Waiting, Places
<1>5. \A i \in Installers : installer[i].at = "none"
  BY <1>3 DEF Waiting
<1>6. BuiltSoFar
  BY <1>5 DEF BuiltSoFar, CatalogThere, IndexThere, ReferenceThere, GuidesThere, RootThere
<1>7. OneWriter
  BY <1>5 DEF OneWriter
<1>. QED
  BY <1>1, <1>2, <1>4, <1>6, <1>7 DEF CorpusInv, CorpusTypes

\* A step of the profile, of people or of an init keeps the types.
LEMMA CorpusTypeStep ==
  ASSUME CorpusTypes, [CorpusNext]_corpusVars
  PROVE  CorpusTypes'
<1>1. CASE UNCHANGED corpusVars
  BY <1>1 DEF CorpusTypes, corpusVars
<1>2. CASE \E i \in Installers : Plan(i)
  <2>. PICK i \in Installers : Plan(i)
    BY <1>2
  <2>1. UNCHANGED <<tree, profile>>
    BY DEF Plan
  <2>2. installer' = installer \/ installer' = [installer EXCEPT ![i] = [at |-> "root", text |-> profile.text, adds |-> Configured(profile) = "none"]]
    BY DEF Plan
  <2>3. [at |-> "root", text |-> profile.text, adds |-> Configured(profile) = "none"] \in [at : Places, text : Nat, adds : BOOLEAN]
    BY DEF CorpusTypes, Places
  <2>4. installer' \in [Installers -> [at : Places, text : Nat, adds : BOOLEAN]]
    BY <2>2, <2>3, Zenon DEF CorpusTypes
  <2>. QED
    BY <2>1, <2>4 DEF CorpusTypes
<1>3. CASE \E i \in Installers : MakeDirectory(i)
  <2>. PICK i \in Installers : MakeDirectory(i)
    BY <1>3
  <2>1. installer[i].at \in Directories
    BY DEF MakeDirectory
  <2>2. After(installer[i].at) \in Places
    BY <2>1 DEF After, Directories, Places, RootThere, GuidesThere, ReferenceThere
  <2>. QED
    BY <2>1, <2>2 DEF MakeDirectory, Advances, CorpusTypes, StructureFiles, FileStates
<1>4. CASE \E i \in Installers : LookFor(i)
  <2>. PICK i \in Installers : LookFor(i)
    BY <1>4
  <2>1. UNCHANGED <<tree, profile>> /\ \E p \in Places : installer' = [installer EXCEPT ![i].at = p]
    BY DEF LookFor, Advances, After, Places, RootThere, GuidesThere, ReferenceThere, IndexThere, CatalogThere
  <2>. QED
    BY <2>1 DEF CorpusTypes
<1>5. CASE \E i \in Installers, f \in {"index", "catalog"} : OpenNew(i, f)
  <2>. PICK i \in Installers, f \in {"index", "catalog"} : OpenNew(i, f)
    BY <1>5
  <2>1. CASE tree[f] # "absent"
    <3>1. UNCHANGED <<tree, profile>> /\ installer' = [installer EXCEPT ![i] = Waiting]
      BY <2>1 DEF OpenNew, StopsInstalling
    <3>2. Waiting \in [at : Places, text : Nat, adds : BOOLEAN]
      BY DEF Waiting, Places
    <3>. QED
      BY <3>1, <3>2 DEF CorpusTypes
  <2>2. CASE tree[f] = "absent"
    <3>1. profile' = profile /\ tree' = [tree EXCEPT ![f] = "empty"] /\ \E p \in Places : installer' = [installer EXCEPT ![i].at = p]
      BY <2>2 DEF OpenNew, Advances, Places, RootThere, GuidesThere, ReferenceThere, IndexThere, CatalogThere
    <3>. QED
      BY <3>1 DEF CorpusTypes, StructureFiles, FileStates
  <2>. QED
    BY <2>1, <2>2
<1>6. CASE \E i \in Installers, f \in {"index", "catalog"} : WriteNew(i, f)
  <2>. PICK i \in Installers, f \in {"index", "catalog"} : WriteNew(i, f)
    BY <1>6
  <2>1. profile' = profile /\ tree' = [tree EXCEPT ![f] = "default"] /\ \E p \in Places : installer' = [installer EXCEPT ![i].at = p]
    BY DEF WriteNew, Advances, After, Places, RootThere, GuidesThere, ReferenceThere, IndexThere, CatalogThere
  <2>. QED
    BY <2>1 DEF CorpusTypes, StructureFiles, FileStates
<1>7. CASE \E i \in Installers : Enable(i)
  BY <1>7 DEF Enable, StopsInstalling, Waiting, CorpusTypes, Places
<1>8. CASE \E i \in Installers : DieInstalling(i)
  BY <1>8 DEF DieInstalling, StopsInstalling, Waiting, CorpusTypes, Places
<1>9. CASE EditProfile
  BY <1>9 DEF EditProfile, CorpusTypes
<1>10. CASE EditCorpus
  BY <1>10 DEF EditCorpus, CorpusTypes, StructureFiles, FileStates
<1>. QED
  BY <1>1, <1>2, <1>3, <1>4, <1>5, <1>6, <1>7, <1>8, <1>9, <1>10 DEF CorpusNext, Installing

\* What a step does to the places of the inits and to the tree: people leave the
\* places alone and the empty files too, an init goes one place on, or out.
OnlyMoves(i, p) ==
  \A k \in Installers : installer'[k].at = IF k = i THEN p ELSE installer[k].at
Makes(f, state) == tree'[f] = state /\ \A g \in StructureFiles \ {f} : tree'[g] = tree[g]
GoesPast(i, f, p) == tree[f] # "absent" /\ OnlyMoves(i, p) /\ UNCHANGED tree
Opens(i, f, p) == tree[f] = "absent" /\ OnlyMoves(i, p) /\ Makes(f, "empty")

NobodyMoves ==
  /\ \A k \in Installers : installer'[k].at = installer[k].at
  /\ \A f \in StructureFiles : tree'[f] = tree[f] \/ (tree[f] # "empty" /\ tree'[f] # "absent")
InstallGoesOn(i) ==
  \/ installer[i].at = "root" /\ OnlyMoves(i, "guides") /\ Makes("root", "directory")
  \/ installer[i].at = "guides" /\ OnlyMoves(i, "reference") /\ Makes("guides", "directory")
  \/ installer[i].at = "reference" /\ OnlyMoves(i, "index") /\ Makes("reference", "directory")
  \/ installer[i].at = "index" /\ (GoesPast(i, "index", "catalog") \/ (OnlyMoves(i, "open index") /\ UNCHANGED tree))
  \/ installer[i].at = "open index" /\ Opens(i, "index", "write index")
  \/ installer[i].at = "write index" /\ OnlyMoves(i, "catalog") /\ Makes("index", "default")
  \/ installer[i].at = "catalog" /\ (GoesPast(i, "catalog", "profile") \/ (OnlyMoves(i, "open catalog") /\ UNCHANGED tree))
  \/ installer[i].at = "open catalog" /\ Opens(i, "catalog", "write catalog")
  \/ installer[i].at = "write catalog" /\ OnlyMoves(i, "profile") /\ Makes("catalog", "default")
EntersOrLeaves(i) == (OnlyMoves(i, "root") \/ OnlyMoves(i, "none")) /\ UNCHANGED tree

LEMMA StepForms ==
  ASSUME CorpusTypes, [CorpusNext]_corpusVars
  PROVE  NobodyMoves \/ \E i \in Installers : InstallGoesOn(i) \/ EntersOrLeaves(i)
<1>. USE DEF CorpusTypes
<1>1. ASSUME NEW i \in Installers, NEW p, installer' = [installer EXCEPT ![i].at = p]
      PROVE  OnlyMoves(i, p)
  BY <1>1 DEF OnlyMoves
<1>2. ASSUME NEW i \in Installers, NEW h, installer' = [installer EXCEPT ![i] = h]
      PROVE  OnlyMoves(i, h.at)
  BY <1>2 DEF OnlyMoves
<1>3. ASSUME NEW f \in StructureFiles, NEW state, tree' = [tree EXCEPT ![f] = state]
      PROVE  Makes(f, state)
  BY <1>3 DEF Makes
<1>4. {"root", "guides", "reference", "index", "catalog"} \subseteq StructureFiles
  BY DEF StructureFiles, Directories
<1>5. CASE EditProfile \/ UNCHANGED corpusVars
  BY <1>5 DEF EditProfile, corpusVars, NobodyMoves
<1>6. CASE EditCorpus
  BY <1>6 DEF EditCorpus, NobodyMoves
<1>7. CASE \E i \in Installers : StopsInstalling(i) /\ UNCHANGED tree
  <2>. PICK i \in Installers : StopsInstalling(i) /\ UNCHANGED tree
    BY <1>7
  <2>1. OnlyMoves(i, Waiting.at)
    BY <1>2 DEF StopsInstalling
  <2>. QED
    BY <2>1 DEF Waiting, EntersOrLeaves
<1>8. CASE \E i \in Installers : Plan(i)
  <2>. PICK i \in Installers : Plan(i)
    BY <1>8
  <2>1. UNCHANGED tree
    BY DEF Plan
  <2>2. CASE installer' = installer
    BY <2>1, <2>2 DEF NobodyMoves
  <2>3. CASE installer' = [installer EXCEPT ![i] = [at |-> "root", text |-> profile.text, adds |-> Configured(profile) = "none"]]
    <3>1. OnlyMoves(i, [at |-> "root", text |-> profile.text, adds |-> Configured(profile) = "none"].at)
      BY <2>3, <1>2
    <3>. QED
      BY <2>1, <3>1 DEF EntersOrLeaves
  <2>. QED
    BY <2>2, <2>3 DEF Plan
<1>9. CASE \E i \in Installers : MakeDirectory(i)
  <2>. PICK i \in Installers : MakeDirectory(i)
    BY <1>9
  <2>. DEFINE d == installer[i].at
  <2>1. d \in {"root", "guides", "reference"}
    BY DEF MakeDirectory, Directories
  <2>2. OnlyMoves(i, After(d))
    BY <1>1 DEF MakeDirectory, Advances
  <2>3. Makes(d, "directory")
    BY <1>3, <1>4, <2>1 DEF MakeDirectory
  <2>. QED
    BY <2>1, <2>2, <2>3 DEF After, InstallGoesOn
<1>10. CASE \E i \in Installers : LookFor(i)
  <2>. PICK i \in Installers : LookFor(i)
    BY <1>10
  <2>. DEFINE f == installer[i].at
  <2>1. f \in {"index", "catalog"} /\ UNCHANGED tree
    BY DEF LookFor
  <2>2. OnlyMoves(i, IF tree[f] # "absent" THEN After(f) ELSE IF f = "index" THEN "open index" ELSE "open catalog")
    BY <1>1 DEF LookFor, Advances
  <2>. QED
    BY <2>1, <2>2 DEF After, InstallGoesOn, GoesPast
<1>11. CASE \E i \in Installers, f \in {"index", "catalog"} : OpenNew(i, f)
  <2>. PICK i \in Installers, f \in {"index", "catalog"} : OpenNew(i, f)
    BY <1>11
  <2>1. CASE tree[f] # "absent"
    BY <2>1, <1>7 DEF OpenNew
  <2>2. CASE tree[f] = "absent"
    <3>1. OnlyMoves(i, IF f = "index" THEN "write index" ELSE "write catalog")
      BY <2>2, <1>1 DEF OpenNew, Advances
    <3>2. Makes(f, "empty") /\ installer[i].at = IF f = "index" THEN "open index" ELSE "open catalog"
      BY <2>2, <1>3, <1>4 DEF OpenNew
    <3>. QED
      BY <2>2, <3>1, <3>2 DEF InstallGoesOn, Opens
  <2>. QED
    BY <2>1, <2>2
<1>12. CASE \E i \in Installers, f \in {"index", "catalog"} : WriteNew(i, f)
  <2>. PICK i \in Installers, f \in {"index", "catalog"} : WriteNew(i, f)
    BY <1>12
  <2>1. OnlyMoves(i, After(f))
    BY <1>1 DEF WriteNew, Advances
  <2>2. Makes(f, "default") /\ installer[i].at = IF f = "index" THEN "write index" ELSE "write catalog"
    BY <1>3, <1>4 DEF WriteNew
  <2>. QED
    BY <2>1, <2>2 DEF After, InstallGoesOn
<1>. QED
  BY <1>5, <1>6, <1>7, <1>8, <1>9, <1>10, <1>11, <1>12 DEF CorpusNext, Installing, Enable, DieInstalling

\* An init gets past a file only by making it, or by finding it there; and no file
\* of the structure that is there goes away.
LEMMA BuiltStep ==
  ASSUME CorpusTypes, BuiltSoFar, [CorpusNext]_corpusVars
  PROVE  BuiltSoFar'
<1>1. {"root", "guides", "reference", "index", "catalog"} \subseteq StructureFiles
  BY DEF StructureFiles, Directories
<1>2. CASE NobodyMoves
  BY <1>1, <1>2 DEF NobodyMoves, BuiltSoFar
<1>3. CASE \E i \in Installers : EntersOrLeaves(i)
  BY <1>3 DEF EntersOrLeaves, OnlyMoves, BuiltSoFar, RootThere, GuidesThere, ReferenceThere, IndexThere, CatalogThere
<1>4. CASE \E i \in Installers : InstallGoesOn(i)
  <2>. PICK i \in Installers : InstallGoesOn(i)
    BY <1>4
  <2>. USE <1>1 DEF OnlyMoves, Makes, BuiltSoFar, RootThere, GuidesThere, ReferenceThere, IndexThere, CatalogThere
  <2>1. CASE installer[i].at = "root" /\ OnlyMoves(i, "guides") /\ Makes("root", "directory")
    BY <2>1
  <2>2. CASE installer[i].at = "guides" /\ OnlyMoves(i, "reference") /\ Makes("guides", "directory")
    BY <2>2
  <2>3. CASE installer[i].at = "reference" /\ OnlyMoves(i, "index") /\ Makes("reference", "directory")
    BY <2>3
  <2>4. CASE installer[i].at = "index" /\ (GoesPast(i, "index", "catalog") \/ (OnlyMoves(i, "open index") /\ UNCHANGED tree))
    BY <2>4 DEF GoesPast
  <2>5. CASE installer[i].at = "open index" /\ Opens(i, "index", "write index")
    BY <2>5 DEF Opens
  <2>6. CASE installer[i].at = "write index" /\ OnlyMoves(i, "catalog") /\ Makes("index", "default")
    BY <2>6
  <2>7. CASE installer[i].at = "catalog" /\ (GoesPast(i, "catalog", "profile") \/ (OnlyMoves(i, "open catalog") /\ UNCHANGED tree))
    BY <2>7 DEF GoesPast
  <2>8. CASE installer[i].at = "open catalog" /\ Opens(i, "catalog", "write catalog")
    BY <2>8 DEF Opens
  <2>9. CASE installer[i].at = "write catalog" /\ OnlyMoves(i, "profile") /\ Makes("catalog", "default")
    BY <2>9
  <2>. QED
    BY <2>1, <2>2, <2>3, <2>4, <2>5, <2>6, <2>7, <2>8, <2>9 DEF InstallGoesOn
<1>. QED
  BY <1>2, <1>3, <1>4, StepForms

\* Only the init that opened a new file writes it, and nobody saves one meanwhile.
LEMMA WriterStep ==
  ASSUME CorpusTypes, OneWriter, [CorpusNext]_corpusVars
  PROVE  OneWriter'
<1>1. {"root", "guides", "reference", "index", "catalog"} \subseteq StructureFiles
  BY DEF StructureFiles, Directories
<1>2. CASE NobodyMoves
  BY <1>1, <1>2 DEF NobodyMoves, OneWriter
<1>3. CASE \E i \in Installers : EntersOrLeaves(i)
  BY <1>3 DEF EntersOrLeaves, OnlyMoves, OneWriter
<1>4. CASE \E i \in Installers : InstallGoesOn(i)
  <2>. PICK i \in Installers : InstallGoesOn(i)
    BY <1>4
  <2>. USE <1>1 DEF OnlyMoves, Makes, OneWriter
  <2>0. ASSUME NEW d \in Directories, NEW p \in {"guides", "reference", "index"},
               OnlyMoves(i, p), Makes(d, "directory")
        PROVE  OneWriter'
    <3>1. tree'["index"] = tree["index"] /\ tree'["catalog"] = tree["catalog"]
      BY <2>0 DEF Directories
    <3>2. \A k \in Installers : installer'[k].at \in {"write index", "write catalog"} => installer[k].at = installer'[k].at
      BY <2>0
    <3>. QED
      BY <3>1, <3>2 DEF OneWriter
  <2>1. CASE installer[i].at = "root" /\ OnlyMoves(i, "guides") /\ Makes("root", "directory")
    BY <2>0, <2>1, Zenon DEF Directories
  <2>2. CASE installer[i].at = "guides" /\ OnlyMoves(i, "reference") /\ Makes("guides", "directory")
    BY <2>0, <2>2, Zenon DEF Directories
  <2>3. CASE installer[i].at = "reference" /\ OnlyMoves(i, "index") /\ Makes("reference", "directory")
    BY <2>0, <2>3, Zenon DEF Directories
  <2>4. CASE installer[i].at = "index" /\ (GoesPast(i, "index", "catalog") \/ (OnlyMoves(i, "open index") /\ UNCHANGED tree))
    BY <2>4 DEF GoesPast
  <2>5. CASE installer[i].at = "open index" /\ Opens(i, "index", "write index")
    BY <2>5 DEF Opens
  <2>6. CASE installer[i].at = "write index" /\ OnlyMoves(i, "catalog") /\ Makes("index", "default")
    BY <2>6
  <2>7. CASE installer[i].at = "catalog" /\ (GoesPast(i, "catalog", "profile") \/ (OnlyMoves(i, "open catalog") /\ UNCHANGED tree))
    BY <2>7 DEF GoesPast
  <2>8. CASE installer[i].at = "open catalog" /\ Opens(i, "catalog", "write catalog")
    BY <2>8 DEF Opens
  <2>9. CASE installer[i].at = "write catalog" /\ OnlyMoves(i, "profile") /\ Makes("catalog", "default")
    BY <2>9
  <2>. QED
    BY <2>1, <2>2, <2>3, <2>4, <2>5, <2>6, <2>7, <2>8, <2>9 DEF InstallGoesOn
<1>. QED
  BY <1>2, <1>3, <1>4, StepForms

-----------------------------------------------------------------------------
(* Theorems *)

\* The inductive invariant holds whatever inits, people and crashes do.
THEOREM CorpusInvariant == CorpusSpec => []CorpusInv
<1>1. CorpusInv /\ [CorpusNext]_corpusVars => CorpusInv'
  BY CorpusTypeStep, BuiltStep, WriterStep DEF CorpusInv
<1>. QED
  BY CorpusInvInit, <1>1, PTL DEF CorpusSpec

\* A step of an init leaves every index and catalog that was written as it is, and
\* if it enables the module, the whole structure is there.
LEMMA InitsStep ==
  ASSUME CorpusInv, [CorpusNext]_corpusVars, installer' # installer
  PROVE  /\ \A f \in {"index", "catalog"} : tree[f] \in {"default", "kept"} => tree'[f] = tree[f]
         /\ records' = records
         /\ profile'.section = "enabled" /\ profile.section # "enabled" => \A f \in StructureFiles : tree[f] # "absent"
<1>. USE DEF CorpusInv, CorpusTypes
<1>1. CASE \E i \in Installers : Plan(i) \/ LookFor(i) \/ DieInstalling(i)
  BY <1>1 DEF Plan, LookFor, DieInstalling
<1>2. CASE \E i \in Installers : MakeDirectory(i)
  BY <1>2 DEF MakeDirectory, Directories
<1>3. CASE \E i \in Installers, f \in {"index", "catalog"} : OpenNew(i, f)
  <2>. PICK i \in Installers, g \in {"index", "catalog"} : OpenNew(i, g)
    BY <1>3
  <2>1. tree' = tree \/ (tree[g] = "absent" /\ tree' = [tree EXCEPT ![g] = "empty"])
    BY DEF OpenNew
  <2>2. UNCHANGED <<profile, records>>
    BY DEF OpenNew
  <2>3. \A f \in {"index", "catalog"} : tree[f] \in {"default", "kept"} => tree'[f] = tree[f]
    BY <2>1 DEF StructureFiles
  <2>. QED
    BY <2>2, <2>3
<1>4. CASE \E i \in Installers, f \in {"index", "catalog"} : WriteNew(i, f)
  <2>. PICK i \in Installers, g \in {"index", "catalog"} : WriteNew(i, g)
    BY <1>4
  <2>1. tree[g] = "empty" /\ tree' = [tree EXCEPT ![g] = "default"]
    BY DEF WriteNew, OneWriter
  <2>2. UNCHANGED <<profile, records>>
    BY DEF WriteNew
  <2>3. \A f \in {"index", "catalog"} : tree[f] \in {"default", "kept"} => tree'[f] = tree[f]
    BY <2>1 DEF StructureFiles
  <2>. QED
    BY <2>2, <2>3
<1>5. CASE \E i \in Installers : Enable(i)
  BY <1>5 DEF Enable, BuiltSoFar, StructureFiles, Directories, RootThere, GuidesThere, ReferenceThere, IndexThere, CatalogThere
<1>. QED
  BY <1>1, <1>2, <1>3, <1>4, <1>5 DEF CorpusNext, Installing, EditProfile, EditCorpus, corpusVars

\* However many inits, people and crashes interleave, init never touches an index
\* or a catalog that somebody wrote, and enables the module only when every file
\* of its structure is there.
THEOREM InitKeepsAndEnablesLast == CorpusSpec => StructureFirst
<1>1. CorpusInv /\ [CorpusNext]_corpusVars =>
        [(installer' # installer) =>
           /\ \A f \in {"index", "catalog"} : tree[f] \in {"default", "kept"} => tree'[f] = tree[f]
           /\ records' = records
           /\ profile'.section = "enabled" /\ profile.section # "enabled" => \A f \in StructureFiles : tree[f] # "absent"]_corpusVars
  BY InitsStep
<1>. QED
  BY <1>1, CorpusInvariant, PTL DEF CorpusSpec, StructureFirst

-----------------------------------------------------------------------------
(* Routes *)

\* The catalog that is read is one that somebody wrote, or the empty default.
RecordsInv == records = NoRecords \/ records \in Catalogs

LEMMA RecordsStep ==
  ASSUME RecordsInv, [CorpusNext]_corpusVars
  PROVE  RecordsInv'
BY DEF RecordsInv, CorpusNext, Installing, Plan, MakeDirectory, LookFor, OpenNew, WriteNew, Enable,
   DieInstalling, EditProfile, EditCorpus, corpusVars

\* Records are numbered, so two of them come one after the other.
LEMMA RecordNumbers == RecordsInv => DOMAIN records \subseteq Nat
BY CatalogAssumption DEF RecordsInv, NoRecords

LEMMA ConfiguredValues ==
  CorpusTypes => Configured(profile) \in {"none", "invalid", "enabled", "disabled"}
BY DEF CorpusTypes, Configured

\* A name or symbol that exactly one record has is answered with that record's files.
LEMMA OneMatch ==
  ASSUME Configured(profile) = "enabled", CatalogLoads(FALSE), NEW kind, NEW query,
         NEW c \in DOMAIN records,
         \A d \in DOMAIN records :
           (query \in IF kind = "symbol" THEN records[d].symbols ELSE Names(records[d])) <=> d = c
  PROVE  RouteAnswer(kind, query) = [status |-> "matched", count |-> 1, context |-> RecordPaths(records[c])]
<1>1. {d \in DOMAIN records : query \in IF kind = "symbol" THEN records[d].symbols ELSE Names(records[d])} = {c}
  OBVIOUS
<1>2. Cardinality({c}) = 1 /\ {c} # {} /\ (CHOOSE d \in {c} : TRUE) = c
  BY FS_Singleton
<1>3. ~(1 > 1)
  OBVIOUS
<1>. QED
  BY <1>1, <1>2, <1>3, Zenon DEF RouteAnswer

\* An answer that names files names those of one readable record of a readable catalog.
LEMMA AnswersAreSelected ==
  ASSUME CorpusTypes, NEW kind, NEW query
  PROVE  RouteAnswer(kind, query).context \subseteq SelectionPaths
<1> DEFINE matches == {d \in DOMAIN records :
                         query \in IF kind = "symbol" THEN records[d].symbols ELSE Names(records[d])}
<1>1. CASE RouteAnswer(kind, query).context = {}
  BY <1>1
<1>2. CASE /\ Configured(profile) = "enabled" /\ CatalogLoads(FALSE) /\ matches # {}
           /\ RouteAnswer(kind, query).context = RecordPaths(records[CHOOSE d \in matches : TRUE])
  <2>1. PICK d \in DOMAIN records : RouteAnswer(kind, query).context = RecordPaths(records[d])
    BY <1>2
  <2>2. d \in {e \in DOMAIN records : WellFormedRecord(records[e], FALSE)} /\ CatalogRead
    BY <1>2 DEF CatalogLoads
  <2>. QED
    BY <1>2, <2>1, <2>2 DEF SelectionPaths
<1>3. \/ RouteAnswer(kind, query).context = {}
      \/ /\ Configured(profile) = "enabled" /\ CatalogLoads(FALSE) /\ matches # {}
         /\ RouteAnswer(kind, query).context = RecordPaths(records[CHOOSE d \in matches : TRUE])
  BY ConfiguredValues DEF RouteAnswer
<1>. QED
  BY <1>1, <1>2, <1>3

LEMMA CleanCorpus ==
  ASSUME Configured(profile) = "enabled", Issues = {}
  PROVE  /\ CatalogLoads(TRUE)
         /\ \A c, d \in DOMAIN records : c < d =>
              /\ Names(records[c]) \cap Names(records[d]) = {}
              /\ records[c].symbols \cap records[d].symbols = {}
BY DEF Issues

LEMMA RoutesFollow == CorpusInv /\ RecordsInv => RoutesGoverned
<1>. SUFFICES ASSUME CorpusInv, RecordsInv PROVE RoutesGoverned
  OBVIOUS
<1>1. ASSUME Configured(profile) = "enabled", Issues = {}, NEW c \in DOMAIN records
      PROVE  /\ \A name \in Names(records[c]) : RouteAnswer("capability", name) =
                  [status |-> "matched", count |-> 1, context |-> RecordPaths(records[c])]
             /\ \A symbol \in records[c].symbols : RouteAnswer("symbol", symbol).status = "matched"
             /\ RecordPaths(records[c]) \cap lost = {}
  <2>1. CatalogLoads(TRUE) /\ CatalogLoads(FALSE)
    BY <1>1, CleanCorpus DEF CatalogLoads, WellFormedRecord
  <2>2. \A d \in DOMAIN records : d # c =>
          /\ Names(records[c]) \cap Names(records[d]) = {}
          /\ records[c].symbols \cap records[d].symbols = {}
    <3>. SUFFICES ASSUME NEW d \in DOMAIN records, d # c
                  PROVE  /\ Names(records[c]) \cap Names(records[d]) = {}
                         /\ records[c].symbols \cap records[d].symbols = {}
      OBVIOUS
    <3>1. c < d \/ d < c
      BY RecordNumbers
    <3>. QED
      BY <1>1, <3>1, CleanCorpus
  <2>3. ASSUME NEW name \in Names(records[c])
        PROVE  RouteAnswer("capability", name) = [status |-> "matched", count |-> 1, context |-> RecordPaths(records[c])]
    BY <1>1, <2>1, <2>2, OneMatch
  <2>4. ASSUME NEW symbol \in records[c].symbols
        PROVE  RouteAnswer("symbol", symbol).status = "matched"
    <3>1. RouteAnswer("symbol", symbol) = [status |-> "matched", count |-> 1, context |-> RecordPaths(records[c])]
      BY <1>1, <2>1, <2>2, OneMatch
    <3>. QED
      BY <3>1
  <2>5. RecordPaths(records[c]) \cap lost = {}
    BY <2>1 DEF CatalogLoads, WellFormedRecord
  <2>. QED
    BY <2>3, <2>4, <2>5
<1>. QED
  BY <1>1, AnswersAreSelected DEF RoutesGoverned, CorpusInv

\* Whatever people do to catalog, index and documents: what the checker finds nothing
\* wrong with can be routed, every name and symbol to one capability whose files are
\* there, and every path an answer gives is one whose change selects the checker's pack.
THEOREM RoutesAreGoverned == CorpusSpec => []RoutesGoverned
<1>1. CorpusInit => RecordsInv
  BY DEF CorpusInit, RecordsInv
<1>. QED
  BY <1>1, RecordsStep, RoutesFollow, CorpusInvariant, PTL DEF CorpusSpec

(*****************************************************************************)
(* The registry of source dispositions (DispositionRegistry)                 *)
(*****************************************************************************)

-----------------------------------------------------------------------------
(* The inductive invariant *)

Source == [here : BOOLEAN, bytes : {NoImage, 1} \cup Images, large : BOOLEAN, named : BOOLEAN]

\* Decisions are recorded ones; sources are sources; and what is owed is on record.
RegistryInv ==
  /\ registry \in [version : {1, 2}, decisions : SUBSET Dispositions]
  /\ sources \in [Units -> Source]
  /\ \A d \in owed : \E r \in RefactorRequired(registry.decisions) : r.responsibility = d

-----------------------------------------------------------------------------
(* Lemmas *)

LEMMA RegistryInvInit == RegistryInit => RegistryInv
<1>. SUFFICES ASSUME RegistryInit PROVE RegistryInv
  OBVIOUS
<1>1. registry \in [version : {1, 2}, decisions : SUBSET Dispositions]
  BY DEF RegistryInit, RefactorRequired
<1>2. NotThere \in Source /\ [here : {TRUE}, bytes : {1}, large : BOOLEAN, named : {TRUE}] \subseteq Source
  BY DEF NotThere, Source
<1>3. sources \in [Units -> Source]
  BY <1>2 DEF RegistryInit
<1>4. \A d \in owed : \E r \in RefactorRequired(registry.decisions) : r.responsibility = d
  BY DEF RegistryInit
<1>. QED
  BY <1>1, <1>3, <1>4 DEF RegistryInv

\* What a commit does to one unit: new bytes for a file that is looked into, and
\* neither more nor a larger unit for one that is not.
Respects(new, edit) ==
  /\ new \in [Units -> Source]
  /\ \A u \in Units :
       /\ u \in Analyzed(new, edit) => new[u] # sources[u]
       /\ u \notin Analyzed(new, edit) => /\ new[u].here => sources[u].here
                                          /\ new[u].large => sources[u].large
       /\ new[u].large /\ ~sources[u].large => u \in Observed(new, edit)
       /\ new[u].here /\ ~sources[u].here => u \in Analyzed(new, edit)

CommitStep(new, edit, from) == Respects(new, edit) /\ Commit(new, edit, from)

\* Every step that is not a day is such a commit.
LEMMA CommitsRespect ==
  ASSUME RegistryInv, CommitRegistry \/ CommitEdit \/ CommitRemoval \/ CommitMove
  PROVE  \E new, edit, from : CommitStep(new, edit, from)
<1>. USE DEF RegistryInv
<1>1. NotThere \in Source
  BY DEF NotThere, Source
<1>2. CASE CommitRegistry
  <2>1. Respects(sources, Untouched)
    BY DEF Respects, Untouched, Analyzed
  <2>. QED
    BY <1>2, <2>1 DEF CommitRegistry, CommitStep
<1>3. CASE CommitEdit
  <2>. PICK u \in Units, how \in {"cut", "elsewhere", "touched"} : \E s \in Edited(u, sources[u], how) :
         Commit([sources EXCEPT ![u] = s], [Untouched EXCEPT ![u] = how], Untouched)
    BY <1>3 DEF CommitEdit
  <2>. PICK s \in Edited(u, sources[u], how) :
         Commit([sources EXCEPT ![u] = s], [Untouched EXCEPT ![u] = how], Untouched)
    OBVIOUS
  <2>. DEFINE new == [sources EXCEPT ![u] = s]
              edit == [Untouched EXCEPT ![u] = how]
  <2>1. /\ s \in Source /\ s.here /\ s.bytes # sources[u].bytes
        /\ sources[u].here \/ how = "touched"
        /\ how = "cut" => (s.large => sources[u].large)
        /\ how = "elsewhere" => s.large = sources[u].large
    BY DEF Edited, Source
  <2>2. new \in [Units -> Source] /\ new[u] = s /\ \A v \in Units : v # u => new[v] = sources[v]
    BY <2>1
  <2>3. edit[u] = how /\ \A v \in Units : v # u => edit[v] = "none"
    BY DEF Untouched
  <2>. HIDE DEF new, edit
  <2>4. Respects(new, edit)
    BY <2>1, <2>2, <2>3 DEF Respects, Analyzed, Observed
  <2>. QED
    BY <2>4 DEF CommitStep, new, edit
<1>4. CASE CommitRemoval
  <2>. PICK u \in {v \in Units : sources[v].here} :
         Commit([sources EXCEPT ![u] = NotThere], Untouched, Untouched)
    BY <1>4 DEF CommitRemoval
  <2>1. Respects([sources EXCEPT ![u] = NotThere], Untouched)
    BY <1>1 DEF Respects, Analyzed, Untouched, NotThere
  <2>. QED
    BY <2>1 DEF CommitStep
<1>5. CASE CommitMove
  <2>. PICK u \in {v \in Units : sources[v].here}, to \in {v \in Units : ~sources[v].here} :
         Commit([sources EXCEPT ![u] = NotThere, ![to] = sources[u]], [Untouched EXCEPT ![to] = "moved"], [Untouched EXCEPT ![to] = u])
    BY <1>5 DEF CommitMove
  <2>. DEFINE new == [sources EXCEPT ![u] = NotThere, ![to] = sources[u]]
              edit == [Untouched EXCEPT ![to] = "moved"]
  <2>1. u # to
    OBVIOUS
  <2>2. /\ new \in [Units -> Source] /\ new[u] = NotThere /\ new[to] = sources[u]
        /\ \A v \in Units \ {u, to} : new[v] = sources[v]
    BY <1>1, <2>1
  <2>3. edit[to] = "moved" /\ \A v \in Units : v # to => edit[v] = "none"
    BY DEF Untouched
  <2>. HIDE DEF new, edit
  <2>4. Respects(new, edit)
    BY <2>1, <2>2, <2>3 DEF Respects, Analyzed, Observed, NotThere
  <2>. QED
    BY <2>4 DEF CommitStep, new, edit
<1>. QED
  BY <1>2, <1>3, <1>4, <1>5

\* What a large unit that is committed in an edited place is authorized by is the
\* one decision about it.
LEMMA ObservedHasItsDecision ==
  ASSUME NEW reg, NEW new, NEW edit, NEW from, Passes(reg, new, edit, from),
         NEW r \in reg.decisions, r.unit \in Observed(new, edit)
  PROVE  \/ r.disposition = "cohesion-accepted"
         \/ r.disposition = "temporary-waiver" /\ WaiverCovers(r, new[r.unit])
<1>1. Authorizes(reg.decisions, r.unit, new[r.unit])
  BY DEF Passes
<1>2. PICK q \in reg.decisions :
        /\ q.unit = r.unit
        /\ \/ q.disposition = "cohesion-accepted"
           \/ q.disposition = "temporary-waiver" /\ WaiverCovers(q, new[r.unit])
  BY <1>1 DEF Authorizes
<1>3. q = r
  BY <1>2 DEF Passes, Valid
<1>. QED
  BY <1>2, <1>3

\* A decision that stands after a commit is not about a unit that was looked into
\* and found small.
LEMMA StandingIsObserved ==
  ASSUME NEW reg, NEW new, NEW edit, NEW from, Passes(reg, new, edit, from),
         NEW r \in Standing(reg.decisions), r.unit \in Analyzed(new, edit)
  PROVE  r.unit \in Observed(new, edit)
BY DEF Passes, Unresolved

\* A responsibility that is owed stays on record or is accepted.
LEMMA OwedStays ==
  ASSUME RegistryInv, NEW new, NEW edit, NEW from, NEW reg, Passes(reg, new, edit, from),
         NEW d \in owed, d \notin {r.responsibility : r \in CohesionAccepted(reg.decisions)}
  PROVE  \E r \in RefactorRequired(reg.decisions) : r.responsibility = d
<1>1. PICK old \in RefactorRequired(registry.decisions) : old.responsibility = d
  BY DEF RegistryInv
<1>2. CASE reg = registry
  BY <1>1, <1>2
<1>3. CASE reg # registry
  <2>1. old \in Standing(registry.decisions) /\ old.disposition = "refactor-required"
    BY DEF Standing, RefactorRequired
  <2>2. TransitionAllowed(old, reg.decisions, new, edit, from)
    BY <1>3, <2>1 DEF Passes
  <2>3. PICK r \in reg.decisions : ValidTransition(old, r)
    BY <2>2 DEF TransitionAllowed
  <2>4. r.responsibility = d /\ r.disposition \in {"refactor-required", "cohesion-accepted"}
    BY <1>1, <2>1, <2>3 DEF ValidTransition
  <2>. QED
    BY <2>4 DEF RefactorRequired, CohesionAccepted
<1>. QED
  BY <1>2, <1>3

\* A waiver in force stays, or a decision about what is committed replaces it.
LEMMA WaiverStays ==
  ASSUME RegistryInv, NEW new, NEW edit, NEW from, NEW reg, Respects(new, edit), Passes(reg, new, edit, from),
         reg.decisions \subseteq Dispositions,
         NEW w \in Waivers(registry.decisions), w.expires >= day
  PROVE  \E r \in reg.decisions :
           \/ UnchangedWaiver(w, r)
           \/ /\ r.supersedes = w.bytes /\ r.responsibility = w.responsibility /\ r.approved >= w.approved
              /\ new[r.unit] # sources[r.unit]
              /\ r.disposition = "temporary-waiver" /\ r.expires >= day => r.bytes = new[r.unit].bytes
<1>1. CASE reg = registry
  BY <1>1 DEF Waivers, UnchangedWaiver
<1>2. CASE reg # registry
  <2>1. w \in Standing(registry.decisions) /\ w.disposition = "temporary-waiver"
    BY DEF Standing, Waivers
  <2>2. TransitionAllowed(w, reg.decisions, new, edit, from)
    BY <1>2, <2>1 DEF Passes
  <2>3. PICK r \in reg.decisions :
          /\ ValidTransition(w, r)
          /\ \/ r.disposition \notin {"waiver-resolved", "temporary-waiver"}
             \/ r.disposition = "temporary-waiver" /\ r.bytes = w.bytes
             \/ r.unit \in Analyzed(new, edit)
    BY <2>2 DEF TransitionAllowed
  <2>4. ValidWaiverTransition(w, r)
    BY <2>1, <2>3 DEF ValidTransition
  <2>5. CASE UnchangedWaiver(w, r)
    BY <2>5
  <2>6. CASE ~UnchangedWaiver(w, r)
    <3>1. /\ r.supersedes = w.bytes /\ r.responsibility = w.responsibility /\ r.approved >= w.approved
          /\ \/ r.disposition = "waiver-resolved"
             \/ r.disposition = "temporary-waiver" /\ r.bytes # w.bytes
      BY <2>4, <2>6 DEF ValidWaiverTransition
    <3>2. r.unit \in Analyzed(new, edit)
      BY <2>3, <3>1
    <3>3. new[r.unit] # sources[r.unit]
      BY <3>2, DispositionAssumption DEF Respects
    <3>4. ASSUME r.disposition = "temporary-waiver", r.expires >= day
          PROVE  r.bytes = new[r.unit].bytes
      <4>1. r.unit \in Observed(new, edit)
        BY <3>2, <3>4, StandingIsObserved DEF Standing, Waivers
      <4>. QED
        BY <3>4, <4>1, ObservedHasItsDecision DEF WaiverCovers
    <3>. QED
      BY <3>1, <3>3, <3>4
  <2>. QED
    BY <2>5, <2>6
<1>. QED
  BY <1>1, <1>2

\* A unit required to be refactored neither goes, nor comes, nor grows large.
LEMMA RequiredStaysPut ==
  ASSUME RegistryInv, NEW new, NEW edit, NEW from, NEW reg, Respects(new, edit), Passes(reg, new, edit, from),
         reg.decisions \subseteq Dispositions, NEW r \in RefactorRequired(reg.decisions)
  PROVE  new[r.unit].here = sources[r.unit].here /\ (new[r.unit].large => sources[r.unit].large)
<1>1. /\ r \in reg.decisions /\ r \in Standing(reg.decisions) /\ r.unit \in Units
      /\ r.disposition = "refactor-required"
  BY DispositionAssumption DEF RefactorRequired, Standing
<1>2. r.unit \notin Observed(new, edit)
  BY <1>1, ObservedHasItsDecision
<1>3. r.unit \notin Analyzed(new, edit)
  BY <1>1, <1>2, StandingIsObserved
<1>4. sources[r.unit].here => new[r.unit].here
  BY <1>1 DEF Passes, Orphaned
<1>5. new[r.unit].here \in BOOLEAN /\ sources[r.unit].here \in BOOLEAN
  BY <1>1 DEF Respects, RegistryInv, Source
<1>. QED
  BY <1>1, <1>3, <1>4, <1>5 DEF Respects

-----------------------------------------------------------------------------
(* Every step *)

\* What a commit that passes keeps.
LEMMA CommitKeeps ==
  ASSUME RegistryInv, NEW new, NEW edit, NEW from, CommitStep(new, edit, from)
  PROVE  /\ RegistryInv'
         /\ \A w \in Waivers(registry.decisions) : w.expires >= day =>
              \E r \in registry'.decisions :
                \/ UnchangedWaiver(w, r)
                \/ /\ r.supersedes = w.bytes /\ r.responsibility = w.responsibility /\ r.approved >= w.approved
                   /\ sources'[r.unit] # sources[r.unit]
                   /\ r.disposition = "temporary-waiver" /\ r.expires >= day => r.bytes = sources'[r.unit].bytes
         /\ \A r \in RefactorRequired(registry.decisions) \cap registry'.decisions :
              /\ sources'[r.unit].here = sources[r.unit].here
              /\ sources'[r.unit].large => sources[r.unit].large
<1>. DEFINE Reg(v, out, in) == [version |-> v, decisions |-> (registry.decisions \ out) \cup in]
<1>0. PICK v \in {registry.version, 2}, out \in SUBSET registry.decisions,
           in \in {{}} \cup {{r} : r \in Dispositions \ registry.decisions} :
        /\ Passes(Reg(v, out, in), new, edit, from)
        /\ registry' = Reg(v, out, in) /\ sources' = new
        /\ owed' = (owed \cup {r.responsibility : r \in RefactorRequired(Reg(v, out, in).decisions)})
                     \ {r.responsibility : r \in CohesionAccepted(Reg(v, out, in).decisions)}
  BY DEF CommitStep, Commit
<1>. DEFINE reg == Reg(v, out, in)
<1>3. reg \in [version : {1, 2}, decisions : SUBSET Dispositions]
  BY DEF RegistryInv
<1>. HIDE DEF reg
<1>1. /\ Passes(reg, new, edit, from)
      /\ registry' = reg /\ sources' = new
      /\ owed' = (owed \cup {r.responsibility : r \in RefactorRequired(reg.decisions)}) \ {r.responsibility : r \in CohesionAccepted(reg.decisions)}
  BY <1>0 DEF reg
<1>2. Respects(new, edit)
  BY DEF CommitStep
<1>4. reg.decisions \subseteq Dispositions
  BY <1>3
<1>5. \A d \in owed' : \E r \in RefactorRequired(reg.decisions) : r.responsibility = d
  BY <1>1, OwedStays
<1>6. RegistryInv'
  BY <1>1, <1>2, <1>3, <1>5 DEF RegistryInv, Respects, RefactorRequired
<1>7. \A r \in RefactorRequired(registry.decisions) \cap reg.decisions : r \in RefactorRequired(reg.decisions)
  BY DEF RefactorRequired
<1>. QED
  BY <1>1, <1>2, <1>4, <1>6, <1>7, WaiverStays, RequiredStaysPut

\* Every step keeps the invariant, and what DecisionsKept says of it.
LEMMA StepKeeps ==
  ASSUME RegistryInv, [RegistryNext]_registryVars
  PROVE  /\ RegistryInv'
         /\ \A d \in owed' : \E r \in RefactorRequired(registry'.decisions) : r.responsibility = d
         /\ \A w \in Waivers(registry.decisions) : w.expires >= day =>
              \E r \in registry'.decisions :
                \/ UnchangedWaiver(w, r)
                \/ /\ r.supersedes = w.bytes /\ r.responsibility = w.responsibility /\ r.approved >= w.approved
                   /\ sources'[r.unit] # sources[r.unit]
                   /\ r.disposition = "temporary-waiver" /\ r.expires >= day => r.bytes = sources'[r.unit].bytes
         /\ \A r \in RefactorRequired(registry.decisions) \cap registry'.decisions :
              /\ sources'[r.unit].here = sources[r.unit].here
              /\ sources'[r.unit].large => sources[r.unit].large
<1>1. CASE CommitRegistry \/ CommitEdit \/ CommitRemoval \/ CommitMove
  <2>1. PICK new, edit, from : CommitStep(new, edit, from)
    BY <1>1, CommitsRespect
  <2>2. \A d \in owed' : \E r \in RefactorRequired(registry'.decisions) : r.responsibility = d
    BY <2>1, CommitKeeps DEF RegistryInv, RefactorRequired
  <2>. QED
    BY <2>1, <2>2, CommitKeeps
<1>2. CASE UNCHANGED <<registry, sources, owed>>
  BY <1>2 DEF RegistryInv, RefactorRequired, Waivers, UnchangedWaiver
<1>. QED
  BY <1>1, <1>2 DEF RegistryNext, DayPasses, registryVars

-----------------------------------------------------------------------------
(* Theorems *)

\* What a commit once required to be refactored is on record in every state.
THEOREM RegistryInvariant == RegistrySpec => []RegistryInv
<1>1. RegistryInv /\ [RegistryNext]_registryVars => RegistryInv'
  BY StepKeeps
<1>. QED
  BY RegistryInvInit, <1>1, PTL DEF RegistrySpec

\* No sequence of commits that pass, and of days, loses a decision that stands
\* (integrity_findings, _valid_transition, disposition_for).
THEOREM DecisionsAreKept == RegistrySpec => DecisionsKept
<1>1. RegistryInv /\ [RegistryNext]_registryVars =>
        [/\ \A d \in owed' : \E r \in RefactorRequired(registry'.decisions) : r.responsibility = d
         /\ \A w \in Waivers(registry.decisions) : w.expires >= day =>
              \E r \in registry'.decisions :
                \/ UnchangedWaiver(w, r)
                \/ /\ r.supersedes = w.bytes /\ r.responsibility = w.responsibility /\ r.approved >= w.approved
                   /\ sources'[r.unit] # sources[r.unit]
                   /\ r.disposition = "temporary-waiver" /\ r.expires >= day => r.bytes = sources'[r.unit].bytes
         /\ \A r \in RefactorRequired(registry.decisions) \cap registry'.decisions :
              /\ sources'[r.unit].here = sources[r.unit].here
              /\ sources'[r.unit].large => sources[r.unit].large
        ]_registryVars
  BY StepKeeps
<1>. QED
  BY RegistryInvariant, <1>1, PTL DEF RegistrySpec, DecisionsKept

(*****************************************************************************)
(* The surfaces of a multiplatform repository (SurfaceAudit)                 *)
(*****************************************************************************)

-----------------------------------------------------------------------------
(* What the shapes of a graph give *)

\* What of its shape is used of an area.
Gaps == {"none", "implementation", "proof"}
ShapedArea(area) ==
  /\ area.validation \in {"guarded", "route"}
  /\ \E n \in Nat : DOMAIN area.routes = 1 .. n
  /\ \A i \in DOMAIN area.routes : area.routes[i].gap \in Gaps

LEMMA AreasAreShaped ==
  ASSUME NEW R, NEW C, NEW T, NEW I, NEW P, NEW graph \in GraphShapes(R, C, T, I, P)
  PROVE  /\ \E n \in Nat : DOMAIN graph.areas = 1 .. n
         /\ \A a \in DOMAIN graph.areas : ShapedArea(graph.areas[a])
<1>1. graph.areas \in Seq(AreaShapes(R, C, T, I))
  BY DEF GraphShapes
<1>2. \A a \in DOMAIN graph.areas : graph.areas[a] \in AreaShapes(R, C, T, I)
  BY <1>1
<1>3. DOMAIN graph.areas = 1 .. Len(graph.areas) /\ Len(graph.areas) \in Nat
  BY <1>1
<1>4. ASSUME NEW a \in DOMAIN graph.areas PROVE ShapedArea(graph.areas[a])
  <2>. DEFINE area == graph.areas[a]
  <2>1. area.validation \in {"guarded", "route"}
    BY <1>2 DEF AreaShapes
  <2>2. area.routes \in Seq([target : T, gap : Gaps, part : Parts(R, C)])
    BY <1>2 DEF AreaShapes, Gaps
  <2>3. DOMAIN area.routes = 1 .. Len(area.routes) /\ Len(area.routes) \in Nat
    BY <2>2
  <2>. HIDE DEF area
  <2>4. \A i \in DOMAIN area.routes : area.routes[i].gap \in Gaps
    <3>. DEFINE routes == [target : T, gap : Gaps, part : Parts(R, C)]
    <3>1. area.routes \in Seq(routes)
      BY <2>2
    <3>2. \A r \in routes : r.gap \in Gaps
      OBVIOUS
    <3>. HIDE DEF routes
    <3>3. \A i \in DOMAIN area.routes : area.routes[i] \in routes
      BY <3>1
    <3>. QED
      BY <3>2, <3>3
  <2>5. ShapedArea(area)
    BY <2>1, <2>3, <2>4 DEF ShapedArea
  <2>. QED
    BY <2>5 DEF area
<1>. QED
  BY <1>3, <1>4

-----------------------------------------------------------------------------
(* Lemmas about one area *)

\* A structure without a finding is as the schema and the code ask.
LEMMA StructureHolds ==
  ASSUME NEW area, NEW a, NEW targets, AreaStructure(area, a, targets) = {}
  PROVE  LET parts == {area.shared} \cup ProjectedParts(area) \cup RoutedParts(area)
         IN /\ ~Guarded(area) => \A p \in parts : Proofs(p) = {}
            /\ \A i, j \in DOMAIN area.routes : area.routes[i].target = area.routes[j].target => i = j
            /\ \A p \in parts : ~Broken(p)
  BY DEF AreaStructure

\* The only route of a target is the one that counts.
LEMMA OnlyRoute ==
  ASSUME NEW area, NEW t, NEW n \in Nat, DOMAIN area.routes = 1 .. n, t \in Routed(area),
         \A i, j \in DOMAIN area.routes : area.routes[i].target = area.routes[j].target => i = j
  PROVE  \E i \in DOMAIN area.routes :
           /\ area.routes[i].target = t /\ RouteTo(area, t) = area.routes[i]
           /\ \A j \in DOMAIN area.routes : area.routes[j].target = t => j = i
<1>. DEFINE those == {j \in DOMAIN area.routes : area.routes[j].target = t}
<1>1. PICK i \in DOMAIN area.routes : area.routes[i].target = t
  BY DEF Routed
<1>2. those = {i}
  BY <1>1
<1>3. (CHOOSE k \in those : \A j \in those : j <= k) = i
  BY <1>1, <1>2
<1>4. RouteTo(area, t) = area.routes[i]
  BY <1>3 DEF RouteTo
<1>. QED
  BY <1>1, <1>4

\* What the pack says of a target and nothing is wrong with.
LEMMA TargetHolds ==
  ASSUME NEW area, NEW a, NEW t, ShapedArea(area), TargetFindings(area, a, t, TRUE) = {},
         RouteTo(area, t).gap \in Gaps
  PROVE  /\ t \in Routed(area) /\ RouteTo(area, t).gap = "none"
         /\ Implemented(area, RouteTo(area, t))
         /\ Guarded(area) => Proven(area, RouteTo(area, t))
<1>1. t \in Routed(area)
  BY DEF TargetFindings
<1>. DEFINE route == RouteTo(area, t)
<1>2. route.gap # "implementation"
  BY <1>1 DEF TargetFindings
<1>3. route.gap # "proof"
  BY <1>1 DEF TargetFindings
<1>4. route.gap = "none"
  BY <1>2, <1>3 DEF Gaps
<1>. QED
  BY <1>1, <1>4 DEF TargetFindings

\* What a graph that passes has for every area and target.
CompleteRoute(area, t) ==
  LET mine == {area.routes[i] : i \in {j \in DOMAIN area.routes : area.routes[j].target = t}}
      there == {area.shared} \cup {p.part : p \in {q \in area.projections : t \in q.targets}} \cup {r.part : r \in mine}
  IN /\ Cardinality(mine) = 1 /\ \A r \in mine : r.gap = "none" /\ r.part.roles # {}
     /\ \A p \in there : ~p.broken
     /\ area.validation = "guarded" =>
          /\ \A role \in area.roles : \E p \in there : role \in p.roles
          /\ \A claim \in area.claims : \E p \in there : claim \in p.claims
          /\ \A claim \in area.targetClaims : \E r \in mine : claim \in r.part.claims
     /\ area.validation = "route" => \A p \in there : p.claims = {}

\* Where the area and the target have no finding, the route is a complete one.
LEMMA RouteIsComplete ==
  ASSUME NEW area, NEW a, NEW t, NEW targets, ShapedArea(area),
         AreaStructure(area, a, targets) = {}, TargetFindings(area, a, t, TRUE) = {}
  PROVE  CompleteRoute(area, t)
<1>. DEFINE mine == {area.routes[i] : i \in {j \in DOMAIN area.routes : area.routes[j].target = t}}
            there == {area.shared} \cup {p.part : p \in {q \in area.projections : t \in q.targets}} \cup {r.part : r \in mine}
            route == RouteTo(area, t)
            parts == {area.shared} \cup ProjectedParts(area) \cup RoutedParts(area)
<1>1. /\ ~Guarded(area) => \A p \in parts : Proofs(p) = {}
      /\ \A i, j \in DOMAIN area.routes : area.routes[i].target = area.routes[j].target => i = j
      /\ \A p \in parts : ~Broken(p)
  BY StructureHolds DEF parts
<1>2. PICK n \in Nat : DOMAIN area.routes = 1 .. n
  BY DEF ShapedArea
<1>3. t \in Routed(area)
  BY DEF TargetFindings
<1>. HIDE DEF mine, there, route, parts
<1>4. \E i \in DOMAIN area.routes :
        /\ area.routes[i].target = t /\ RouteTo(area, t) = area.routes[i]
        /\ \A j \in DOMAIN area.routes : area.routes[j].target = t => j = i
  <2>1. \A i, j \in DOMAIN area.routes : area.routes[i].target = area.routes[j].target => i = j
    BY <1>1
  <2>. QED
    BY <1>2, <1>3, <2>1, OnlyRoute
<1>. PICK i \in DOMAIN area.routes :
       /\ area.routes[i].target = t /\ RouteTo(area, t) = area.routes[i]
       /\ \A j \in DOMAIN area.routes : area.routes[j].target = t => j = i
  BY <1>4
<1>5. mine = {route}
  BY DEF mine, route
<1>6. route.gap \in Gaps
  BY DEF ShapedArea, route
<1>7. /\ route.gap = "none" /\ Implemented(area, route)
      /\ Guarded(area) => Proven(area, route)
  BY <1>6, TargetHolds DEF route
<1>8. there = ComposedParts(area, route)
  <2>1. {r.part : r \in mine} = {route.part}
    BY <1>5
  <2>2. route.target = t
    BY DEF route
  <2>. QED
    BY <2>1, <2>2 DEF ComposedParts, there
<1>9. there \subseteq parts
  <2>1. route.part \in RoutedParts(area)
    BY DEF RoutedParts, route
  <2>. QED
    BY <1>5, <2>1 DEF ProjectedParts, there, parts
<1>10. Cardinality(mine) = 1
  BY <1>5, FS_Singleton
<1>11. \A r \in mine : r.gap = "none" /\ r.part.roles # {}
  BY <1>5, <1>7 DEF Implemented, Checkpoints
<1>12. \A p \in there : ~p.broken
  BY <1>1, <1>9 DEF Broken
<1>13. ASSUME area.validation = "guarded"
       PROVE  /\ \A role \in area.roles : \E p \in there : role \in p.roles
              /\ \A claim \in area.claims : \E p \in there : claim \in p.claims
              /\ \A claim \in area.targetClaims : \E r \in mine : claim \in r.part.claims
  <2>1. Guarded(area)
    BY <1>13 DEF Guarded
  <2>2. area.roles \subseteq UNION {Checkpoints(p) : p \in there}
    BY <2>1, <1>7, <1>8 DEF Implemented, RequiredRoles, ComposedRoles
  <2>3. area.claims \subseteq UNION {Proofs(p) : p \in there}
    BY <2>1, <1>7, <1>8 DEF Proven, RequiredClaims, ComposedClaims
  <2>4. area.targetClaims \subseteq Proofs(route.part)
    BY <2>1, <1>7 DEF Proven, RequiredTargetClaims
  <2>. QED
    BY <2>2, <2>3, <2>4, <1>5 DEF Checkpoints, Proofs
<1>14. ASSUME area.validation = "route" PROVE \A p \in there : p.claims = {}
  BY <1>1, <1>9, <1>14 DEF Guarded, Proofs
<1>15. /\ Cardinality(mine) = 1 /\ \A r \in mine : r.gap = "none" /\ r.part.roles # {}
       /\ \A p \in there : ~p.broken
       /\ area.validation = "guarded" =>
            /\ \A role \in area.roles : \E p \in there : role \in p.roles
            /\ \A claim \in area.claims : \E p \in there : claim \in p.claims
            /\ \A claim \in area.targetClaims : \E r \in mine : claim \in r.part.claims
       /\ area.validation = "route" => \A p \in there : p.claims = {}
  BY <1>10, <1>11, <1>12, <1>13, <1>14
<1>. QED
  BY <1>15 DEF mine, there, CompleteRoute

-----------------------------------------------------------------------------
(* Lemmas about the graph *)

Checked(graph, a, gaps) == IF gaps THEN graph.targets ELSE graph.targets \cap Routed(graph.areas[a])
Twins(graph) ==
  {Finding(Structure, a, NoTarget) :
     a \in {b \in DOMAIN graph.areas : \E other \in 1 .. b - 1 : graph.areas[other].id = graph.areas[b].id}}

\* The findings of a graph that can be read, one by one.
LEMMA FindingsOf ==
  ASSUME NEW graph, NEW gaps, WellShaped(graph), NEW f
  PROVE  f \in GraphFindings(graph, gaps) <=>
           \/ f \in Twins(graph)
           \/ \E a \in DOMAIN graph.areas : f \in AreaStructure(graph.areas[a], a, graph.targets)
           \/ \E a \in DOMAIN graph.areas : \E t \in Checked(graph, a, gaps) : f \in TargetFindings(graph.areas[a], a, t, gaps)
<1>. DEFINE targetsOf(a) == UNION {TargetFindings(graph.areas[a], a, t, gaps) : t \in Checked(graph, a, gaps)}
            of(a) == AreaStructure(graph.areas[a], a, graph.targets) \cup targetsOf(a)
<1>1. GraphFindings(graph, gaps) = Twins(graph) \cup UNION {of(a) : a \in DOMAIN graph.areas}
  BY DEF GraphFindings, Twins, Checked
<1>2. ASSUME NEW a PROVE f \in targetsOf(a) <=> \E t \in Checked(graph, a, gaps) : f \in TargetFindings(graph.areas[a], a, t, gaps)
  OBVIOUS
<1>. HIDE DEF targetsOf
<1>3. ASSUME NEW a
      PROVE  f \in of(a) <=> f \in AreaStructure(graph.areas[a], a, graph.targets) \/ f \in targetsOf(a)
  OBVIOUS
<1>. HIDE DEF of
<1>4. f \in GraphFindings(graph, gaps) <=> f \in Twins(graph) \/ \E a \in DOMAIN graph.areas : f \in of(a)
  BY <1>1
<1>. QED
  BY <1>2, <1>3, <1>4

\* Nothing is found in a graph only if it has its shape and nothing is found
\* in any of its areas.
LEMMA NothingFound ==
  ASSUME NEW graph, Audit(graph, TRUE).status = "passed"
  PROVE  /\ WellShaped(graph)
         /\ \A a \in DOMAIN graph.areas : \A other \in 1 .. a - 1 : graph.areas[other].id # graph.areas[a].id
         /\ \A a \in DOMAIN graph.areas : AreaStructure(graph.areas[a], a, graph.targets) = {}
         /\ \A a \in DOMAIN graph.areas, t \in graph.targets : TargetFindings(graph.areas[a], a, t, TRUE) = {}
<1>1. GraphFindings(graph, TRUE) = {}
  BY DEF Audit
<1>2. WellShaped(graph)
  BY <1>1 DEF GraphFindings
<1>3. \A f : f \notin Twins(graph)
  BY <1>1, <1>2, FindingsOf
<1>4. ASSUME NEW a \in DOMAIN graph.areas PROVE \A other \in 1 .. a - 1 : graph.areas[other].id # graph.areas[a].id
  BY <1>3 DEF Twins
<1>5. ASSUME NEW a \in DOMAIN graph.areas PROVE AreaStructure(graph.areas[a], a, graph.targets) = {}
  BY <1>1, <1>2, FindingsOf
<1>6. ASSUME NEW a \in DOMAIN graph.areas, NEW t \in graph.targets
      PROVE  TargetFindings(graph.areas[a], a, t, TRUE) = {}
  <2>1. t \in Checked(graph, a, TRUE)
    BY DEF Checked
  <2>. QED
    BY <1>1, <1>2, <2>1, FindingsOf
<1>. QED
  BY <1>2, <1>4, <1>5, <1>6

\* With or without its gaps, a target has the same findings of structure.
LEMMA TargetRules ==
  ASSUME NEW area, NEW a, NEW t, NEW f \in TargetFindings(area, a, t, TRUE)
  PROVE  \/ f.rule \in {ImplementationGap, ProofGap}
         \/ f.rule = Structure /\ t \in Routed(area) /\ f \in TargetFindings(area, a, t, FALSE)
<1>. USE DEF Finding
<1>1. CASE t \notin Routed(area)
  BY <1>1 DEF TargetFindings
<1>2. CASE t \in Routed(area)
  <2>. DEFINE route == RouteTo(area, t)
  <2>1. CASE route.gap = "implementation"
    BY <1>2, <2>1 DEF TargetFindings
  <2>2. CASE route.gap = "proof"
    BY <1>2, <2>2 DEF TargetFindings
  <2>3. CASE route.gap \notin {"implementation", "proof"}
    BY <1>2, <2>3 DEF TargetFindings
  <2>. QED
    BY <2>1, <2>2, <2>3
<1>. QED
  BY <1>1, <1>2

\* What the pack finds beside gaps, doctor's audit finds too.
LEMMA GapsOrBoth ==
  ASSUME NEW graph, NEW f \in GraphFindings(graph, TRUE)
  PROVE  \/ f.rule \in {ImplementationGap, ProofGap}
         \/ f.rule \in {Structure, Reference} /\ f \in GraphFindings(graph, FALSE)
<1>1. CASE ~WellShaped(graph)
  BY <1>1 DEF GraphFindings, Finding
<1>2. CASE WellShaped(graph)
  <2>1. CASE f \in Twins(graph)
    <3>1. f.rule = Structure
      BY <2>1 DEF Twins, Finding
    <3>. QED
      BY <1>2, <2>1, <3>1, FindingsOf
  <2>2. ASSUME NEW a \in DOMAIN graph.areas, f \in AreaStructure(graph.areas[a], a, graph.targets)
        PROVE  f.rule \in {Structure, Reference} /\ f \in GraphFindings(graph, FALSE)
    <3>1. f.rule \in {Structure, Reference}
      BY <2>2 DEF AreaStructure, Finding
    <3>. QED
      BY <1>2, <2>2, <3>1, FindingsOf
  <2>3. ASSUME NEW a \in DOMAIN graph.areas, NEW t \in Checked(graph, a, TRUE),
               f \in TargetFindings(graph.areas[a], a, t, TRUE)
        PROVE  \/ f.rule \in {ImplementationGap, ProofGap}
               \/ f.rule \in {Structure, Reference} /\ f \in GraphFindings(graph, FALSE)
    <3>1. CASE f.rule \in {ImplementationGap, ProofGap}
      BY <3>1
    <3>2. CASE f.rule = Structure /\ t \in Routed(graph.areas[a]) /\ f \in TargetFindings(graph.areas[a], a, t, FALSE)
      <4>1. t \in Checked(graph, a, FALSE)
        BY <3>2 DEF Checked
      <4>. QED
        BY <1>2, <3>2, <4>1, FindingsOf
    <3>. QED
      BY <2>3, <3>1, <3>2, TargetRules
  <2>. QED
    BY <1>2, <2>1, <2>2, <2>3, FindingsOf
<1>. QED
  BY <1>1, <1>2

-----------------------------------------------------------------------------
(* The theorem *)

\* For every graph: one that passes has for every area and target a route with
\* checkpoints of its own, no gap, every required role and claim, and what has
\* to be proved at the target proved there; and where doctor has nothing to say
\* of a graph that a pack checks, gaps are all that the pack reports, which is
\* the one that runs the checker and is selected for it (validate_area,
\* _validate_target, _composition, kmp_surface_doctor_findings).
THEOREM SurfacesAreProven ==
  ASSUME NEW R, NEW C, NEW T, NEW I, NEW P, NEW graph \in GraphShapes(R, C, T, I, P)
  PROVE  SurfacesProven(graph)
<1>1. PICK n \in Nat : DOMAIN graph.areas = 1 .. n
  BY AreasAreShaped
<1>2. \A a \in DOMAIN graph.areas : ShapedArea(graph.areas[a])
  BY AreasAreShaped
<1>3. ASSUME Audit(graph, TRUE).status = "passed", NEW a \in DOMAIN graph.areas, NEW t \in graph.targets
      PROVE  /\ \A b \in DOMAIN graph.areas : graph.areas[b].id = graph.areas[a].id => a = b
             /\ CompleteRoute(graph.areas[a], t)
  <2>1. /\ \A b \in DOMAIN graph.areas : \A other \in 1 .. b - 1 : graph.areas[other].id # graph.areas[b].id
        /\ AreaStructure(graph.areas[a], a, graph.targets) = {}
        /\ TargetFindings(graph.areas[a], a, t, TRUE) = {}
    BY <1>3, NothingFound
  <2>2. \A b \in DOMAIN graph.areas : graph.areas[b].id = graph.areas[a].id => a = b
    <3>. SUFFICES ASSUME NEW b \in DOMAIN graph.areas, graph.areas[b].id = graph.areas[a].id, a # b PROVE FALSE
      OBVIOUS
    <3>1. a \in 1 .. b - 1 \/ b \in 1 .. a - 1
      BY <1>1
    <3>. QED
      BY <2>1, <3>1
  <2>3. ShapedArea(graph.areas[a])
    BY <1>2
  <2>. QED
    BY <2>1, <2>2, <2>3, RouteIsComplete
<1>4. ASSUME graph.invocations # <<>>, DoctorFindings(graph) = {}
      PROVE  /\ \A f \in Audit(graph, TRUE).findings : f.rule \in {ImplementationGap, ProofGap}
             /\ Cardinality(ToSet(graph.invocations)) = 1 /\ graph.selected /\ graph.routed
  <2>1. graph.invocations = <<StandardPack>>
    BY <1>4 DEF DoctorFindings
  <2>2. Contains(graph.invocations, StandardPack)
    BY <2>1 DEF Contains
  <2>3. /\ {f \in Audit(graph, FALSE).findings : f.rule \in {Structure, Reference}} = {}
        /\ graph.selected /\ graph.routed
    BY <1>4, <2>2 DEF DoctorFindings
  <2>4. \A f \in GraphFindings(graph, FALSE) : f.rule \notin {Structure, Reference}
    BY <2>3 DEF Audit
  <2>5. \A f \in GraphFindings(graph, TRUE) : f.rule \in {ImplementationGap, ProofGap}
    BY <2>4, GapsOrBoth
  <2>6. ToSet(graph.invocations) = {StandardPack}
    BY <2>1 DEF ToSet
  <2>7. Cardinality(ToSet(graph.invocations)) = 1
    BY <2>6, FS_Singleton
  <2>8. Audit(graph, TRUE).findings = GraphFindings(graph, TRUE)
    BY DEF Audit
  <2>. QED
    BY <2>3, <2>5, <2>7, <2>8
<1>. QED
  BY <1>3, <1>4 DEF SurfacesProven, CompleteRoute

(*****************************************************************************)
(* The releases a startup update adopts (ReleaseDiscovery)                   *)
(*****************************************************************************)

-----------------------------------------------------------------------------
(* Versions *)

\* Versions are totally ordered.
LEMMA NewerOrders ==
  ASSUME NEW v \in Tags, NEW w \in Tags, NEW x \in Tags
  PROVE  /\ Newer(v, w) /\ Newer(w, x) => Newer(v, x)
         /\ ~Newer(v, v) /\ (Newer(v, w) => ~Newer(w, v)) /\ (v # w => Newer(v, w) \/ Newer(w, v))
<1>1. /\ v[1] \in Nat /\ v[2] \in Nat /\ v = <<v[1], v[2]>>
      /\ w[1] \in Nat /\ w[2] \in Nat /\ w = <<w[1], w[2]>>
      /\ x[1] \in Nat /\ x[2] \in Nat /\ x = <<x[1], x[2]>>
  BY DEF Tags
<1>2. ~Newer(v, v) /\ (Newer(v, w) => ~Newer(w, v)) /\ (v # w => Newer(v, w) \/ Newer(w, v))
  BY <1>1 DEF Newer
<1>3. Newer(v, w) /\ Newer(w, x) => Newer(v, x)
  BY <1>1 DEF Newer
<1>. QED
  BY <1>1, <1>2, <1>3 DEF Newer

\* What is listed are releases.
LEMMA ListedAre ==
  ASSUME NEW s \in Seq(Published)
  PROVE  /\ Len(s) \in Nat /\ DOMAIN s = 1 .. Len(s) /\ ToSet(s) = {s[i] : i \in 1 .. Len(s)}
         /\ \A i \in 1 .. Len(s) : s[i].tag \in Tags /\ s[i].from \in Tags
         /\ \A x \in ToSet(s) : x.tag \in Tags /\ x.from \in Tags
<1>1. Len(s) \in Nat /\ DOMAIN s = 1 .. Len(s) /\ \A i \in 1 .. Len(s) : s[i] \in Published
  OBVIOUS
<1>2. \A x \in Published : x.tag \in Tags /\ x.from \in Tags
  BY DEF Published
<1>3. ToSet(s) = {s[i] : i \in 1 .. Len(s)}
  BY <1>1 DEF ToSet
<1>. QED
  BY <1>1, <1>2, <1>3

\* The first n of a listing are finitely many, and any of them have a highest.
LEMMA ListingOrders ==
  ASSUME NEW s \in Seq(Published)
  PROVE  /\ IsFiniteSet(ToSet(s))
         /\ \A S \in SUBSET ToSet(s) : S # {} => \E r \in S : \A x \in S : ~Newer(x.tag, r.tag)
<1>. DEFINE N == Len(s)
            Top(n) == {s[i] : i \in 1 .. n}
            Good == {n \in 0 .. N : /\ IsFiniteSet(Top(n))
                                    /\ \A S \in SUBSET Top(n) : S # {} => \E r \in S : \A x \in S : ~Newer(x.tag, r.tag)}
<1>1. N \in Nat /\ \A i \in 1 .. N : s[i].tag \in Tags
  BY ListedAre
<1>2. 0 \in Good
  <2>1. Top(0) = {} /\ 0 \in 0 .. N
    BY <1>1
  <2>2. IsFiniteSet(Top(0))
    BY <2>1, FS_EmptySet
  <2>. HIDE DEF Top
  <2>. QED
    BY <2>1, <2>2
<1>3. ASSUME NEW n \in 0 .. N, n # 0, n - 1 \in Good PROVE n \in Good
  <2>1. Top(n) = Top(n - 1) \cup {s[n]} /\ n \in 1 .. N
    <3>1. n \in 1 .. N /\ 1 .. n = (1 .. n - 1) \cup {n}
      BY <1>1, <1>3
    <3>. QED
      BY <3>1
  <2>2. IsFiniteSet(Top(n))
    <3>1. IsFiniteSet(Top(n - 1))
      BY <1>3
    <3>. HIDE DEF Top
    <3>. QED
      BY <2>1, <3>1, FS_AddElement
  <2>3. ASSUME NEW S \in SUBSET Top(n), S # {} PROVE \E r \in S : \A x \in S : ~Newer(x.tag, r.tag)
    <3>. DEFINE T == S \ {s[n]}
    <3>1. T \in SUBSET Top(n - 1) /\ \A x \in S : x \in T \/ x = s[n]
      BY <2>1, <2>3
    <3>2. \A x \in S : x.tag \in Tags
      <4>1. \A x \in Top(n) : \E i \in 1 .. N : x = s[i]
        BY <1>1
      <4>. QED
        BY <1>1, <2>3, <4>1
    <3>3. CASE T = {}
      <4>1. S = {s[n]} /\ s[n].tag \in Tags
        BY <1>1, <2>1, <2>3, <3>1, <3>3
      <4>2. ~Newer(s[n].tag, s[n].tag)
        BY <4>1, NewerOrders
      <4>. QED
        BY <4>1, <4>2
    <3>4. CASE T # {}
      <4>1. PICK r \in T : \A x \in T : ~Newer(x.tag, r.tag)
        BY <1>3, <3>1, <3>4
      <4>2. CASE s[n] \in S /\ Newer(s[n].tag, r.tag)
        <5>1. \A x \in T : ~Newer(x.tag, s[n].tag)
          BY <3>2, <4>1, <4>2, NewerOrders
        <5>2. ~Newer(s[n].tag, s[n].tag)
          BY <3>2, <4>2, NewerOrders
        <5>. QED
          BY <3>1, <4>2, <5>1, <5>2
      <4>3. CASE ~(s[n] \in S /\ Newer(s[n].tag, r.tag))
        BY <3>1, <4>1, <4>3
      <4>. QED
        BY <4>2, <4>3
    <3>. QED
      BY <3>3, <3>4
  <2>. QED
    BY <2>2, <2>3
<1>4. ToSet(s) = Top(N)
  BY ListedAre
<1>. HIDE DEF Good, Top, N
<1>5. N \in Good
  <2>1. 0 .. N \subseteq Good
    BY <1>1, <1>2, <1>3, UpToN
  <2>. QED
    BY <1>1, <2>1
<1>. QED
  BY <1>4, <1>5 DEF Good

LEMMA HighestIs ==
  ASSUME NEW s \in Seq(Published), NEW S \in SUBSET ToSet(s), S # {}
  PROVE  /\ Highest(S) \in S /\ Highest(S).tag \in Tags
         /\ \A x \in S : x.tag \in Tags /\ ~Newer(x.tag, Highest(S).tag)
<1>1. \E r \in S : \A x \in S : ~Newer(x.tag, r.tag)
  BY ListingOrders
<1>2. Highest(S) \in S /\ \A x \in S : ~Newer(x.tag, Highest(S).tag)
  BY <1>1 DEF Highest
<1>3. \A x \in ToSet(s) : x.tag \in Tags
  BY ListedAre
<1>. QED
  BY <1>2, <1>3

\* What is looked into is closed upwards, and something is if anything newer is there.
LEMMA LooksAtNewest ==
  ASSUME NEW current \in Tags, NEW s \in Seq(Published)
  PROVE  LET upgrades == Upgrades(current, s)
             looked == LookedInto(current, s)
         IN /\ looked \subseteq upgrades /\ upgrades \subseteq ToSet(s)
            /\ \A r \in looked, x \in upgrades : Newer(x.tag, r.tag) => x \in looked
            /\ upgrades # {} => looked # {}
<1>. DEFINE upgrades == Upgrades(current, s)
            looked == LookedInto(current, s)
            ahead(r) == {x \in upgrades : Newer(x.tag, r.tag)}
<1>1. upgrades \in SUBSET ToSet(s) /\ looked = {r \in upgrades : Cardinality(ahead(r)) < MaxCandidates}
  BY DEF Upgrades, LookedInto
<1>2. IsFiniteSet(upgrades)
  BY <1>1, ListingOrders, FS_Subset
<1>3. \A x \in upgrades : x.tag \in Tags
  BY <1>1, ListedAre
<1>. HIDE DEF upgrades, looked
<1>4. \A r : IsFiniteSet(ahead(r)) /\ Cardinality(ahead(r)) \in Nat
  <2>. TAKE r
  <2>1. ahead(r) \in SUBSET upgrades
    OBVIOUS
  <2>. HIDE DEF ahead
  <2>. QED
    BY <1>2, <2>1, FS_Subset, FS_CardinalityType
<1>5. ASSUME NEW r \in looked, NEW x \in upgrades, Newer(x.tag, r.tag) PROVE x \in looked
  <2>1. ahead(x) \in SUBSET ahead(r)
    BY <1>1, <1>3, <1>5, NewerOrders
  <2>. HIDE DEF ahead
  <2>2. Cardinality(ahead(x)) <= Cardinality(ahead(r))
    BY <1>4, <2>1, FS_Subset
  <2>. QED
    BY <1>1, <1>4, <1>5, <2>2, DiscoveryAssumption
<1>6. ASSUME upgrades # {} PROVE looked # {}
  <2>1. Highest(upgrades) \in upgrades /\ \A x \in upgrades : ~Newer(x.tag, Highest(upgrades).tag)
    BY <1>1, <1>6, HighestIs
  <2>2. ahead(Highest(upgrades)) = {}
    BY <2>1
  <2>. HIDE DEF ahead
  <2>3. Cardinality(ahead(Highest(upgrades))) = 0
    BY <2>2, FS_EmptySet
  <2>. QED
    BY <1>1, <2>1, <2>3, DiscoveryAssumption
<1>. QED
  BY <1>1, <1>5, <1>6 DEF upgrades, looked

\* What discovery answers, of the listing it looked at.
LEMMA DiscoverIs ==
  ASSUME NEW current \in Tags, NEW s \in Seq(Published)
  PROVE  LET answer == Discover(current, s)
             adopted == {r \in ToSet(s) : r.tag = answer.version}
             newer == Upgrades(current, s)
         IN /\ answer.status = "available" =>
                 \E r \in adopted \cap newer :
                   /\ Candidate(current, r) = "available"
                   /\ \A x \in newer : Newer(x.tag, answer.version) => Candidate(current, x) = "approval-required"
            /\ answer.status = "current" => \A r \in ToSet(s) : r.stable => ~Newer(r.tag, current)
            /\ answer.status = "approval-required" /\ newer # {} =>
                 adopted \cap newer # {} /\ \A x \in newer : ~Newer(x.tag, answer.version)
<1>. DEFINE answer == Discover(current, s)
            adopted == {r \in ToSet(s) : r.tag = answer.version}
            newer == Upgrades(current, s)
            looked == LookedInto(current, s)
            decided == {i \in looked : Candidate(current, i) # "approval-required"}
            majors == {r \in ToSet(s) : r.stable /\ r.tag[1] > current[1]}
<1>1. /\ looked \subseteq newer /\ newer \subseteq ToSet(s)
      /\ \A r \in looked, x \in newer : Newer(x.tag, r.tag) => x \in looked
      /\ newer # {} => looked # {}
  BY LooksAtNewest
<1>2. answer = IF ~Listed(s) THEN Answer("deferred", NoVersion)
               ELSE IF decided # {}
               THEN LET r == Highest(decided)
                    IN IF Candidate(current, r) = "available" THEN Answer("available", r.tag) ELSE Answer("deferred", NoVersion)
               ELSE IF looked # {} THEN Answer("approval-required", Highest(looked).tag)
               ELSE IF majors # {} THEN Answer("approval-required", Highest(majors).tag)
               ELSE Answer("current", NoVersion)
  BY DEF Discover
<1>3. \A status, v : Answer(status, v).status = status /\ Answer(status, v).version = v
  BY DEF Answer
<1>4. \A x \in ToSet(s) : x.tag \in Tags
  BY ListedAre
<1>. HIDE DEF answer, newer, looked, majors
<1>5. ASSUME answer.status = "available"
      PROVE  \E r \in adopted \cap newer :
               /\ Candidate(current, r) = "available"
               /\ \A x \in newer : Newer(x.tag, answer.version) => Candidate(current, x) = "approval-required"
  <2>1. decided # {} /\ Candidate(current, Highest(decided)) = "available" /\ answer.version = Highest(decided).tag
    BY <1>2, <1>3, <1>5
  <2>2. decided \in SUBSET ToSet(s) /\ decided \subseteq looked
    BY <1>1
  <2>3. Highest(decided) \in decided /\ \A x \in decided : ~Newer(x.tag, Highest(decided).tag)
    <3>. HIDE DEF decided
    <3>. QED
      BY <2>1, <2>2, HighestIs
  <2>4. \A x \in newer : Newer(x.tag, answer.version) => x \in looked
    BY <1>1, <2>1, <2>2, <2>3
  <2>5. \A x \in newer : Newer(x.tag, answer.version) => Candidate(current, x) = "approval-required"
    BY <2>1, <2>3, <2>4
  <2>. QED
    BY <1>1, <2>1, <2>2, <2>3, <2>5
<1>6. ASSUME answer.status = "current" PROVE \A r \in ToSet(s) : r.stable => ~Newer(r.tag, current)
  <2>1. looked = {} /\ majors = {}
    BY <1>2, <1>3, <1>6
  <2>2. newer = {}
    BY <1>1, <2>1
  <2>. SUFFICES ASSUME NEW r \in ToSet(s), r.stable, Newer(r.tag, current) PROVE FALSE
    OBVIOUS
  <2>3. r.tag[1] # current[1]
    BY <2>2 DEF newer, Upgrades
  <2>4. r.tag[1] \in Nat /\ current[1] \in Nat
    BY <1>4 DEF Tags
  <2>5. r.tag[1] > current[1]
    BY <2>3, <2>4 DEF Newer
  <2>. QED
    BY <2>1, <2>5 DEF majors
<1>7. ASSUME answer.status = "approval-required", newer # {}
      PROVE  adopted \cap newer # {} /\ \A x \in newer : ~Newer(x.tag, answer.version)
  <2>1. looked # {} /\ answer.version = Highest(looked).tag
    BY <1>1, <1>2, <1>3, <1>7
  <2>2. Highest(looked) \in looked /\ \A x \in looked : ~Newer(x.tag, Highest(looked).tag)
    <3>1. looked \in SUBSET ToSet(s)
      BY <1>1
    <3>. QED
      BY <2>1, <3>1, HighestIs
  <2>. QED
    BY <1>1, <2>1, <2>2
<1>. QED
  BY <1>5, <1>6, <1>7 DEF answer, newer

\* Whatever is listed and whatever answer was kept, a startup adopts only a stable,
\* complete and unchangeable release of the same major that its owner authorized from
\* the version in use, passes a newer one over only for an operator to approve, and
\* says "current" only when there is nothing newer (_candidate, _discover, discover).
THEOREM AdoptionIsAuthorized ==
  \A c \in Inquiries : AdoptsAuthorized(c)
<1>. SUFFICES ASSUME NEW c \in Inquiries PROVE AdoptsAuthorized(c)
  OBVIOUS
<1>. DEFINE reuses == Reused(c.current, c.cached, c.now, c.lifetime)
            answer == DiscoverCached(c.current, c.releases, c.cached, c.now, c.lifetime)
            seen == IF reuses THEN c.cached.listing ELSE c.releases
            adopted == {r \in ToSet(seen) : r.tag = answer.version}
            newer == {r \in ToSet(seen) : r.stable /\ Newer(r.tag, c.current) /\ r.tag[1] = c.current[1]}
<1>1. /\ c.current \in Tags /\ c.releases \in Seq(Published) /\ c.cached.listing \in Seq(Published)
      /\ c.cached.answer.status # "deferred" => c.cached.answer = Discover(c.cached.key, c.cached.listing)
  BY DEF Inquiries
<1>2. reuses => c.cached.key = c.current /\ c.cached.answer.status # "deferred"
  BY DEF Reused
<1>3. answer = Discover(c.current, seen) /\ seen \in Seq(Published)
  BY <1>1, <1>2 DEF DiscoverCached
<1>4. newer = Upgrades(c.current, seen)
  BY DEF Upgrades
<1>. HIDE DEF reuses, answer, seen
<1>5. /\ answer.status = "available" =>
           \E r \in adopted \cap newer :
             /\ Candidate(c.current, r) = "available"
             /\ \A x \in newer : Newer(x.tag, answer.version) => Candidate(c.current, x) = "approval-required"
      /\ answer.status = "current" => \A r \in ToSet(seen) : r.stable => ~Newer(r.tag, c.current)
      /\ answer.status = "approval-required" /\ newer # {} =>
           adopted \cap newer # {} /\ \A x \in newer : ~Newer(x.tag, answer.version)
  BY <1>1, <1>3, <1>4, DiscoverIs
<1>6. ASSUME NEW r \in newer, Candidate(c.current, r) = "available"
      PROVE  /\ r.stable /\ r.immutable /\ r.assets /\ r.automatic /\ r.identity /\ r.reachable /\ r.agrees
             /\ r.tag[1] = c.current[1] /\ Newer(r.before, c.current) /\ ~Newer(r.from, c.current)
  <2>1. r.immutable /\ r.assets /\ r.reachable /\ Authorized(c.current, r) /\ r.agrees
    BY <1>6 DEF Candidate
  <2>2. r.from \in Tags
    <3>1. r \in ToSet(seen)
      OBVIOUS
    <3>. QED
      BY <1>3, <3>1, ListedAre
  <2>3. ~Newer(r.from, c.current)
    BY <1>1, <2>1, <2>2, NewerOrders DEF Authorized, NotOlder
  <2>. QED
    BY <2>1, <2>3 DEF Authorized
<1>. QED
  BY <1>5, <1>6 DEF AdoptsAuthorized, answer, seen, reuses

(*****************************************************************************)
(* What a task's context is resolved to (ContextRouting)                     *)
(*****************************************************************************)

-----------------------------------------------------------------------------
(* Sequences that are joined *)

LEMMA AppendIs ==
  ASSUME NEW T, NEW s \in Seq(T), NEW e \in T
  PROVE  /\ Len(s) \in Nat /\ Append(s, e) \in Seq(T) /\ DOMAIN Append(s, e) = 1 .. Len(s) + 1
         /\ Append(s, e)[Len(s) + 1] = e /\ \A i \in 1 .. Len(s) : Append(s, e)[i] = s[i]
  OBVIOUS

Joined(T, s, t, st) ==
  /\ Len(s) \in Nat /\ Len(t) \in Nat /\ st \in Seq(T) /\ Len(st) = Len(s) + Len(t)
  /\ DOMAIN st = 1 .. Len(s) + Len(t)
  /\ \A i \in 1 .. Len(s) : st[i] = s[i]
  /\ \A k \in 1 .. Len(t) : st[Len(s) + k] = t[k]

LEMMA ConcatIs ==
  ASSUME NEW T, NEW s \in Seq(T), NEW t \in Seq(T)
  PROVE  Joined(T, s, t, s \o t)
<1>1. Len(s) \in Nat /\ Len(t) \in Nat /\ s \o t \in Seq(T) /\ Len(s \o t) = Len(s) + Len(t)
  OBVIOUS
<1>2. \A i \in 1 .. Len(s) + Len(t) : (s \o t)[i] = IF i <= Len(s) THEN s[i] ELSE t[i - Len(s)]
  OBVIOUS
<1>3. \A i \in 1 .. Len(s) : i \in 1 .. Len(s) + Len(t) /\ i <= Len(s)
  BY <1>1
<1>4. \A k \in 1 .. Len(t) : Len(s) + k \in 1 .. Len(s) + Len(t) /\ ~(Len(s) + k <= Len(s)) /\ (Len(s) + k) - Len(s) = k
  BY <1>1
<1>5. DOMAIN (s \o t) = 1 .. Len(s) + Len(t)
  BY <1>1, LenProperties
<1>. QED
  BY <1>1, <1>2, <1>3, <1>4, <1>5 DEF Joined

-----------------------------------------------------------------------------
(* The shapes of a task *)

RouteShapes(P, S) == [paths : Nat, products : Nat, prompts : Nat, primary : Seq(P), activePlan : Seq(P), expansion : Seq(P),
                      skills : Seq(S), budget : Budgets]
EntryShapes(S, N) == [id : S, path : N, pack : N, capability : N, included : BOOLEAN, mode : {"route", "evaluation-only"},
                      level : {"required", "recommended", "evaluation"}, applicable : BOOLEAN, excluded : BOOLEAN,
                      trigger : {"none", "met", "unmet"}, facts : {"met", "missing", "mismatched"}, conflicts : SUBSET S]
FileKinds == {"canonical", "stale", "missing", "large"}

LEMMA TaskIs ==
  ASSUME NEW P, NEW S, NEW N, NEW c \in Tasks(P, S, N)
  PROVE  /\ c.routes \in Seq(RouteShapes(P, S)) /\ c.entries \in Seq(EntryShapes(S, N))
         /\ c.defaults \in Seq(P) /\ c.defaultSkills \in Seq(S) /\ c.tie \in Nat /\ c.secondaries \in Nat
         /\ c.size \in [P -> Nat] /\ c.files \in [S -> FileKinds] /\ c.skillSize \in [S -> Nat]
  BY DEF Tasks, RouteShapes, EntryShapes, FileKinds

LEMMA RouteIs ==
  ASSUME NEW P, NEW S, NEW route \in RouteShapes(P, S)
  PROVE  /\ route.paths \in Nat /\ route.products \in Nat /\ route.prompts \in Nat
         /\ route.primary \in Seq(P) /\ route.activePlan \in Seq(P) /\ route.expansion \in Seq(P)
         /\ route.skills \in Seq(S) /\ route.budget \in Budgets
  BY DEF RouteShapes

LEMMA BudgetIs ==
  ASSUME NEW budget \in Budgets
  PROVE  /\ \A g \in Groups : budget[g] \in Nat
         /\ budget["total"] \in Nat
  BY DEF Budgets

\* The routes, and the one of none.
LEMMA RoutesAre ==
  ASSUME NEW P, NEW S, NEW N, NEW c \in Tasks(P, S, N)
  PROVE  /\ Len(c.routes) \in Nat /\ DOMAIN c.routes = 1 .. Len(c.routes) /\ (c.routes = <<>> <=> Len(c.routes) = 0)
         /\ \A i \in DOMAIN c.routes : c.routes[i] \in RouteShapes(P, S) /\ RouteScore(c.routes[i]) \in Nat
         /\ NoRoute \in RouteShapes(P, S)
<1>. DEFINE shapes == RouteShapes(P, S)
<1>1. c.routes \in Seq(shapes)
  BY TaskIs
<1>. HIDE DEF shapes
<1>2. Len(c.routes) \in Nat /\ DOMAIN c.routes = 1 .. Len(c.routes) /\ (c.routes = <<>> <=> Len(c.routes) = 0)
  BY <1>1
<1>3. \A i \in DOMAIN c.routes : c.routes[i] \in shapes
  BY <1>1
<1>4. ASSUME NEW i \in DOMAIN c.routes PROVE RouteScore(c.routes[i]) \in Nat
  <2>1. c.routes[i].paths \in Nat /\ c.routes[i].products \in Nat /\ c.routes[i].prompts \in Nat
    BY <1>3, RouteIs DEF shapes
  <2>2. Weights.path \in Nat /\ Weights.product \in Nat /\ Weights.prompt \in Nat
    BY RoutingAssumption
  <2>3. \A x, y \in Nat : x * y \in Nat /\ x + y \in Nat
    OBVIOUS
  <2>. QED
    BY <2>1, <2>2, <2>3 DEF RouteScore
<1>5. NoRoute \in RouteShapes(P, S)
  BY RoutingAssumption DEF NoRoute, RouteShapes
<1>. QED
  BY <1>2, <1>3, <1>4, <1>5 DEF shapes

-----------------------------------------------------------------------------
(* The route *)

\* One route is ahead of all others.
LEMMA BestIs ==
  ASSUME NEW P, NEW S, NEW N, NEW c \in Tasks(P, S, N), c.routes # <<>>
  PROVE  /\ BestRoute(c) \in DOMAIN c.routes
         /\ \A j \in DOMAIN c.routes \ {BestRoute(c)} : RankedAhead(c, BestRoute(c), j)
<1>. DEFINE L == Len(c.routes)
            score(i) == RouteScore(c.routes[i])
            Good == {n \in 0 .. L : n = 0 \/ \E i \in 1 .. n : \A j \in (1 .. n) \ {i} : RankedAhead(c, i, j)}
<1>1. L \in Nat /\ L # 0 /\ DOMAIN c.routes = 1 .. L /\ \A i \in 1 .. L : score(i) \in Nat
  BY RoutesAre
<1>. HIDE DEF L, score
<1>2. \A i, j : RankedAhead(c, i, j) <=> score(i) > score(j) \/ (score(i) = score(j) /\ i < j)
  BY DEF RankedAhead, score
<1>3. ASSUME NEW n \in 0 .. L, n # 0, n - 1 \in Good PROVE n \in Good
  <2>1. CASE n - 1 = 0
    <3>1. 1 \in 1 .. n /\ (1 .. n) \ {1} = {}
      BY <2>1, <1>3
    <3>. QED
      BY <3>1
  <2>2. CASE n - 1 # 0
    <3>1. PICK i \in 1 .. n - 1 : \A j \in (1 .. n - 1) \ {i} : RankedAhead(c, i, j)
      BY <1>3, <2>2
    <3>2. i \in 1 .. L /\ n \in 1 .. L /\ i < n /\ i \in 1 .. n /\ n \in 1 .. n /\ \A j \in 1 .. n : j \in 1 .. n - 1 \/ j = n
      BY <1>1, <1>3
    <3>3. score(i) \in Nat /\ score(n) \in Nat
      BY <1>1, <3>2
    <3>4. CASE score(i) >= score(n)
      <4>1. RankedAhead(c, i, n)
        BY <1>2, <3>2, <3>3, <3>4
      <4>. QED
        BY <3>1, <3>2, <4>1
    <3>5. CASE ~(score(i) >= score(n))
      <4>1. ASSUME NEW j \in (1 .. n) \ {n} PROVE RankedAhead(c, n, j)
        <5>1. j \in 1 .. n - 1 /\ j \in 1 .. L /\ score(j) \in Nat
          BY <1>1, <1>3, <3>2
        <5>2. score(i) >= score(j)
          BY <1>2, <3>1, <3>3, <5>1
        <5>. QED
          BY <1>2, <3>3, <3>5, <5>1, <5>2
      <4>. QED
        BY <3>2, <4>1
    <3>. QED
      BY <3>4, <3>5
  <2>. QED
    BY <2>1, <2>2
<1>4. L \in Good
  <2>1. 0 \in Good
    BY <1>1
  <2>. HIDE DEF Good
  <2>2. 0 .. L \subseteq Good
    BY <1>1, <1>3, <2>1, UpToN
  <2>. QED
    BY <1>1, <2>2
<1>5. \E i \in DOMAIN c.routes : \A j \in DOMAIN c.routes \ {i} : RankedAhead(c, i, j)
  BY <1>1, <1>4
<1>. QED
  BY <1>5 DEF BestRoute

\* A route that is matched is the best, and where others could be secondary the
\* only best.
LEMMA SelectionIs ==
  ASSUME NEW P, NEW S, NEW N, NEW c \in Tasks(P, S, N)
  PROVE  LET decision == SelectRoute(c)
         IN /\ decision.route \in {0} \cup DOMAIN c.routes
            /\ decision.outcome = "matched" =>
                 /\ decision.route \in DOMAIN c.routes
                 /\ c.secondaries > 0 =>
                      \A i \in DOMAIN c.routes :
                        i # decision.route => RouteScore(c.routes[i]) < RouteScore(c.routes[decision.route])
<1>. DEFINE best == BestRoute(c)
            score(i) == RouteScore(c.routes[i])
            near == {i \in DOMAIN c.routes \ {best} : score(i) > 0 /\ score(best) - score(i) <= c.tie}
            ahead(i) == {j \in near : RankedAhead(c, j, i)}
            secondary == {i \in near : Cardinality(ahead(i)) < c.secondaries}
            decision == SelectRoute(c)
<1>1. decision = IF c.routes = <<>> \/ score(best) <= 0
                 THEN [outcome |-> "fallback", route |-> 0, secondary |-> {}]
                 ELSE [outcome |-> IF \E i \in secondary : score(i) = score(best) THEN "ambiguous" ELSE "matched",
                       route |-> best, secondary |-> secondary]
  BY DEF SelectRoute
<1>2. /\ Len(c.routes) \in Nat /\ DOMAIN c.routes = 1 .. Len(c.routes)
      /\ \A i \in DOMAIN c.routes : score(i) \in Nat
  BY RoutesAre
<1>3. c.routes # <<>> =>
        /\ best \in DOMAIN c.routes
        /\ \A j \in DOMAIN c.routes \ {best} : score(best) > score(j) \/ (score(best) = score(j) /\ best < j)
  BY BestIs DEF RankedAhead
<1>4. \A i, j : RankedAhead(c, i, j) <=> score(i) > score(j) \/ (score(i) = score(j) /\ i < j)
  BY DEF RankedAhead
<1>5. c.tie \in Nat /\ c.secondaries \in Nat
  BY TaskIs
<1>. HIDE DEF best, score, decision
<1>6. ASSUME decision.outcome = "matched"
      PROVE  /\ c.routes # <<>> /\ score(best) > 0 /\ decision.route = best
             /\ \A i \in secondary : score(i) # score(best)
  <2>1. ~(c.routes = <<>> \/ score(best) <= 0) /\ ~\E i \in secondary : score(i) = score(best)
    BY <1>1, <1>6
  <2>2. decision.route = best
    BY <1>1, <2>1
  <2>3. score(best) > 0
    BY <1>2, <1>3, <2>1
  <2>. QED
    BY <2>1, <2>2, <2>3
<1>7. ASSUME decision.outcome = "matched", c.secondaries > 0, NEW i \in DOMAIN c.routes, i # best
      PROVE  score(i) < score(best)
  <2>. DEFINE twins == {j \in DOMAIN c.routes \ {best} : score(j) = score(best)}
  <2>1. best \in DOMAIN c.routes /\ (score(best) > score(i) \/ score(best) = score(i))
    BY <1>3, <1>6, <1>7
  <2>2. SUFFICES ASSUME twins # {} PROVE FALSE
    BY <1>2, <1>7, <2>1
  <2>3. PICK k \in twins : \A j \in twins : k <= j
    <3>1. twins \in SUBSET Nat
      BY <1>2
    <3>. HIDE DEF twins
    <3>. QED
      BY <2>2, <3>1, Smallest
  <2>4. score(best) \in Nat /\ score(k) \in Nat /\ k \in 1 .. Len(c.routes) /\ score(k) = score(best)
    BY <1>2, <2>1, <2>3
  <2>5. k \in near
    BY <1>5, <1>6, <1>7, <2>3, <2>4
  <2>6. ASSUME NEW j \in ahead(k) PROVE FALSE
    <3>1. j \in DOMAIN c.routes /\ j # best /\ (score(j) > score(k) \/ (score(j) = score(k) /\ j < k))
      BY <1>4
    <3>2. score(j) \in Nat /\ j \in 1 .. Len(c.routes)
      BY <1>2, <3>1
    <3>3. ~(score(j) > score(best))
      BY <1>3, <1>6, <2>4, <3>1, <3>2
    <3>4. j \in twins /\ j < k
      BY <2>4, <3>1, <3>2, <3>3
    <3>. QED
      BY <2>3, <2>4, <3>2, <3>4
  <2>7. Cardinality(ahead(k)) = 0
    <3>1. ahead(k) = {}
      BY <2>6
    <3>. HIDE DEF ahead
    <3>. QED
      BY <3>1, FS_EmptySet
  <2>8. k \in secondary
    BY <1>5, <1>7, <2>5, <2>7
  <2>. QED
    BY <1>6, <1>7, <2>4, <2>8
<1>8. decision.route \in {0} \cup DOMAIN c.routes
  BY <1>1, <1>3
<1>. QED
  BY <1>3, <1>6, <1>7, <1>8 DEF decision, score

-----------------------------------------------------------------------------
(* The sources *)

\* A function that goes on as a recursion does is the one the recursion defines.
LEMMA Follows ==
  ASSUME NEW N \in Nat, NEW U, NEW base, NEW step, NEW f, Recurses(N, U, base, step, f),
         NEW g, g[0] = base, \A n \in 1 .. N : g[n - 1] \in U => g[n] = step[n][g[n - 1]]
  PROVE  \A n \in 0 .. N : g[n] = f[n] /\ g[n] \in U
<1>1. /\ \A n \in 0 .. N : f[n] \in U
      /\ f[0] = base /\ \A n \in 1 .. N : f[n] = step[n][f[n - 1]]
  BY DEF Recurses
<1>. DEFINE Good == {n \in 0 .. N : f[n] = g[n]}
<1>2. 0 \in Good
  BY <1>1
<1>3. ASSUME NEW n \in 0 .. N, n # 0, n - 1 \in Good PROVE n \in Good
  <2>1. n \in 1 .. N /\ n - 1 \in 0 .. N /\ f[n - 1] = g[n - 1]
    BY <1>3
  <2>2. f[n] = g[n]
    BY <1>1, <2>1
  <2>. QED
    BY <2>2
<1>. HIDE DEF Good
<1>4. 0 .. N \subseteq Good
  BY <1>2, <1>3, UpToN
<1>. QED
  BY <1>1, <1>4 DEF Good

Sources(P) == [group : Groups, path : P]
Takings(P) == [items : Seq(Sources(P)), omitted : SUBSET Sources(P), used : Budgets]
NothingTaken == [items |-> <<>>, omitted |-> {}, used |-> [g \in Groups \cup {"total"} |-> 0]]

LEMMA SourceIs ==
  ASSUME NEW P, NEW item \in Sources(P)
  PROVE  item.group \in Groups /\ item.path \in P /\ item.group # "total"
  BY DEF Sources, Groups

LEMMA TakingIs ==
  ASSUME NEW P, NEW acc \in Takings(P)
  PROVE  acc.items \in Seq(Sources(P)) /\ acc.omitted \in SUBSET Sources(P) /\ acc.used \in Budgets
  BY DEF Takings

\* A source is taken whole, on its group's account and the total, or omitted.
Takes(c, budget, acc, item, next) ==
  /\ next.items = Append(acc.items, item) /\ next.omitted = acc.omitted
  /\ c.size[item.path] > 0
  /\ \A g \in Groups : next.used[g] = acc.used[g] + IF g = item.group THEN c.size[item.path] ELSE 0
  /\ next.used[item.group] <= budget[item.group] /\ next.used["total"] <= budget["total"]
Omits(acc, item, next) ==
  next.items = acc.items /\ next.omitted = acc.omitted \cup {item} /\ next.used = acc.used

LEMMA TakeSourceIs ==
  ASSUME NEW P, NEW c, c.size \in [P -> Nat], NEW budget \in Budgets, NEW acc \in Takings(P), NEW item \in Sources(P)
  PROVE  /\ TakeSource(c, budget, acc, item) \in Takings(P)
         /\ \/ Takes(c, budget, acc, item, TakeSource(c, budget, acc, item))
            \/ Omits(acc, item, TakeSource(c, budget, acc, item))
<1>. DEFINE size == c.size[item.path]
            used == [acc.used EXCEPT ![item.group] = @ + size, !["total"] = @ + size]
            next == TakeSource(c, budget, acc, item)
            shapes == Sources(P)
<1>1. size \in Nat /\ item.group \in Groups /\ item.group # "total"
  BY SourceIs
<1>2. acc.items \in Seq(shapes) /\ acc.omitted \in SUBSET shapes /\ acc.used \in Budgets
  BY TakingIs
<1>3. next = IF size > 0 /\ used[item.group] <= budget[item.group] /\ used["total"] <= budget["total"]
             THEN [items |-> Append(acc.items, item), omitted |-> acc.omitted, used |-> used]
             ELSE [items |-> acc.items, omitted |-> acc.omitted \cup {item}, used |-> acc.used]
  BY DEF TakeSource
<1>. HIDE DEF size, next
<1>4. used \in Budgets /\ \A g \in Groups : used[g] = acc.used[g] + IF g = item.group THEN size ELSE 0
  <2>1. acc.used \in [Groups \cup {"total"} -> Nat] /\ "total" \notin Groups
    BY <1>2 DEF Budgets, Groups
  <2>2. \A g \in Groups \cup {"total"} : acc.used[g] \in Nat /\ acc.used[g] + size \in Nat
    BY <1>1, <2>1
  <2>3. /\ DOMAIN used = Groups \cup {"total"} /\ used = [g \in Groups \cup {"total"} |-> used[g]]
        /\ \A g \in Groups \cup {"total"} : used[g] = IF g \in {item.group, "total"} THEN acc.used[g] + size ELSE acc.used[g]
    BY <1>1, <2>1
  <2>. HIDE DEF used
  <2>4. used \in Budgets
    BY <2>2, <2>3 DEF Budgets
  <2>5. ASSUME NEW g \in Groups PROVE used[g] = acc.used[g] + IF g = item.group THEN size ELSE 0
    <3>1. g \in Groups \cup {"total"} /\ g # "total" /\ acc.used[g] \in Nat
      BY <2>1, <2>2
    <3>2. used[g] = IF g = item.group THEN acc.used[g] + size ELSE acc.used[g]
      BY <2>3, <3>1
    <3>. QED
      BY <3>1, <3>2
  <2>. QED
    BY <2>4, <2>5
<1>. HIDE DEF used
<1>5. CASE size > 0 /\ used[item.group] <= budget[item.group] /\ used["total"] <= budget["total"]
  <2>1. next = [items |-> Append(acc.items, item), omitted |-> acc.omitted, used |-> used]
    BY <1>3, <1>5
  <2>2. Append(acc.items, item) \in Seq(shapes)
    <3>1. item \in shapes
      OBVIOUS
    <3>. HIDE DEF shapes
    <3>. QED
      BY <1>2, <3>1
  <2>3. next \in Takings(P)
    BY <1>2, <1>4, <2>1, <2>2 DEF Takings
  <2>4. Takes(c, budget, acc, item, next)
    BY <1>4, <1>5, <2>1 DEF Takes, size
  <2>. QED
    BY <2>3, <2>4 DEF next
<1>6. CASE ~(size > 0 /\ used[item.group] <= budget[item.group] /\ used["total"] <= budget["total"])
  <2>1. next = [items |-> acc.items, omitted |-> acc.omitted \cup {item}, used |-> acc.used]
    BY <1>3, <1>6
  <2>2. next \in Takings(P)
    BY <1>2, <2>1 DEF Takings
  <2>. QED
    BY <2>1, <2>2 DEF Omits, next
<1>. QED
  BY <1>5, <1>6

\* The first that declares a path.
Leads(declared, n) == \A m \in 1 .. n - 1 : declared[m].path # declared[n].path

\* What ContextItems computes, source by source.
TakesInOrder(c, budget, declared, t) ==
  /\ t[0] = NothingTaken
  /\ \A n \in 1 .. Len(declared) :
       t[n] = IF ~Leads(declared, n) THEN t[n - 1] ELSE TakeSource(c, budget, t[n - 1], declared[n])

LEMMA ContextIs ==
  ASSUME NEW P, NEW c, c.size \in [P -> Nat], NEW decision, RouteOf(c, decision).budget \in Budgets,
         Declared(c, decision) \in Seq(Sources(P))
  PROVE  \E t : /\ TakesInOrder(c, RouteOf(c, decision).budget, Declared(c, decision), t)
                /\ \A n \in 0 .. Len(Declared(c, decision)) : t[n] \in Takings(P)
                /\ ContextItems(c, decision) = t[Len(Declared(c, decision))]
<1>. DEFINE declared == Declared(c, decision)
            budget == RouteOf(c, decision).budget
            N == Len(declared)
            U == Takings(P)
            repeats(n) == \E m \in 1 .. n - 1 : declared[m].path = declared[n].path
            step == [n \in 1 .. N |-> [acc \in U |-> IF repeats(n) THEN acc ELSE TakeSource(c, budget, acc, declared[n])]]
            next(f, n) == IF n = 0 THEN NothingTaken
                          ELSE IF repeats(n) THEN f[n - 1] ELSE TakeSource(c, budget, f[n - 1], declared[n])
            is(f) == f = [n \in 0 .. N |-> next(f, n)]
<1>1. N \in Nat /\ \A n \in 1 .. N : declared[n] \in Sources(P)
  <2>. DEFINE shapes == Sources(P)
  <2>1. declared \in Seq(shapes)
    OBVIOUS
  <2>. HIDE DEF shapes, declared
  <2>2. Len(declared) \in Nat /\ \A n \in 1 .. Len(declared) : declared[n] \in shapes
    BY <2>1
  <2>. QED
    BY <2>2 DEF shapes
<1>2. budget \in Budgets
  OBVIOUS
<1>3. NothingTaken \in U
  BY DEF NothingTaken, Takings, Budgets
<1>4. ContextItems(c, decision) = LET taken[n \in 0 .. N] == next(taken, n) IN taken[N]
  BY DEF ContextItems, NothingTaken
<1>. HIDE DEF declared, budget, N, U
<1>5. step \in [1 .. N -> [U -> U]]
  <2>. SUFFICES ASSUME NEW n \in 1 .. N, NEW acc \in U
                PROVE  (IF repeats(n) THEN acc ELSE TakeSource(c, budget, acc, declared[n])) \in U
    OBVIOUS
  <2>. HIDE DEF repeats
  <2>1. TakeSource(c, budget, acc, declared[n]) \in U
    BY <1>1, <1>2, TakeSourceIs DEF U
  <2>. QED
    BY <2>1
<1>6. ASSUME NEW n \in 1 .. N, NEW acc \in U
      PROVE  step[n][acc] = IF repeats(n) THEN acc ELSE TakeSource(c, budget, acc, declared[n])
  OBVIOUS
<1>. HIDE DEF step, repeats
<1>7. PICK f : Recurses(N, U, NothingTaken, step, f)
  BY <1>1, <1>3, <1>5, Recursion
<1>8. is(f)
  <2>1. f \in [0 .. N -> U] /\ f[0] = NothingTaken /\ \A n \in 1 .. N : f[n] = step[n][f[n - 1]]
    BY <1>7 DEF Recurses
  <2>2. ASSUME NEW n \in 0 .. N PROVE f[n] = next(f, n)
    <3>1. CASE n = 0
      BY <2>1, <3>1
    <3>2. CASE n # 0
      <4>1. n \in 1 .. N /\ n - 1 \in 0 .. N
        BY <1>1, <3>2
      <4>2. f[n - 1] \in U
        BY <2>1, <4>1
      <4>. QED
        BY <1>6, <2>1, <3>2, <4>1, <4>2
    <3>. QED
      BY <3>1, <3>2
  <2>3. f = [n \in 0 .. N |-> f[n]]
    BY <2>1
  <2>4. [n \in 0 .. N |-> f[n]] = [n \in 0 .. N |-> next(f, n)]
    BY <2>2
  <2>. QED
    BY <2>3, <2>4
<1>. DEFINE g == CHOOSE h : is(h)
<1>9. is(g)
  BY <1>8
<1>10. ContextItems(c, decision) = g[N]
  BY <1>4
<1>. HIDE DEF g
<1>11. /\ g[0] = NothingTaken
       /\ \A n \in 1 .. N : g[n] = IF repeats(n) THEN g[n - 1] ELSE TakeSource(c, budget, g[n - 1], declared[n])
  <2>1. ASSUME NEW n \in 0 .. N PROVE g[n] = next(g, n)
    BY <1>9
  <2>2. 0 \in 0 .. N /\ \A n \in 1 .. N : n \in 0 .. N /\ n # 0
    BY <1>1
  <2>. QED
    BY <2>1, <2>2
<1>12. \A n \in 0 .. N : g[n] \in U
  <2>1. \A n \in 1 .. N : g[n - 1] \in U => g[n] = step[n][g[n - 1]]
    BY <1>6, <1>11
  <2>. QED
    BY <1>1, <1>7, <1>11, <2>1, Follows
<1>13. TakesInOrder(c, budget, declared, g)
  <2>1. \A n \in 1 .. N : ~Leads(declared, n) <=> repeats(n)
    BY DEF Leads, repeats
  <2>. QED
    BY <1>11, <2>1 DEF TakesInOrder, N
<1>. QED
  BY <1>10, <1>12, <1>13 DEF declared, budget, N, U

\* Bytes of a group, item by item.
BytesFor(c, x, group) == IF x.group = group THEN c.size[x.path] ELSE 0
SumsOf(c, items, group, f) ==
  /\ f[0] = 0
  /\ \A n \in 1 .. Len(items) : f[n] = f[n - 1] + BytesFor(c, items[n], group)

LEMMA BytesAre ==
  ASSUME NEW P, NEW c, c.size \in [P -> Nat], NEW items \in Seq(Sources(P)), NEW group
  PROVE  \E f : /\ SumsOf(c, items, group, f) /\ BytesIn(c, items, group) = f[Len(items)]
                /\ \A n \in 0 .. Len(items) : f[n] \in Nat
<1>. DEFINE N == Len(items)
            adds(n) == BytesFor(c, items[n], group)
            step == [n \in 1 .. N |-> [acc \in Nat |-> acc + adds(n)]]
            next(f, n) == IF n = 0 THEN 0 ELSE f[n - 1] + adds(n)
            is(f) == f = [n \in 0 .. N |-> next(f, n)]
<1>1. N \in Nat /\ \A n \in 1 .. N : adds(n) \in Nat
  <2>. DEFINE shapes == Sources(P)
  <2>1. items \in Seq(shapes)
    OBVIOUS
  <2>. HIDE DEF shapes
  <2>2. Len(items) \in Nat /\ \A n \in 1 .. Len(items) : items[n] \in shapes
    BY <2>1
  <2>3. \A n \in 1 .. Len(items) : items[n].path \in P
    BY <2>2, SourceIs DEF shapes
  <2>4. \A n \in 1 .. Len(items) : c.size[items[n].path] \in Nat
    BY <2>3
  <2>. HIDE DEF shapes
  <2>. QED
    BY <2>2, <2>4 DEF BytesFor
<1>2. BytesIn(c, items, group) = LET sum[n \in 0 .. N] == next(sum, n) IN sum[N]
  BY DEF BytesIn, BytesFor
<1>. HIDE DEF N, adds
<1>3. step \in [1 .. N -> [Nat -> Nat]]
  <2>. SUFFICES ASSUME NEW n \in 1 .. N, NEW acc \in Nat PROVE acc + adds(n) \in Nat
    OBVIOUS
  <2>. QED
    BY <1>1
<1>4. ASSUME NEW n \in 1 .. N, NEW acc \in Nat PROVE step[n][acc] = acc + adds(n)
  OBVIOUS
<1>. HIDE DEF step
<1>5. PICK f : Recurses(N, Nat, 0, step, f)
  <2>1. 0 \in Nat
    OBVIOUS
  <2>. QED
    BY <1>1, <1>3, <2>1, Recursion
<1>6. is(f)
  <2>1. f \in [0 .. N -> Nat] /\ f[0] = 0 /\ \A n \in 1 .. N : f[n] = step[n][f[n - 1]]
    BY <1>5 DEF Recurses
  <2>2. ASSUME NEW n \in 0 .. N PROVE f[n] = next(f, n)
    <3>1. CASE n = 0
      BY <2>1, <3>1
    <3>2. CASE n # 0
      <4>1. n \in 1 .. N /\ n - 1 \in 0 .. N
        BY <1>1, <3>2
      <4>2. f[n - 1] \in Nat
        BY <2>1, <4>1
      <4>. QED
        BY <1>4, <2>1, <3>2, <4>1, <4>2
    <3>. QED
      BY <3>1, <3>2
  <2>3. f = [n \in 0 .. N |-> f[n]]
    BY <2>1
  <2>4. [n \in 0 .. N |-> f[n]] = [n \in 0 .. N |-> next(f, n)]
    BY <2>2
  <2>. QED
    BY <2>3, <2>4
<1>. DEFINE g == CHOOSE h : is(h)
<1>7. is(g)
  BY <1>6
<1>8. BytesIn(c, items, group) = g[N]
  BY <1>2
<1>. HIDE DEF g
<1>9. g[0] = 0 /\ \A n \in 1 .. N : g[n] = g[n - 1] + adds(n)
  <2>1. ASSUME NEW n \in 0 .. N PROVE g[n] = next(g, n)
    BY <1>7
  <2>2. 0 \in 0 .. N /\ \A n \in 1 .. N : n \in 0 .. N /\ n # 0
    BY <1>1
  <2>. QED
    BY <2>1, <2>2
<1>10. \A n \in 0 .. N : g[n] \in Nat
  <2>. DEFINE Good == {n \in 0 .. N : g[n] \in Nat}
  <2>1. 0 \in Good
    BY <1>1, <1>9
  <2>2. ASSUME NEW n \in 0 .. N, n # 0, n - 1 \in Good PROVE n \in Good
    <3>1. n \in 1 .. N /\ g[n - 1] \in Nat
      BY <1>1, <2>2
    <3>2. adds(n) \in Nat
      BY <1>1, <3>1
    <3>3. g[n] = g[n - 1] + adds(n)
      BY <1>9, <3>1
    <3>. QED
      BY <3>1, <3>2, <3>3
  <2>. HIDE DEF Good
  <2>3. 0 .. N \subseteq Good
    BY <1>1, <2>1, <2>2, UpToN
  <2>. QED
    BY <2>3 DEF Good
<1>. QED
  BY <1>8, <1>9, <1>10 DEF SumsOf, N, adds

LEMMA BytesOfNone ==
  ASSUME NEW c, NEW group
  PROVE  BytesIn(c, <<>>, group) = 0
<1>. DEFINE P == {}
            size == c.size
<1>1. Len(<<>>) = 0
  OBVIOUS
<1>2. \E f : f = [n \in 0 .. 0 |-> IF n = 0 THEN 0 ELSE f[n - 1] + IF <<>>[n].group = group THEN c.size[<<>>[n].path] ELSE 0]
  <2>1. [n \in 0 .. 0 |-> 0] = [m \in 0 .. 0 |-> IF m = 0 THEN 0 ELSE [n \in 0 .. 0 |-> 0][m - 1] + IF <<>>[m].group = group THEN c.size[<<>>[m].path] ELSE 0]
    OBVIOUS
  <2>. QED
    BY <2>1
<1>. QED
  BY <1>1, <1>2 DEF BytesIn

\* One more item adds its own bytes to its group.
LEMMA BytesAppend ==
  ASSUME NEW P, NEW c, c.size \in [P -> Nat], NEW items \in Seq(Sources(P)), NEW item \in Sources(P), NEW group
  PROVE  BytesIn(c, Append(items, item), group) = BytesIn(c, items, group) + BytesFor(c, item, group)
<1>. DEFINE N == Len(items)
            longer == Append(items, item)
            adds(x) == BytesFor(c, x, group)
            shapes == Sources(P)
<1>1. N \in Nat /\ longer \in Seq(shapes) /\ Len(longer) = N + 1 /\ longer[N + 1] = item /\ \A n \in 1 .. N : longer[n] = items[n]
  <2>1. items \in Seq(shapes) /\ item \in shapes
    OBVIOUS
  <2>. HIDE DEF shapes
  <2>. QED
    BY <2>1
<1>2. PICK f : SumsOf(c, items, group, f) /\ BytesIn(c, items, group) = f[Len(items)]
  BY BytesAre
<1>. HIDE DEF longer
<1>3. PICK g : SumsOf(c, longer, group, g) /\ BytesIn(c, longer, group) = g[Len(longer)]
  <2>1. longer \in Seq(Sources(P))
    BY <1>1
  <2>. HIDE DEF N, adds, shapes
  <2>. QED
    BY <2>1, BytesAre
<1>. HIDE DEF N
<1>4. f[0] = 0 /\ \A n \in 1 .. N : f[n] = f[n - 1] + adds(items[n])
  BY <1>2 DEF SumsOf, N
<1>5. g[0] = 0 /\ \A n \in 1 .. N + 1 : g[n] = g[n - 1] + adds(longer[n])
  BY <1>1, <1>3 DEF SumsOf
<1>. HIDE DEF adds
<1>. DEFINE Good == {n \in 0 .. N : f[n] = g[n]}
<1>6. 0 .. N \subseteq Good
  <2>1. 0 \in Good
    BY <1>1, <1>4, <1>5
  <2>2. ASSUME NEW n \in 0 .. N, n # 0, n - 1 \in Good PROVE n \in Good
    <3>1. n \in 1 .. N /\ n \in 1 .. N + 1 /\ f[n - 1] = g[n - 1]
      BY <1>1, <2>2
    <3>2. longer[n] = items[n]
      BY <1>1, <3>1
    <3>3. f[n] = g[n]
      BY <1>4, <1>5, <3>1, <3>2
    <3>. QED
      BY <3>3
  <2>. HIDE DEF Good
  <2>. QED
    BY <1>1, <2>1, <2>2, UpToN
<1>7. f[N] = g[N]
  BY <1>1, <1>6
<1>8. g[N + 1] = g[N] + adds(item)
  <2>1. N + 1 \in 1 .. N + 1 /\ (N + 1) - 1 = N
    BY <1>1
  <2>. QED
    BY <1>1, <1>5, <2>1
<1>. QED
  BY <1>1, <1>2, <1>3, <1>7, <1>8 DEF longer, adds, N

\* What has been taken and omitted of the first n.
SourcesSoFar(c, budget, declared, n, acc) ==
  /\ \A i \in DOMAIN acc.items : \E m \in 1 .. n : acc.items[i] = declared[m]
  /\ \A i \in DOMAIN acc.items : c.size[acc.items[i].path] > 0
  /\ \A i, j \in DOMAIN acc.items : acc.items[i].path = acc.items[j].path => i = j
  /\ \A m \in 1 .. n : Leads(declared, m) =>
       declared[m] \in acc.omitted \/ \E i \in DOMAIN acc.items : acc.items[i] = declared[m]
  /\ \A g \in Groups : acc.used[g] = BytesIn(c, acc.items, g) /\ acc.used[g] <= budget[g]
  /\ acc.used["total"] <= budget["total"]

LEMMA NothingSoFar ==
  ASSUME NEW c, NEW budget \in Budgets, NEW declared
  PROVE  SourcesSoFar(c, budget, declared, 0, NothingTaken)
<1>1. NothingTaken.items = <<>> /\ DOMAIN NothingTaken.items = {} /\ 1 .. 0 = {}
  BY DEF NothingTaken
<1>2. \A g \in Groups : NothingTaken.used[g] = 0 /\ budget[g] \in Nat /\ BytesIn(c, NothingTaken.items, g) = 0
  BY <1>1, BytesOfNone, BudgetIs DEF NothingTaken
<1>3. NothingTaken.used["total"] = 0 /\ budget["total"] \in Nat
  BY BudgetIs DEF NothingTaken
<1>. QED
  BY <1>1, <1>2, <1>3 DEF SourcesSoFar

LEMMA NextSoFar ==
  ASSUME NEW P, NEW c, c.size \in [P -> Nat], NEW budget \in Budgets, NEW declared, NEW n \in Nat, n # 0,
         NEW acc \in Takings(P), declared[n] \in Sources(P), Leads(declared, n),
         SourcesSoFar(c, budget, declared, n - 1, acc)
  PROVE  SourcesSoFar(c, budget, declared, n, TakeSource(c, budget, acc, declared[n]))
<1>. DEFINE item == declared[n]
            next == TakeSource(c, budget, acc, item)
            L == Len(acc.items)
            shapes == Sources(P)
<1>1. item \in shapes /\ item.group \in Groups
  BY SourceIs
<1>2. acc.items \in Seq(shapes) /\ acc.used \in Budgets
  BY TakingIs
<1>. HIDE DEF shapes
<1>3. L \in Nat /\ DOMAIN acc.items = 1 .. L
  BY <1>2
<1>4. /\ \A i \in 1 .. L : \E m \in 1 .. n - 1 : acc.items[i] = declared[m]
      /\ \A i \in 1 .. L : c.size[acc.items[i].path] > 0
      /\ \A i, j \in 1 .. L : acc.items[i].path = acc.items[j].path => i = j
      /\ \A m \in 1 .. n - 1 : Leads(declared, m) =>
           declared[m] \in acc.omitted \/ \E i \in 1 .. L : acc.items[i] = declared[m]
      /\ \A g \in Groups : acc.used[g] = BytesIn(c, acc.items, g) /\ acc.used[g] <= budget[g]
      /\ acc.used["total"] <= budget["total"]
  BY <1>3 DEF SourcesSoFar
<1>5. \A m \in 1 .. n : m = n \/ m \in 1 .. n - 1
  OBVIOUS
<1>6. \A m \in 1 .. n - 1 : m \in 1 .. n /\ declared[m].path # item.path
  BY DEF Leads
<1>. HIDE DEF item, next, L
<1>7. CASE Takes(c, budget, acc, item, next)
  <2>1. next.items = Append(acc.items, item) /\ c.size[item.path] > 0 /\ next.omitted = acc.omitted
    BY <1>7 DEF Takes
  <2>2. /\ DOMAIN next.items = 1 .. L + 1 /\ next.items[L + 1] = item
        /\ \A i \in 1 .. L : next.items[i] = acc.items[i]
        /\ \A i \in 1 .. L + 1 : i = L + 1 \/ i \in 1 .. L
    BY <1>1, <1>2, <2>1, AppendIs DEF L
  <2>3. \A i \in DOMAIN next.items : \E m \in 1 .. n : next.items[i] = declared[m]
    <3>1. n \in 1 .. n /\ item = declared[n]
      BY DEF item
    <3>. QED
      BY <1>4, <1>6, <2>2, <3>1
  <2>4. \A i \in DOMAIN next.items : c.size[next.items[i].path] > 0
    BY <1>4, <2>1, <2>2
  <2>5. \A i, j \in DOMAIN next.items : next.items[i].path = next.items[j].path => i = j
    <3>1. \A i \in 1 .. L : acc.items[i].path # item.path
      BY <1>4, <1>6
    <3>2. ASSUME NEW i \in 1 .. L + 1, NEW j \in 1 .. L + 1, next.items[i].path = next.items[j].path PROVE i = j
      <4>1. CASE i \in 1 .. L /\ j \in 1 .. L
        BY <1>4, <2>2, <3>2, <4>1
      <4>2. CASE i = L + 1 /\ j \in 1 .. L
        BY <2>2, <3>1, <3>2, <4>2
      <4>3. CASE i \in 1 .. L /\ j = L + 1
        BY <2>2, <3>1, <3>2, <4>3
      <4>. QED
        BY <2>2, <4>1, <4>2, <4>3
    <3>. SUFFICES ASSUME NEW i \in DOMAIN next.items, NEW j \in DOMAIN next.items, next.items[i].path = next.items[j].path
                  PROVE  i = j
      OBVIOUS
    <3>3. i \in 1 .. L + 1 /\ j \in 1 .. L + 1
      BY <2>2
    <3>. QED
      BY <3>2, <3>3
  <2>6. \A m \in 1 .. n : Leads(declared, m) =>
          declared[m] \in next.omitted \/ \E i \in DOMAIN next.items : next.items[i] = declared[m]
    <3>. SUFFICES ASSUME NEW m \in 1 .. n, Leads(declared, m)
                  PROVE  declared[m] \in next.omitted \/ \E i \in DOMAIN next.items : next.items[i] = declared[m]
      OBVIOUS
    <3>1. L + 1 \in DOMAIN next.items /\ \A i \in 1 .. L : i \in DOMAIN next.items
      BY <1>3, <2>2
    <3>2. CASE m = n
      BY <2>2, <3>1, <3>2 DEF item
    <3>3. CASE m \in 1 .. n - 1
      <4>1. CASE declared[m] \in acc.omitted
        BY <2>1, <4>1
      <4>2. CASE \E i \in 1 .. L : acc.items[i] = declared[m]
        <5>1. PICK i \in 1 .. L : acc.items[i] = declared[m]
          BY <4>2
        <5>. QED
          BY <2>2, <3>1, <5>1
      <4>. QED
        BY <1>4, <3>3, <4>1, <4>2
    <3>. QED
      BY <1>5, <3>2, <3>3
  <2>7. ASSUME NEW g \in Groups PROVE next.used[g] = BytesIn(c, next.items, g) /\ next.used[g] <= budget[g]
    <3>1. next.used[g] = acc.used[g] + IF g = item.group THEN c.size[item.path] ELSE 0
      BY <1>7 DEF Takes
    <3>2. BytesIn(c, next.items, g) = BytesIn(c, acc.items, g) + IF item.group = g THEN c.size[item.path] ELSE 0
      <4>1. c.size \in [P -> Nat] /\ acc.items \in Seq(Sources(P)) /\ item \in Sources(P)
        BY <1>1, <1>2 DEF shapes
      <4>2. BytesIn(c, Append(acc.items, item), g) = BytesIn(c, acc.items, g) + BytesFor(c, item, g)
        BY <4>1, BytesAppend, SMT
      <4>. QED
        BY <2>1, <4>2 DEF BytesFor
    <3>3. acc.used[g] \in Nat
      BY <1>2, BudgetIs
    <3>4. next.used[item.group] <= budget[item.group]
      BY <1>7 DEF Takes
    <3>5. CASE g = item.group
      BY <1>4, <3>1, <3>2, <3>4, <3>5
    <3>6. CASE g # item.group
      BY <1>4, <3>1, <3>2, <3>3, <3>6
    <3>. QED
      BY <3>5, <3>6
  <2>8. next.used["total"] <= budget["total"]
    BY <1>7 DEF Takes
  <2>. QED
    BY <2>3, <2>4, <2>5, <2>6, <2>7, <2>8 DEF SourcesSoFar, next, item
<1>8. CASE Omits(acc, item, next)
  <2>1. next.items = acc.items /\ next.omitted = acc.omitted \cup {item} /\ next.used = acc.used
    BY <1>8 DEF Omits
  <2>2. \A i \in DOMAIN next.items : \E m \in 1 .. n : next.items[i] = declared[m]
    BY <1>3, <1>4, <1>6, <2>1
  <2>3. \A m \in 1 .. n : Leads(declared, m) =>
          declared[m] \in next.omitted \/ \E i \in DOMAIN next.items : next.items[i] = declared[m]
    <3>. SUFFICES ASSUME NEW m \in 1 .. n, Leads(declared, m)
                  PROVE  declared[m] \in next.omitted \/ \E i \in DOMAIN next.items : next.items[i] = declared[m]
      OBVIOUS
    <3>1. CASE m = n
      BY <2>1, <3>1 DEF item
    <3>2. CASE m \in 1 .. n - 1
      BY <1>3, <1>4, <2>1, <3>2
    <3>. QED
      BY <1>5, <3>1, <3>2
  <2>. QED
    BY <1>3, <1>4, <2>1, <2>2, <2>3 DEF SourcesSoFar, next, item
<1>9. Takes(c, budget, acc, item, next) \/ Omits(acc, item, next)
  BY <1>1, TakeSourceIs DEF next, shapes
<1>. QED
  BY <1>7, <1>8, <1>9

LEMMA SourcesTaken ==
  ASSUME NEW P, NEW c, c.size \in [P -> Nat], NEW decision, RouteOf(c, decision).budget \in Budgets,
         Declared(c, decision) \in Seq(Sources(P))
  PROVE  /\ ContextItems(c, decision) \in Takings(P)
         /\ SourcesSoFar(c, RouteOf(c, decision).budget, Declared(c, decision), Len(Declared(c, decision)), ContextItems(c, decision))
<1>. DEFINE declared == Declared(c, decision)
            budget == RouteOf(c, decision).budget
            N == Len(declared)
            shapes == Sources(P)
<1>1. N \in Nat /\ \A n \in 1 .. N : declared[n] \in shapes
  <2>1. declared \in Seq(shapes)
    OBVIOUS
  <2>. HIDE DEF shapes, declared
  <2>. QED
    BY <2>1
<1>2. PICK t : /\ TakesInOrder(c, budget, declared, t)
               /\ \A n \in 0 .. N : t[n] \in Takings(P)
               /\ ContextItems(c, decision) = t[N]
  BY ContextIs
<1>3. budget \in Budgets
  OBVIOUS
<1>. HIDE DEF declared, budget, N
<1>4. /\ t[0] = NothingTaken
      /\ \A n \in 1 .. N : t[n] = IF ~Leads(declared, n) THEN t[n - 1] ELSE TakeSource(c, budget, t[n - 1], declared[n])
  BY <1>2 DEF TakesInOrder, N
<1>. DEFINE Good == {n \in 0 .. N : SourcesSoFar(c, budget, declared, n, t[n])}
<1>5. 0 \in Good
  <2>1. 0 \in 0 .. N
    BY <1>1
  <2>. QED
    BY <1>3, <1>4, <2>1, NothingSoFar
<1>6. ASSUME NEW n \in 0 .. N, n # 0, n - 1 \in Good PROVE n \in Good
  <2>1. n \in 1 .. N /\ n - 1 \in 0 .. N /\ n \in Nat /\ SourcesSoFar(c, budget, declared, n - 1, t[n - 1])
    BY <1>1, <1>6
  <2>2. CASE Leads(declared, n)
    <3>1. t[n] = TakeSource(c, budget, t[n - 1], declared[n])
      BY <1>4, <2>1, <2>2
    <3>2. t[n - 1] \in Takings(P) /\ declared[n] \in Sources(P)
      BY <1>1, <1>2, <2>1
    <3>3. SourcesSoFar(c, budget, declared, n, TakeSource(c, budget, t[n - 1], declared[n]))
      BY <1>3, <1>6, <2>1, <2>2, <3>2, NextSoFar
    <3>. QED
      BY <3>1, <3>3
  <2>3. CASE ~Leads(declared, n)
    <3>1. t[n] = t[n - 1]
      BY <1>4, <2>1, <2>3
    <3>2. \A m \in 1 .. n : m = n \/ m \in 1 .. n - 1
      BY <2>1
    <3>3. \A m \in 1 .. n - 1 : m \in 1 .. n
      BY <2>1
    <3>4. SourcesSoFar(c, budget, declared, n, t[n - 1])
      BY <2>1, <2>3, <3>2, <3>3 DEF SourcesSoFar
    <3>. QED
      BY <3>1, <3>4
  <2>. QED
    BY <2>2, <2>3
<1>7. N \in Good
  <2>. HIDE DEF Good
  <2>1. 0 .. N \subseteq Good
    BY <1>1, <1>5, <1>6, UpToN
  <2>. QED
    BY <1>1, <2>1
<1>8. N \in 0 .. N
  BY <1>1
<1>. QED
  BY <1>2, <1>7, <1>8 DEF declared, budget, N

\* The required ones are declared before the others.
RequiredSources(c, route) == c.defaults \o route.primary \o route.activePlan
DeclaredInOrder(P, declared, required) ==
  /\ declared \in Seq(Sources(P)) /\ required \in Seq(P)
  /\ Len(required) <= Len(declared)
  /\ \A n \in 1 .. Len(required) : declared[n].path = required[n] /\ declared[n].group # "expansion"

LEMMA DeclaredIs ==
  ASSUME NEW P, NEW S, NEW N, NEW c \in Tasks(P, S, N), NEW decision, RouteOf(c, decision) \in RouteShapes(P, S)
  PROVE  DeclaredInOrder(P, Declared(c, decision), RequiredSources(c, RouteOf(c, decision)))
<1>. DEFINE route == RouteOf(c, decision)
            in(group, paths) == [i \in DOMAIN paths |-> [group |-> group, path |-> paths[i]]]
            A == c.defaults \o route.primary
            B == route.activePlan
            X == IF c.expand THEN route.expansion ELSE <<>>
            shapes == Sources(P)
<1>1. A \in Seq(P) /\ B \in Seq(P) /\ X \in Seq(P)
  BY TaskIs, RouteIs
<1>2. Declared(c, decision) = in("primary", A) \o in("active-plan", B) \o in("expansion", X)
  BY DEF Declared
<1>. HIDE DEF A, B, X, route
<1>3. ASSUME NEW g \in Groups, NEW paths \in Seq(P)
      PROVE  /\ in(g, paths) \in Seq(shapes) /\ Len(in(g, paths)) = Len(paths)
             /\ \A i \in 1 .. Len(paths) : in(g, paths)[i] = [group |-> g, path |-> paths[i]]
  <2>1. Len(paths) \in Nat /\ DOMAIN paths = 1 .. Len(paths) /\ \A i \in 1 .. Len(paths) : paths[i] \in P
    OBVIOUS
  <2>2. \A i \in 1 .. Len(paths) : [group |-> g, path |-> paths[i]] \in shapes
    BY <2>1 DEF Sources
  <2>3. in(g, paths) = [i \in 1 .. Len(paths) |-> [group |-> g, path |-> paths[i]]]
    BY <2>1
  <2>. HIDE DEF in, shapes
  <2>4. in(g, paths) \in [1 .. Len(paths) -> shapes]
    BY <2>2, <2>3
  <2>5. in(g, paths) \in Seq(shapes) /\ Len(in(g, paths)) = Len(paths)
    BY <2>1, <2>4, IsASeq, LenProperties
  <2>. QED
    BY <2>3, <2>5
<1>4. "primary" \in Groups /\ "active-plan" \in Groups /\ "expansion" \in Groups
  BY DEF Groups
<1>. DEFINE a == in("primary", A)
            b == in("active-plan", B)
            x == in("expansion", X)
<1>5. /\ a \in Seq(shapes) /\ Len(a) = Len(A) /\ \A i \in 1 .. Len(A) : a[i] = [group |-> "primary", path |-> A[i]]
      /\ b \in Seq(shapes) /\ Len(b) = Len(B) /\ \A i \in 1 .. Len(B) : b[i] = [group |-> "active-plan", path |-> B[i]]
      /\ x \in Seq(shapes)
  <2>. HIDE DEF in, shapes
  <2>. QED
    BY <1>1, <1>3, <1>4
<1>. HIDE DEF in, shapes, a, b, x
<1>6. /\ (a \o b) \o x \in Seq(shapes) /\ Len(A \o B) <= Len((a \o b) \o x)
      /\ A \o B \in Seq(P) /\ Len(A \o B) = Len(A) + Len(B)
      /\ \A n \in 1 .. Len(A) : ((a \o b) \o x)[n] = a[n] /\ (A \o B)[n] = A[n]
      /\ \A k \in 1 .. Len(B) : ((a \o b) \o x)[Len(A) + k] = b[k] /\ (A \o B)[Len(A) + k] = B[k]
  <2>. DEFINE ab == a \o b
  <2>1. /\ Len(A) \in Nat /\ Len(B) \in Nat /\ ab \in Seq(shapes) /\ Len(ab) = Len(A) + Len(B)
        /\ \A n \in 1 .. Len(A) : ab[n] = a[n]
        /\ \A k \in 1 .. Len(B) : ab[Len(A) + k] = b[k]
    <3>1. a \in Seq(shapes) /\ b \in Seq(shapes) /\ Len(a) = Len(A) /\ Len(b) = Len(B)
      BY <1>5
    <3>2. /\ Len(a) \in Nat /\ Len(b) \in Nat /\ ab \in Seq(shapes) /\ Len(ab) = Len(a) + Len(b)
          /\ \A n \in 1 .. Len(a) : ab[n] = a[n]
          /\ \A k \in 1 .. Len(b) : ab[Len(a) + k] = b[k]
      <4>1. Joined(shapes, a, b, ab)
        BY <3>1, ConcatIs
      <4>. HIDE DEF ab
      <4>. QED
        BY <4>1 DEF Joined
    <3>. QED
      BY <3>1, <3>2
  <2>2. /\ A \o B \in Seq(P) /\ Len(A \o B) = Len(A) + Len(B)
        /\ \A n \in 1 .. Len(A) : (A \o B)[n] = A[n]
        /\ \A k \in 1 .. Len(B) : (A \o B)[Len(A) + k] = B[k]
    <3>. DEFINE AB == A \o B
    <3>1. Joined(P, A, B, AB)
      BY <1>1, ConcatIs
    <3>. HIDE DEF AB
    <3>2. /\ AB \in Seq(P) /\ Len(AB) = Len(A) + Len(B)
          /\ \A n \in 1 .. Len(A) : AB[n] = A[n]
          /\ \A k \in 1 .. Len(B) : AB[Len(A) + k] = B[k]
      BY <3>1 DEF Joined
    <3>. QED
      BY <3>2 DEF AB
  <2>. HIDE DEF ab
  <2>3. /\ ab \o x \in Seq(shapes) /\ Len(x) \in Nat /\ Len(ab \o x) = Len(ab) + Len(x)
        /\ \A n \in 1 .. Len(ab) : (ab \o x)[n] = ab[n]
    <3>1. ab \in Seq(shapes) /\ x \in Seq(shapes)
      BY <1>5, <2>1
    <3>. DEFINE abx == ab \o x
    <3>2. Joined(shapes, ab, x, abx)
      BY <3>1, ConcatIs
    <3>. HIDE DEF abx
    <3>3. abx \in Seq(shapes) /\ Len(x) \in Nat /\ Len(abx) = Len(ab) + Len(x) /\ \A n \in 1 .. Len(ab) : abx[n] = ab[n]
      BY <3>2 DEF Joined
    <3>. QED
      BY <3>3 DEF abx
  <2>4. \A n \in 1 .. Len(A) : n \in 1 .. Len(ab)
    BY <2>1
  <2>5. \A k \in 1 .. Len(B) : Len(A) + k \in 1 .. Len(ab)
    BY <2>1
  <2>6. Len(A \o B) <= Len(ab \o x)
    BY <2>1, <2>2, <2>3
  <2>. QED
    BY <2>1, <2>2, <2>3, <2>4, <2>5, <2>6 DEF ab
<1>7. ASSUME NEW n \in 1 .. Len(A) + Len(B)
      PROVE  ((a \o b) \o x)[n].path = (A \o B)[n] /\ ((a \o b) \o x)[n].group # "expansion"
  <2>1. Len(A) \in Nat /\ Len(B) \in Nat
    BY <1>1
  <2>2. CASE n \in 1 .. Len(A)
    <3>1. ((a \o b) \o x)[n] = a[n] /\ (A \o B)[n] = A[n]
      BY <1>6, <2>2
    <3>2. a[n] = [group |-> "primary", path |-> A[n]]
      BY <1>5, <2>2
    <3>. QED
      BY <3>1, <3>2
  <2>3. CASE ~(n \in 1 .. Len(A))
    <3>1. PICK k \in 1 .. Len(B) : n = Len(A) + k
      <4>1. n - Len(A) \in 1 .. Len(B) /\ n = Len(A) + (n - Len(A))
        BY <2>1, <2>3
      <4>. QED
        BY <4>1
    <3>2. b[k] = [group |-> "active-plan", path |-> B[k]]
      BY <1>5
    <3>3. ((a \o b) \o x)[n] = b[k] /\ (A \o B)[n] = B[k]
      <4>1. ((a \o b) \o x)[Len(A) + k] = b[k] /\ (A \o B)[Len(A) + k] = B[k]
        BY <1>6
      <4>. QED
        BY <3>1, <4>1
    <3>. QED
      BY <3>2, <3>3
  <2>. QED
    BY <2>2, <2>3
<1>8. Declared(c, decision) = (a \o b) \o x
  BY <1>2 DEF a, b, x
<1>. QED
  BY <1>6, <1>7, <1>8 DEF A, B, route, shapes, DeclaredInOrder, RequiredSources

\* The part of a packet that holds sources.
LEMMA ContextHolds ==
  ASSUME NEW P, NEW S, NEW N, NEW c \in Tasks(P, S, N), NEW decision, RouteOf(c, decision) \in RouteShapes(P, S)
  PROVE  LET context == ContextItems(c, decision)
             route == RouteOf(c, decision)
             items == context.items
         IN /\ \A g \in Groups : BytesIn(c, items, g) <= route.budget[g]
            /\ context.used["total"] <= route.budget["total"]
            /\ \A i, j \in DOMAIN items : items[i].path = items[j].path => i = j
            /\ \A i \in DOMAIN items : c.size[items[i].path] > 0
            /\ (\A o \in context.omitted : o.group = "expansion") =>
                 ToSet(RequiredSources(c, route)) \subseteq {items[i].path : i \in DOMAIN items}
<1>. DEFINE context == ContextItems(c, decision)
            route == RouteOf(c, decision)
            items == context.items
            declared == Declared(c, decision)
            required == RequiredSources(c, route)
<1>1. c.size \in [P -> Nat] /\ route.budget \in Budgets
  BY TaskIs, RouteIs
<1>2. /\ declared \in Seq(Sources(P)) /\ required \in Seq(P) /\ Len(required) <= Len(declared)
      /\ \A n \in 1 .. Len(required) : declared[n].path = required[n] /\ declared[n].group # "expansion"
  <2>1. DeclaredInOrder(P, declared, required)
    BY DeclaredIs
  <2>. QED
    BY <2>1 DEF DeclaredInOrder
<1>3. SourcesSoFar(c, route.budget, declared, Len(declared), context)
  BY <1>1, <1>2, SourcesTaken
<1>. HIDE DEF context, route, declared, required
<1>4. /\ \A g \in Groups : BytesIn(c, items, g) <= route.budget[g]
      /\ context.used["total"] <= route.budget["total"]
      /\ \A i, j \in DOMAIN items : items[i].path = items[j].path => i = j
      /\ \A i \in DOMAIN items : c.size[items[i].path] > 0
      /\ \A m \in 1 .. Len(declared) : Leads(declared, m) =>
           declared[m] \in context.omitted \/ \E i \in DOMAIN items : items[i] = declared[m]
  BY <1>3 DEF SourcesSoFar
<1>5. ASSUME \A o \in context.omitted : o.group = "expansion", NEW path \in ToSet(required)
      PROVE  path \in {items[i].path : i \in DOMAIN items}
  <2>1. Len(required) \in Nat /\ Len(declared) \in Nat
    <3>. DEFINE shapes == Sources(P)
    <3>1. declared \in Seq(shapes)
      BY <1>2
    <3>. HIDE DEF shapes
    <3>. QED
      BY <1>2, <3>1
  <2>2. PICK m \in 1 .. Len(required) : path = required[m]
    <3>1. \E m \in DOMAIN required : path = required[m]
      BY <1>5 DEF ToSet
    <3>. QED
      BY <1>2, <3>1
  <2>. DEFINE same == {k \in 1 .. Len(required) : declared[k].path = path}
  <2>3. PICK k \in same : \A l \in same : k <= l
    <3>1. same \in SUBSET Nat /\ m \in same
      BY <1>2, <2>2
    <3>. HIDE DEF same
    <3>. QED
      BY <3>1, Smallest
  <2>4. Leads(declared, k)
    <3>. SUFFICES ASSUME NEW l \in 1 .. k - 1, declared[l].path = declared[k].path PROVE FALSE
      BY DEF Leads
    <3>1. l \in same /\ ~(k <= l)
      BY <2>1, <2>3
    <3>. QED
      BY <2>3, <3>1
  <2>5. k \in 1 .. Len(declared) /\ declared[k].group # "expansion" /\ declared[k].path = path
    BY <1>2, <2>1, <2>3
  <2>6. PICK i \in DOMAIN items : items[i] = declared[k]
    BY <1>4, <1>5, <2>4, <2>5
  <2>. QED
    BY <2>5, <2>6
<1>. QED
  BY <1>4, <1>5 DEF context, route, required

-----------------------------------------------------------------------------
(* The skills *)

SkillTakings(S, W) == [items : Seq(S), omitted : SUBSET W, used : Nat]
NoSkills == [items |-> <<>>, omitted |-> {}, used |-> 0]

LEMMA SkillTakingIs ==
  ASSUME NEW S, NEW W, NEW acc \in SkillTakings(S, W)
  PROVE  acc.items \in Seq(S) /\ acc.omitted \in SUBSET W /\ acc.used \in Nat
  BY DEF SkillTakings

\* A skill is taken as published and within the limit, or omitted.
TakesSkill(c, limit, acc, s, next) ==
  /\ next.items = Append(acc.items, s.id) /\ next.omitted = acc.omitted /\ next.used <= limit
  /\ Loading(c, s.id) = "canonical"
OmitsSkill(acc, s, next) ==
  next.items = acc.items /\ next.omitted = acc.omitted \cup {s} /\ next.used = acc.used

LEMMA TakeSkillIs ==
  ASSUME NEW S, NEW W, NEW c, c.skillSize \in [S -> Nat], NEW limit \in Nat, NEW acc \in SkillTakings(S, W),
         NEW s \in W, s.id \in S
  PROVE  /\ TakeSkill(c, limit, acc, s) \in SkillTakings(S, W)
         /\ \/ TakesSkill(c, limit, acc, s, TakeSkill(c, limit, acc, s))
            \/ OmitsSkill(acc, s, TakeSkill(c, limit, acc, s))
<1>. DEFINE next == TakeSkill(c, limit, acc, s)
            size == c.skillSize[s.id]
<1>1. size \in Nat /\ acc.items \in Seq(S) /\ acc.omitted \in SUBSET W /\ acc.used \in Nat
  BY SkillTakingIs
<1>2. next = IF Loading(c, s.id) = "canonical" /\ acc.used + size <= limit
             THEN [items |-> Append(acc.items, s.id), omitted |-> acc.omitted, used |-> acc.used + size]
             ELSE [items |-> acc.items, omitted |-> acc.omitted \cup {s}, used |-> acc.used]
  BY DEF TakeSkill
<1>3. acc.used + size \in Nat /\ Append(acc.items, s.id) \in Seq(S)
  BY <1>1
<1>. HIDE DEF next, size
<1>4. CASE Loading(c, s.id) = "canonical" /\ acc.used + size <= limit
  <2>1. next = [items |-> Append(acc.items, s.id), omitted |-> acc.omitted, used |-> acc.used + size]
    BY <1>2, <1>4
  <2>2. next \in SkillTakings(S, W)
    BY <1>1, <1>3, <2>1 DEF SkillTakings
  <2>3. TakesSkill(c, limit, acc, s, next)
    BY <1>4, <2>1 DEF TakesSkill
  <2>. QED
    BY <2>2, <2>3 DEF next
<1>5. CASE ~(Loading(c, s.id) = "canonical" /\ acc.used + size <= limit)
  <2>1. next = [items |-> acc.items, omitted |-> acc.omitted \cup {s}, used |-> acc.used]
    BY <1>2, <1>5
  <2>2. next \in SkillTakings(S, W)
    BY <1>1, <2>1 DEF SkillTakings
  <2>3. OmitsSkill(acc, s, next)
    BY <2>1 DEF OmitsSkill
  <2>. QED
    BY <2>2, <2>3 DEF next
<1>. QED
  BY <1>4, <1>5

\* What can be offered to the budget, and what SkillItems computes of it.
Usable(c, wanted) ==
  {n \in Loaded(wanted) : ~wanted[n].blocked /\ Loading(c, wanted[n].id) \in {"canonical", "large"}}
SkillsInOrder(c, limit, wanted, t) ==
  /\ t[0] = NoSkills
  /\ \A n \in 1 .. Len(wanted) :
       t[n] = IF n \notin Usable(c, wanted) THEN t[n - 1] ELSE TakeSkill(c, limit, t[n - 1], wanted[n])
Offers(wanted) == {wanted[n] : n \in 1 .. Len(wanted)}

LEMMA SkillsAre ==
  ASSUME NEW S, NEW c, c.skillSize \in [S -> Nat], NEW decision, SkillLimit(c, decision) \in Nat,
         Len(Wanted(c, decision)) \in Nat,
         \A n \in 1 .. Len(Wanted(c, decision)) : Wanted(c, decision)[n].id \in S
  PROVE  \E t : /\ SkillsInOrder(c, SkillLimit(c, decision), Wanted(c, decision), t)
                /\ \A n \in 0 .. Len(Wanted(c, decision)) : t[n] \in SkillTakings(S, Offers(Wanted(c, decision)))
                /\ SkillItems(c, decision) = t[Len(Wanted(c, decision))]
<1>. DEFINE wanted == Wanted(c, decision)
            limit == SkillLimit(c, decision)
            N == Len(wanted)
            U == SkillTakings(S, Offers(wanted))
            skips(n) == n \notin Usable(c, wanted)
            step == [n \in 1 .. N |-> [acc \in U |-> IF skips(n) THEN acc ELSE TakeSkill(c, limit, acc, wanted[n])]]
            next(f, n) == IF n = 0 THEN NoSkills
                          ELSE IF skips(n) THEN f[n - 1] ELSE TakeSkill(c, limit, f[n - 1], wanted[n])
            is(f) == f = [n \in 0 .. N |-> next(f, n)]
<1>1. N \in Nat /\ limit \in Nat /\ \A n \in 1 .. N : wanted[n].id \in S /\ wanted[n] \in Offers(wanted)
  BY DEF Offers
<1>2. NoSkills \in U
  BY DEF NoSkills, SkillTakings
<1>3. SkillItems(c, decision) = LET taken[n \in 0 .. N] == next(taken, n) IN taken[N]
  BY DEF SkillItems, NoSkills, Usable
<1>. HIDE DEF wanted, limit, N, U
<1>5. step \in [1 .. N -> [U -> U]]
  <2>. SUFFICES ASSUME NEW n \in 1 .. N, NEW acc \in U
                PROVE  (IF skips(n) THEN acc ELSE TakeSkill(c, limit, acc, wanted[n])) \in U
    OBVIOUS
  <2>. HIDE DEF skips
  <2>1. TakeSkill(c, limit, acc, wanted[n]) \in U
    BY <1>1, TakeSkillIs DEF U
  <2>. QED
    BY <2>1
<1>6. ASSUME NEW n \in 1 .. N, NEW acc \in U
      PROVE  step[n][acc] = IF skips(n) THEN acc ELSE TakeSkill(c, limit, acc, wanted[n])
  OBVIOUS
<1>. HIDE DEF step, skips
<1>7. PICK f : Recurses(N, U, NoSkills, step, f)
  BY <1>1, <1>2, <1>5, Recursion
<1>8. is(f)
  <2>1. f \in [0 .. N -> U] /\ f[0] = NoSkills /\ \A n \in 1 .. N : f[n] = step[n][f[n - 1]]
    BY <1>7 DEF Recurses
  <2>2. ASSUME NEW n \in 0 .. N PROVE f[n] = next(f, n)
    <3>1. CASE n = 0
      BY <2>1, <3>1
    <3>2. CASE n # 0
      <4>1. n \in 1 .. N /\ n - 1 \in 0 .. N
        BY <1>1, <3>2
      <4>2. f[n - 1] \in U
        BY <2>1, <4>1
      <4>. QED
        BY <1>6, <2>1, <3>2, <4>1, <4>2
    <3>. QED
      BY <3>1, <3>2
  <2>3. f = [n \in 0 .. N |-> f[n]]
    BY <2>1
  <2>4. [n \in 0 .. N |-> f[n]] = [n \in 0 .. N |-> next(f, n)]
    BY <2>2
  <2>. QED
    BY <2>3, <2>4
<1>. DEFINE g == CHOOSE h : is(h)
<1>9. is(g)
  BY <1>8
<1>10. SkillItems(c, decision) = g[N]
  BY <1>3
<1>. HIDE DEF g
<1>11. /\ g[0] = NoSkills
       /\ \A n \in 1 .. N : g[n] = IF skips(n) THEN g[n - 1] ELSE TakeSkill(c, limit, g[n - 1], wanted[n])
  <2>1. ASSUME NEW n \in 0 .. N PROVE g[n] = next(g, n)
    BY <1>9
  <2>2. 0 \in 0 .. N /\ \A n \in 1 .. N : n \in 0 .. N /\ n # 0
    BY <1>1
  <2>. QED
    BY <2>1, <2>2
<1>12. \A n \in 0 .. N : g[n] \in U
  <2>1. \A n \in 1 .. N : g[n - 1] \in U => g[n] = step[n][g[n - 1]]
    BY <1>6, <1>11
  <2>. QED
    BY <1>1, <1>7, <1>11, <2>1, Follows
<1>13. SkillsInOrder(c, limit, wanted, g)
  BY <1>11 DEF SkillsInOrder, N, skips
<1>. QED
  BY <1>10, <1>12, <1>13 DEF wanted, limit, N, U

\* What has been taken and omitted of the first n.
SkillsSoFar(c, limit, wanted, n, acc) ==
  /\ \A i \in DOMAIN acc.items : /\ \E m \in 1 .. n : m \in Usable(c, wanted) /\ acc.items[i] = wanted[m].id
                                 /\ Loading(c, acc.items[i]) = "canonical"
  /\ \A i, j \in DOMAIN acc.items : acc.items[i] = acc.items[j] => i = j
  /\ \A m \in 1 .. n : m \in Usable(c, wanted) =>
       wanted[m] \in acc.omitted \/ \E i \in DOMAIN acc.items : acc.items[i] = wanted[m].id
  /\ acc.used <= limit

LEMMA NextSkill ==
  ASSUME NEW S, NEW c, c.skillSize \in [S -> Nat], NEW limit \in Nat, NEW wanted, Len(wanted) \in Nat,
         NEW n \in 1 .. Len(wanted), wanted[n].id \in S, n \in Usable(c, wanted),
         NEW acc \in SkillTakings(S, Offers(wanted)),
         SkillsSoFar(c, limit, wanted, n - 1, acc)
  PROVE  SkillsSoFar(c, limit, wanted, n, TakeSkill(c, limit, acc, wanted[n]))
<1>. DEFINE s == wanted[n]
            next == TakeSkill(c, limit, acc, s)
            L == Len(acc.items)
            usable == Usable(c, wanted)
<1>1. s \in Offers(wanted) /\ s.id \in S
  BY DEF Offers
<1>2. acc.items \in Seq(S) /\ L \in Nat /\ DOMAIN acc.items = 1 .. L
  BY SkillTakingIs
<1>3. /\ \A i \in 1 .. L : (\E m \in 1 .. n - 1 : m \in usable /\ acc.items[i] = wanted[m].id) /\ Loading(c, acc.items[i]) = "canonical"
      /\ \A i, j \in 1 .. L : acc.items[i] = acc.items[j] => i = j
      /\ \A m \in 1 .. n - 1 : m \in usable => wanted[m] \in acc.omitted \/ \E i \in 1 .. L : acc.items[i] = wanted[m].id
      /\ acc.used <= limit
  BY <1>2 DEF SkillsSoFar
<1>4. /\ \A m \in 1 .. n : m = n \/ m \in 1 .. n - 1
      /\ \A m \in 1 .. n - 1 : m \in 1 .. n
      /\ n \in 1 .. n
  OBVIOUS
<1>5. ASSUME NEW m \in 1 .. n - 1, m \in usable PROVE wanted[m].id # s.id
  <2>1. wanted[m].wanted
    BY <1>5 DEF Usable, Loaded
  <2>2. \A l \in 1 .. n - 1 : wanted[l].wanted => wanted[l].id # wanted[n].id
    BY DEF Usable, Loaded
  <2>. QED
    BY <1>5, <2>1, <2>2
<1>6. n \in usable
  OBVIOUS
<1>7. TakesSkill(c, limit, acc, s, next) \/ OmitsSkill(acc, s, next)
  BY <1>1, TakeSkillIs
<1>. HIDE DEF s, next, L, usable
<1>8. CASE TakesSkill(c, limit, acc, s, next)
  <2>1. next.items = Append(acc.items, s.id) /\ next.omitted = acc.omitted /\ next.used <= limit /\ Loading(c, s.id) = "canonical"
    BY <1>8 DEF TakesSkill
  <2>2. /\ DOMAIN next.items = 1 .. L + 1 /\ next.items[L + 1] = s.id
        /\ \A i \in 1 .. L : next.items[i] = acc.items[i]
        /\ \A i \in 1 .. L + 1 : i = L + 1 \/ i \in 1 .. L
        /\ L + 1 \in 1 .. L + 1 /\ \A i \in 1 .. L : i \in 1 .. L + 1
    <3>1. /\ DOMAIN next.items = 1 .. L + 1 /\ next.items[L + 1] = s.id
          /\ \A i \in 1 .. L : next.items[i] = acc.items[i]
      BY <1>1, <1>2, <2>1, AppendIs DEF L
    <3>2. L \in Nat
      BY <1>2
    <3>. QED
      BY <3>1, <3>2
  <2>3. ASSUME NEW i \in DOMAIN next.items
        PROVE  (\E m \in 1 .. n : m \in usable /\ next.items[i] = wanted[m].id) /\ Loading(c, next.items[i]) = "canonical"
    <3>1. CASE i = L + 1
      BY <1>4, <1>6, <2>1, <2>2, <3>1 DEF s
    <3>2. CASE i \in 1 .. L
      BY <1>3, <1>4, <2>2, <3>2
    <3>. QED
      BY <2>2, <3>1, <3>2
  <2>4. \A i, j \in DOMAIN next.items : next.items[i] = next.items[j] => i = j
    <3>1. \A i \in 1 .. L : acc.items[i] # s.id
      BY <1>3, <1>5
    <3>. QED
      BY <1>3, <2>2, <3>1
  <2>5. ASSUME NEW m \in 1 .. n, m \in usable
        PROVE  wanted[m] \in next.omitted \/ \E i \in DOMAIN next.items : next.items[i] = wanted[m].id
    <3>1. CASE m = n
      BY <2>2, <3>1 DEF s
    <3>2. CASE m \in 1 .. n - 1
      <4>1. CASE wanted[m] \in acc.omitted
        BY <2>1, <4>1
      <4>2. CASE \E i \in 1 .. L : acc.items[i] = wanted[m].id
        <5>1. PICK i \in 1 .. L : acc.items[i] = wanted[m].id
          BY <4>2
        <5>2. i \in DOMAIN next.items /\ next.items[i] = wanted[m].id
          BY <2>2, <5>1
        <5>. QED
          BY <5>2
      <4>. QED
        BY <1>3, <2>5, <3>2, <4>1, <4>2
    <3>. QED
      BY <1>4, <3>1, <3>2
  <2>. QED
    BY <2>1, <2>3, <2>4, <2>5 DEF SkillsSoFar, next, s, usable
<1>9. CASE OmitsSkill(acc, s, next)
  <2>1. next.items = acc.items /\ next.omitted = acc.omitted \cup {s} /\ next.used = acc.used
    BY <1>9 DEF OmitsSkill
  <2>2. \A m \in 1 .. n : m \in usable =>
          wanted[m] \in next.omitted \/ \E i \in DOMAIN next.items : next.items[i] = wanted[m].id
    BY <1>2, <1>3, <1>4, <2>1 DEF s
  <2>3. \A i \in DOMAIN next.items : (\E m \in 1 .. n : m \in usable /\ next.items[i] = wanted[m].id) /\ Loading(c, next.items[i]) = "canonical"
    BY <1>2, <1>3, <1>4, <2>1
  <2>. QED
    BY <1>2, <1>3, <2>1, <2>2, <2>3 DEF SkillsSoFar, next, s, usable
<1>. QED
  BY <1>7, <1>8, <1>9

LEMMA SkillsTaken ==
  ASSUME NEW S, NEW c, c.skillSize \in [S -> Nat], NEW decision, SkillLimit(c, decision) \in Nat,
         Len(Wanted(c, decision)) \in Nat,
         \A n \in 1 .. Len(Wanted(c, decision)) : Wanted(c, decision)[n].id \in S
  PROVE  /\ SkillItems(c, decision) \in SkillTakings(S, Offers(Wanted(c, decision)))
         /\ SkillsSoFar(c, SkillLimit(c, decision), Wanted(c, decision), Len(Wanted(c, decision)), SkillItems(c, decision))
<1>. DEFINE wanted == Wanted(c, decision)
            limit == SkillLimit(c, decision)
            N == Len(wanted)
            U == SkillTakings(S, Offers(wanted))
<1>1. N \in Nat /\ limit \in Nat /\ \A n \in 1 .. N : wanted[n].id \in S
  OBVIOUS
<1>2. PICK t : /\ SkillsInOrder(c, limit, wanted, t)
               /\ \A n \in 0 .. N : t[n] \in U
               /\ SkillItems(c, decision) = t[N]
  BY SkillsAre
<1>. HIDE DEF wanted, limit, N, U
<1>3. /\ t[0] = NoSkills
      /\ \A n \in 1 .. N : t[n] = IF n \notin Usable(c, wanted) THEN t[n - 1] ELSE TakeSkill(c, limit, t[n - 1], wanted[n])
  BY <1>2 DEF SkillsInOrder, N
<1>. DEFINE Good == {n \in 0 .. N : SkillsSoFar(c, limit, wanted, n, t[n])}
<1>4. 0 \in Good
  <2>1. NoSkills.items = <<>> /\ DOMAIN NoSkills.items = {} /\ NoSkills.used = 0 /\ 1 .. 0 = {}
    BY DEF NoSkills
  <2>2. SkillsSoFar(c, limit, wanted, 0, NoSkills)
    BY <1>1, <2>1 DEF SkillsSoFar
  <2>. QED
    BY <1>1, <1>3, <2>2
<1>5. ASSUME NEW n \in 0 .. N, n # 0, n - 1 \in Good PROVE n \in Good
  <2>1. n \in 1 .. N /\ n - 1 \in 0 .. N /\ SkillsSoFar(c, limit, wanted, n - 1, t[n - 1])
    BY <1>1, <1>5
  <2>2. CASE n \in Usable(c, wanted)
    <3>1. t[n] = TakeSkill(c, limit, t[n - 1], wanted[n])
      BY <1>3, <2>1, <2>2
    <3>2. t[n - 1] \in SkillTakings(S, Offers(wanted)) /\ wanted[n].id \in S /\ Len(wanted) \in Nat /\ n \in 1 .. Len(wanted)
      BY <1>1, <1>2, <2>1 DEF U, N
    <3>3. SkillsSoFar(c, limit, wanted, n, TakeSkill(c, limit, t[n - 1], wanted[n]))
      BY <1>1, <2>1, <2>2, <3>2, NextSkill
    <3>. QED
      BY <3>1, <3>3
  <2>3. CASE n \notin Usable(c, wanted)
    <3>1. t[n] = t[n - 1]
      BY <1>3, <2>1, <2>3
    <3>2. \A m \in 1 .. n : m = n \/ m \in 1 .. n - 1
      BY <2>1
    <3>3. \A m \in 1 .. n - 1 : m \in 1 .. n
      BY <2>1
    <3>4. SkillsSoFar(c, limit, wanted, n, t[n - 1])
      BY <2>1, <2>3, <3>2, <3>3 DEF SkillsSoFar
    <3>. QED
      BY <3>1, <3>4
  <2>. QED
    BY <2>2, <2>3
<1>6. N \in Good
  <2>. HIDE DEF Good
  <2>1. 0 .. N \subseteq Good
    BY <1>1, <1>4, <1>5, UpToN
  <2>. QED
    BY <1>1, <2>1
<1>7. N \in 0 .. N
  BY <1>1
<1>. QED
  BY <1>2, <1>6, <1>7 DEF wanted, limit, N, U

LEMMA LimitIs ==
  ASSUME NEW c, NEW decision, RouteOf(c, decision).budget \in Budgets
  PROVE  SkillLimit(c, decision) \in Nat /\ 2 * SkillLimit(c, decision) <= RouteOf(c, decision).budget["total"]
<1>. DEFINE total == RouteOf(c, decision).budget["total"]
            half == total \div 2
<1>1. total \in Nat /\ MaxSkillBytes \in Nat
  BY BudgetIs, RoutingAssumption
<1>. HIDE DEF total
<1>2. half \in Nat /\ 2 * half <= total
  BY <1>1
<1>3. SkillLimit(c, decision) = Min({MaxSkillBytes, half})
  BY DEF SkillLimit, total
<1>. HIDE DEF half
<1>4. Min({MaxSkillBytes, half}) \in Nat /\ Min({MaxSkillBytes, half}) <= half
  BY <1>1, <1>2, MinOfTwo
<1>. QED
  BY <1>1, <1>2, <1>3, <1>4 DEF total

\* A skill is wanted as one that is declared, or as an entry of the catalog.
WantedInOrder(S, c, decision) ==
  LET wanted == Wanted(c, decision)
      declared == DeclaredSkills(c, decision)
      D == Len(declared)
      E == Len(c.entries)
  IN /\ declared \in Seq(S) /\ D \in Nat /\ E \in Nat /\ DOMAIN c.entries = 1 .. E
     /\ Len(wanted) = D + E /\ DOMAIN wanted = 1 .. D + E
     /\ \A m \in 1 .. D : /\ wanted[m].id = declared[m] /\ declared[m] \in S /\ wanted[m].wanted /\ wanted[m].required
                          /\ wanted[m].blocked <=> EvaluationOnly(c, declared[m])
     /\ \A k \in 1 .. E : /\ wanted[D + k].id = c.entries[k].id /\ c.entries[k].id \in S
                          /\ wanted[D + k].wanted <=> k \in LeavesOf(c, decision)
                          /\ wanted[D + k].required <=> c.entries[k].level = "required"

LEMMA WantedIs ==
  ASSUME NEW P, NEW S, NEW N, NEW c \in Tasks(P, S, N), NEW decision, RouteOf(c, decision) \in RouteShapes(P, S)
  PROVE  WantedInOrder(S, c, decision)
<1>. DEFINE declared == DeclaredSkills(c, decision)
            entries == c.entries
            D == Len(declared)
            E == Len(entries)
            a(i) == [id |-> declared[i], wanted |-> TRUE, required |-> TRUE, blocked |-> EvaluationOnly(c, declared[i])]
            b(k) == [id |-> entries[k].id, wanted |-> k \in LeavesOf(c, decision),
                     required |-> entries[k].level = "required", blocked |-> FALSE]
            A == [i \in 1 .. D |-> a(i)]
            B == [k \in 1 .. E |-> b(k)]
            All == {a(i) : i \in 1 .. D} \cup {b(k) : k \in 1 .. E}
<1>1. declared \in Seq(S) /\ D \in Nat /\ DOMAIN declared = 1 .. D /\ \A i \in 1 .. D : declared[i] \in S
  <2>1. c.defaultSkills \in Seq(S) /\ RouteOf(c, decision).skills \in Seq(S)
    BY TaskIs, RouteIs
  <2>2. declared \in Seq(S)
    BY <2>1 DEF DeclaredSkills
  <2>. HIDE DEF declared
  <2>. QED
    BY <2>2
<1>2. E \in Nat /\ DOMAIN entries = 1 .. E /\ \A k \in 1 .. E : entries[k].id \in S
  <2>. DEFINE shapes == EntryShapes(S, N)
  <2>1. entries \in Seq(shapes) /\ \A e \in shapes : e.id \in S
    BY TaskIs DEF EntryShapes
  <2>. HIDE DEF shapes, entries
  <2>. QED
    BY <2>1
<1>3. Wanted(c, decision) = A \o B
  <2>1. Wanted(c, decision) = [i \in DOMAIN declared |-> a(i)] \o [k \in DOMAIN entries |-> b(k)]
    BY DEF Wanted
  <2>. QED
    BY <1>1, <1>2, <2>1
<1>. HIDE DEF declared, entries, D, E
<1>4. A \in Seq(All) /\ Len(A) = D /\ B \in Seq(All) /\ Len(B) = E
  <2>1. A \in [1 .. D -> All] /\ B \in [1 .. E -> All]
    <3>1. \A i \in 1 .. D : a(i) \in All
      OBVIOUS
    <3>2. \A k \in 1 .. E : b(k) \in All
      OBVIOUS
    <3>. HIDE DEF a, b, All
    <3>. QED
      BY <3>1, <3>2
  <2>. HIDE DEF A, B, All
  <2>2. A \in Seq(All) /\ B \in Seq(All)
    BY <1>1, <1>2, <2>1, IsASeq
  <2>3. DOMAIN A = 1 .. D /\ DOMAIN B = 1 .. E
    BY <2>1
  <2>. QED
    BY <1>1, <1>2, <2>2, <2>3, LenProperties
<1>5. (\A m \in 1 .. D : A[m] = a(m)) /\ (\A k \in 1 .. E : B[k] = b(k))
  OBVIOUS
<1>. HIDE DEF A, B, All
<1>6. /\ Len(A \o B) = D + E /\ DOMAIN (A \o B) = 1 .. D + E
      /\ \A m \in 1 .. D : (A \o B)[m] = A[m]
      /\ \A k \in 1 .. E : (A \o B)[D + k] = B[k]
  <2>. DEFINE AB == A \o B
  <2>1. Joined(All, A, B, AB)
    BY <1>4, ConcatIs
  <2>. HIDE DEF AB
  <2>2. /\ Len(AB) = D + E /\ DOMAIN AB = 1 .. D + E
        /\ \A m \in 1 .. D : AB[m] = A[m]
        /\ \A k \in 1 .. E : AB[D + k] = B[k]
    BY <1>4, <2>1 DEF Joined
  <2>. QED
    BY <2>2 DEF AB
<1>7. \A m \in 1 .. D : /\ (A \o B)[m].id = declared[m] /\ (A \o B)[m].wanted /\ (A \o B)[m].required
                        /\ (A \o B)[m].blocked <=> EvaluationOnly(c, declared[m])
  <2>. SUFFICES ASSUME NEW m \in 1 .. D
                PROVE  /\ (A \o B)[m].id = declared[m] /\ (A \o B)[m].wanted /\ (A \o B)[m].required
                       /\ (A \o B)[m].blocked <=> EvaluationOnly(c, declared[m])
    OBVIOUS
  <2>1. (A \o B)[m] = a(m)
    BY <1>5, <1>6
  <2>2. a(m).id = declared[m] /\ a(m).wanted = TRUE /\ a(m).required = TRUE /\ a(m).blocked = EvaluationOnly(c, declared[m])
    BY Zenon
  <2>. HIDE DEF a
  <2>. QED
    BY <2>1, <2>2, Zenon
<1>8. \A k \in 1 .. E : /\ (A \o B)[D + k].id = entries[k].id
                        /\ (A \o B)[D + k].wanted <=> k \in LeavesOf(c, decision)
                        /\ (A \o B)[D + k].required <=> entries[k].level = "required"
  <2>. SUFFICES ASSUME NEW k \in 1 .. E
                PROVE  /\ (A \o B)[D + k].id = entries[k].id
                       /\ (A \o B)[D + k].wanted <=> k \in LeavesOf(c, decision)
                       /\ (A \o B)[D + k].required <=> entries[k].level = "required"
    OBVIOUS
  <2>1. (A \o B)[D + k] = b(k)
    BY <1>5, <1>6
  <2>2. /\ b(k).id = entries[k].id /\ b(k).wanted = (k \in LeavesOf(c, decision))
        /\ b(k).required = (entries[k].level = "required")
    BY Zenon
  <2>. HIDE DEF b
  <2>. QED
    BY <2>1, <2>2, Zenon
<1>. QED
  BY <1>1, <1>2, <1>3, <1>6, <1>7, <1>8 DEF WantedInOrder, declared, entries, D, E

\* An identifier is one entry's.
LEMMA EntryIs ==
  ASSUME NEW c, CatalogValid(c)
  PROVE  /\ \A j, k \in Indexed(c) : c.entries[j].id = c.entries[k].id => j = k
         /\ \A k \in Indexed(c) : EntryOf(c, c.entries[k].id) = c.entries[k]
<1>1. \A j, k \in Indexed(c) : c.entries[j].id = c.entries[k].id => j = k
  BY DEF CatalogValid
<1>2. ASSUME NEW k \in Indexed(c) PROVE EntryOf(c, c.entries[k].id) = c.entries[k]
  <2>. DEFINE j == CHOOSE j \in Indexed(c) : c.entries[j].id = c.entries[k].id
  <2>1. j \in Indexed(c) /\ c.entries[j].id = c.entries[k].id
    OBVIOUS
  <2>2. EntryOf(c, c.entries[k].id) = c.entries[j]
    BY DEF EntryOf
  <2>. HIDE DEF j
  <2>. QED
    BY <1>1, <2>1, <2>2
<1>. QED
  BY <1>1, <1>2

\* What nothing blocks.
LEMMA NothingBlocks ==
  ASSUME NEW c, NEW decision, Blockers(c, decision) = {}
  PROVE  LET wanted == Wanted(c, decision)
         IN /\ decision.outcome = "matched"
            /\ \A o \in ContextItems(c, decision).omitted : o.group = "expansion"
            /\ \A n \in Loaded(wanted) : ~wanted[n].blocked /\ Loading(c, wanted[n].id) \notin {"missing", "stale"}
            /\ \A s \in SkillItems(c, decision).omitted : ~s.required
            /\ Conflicting(c, LeavesOf(c, decision)) = {}
<1>. DEFINE wanted == Wanted(c, decision)
            gone == {n \in Loaded(wanted) : wanted[n].blocked \/ Loading(c, wanted[n].id) \in {"missing", "stale"}}
            A == {<<"context", s.path>> : s \in {o \in ContextItems(c, decision).omitted : o.group # "expansion"}}
            B == {<<"skill", wanted[n].id>> : n \in gone}
            C == {<<"budget", s.id>> : s \in {o \in SkillItems(c, decision).omitted : o.required}}
            E == {<<"conflict", c.entries[pair[1]].id>> : pair \in Conflicting(c, LeavesOf(c, decision))}
            F == IF decision.outcome = "matched" THEN {} ELSE {<<"route", decision.outcome>>}
<1>1. A = {} /\ B = {} /\ C = {} /\ E = {} /\ F = {}
  BY DEF Blockers
<1>2. \A o \in ContextItems(c, decision).omitted : o.group = "expansion"
  BY <1>1
<1>3. gone = {}
  <2>. HIDE DEF gone
  <2>. QED
    BY <1>1
<1>4. \A s \in SkillItems(c, decision).omitted : ~s.required
  BY <1>1
<1>5. Conflicting(c, LeavesOf(c, decision)) = {}
  BY <1>1
<1>6. decision.outcome = "matched"
  BY <1>1
<1>. QED
  BY <1>2, <1>3, <1>4, <1>5, <1>6

\* What a required skill that is wanted comes to when nothing blocks, and what is
\* known of one that came.
SkillsComplete(c, decision) ==
  LET wanted == Wanted(c, decision)
      items == SkillItems(c, decision).items
  IN /\ \A n \in Loaded(wanted) : wanted[n].required => \E i \in DOMAIN items : items[i] = wanted[n].id
     /\ \A i \in DOMAIN items : /\ \E m \in Loaded(wanted) : items[i] = wanted[m].id
                                /\ Loading(c, items[i]) = "canonical"
     /\ \A i, j \in DOMAIN items : items[i] = items[j] => i = j

LEMMA SkillsHold ==
  ASSUME NEW P, NEW S, NEW N, NEW c \in Tasks(P, S, N), NEW decision, RouteOf(c, decision) \in RouteShapes(P, S)
  PROVE  /\ 2 * SkillItems(c, decision).used <= RouteOf(c, decision).budget["total"]
         /\ Blockers(c, decision) = {} => SkillsComplete(c, decision)
<1>. DEFINE wanted == Wanted(c, decision)
            limit == SkillLimit(c, decision)
            all == SkillItems(c, decision)
            budget == RouteOf(c, decision).budget
            L == Len(wanted)
<1>1. c.skillSize \in [S -> Nat] /\ c.files \in [S -> FileKinds] /\ budget \in Budgets
  BY TaskIs, RouteIs
<1>2. limit \in Nat /\ 2 * limit <= budget["total"] /\ budget["total"] \in Nat
  BY <1>1, LimitIs, BudgetIs
<1>3. L \in Nat /\ DOMAIN wanted = 1 .. L /\ \A n \in 1 .. L : wanted[n].id \in S
  <2>. DEFINE declared == DeclaredSkills(c, decision)
              D == Len(declared)
              E == Len(c.entries)
  <2>1. /\ D \in Nat /\ E \in Nat /\ L = D + E /\ DOMAIN wanted = 1 .. D + E
        /\ \A m \in 1 .. D : wanted[m].id \in S
        /\ \A k \in 1 .. E : wanted[D + k].id \in S
    <3>1. WantedInOrder(S, c, decision)
      BY WantedIs
    <3>. QED
      BY <3>1 DEF WantedInOrder
  <2>. HIDE DEF declared, D, E, wanted, L
  <2>2. ASSUME NEW n \in 1 .. L PROVE wanted[n].id \in S
    <3>1. CASE n <= D
      BY <2>1, <3>1
    <3>2. CASE ~(n <= D)
      <4>1. n - D \in 1 .. E /\ D + (n - D) = n
        BY <2>1, <3>2
      <4>. QED
        BY <2>1, <4>1
    <3>. QED
      BY <3>1, <3>2
  <2>. QED
    BY <2>1, <2>2
<1>4. all \in SkillTakings(S, Offers(wanted)) /\ SkillsSoFar(c, limit, wanted, L, all)
  BY <1>1, <1>2, <1>3, SkillsTaken
<1>. HIDE DEF wanted, limit, all, budget, L
<1>5. /\ \A i \in DOMAIN all.items : (\E m \in 1 .. L : m \in Usable(c, wanted) /\ all.items[i] = wanted[m].id)
                                     /\ Loading(c, all.items[i]) = "canonical"
      /\ \A i, j \in DOMAIN all.items : all.items[i] = all.items[j] => i = j
      /\ \A m \in 1 .. L : m \in Usable(c, wanted) =>
           wanted[m] \in all.omitted \/ \E i \in DOMAIN all.items : all.items[i] = wanted[m].id
      /\ all.used <= limit
  BY <1>4 DEF SkillsSoFar
<1>6. 2 * all.used <= budget["total"]
  <2>1. all.used \in Nat
    BY <1>4, SkillTakingIs
  <2>. QED
    BY <1>2, <1>5, <2>1
<1>7. ASSUME Blockers(c, decision) = {} PROVE SkillsComplete(c, decision)
  <2>1. /\ \A n \in Loaded(wanted) : ~wanted[n].blocked /\ Loading(c, wanted[n].id) \notin {"missing", "stale"}
        /\ \A s \in all.omitted : ~s.required
    BY <1>7, NothingBlocks DEF wanted, all
  <2>2. ASSUME NEW n \in Loaded(wanted), wanted[n].required
        PROVE  \E i \in DOMAIN all.items : all.items[i] = wanted[n].id
    <3>1. n \in 1 .. L /\ wanted[n].id \in S
      BY <1>3 DEF Loaded
    <3>2. Loading(c, wanted[n].id) \in FileKinds
      BY <1>1, <3>1 DEF Loading, FileKinds
    <3>3. Loading(c, wanted[n].id) \in {"canonical", "large"}
      BY <2>1, <3>2 DEF FileKinds
    <3>4. n \in Usable(c, wanted)
      BY <2>1, <3>3 DEF Usable
    <3>. QED
      BY <1>5, <2>1, <2>2, <3>1, <3>4
  <2>3. \A i \in DOMAIN all.items : (\E m \in Loaded(wanted) : all.items[i] = wanted[m].id)
                                    /\ Loading(c, all.items[i]) = "canonical"
    BY <1>5 DEF Usable
  <2>. QED
    BY <1>5, <2>2, <2>3 DEF SkillsComplete, wanted, all
<1>. QED
  BY <1>6, <1>7 DEF all, budget

\* What is wanted is wanted first somewhere.
LEMMA FirstWanted ==
  ASSUME NEW wanted, NEW L \in Nat, DOMAIN wanted = 1 .. L, NEW n \in 1 .. L, wanted[n].wanted
  PROVE  \E m \in Loaded(wanted) : m <= n /\ wanted[m].id = wanted[n].id
<1>. DEFINE same == {m \in 1 .. L : wanted[m].wanted /\ wanted[m].id = wanted[n].id}
<1>1. PICK m \in same : \A l \in same : m <= l
  <2>1. same \in SUBSET Nat /\ n \in same
    OBVIOUS
  <2>. HIDE DEF same
  <2>. QED
    BY <2>1, Smallest
<1>2. m <= n /\ m \in 1 .. L
  BY <1>1
<1>3. ASSUME NEW l \in 1 .. m - 1, wanted[l].wanted, wanted[l].id = wanted[m].id PROVE FALSE
  <2>1. l \in same /\ ~(m <= l)
    BY <1>1, <1>2, <1>3
  <2>. QED
    BY <1>1, <2>1
<1>4. m \in Loaded(wanted)
  BY <1>1, <1>3 DEF Loaded
<1>. QED
  BY <1>1, <1>2, <1>4

\* What is wanted first is declared, or a leaf.
LEMMA WantedFrom ==
  ASSUME NEW P, NEW S, NEW N, NEW c \in Tasks(P, S, N), NEW decision, RouteOf(c, decision) \in RouteShapes(P, S),
         NEW n \in Loaded(Wanted(c, decision))
  PROVE  LET declared == DeclaredSkills(c, decision)
             id == Wanted(c, decision)[n].id
         IN \/ /\ id \in ToSet(declared) /\ n <= Len(declared) /\ Wanted(c, decision)[n].required
               /\ Wanted(c, decision)[n].blocked <=> EvaluationOnly(c, id)
            \/ \E k \in LeavesOf(c, decision) :
                 /\ id = c.entries[k].id /\ ~(n <= Len(declared))
                 /\ Wanted(c, decision)[n].required <=> c.entries[k].level = "required"
<1>. DEFINE wanted == Wanted(c, decision)
            declared == DeclaredSkills(c, decision)
            D == Len(declared)
            E == Len(c.entries)
<1>1. /\ declared \in Seq(S) /\ D \in Nat /\ E \in Nat /\ DOMAIN wanted = 1 .. D + E
      /\ \A m \in 1 .. D : /\ wanted[m].id = declared[m] /\ wanted[m].required
                           /\ wanted[m].blocked <=> EvaluationOnly(c, declared[m])
      /\ \A k \in 1 .. E : /\ wanted[D + k].id = c.entries[k].id
                           /\ wanted[D + k].wanted <=> k \in LeavesOf(c, decision)
                           /\ wanted[D + k].required <=> c.entries[k].level = "required"
  <2>1. WantedInOrder(S, c, decision)
    BY WantedIs
  <2>. QED
    BY <2>1 DEF WantedInOrder
<1>2. n \in DOMAIN wanted /\ wanted[n].wanted
  BY DEF Loaded
<1>3. DOMAIN declared = 1 .. D
  <2>. HIDE DEF declared
  <2>. QED
    BY <1>1
<1>. HIDE DEF wanted, declared, D, E
<1>4. CASE n <= D
  <2>1. n \in 1 .. D
    BY <1>1, <1>2, <1>4
  <2>2. declared[n] \in ToSet(declared)
    BY <1>3, <2>1 DEF ToSet
  <2>. QED
    BY <1>1, <1>4, <2>1, <2>2 DEF wanted, declared, D
<1>5. CASE ~(n <= D)
  <2>1. n - D \in 1 .. E /\ D + (n - D) = n
    BY <1>1, <1>2, <1>5
  <2>. QED
    <3>. DEFINE k == n - D
    <3>1. k \in 1 .. E /\ D + k = n
      BY <2>1
    <3>. HIDE DEF k
    <3>2. /\ wanted[n].id = c.entries[k].id /\ k \in LeavesOf(c, decision)
          /\ wanted[n].required <=> c.entries[k].level = "required"
      BY <1>1, <1>2, <3>1
    <3>. QED
      BY <1>5, <3>2 DEF wanted, declared, D
<1>. QED
  BY <1>4, <1>5

\* The part of a packet that holds skills.
SkillsKept(c, route, named, items) ==
  LET skills == ToSet(items)
      declared == ToSet(named)
      leaves == {id \in skills : Packaged(c, id) /\ id \notin declared}
  IN /\ declared \subseteq skills /\ IsInjective(items)
     /\ \A id \in skills : Packaged(c, id) =>
          c.files[id] = "canonical" /\ (EntryOf(c, id).mode = "evaluation-only" => c.evaluation)
     /\ \A id, other \in leaves : other \notin EntryOf(c, id).conflicts
     /\ \A k \in Indexed(c) :
          /\ c.entries[k].level = "required" /\ c.entries[k].pack \in LedPacks(c, route) /\ c.facts
          /\ Evaluated(c, c.entries[k]) = "selected"
          => c.entries[k].id \in skills

LEMMA SkillsOfPacket ==
  ASSUME NEW P, NEW S, NEW N, NEW c \in Tasks(P, S, N), NEW decision, RouteOf(c, decision) \in RouteShapes(P, S),
         CatalogValid(c), Blockers(c, decision) = {}
  PROVE  SkillsKept(c, RouteOf(c, decision), DeclaredSkills(c, decision), SkillItems(c, decision).items)
<1>. DEFINE wanted == Wanted(c, decision)
            items == SkillItems(c, decision).items
            skills == ToSet(items)
            named == DeclaredSkills(c, decision)
            D == Len(named)
            E == Len(c.entries)
            declared == ToSet(named)
            leaves == {id \in skills : Packaged(c, id) /\ id \notin declared}
            leaf(k) == k \in LeavesOf(c, decision)
<1>1. /\ named \in Seq(S) /\ D \in Nat /\ E \in Nat /\ DOMAIN c.entries = 1 .. E
      /\ DOMAIN wanted = 1 .. D + E
      /\ \A m \in 1 .. D : wanted[m].id = named[m] /\ wanted[m].wanted
      /\ \A k \in 1 .. E : wanted[D + k].id = c.entries[k].id /\ (leaf(k) => wanted[D + k].wanted)
  <2>1. WantedInOrder(S, c, decision)
    BY WantedIs
  <2>. QED
    BY <2>1 DEF WantedInOrder
<1>2. /\ \A n \in Loaded(wanted) : wanted[n].required => \E i \in DOMAIN items : items[i] = wanted[n].id
      /\ \A i \in DOMAIN items : /\ \E m \in Loaded(wanted) : items[i] = wanted[m].id
                                 /\ Loading(c, items[i]) = "canonical"
      /\ \A i, j \in DOMAIN items : items[i] = items[j] => i = j
  BY SkillsHold DEF SkillsComplete
<1>3. /\ decision.outcome = "matched"
      /\ \A n \in Loaded(wanted) : ~wanted[n].blocked
      /\ Conflicting(c, LeavesOf(c, decision)) = {}
  BY NothingBlocks
<1>4. \A n \in Loaded(wanted) :
        \/ /\ wanted[n].id \in declared /\ n <= D /\ wanted[n].required
           /\ wanted[n].blocked <=> EvaluationOnly(c, wanted[n].id)
        \/ \E k \in LeavesOf(c, decision) :
             wanted[n].id = c.entries[k].id /\ ~(n <= D) /\ (wanted[n].required <=> c.entries[k].level = "required")
  BY WantedFrom
<1>5. /\ \A j, k \in Indexed(c) : c.entries[j].id = c.entries[k].id => j = k
      /\ \A k \in Indexed(c) : EntryOf(c, c.entries[k].id) = c.entries[k]
  BY EntryIs
<1>6. \A k \in LeavesOf(c, decision) : k \in Indexed(c) /\ Evaluated(c, c.entries[k]) = "selected"
  BY DEF LeavesOf, Attached
<1>7. DOMAIN named = 1 .. D
  <2>. HIDE DEF named
  <2>. QED
    BY <1>1
<1>8. Indexed(c) \subseteq 1 .. E
  BY <1>1 DEF Indexed
<1>. HIDE DEF wanted, items, named, D, E
<1>9. ASSUME NEW id \in declared PROVE id \in skills
  <2>1. PICK m \in 1 .. D : id = named[m]
    BY <1>7 DEF ToSet
  <2>2. m \in 1 .. D + E /\ D + E \in Nat
    BY <1>1
  <2>3. PICK n \in Loaded(wanted) : n <= m /\ wanted[n].id = wanted[m].id
    BY <1>1, <2>2, FirstWanted
  <2>4. n \in 1 .. D + E
    BY <1>1 DEF Loaded
  <2>5. n <= D
    BY <1>1, <2>3, <2>4
  <2>6. \E i \in DOMAIN items : items[i] = wanted[n].id
    BY <1>2, <1>4, <2>5
  <2>7. wanted[n].id = id
    BY <1>1, <2>1, <2>3
  <2>. QED
    BY <2>6, <2>7 DEF ToSet
<1>10. ASSUME NEW id \in skills
       PROVE  /\ Loading(c, id) = "canonical"
              /\ \/ id \in declared /\ ~EvaluationOnly(c, id)
                 \/ \E k \in LeavesOf(c, decision) : id = c.entries[k].id
  <2>1. PICK i \in DOMAIN items : items[i] = id
    BY DEF ToSet
  <2>2. PICK m \in Loaded(wanted) : id = wanted[m].id
    BY <1>2, <2>1
  <2>. QED
    BY <1>2, <1>3, <1>4, <2>1, <2>2
<1>11. ASSUME NEW id \in skills, Packaged(c, id)
       PROVE  c.files[id] = "canonical" /\ (EntryOf(c, id).mode = "evaluation-only" => c.evaluation)
  <2>1. c.files[id] = "canonical"
    BY <1>10, <1>11 DEF Loading
  <2>2. CASE id \in declared /\ ~EvaluationOnly(c, id)
    BY <1>11, <2>1, <2>2 DEF EvaluationOnly
  <2>3. CASE \E k \in LeavesOf(c, decision) : id = c.entries[k].id
    <3>1. PICK k \in LeavesOf(c, decision) : id = c.entries[k].id
      BY <2>3
    <3>2. EntryOf(c, id) = c.entries[k] /\ Evaluated(c, c.entries[k]) = "selected"
      BY <1>5, <1>6, <3>1
    <3>3. ~(c.entries[k].mode = "evaluation-only" /\ ~c.evaluation)
      BY <3>2 DEF Evaluated
    <3>. QED
      BY <2>1, <3>2, <3>3
  <2>. QED
    BY <1>10, <2>2, <2>3
<1>12. ASSUME NEW id \in leaves, NEW other \in leaves, other \in EntryOf(c, id).conflicts PROVE FALSE
  <2>1. PICK k \in LeavesOf(c, decision) : id = c.entries[k].id
    BY <1>10
  <2>2. PICK l \in LeavesOf(c, decision) : other = c.entries[l].id
    BY <1>10
  <2>3. c.entries[l].id \in c.entries[k].conflicts
    BY <1>5, <1>6, <1>12, <2>1, <2>2
  <2>4. <<k, l>> \in Conflicting(c, LeavesOf(c, decision))
    BY <2>3 DEF Conflicting
  <2>. QED
    BY <1>3, <2>4
<1>13. ASSUME NEW k \in Indexed(c), c.entries[k].level = "required", c.entries[k].pack \in LedPacks(c, RouteOf(c, decision)),
              c.facts, Evaluated(c, c.entries[k]) = "selected"
       PROVE  c.entries[k].id \in skills
  <2>1. k \in LeavesOf(c, decision)
    BY <1>3, <1>13 DEF LeavesOf, Attached
  <2>2. k \in 1 .. E /\ D + k \in 1 .. D + E /\ D + E \in Nat
    BY <1>1, <1>8
  <2>3. wanted[D + k].wanted /\ wanted[D + k].id = c.entries[k].id
    BY <1>1, <2>1, <2>2
  <2>4. PICK n \in Loaded(wanted) : wanted[n].id = wanted[D + k].id
    <3>. DEFINE place == D + k
                L == D + E
    <3>1. L \in Nat /\ DOMAIN wanted = 1 .. L /\ place \in 1 .. L /\ wanted[place].wanted
      BY <1>1, <2>2, <2>3
    <3>. HIDE DEF place, L
    <3>2. \E n \in Loaded(wanted) : n <= place /\ wanted[n].id = wanted[place].id
      BY <3>1, FirstWanted
    <3>. QED
      BY <3>2 DEF place
  <2>5. wanted[n].required
    BY <1>4, <1>5, <1>6, <1>13, <2>1, <2>3, <2>4
  <2>6. \E i \in DOMAIN items : items[i] = wanted[n].id
    BY <1>2, <2>5
  <2>. QED
    BY <2>3, <2>4, <2>6 DEF ToSet
<1>14. IsInjective(items)
  BY <1>2 DEF IsInjective
<1>. QED
  BY <1>9, <1>11, <1>12, <1>13, <1>14 DEF items, named, SkillsKept

-----------------------------------------------------------------------------
(* The packet *)

LEMMA PacketRoute ==
  ASSUME NEW P, NEW S, NEW N, NEW c \in Tasks(P, S, N)
  PROVE  /\ RouteOf(c, SelectRoute(c)) \in RouteShapes(P, S)
         /\ RouteOf(c, SelectRoute(c)) =
              IF SelectRoute(c).route = 0 THEN NoRoute ELSE c.routes[SelectRoute(c).route]
  BY SelectionIs, RoutesAre DEF RouteOf

\* Whatever the profile, the catalog and the checkout, a packet that passes is the
\* whole of what its task needs: the best route and no other as good, every required
\* source and skill as published, nothing twice, no two composed skills that exclude
\* each other, within every bound (resolve_context, select_context_items,
\* select_skills).
THEOREM PacketIsComplete ==
  ASSUME NEW P, NEW S, NEW N, NEW c \in Tasks(P, S, N)
  PROVE  PacketComplete(c)
<1>. DEFINE decision == SelectRoute(c)
            route == RouteOf(c, decision)
            context == ContextItems(c, decision)
            all == SkillItems(c, decision)
            made == PacketAlong(c, decision)
<1>1. CASE CatalogValid(c)
  <2>1. /\ made.status = (IF Blockers(c, decision) = {} THEN "passed" ELSE "blocked")
        /\ made.route = decision.route /\ made.items = context.items /\ made.skills = all.items
        /\ made.bytes = context.used["total"] /\ made.skillBytes = all.used
    BY <1>1 DEF PacketAlong
  <2>2. route \in RouteShapes(P, S) /\ route = IF made.route = 0 THEN NoRoute ELSE c.routes[made.route]
    <3>. HIDE DEF made
    <3>. QED
      BY <2>1, PacketRoute
  <2>3. /\ \A g \in Groups : BytesIn(c, made.items, g) <= route.budget[g]
        /\ made.bytes <= route.budget["total"]
        /\ \A i, j \in DOMAIN made.items : made.items[i].path = made.items[j].path => i = j
        /\ \A i \in DOMAIN made.items : c.size[made.items[i].path] > 0
        /\ (\A o \in context.omitted : o.group = "expansion") =>
             ToSet(RequiredSources(c, route)) \subseteq {made.items[i].path : i \in DOMAIN made.items}
    <3>. HIDE DEF made
    <3>. QED
      BY <2>1, <2>2, ContextHolds
  <2>4. 2 * made.skillBytes <= route.budget["total"]
    <3>. HIDE DEF made
    <3>. QED
      BY <2>1, <2>2, SkillsHold
  <2>5. ASSUME made.status = "passed"
        PROVE  /\ made.route # 0
               /\ c.secondaries > 0 =>
                    \A i \in DOMAIN c.routes : i # made.route => RouteScore(c.routes[i]) < RouteScore(route)
               /\ ToSet(RequiredSources(c, route)) \subseteq {made.items[i].path : i \in DOMAIN made.items}
               /\ SkillsKept(c, route, c.defaultSkills \o route.skills, made.skills)
    <3>1. Blockers(c, decision) = {}
      BY <2>1, <2>5
    <3>2. decision.outcome = "matched" /\ \A o \in context.omitted : o.group = "expansion"
      BY <3>1, NothingBlocks
    <3>3. /\ decision.route \in DOMAIN c.routes
          /\ c.secondaries > 0 =>
               \A i \in DOMAIN c.routes :
                 i # decision.route => RouteScore(c.routes[i]) < RouteScore(c.routes[decision.route])
      BY <3>2, SelectionIs
    <3>4. made.route # 0 /\ route = c.routes[decision.route]
      <4>1. decision.route # 0
        BY <3>3, RoutesAre
      <4>. HIDE DEF made
      <4>. QED
        BY <2>1, <2>2, <4>1
    <3>5. SkillsKept(c, route, DeclaredSkills(c, decision), all.items)
      <4>. HIDE DEF decision
      <4>. QED
        BY <1>1, <2>2, <3>1, SkillsOfPacket
    <3>6. DeclaredSkills(c, decision) = c.defaultSkills \o route.skills
      BY DEF DeclaredSkills
    <3>. HIDE DEF made, decision, route, context, all
    <3>7. SkillsKept(c, route, c.defaultSkills \o route.skills, made.skills)
      BY <2>1, <3>5, <3>6
    <3>. QED
      BY <2>1, <2>3, <3>2, <3>3, <3>4, <3>7
  <2>. HIDE DEF made
  <2>6. CompletePacket(c, made)
    BY <2>2, <2>3, <2>4, <2>5 DEF CompletePacket, RequiredSources, SkillsKept
  <2>. QED
    BY <2>6 DEF PacketComplete, ResolveContext, made
<1>2. CASE ~CatalogValid(c)
  <2>1. made = [status |-> "failed", route |-> 0, items |-> <<>>, skills |-> <<>>, bytes |-> 0, skillBytes |-> 0]
    BY <1>2 DEF PacketAlong
  <2>2. \A g \in Groups : BytesIn(c, made.items, g) = 0
    BY <2>1, BytesOfNone
  <2>3. NoRoute.budget \in Budgets
    BY RoutesAre, RouteIs
  <2>4. (\A g \in Groups : NoRoute.budget[g] \in Nat) /\ NoRoute.budget["total"] \in Nat
    BY <2>3, BudgetIs
  <2>5. made.route = 0 /\ made.bytes = 0 /\ made.skillBytes = 0 /\ made.status # "passed"
    BY <2>1
  <2>. HIDE DEF made
  <2>6. CompletePacket(c, made)
    BY <2>2, <2>4, <2>5 DEF CompletePacket
  <2>. QED
    BY <2>6 DEF PacketComplete, ResolveContext, made
<1>. QED
  BY <1>1, <1>2

(*****************************************************************************)
(* The inputs that are tried                                                 *)
(*****************************************************************************)

\* The input is one of those tried, and stays.
InputTried ==
  /\ part = "task" => input \in MCTasks
  /\ part = "graph" => input \in MCGraphs
  /\ part = "release" => input \in MCDiscoveries

LEMMA InputStays == MCSpec => []InputTried
<1>. DEFINE everything == <<vars, logVars, contextVars, enableVars, corpusVars, registryVars, part, input>>
<1>1. MCInit => InputTried
  BY DEF MCInit, InputTried
<1>2. InputTried /\ [MCNext]_everything => InputTried'
  <2>1. ASSUME [MCNext]_everything PROVE UNCHANGED <<part, input>>
    BY <2>1 DEF MCNext
  <2>. QED
    BY <2>1 DEF InputTried
<1>. QED
  BY <1>1, <1>2, PTL DEF MCSpec

\* Of every listing and every kept answer that the run tries, a startup adopts what
\* its owner authorized (_candidate, _discover, discover).
THEOREM EveryAdoptionIsAuthorized == MCSpec => []AdoptionsAuthorized
<1>1. InputTried => AdoptionsAuthorized
  BY AdoptionIsAuthorized, InputAssumption DEF InputTried, AdoptionsAuthorized
<1>. QED
  BY <1>1, InputStays, PTL

\* Every graph that the run tries and that passes has a proven route at every target
\* (validate_area, _validate_target, kmp_surface_doctor_findings).
THEOREM EveryGraphIsProven == MCSpec => []GraphsProven
<1>1. ASSUME InputTried PROVE GraphsProven
  <2>. SUFFICES ASSUME part = "graph" PROVE SurfacesProven(input)
    BY DEF GraphsProven
  <2>1. input \in GraphShapes({"r1", "r2"}, {"c1", "c2"}, {"android", "ios", "elsewhere"}, {"area", "other"}, {"kmp", "mine"})
    BY <1>1, InputAssumption DEF InputTried
  <2>. QED
    BY <2>1, SurfacesAreProven
<1>. QED
  BY <1>1, InputStays, PTL

\* Every packet that the run resolves and that passes is the whole of what its task
\* needs (resolve_context, select_context_items, select_skills).
THEOREM EveryPacketIsComplete == MCSpec => []PacketsComplete
<1>. DEFINE names == MCSkillIds \cup {"pack", "none", "elsewhere", "other"}
<1>1. MCTasks \subseteq Tasks({"a", "b", "c"}, MCSkillIds, names)
  BY InputAssumption
<1>. HIDE DEF names
<1>2. ASSUME InputTried PROVE PacketsComplete
  <2>. SUFFICES ASSUME part = "task" PROVE PacketComplete(input)
    BY DEF PacketsComplete
  <2>1. input \in Tasks({"a", "b", "c"}, MCSkillIds, names)
    BY <1>1, <1>2 DEF InputTried
  <2>. QED
    BY <2>1, PacketIsComplete
<1>. QED
  BY <1>2, InputStays, PTL
=============================================================================
