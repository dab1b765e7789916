------------------------- MODULE DocumentationCorpus -------------------------
(***************************************************************************)
(* The developer documentation of a repository (documentation.py): docs    *)
(* init builds its structure one file at a time while people and another   *)
(* init work on the same tree, docs route finds the one capability a name  *)
(* stands for, the checker reports the defects of the corpus and the pack  *)
(* that runs it is selected by the paths the catalog names.                *)
(*                                                                         *)
(* profile is [kind, text, section]: which of the people's edits its text  *)
(* has, and what its documentation section says.  tree holds the files of  *)
(* the structure ("empty" is created and not yet written), records the     *)
(* capabilities of a catalog that is "kept".  A record is [id, aliases,    *)
(* symbols, reference, guides, sources, wellFormed].                       *)
(***************************************************************************)
EXTENDS Naturals, FiniteSets, Sequences

CONSTANTS
  Installers,      \* processes that run docs init, one after another each
  Catalogs,        \* the capabilities people write down: sequences of records
  Documents,       \* the paths that these records name
  MaxInstalls,     \* bound: installers started
  MaxProfileEdits, \* bound: edits of the profile
  MaxCatalogEdits  \* bound: edits of the catalog, of the index, and of which documents exist

ASSUME CatalogAssumption ==
  \A catalog \in Catalogs : Len(catalog) \in Nat /\ DOMAIN catalog = 1..Len(catalog)

VARIABLES profile, tree, records, lost, installer, installs, corpusEdits
corpusVars == <<profile, tree, records, lost, installer, installs, corpusEdits>>

Directories == {"root", "guides", "reference"}
StructureFiles == Directories \cup {"index", "catalog"}
Waiting == [at |-> "none", text |-> 0, adds |-> FALSE]
NoRecords == <<>>

CorpusInit ==
  /\ profile \in [kind : {"regular"}, text : {0}, section : {"none", "null", "enabled", "disabled", "invalid"}]
                 \cup {[kind |-> k, text |-> 0, section |-> "none"] : k \in {"absent", "odd"}}
  /\ \/ /\ tree \in {[f \in StructureFiles |-> "absent"], [[f \in StructureFiles |-> "absent"] EXCEPT !["root"] = "odd"]}
                  \cup {[f \in StructureFiles |-> IF f = "root" THEN "directory" ELSE IF f = odd THEN "odd" ELSE "absent"] :
                          odd \in StructureFiles}
        /\ records = NoRecords
     \/ /\ tree = [f \in StructureFiles |-> IF f \in Directories THEN "directory" ELSE "kept"]
        /\ records \in Catalogs
  /\ lost = {}
  /\ installer = [i \in Installers |-> Waiting] /\ installs = 0
  /\ corpusEdits = [profile |-> 0, corpus |-> 0]

-----------------------------------------------------------------------------
(* Readers of the profile and of the catalog. *)

\* load_documentation_config: "none" stands for no section, or an empty one.
Configured(p) ==
  CASE p.kind = "absent" -> "none" [] p.kind = "odd" -> "invalid"
    [] p.section = "null" -> "none" [] OTHER -> p.section

RecordPaths(record) == {record.reference} \cup record.guides \cup record.sources
Names(record) == {record.id} \cup record.aliases
\* _normalize_capability, with and without a look at the files.
WellFormedRecord(record, validatePaths) == record.wellFormed /\ (validatePaths => RecordPaths(record) \cap lost = {})
CatalogRead == tree["catalog"] \in {"default", "kept"}
CatalogLoads(validatePaths) == CatalogRead /\ \A c \in DOMAIN records : WellFormedRecord(records[c], validatePaths)

\* documentation_selection_paths, beside the profile: the corpus and what a
\* record that can be read names, whatever another record is like.
SelectionPathsExisting ==                                                  \* faulty
  IF Configured(profile) # "enabled" \/ ~CatalogRead THEN {}
  ELSE UNION {RecordPaths(records[c]) : c \in {d \in DOMAIN records : WellFormedRecord(records[d], TRUE)}}
SelectionPaths ==
  IF Configured(profile) # "enabled" \/ ~CatalogRead THEN {}
  ELSE UNION {RecordPaths(records[c]) : c \in {d \in DOMAIN records : WellFormedRecord(records[d], FALSE)}}

\* documentation_issues.
Issues ==
  CASE Configured(profile) = "invalid" -> {"configuration"}
    [] Configured(profile) \in {"none", "disabled"} -> {}
    [] OTHER ->
         (IF tree["index"] \in {"absent", "odd"} THEN {"index"} ELSE {})
         \cup IF ~CatalogLoads(TRUE) THEN {"catalog"}
              ELSE IF \E c, d \in DOMAIN records : c < d /\ (\/ Names(records[c]) \cap Names(records[d]) # {}
                                                             \/ records[c].symbols \cap records[d].symbols # {})
                   THEN {"route"} ELSE {}

\* route_documentation.
RouteAnswer(kind, query) ==
  LET matches == {c \in DOMAIN records : query \in IF kind = "symbol" THEN records[c].symbols ELSE Names(records[c])}
      answer(status, context) == [status |-> status, count |-> Cardinality(matches), context |-> context]
  IN CASE Configured(profile) \in {"none", "disabled"} -> answer("disabled", {})
       [] Configured(profile) = "invalid" \/ ~CatalogLoads(FALSE) -> answer("invalid", {})
       [] matches = {} -> answer("not-found", {})
       [] Cardinality(matches) > 1 -> answer("ambiguous", {})
       [] OTHER -> answer("matched", RecordPaths(records[CHOOSE c \in matches : TRUE]))

-----------------------------------------------------------------------------
(* docs init. *)

InTheWay == tree["root"] \notin {"absent", "directory"} \/ \E f \in StructureFiles : tree[f] = "odd"

\* _profile_install_plan, _target_plan: what is in the way is seen before
\* anything is written, and the text of the profile is kept for the end.
Plan(i) ==
  /\ installer[i].at = "none" /\ installs < MaxInstalls /\ installs' = installs + 1
  /\ IF \/ Configured(profile) \in {"invalid", "disabled"} \/ profile.section = "null" \/ InTheWay
     THEN UNCHANGED installer
     ELSE \E dryRun \in BOOLEAN :
            installer' = IF dryRun THEN installer
                         ELSE [installer EXCEPT ![i] = [at |-> "root", text |-> profile.text, adds |-> Configured(profile) = "none"]]
  /\ UNCHANGED <<profile, tree, records, lost, corpusEdits>>

After(at) == CASE at = "root" -> "guides" [] at = "guides" -> "reference" [] at = "reference" -> "index"
               [] at = "index" -> "catalog" [] at = "catalog" -> "profile"
Advances(i, at) == installer' = [installer EXCEPT ![i].at = at]
StopsInstalling(i) == installer' = [installer EXCEPT ![i] = Waiting]

MakeDirectory(i) ==
  LET d == installer[i].at IN
  /\ d \in Directories /\ Advances(i, After(d))
  /\ tree' = [tree EXCEPT ![d] = "directory"]
  /\ UNCHANGED <<profile, records, lost, installs, corpusEdits>>

\* A file that is there is left alone; one that appears between the look and
\* the exclusive open ends the run.
LookFor(i) ==
  LET f == installer[i].at IN
  /\ f \in {"index", "catalog"}
  /\ Advances(i, IF tree[f] # "absent" THEN After(f) ELSE IF f = "index" THEN "open index" ELSE "open catalog")
  /\ UNCHANGED <<profile, tree, records, lost, installs, corpusEdits>>
OpenAnyway(i, f) ==                                                        \* faulty
  /\ installer[i].at = IF f = "index" THEN "open index" ELSE "open catalog"
  /\ Advances(i, IF f = "index" THEN "write index" ELSE "write catalog") /\ tree' = [tree EXCEPT ![f] = "empty"]
  /\ UNCHANGED <<profile, records, lost, installs, corpusEdits>>
OpenNew(i, f) ==
  /\ installer[i].at = IF f = "index" THEN "open index" ELSE "open catalog"
  /\ IF tree[f] # "absent" THEN StopsInstalling(i) /\ UNCHANGED tree
     ELSE Advances(i, IF f = "index" THEN "write index" ELSE "write catalog") /\ tree' = [tree EXCEPT ![f] = "empty"]
  /\ UNCHANGED <<profile, records, lost, installs, corpusEdits>>
WriteNew(i, f) ==
  /\ installer[i].at = IF f = "index" THEN "write index" ELSE "write catalog"
  /\ Advances(i, After(f)) /\ tree' = [tree EXCEPT ![f] = "default"]
  /\ UNCHANGED <<profile, records, lost, installs, corpusEdits>>

\* The text read at the beginning goes back with the section, and with it
\* whatever a person wrote into the profile since is gone.
Enable(i) ==
  /\ installer[i].at = "profile" /\ StopsInstalling(i)
  /\ profile' = IF installer[i].adds THEN [kind |-> "regular", text |-> installer[i].text, section |-> "enabled"] ELSE profile
  /\ UNCHANGED <<tree, records, lost, installs, corpusEdits>>

DieInstalling(i) == installer[i].at # "none" /\ StopsInstalling(i) /\ UNCHANGED <<profile, tree, records, lost, installs, corpusEdits>>

-----------------------------------------------------------------------------
(* People; they save no file while an init still has it open. *)

EditProfile ==
  /\ corpusEdits.profile < MaxProfileEdits /\ profile.kind # "odd"
  /\ corpusEdits' = [corpusEdits EXCEPT !.profile = @ + 1]
  /\ \E section \in {profile.section, "disabled", "enabled"} :
       profile' = [kind |-> "regular", text |-> profile.text + 1, section |-> section]
  /\ UNCHANGED <<tree, records, lost, installer, installs>>
EditCorpus ==
  /\ corpusEdits.corpus < MaxCatalogEdits /\ tree["root"] = "directory"
  /\ corpusEdits' = [corpusEdits EXCEPT !.corpus = @ + 1]
  /\ \/ /\ tree["catalog"] \in {"absent", "default", "kept"} /\ records' \in Catalogs
        /\ tree' = [tree EXCEPT !["catalog"] = "kept"] /\ UNCHANGED lost
     \/ /\ tree["index"] \in {"absent", "default"} /\ tree' = [tree EXCEPT !["index"] = "kept"]
        /\ UNCHANGED <<records, lost>>
     \/ lost' \in SUBSET Documents /\ UNCHANGED <<tree, records>>
  /\ UNCHANGED <<profile, installer, installs>>

Installing(i) ==
  \/ Plan(i) \/ MakeDirectory(i) \/ LookFor(i) \/ (\E f \in {"index", "catalog"} : OpenNew(i, f) \/ WriteNew(i, f))
  \/ Enable(i)
CorpusNext == \/ \E i \in Installers : Installing(i) \/ DieInstalling(i)
              \/ EditProfile \/ EditCorpus

CorpusSpec == CorpusInit /\ [][CorpusNext]_corpusVars

-----------------------------------------------------------------------------
(* Properties. *)

\* What the checker finds nothing wrong with, docs route can be asked about:
\* every name and symbol of the catalog leads to one capability, whose files
\* are there; and the paths any answer gives a reader are paths whose change
\* selects the pack that runs the checker, a removed file's among them
\* (documentation_issues, route_documentation, documentation_selection_paths).
RoutesGoverned ==
  /\ Configured(profile) = "enabled" /\ Issues = {} =>
       \A c \in DOMAIN records :
         /\ \A name \in Names(records[c]) : RouteAnswer("capability", name) = [status |-> "matched", count |-> 1, context |-> RecordPaths(records[c])]
         /\ \A symbol \in records[c].symbols : RouteAnswer("symbol", symbol).status = "matched"
         /\ RecordPaths(records[c]) \cap lost = {}
  /\ \A c \in DOMAIN records, kind \in {"capability", "symbol"} :
       \A query \in Names(records[c]) \cup records[c].symbols : RouteAnswer(kind, query).context \subseteq SelectionPaths

\* However inits, people and crashes interleave, init never touches an index or
\* a catalog that somebody wrote, and enables the module only when every file of
\* its structure is there (_write_documentation_structure).
StructureFirst ==
  [][(installer' # installer) =>
        /\ \A f \in {"index", "catalog"} : tree[f] \in {"default", "kept"} => tree'[f] = tree[f]
        /\ records' = records
        /\ profile'.section = "enabled" /\ profile.section # "enabled" => \A f \in StructureFiles : tree[f] # "absent"
    ]_corpusVars
=============================================================================
