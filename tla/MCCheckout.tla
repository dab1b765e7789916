----------------------------- MODULE MCCheckout -----------------------------
(* One repository, looked at through one of its parts at a time: checks and *)
(* their evidence, the telemetry file, the context of sessions, the switch  *)
(* to startup updates, or one input of an algorithm that keeps no state.    *)
EXTENDS MCPackExecution, MCInputs, TelemetryLog, ContextDelivery, RuntimeEnable,
        DocumentationCorpus, DispositionRegistry

VARIABLES part, input

Stateful == {"check", "telemetry", "context", "enable", "documentation", "registry"}
NoInput == <<>>
NoTree == [f \in StructureFiles |-> "absent"]
NoProfile == [kind |-> "absent", text |-> 0, section |-> "none"]
NoRegistry == [version |-> 2, decisions |-> {}]
NoSources == [u \in Units |-> NotThere]
\* Every part begins as its module says; those not looked at stay there.
MCInit ==
  /\ part \in Stateful \cup {"task", "graph", "release"}
  /\ Init /\ (part # "check" => packs = IdleConfig)
  /\ LogInit /\ ContextInit /\ EnableInit
  /\ CorpusInit /\ (part # "documentation" => tree = NoTree /\ profile = NoProfile)
  /\ RegistryInit /\ (part # "registry" => registry = NoRegistry /\ sources = NoSources)
  /\ input \in CASE part = "task" -> MCTasks [] part = "graph" -> MCGraphs [] part = "release" -> MCDiscoveries
                 [] OTHER -> {NoInput}

MCNext ==
  \/ part = "check" /\ Next /\ UNCHANGED <<logVars, contextVars, enableVars, corpusVars, registryVars, part, input>>
  \/ part = "telemetry" /\ LogNext /\ UNCHANGED <<vars, contextVars, enableVars, corpusVars, registryVars, part, input>>
  \/ part = "context" /\ ContextNext /\ UNCHANGED <<vars, logVars, enableVars, corpusVars, registryVars, part, input>>
  \/ part = "enable" /\ EnableNext /\ UNCHANGED <<vars, logVars, contextVars, corpusVars, registryVars, part, input>>
  \/ part = "documentation" /\ CorpusNext /\ UNCHANGED <<vars, logVars, contextVars, enableVars, registryVars, part, input>>
  \/ part = "registry" /\ RegistryNext /\ UNCHANGED <<vars, logVars, contextVars, enableVars, corpusVars, part, input>>

CheckStep(r) == part = "check" /\ Step(r)
MCSpec == MCInit /\ [][MCNext]_<<vars, logVars, contextVars, enableVars, corpusVars, registryVars, part, input>> /\ \A r \in Runs : SF_vars(CheckStep(r))

MCAbout == [r \in {1, 2} |-> [stage |-> "pre-push", mode |-> "impacted", scope |-> "s", subject |-> "t"]]
MCBucket == [s \in Sessions |-> 0]

\* The algorithms, on every input.
PacketsComplete == part = "task" => PacketComplete(input)
GraphsProven == part = "graph" => SurfacesProven(input)
AdoptionsAuthorized == part = "release" => AdoptsAuthorized(input)

\* Every check that is not killed comes to a verdict, whatever the others do to
\* the evidence directories and the lock (execute_packs).
EveryCheckEnds == <>(part = "check" => AllOver)
=============================================================================
