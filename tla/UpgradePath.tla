------------------------------ MODULE UpgradePath ------------------------------
(***************************************************************************)
(* The tool validate-upgrade-path on an update graph: it builds the source *)
(* of the default channel of a datastore, and walks from one version       *)
(* towards another in the subgraph below that one.  The operator walks the *)
(* same way, one rollout at a time, when a cluster pins the other version. *)
(*                                                                         *)
(* Of the path the tool prints, the last step is kept.                     *)
(***************************************************************************)
EXTENDS UpdateGraph

CONSTANTS
    Graph,          \* the update graph
    Datastores,     \* the --datastore arguments
    Unknown         \* a version that no channel has

ASSUME UpgradePathAssumption ==
    /\ IsGraph(Graph)
    /\ Unknown \in STRING \ {""}
    /\ \A i \in DOMAIN Graph : Unknown \notin Ids(Graph[i])

VARIABLES
    forDatastore,   \* the --datastore argument
    fromVersion,    \* the versions asked about; "" until the source is built
    toVersion,
    lastStep,       \* the last step of the path: [version, hasMigration]
    verdict         \* "", and then what the tool prints

vars == <<forDatastore, fromVersion, toVersion, lastStep, verdict>>

Channel == DefaultChannelForDatastore(Graph, forDatastore)
Source == SourceForChannel(Graph, forDatastore, Channel)

Start(version) == [version |-> version, hasMigration |-> FALSE]

Init ==
    /\ forDatastore \in Datastores
    /\ fromVersion = "" /\ toVersion = ""
    /\ lastStep = Start("")
    /\ verdict = ""

(* Faulty: only the version to start from is looked up.                    *)
LookUp_FromOnly ==
    /\ fromVersion = "" /\ verdict = ""
    /\ IF Channel # "" /\ HasSource(Graph, forDatastore, Channel)
       THEN \E ids \in {Ids(Source)} : \E f, t \in ids \cup {Unknown} :
               /\ fromVersion' = f /\ toVersion' = t
               /\ lastStep' = Start(f)
               /\ verdict' = IF f \in ids THEN "" ELSE "error"
       ELSE verdict' = "error" /\ UNCHANGED <<fromVersion, toVersion, lastStep>>
    /\ UNCHANGED forDatastore

(* The source is built, or the tool ends with an error; then the versions  *)
(* are looked up.                                                          *)
LookUp ==
    /\ fromVersion = "" /\ verdict = ""
    /\ IF Channel # "" /\ HasSource(Graph, forDatastore, Channel)
       THEN \E ids \in {Ids(Source)} : \E f, t \in ids \cup {Unknown} :
               /\ fromVersion' = f /\ toVersion' = t
               /\ lastStep' = Start(f)
               /\ verdict' = IF {f, t} \subseteq ids THEN "" ELSE "error"
       ELSE verdict' = "error" /\ UNCHANGED <<fromVersion, toVersion, lastStep>>
    /\ UNCHANGED forDatastore

(* One round of the loop, or its end, with the next version of the         *)
(* subgraph and whether it is a migration away.                            *)
Round(next, hasMigration) ==
    /\ fromVersion # "" /\ verdict = ""
    /\ \/ /\ lastStep.version = toVersion
          /\ verdict' = IF fromVersion = toVersion THEN "same" ELSE "supported"
          /\ UNCHANGED lastStep
       \/ /\ lastStep.version # toVersion /\ next = ""
          /\ verdict' = "unsupported"
          /\ UNCHANGED lastStep
       \/ /\ lastStep.version # toVersion /\ next # ""
          /\ lastStep' = [version |-> next, hasMigration |-> hasMigration]
          /\ UNCHANGED verdict
    /\ UNCHANGED <<forDatastore, fromVersion, toVersion>>

(* Faulty: every step whose version has a migration is said to run it.     *)
validateUpgrade_AnyMigration ==
    LET next == NextVersion(Subgraph(Source, toVersion), lastStep.version)
    IN  Round(next, State(Source, next).migration # "")

(* Faulty: walks the whole channel.                                        *)
validateUpgrade_WholeChannel == Round(NextVersion(Source, lastStep.version), FALSE)

validateUpgrade ==
    LET next == NextVersion(Subgraph(Source, toVersion), lastStep.version)
        prev == State(Source, lastStep.version)
        new  == State(Source, next)
    IN  Round(next, new.migration # prev.migration \/ new.phase # prev.phase)

Next == LookUp \/ validateUpgrade

(* The tool runs on until it has printed something: a step is always       *)
(* enabled before.                                                         *)
Runs == []<>(verdict # "") \/ []<><<TRUE>>_vars

Spec == Init /\ [][Next]_vars /\ Runs

----------------------------------------------------------------------------
(* Properties *)

TypeOK ==
    /\ {fromVersion, toVersion, lastStep.version} \subseteq
          {"", Unknown} \cup UNION {Ids(Graph[i]) : i \in DOMAIN Graph}
    /\ lastStep.hasMigration \in BOOLEAN
    /\ verdict \in {"", "error", "same", "supported", "unsupported"}
    /\ fromVersion # "" /\ verdict # "error" => {fromVersion, toVersion} \subseteq Ids(Source)

(* The channel that the tool walks has the shape that the walks rely on    *)
(* and that NewMemorySource does not check: it comes of the edge patterns  *)
(* and of the order in which edgesFromPatterns lists what they match.      *)
ChannelIsRegular ==
    fromVersion = "" /\ Channel # "" /\ HasSource(Graph, forDatastore, Channel) =>
        /\ NamedReleases(Source)
        /\ UpdatesLeadForward(Source)
        /\ UpdatesAscend(Source)
        /\ NoBypass(Source)
        /\ SchemaNeverReturns(Source)

(* From which release of the channel of a datastore a path leads to which. *)
Paths ==
    UNION {LET s == Graph[i]
           IN  UNION {{s.datastore} \X {id} \X Reachable(s, id) : id \in Ids(s)}
           : i \in {ChannelAt(Graph, d, DefaultChannelForDatastore(Graph, d)) :
                       d \in {Graph[j].datastore : j \in DOMAIN Graph}} \ {0}}

(* The tool says that an update is supported exactly if a path of edges    *)
(* leads to the version: the subgraph has a path whenever the channel has  *)
(* one, and the walk in it cannot go astray (validateUpgrade, Subgraph,    *)
(* NextVersion).                                                           *)
VerdictIsRight ==
    /\ verdict = "unsupported"           => <<forDatastore, fromVersion, toVersion>> \notin Paths
    /\ verdict \in {"same", "supported"} => <<forDatastore, fromVersion, toVersion>> \in Paths

(* The status version of a cluster on a release of the channel: every      *)
(* version that a status holds carries the migration attribute.            *)
StatusOn(release) == Version(release, Channel, <<"migration">>)

(* What a cluster of the datastore asks for that pins the version.         *)
PinOn(version) ==
    [image |-> "", base |-> TRUE, version |-> version, channel |-> "", engine |-> forDatastore]

(* A cluster that pins the version takes the steps that the tool prints:   *)
(* ComputeTarget returns the release of the step, whose phase or migration *)
(* is another one exactly if the tool says that the step has a migration.  *)
(* A cluster that is offered the step as its next update is told the same  *)
(* of it (AvailableVersions).  The job is another matter: checkMigrations  *)
(* goes by the attributes in the status, and runs one on the other steps   *)
(* as well.                                                                *)
OperatorAgrees ==
    [][lastStep.version # lastStep'.version /\ fromVersion # "" =>
        LET status == StatusOn(lastStep.version)
            taken  == ComputeTarget(Graph, PinOn(toVersion), status, FALSE)
        IN  /\ ~taken.err
            /\ taken.target.name = lastStep'.version
            /\ SameSchema(taken.state, State(Source, lastStep.version))
                  <=> ~lastStep'.hasMigration
            /\ \A offer \in Elems(AvailableVersions(Graph, forDatastore, status)) :
                  /\ offer.name = lastStep'.version /\ offer.channel = Channel
                  /\ "next" \in Elems(offer.attributes)
                  => ("migration" \in Elems(offer.attributes) <=> lastStep'.hasMigration)]_vars

(* A step towards another release: it has a phase, or runs the image of a  *)
(* newer one, as v1.30.0-phase1 does that of v1.30.0.                      *)
IsPhase(i) ==
    \/ Source.nodes[i].phase # ""
    \/ \E newer \in 1 .. i - 1 : Source.nodes[newer].tag = Source.nodes[i].tag

(* No step goes past such a release: the phases of an update are all run   *)
(* through (edgePatterns).                                                 *)
PhasesAreStops ==
    [][lastStep.version # lastStep'.version /\ fromVersion # "" =>
        \A i \in Index(Source, lastStep'.version) + 1 .. Index(Source, lastStep.version) - 1 :
            ~IsPhase(i)]_vars

(* The loop ends for every pair of versions.  That the source is valid is  *)
(* not enough for it: NewMemorySource looks at the walk to the head only.  *)
Ends == <>(verdict # "")
=============================================================================
