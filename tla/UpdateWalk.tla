------------------------------ MODULE UpdateWalk ------------------------------
(***************************************************************************)
(* A cluster walking an update graph.  Every reconcile computes the target *)
(* of the cluster's status (config.NewConfig calls ComputeTarget) and the  *)
(* validateConfig handler writes it back as status.version; a target that  *)
(* differs from the status is rolled out before the next one is looked     *)
(* for, which is what RolloutInProgress tells ComputeTarget.  The rollout  *)
(* itself is the subject of the module Controller; here it is one step.    *)
(*                                                                         *)
(* The graph is chosen by Init from Graphs and may be reloaded.            *)
(***************************************************************************)
EXTENDS UpdateGraph

CONSTANTS
    Graphs,         \* the operator configurations: graphs with channels for Engine
    Engine,         \* the datastore engine of the cluster
    Channels,       \* the names the user may write in spec.channel, "" included
    Versions,       \* the names the user may write in spec.version, "" included
    MaxEdits,       \* bound: edits of the cluster's spec
    MaxReloads,     \* bound: reloads of the operator configuration
    MaxAttributes   \* bound: length of the attribute list of a version

ASSUME ConstantsAssumption ==
    /\ \A g \in Graphs : IsGraph(g)
    /\ Channels \subseteq Str
    /\ Versions \subseteq Str
    /\ MaxEdits \in Nat
    /\ MaxReloads \in Nat
    /\ MaxAttributes \in Nat

VARIABLES
    graph,          \* the operator configuration's graph
    specChannel,    \* spec.channel
    specVersion,    \* spec.version
    status,         \* status.version
    rollout,        \* RolloutInProgress
    edits,          \* number of edits of the spec so far
    reloads         \* number of reloads of the graph so far

vars == <<graph, specChannel, specVersion, status, rollout, edits, reloads>>

Request == [image |-> "", base |-> TRUE, version |-> specVersion,
            channel |-> specChannel, engine |-> Engine]

(* Faulty: a rollout in progress is not passed on.                         *)
Target_Unfrozen == ComputeTarget(graph, Request, status, FALSE)

Target == ComputeTarget(graph, Request, status, rollout)

(* The source that the cluster follows.                                    *)
Followed == ChannelFor(graph, Request, status)
Source == SourceForChannel(graph, Engine, Followed)

TypeOK ==
    /\ \A i \in DOMAIN graph : DOMAIN graph[i].edges \subseteq Ids(graph[i])
    /\ specChannel \in Channels
    /\ specVersion \in Versions
    /\ status = NoVersion \/ status.name \in UNION {Ids(graph[i]) : i \in DOMAIN graph}
    /\ rollout \in BOOLEAN
    /\ edits \in 0..MaxEdits
    /\ reloads \in 0..MaxReloads

Init ==
    /\ graph \in Graphs
    /\ specChannel \in Channels
    /\ specVersion \in Versions
    /\ status = NoVersion
    /\ rollout = FALSE
    /\ edits = 0
    /\ reloads = 0

(* validateConfig: the status takes the target; a changed target changes   *)
(* the migration hash, which holds the version, and so starts a rollout.   *)
Reconcile ==
    \E new \in {Target} :
        /\ ~new.err
        /\ new.state.tag # ""
        /\ new.target # status
        /\ Len(new.target.attributes) <= MaxAttributes
        /\ status' = new.target
        /\ rollout' = TRUE
        /\ UNCHANGED <<graph, specChannel, specVersion, edits, reloads>>

FinishRollout ==
    /\ rollout
    /\ rollout' = FALSE
    /\ UNCHANGED <<graph, specChannel, specVersion, status, edits, reloads>>

(* An edit of spec.config, or of the secret, also starts a rollout.        *)
EditSpec ==
    /\ edits < MaxEdits
    /\ edits' = edits + 1
    /\ specChannel' \in Channels
    /\ specVersion' \in Versions
    /\ rollout' \in {rollout, status # NoVersion}
    /\ <<specChannel', specVersion', rollout'>> # <<specChannel, specVersion, rollout>>
    /\ UNCHANGED <<graph, status, reloads>>

(* loadConfig replaces the graph; the cluster's version is a node of it.   *)
loadConfig ==
    /\ reloads < MaxReloads
    /\ reloads' = reloads + 1
    /\ graph' \in Graphs \ {graph}
    /\ UNCHANGED <<specChannel, specVersion, status, rollout, edits>>

Next == Reconcile \/ FinishRollout \/ EditSpec \/ loadConfig

(* Every reconcile that would change the version is done in the end.  This *)
(* is WF_vars(Reconcile), with the condition under which the action is     *)
(* enabled written out.                                                    *)
ReconcileIsFair ==
    \/ []<>(Target.err \/ Target.state.tag = "" \/ Target.target = status
              \/ Len(Target.target.attributes) > MaxAttributes)
    \/ []<><<Reconcile>>_vars

Spec == Init /\ [][Next]_vars /\ ReconcileIsFair /\ WF_vars(FinishRollout)

----------------------------------------------------------------------------
(* Properties *)

(* A status version is replaced by another one only along an edge of the   *)
(* channel it ends up in: the walk never skips a required step, whatever   *)
(* the user writes in spec.channel and spec.version and whichever graph is *)
(* loaded (ComputeTarget, pkg/updates/file.go).                            *)
StepsAlongEdges ==
    [][status.name # status'.name /\ status # NoVersion
        => status'.name \in Elems(OutEdges(
               SourceForChannel(graph, Engine, status'.channel), status.name))]_vars

(* While a rollout is in progress the version is frozen: neither a new pin *)
(* nor a channel switch nor a new graph moves the cluster (file.go, the    *)
(* "rolling" parameter of ComputeTarget).                                  *)
FrozenWhileRolling ==
    [][rollout /\ status # NoVersion => status'.name = status.name]_vars

(* With spec.version set to a node of the channel, no step passes it: the  *)
(* version reached is never newer than the pin (Subgraph, memory.go).      *)
NeverPastPin ==
    [][status.name # status'.name /\ specVersion # "" /\ specVersion \in Ids(Source)
        => Index(Source, status'.name) >= Index(Source, specVersion)]_vars

(* Every step goes to a newer version of the channel: pinning an older     *)
(* version than the current one is no downgrade.                           *)
NeverDowngrades ==
    [][status.name # status'.name /\ status # NoVersion
        => Index(Source, status'.name) < Index(Source, status.name)]_vars

(* The cluster's channel has a source that knows its version.              *)
InChannel ==
    /\ HasSource(graph, Engine, Followed)
    /\ status = NoVersion \/ status.name \in Ids(Source)

(* README, Automatic Updates: without spec.version the cluster is kept at  *)
(* the newest version of its channel, however many steps that takes: when  *)
(* the user has stopped editing, it gets there and stays.                  *)
HeadReached == <>[](specVersion = "" /\ InChannel => status.name = Source.nodes[1].id)

(* README, Suggested Updates: with spec.version set the cluster walks the  *)
(* steps of the channel and stops when it reaches that version, if a path  *)
(* of edges leads there.                                                   *)
PinReached ==
    <>[](/\ specVersion # "" /\ InChannel
         /\ status # NoVersion /\ specVersion \in Reachable(Source, status.name)
         => status.name = specVersion)

(* No step of the walk leads to a release from which the pinned version    *)
(* cannot be reached any more (NextVersion takes the last edge, whatever   *)
(* lies beyond it).                                                        *)
StaysOnPath ==
    [][status.name # status'.name /\ status # NoVersion /\ specVersion # ""
        /\ specVersion \in Reachable(Source, status.name)
        => specVersion \in Reachable(Source, status'.name)]_vars

(* An update offered as "next" in the cluster's own channel is the step    *)
(* that is taken when the user writes it in spec.version: it is reached in *)
(* one step, that step runs a migration if the offer says so, and an offer *)
(* that says nothing of a migration stays in the same phase and migration. *)
OffersHonoured ==
    status # NoVersion /\ HasSource(graph, Engine, status.channel)
                        /\ status.name \in Ids(SourceForChannel(graph, Engine, status.channel)) =>
        LET s      == SourceForChannel(graph, Engine, status.channel)
            offers == Elems(AvailableVersions(graph, Engine, status))
        IN  \A o \in offers : o.channel = status.channel /\ "next" \in Elems(o.attributes) =>
                LET taken == ComputeTarget(graph, [Request EXCEPT !.version = o.name,
                                                                  !.channel = o.channel],
                                           status, FALSE)
                IN  /\ taken.target.name = o.name
                    /\ IF "migration" \in Elems(o.attributes)
                       THEN "migration" \in Elems(taken.target.attributes)
                       ELSE /\ State(s, o.name).migration = State(s, status.name).migration
                            /\ State(s, o.name).phase = State(s, status.name).phase

(* types.go describes a version's attributes as a set of descriptors.      *)
AttributesAreASet ==
    \A i, j \in DOMAIN status.attributes :
        status.attributes[i] = status.attributes[j] => i = j
=============================================================================
