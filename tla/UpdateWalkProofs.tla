--------------------------- MODULE UpdateWalkProofs ---------------------------
(***************************************************************************)
(* The walk follows the edges of the graph and is frozen during a rollout, *)
(* for every set of graphs, channels and versions and without the bounds   *)
(* mattering.                                                              *)
(***************************************************************************)
EXTENDS UpdateWalk, UpdateGraphProofs

----------------------------------------------------------------------------
(* Steps of ComputeTarget *)

(* A subgraph has no edge that the source does not have.                   *)
LEMMA SubgraphEdges ==
    ASSUME NEW s, NEW head, NEW from
    PROVE  Elems(OutEdges(Subgraph(s, head), from)) \subseteq Elems(OutEdges(s, from))
<1>1. from \in DOMAIN Subgraph(s, head).edges
        => from \in DOMAIN s.edges /\ Subgraph(s, head).edges[from] = s.edges[from]
  BY Zenon DEF Subgraph
<1>2. OutEdges(Subgraph(s, head), from) \in {OutEdges(s, from), <<>>}
  BY <1>1 DEF OutEdges
<1> QED BY <1>2, NoElems

(* Advance stays on the current version or takes an edge of the source; it *)
(* stays while a rollout is in progress.                                   *)
LEMMA AdvanceSteps ==
    ASSUME NEW s, NEW channel, NEW version, NEW current, NEW rolling,
           current \in VersionType,
           ~Advance(s, channel, version, current, rolling).err
    PROVE  LET new == Advance(s, channel, version, current, rolling).target
           IN  /\ new.name = current.name \/ new.name \in Elems(OutEdges(s, current.name))
               /\ new.channel = channel
               /\ rolling => new.name = current.name
<1> DEFINE sub == IF version = "" THEN s ELSE Subgraph(s, version)
           next == NextVersion(sub, current.name)
           here == Found([current EXCEPT !.channel = channel], State(s, current.name))
<1>1. here.target.name = current.name /\ here.target.channel = channel
  BY DEF Found, VersionType
<1>2. CASE rolling \/ next = ""
  BY <1>1, <1>2 DEF Advance, Failed, Found
<1>3. CASE ~rolling /\ next # ""
  <2>1. next \in Elems(OutEdges(s, current.name))
    BY <1>3, NextVersionIsEdge, SubgraphEdges
  <2>2. Advance(s, channel, version, current, rolling).target.name = next
    BY <1>3 DEF Advance, Failed, Found, Version
  <2>3. Advance(s, channel, version, current, rolling).target.channel = channel
    BY <1>3 DEF Advance, Failed, Found, Version
  <2> QED BY <1>3, <2>1, <2>2, <2>3
<1> QED BY <1>2, <1>3

(* From a current version, ComputeTarget stays or takes an edge of the     *)
(* channel that it ends up in; it stays while a rollout is in progress.    *)
LEMMA ComputeTargetSteps ==
    ASSUME NEW g, IsGraph(g), NEW req, NEW current \in VersionType,
           Marked(current), NEW rolling, current # NoVersion, req.image # "pinned",
           ~ComputeTarget(g, req, current, rolling).err
    PROVE  LET new == ComputeTarget(g, req, current, rolling).target
           IN  /\ \/ new.name = current.name
                  \/ new.name \in Elems(OutEdges(SourceForChannel(g, req.engine, new.channel),
                                                 current.name))
               /\ rolling => new.name = current.name
<1> DEFINE channel == ChannelFor(g, req, current)
           s == SourceForChannel(g, req.engine, channel)
           t == ComputeTarget(g, req, current, rolling)
           a == Advance(s, channel, req.version, current, rolling)
           n == NotInChannel(g, req.engine, current, rolling)
           same == Found(current, State(s, current.name))
<1>1. t \in {a, n, same}
  BY FailedIsTarget DEF ComputeTarget
<1>2. CASE t = a
  <2>1. ~a.err
    BY <1>2
  <2>2. LET new == a.target
        IN  /\ new.name = current.name \/ new.name \in Elems(OutEdges(s, current.name))
            /\ new.channel = channel
            /\ rolling => new.name = current.name
    <3> HIDE DEF s, channel
    <3> QED BY <2>1, AdvanceSteps
  <2> QED BY <1>2, <2>2
<1>3. CASE t = n
  BY <1>3, NotInChannelIsTarget
<1>4. CASE t = same
  BY <1>4 DEF Found
<1> QED BY <1>1, <1>2, <1>3, <1>4

(* Where Advance looks for the next version, and whether it finds one.     *)
Known(s, version) == version = "" \/ version \in Ids(s)

Below(s, version) == IF version = "" THEN s ELSE Subgraph(s, version)

(* When Advance changes the version, it takes the next one in the subgraph *)
(* below the requested version, which the source has.                      *)
LEMMA AdvanceMoves ==
    ASSUME NEW s, NEW channel, NEW version, NEW current, NEW rolling,
           current \in VersionType,
           ~Advance(s, channel, version, current, rolling).err,
           Advance(s, channel, version, current, rolling).target.name # current.name
    PROVE  LET sub == Below(s, version)
           IN  /\ Known(s, version)
               /\ HasNext(sub, current.name)
               /\ Advance(s, channel, version, current, rolling).target.name
                     = NextVersion(sub, current.name)
<1> DEFINE sub == Below(s, version)
           next == NextVersion(sub, current.name)
           here == Found([current EXCEPT !.channel = channel], State(s, current.name))
<1>1. here.target.name = current.name
  BY DEF Found, VersionType
<1>2. ~rolling /\ next # "" /\ (version # "" => version \in Ids(s))
  BY <1>1 DEF Advance, Failed, Found, Below
<1>3. Advance(s, channel, version, current, rolling).target.name = next
  BY <1>2 DEF Advance, Failed, Found, Version, Below
<1> QED BY <1>2, <1>3 DEF HasNext, Known

(* When ComputeTarget changes the version of a cluster, the cluster is in  *)
(* the channel that it follows, and Advance has taken the step.            *)
LEMMA ComputeTargetMoves ==
    ASSUME NEW g, IsGraph(g), NEW req, NEW current \in VersionType,
           Marked(current), NEW rolling, current # NoVersion, req.image # "pinned",
           ~ComputeTarget(g, req, current, rolling).err,
           ComputeTarget(g, req, current, rolling).target.name # current.name
    PROVE  LET channel == ChannelFor(g, req, current)
               s == SourceForChannel(g, req.engine, channel)
               sub == Below(s, req.version)
           IN  /\ HasSource(g, req.engine, channel)
               /\ current.name \in Ids(s)
               /\ Known(s, req.version)
               /\ HasNext(sub, current.name)
               /\ ComputeTarget(g, req, current, rolling).target.name
                     = NextVersion(sub, current.name)
<1> DEFINE channel == ChannelFor(g, req, current)
           s == SourceForChannel(g, req.engine, channel)
           v == req.version
           t == ComputeTarget(g, req, current, rolling)
           a == Advance(s, channel, v, current, rolling)
           n == NotInChannel(g, req.engine, current, rolling)
           same == Found(current, State(s, current.name))
<1>1. /\ t \in {a, n, same}
      /\ HasSource(g, req.engine, channel)
      /\ t # n /\ t # same => current.name \in Ids(s)
  BY FailedIsTarget DEF ComputeTarget
<1>2. t # n
  BY NotInChannelIsTarget
<1>3. t # same
  BY DEF Found
<1>4. t = a /\ current.name \in Ids(s)
  BY <1>1, <1>2, <1>3
<1> HIDE DEF s, channel, v
<1>5. ~a.err /\ a.target.name # current.name
  BY <1>4
<1>6. LET sub == Below(s, v)
      IN  /\ Known(s, v)
          /\ HasNext(sub, current.name)
          /\ a.target.name = NextVersion(sub, current.name)
  BY <1>5, AdvanceMoves
<1> QED BY <1>1, <1>4, <1>6, SMTT(30) DEF s, channel, v

(* A first install takes the requested version if there is one.            *)
LEMMA ComputeTargetInstalls ==
    ASSUME NEW g, NEW req, NEW rolling, req.image # "pinned", req.version # "",
           ~ComputeTarget(g, req, NoVersion, rolling).err
    PROVE  /\ HasSource(g, req.engine, ChannelFor(g, req, NoVersion))
           /\ ComputeTarget(g, req, NoVersion, rolling).target.name = req.version
<1> DEFINE channel == ChannelFor(g, req, NoVersion)
           s == SourceForChannel(g, req.engine, channel)
<1>1. /\ HasSource(g, req.engine, ChannelFor(g, req, NoVersion))
      /\ ComputeTarget(g, req, NoVersion, rolling) = Install(s, channel, req.version, rolling)
  BY FailedIsTarget DEF ComputeTarget
<1> HIDE DEF s, channel
<1>2. Install(s, channel, req.version, rolling).target.name = req.version
  BY <1>1, FailedIsTarget DEF Install, Found, Version
<1> QED BY <1>1, <1>2

(* The next version below a pin, or without one, is an update of the       *)
(* version in the channel itself.                                          *)
LEMMA MoveIsUpdate ==
    ASSUME NEW s, IsSource(s), NewMemorySourceOK(s), NEW version, Known(s, version),
           NEW from, HasNext(Below(s, version), from)
    PROVE  LET to == NextVersion(Below(s, version), from)
           IN  to \in Elems(OutEdges(s, from)) /\ {from, to} \subseteq Ids(s)
<1> DEFINE to == NextVersion(Below(s, version), from)
<1>1. to \in Elems(OutEdges(s, from))
  <2>1. CASE version = ""
    BY <2>1, NextVersionIsEdge DEF Below, HasNext
  <2>2. CASE version # ""
    BY <2>2, NextVersionIsEdge, SubgraphEdges DEF Below, HasNext
  <2> QED BY <2>1, <2>2
<1> HIDE DEF to
<1>2. {from, to} \subseteq Ids(s)
  BY <1>1, EdgesInside
<1> QED BY <1>1, <1>2 DEF to

----------------------------------------------------------------------------
(* Offers *)

(* Where updates lead forward, no release is an update of itself.          *)
LEMMA NoSelfUpdate ==
    ASSUME NEW s, IsSource(s), NewMemorySourceOK(s), UpdatesLeadForward(s), NEW from
    PROVE  from \notin Elems(OutEdges(s, from))
<1> SUFFICES ASSUME from \in Elems(OutEdges(s, from)) PROVE FALSE
  OBVIOUS
<1>1. Index(s, from) \in Nat /\ Index(s, from) < Index(s, from)
  BY UpdateIsNewer
<1> QED BY <1>1

(* Where updates lead forward and ascend, every update becomes the next    *)
(* version once it is pinned: what is newer than it is not in the          *)
(* subgraph, and what is listed after it is newer.                         *)
LEMMA PinnedUpdateIsNext ==
    ASSUME NEW s, IsSource(s), NewMemorySourceOK(s), UpdatesLeadForward(s), UpdatesAscend(s),
           NEW from, NEW to \in Elems(OutEdges(s, from))
    PROVE  NextVersion(Subgraph(s, to), from) = to
<1> DEFINE sub == Subgraph(s, to)
           out == OutEdges(s, from)
           live == Live(sub, from)
<1>1. /\ from \in DOMAIN s.edges /\ out = s.edges[from]
      /\ from \in Ids(s) /\ to \in Ids(s)
  BY EdgesInside
<1>2. Index(s, from) \in Nat /\ Index(s, to) \in Nat /\ Index(s, to) < Index(s, from)
  BY UpdateIsNewer
<1>3. from \in Ids(sub) /\ to \in Ids(sub)
  BY <1>1, <1>2, SubgraphIds
<1>4. OutEdges(sub, from) = out /\ out \in Seq(Str)
  BY <1>3, SubgraphOut, OutEdgesTyped
<1>5. live = {i \in DOMAIN out : out[i] \in Ids(sub)}
  BY <1>4 DEF Live
<1>6. PICK k \in DOMAIN out : out[k] = to
  BY DEF Elems
<1>7. k \in live
  BY <1>3, <1>5, <1>6
<1>8. PICK i \in live : (\A j \in live : j <= i) /\ LastOf(sub, from, live) = out[i]
  <2>1. live \subseteq DOMAIN OutEdges(sub, from) /\ live # {} /\ OutEdges(sub, from) \in Seq(Str)
    BY <1>4, <1>5, <1>7
  <2> HIDE DEF sub, live, out
  <2> QED BY <1>4, <2>1, LastOfIsLast
<1>9. out[i] \in Ids(s) /\ Index(s, to) <= Index(s, out[i])
  BY <1>1, <1>5, <1>8, SubgraphIds
<1>10. Index(s, out[i]) <= Index(s, out[k])
  BY <1>1, <1>5, <1>6, <1>7, <1>8 DEF UpdatesAscend
<1>11. Index(s, out[i]) = Index(s, to)
  BY <1>1, <1>6, <1>9, <1>10, IndexTyped
<1>12. out[i] = to
  BY <1>1, <1>9, <1>11, IndexInjective
<1> QED BY <1>8, <1>12 DEF NextVersion

(* ComputeTarget takes an update of the current version that is pinned in  *)
(* its own channel.                                                        *)
Named(channel) == channel # ""

LEMMA ComputeTargetTakes ==
    ASSUME NEW g, IsGraph(g), NEW req, IsRequest(req), req.image = "", req.base = TRUE,
           NEW current \in VersionType, Marked(current), current # NoVersion,
           req.channel = current.channel, Named(current.channel), Named(req.version),
           HasSource(g, req.engine, current.channel),
           UpdatesLeadForward(SourceForChannel(g, req.engine, current.channel)),
           UpdatesAscend(SourceForChannel(g, req.engine, current.channel)),
           req.version \in Elems(OutEdges(SourceForChannel(g, req.engine, current.channel),
                                          current.name))
    PROVE  LET taken == ComputeTarget(g, req, current, FALSE)
           IN  taken.target.name = req.version /\ Offers(taken.target, "migration")
<1> DEFINE s == SourceForChannel(g, req.engine, current.channel)
           taken == ComputeTarget(g, req, current, FALSE)
           a == Advance(s, current.channel, req.version, current, FALSE)
<1>1. IsSource(s) /\ NewMemorySourceOK(s)
  BY SourceTyped DEF HasSource, SourceForChannel
<1>2. current.name \in Ids(s) /\ req.version \in Ids(s)
  BY <1>1, EdgesInside
<1>3. NextVersion(Subgraph(s, req.version), current.name) = req.version
  <2> HIDE DEF s
  <2> QED BY <1>1, PinnedUpdateIsNext DEF s
<1>4. current.name # req.version
  <2> HIDE DEF s
  <2> QED BY <1>1, NoSelfUpdate DEF s
<1>5. ChannelFor(g, req, current) = current.channel
  BY DEF ChannelFor, Named
<1>6. taken = a
  BY <1>2, <1>4, <1>5, ZenonT(30) DEF ComputeTarget, Named
<1>7. a.target.name = req.version
  <2> DEFINE sub == Subgraph(s, req.version)
             attributes == IF req.version # NextVersionWithoutMigrations(sub, current.name)
                           THEN <<"migration">> ELSE current.attributes
             st == State(sub, req.version)
  <2>1. a = Found(Version(req.version, current.channel, attributes), st)
    BY <1>2, <1>3 DEF Advance, Named
  <2> HIDE DEF a, attributes, st
  <2> QED BY <2>1, Zenon DEF Found, Version
<1>8. Marked(taken.target) /\ taken.target # NoVersion
  <2>1. Marked(taken.target)
    BY ComputeTargetIsTarget
  <2>2. taken.target.name # "" /\ NoVersion.name = ""
    BY <1>6, <1>7 DEF Named, NoVersion
  <2>3. taken.target # NoVersion
    <3> HIDE DEF taken
    <3> QED BY <2>2, ZenonT(30)
  <2> HIDE DEF taken
  <2> QED BY <2>1, <2>3
<1> HIDE DEF taken, a
<1> QED BY <1>6, <1>7, <1>8 DEF Marked, Offers, taken

(* A version that ComputeTarget returns has a channel if the current       *)
(* version has one.                                                        *)
InSomeChannel(v) == v = NoVersion \/ v.channel # ""

LEMMA ComputeTargetChannel ==
    ASSUME NEW g, NEW req, NEW current \in VersionType, NEW rolling, InSomeChannel(current),
           ~ComputeTarget(g, req, current, rolling).err
    PROVE  InSomeChannel(ComputeTarget(g, req, current, rolling).target)
<1> DEFINE channel == ChannelFor(g, req, current)
           s == SourceForChannel(g, req.engine, channel)
           t == ComputeTarget(g, req, current, rolling)
           a == Advance(s, channel, req.version, current, rolling)
           i == Install(s, channel, req.version, rolling)
           n == NotInChannel(g, req.engine, current, rolling)
           same == Found(current, State(s, current.name))
           pinned == Found(NoVersion, PinnedState)
<1>1. \/ t = pinned
      \/ channel # "" /\ t = i
      \/ channel # "" /\ t = a
      \/ current # NoVersion /\ t \in {same, n}
  <2> HIDE DEF channel, s, pinned, i, a, n, same
  <2>1. t \in {pinned, i, a, same, n} /\ (channel = "" => t \in {pinned, Failed})
                /\ (current = NoVersion => t \in {pinned, Failed, i})
    BY FailedIsTarget, Zenon DEF ComputeTarget, channel, s, pinned, i, a, n, same
  <2> HIDE DEF t
  <2> QED BY <2>1, FailedIsTarget, ZenonT(30) DEF t
<1>2. CASE t = pinned
  <2>1. pinned.target = NoVersion
    <3> HIDE DEF pinned
    <3> QED BY DEF pinned, Found
  <2> HIDE DEF pinned
  <2> QED BY <1>2, <2>1 DEF InSomeChannel
<1>3. CASE channel # "" /\ t = i
  <2> HIDE DEF channel, s
  <2> DEFINE id == IF req.version # "" THEN req.version ELSE LatestVersion(s, "")
             v == Version(id, channel, <<"migration">>)
             st == State(s, id)
  <2>1. i = Found(v, st)
    BY <1>3, FailedIsTarget DEF Install
  <2>2. v.channel = channel
    BY DEF Version
  <2> HIDE DEF i, v, st
  <2>3. i.target = v
    BY <2>1 DEF Found
  <2> QED BY <1>3, <2>2, <2>3 DEF InSomeChannel
<1>4. CASE channel # "" /\ t = a
  <2> HIDE DEF channel, s
  <2>1. ~a.err
    BY <1>4
  <2>2. a.target.channel = channel
    BY <2>1, AdvanceSteps
  <2> HIDE DEF a, t
  <2> QED BY <1>4, <2>2 DEF InSomeChannel, t
<1>5. CASE t = same
  <2> DEFINE st == State(s, current.name)
  <2>1. same = Found(current, st)
    OBVIOUS
  <2> HIDE DEF same, st
  <2>2. same.target = current
    BY <2>1 DEF Found
  <2> QED BY <1>5, <2>2
<1>6. CASE current # NoVersion /\ t = n
  <2> DEFINE v == [current EXCEPT !.attributes = Append(@, "notInDesiredChannel")]
             st == State(SourceForChannel(g, req.engine, current.channel), current.name)
  <2>1. n = Found(v, st)
    BY <1>6, FailedIsTarget DEF NotInChannel
  <2>2. v.channel = current.channel
    BY DEF VersionType
  <2> HIDE DEF n, v, st
  <2>3. n.target = v
    BY <2>1 DEF Found
  <2> QED BY <1>6, <2>2, <2>3 DEF InSomeChannel
<1> QED BY <1>1, <1>2, <1>3, <1>4, <1>5, <1>6

----------------------------------------------------------------------------
(* The walk *)

(* Every version that the status ever holds carries the migration          *)
(* attribute, which makes checkMigrations run a job for every step.        *)
AlwaysMarked == Marked(status)

(* The inductive invariant: what ComputeTarget is called with is typed,    *)
(* and the current version is marked and in a channel.                     *)
WalkInv ==
    /\ graph \in Graphs /\ IsGraph(graph)
    /\ specChannel \in Str
    /\ specVersion \in Str
    /\ status \in VersionType
    /\ AlwaysMarked
    /\ InSomeChannel(status)

(* The invariant holds initially.                                          *)
LEMMA WalkInit == Init => WalkInv
BY ConstantsAssumption, NoneTyped DEF Init, WalkInv, AlwaysMarked, Marked, InSomeChannel

(* What the walk asks of ComputeTarget is well formed.                     *)
LEMMA RequestTyped == WalkInv => IsRequest(Request)
BY DEF WalkInv, IsRequest, Request

(* Every step keeps the invariant: Reconcile by what ComputeTarget         *)
(* returns.                                                                *)
LEMMA WalkNext == WalkInv /\ [Next]_vars => WalkInv'
<1> SUFFICES ASSUME WalkInv, [Next]_vars PROVE WalkInv'
  OBVIOUS
<1> USE DEF WalkInv
<1>1. CASE Reconcile
  <2>1. IsTarget(Target) /\ Marked(Target.target)
    BY RequestTyped, ComputeTargetIsTarget DEF Target, AlwaysMarked
  <2>2. status' = Target.target
    BY <1>1 DEF Reconcile
  <2>3. InSomeChannel(Target.target)
    <3>1. ~Target.err
      BY <1>1 DEF Reconcile
    <3> QED BY <3>1, ComputeTargetChannel DEF Target
  <2> QED BY <1>1, <2>1, <2>2, <2>3 DEF Reconcile, IsTarget, AlwaysMarked
<1>2. CASE FinishRollout
  BY <1>2 DEF FinishRollout, AlwaysMarked
<1>3. CASE EditSpec
  BY <1>3, ConstantsAssumption DEF EditSpec, AlwaysMarked
<1>4. CASE loadConfig
  BY <1>4, ConstantsAssumption DEF loadConfig, AlwaysMarked
<1>5. CASE UNCHANGED vars
  BY <1>5 DEF vars, AlwaysMarked
<1> QED BY <1>1, <1>2, <1>3, <1>4, <1>5 DEF Next

(* The invariant holds always.                                             *)
LEMMA WalkInvariant == Spec => []WalkInv
<1> QED BY WalkInit, WalkNext, PTL DEF Spec

(* ComputeTarget copies the attributes of the current version and replaces *)
(* them only by the migration attribute, so no step is ever unmarked.      *)
THEOREM EveryVersionMarked == Spec => []AlwaysMarked
<1>1. WalkInv => AlwaysMarked
  BY DEF WalkInv
<1> QED BY <1>1, WalkInvariant, PTL

(* One step of the walk, from a state of the invariant.                    *)
LEMMA StepFacts ==
    ASSUME WalkInv, [Next]_vars, status # NoVersion
    PROVE  /\ \/ status'.name = status.name
              \/ status'.name \in Elems(OutEdges(
                     SourceForChannel(graph, Engine, status'.channel), status.name))
           /\ rollout => status'.name = status.name
<1>1. CASE Reconcile
  <2>1. status' = Target.target /\ ~Target.err
    BY <1>1 DEF Reconcile
  <2>2. Request.image # "pinned" /\ Request.engine = Engine
    BY DEF Request
  <2> QED BY <2>1, <2>2, ComputeTargetSteps DEF Target, WalkInv, AlwaysMarked
<1>2. CASE ~Reconcile
  BY <1>2 DEF Next, FinishRollout, EditSpec, loadConfig, vars
<1> QED BY <1>1, <1>2

(* ComputeTarget never skips a step of the graph, in any graph: every      *)
(* change of the version follows an edge of the channel it ends up in.     *)
THEOREM WalkStepsAlongEdges == Spec => StepsAlongEdges
<1>1. WalkInv /\ [Next]_vars =>
          [status.name # status'.name /\ status # NoVersion
             => status'.name \in Elems(OutEdges(
                    SourceForChannel(graph, Engine, status'.channel), status.name))]_vars
  BY StepFacts
<1> QED BY <1>1, WalkInvariant, PTL DEF Spec, StepsAlongEdges

(* ComputeTarget freezes the version during a rollout, in any graph.       *)
THEOREM WalkFrozenWhileRolling == Spec => FrozenWhileRolling
<1>1. WalkInv /\ [Next]_vars =>
          [rollout /\ status # NoVersion => status'.name = status.name]_vars
  BY StepFacts
<1> QED BY <1>1, WalkInvariant, PTL DEF Spec, FrozenWhileRolling

----------------------------------------------------------------------------
(* Positions in the channel *)

(* What the status becomes when its version changes: the requested version *)
(* at an install, and the next one below it otherwise.                     *)
LEMMA MoveFacts ==
    ASSUME WalkInv, [Next]_vars, status.name # status'.name
    PROVE  \/ /\ status = NoVersion
              /\ specVersion # "" => IsSource(Source) /\ status'.name = specVersion
           \/ /\ status # NoVersion
              /\ \E i \in DOMAIN graph : Source = graph[i]
              /\ IsSource(Source) /\ NewMemorySourceOK(Source)
              /\ status.name \in Ids(Source)
              /\ Known(Source, specVersion)
              /\ HasNext(Below(Source, specVersion), status.name)
              /\ status'.name = NextVersion(Below(Source, specVersion), status.name)
<1>1. Reconcile
  BY DEF Next, FinishRollout, EditSpec, loadConfig, vars
<1>2. status' = Target.target /\ ~Target.err
  BY <1>1 DEF Reconcile
<1>3. /\ Request.image # "pinned" /\ Request.engine = Engine
      /\ Request.version = specVersion
  BY DEF Request
<1>4. CASE status = NoVersion
  <2> SUFFICES ASSUME specVersion # "" PROVE IsSource(Source) /\ status'.name = specVersion
    BY <1>4
  <2>1. HasSource(graph, Engine, Followed) /\ status'.name = specVersion
    BY <1>2, <1>3, <1>4, ComputeTargetInstalls DEF Target, Followed
  <2> QED BY <2>1, SourceTyped DEF Source, WalkInv
<1>5. CASE status # NoVersion
  <2>1. status \in VersionType /\ Marked(status) /\ IsGraph(graph)
    BY DEF WalkInv, AlwaysMarked
  <2>2. /\ HasSource(graph, Engine, Followed)
        /\ status.name \in Ids(Source)
        /\ Known(Source, specVersion)
        /\ HasNext(Below(Source, specVersion), status.name)
        /\ status'.name = NextVersion(Below(Source, specVersion), status.name)
    BY <1>2, <1>3, <1>5, <2>1, ComputeTargetMoves DEF Target, Source, Followed
  <2>3. IsSource(Source) /\ \E i \in DOMAIN graph : Source = graph[i]
    BY <2>1, <2>2, SourceTyped, SourceIsChannel DEF Source
  <2>4. NewMemorySourceOK(Source)
    BY <2>2 DEF HasSource, Source, SourceForChannel
  <2> QED BY <1>5, <2>2, <2>3, <2>4
<1> QED BY <1>4, <1>5

(* No step passes the pinned version, in any graph: ComputeTarget looks    *)
(* for the next version in the subgraph below it, and the ids of a source  *)
(* that NewMemorySource accepts are unique.                                *)
THEOREM WalkNeverPastPin == Spec => NeverPastPin
<1>1. ASSUME WalkInv, [Next]_vars, status.name # status'.name,
             specVersion # "", specVersion \in Ids(Source)
      PROVE  Index(Source, status'.name) >= Index(Source, specVersion)
  <2>1. CASE status = NoVersion
    <3>1. IsSource(Source) /\ status'.name = specVersion
      BY <1>1, <2>1, MoveFacts
    <3>2. Index(Source, specVersion) \in Nat
      BY <1>1, <3>1, IndexTyped
    <3> QED BY <3>1, <3>2
  <2>2. CASE status # NoVersion
    <3>1. /\ IsSource(Source) /\ NewMemorySourceOK(Source)
          /\ HasNext(Subgraph(Source, specVersion), status.name)
          /\ status'.name = NextVersion(Subgraph(Source, specVersion), status.name)
      BY <1>1, <2>2, MoveFacts DEF Below
    <3>2. /\ Index(Source, specVersion) <= Index(Source, status'.name)
          /\ status'.name \in Ids(Source)
      BY <1>1, <3>1, SubgraphStep DEF HasNext
    <3> QED BY <1>1, <3>1, <3>2, IndexTyped
  <2> QED BY <2>1, <2>2
<1>2. WalkInv /\ [Next]_vars =>
          [status.name # status'.name /\ specVersion # "" /\ specVersion \in Ids(Source)
             => Index(Source, status'.name) >= Index(Source, specVersion)]_vars
  BY <1>1
<1> QED BY <1>2, WalkInvariant, PTL DEF Spec, NeverPastPin

(* Where all updates lead to newer releases, the walk never goes back: a   *)
(* pin on an older version is no downgrade.                                *)
THEOREM WalkNeverDowngrades ==
    ASSUME \A g \in Graphs : \A i \in DOMAIN g : UpdatesLeadForward(g[i])
    PROVE  Spec => NeverDowngrades
<1>1. ASSUME WalkInv, [Next]_vars, status.name # status'.name, status # NoVersion
      PROVE  Index(Source, status'.name) < Index(Source, status.name)
  <2>1. /\ IsSource(Source) /\ NewMemorySourceOK(Source)
        /\ \E i \in DOMAIN graph : Source = graph[i]
        /\ Known(Source, specVersion)
        /\ HasNext(Below(Source, specVersion), status.name)
        /\ status'.name = NextVersion(Below(Source, specVersion), status.name)
    BY <1>1, MoveFacts
  <2>2. status'.name \in Elems(OutEdges(Source, status.name))
    BY <2>1, MoveIsUpdate
  <2>3. UpdatesLeadForward(Source)
    BY <1>1, <2>1 DEF WalkInv
  <2> QED BY <2>1, <2>2, <2>3, EdgesInside DEF UpdatesLeadForward
<1>2. WalkInv /\ [Next]_vars =>
          [status.name # status'.name /\ status # NoVersion
             => Index(Source, status'.name) < Index(Source, status.name)]_vars
  BY <1>1
<1> QED BY <1>2, WalkInvariant, PTL DEF Spec, NeverDowngrades

(* Where updates lead forward and none bypasses a release, the walk never  *)
(* takes a step from which the pinned version is out of reach, although it *)
(* always takes the last update listed and never looks further ahead.      *)
THEOREM WalkStaysOnPath ==
    ASSUME \A g \in Graphs : \A i \in DOMAIN g : UpdatesLeadForward(g[i]) /\ NoBypass(g[i])
    PROVE  Spec => StaysOnPath
<1>1. ASSUME WalkInv, [Next]_vars, status.name # status'.name, status # NoVersion,
             specVersion # "", specVersion \in Reachable(Source, status.name)
      PROVE  specVersion \in Reachable(Source, status'.name)
  <2>1. /\ IsSource(Source) /\ NewMemorySourceOK(Source)
        /\ \E i \in DOMAIN graph : Source = graph[i]
        /\ specVersion \in Ids(Source)
        /\ HasNext(Subgraph(Source, specVersion), status.name)
        /\ status'.name = NextVersion(Subgraph(Source, specVersion), status.name)
    BY <1>1, MoveFacts DEF Below, Known
  <2>2. UpdatesLeadForward(Source) /\ NoBypass(Source)
    BY <1>1, <2>1 DEF WalkInv
  <2>3. /\ status'.name \in Elems(OutEdges(Source, status.name))
        /\ Index(Source, specVersion) <= Index(Source, status'.name)
    BY <2>1, SubgraphStep DEF HasNext
  <2>4. specVersion \in Reachable(Source, status.name)
    BY <1>1
  <2> QED BY <2>1, <2>2, <2>3, <2>4, StepKeepsPaths
<1>2. WalkInv /\ [Next]_vars =>
          [status.name # status'.name /\ status # NoVersion /\ specVersion # ""
             /\ specVersion \in Reachable(Source, status.name)
             => specVersion \in Reachable(Source, status'.name)]_vars
  BY <1>1
<1> QED BY <1>2, WalkInvariant, PTL DEF Spec, StaysOnPath

----------------------------------------------------------------------------
(* Offers *)

(* Where updates lead forward and are listed oldest first, what the status *)
(* offers as "next" is what the cluster takes once the user writes it in   *)
(* spec.version, with a migration if the offer says so, and within the     *)
(* phase and migration of the current version if it does not.              *)
THEOREM WalkOffersHonoured ==
    ASSUME \A g \in Graphs : \A i \in DOMAIN g :
               UpdatesLeadForward(g[i]) /\ UpdatesAscend(g[i])
    PROVE  Spec => []OffersHonoured
<1> DEFINE s == SourceForChannel(graph, Engine, status.channel)
           Req(o) == [Request EXCEPT !.version = o.name, !.channel = o.channel]
           taken(o) == ComputeTarget(graph, Req(o), status, FALSE)
           Honoured(o) ==
               /\ taken(o).target.name = o.name
               /\ IF Offers(o, "migration") THEN Offers(taken(o).target, "migration")
                  ELSE SameSchema(State(s, o.name), State(s, status.name))
<1>1. ASSUME WalkInv, status # NoVersion, HasSource(graph, Engine, status.channel),
             NEW o \in Elems(AvailableVersions(graph, Engine, status)),
             o.channel = status.channel, Offers(o, "next")
      PROVE  Honoured(o)
  <2>1. /\ IsGraph(graph) /\ status \in VersionType /\ Marked(status)
        /\ Named(status.channel)
    BY <1>1 DEF WalkInv, AlwaysMarked, InSomeChannel, Named
  <2>2. IsSource(s) /\ NewMemorySourceOK(s)
    BY <1>1, <2>1, SourceTyped DEF HasSource, SourceForChannel
  <2>3. UpdatesLeadForward(s) /\ UpdatesAscend(s)
    BY <1>1, <2>1, SourceIsChannel DEF WalkInv
  <2> HIDE DEF s
  <2>4. \/ HasDirect(s, status.name) /\ o.name = NextVersionWithoutMigrations(s, status.name)
        \/ /\ HasNext(s, status.name) /\ o.name = NextVersion(s, status.name)
           /\ Offers(o, "migration")
    BY <1>1, <2>1, OwnOffers DEF s
  <2>5. o.name \in Elems(OutEdges(s, status.name)) /\ Named(o.name)
    <3>1. CASE HasDirect(s, status.name) /\ o.name = NextVersionWithoutMigrations(s, status.name)
      BY <2>2, <3>1, DirectIsSame DEF HasDirect, Named
    <3>2. CASE HasNext(s, status.name) /\ o.name = NextVersion(s, status.name)
      BY <3>2, NextVersionIsEdge DEF HasNext, Named
    <3> QED BY <2>4, <3>1, <3>2
  <2>6. /\ Req(o).image = "" /\ Req(o).base = TRUE /\ Req(o).engine = Engine
        /\ Req(o).version = o.name /\ Req(o).channel = status.channel
    BY <1>1 DEF Request
  <2>7. o.name \in Str /\ status.channel \in Str
    BY <2>1, <2>2, <2>5, OutEdgesTyped DEF Elems, VersionType
  <2> DEFINE req == Req(o)
  <2>8. IsRequest(req)
    BY <2>6, <2>7 DEF IsRequest
  <2> HIDE DEF req
  <2>9. /\ ComputeTarget(graph, req, status, FALSE).target.name = o.name
        /\ Offers(ComputeTarget(graph, req, status, FALSE).target, "migration")
    <3>1. /\ req.image = "" /\ req.base = TRUE /\ req.engine = Engine
          /\ req.version = o.name /\ req.channel = status.channel
      BY <2>6 DEF req
    <3> QED BY <1>1, <2>1, <2>3, <2>5, <2>8, <3>1, ComputeTargetTakes DEF s
  <2>10. ASSUME ~Offers(o, "migration") PROVE SameSchema(State(s, o.name), State(s, status.name))
    BY <2>2, <2>4, <2>10, DirectIsSame
  <2> QED BY <2>9, <2>10, Zenon DEF req
<1>2. WalkInv => OffersHonoured
  <2> HIDE DEF Honoured
  <2> SUFFICES ASSUME WalkInv, status # NoVersion, HasSource(graph, Engine, status.channel),
                      NEW o \in Elems(AvailableVersions(graph, Engine, status)),
                      o.channel = status.channel, Offers(o, "next")
               PROVE  Honoured(o)
    BY Zenon DEF OffersHonoured, Offers, Honoured, SameSchema
  <2> QED BY <1>1, SMTT(30)
<1> QED BY <1>2, WalkInvariant, PTL

----------------------------------------------------------------------------
(* Types *)

Releases(g) == UNION {Ids(g[i]) : i \in DOMAIN g}

(* An install takes a release of its source.                               *)
LEMMA InstallKnown ==
    ASSUME NEW s, NEW channel, NEW version, NEW rolling,
           ~Install(s, channel, version, rolling).err
    PROVE  Install(s, channel, version, rolling).target.name \in Ids(s)
<1> DEFINE id == IF version # "" THEN version ELSE LatestVersion(s, "")
           v == Version(id, channel, <<"migration">>)
           st == State(s, id)
           t == Install(s, channel, version, rolling)
<1>1. t = Found(v, st) /\ st.id # ""
  <2> HIDE DEF id, v
  <2> QED BY FailedIsTarget DEF Install, id, v
<1>2. id \in Ids(s)
  <2> HIDE DEF id
  <2> QED BY <1>1 DEF State, NoState
<1>3. v.name = id
  BY DEF Version
<1> HIDE DEF id, v, st, t
<1>4. t.target.name = id
  BY <1>1, <1>3 DEF Found
<1> QED BY <1>2, <1>4 DEF t

(* The version that a reconcile puts in the status is a release of the     *)
(* graph if the one before is.                                             *)
LEMMA ReconcileKnown ==
    ASSUME WalkInv, Reconcile, status = NoVersion \/ status.name \in Releases(graph)
    PROVE  status'.name \in Releases(graph)
<1>1. status' = Target.target /\ ~Target.err
  BY DEF Reconcile
<1>2. IsGraph(graph) /\ Request.image # "pinned" /\ Request.engine = Engine
  BY DEF WalkInv, Request
<1>3. CASE status # NoVersion
  <2>1. CASE status'.name = status.name
    BY <1>3, <2>1
  <2>2. CASE status'.name # status.name
    <3>1. /\ IsSource(Source) /\ NewMemorySourceOK(Source)
          /\ \E i \in DOMAIN graph : Source = graph[i]
          /\ Known(Source, specVersion)
          /\ HasNext(Below(Source, specVersion), status.name)
          /\ status'.name = NextVersion(Below(Source, specVersion), status.name)
      BY <1>3, <2>2, MoveFacts DEF Next
    <3>2. status'.name \in Ids(Source)
      BY <3>1, MoveIsUpdate
    <3> QED BY <3>1, <3>2 DEF Releases
  <2> QED BY <2>1, <2>2
<1>4. CASE status = NoVersion
  <2>1. /\ HasSource(graph, Engine, Followed)
        /\ Target = Install(Source, Followed, specVersion, rollout)
    <3>1. Request.version = specVersion
      BY DEF Request
    <3> QED BY <1>1, <1>2, <1>4, <3>1, FailedIsTarget DEF Target, ComputeTarget, Source, Followed
  <2>2. status'.name \in Ids(Source)
    <3>1. ~Install(Source, Followed, specVersion, rollout).err
      BY <1>1, <2>1
    <3> QED BY <1>1, <2>1, <3>1, InstallKnown
  <2>3. \E i \in DOMAIN graph : Source = graph[i]
    BY <1>2, <2>1, SourceIsChannel DEF Source
  <2> QED BY <2>2, <2>3, SMTT(30) DEF Releases
<1> QED BY <1>3, <1>4

(* The status only ever names a release that the graph has, if no reload   *)
(* takes one away, and the bounds hold.                                    *)
THEOREM WalkTypeOK ==
    ASSUME \A g \in Graphs : \A i \in DOMAIN g : DOMAIN g[i].edges \subseteq Ids(g[i]),
           \A g, h \in Graphs : Releases(g) \subseteq Releases(h)
    PROVE  Spec => []TypeOK
<1>1. Init => TypeOK
  <2> SUFFICES ASSUME Init PROVE TypeOK
    OBVIOUS
  <2>1. edits \in 0..MaxEdits /\ reloads \in 0..MaxReloads
    BY ConstantsAssumption DEF Init
  <2>2. \A i \in DOMAIN graph : DOMAIN graph[i].edges \subseteq Ids(graph[i])
    BY DEF Init
  <2> QED BY <2>1, <2>2, Zenon DEF Init, TypeOK
<1>2. WalkInv /\ TypeOK /\ [Next]_vars => TypeOK'
  <2> SUFFICES ASSUME WalkInv, TypeOK, [Next]_vars PROVE TypeOK'
    OBVIOUS
  <2>1. CASE Reconcile
    <3>1. status = NoVersion \/ status.name \in Releases(graph)
      BY DEF TypeOK, Releases
    <3>2. status'.name \in Releases(graph)
      BY <2>1, <3>1, ReconcileKnown
    <3> QED BY <2>1, <3>2 DEF Reconcile, TypeOK, Releases
  <2>2. CASE FinishRollout
    BY <2>2, Zenon DEF FinishRollout, TypeOK
  <2>3. CASE EditSpec
    <3>1. edits' \in 0..MaxEdits
      BY <2>3, ConstantsAssumption DEF EditSpec, TypeOK
    <3>2. rollout' \in BOOLEAN
      BY <2>3, Zenon DEF EditSpec, TypeOK
    <3> QED BY <2>3, <3>1, <3>2 DEF EditSpec, TypeOK
  <2>4. CASE loadConfig
    <3>1. reloads' \in 0..MaxReloads
      BY <2>4, ConstantsAssumption DEF loadConfig, TypeOK
    <3>2. graph \in Graphs /\ graph' \in Graphs
      BY <2>4 DEF WalkInv, loadConfig
    <3>3. \A i \in DOMAIN graph' : DOMAIN graph'[i].edges \subseteq Ids(graph'[i])
      BY <3>2
    <3>4. status = NoVersion \/ status.name \in Releases(graph')
      BY <3>2 DEF TypeOK, Releases
    <3> QED BY <2>4, <3>1, <3>3, <3>4 DEF loadConfig, TypeOK, Releases
  <2>5. CASE UNCHANGED vars
    BY <2>5 DEF vars, TypeOK
  <2> QED BY <2>1, <2>2, <2>3, <2>4, <2>5 DEF Next
<1> QED BY <1>1, <1>2, WalkInvariant, PTL DEF Spec
=============================================================================
