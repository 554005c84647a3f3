----------------------------- MODULE UpdateGraph -----------------------------
(***************************************************************************)
(* The update graph of pkg/updates: sources (memory.go) and the graph of   *)
(* channels (file.go), as pure operators.                                  *)
(*                                                                         *)
(* A state is [id, tag, migration, phase]; "tag" stands for tag or digest. *)
(* A source is a record with                                               *)
(*   nodes : sequence of states, newest first (OrderedNodes)               *)
(*   edges : function from a node id to the sequence of ids it updates to  *)
(* A channel is a source with the fields name, datastore and default; a    *)
(* graph is a sequence of channels.  A SpiceDBVersion is                   *)
(* [name, channel, attributes]; descriptions are left out.  The empty      *)
(* string is the absent id, name or channel, as in the code, and NoVersion *)
(* is the nil *SpiceDBVersion.                                             *)
(*                                                                         *)
(* Names compare case sensitively here; the code folds case when it looks  *)
(* a channel up.                                                           *)
(***************************************************************************)
EXTENDS Naturals, Sequences

NoState == [id |-> "", tag |-> "", migration |-> "", phase |-> ""]
NoVersion == [name |-> "", channel |-> "", attributes |-> <<>>]

(* STRING; the literals are listed because the provers do not know that    *)
(* they belong to it.                                                      *)
Str == STRING \cup {"", "migration", "notInDesiredChannel", "pinned", "skipped"}

StateType == [id : Str, tag : Str, migration : Str, phase : Str]
VersionType == [name : Str, channel : Str, attributes : Seq(Str)]

(* The shape of a graph: what its YAML form can hold, valid or not.        *)
IsGraph(g) ==
    /\ DOMAIN g = 1..Len(g) /\ Len(g) \in Nat
    /\ \A i \in DOMAIN g :
          /\ g[i].name \in Str
          /\ g[i].nodes \in Seq(StateType)
          /\ \A from \in DOMAIN g[i].edges : g[i].edges[from] \in Seq(Str)

Elems(seq) == {seq[i] : i \in DOMAIN seq}

----------------------------------------------------------------------------
(* memory.go *)

Ids(s) == {s.nodes[i].id : i \in DOMAIN s.nodes}

Index(s, id) == CHOOSE i \in DOMAIN s.nodes : s.nodes[i].id = id

State(s, id) == IF id \in Ids(s) THEN s.nodes[Index(s, id)] ELSE NoState

OutEdges(s, from) == IF from \in DOMAIN s.edges THEN s.edges[from] ELSE <<>>

(* The positions in from's edge list whose target is a node of s.  For a   *)
(* validated source that is every position; in a subgraph the others are   *)
(* the edges that Subgraph drops.                                          *)
Live(s, from) ==
    LET ids == Ids(s)
    IN  {i \in DOMAIN OutEdges(s, from) : OutEdges(s, from)[i] \in ids}

(* The target of the last of the given edges of from, "" if there is none. *)
LastOf(s, from, live) ==
    LET last == {i \in live : \A j \in live : j <= i}
    IN  IF last = {} THEN "" ELSE OutEdges(s, from)[CHOOSE i \in last : TRUE]

(* Faulty: goes to the head at once.                                       *)
NextVersion_Jumps(s, from) == IF from = s.nodes[1].id THEN "" ELSE s.nodes[1].id

NextVersion(s, from) == LastOf(s, from, Live(s, from))

(* Faulty: looks at the phase only.                                        *)
NextVersionWithoutMigrations_PhaseOnly(s, from) ==
    LET to == OutEdges(s, from)
    IN  LastOf(s, from, {i \in Live(s, from) : State(s, to[i]).phase = State(s, from).phase})

(* The loop keeps the last edge of the longest prefix that stays in from's *)
(* phase and migration; the first edge that does not ends it.              *)
NextVersionWithoutMigrations(s, from) ==
    LET to        == OutEdges(s, from)
        initial   == State(s, from)
        Direct(i) == /\ State(s, to[i]).phase = initial.phase
                     /\ State(s, to[i]).migration = initial.migration
    IN  LastOf(s, from, {i \in Live(s, from) :
                            \A j \in Live(s, from) : j <= i => Direct(j)})

LatestVersion(s, id) ==
    IF s.nodes = <<>> \/ id = s.nodes[1].id THEN "" ELSE s.nodes[1].id

(* Faulty: keeps the nodes that are newer than head.                       *)
Subgraph_Whole(s, head) == [nodes |-> s.nodes, edges |-> s.edges]

(* Faulty: drops head itself.                                              *)
Subgraph_WithoutHead(s, head) ==
    [nodes |-> SubSeq(s.nodes, Index(s, head) + 1, Len(s.nodes)), edges |-> s.edges]

(* Nodes from head onwards; an edge survives when both its ends do: its    *)
(* start stays in the domain, its target is filtered by Live.              *)
Subgraph(s, head) ==
    LET nodes == SubSeq(s.nodes, Index(s, head), Len(s.nodes))
    IN  [nodes |-> nodes,
         edges |-> [from \in DOMAIN s.edges \cap {nodes[i].id : i \in DOMAIN nodes}
                        |-> s.edges[from]]]

(* Chasing NextVersion leads from every node to the head: going back from  *)
(* the head along next versions reaches all of them.                       *)
validateAllNodesPathToHead(s) ==
    LET steps == {<<id, NextVersion(s, id)>> : id \in Ids(s)}
        leads[n \in Nat] ==
            IF n = 0 THEN {s.nodes[1].id}
            ELSE UNION {{to} \cup {step[1] : step \in {e \in steps : e[2] = to}}
                           : to \in leads[n - 1]}
    IN  leads[Len(s.nodes)] = Ids(s)

(* NewMemorySource returns no error.                                       *)
NewMemorySourceOK(s) ==
    /\ s.nodes # <<>>
    /\ DOMAIN s.edges # {}
    /\ \A i, j \in DOMAIN s.nodes : s.nodes[i].id = s.nodes[j].id => i = j
    /\ \A from \in DOMAIN s.edges :
          /\ from \in Ids(s)
          /\ Elems(s.edges[from]) \subseteq Ids(s)
          /\ s.edges[from] = <<>> => from = s.nodes[1].id
    /\ validateAllNodesPathToHead(s)

----------------------------------------------------------------------------
(* file.go *)

(* Position of the first channel of g in set; 0 if the set is empty.       *)
FirstChannel(set) ==
    IF set = {} THEN 0 ELSE CHOOSE i \in set : \A j \in set : i <= j

DefaultChannelForDatastore(g, datastore) ==
    LET i == FirstChannel({i \in DOMAIN g : g[i].datastore = datastore /\ g[i].default})
    IN  IF i = 0 THEN "" ELSE g[i].name

ChannelAt(g, engine, channel) ==
    FirstChannel({i \in DOMAIN g : g[i].name = channel /\ g[i].datastore = engine})

(* SourceForChannel returns no error.                                      *)
HasSource(g, engine, channel) ==
    /\ ChannelAt(g, engine, channel) # 0
    /\ NewMemorySourceOK(g[ChannelAt(g, engine, channel)])

SourceForChannel(g, engine, channel) == g[ChannelAt(g, engine, channel)]

(* Faulty: the name and the channel swapped.                               *)
Version_Swapped(name, channel, attributes) ==
    [name |-> channel, channel |-> name, attributes |-> attributes]

Version(name, channel, attributes) ==
    [name |-> name, channel |-> channel, attributes |-> attributes]

If(cond, seq) == IF cond THEN seq ELSE <<>>

(* What the other channel c offers to version v: the safest update only.   *)
OfferOf(c, v) ==
    LET direct == NextVersionWithoutMigrations(c, v.name)
        next   == NextVersion(c, v.name)
    IN  IF direct # "" THEN <<Version(direct, c.name, <<"next">>)>>
        ELSE If(next # "", <<Version(next, c.name, <<"next", "migration">>)>>)

(* The offers of the other channels of the first n channels, in order.     *)
OtherOffers(g, engine, v) ==
    LET offers[n \in Nat] ==
            IF n = 0 THEN <<>>
            ELSE offers[n - 1] \o
                 If(g[n].name # v.channel /\ g[n].datastore = engine
                        /\ HasSource(g, engine, g[n].name),
                    OfferOf(SourceForChannel(g, engine, g[n].name), v))
    IN  offers[Len(g)]

AvailableVersions(g, engine, v) ==
    LET s      == SourceForChannel(g, engine, v.channel)
        direct == NextVersionWithoutMigrations(s, v.name)
        next   == NextVersion(s, v.name)
        latest == LatestVersion(s, v.name)
        Latest(n) == If(n = latest, <<"latest">>)
    IN     If(direct # "", <<Version(direct, v.channel, <<"next">> \o Latest(direct))>>)
        \o If(next # "" /\ next # direct,
              <<Version(next, v.channel, <<"next", "migration">> \o Latest(next))>>)
        \o If(latest # "" /\ next # latest /\ direct # latest,
              <<Version(latest, v.channel, <<"latest", "migration">>)>>)
        \o OtherOffers(g, engine, v)

(* The result of ComputeTarget.  After an error the caller uses neither    *)
(* the target nor the state.                                               *)
Found(target, state) == [err |-> FALSE, target |-> target, state |-> state]
Failed == [err |-> TRUE, target |-> NoVersion, state |-> NoState]

(* A request is [image, base, version, channel, engine].  image is "" when *)
(* .spec.config.image is unset, "base" when it names a base image only and *)
(* "pinned" when it carries a tag or a digest; base tells that the cluster *)
(* or the operator configures a base image.                                *)
PinnedState == [NoState EXCEPT !.tag = "pinned"]

(* The channel: the requested one, that of the current version, or the     *)
(* default one for the datastore.                                          *)
ChannelFor(g, req, current) ==
    CASE req.channel # ""     -> req.channel
      [] /\ req.channel = ""
         /\ current.channel # ""  -> current.channel
      [] OTHER                -> DefaultChannelForDatastore(g, req.engine)

(* No current version: the requested one, or the head of the channel.      *)
Install(s, channel, version, rolling) ==
    LET id == IF version # "" THEN version ELSE LatestVersion(s, "")
    IN  IF State(s, id).id = "" \/ (version = "" /\ rolling)
        THEN Failed
        ELSE Found(Version(id, channel, <<"migration">>), State(s, id))

(* Faulty: installs the requested version at once.                         *)
Advance_AtOnce(s, channel, version, current, rolling) ==
    LET here == Found([current EXCEPT !.channel = channel], State(s, current.name))
        next == IF version # "" THEN version ELSE NextVersion(s, current.name)
    IN  IF rolling \/ next = "" THEN here
        ELSE Found(Version(next, channel, <<"migration">>), State(s, next))

(* Faulty: takes no step that needs a migration.                           *)
Advance_DirectOnly(s, channel, version, current, rolling) ==
    LET next == NextVersionWithoutMigrations(s, current.name)
    IN  IF rolling \/ next = ""
        THEN Found([current EXCEPT !.channel = channel], State(s, current.name))
        ELSE Found(Version(next, channel, current.attributes), State(s, next))

(* The current version is a node of the channel's source s: one step       *)
(* towards the requested version, or towards the head.                     *)
Advance(s, channel, version, current, rolling) ==
    LET here == Found([current EXCEPT !.channel = channel], State(s, current.name))
        sub  == IF version = "" THEN s ELSE Subgraph(s, version)
        next == NextVersion(sub, current.name)
    IN  IF rolling THEN here
        ELSE IF version # "" /\ version \notin Ids(s) THEN Failed
        ELSE IF next = "" THEN here
        ELSE Found(Version(next, channel,
                           IF next # NextVersionWithoutMigrations(sub, current.name)
                           THEN <<"migration">> ELSE current.attributes),
                   State(sub, next))

(* The current version is not in the requested channel: stay on it, in its *)
(* own channel, and say so in the attributes.                              *)
NotInChannel(g, engine, current, rolling) ==
    LET state == State(SourceForChannel(g, engine, current.channel), current.name)
    IN  IF \/ ~HasSource(g, engine, current.channel)
           \/ rolling /\ state.id = ""
        THEN Failed
        ELSE Found([current EXCEPT !.attributes = Append(@, "notInDesiredChannel")], state)

ComputeTarget(g, req, current, rolling) ==
    LET channel == ChannelFor(g, req, current)
        s       == SourceForChannel(g, req.engine, channel)
    IN  IF req.image = "pinned" THEN Found(NoVersion, PinnedState)
        ELSE IF \/ req.image = "" /\ ~req.base
                \/ channel = ""
                \/ ~HasSource(g, req.engine, channel)
        THEN Failed
        ELSE IF current = NoVersion THEN Install(s, channel, req.version, rolling)
        ELSE IF current.name = req.version /\ current.channel = channel
        THEN Found(current, State(s, current.name))
        ELSE IF current.name \in Ids(s)
        THEN Advance(s, channel, req.version, current, rolling)
        ELSE NotInChannel(g, req.engine, current, rolling)

----------------------------------------------------------------------------
(* The shape of a channel, which no code checks.  The channels of the      *)
(* graph that the operator ships with have it: edgesFromPatterns lists the *)
(* releases of a range in ascending order, and the ranges of successive    *)
(* releases open at a newer one and close at the same.                     *)

NamedReleases(s) == "" \notin Ids(s)

(* Every update leads to a newer release.                                  *)
UpdatesLeadForward(s) ==
    \A from \in DOMAIN s.edges : \A to \in Elems(s.edges[from]) : Index(s, to) < Index(s, from)

(* The updates of a release are listed oldest first.                       *)
UpdatesAscend(s) ==
    \A from \in DOMAIN s.edges : \A i, j \in DOMAIN s.edges[from] :
        i <= j => Index(s, s.edges[from][j]) <= Index(s, s.edges[from][i])

(* A release that an update jumps over has that update too.                *)
NoBypass(s) ==
    \A from \in DOMAIN s.edges : \A to \in Elems(s.edges[from]) :
        \A k \in DOMAIN s.nodes :
            Index(s, to) < k /\ k < Index(s, from) => to \in Elems(OutEdges(s, s.nodes[k].id))

(* No release returns to a phase and migration that were left before.      *)
SameSchema(a, b) == a.phase = b.phase /\ a.migration = b.migration

SchemaNeverReturns(s) ==
    \A i, j, k \in DOMAIN s.nodes :
        i <= j /\ j <= k /\ SameSchema(s.nodes[i], s.nodes[k]) =>
            SameSchema(s.nodes[j], s.nodes[k])

(* The releases to which a path of edges leads from id.                    *)
Reachable(s, id) ==
    LET reached[n \in Nat] ==
            IF n = 0 THEN {id}
            ELSE UNION {{to} \cup Elems(OutEdges(s, to)) : to \in reached[n - 1]}
    IN  reached[Len(s.nodes)]
=============================================================================
