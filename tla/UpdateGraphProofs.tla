-------------------------- MODULE UpdateGraphProofs --------------------------
(***************************************************************************)
(* Facts about the operators of UpdateGraph, for every update graph.       *)
(***************************************************************************)
EXTENDS UpdateGraph, WellFoundedInduction, TLAPS

(* Induction and recursion *)

(* Induction over the naturals, for a set.                                 *)
LEMMA Induction ==
    ASSUME NEW S, 0 \in S, \A n \in Nat : n \in S => n + 1 \in S
    PROVE  Nat \subseteq S
<1> SUFFICES ASSUME Nat \ S # {} PROVE FALSE
  OBVIOUS
<1>1. PICK x \in Nat \ S : \A y \in Nat \ S : ~(<<y, x>> \in OpToRel(<, Nat))
  BY WFMin, NatLessThanWellFounded
<1>2. \A y \in Nat \ S : ~(y < x)
  BY <1>1, Zenon DEF OpToRel
<1>3. x # 0 /\ x - 1 \in Nat /\ x - 1 < x
  OBVIOUS
<1>4. x - 1 \in S /\ (x - 1) + 1 = x
  BY <1>2, <1>3
<1> QED BY <1>3, <1>4

(* A function that is defined by recursion exists: here are its initial    *)
(* pieces, which agree with each other.                                    *)
LEMMA Recursion ==
    ASSUME NEW T, NEW a \in T, NEW G \in [Nat -> [T -> T]]
    PROVE  \E f \in [Nat -> T] : f = [n \in Nat |-> IF n = 0 THEN a ELSE G[n][f[n - 1]]]
<1> DEFINE Starts(h, n) == /\ h \in [0 .. n -> T]
                           /\ h[0] = a
                           /\ \A k \in 1 .. n : h[k] = G[k][h[k - 1]]
<1>1. \A n \in Nat : \E h : Starts(h, n)
  <2> DEFINE S == {n \in Nat : \E h : Starts(h, n)}
  <2>1. 0 \in S
    <3>1. Starts([k \in 0 .. 0 |-> a], 0)
      OBVIOUS
    <3> QED BY <3>1, Zenon
  <2>2. ASSUME NEW n \in Nat, n \in S PROVE n + 1 \in S
    <3>1. PICK h : Starts(h, n)
      BY <2>2
    <3> DEFINE next == [k \in 0 .. n + 1 |-> IF k = n + 1 THEN G[n + 1][h[n]] ELSE h[k]]
    <3>2. next \in [0 .. n + 1 -> T]
      <4>1. h[n] \in T /\ G[n + 1] \in [T -> T]
        BY <3>1
      <4> QED BY <3>1, <4>1
    <3>3. next[0] = a
      BY <3>1
    <3>4. ASSUME NEW k \in 1 .. n + 1 PROVE next[k] = G[k][next[k - 1]]
      BY <3>1
    <3>5. Starts(next, n + 1)
      BY <3>2, <3>3, <3>4, Zenon
    <3> HIDE DEF next, Starts
    <3> QED BY <3>5
  <2> HIDE DEF S
  <2>3. Nat \subseteq S
    BY <2>1, <2>2, Induction
  <2> QED BY <2>3 DEF S
<1>2. \A n, m \in Nat : \A h1, h2 : m <= n /\ Starts(h1, n) /\ Starts(h2, m) => h1[m] = h2[m]
  <2> SUFFICES ASSUME NEW n \in Nat, NEW m \in Nat, m <= n,
                      NEW h1, NEW h2, Starts(h1, n), Starts(h2, m)
               PROVE  h1[m] = h2[m]
    <3> HIDE DEF Starts
    <3> QED OBVIOUS
  <2> DEFINE S == {k \in Nat : k <= m => h1[k] = h2[k]}
  <2>1. 0 \in S
    OBVIOUS
  <2>2. ASSUME NEW k \in Nat, k \in S PROVE k + 1 \in S
    <3>1. CASE k + 1 <= m
      <4>1. k + 1 \in 1 .. m /\ k + 1 \in 1 .. n
        BY <3>1
      <4>2. h1[k + 1] = G[k + 1][h1[(k + 1) - 1]] /\ h2[k + 1] = G[k + 1][h2[(k + 1) - 1]]
        BY <4>1
      <4> QED BY <2>2, <3>1, <4>2
    <3>2. CASE ~(k + 1 <= m)
      BY <3>2
    <3> QED BY <3>1, <3>2
  <2> HIDE DEF S
  <2>3. Nat \subseteq S
    BY <2>1, <2>2, Induction, Zenon
  <2> QED BY <2>3 DEF S
<1> DEFINE Part(n) == CHOOSE h : Starts(h, n)
           F == [n \in Nat |-> Part(n)[n]]
<1>3. \A n \in Nat : Starts(Part(n), n)
  BY <1>1, Zenon
<1>4. F \in [Nat -> T]
  <2>1. \A n \in Nat : Part(n)[n] \in T
    <3> HIDE DEF Part
    <3> QED BY <1>3
  <2> HIDE DEF Part
  <2> QED BY <2>1
<1>5. F = [n \in Nat |-> IF n = 0 THEN a ELSE G[n][F[n - 1]]]
  <2>1. F[0] = a
    BY <1>3, Zenon
  <2>2. ASSUME NEW n \in Nat, n # 0 PROVE F[n] = G[n][F[n - 1]]
    <3>1. n \in 1 .. n /\ n - 1 \in Nat /\ n - 1 <= n
      BY <2>2
    <3>2. Part(n)[n] = G[n][Part(n)[n - 1]]
      BY <1>3, <3>1, Zenon
    <3>3. Starts(Part(n), n) /\ Starts(Part(n - 1), n - 1)
      BY <1>3, <3>1, Zenon
    <3> HIDE DEF Starts, Part
    <3>4. Part(n)[n - 1] = Part(n - 1)[n - 1]
      BY <1>2, <3>1, <3>3
    <3> QED BY <3>1, <3>2, <3>4
  <2> HIDE DEF Part, Starts
  <2> QED BY <2>1, <2>2
<1> HIDE DEF F
<1> QED BY <1>4, <1>5

----------------------------------------------------------------------------
(* Steps *)

(* Whatever edge of from LastOf picks is one of its edges (the loops over  *)
(* the edge list in memory.go).                                            *)
LEMMA LastOfIsEdge ==
    ASSUME NEW s, NEW from, NEW live, live \subseteq DOMAIN OutEdges(s, from),
           LastOf(s, from, live) # ""
    PROVE  LastOf(s, from, live) \in Elems(OutEdges(s, from))
BY DEF LastOf, Elems

(* The live edges of a node are positions of its edge list.                *)
LEMMA LiveIsPosition ==
    ASSUME NEW s, NEW from
    PROVE  Live(s, from) \subseteq DOMAIN OutEdges(s, from)
BY DEF Live

(* NextVersion in a source follows an edge of that source.                 *)
LEMMA NextVersionIsEdge ==
    ASSUME NEW s, NEW from, NextVersion(s, from) # ""
    PROVE  NextVersion(s, from) \in Elems(OutEdges(s, from))
BY LastOfIsEdge, LiveIsPosition DEF NextVersion

(* The empty sequence has no elements.                                     *)
LEMMA NoElems == Elems(<<>>) = {}
BY DEF Elems

----------------------------------------------------------------------------
(* Types *)

IsSource(s) ==
    /\ s.nodes \in Seq(StateType)
    /\ \A from \in DOMAIN s.edges : s.edges[from] \in Seq(Str)

(* No state and no version have their types.                               *)
LEMMA NoneTyped == NoState \in StateType /\ NoVersion \in VersionType
BY DEF NoState, NoVersion, StateType, VersionType, Str

(* The loops that look a channel up return a channel of the graph.         *)
LEMMA FirstChannelIn ==
    ASSUME NEW set, set \subseteq Nat, set # {}
    PROVE  FirstChannel(set) \in set /\ \A i \in set : FirstChannel(set) <= i
<1>1. PICK x \in set : \A y \in set : ~(<<y, x>> \in OpToRel(<, Nat))
  BY WFMin, NatLessThanWellFounded
<1>2. \A y \in set : ~(y < x)
  BY <1>1, Zenon DEF OpToRel
<1>3. \A y \in set : x <= y
  BY <1>2
<1> QED BY <1>3, Zenon DEF FirstChannel

(* SourceForChannel returns a channel of the graph, with the name it was   *)
(* asked for.                                                              *)
LEMMA SourceIsChannel ==
    ASSUME NEW g, NEW engine, NEW channel, IsGraph(g), HasSource(g, engine, channel)
    PROVE  \E i \in DOMAIN g : SourceForChannel(g, engine, channel) = g[i] /\ g[i].name = channel
<1> DEFINE set == {i \in DOMAIN g : g[i].name = channel /\ g[i].datastore = engine}
<1>1. set \subseteq Nat /\ set # {}
  BY DEF IsGraph, HasSource, ChannelAt, FirstChannel
<1>2. ChannelAt(g, engine, channel) \in set
  BY <1>1, FirstChannelIn DEF ChannelAt
<1> QED BY <1>2 DEF SourceForChannel

(* It is a source: nodes, and edges between names.                         *)
LEMMA SourceTyped ==
    ASSUME NEW g, NEW engine, NEW channel, IsGraph(g), HasSource(g, engine, channel)
    PROVE  IsSource(SourceForChannel(g, engine, channel))
BY SourceIsChannel DEF IsGraph, IsSource

(* The default channel of a datastore has a name.                          *)
LEMMA DefaultTyped ==
    ASSUME NEW g, NEW engine, IsGraph(g)
    PROVE  DefaultChannelForDatastore(g, engine) \in Str
<1> DEFINE set == {i \in DOMAIN g : g[i].datastore = engine /\ g[i].default}
<1>1. set \subseteq Nat
  BY DEF IsGraph
<1>2. CASE set = {}
  BY <1>2 DEF FirstChannel, DefaultChannelForDatastore, Str
<1>3. CASE set # {}
  <2>1. FirstChannel(set) \in DOMAIN g
    BY <1>1, <1>3, FirstChannelIn
  <2> QED BY <2>1 DEF DefaultChannelForDatastore, IsGraph, Str
<1> QED BY <1>2, <1>3

(* State returns a state.                                                  *)
LEMMA StateTyped ==
    ASSUME NEW s, NEW id, s.nodes \in Seq(StateType)
    PROVE  State(s, id) \in StateType
<1>1. CASE id \in Ids(s)
  <2>1. Index(s, id) \in DOMAIN s.nodes
    BY <1>1 DEF Ids, Index
  <2> QED BY <1>1, <2>1 DEF State
<1>2. CASE id \notin Ids(s)
  BY <1>2, NoneTyped DEF State
<1> QED BY <1>1, <1>2

(* The updates of a release are names.                                     *)
LEMMA OutEdgesTyped ==
    ASSUME NEW s, IsSource(s), NEW from
    PROVE  OutEdges(s, from) \in Seq(Str)
BY DEF OutEdges, IsSource

(* NextVersion returns a name.                                             *)
LEMMA NextVersionTyped ==
    ASSUME NEW s, NEW from, \A f \in DOMAIN s.edges : s.edges[f] \in Seq(Str)
    PROVE  NextVersion(s, from) \in Str
<1>1. OutEdges(s, from) \in Seq(Str)
  BY DEF OutEdges
<1>2. Elems(OutEdges(s, from)) \subseteq Str
  BY <1>1 DEF Elems
<1> QED BY <1>2, NextVersionIsEdge DEF Str

(* Subgraph returns a source.                                              *)
LEMMA SubgraphTyped ==
    ASSUME NEW s, NEW head, IsSource(s), head \in Ids(s)
    PROVE  IsSource(Subgraph(s, head))
<1>1. Index(s, head) \in DOMAIN s.nodes
  BY DEF Ids, Index
<1>2. Subgraph(s, head).nodes \in Seq(StateType)
  BY <1>1 DEF Subgraph, IsSource
<1>3. \A f \in DOMAIN Subgraph(s, head).edges :
          f \in DOMAIN s.edges /\ Subgraph(s, head).edges[f] = s.edges[f]
  BY Zenon DEF Subgraph
<1> QED BY <1>2, <1>3 DEF IsSource

----------------------------------------------------------------------------
(* Positions *)

(* Index finds a node with the id.                                         *)
LEMMA IndexIn ==
    ASSUME NEW s, NEW id \in Ids(s)
    PROVE  Index(s, id) \in DOMAIN s.nodes /\ s.nodes[Index(s, id)].id = id
BY DEF Ids, Index

(* The ids of a valid source are unique, so it finds the only one.         *)
LEMMA IndexOf ==
    ASSUME NEW s, NewMemorySourceOK(s), NEW i \in DOMAIN s.nodes
    PROVE  s.nodes[i].id \in Ids(s) /\ Index(s, s.nodes[i].id) = i
BY DEF Ids, Index, NewMemorySourceOK

(* So two nodes at the same position are the same.                         *)
LEMMA IndexInjective ==
    ASSUME NEW s, NEW a \in Ids(s), NEW b \in Ids(s), Index(s, a) = Index(s, b)
    PROVE  a = b
BY IndexIn

(* Positions are natural numbers.                                          *)
LEMMA IndexTyped ==
    ASSUME NEW s, IsSource(s), NEW id \in Ids(s)
    PROVE  Index(s, id) \in Nat /\ 1 <= Index(s, id) /\ Index(s, id) <= Len(s.nodes)
<1>1. DOMAIN s.nodes = 1 .. Len(s.nodes) /\ Len(s.nodes) \in Nat
  BY DEF IsSource
<1> QED BY <1>1, IndexIn

(* The nodes of a subgraph are those of the source that are not newer than *)
(* its head, and they are the same in both.                                *)
LEMMA SubgraphIds ==
    ASSUME NEW s, IsSource(s), NewMemorySourceOK(s), NEW head \in Ids(s), NEW id
    PROVE  /\ id \in Ids(Subgraph(s, head)) <=>
                 id \in Ids(s) /\ Index(s, head) <= Index(s, id)
           /\ id \in Ids(Subgraph(s, head)) => State(Subgraph(s, head), id) = State(s, id)
<1> DEFINE h == Index(s, head)
           sub == Subgraph(s, head)
           len == Len(s.nodes)
<1>1. h \in 1 .. len /\ len \in Nat /\ DOMAIN s.nodes = 1 .. len
  BY IndexIn DEF IsSource
<1>2. sub.nodes = SubSeq(s.nodes, h, len)
  BY Zenon DEF Subgraph
<1>3. DOMAIN sub.nodes = 1 .. len - h + 1 /\ \A i \in 1 .. len - h + 1 : sub.nodes[i] = s.nodes[i + h - 1]
  <2> HIDE DEF h, sub
  <2>1. s.nodes \in Seq(StateType)
    BY DEF IsSource
  <2> QED BY <1>1, <1>2, <2>1
<1> HIDE DEF h, len, sub
<1>4. ASSUME NEW i \in DOMAIN sub.nodes
      PROVE  /\ sub.nodes[i] = s.nodes[i + h - 1]
             /\ i + h - 1 \in DOMAIN s.nodes
             /\ Index(s, sub.nodes[i].id) = i + h - 1
             /\ sub.nodes[i].id \in Ids(s)
             /\ h <= i + h - 1
  <2>1. sub.nodes[i] = s.nodes[i + h - 1] /\ i + h - 1 \in DOMAIN s.nodes /\ h <= i + h - 1
    BY <1>1, <1>3
  <2> QED BY <2>1, IndexOf
<1>5. ASSUME NEW x \in Ids(s), h <= Index(s, x)
      PROVE  \E i \in DOMAIN sub.nodes : sub.nodes[i].id = x
  <2>1. Index(s, x) \in 1 .. len /\ s.nodes[Index(s, x)].id = x
    BY <1>1, IndexIn
  <2>2. Index(s, x) - h + 1 \in DOMAIN sub.nodes
    BY <1>1, <1>3, <1>5, <2>1
  <2>3. sub.nodes[Index(s, x) - h + 1] = s.nodes[Index(s, x)]
    BY <1>1, <1>3, <2>1, <2>2
  <2> QED BY <2>1, <2>2, <2>3
<1>6. id \in Ids(sub) <=> id \in Ids(s) /\ h <= Index(s, id)
  BY <1>4, <1>5 DEF Ids
<1>7. ASSUME id \in Ids(sub) PROVE State(sub, id) = State(s, id)
  <2> DEFINE i == Index(sub, id)
  <2>1. i \in DOMAIN sub.nodes /\ sub.nodes[i].id = id
    BY <1>7, IndexIn
  <2>2. s.nodes[Index(s, id)] = sub.nodes[i] /\ id \in Ids(s)
    BY <1>4, <2>1
  <2> QED BY <1>7, <2>2 DEF State
<1> QED BY <1>6, <1>7 DEF h, sub

----------------------------------------------------------------------------
(* Edges *)

(* The edges of a valid source join nodes of it.                           *)
LEMMA EdgesInside ==
    ASSUME NEW s, NewMemorySourceOK(s), NEW from, NEW to \in Elems(OutEdges(s, from))
    PROVE  /\ from \in DOMAIN s.edges /\ OutEdges(s, from) = s.edges[from]
           /\ from \in Ids(s) /\ to \in Ids(s)
<1>1. from \in DOMAIN s.edges
  BY DEF OutEdges, Elems
<1> QED BY <1>1 DEF OutEdges, NewMemorySourceOK

(* The edge list of a node of a subgraph is the one of the source; other   *)
(* nodes have none.                                                        *)
LEMMA SubgraphOut ==
    ASSUME NEW s, NEW head, NEW from
    PROVE  OutEdges(Subgraph(s, head), from) =
              IF from \in Ids(Subgraph(s, head)) THEN OutEdges(s, from) ELSE <<>>
<1>1. DOMAIN Subgraph(s, head).edges = DOMAIN s.edges \cap Ids(Subgraph(s, head))
  BY Zenon DEF Subgraph, Ids
<1>2. \A f \in DOMAIN Subgraph(s, head).edges : Subgraph(s, head).edges[f] = s.edges[f]
  BY Zenon DEF Subgraph
<1> QED BY <1>1, <1>2 DEF OutEdges

(* LastOf takes the last of the edges it is given, if there are any.       *)
LEMMA LastOfIsLast ==
    ASSUME NEW s, NEW from, NEW live, OutEdges(s, from) \in Seq(Str),
           live \subseteq DOMAIN OutEdges(s, from)
    PROVE  /\ live = {} => LastOf(s, from, live) = ""
           /\ live # {} => \E i \in live : /\ \A j \in live : j <= i
                                          /\ LastOf(s, from, live) = OutEdges(s, from)[i]
<1> DEFINE out == OutEdges(s, from)
           last == {i \in live : \A j \in live : j <= i}
<1>1. CASE live = {}
  BY <1>1 DEF LastOf
<1>2. CASE live # {}
  <2> DEFINE back == {n \in Nat : Len(out) - n \in live}
  <2>1. live \subseteq 1 .. Len(out) /\ Len(out) \in Nat
    OBVIOUS
  <2> HIDE DEF out
  <2>2. back # {} /\ back \subseteq Nat
    <3>1. PICK i \in live : TRUE
      BY <1>2
    <3>2. Len(out) - i \in Nat /\ Len(out) - (Len(out) - i) = i
      BY <2>1, <3>1
    <3> QED BY <3>1, <3>2
  <2> HIDE DEF back
  <2>3. PICK n \in back : \A m \in back : n <= m
    <3>1. FirstChannel(back) \in back /\ \A m \in back : FirstChannel(back) <= m
      BY <2>2, FirstChannelIn, Zenon
    <3> QED BY <3>1
  <2>4. Len(out) - n \in live
    BY <2>3 DEF back
  <2>5. ASSUME NEW j \in live PROVE j <= Len(out) - n
    <3>1. Len(out) - j \in Nat /\ Len(out) - (Len(out) - j) = j
      BY <2>1
    <3>2. Len(out) - j \in back
      BY <3>1 DEF back
    <3> QED BY <2>1, <2>2, <2>3, <3>1, <3>2
  <2>6. last # {}
    BY <2>4, <2>5
  <2> QED BY <2>6 DEF LastOf, out
<1> QED BY <1>1, <1>2

(* NextVersion returns a node of the source.                               *)
LEMMA NextVersionIn ==
    ASSUME NEW s, NEW from, NextVersion(s, from) # ""
    PROVE  NextVersion(s, from) \in Ids(s)
<1>1. \A i \in Live(s, from) : OutEdges(s, from)[i] \in Ids(s)
  BY DEF Live
<1> QED BY <1>1 DEF NextVersion, LastOf

(* A step in the subgraph below head is a step along an edge of the        *)
(* source, between nodes that are not newer than head and that have the    *)
(* same states there.                                                      *)
LEMMA SubgraphStep ==
    ASSUME NEW s, IsSource(s), NewMemorySourceOK(s), NEW head \in Ids(s), NEW from,
           NextVersion(Subgraph(s, head), from) # ""
    PROVE  LET sub == Subgraph(s, head)
               next == NextVersion(sub, from)
           IN  /\ next \in Elems(OutEdges(s, from))
               /\ {from, next} \subseteq Ids(s) \cap Ids(sub)
               /\ Index(s, head) <= Index(s, from)
               /\ Index(s, head) <= Index(s, next)
               /\ State(sub, from) = State(s, from)
               /\ State(sub, next) = State(s, next)
               /\ OutEdges(sub, from) = OutEdges(s, from)
<1> DEFINE sub == Subgraph(s, head)
           next == NextVersion(sub, from)
<1>1. next \in Elems(OutEdges(sub, from)) /\ next \in Ids(sub)
  BY NextVersionIsEdge, NextVersionIn
<1>2. from \in Ids(sub) /\ OutEdges(sub, from) = OutEdges(s, from)
  <2>1. OutEdges(sub, from) # <<>>
    BY <1>1, NoElems
  <2> QED BY <2>1, SubgraphOut
<1> HIDE DEF next, sub
<1>3. \A id \in Ids(sub) :
          id \in Ids(s) /\ Index(s, head) <= Index(s, id) /\ State(sub, id) = State(s, id)
  BY SubgraphIds DEF sub
<1>4. /\ next \in Elems(OutEdges(s, from))
      /\ {from, next} \subseteq Ids(s) \cap Ids(sub)
      /\ Index(s, head) <= Index(s, from)
      /\ Index(s, head) <= Index(s, next)
      /\ State(sub, from) = State(s, from)
      /\ State(sub, next) = State(s, next)
      /\ OutEdges(sub, from) = OutEdges(s, from)
  BY <1>1, <1>2, <1>3
<1> QED BY <1>4 DEF next, sub

----------------------------------------------------------------------------
(* ComputeTarget *)

(* What the branches of ComputeTarget have in common: the type of what     *)
(* they find, and that a version that carries the migration attribute is   *)
(* followed by one that does.                                              *)
IsRequest(req) ==
    /\ req.version \in Str
    /\ req.channel \in Str

Marked(v) == v = NoVersion \/ "migration" \in Elems(v.attributes)

IsTarget(t) == t.target \in VersionType /\ t.state \in StateType

(* A result is a target, with the given version and state.                 *)
LEMMA FoundIsTarget ==
    ASSUME NEW v \in VersionType, NEW st \in StateType
    PROVE  /\ IsTarget(Found(v, st))
           /\ Found(v, st).target = v
           /\ Found(v, st).state = st
           /\ ~Found(v, st).err
BY DEF IsTarget, Found

(* An error is a target, with no version to mark.                          *)
LEMMA FailedIsTarget == IsTarget(Failed) /\ Marked(Failed.target) /\ Failed.err
BY NoneTyped DEF IsTarget, Failed, Marked

(* A version made for a node of a channel is a version.                    *)
LEMMA VersionTyped ==
    ASSUME NEW n \in Str, NEW c \in Str, NEW a \in Seq(Str)
    PROVE  /\ Version(n, c, a) \in VersionType
           /\ Version(n, c, a).attributes = a
           /\ Version(n, c, a).name = n
           /\ Version(n, c, a).channel = c
BY DEF Version, VersionType

(* The version made for a step with a migration is marked.                 *)
LEMMA MigrationIsMarked ==
    <<"migration">> \in Seq(Str) /\ "migration" \in Elems(<<"migration">>)
BY DEF Elems, Str

(* A first install picks a target.                                         *)
LEMMA InstallIsTarget ==
    ASSUME NEW s, IsSource(s), NEW channel \in Str, NEW version \in Str, NEW rolling
    PROVE  LET t == Install(s, channel, version, rolling)
           IN  IsTarget(t) /\ Marked(t.target)
<1> DEFINE id == IF version # "" THEN version ELSE LatestVersion(s, "")
<1>1. LatestVersion(s, "") \in Str
  <2>1. CASE s.nodes = <<>>
    BY <2>1 DEF LatestVersion, Str
  <2>2. CASE s.nodes # <<>>
    <3>1. s.nodes[1] \in StateType
      BY <2>2 DEF IsSource
    <3>2. s.nodes[1].id \in Str
      BY <3>1 DEF StateType
    <3> QED BY <3>2 DEF LatestVersion, Str
  <2> QED BY <2>1, <2>2
<1>2. id \in Str
  BY <1>1
<1> DEFINE found == Found(Version(id, channel, <<"migration">>), State(s, id))
<1>3. Version(id, channel, <<"migration">>) \in VersionType
        /\ Marked(Version(id, channel, <<"migration">>))
  <2> DEFINE attrs == <<"migration">>
  <2>1. attrs \in Seq(Str) /\ "migration" \in Elems(attrs)
    BY MigrationIsMarked
  <2> HIDE DEF id, attrs
  <2>2. Version(id, channel, attrs) \in VersionType /\ Marked(Version(id, channel, attrs))
    BY <1>2, <2>1, VersionTyped DEF Marked
  <2> QED BY <2>2 DEF attrs
<1>4. State(s, id) \in StateType
  BY StateTyped DEF IsSource
<1>5. IsTarget(found) /\ Marked(found.target)
  <2> HIDE DEF id
  <2> QED BY <1>3, <1>4, FoundIsTarget
<1>6. Install(s, channel, version, rolling) \in {Failed, found}
  BY DEF Install
<1> HIDE DEF found
<1> QED BY <1>5, <1>6, FailedIsTarget

(* So does a step of the walk.                                             *)
LEMMA AdvanceIsTarget ==
    ASSUME NEW s, IsSource(s), NEW channel \in Str, NEW version \in Str,
           NEW current \in VersionType, Marked(current), current # NoVersion, NEW rolling
    PROVE  LET t == Advance(s, channel, version, current, rolling)
           IN  IsTarget(t) /\ Marked(t.target)
<1> DEFINE sub == IF version = "" THEN s ELSE Subgraph(s, version)
           next == NextVersion(sub, current.name)
           attrs == IF next # NextVersionWithoutMigrations(sub, current.name)
                    THEN <<"migration">> ELSE current.attributes
           here == Found([current EXCEPT !.channel = channel], State(s, current.name))
           step == Found(Version(next, channel, attrs), State(sub, next))
<1>1. IsTarget(here) /\ Marked(here.target)
  <2>1. /\ [current EXCEPT !.channel = channel] \in VersionType
        /\ [current EXCEPT !.channel = channel].attributes = current.attributes
    BY DEF VersionType
  <2>2. "migration" \in Elems(current.attributes)
    BY DEF Marked
  <2>3. State(s, current.name) \in StateType
    BY StateTyped DEF IsSource
  <2> QED BY <2>1, <2>2, <2>3, FoundIsTarget, Zenon DEF Marked
<1>2. CASE version = "" \/ version \in Ids(s)
  <2>1. IsSource(sub)
    BY <1>2, SubgraphTyped
  <2>2. next \in Str
    BY <2>1, NextVersionTyped DEF IsSource
  <2>3. attrs \in Seq(Str) /\ "migration" \in Elems(attrs)
    BY MigrationIsMarked DEF Marked, VersionType
  <2>4. Version(next, channel, attrs) \in VersionType /\ Marked(Version(next, channel, attrs))
    <3> HIDE DEF next, attrs
    <3> QED BY <2>2, <2>3, VersionTyped DEF Marked
  <2>5. State(sub, next) \in StateType
    BY <2>1, StateTyped DEF IsSource
  <2>6. IsTarget(step) /\ Marked(step.target)
    BY <2>4, <2>5, FoundIsTarget
  <2>7. Advance(s, channel, version, current, rolling) \in {here, step, Failed}
    BY DEF Advance
  <2> HIDE DEF here, step
  <2> QED BY <1>1, <2>6, <2>7, FailedIsTarget
<1>3. CASE version # "" /\ version \notin Ids(s)
  <2>1. Advance(s, channel, version, current, rolling) \in {here, Failed}
    BY <1>3 DEF Advance
  <2> HIDE DEF here
  <2> QED BY <1>1, <2>1, FailedIsTarget
<1> QED BY <1>2, <1>3

(* So does staying on a version outside the channel.                       *)
LEMMA NotInChannelIsTarget ==
    ASSUME NEW g, IsGraph(g), NEW engine, NEW current \in VersionType, Marked(current),
           current # NoVersion, NEW rolling
    PROVE  LET t == NotInChannel(g, engine, current, rolling)
           IN  IsTarget(t) /\ Marked(t.target) /\ (~t.err => t.target.name = current.name)
<1> DEFINE state == State(SourceForChannel(g, engine, current.channel), current.name)
           new == [current EXCEPT !.attributes = Append(@, "notInDesiredChannel")]
<1>1. /\ new \in VersionType
      /\ new.attributes = Append(current.attributes, "notInDesiredChannel")
      /\ new.name = current.name
  <2> DEFINE attrs == Append(current.attributes, "notInDesiredChannel")
  <2>1. attrs \in Seq(Str)
    <3>1. current.attributes \in Seq(Str)
      BY DEF VersionType
    <3>2. "notInDesiredChannel" \in Str
      BY DEF Str
    <3> HIDE DEF attrs
    <3> QED BY <3>1, <3>2 DEF attrs
  <2>2. new = [current EXCEPT !.attributes = attrs]
    OBVIOUS
  <2> HIDE DEF attrs, new
  <2>3. new \in VersionType /\ new.attributes = attrs /\ new.name = current.name
    BY <2>1, <2>2 DEF VersionType
  <2> QED BY <2>3 DEF attrs
<1>2. "migration" \in Elems(new.attributes)
  <2>1. current.attributes \in Seq(Str)
    BY DEF VersionType
  <2>2. PICK i \in DOMAIN current.attributes : current.attributes[i] = "migration"
    BY DEF Marked, Elems
  <2>3. i \in DOMAIN new.attributes /\ new.attributes[i] = "migration"
    BY <1>1, <2>1, <2>2
  <2> QED BY <2>3 DEF Elems
<1>3. CASE HasSource(g, engine, current.channel)
  <2>1. state \in StateType
    BY <1>3, SourceTyped, StateTyped DEF IsSource
  <2>2. NotInChannel(g, engine, current, rolling) \in {Failed, Found(new, state)}
    BY DEF NotInChannel
  <2>3. /\ IsTarget(Found(new, state))
        /\ Marked(Found(new, state).target)
        /\ Found(new, state).target.name = current.name
    <3> HIDE DEF new, state
    <3> QED BY <1>1, <1>2, <2>1, FoundIsTarget, Zenon DEF Marked
  <2> HIDE DEF new, state
  <2> QED BY <2>2, <2>3, FailedIsTarget
<1>4. CASE ~HasSource(g, engine, current.channel)
  <2>1. NotInChannel(g, engine, current, rolling) = Failed
    BY <1>4 DEF NotInChannel
  <2> QED BY <2>1, FailedIsTarget
<1> QED BY <1>3, <1>4

(* ComputeTarget finds a version and a state, and keeps the migration      *)
(* attribute: once a version carries it, every later one does (file.go:    *)
(* the target starts as a copy of the current version).                    *)
LEMMA ComputeTargetIsTarget ==
    ASSUME NEW g, IsGraph(g), NEW req, IsRequest(req), NEW current \in VersionType,
           Marked(current), NEW rolling
    PROVE  LET t == ComputeTarget(g, req, current, rolling)
           IN  IsTarget(t) /\ Marked(t.target)
<1> DEFINE channel == ChannelFor(g, req, current)
           s == SourceForChannel(g, req.engine, channel)
           t == ComputeTarget(g, req, current, rolling)
<1>1. channel \in Str
  BY DefaultTyped DEF ChannelFor, IsRequest, VersionType
<1>2. CASE req.image = "pinned"
  <2>1. PinnedState \in StateType
    BY NoneTyped DEF PinnedState, StateType, Str
  <2>2. t = Found(NoVersion, PinnedState)
    BY <1>2 DEF ComputeTarget
  <2>3. IsTarget(Found(NoVersion, PinnedState)) /\ Marked(Found(NoVersion, PinnedState).target)
    BY <2>1, NoneTyped, FoundIsTarget DEF Marked
  <2> QED BY <2>2, <2>3
<1>3. CASE req.image # "pinned" /\ ~HasSource(g, req.engine, channel)
  <2>1. t = Failed
    BY <1>3 DEF ComputeTarget
  <2> QED BY <2>1, FailedIsTarget
<1>4. CASE req.image # "pinned" /\ HasSource(g, req.engine, channel)
  <2>1. IsSource(s)
    BY <1>4, SourceTyped
  <2> DEFINE i == Install(s, channel, req.version, rolling)
             a == Advance(s, channel, req.version, current, rolling)
             n == NotInChannel(g, req.engine, current, rolling)
             same == Found(current, State(s, current.name))
  <2>2. IsTarget(i) /\ Marked(i.target)
    <3> HIDE DEF s, channel
    <3> QED BY <1>1, <2>1, InstallIsTarget DEF IsRequest
  <2>3. IsTarget(same) /\ Marked(same.target)
    <3>1. State(s, current.name) \in StateType
      BY <2>1, StateTyped DEF IsSource
    <3> HIDE DEF s
    <3> QED BY <3>1, FoundIsTarget
  <2>4. ASSUME current # NoVersion PROVE IsTarget(a) /\ Marked(a.target)
    <3> HIDE DEF s, channel
    <3> QED BY <1>1, <2>1, <2>4, AdvanceIsTarget DEF IsRequest
  <2>5. ASSUME current # NoVersion PROVE IsTarget(n) /\ Marked(n.target)
    BY <2>5, NotInChannelIsTarget
  <2>6. \/ t \in {Failed, i, same}
        \/ current # NoVersion /\ t \in {a, n}
    BY <1>4 DEF ComputeTarget
  <2> HIDE DEF i, a, n, same, t
  <2>7. IsTarget(t) /\ Marked(t.target)
    BY <2>2, <2>3, <2>4, <2>5, <2>6, FailedIsTarget
  <2> QED BY <2>7 DEF t
<1> QED BY <1>2, <1>3, <1>4

----------------------------------------------------------------------------
(* Paths *)

(* There is a next version.                                               *)
HasNext(s, from) == NextVersion(s, from) # ""

(* One more step from the releases of a set.                               *)
Beyond(s, set) == UNION {{to} \cup Elems(OutEdges(s, to)) : to \in set}

(* Reachable is what a number of steps lead to.                            *)
LEMMA ReachableBySteps ==
    ASSUME NEW s, IsSource(s), NEW id
    PROVE  \E f : /\ f[0] = {id}
                  /\ \A n \in Nat : f[n + 1] = Beyond(s, f[n])
                  /\ Reachable(s, id) = f[Len(s.nodes)]
<1> DEFINE T == SUBSET (Str \cup {id})
           G == [n \in Nat |-> [set \in T |-> Beyond(s, set)]]
<1>1. ASSUME NEW to PROVE Elems(OutEdges(s, to)) \subseteq Str
  BY OutEdgesTyped DEF Elems
<1>2. G \in [Nat -> [T -> T]]
  BY <1>1 DEF Beyond
<1>3. {id} \in T
  OBVIOUS
<1>4. PICK g \in [Nat -> T] : g = [n \in Nat |-> IF n = 0 THEN {id} ELSE G[n][g[n - 1]]]
  <2> HIDE DEF T, G
  <2> QED BY <1>2, <1>3, Recursion
<1>5. g = [n \in Nat |-> IF n = 0 THEN {id} ELSE Beyond(s, g[n - 1])]
  <2>1. ASSUME NEW n \in Nat, n # 0 PROVE G[n][g[n - 1]] = Beyond(s, g[n - 1])
    <3>1. n - 1 \in Nat
      BY <2>1
    <3>2. g[n - 1] \in T
      BY <1>4, <3>1, Zenon
    <3> HIDE DEF T
    <3> QED BY <3>2
  <2> HIDE DEF G, T
  <2> QED BY <1>4, <2>1, Zenon
<1> DEFINE f == CHOOSE f : f = [n \in Nat |-> IF n = 0 THEN {id} ELSE Beyond(s, f[n - 1])]
<1>6. f = [n \in Nat |-> IF n = 0 THEN {id} ELSE Beyond(s, f[n - 1])]
  BY <1>5, SMTT(30)
<1>7. Reachable(s, id) = f[Len(s.nodes)]
  BY DEF Reachable, Beyond
<1> HIDE DEF f
<1>8. f[0] = {id} /\ \A n \in Nat : f[n + 1] = Beyond(s, f[n])
  BY <1>6
<1> QED BY <1>7, <1>8, Zenon

(* Path induction: a set that has the start, and every update of what it   *)
(* has, has all that is reachable.                                         *)
LEMMA PathInduction ==
    ASSUME NEW s, IsSource(s), NEW id, NEW set, id \in set,
           \A x \in set : Elems(OutEdges(s, x)) \subseteq set
    PROVE  Reachable(s, id) \subseteq set
<1>1. PICK f : /\ f[0] = {id}
               /\ \A n \in Nat : f[n + 1] = Beyond(s, f[n])
               /\ Reachable(s, id) = f[Len(s.nodes)]
  BY ReachableBySteps, Zenon
<1> DEFINE S == {n \in Nat : f[n] \subseteq set}
<1>2. 0 \in S
  BY <1>1
<1>3. \A n \in Nat : n \in S => n + 1 \in S
  BY <1>1 DEF Beyond
<1> HIDE DEF S
<1>4. Nat \subseteq S
  BY <1>2, <1>3, Induction
<1>5. Len(s.nodes) \in Nat
  BY DEF IsSource
<1> QED BY <1>1, <1>4, <1>5 DEF S

(* An update leads to a newer release of the source.                       *)
LEMMA UpdateIsNewer ==
    ASSUME NEW s, IsSource(s), NewMemorySourceOK(s), UpdatesLeadForward(s),
           NEW from, NEW to \in Elems(OutEdges(s, from))
    PROVE  /\ from \in Ids(s) /\ to \in Ids(s)
           /\ Index(s, from) \in Nat /\ Index(s, to) \in Nat
           /\ Index(s, to) < Index(s, from)
BY EdgesInside, IndexTyped DEF UpdatesLeadForward

(* Where updates lead forward, as many steps as there are releases lead to *)
(* everything that can be reached: every step leads to a newer release, so *)
(* a release is reached in no more steps than lie between.                 *)
LEMMA ReachableClosed ==
    ASSUME NEW s, IsSource(s), NewMemorySourceOK(s), UpdatesLeadForward(s), NEW id \in Ids(s)
    PROVE  /\ id \in Reachable(s, id)
           /\ \A x \in Reachable(s, id) : Elems(OutEdges(s, x)) \subseteq Reachable(s, id)
<1> DEFINE len == Len(s.nodes)
<1>1. PICK f : /\ f[0] = {id}
               /\ \A n \in Nat : f[n + 1] = Beyond(s, f[n])
               /\ Reachable(s, id) = f[len]
  BY ReachableBySteps, Zenon
<1>2. len \in Nat
  BY DEF IsSource
<1> HIDE DEF len
<1>3. \A n \in Nat : \A x \in f[n] : x \in f[n + 1] /\ Elems(OutEdges(s, x)) \subseteq f[n + 1]
  BY <1>1 DEF Beyond
<1>4. \A n \in Nat : \A m \in 0 .. n : f[m] \subseteq f[n]
  <2> DEFINE S == {n \in Nat : \A m \in 0 .. n : f[m] \subseteq f[n]}
  <2>1. 0 \in S
    OBVIOUS
  <2>2. ASSUME NEW n \in Nat, n \in S PROVE n + 1 \in S
    <3>1. ASSUME NEW m \in 0 .. n + 1 PROVE f[m] \subseteq f[n + 1]
      <4>1. CASE m = n + 1
        BY <4>1
      <4>2. CASE m # n + 1
        <5>1. m \in 0 .. n
          BY <4>2
        <5> QED BY <1>3, <2>2, <5>1
      <4> QED BY <4>1, <4>2
    <3> QED BY <3>1
  <2> HIDE DEF S
  <2>3. Nat \subseteq S
    BY <2>1, <2>2, Induction
  <2> QED BY <2>3 DEF S
<1> DEFINE top == Index(s, id)
           Reached(x) == /\ x \in Ids(s)
                         /\ Index(s, x) \in 1 .. top
                         /\ x \in f[top - Index(s, x)]
<1>5. top \in Nat /\ 1 <= top /\ top <= len
  BY IndexTyped DEF len
<1>6. \A n \in Nat : \A x \in f[n] : Reached(x)
  <2> DEFINE S == {n \in Nat : \A x \in f[n] : Reached(x)}
  <2>1. 0 \in S
    <3>1. Reached(id)
      BY <1>1, <1>5
    <3> HIDE DEF Reached
    <3> QED BY <1>1, <3>1
  <2>2. ASSUME NEW n \in Nat, n \in S PROVE n + 1 \in S
    <3>1. ASSUME NEW y \in f[n + 1] PROVE Reached(y)
      <4>1. PICK x \in f[n] : y = x \/ y \in Elems(OutEdges(s, x))
        BY <1>1 DEF Beyond
      <4>2. Reached(x)
        BY <2>2
      <4>3. CASE y = x
        BY <4>2, <4>3
      <4>4. CASE y \in Elems(OutEdges(s, x))
        <5>1. y \in Ids(s) /\ Index(s, y) \in Nat /\ Index(s, y) < Index(s, x) /\ 1 <= Index(s, y)
          BY <4>4, UpdateIsNewer, IndexTyped
        <5> DEFINE m == top - Index(s, x)
        <5>2. m \in Nat /\ m + 1 \in 0 .. top - Index(s, y) /\ top - Index(s, y) \in Nat
          BY <1>5, <4>2, <5>1
        <5>3. x \in f[m]
          BY <4>2
        <5> HIDE DEF m, top
        <5>4. y \in f[m + 1]
          BY <1>3, <4>4, <5>2, <5>3
        <5>5. y \in f[top - Index(s, y)]
          BY <1>4, <5>2, <5>4
        <5> QED BY <1>5, <4>2, <5>1, <5>5
      <4> QED BY <4>1, <4>3, <4>4
    <3> HIDE DEF Reached
    <3> QED BY <3>1
  <2> HIDE DEF S
  <2>3. Nat \subseteq S
    BY <2>1, <2>2, Induction
  <2> HIDE DEF Reached
  <2> QED BY <2>3 DEF S
<1>7. id \in f[len]
  BY <1>1, <1>2, <1>4
<1>8. ASSUME NEW x \in f[len], NEW y \in Elems(OutEdges(s, x)) PROVE y \in f[len]
  <2>1. y \in f[len + 1] /\ len + 1 \in Nat
    BY <1>2, <1>3
  <2>2. Reached(y)
    <3> HIDE DEF Reached
    <3> QED BY <1>6, <2>1
  <2>3. top - Index(s, y) \in 0 .. len
    BY <1>2, <1>5, <2>2
  <2> QED BY <1>2, <1>4, <2>2, <2>3
<1> QED BY <1>1, <1>7, <1>8

(* What can be reached is not older than the start; what is not the start  *)
(* lies behind one of its updates.                                         *)
LEMMA PathHasStep ==
    ASSUME NEW s, IsSource(s), NewMemorySourceOK(s), UpdatesLeadForward(s),
           NEW from \in Ids(s), NEW to \in Reachable(s, from)
    PROVE  /\ to \in Ids(s) /\ Index(s, to) <= Index(s, from)
           /\ to # from => \E u \in Elems(OutEdges(s, from)) : Index(s, to) <= Index(s, u)
<1> DEFINE Behind(x) ==
              /\ x \in Ids(s) /\ Index(s, x) <= Index(s, from)
              /\ x # from => \E u \in Elems(OutEdges(s, from)) : Index(s, x) <= Index(s, u)
           set == {x \in Ids(s) : Behind(x)}
<1>1. from \in set
  BY IndexTyped
<1>2. ASSUME NEW x \in set, NEW y \in Elems(OutEdges(s, x)) PROVE y \in set
  <2>1. /\ x \in Ids(s) /\ y \in Ids(s) /\ Index(s, x) \in Nat /\ Index(s, y) \in Nat
        /\ Index(s, y) < Index(s, x) /\ Index(s, from) \in Nat
    BY UpdateIsNewer, IndexTyped
  <2>2. Behind(x)
    OBVIOUS
  <2>3. CASE x = from
    BY <2>1, <2>3
  <2>4. CASE x # from
    <3>1. PICK u \in Elems(OutEdges(s, from)) : Index(s, x) <= Index(s, u)
      BY <2>2, <2>4
    <3>2. Index(s, u) \in Nat
      BY UpdateIsNewer
    <3> QED BY <2>1, <2>2, <3>1, <3>2
  <2> QED BY <2>3, <2>4
<1> HIDE DEF Behind
<1>3. Reachable(s, from) \subseteq set
  <2> HIDE DEF set
  <2> QED BY <1>1, <1>2, PathInduction
<1>4. Behind(to)
  BY <1>3
<1> QED BY <1>4 DEF Behind

(* A step keeps everything within reach that it does not pass: whatever    *)
(* path led there, its first update beyond the new version jumps over it,  *)
(* so that the new version has that update too.                            *)
LEMMA StepKeepsPaths ==
    ASSUME NEW s, IsSource(s), NewMemorySourceOK(s), UpdatesLeadForward(s), NoBypass(s),
           NEW from, NEW next \in Elems(OutEdges(s, from)),
           NEW to \in Reachable(s, from), Index(s, to) <= Index(s, next)
    PROVE  to \in Reachable(s, next)
<1> DEFINE Ahead(x) == Index(s, x) <= Index(s, next) => x \in Reachable(s, next)
           set == {x \in Ids(s) : Ahead(x)}
<1>1. /\ from \in Ids(s) /\ next \in Ids(s) /\ Index(s, from) \in Nat /\ Index(s, next) \in Nat
      /\ Index(s, next) < Index(s, from)
  BY UpdateIsNewer
<1>2. /\ next \in Reachable(s, next)
      /\ \A x \in Reachable(s, next) : Elems(OutEdges(s, x)) \subseteq Reachable(s, next)
  BY <1>1, ReachableClosed
<1>3. from \in set
  BY <1>1
<1>4. ASSUME NEW x \in set, NEW y \in Elems(OutEdges(s, x)) PROVE y \in set
  <2>1. /\ x \in Ids(s) /\ y \in Ids(s) /\ Index(s, x) \in Nat /\ Index(s, y) \in Nat
        /\ Index(s, y) < Index(s, x)
    BY UpdateIsNewer
  <2>2. CASE Index(s, x) <= Index(s, next)
    BY <1>2, <2>1, <2>2
  <2>3. CASE Index(s, y) = Index(s, next)
    <3>1. y = next
      BY <1>1, <2>1, <2>3, IndexInjective
    <3> QED BY <1>2, <2>1, <3>1
  <2>4. CASE Index(s, y) < Index(s, next) /\ Index(s, next) < Index(s, x)
    <3>1. x \in DOMAIN s.edges /\ y \in Elems(s.edges[x])
      BY EdgesInside
    <3>2. Index(s, next) \in DOMAIN s.nodes /\ s.nodes[Index(s, next)].id = next
      BY <1>1, IndexIn
    <3>3. y \in Elems(OutEdges(s, next))
      BY <2>4, <3>1, <3>2 DEF NoBypass
    <3> QED BY <1>2, <2>1, <3>3
  <2>5. CASE Index(s, next) < Index(s, y)
    BY <1>1, <2>1, <2>5
  <2> QED BY <1>1, <2>1, <2>2, <2>3, <2>4, <2>5
<1>5. Reachable(s, from) \subseteq set
  <2> HIDE DEF set
  <2> QED BY <1>3, <1>4, PathInduction
<1> QED BY <1>5

(* There is a next version below a head that an update does not pass.      *)
LEMMA NextExists ==
    ASSUME NEW s, IsSource(s), NewMemorySourceOK(s), NamedReleases(s), NEW head \in Ids(s),
           NEW from, NEW u \in Elems(OutEdges(s, from)),
           Index(s, head) <= Index(s, from), Index(s, head) <= Index(s, u)
    PROVE  HasNext(Subgraph(s, head), from)
<1> DEFINE sub == Subgraph(s, head)
           live == Live(sub, from)
<1>1. from \in Ids(s) /\ u \in Ids(s)
  BY EdgesInside
<1>2. from \in Ids(sub) /\ u \in Ids(sub)
  BY <1>1, SubgraphIds
<1>3. OutEdges(sub, from) = OutEdges(s, from)
  BY <1>2, SubgraphOut
<1>4. live # {} /\ live \subseteq DOMAIN OutEdges(sub, from)
  BY <1>2, <1>3 DEF Live, Elems
<1>5. OutEdges(sub, from) \in Seq(Str)
  BY <1>3, OutEdgesTyped
<1> HIDE DEF sub
<1>6. PICK i \in live : NextVersion(sub, from) = OutEdges(sub, from)[i]
  BY <1>4, <1>5, LastOfIsLast DEF NextVersion
<1>7. NextVersion(sub, from) \in Ids(sub)
  BY <1>6 DEF Live
<1>8. NextVersion(sub, from) \in Ids(s)
  BY <1>7, SubgraphIds DEF sub
<1> QED BY <1>8 DEF HasNext, NamedReleases, sub

----------------------------------------------------------------------------
(* Offers *)

(* A direct update is an update to a release with the same phase and       *)
(* migration.                                                              *)
HasDirect(s, from) == NextVersionWithoutMigrations(s, from) # ""

LEMMA DirectIsSame ==
    ASSUME NEW s, IsSource(s), NEW from, HasDirect(s, from)
    PROVE  LET direct == NextVersionWithoutMigrations(s, from)
           IN  /\ direct \in Elems(OutEdges(s, from))
               /\ SameSchema(State(s, direct), State(s, from))
<1> DEFINE out == OutEdges(s, from)
           direct == NextVersionWithoutMigrations(s, from)
           Direct(i) == SameSchema(State(s, out[i]), State(s, from))
           prefix == {i \in Live(s, from) : \A j \in Live(s, from) : j <= i => Direct(j)}
<1>1. direct = LastOf(s, from, prefix)
  BY DEF NextVersionWithoutMigrations, SameSchema
<1>2. prefix \subseteq DOMAIN out /\ out \in Seq(Str)
  BY LiveIsPosition, OutEdgesTyped
<1>3. direct # ""
  BY DEF HasDirect
<1>4. PICK i \in prefix : direct = out[i]
  <2> HIDE DEF prefix, direct
  <2> QED BY <1>1, <1>2, <1>3, LastOfIsLast
<1>5. Direct(i) /\ i \in DOMAIN out
  BY <1>2, <1>4
<1> QED BY <1>4, <1>5 DEF Elems

(* What an optional item, and what several lists of offers, consist of.    *)
LEMMA IfTyped ==
    ASSUME NEW S, NEW cond, NEW x, cond => x \in S PROVE If(cond, <<x>>) \in Seq(S)
<1>1. CASE cond
  BY <1>1 DEF If
<1>2. CASE ~cond
  BY <1>2 DEF If
<1> QED BY <1>1, <1>2

LEMMA SingleTyped == ASSUME NEW S, NEW x \in S PROVE <<x>> \in Seq(S)
OBVIOUS

LEMMA ConcatTyped ==
    ASSUME NEW S, NEW T, NEW a \in Seq(S), NEW b \in Seq(T) PROVE a \o b \in Seq(S \cup T)
<1>1. a \in Seq(S \cup T) /\ b \in Seq(S \cup T)
  OBVIOUS
<1> QED BY <1>1

(* The offers of a channel other than the given one.                       *)
OtherVersions(channel) ==
    [name : Str, channel : Str \ {channel}, attributes : {<<"next">>, <<"next", "migration">>}]

Offered(g, engine, v, n) ==
    If(g[n].name # v.channel /\ g[n].datastore = engine /\ HasSource(g, engine, g[n].name),
       OfferOf(SourceForChannel(g, engine, g[n].name), v))

LEMMA OfferedTyped ==
    ASSUME NEW g, IsGraph(g), NEW engine, NEW v, NEW n
    PROVE  Offered(g, engine, v, n) \in Seq(OtherVersions(v.channel))
<1> DEFINE here == /\ g[n].name # v.channel /\ g[n].datastore = engine
                   /\ HasSource(g, engine, g[n].name)
           c == SourceForChannel(g, engine, g[n].name)
<1>1. CASE ~here
  <2>1. Offered(g, engine, v, n) = <<>>
    BY <1>1 DEF Offered, If
  <2> QED BY <2>1
<1>2. CASE here
  <2>1. IsSource(c) /\ c.name # v.channel /\ c.name \in Str
    BY <1>2, SourceTyped, SourceIsChannel DEF IsGraph
  <2>2. Offered(g, engine, v, n) = OfferOf(c, v)
    BY <1>2 DEF Offered, If
  <2> HIDE DEF c, here
  <2> DEFINE direct == NextVersionWithoutMigrations(c, v.name)
             next == NextVersion(c, v.name)
  <2>3. next \in Str
    BY <2>1, NextVersionTyped DEF IsSource
  <2>4. direct # "" => direct \in Str
    <3>1. ASSUME HasDirect(c, v.name) PROVE direct \in Str
      BY <2>1, <3>1, DirectIsSame, OutEdgesTyped DEF Elems
    <3> QED BY <3>1 DEF HasDirect
  <2>5. OfferOf(c, v) = IF direct # "" THEN <<Version(direct, c.name, <<"next">>)>>
                        ELSE If(next # "", <<Version(next, c.name, <<"next", "migration">>)>>)
    BY DEF OfferOf
  <2> HIDE DEF direct, next
  <2>6. Version(next, c.name, <<"next", "migration">>) \in OtherVersions(v.channel)
    BY <2>1, <2>3 DEF Version, OtherVersions
  <2>7. direct # "" => Version(direct, c.name, <<"next">>) \in OtherVersions(v.channel)
    BY <2>1, <2>4 DEF Version, OtherVersions
  <2>8. If(next # "", <<Version(next, c.name, <<"next", "migration">>)>>) \in Seq(OtherVersions(v.channel))
    BY <2>6, IfTyped
  <2>9. direct # "" => <<Version(direct, c.name, <<"next">>)>> \in Seq(OtherVersions(v.channel))
    BY <2>7, SingleTyped
  <2>10. OfferOf(c, v) \in Seq(OtherVersions(v.channel))
    <3>1. CASE direct # ""
      BY <2>5, <2>9, <3>1
    <3>2. CASE direct = ""
      BY <2>5, <2>8, <3>2
    <3> QED BY <3>1, <3>2
  <2> QED BY <2>2, <2>10
<1> QED BY <1>1, <1>2

(* The other channels make no offer in the given one.                      *)
LEMMA OtherOffersTyped ==
    ASSUME NEW g, IsGraph(g), NEW engine, NEW v
    PROVE  OtherOffers(g, engine, v) \in Seq(OtherVersions(v.channel))
<1> DEFINE T == Seq(OtherVersions(v.channel))
           none == <<>>
           More(n) == Offered(g, engine, v, n)
           G == [n \in Nat |-> [seq \in T |-> seq \o More(n)]]
<1>1. \A n : More(n) \in T
  BY OfferedTyped
<1>2. G \in [Nat -> [T -> T]] /\ none \in T
  <2> HIDE DEF More
  <2>1. ASSUME NEW n \in Nat, NEW seq \in T PROVE seq \o More(n) \in T
    BY <1>1
  <2> HIDE DEF T
  <2>2. G \in [Nat -> [T -> T]]
    BY <2>1
  <2> QED BY <2>2 DEF T
<1>3. PICK h \in [Nat -> T] : h = [n \in Nat |-> IF n = 0 THEN none ELSE G[n][h[n - 1]]]
  <2> HIDE DEF T, G, none
  <2> QED BY <1>2, Recursion, SMTT(30)
<1>4. h = [n \in Nat |-> IF n = 0 THEN none ELSE h[n - 1] \o More(n)]
  <2>1. ASSUME NEW n \in Nat, n # 0 PROVE G[n][h[n - 1]] = h[n - 1] \o More(n)
    <3>1. n - 1 \in Nat
      BY <2>1
    <3>2. h[n - 1] \in T
      BY <1>3, <3>1, Zenon
    <3> HIDE DEF T, More
    <3> QED BY <3>2, Zenon
  <2> HIDE DEF G, T, More, none
  <2> QED BY <1>3, <2>1, Zenon
<1> DEFINE f == CHOOSE f : f = [n \in Nat |-> IF n = 0 THEN none ELSE f[n - 1] \o More(n)]
<1>5. f = [n \in Nat |-> IF n = 0 THEN none ELSE f[n - 1] \o More(n)]
  <2> HIDE DEF More, none
  <2> QED BY <1>4, Zenon
<1>6. OtherOffers(g, engine, v) = f[Len(g)]
  BY DEF OtherOffers, Offered
<1> HIDE DEF f, More, none
<1>7. f[0] = none /\ \A n \in Nat : f[n + 1] = f[n] \o More(n + 1)
  <2>1. f[0] = none
    BY <1>5
  <2>2. ASSUME NEW n \in Nat PROVE f[n + 1] = f[n] \o More(n + 1)
    <3>1. n + 1 \in Nat /\ n + 1 # 0 /\ (n + 1) - 1 = n
      OBVIOUS
    <3> QED BY <1>5, <3>1, Zenon
  <2> QED BY <2>1, <2>2, Zenon
<1> DEFINE S == {n \in Nat : f[n] \in T}
<1>8. 0 \in S
  BY <1>2, <1>7, Zenon
<1>9. ASSUME NEW n \in Nat, n \in S PROVE n + 1 \in S
  <2>1. f[n] \in T /\ More(n + 1) \in T
    BY <1>1, <1>9
  <2>2. f[n] \o More(n + 1) \in T
    BY <2>1
  <2>3. f[n + 1] \in T /\ n + 1 \in Nat
    <3>1. f[n + 1] = f[n] \o More(n + 1)
      BY <1>7, Zenon
    <3> HIDE DEF T
    <3> QED BY <2>2, <3>1
  <2> HIDE DEF T
  <2> QED BY <2>3
<1>10. Nat \subseteq S
  <2> HIDE DEF S
  <2> QED BY <1>8, <1>9, Induction, Zenon
<1> QED BY <1>6, <1>10 DEF IsGraph

Offers(o, attribute) == attribute \in Elems(o.attributes)

(* A "next" offer in the cluster's own channel is the direct update, or    *)
(* else the next version; the latter says that it runs a migration.        *)
LEMMA OwnOffers ==
    ASSUME NEW g, IsGraph(g), NEW engine, NEW v,
           NEW o \in Elems(AvailableVersions(g, engine, v)),
           o.channel = v.channel, Offers(o, "next")
    PROVE  LET s == SourceForChannel(g, engine, v.channel)
               direct == NextVersionWithoutMigrations(s, v.name)
           IN  \/ HasDirect(s, v.name) /\ o.name = direct /\ ~Offers(o, "migration")
               \/ /\ HasNext(s, v.name) /\ o.name = NextVersion(s, v.name) /\ o.name # direct
                  /\ Offers(o, "migration")
<1> DEFINE s == SourceForChannel(g, engine, v.channel)
           direct == NextVersionWithoutMigrations(s, v.name)
           next == NextVersion(s, v.name)
           latest == LatestVersion(s, v.name)
           Latest(n) == If(n = latest, <<"latest">>)
           o1 == Version(direct, v.channel, <<"next">> \o Latest(direct))
           o2 == Version(next, v.channel, <<"next", "migration">> \o Latest(next))
           o3 == Version(latest, v.channel, <<"latest", "migration">>)
           A == {x \in {o1} : HasDirect(s, v.name)}
           B == {x \in {o2} : HasNext(s, v.name) /\ next # direct}
           C == {o3}
           D == OtherVersions(v.channel)
           offers1 == If(direct # "", <<o1>>)
           offers2 == If(next # "" /\ next # direct, <<o2>>)
           offers3 == If(latest # "" /\ next # latest /\ direct # latest, <<o3>>)
           others == OtherOffers(g, engine, v)
<1>1. AvailableVersions(g, engine, v) = offers1 \o offers2 \o offers3 \o others
  BY DEF AvailableVersions
<1>2. offers1 \in Seq(A)
  <2>1. direct # "" => o1 \in A
    BY DEF HasDirect
  <2> HIDE DEF o1, A, direct
  <2> QED BY <2>1, IfTyped
<1>3. offers2 \in Seq(B)
  <2>1. (next # "" /\ next # direct) => o2 \in B
    BY DEF HasNext
  <2> HIDE DEF o2, B, direct, next
  <2> QED BY <2>1, IfTyped
<1>4. offers3 \in Seq(C)
  <2>1. (latest # "" /\ next # latest /\ direct # latest) => o3 \in C
    OBVIOUS
  <2> HIDE DEF o3, C, direct, next, latest
  <2> QED BY <2>1, IfTyped
<1>5. others \in Seq(D)
  BY OtherOffersTyped
<1>6. o \in A \cup B \cup C \cup D
  <2> DEFINE all == AvailableVersions(g, engine, v)
  <2> HIDE DEF A, B, C, D, offers1, offers2, offers3, others
  <2>1. offers1 \o offers2 \in Seq(A \cup B)
    BY <1>2, <1>3, ConcatTyped
  <2>2. (offers1 \o offers2) \o offers3 \in Seq(A \cup B \cup C)
    BY <1>4, <2>1, ConcatTyped
  <2>3. all \in Seq(A \cup B \cup C \cup D)
    BY <1>1, <1>5, <2>2, ConcatTyped
  <2> HIDE DEF all
  <2>4. \A i \in DOMAIN all : all[i] \in A \cup B \cup C \cup D
    BY <2>3
  <2> QED BY <2>4 DEF Elems, all
<1>7. o \notin C
  <2>1. "next" \notin Elems(<<"latest", "migration">>)
    BY DEF Elems
  <2>2. o3.attributes = <<"latest", "migration">>
    BY DEF Version
  <2> QED BY <2>1, <2>2 DEF Offers
<1>8. o \notin D
  BY DEF OtherVersions
<1>9. o \in A => HasDirect(s, v.name) /\ o.name = direct /\ ~Offers(o, "migration")
  <2>1. o1.name = direct /\ o1.attributes = <<"next">> \o Latest(direct)
    BY DEF Version
  <2>2. Latest(direct) \in Seq({"latest"})
    <3> HIDE DEF direct, latest
    <3> QED BY IfTyped
  <2> DEFINE more == Latest(direct)
             attributes == <<"next">> \o more
  <2>3. \A i \in DOMAIN attributes : attributes[i] # "migration"
    <3>1. more \in Seq({"latest"})
      BY <2>2
    <3> HIDE DEF more
    <3>2. <<"next">> \in Seq({"next"})
      OBVIOUS
    <3>3. attributes \in Seq({"next", "latest"})
      BY <3>1, <3>2
    <3> HIDE DEF attributes
    <3> QED BY <3>3
  <2>4. "migration" \notin Elems(attributes)
    <3> HIDE DEF attributes
    <3> QED BY <2>3 DEF Elems
  <2> HIDE DEF direct, latest, attributes
  <2> QED BY <2>1, <2>4, Zenon DEF Offers, attributes
<1>10. o \in B => HasNext(s, v.name) /\ o.name = next /\ next # direct /\ Offers(o, "migration")
  <2>1. o2.name = next /\ o2.attributes = <<"next", "migration">> \o Latest(next)
    BY DEF Version
  <2>2. Latest(next) \in Seq({"latest"})
    <3> HIDE DEF next, latest
    <3> QED BY IfTyped
  <2> DEFINE more == Latest(next)
             attributes == <<"next", "migration">> \o more
  <2>3. 2 \in DOMAIN attributes /\ attributes[2] = "migration"
    <3>1. more \in Seq({"latest"})
      BY <2>2
    <3> HIDE DEF more
    <3> QED BY <3>1, SMTT(30)
  <2>4. "migration" \in Elems(attributes)
    <3> HIDE DEF attributes
    <3> QED BY <2>3 DEF Elems
  <2> QED BY <2>1, <2>4, Zenon DEF Offers
<1> HIDE DEF A, B, C, D, direct, next
<1>11. o \in A \/ o \in B
  BY <1>6, <1>7, <1>8, SMTT(30)
<1> QED BY <1>9, <1>10, <1>11 DEF direct, next

=============================================================================
