--------------------------- MODULE UpgradePathProofs ---------------------------
(***************************************************************************)
(* The tool validate-upgrade-path is right about every update graph whose  *)
(* channels have the shape of the shipped ones, and the operator takes the *)
(* steps that the tool prints.                                             *)
(***************************************************************************)
EXTENDS UpgradePath, UpdateGraphProofs

(* The source is built, and the versions asked about are in it.            *)
Walking == fromVersion # "" /\ verdict # "error"

(* The types, and where the walk can be.                                   *)
TypeInv ==
    /\ TypeOK
    /\ Walking => /\ Channel # "" /\ HasSource(Graph, forDatastore, Channel)
                  /\ lastStep.version \in Ids(Source)

(* The source of a datastore is one of the channels, and valid.            *)
LEMMA SourceFacts ==
    ASSUME HasSource(Graph, forDatastore, Channel)
    PROVE  /\ IsSource(Source) /\ NewMemorySourceOK(Source)
           /\ \E i \in DOMAIN Graph : Source = Graph[i]
           /\ Ids(Source) \subseteq UNION {Ids(Graph[i]) : i \in DOMAIN Graph}
<1>1. IsSource(Source) /\ \E i \in DOMAIN Graph : Source = Graph[i]
  <2>1. IsGraph(Graph)
    BY UpgradePathAssumption
  <2> QED BY <2>1, SourceTyped, SourceIsChannel DEF Source
<1>2. NewMemorySourceOK(Source)
  BY DEF HasSource, Source, SourceForChannel
<1> QED BY <1>1, <1>2

(* The types hold initially.                                               *)
LEMMA TypeInit == Init => TypeInv
<1> SUFFICES ASSUME Init PROVE TypeInv
  OBVIOUS
<1>1. lastStep.version = "" /\ lastStep.hasMigration = FALSE
  BY DEF Init, Start
<1>2. fromVersion = "" /\ toVersion = "" /\ verdict = ""
  BY DEF Init
<1> QED BY <1>1, <1>2 DEF TypeInv, TypeOK, Walking

(* Looking up the versions keeps them.                                     *)
LEMMA TypeLookUp == TypeInv /\ LookUp => TypeInv'
<1> SUFFICES ASSUME TypeInv, LookUp PROVE TypeInv'
  OBVIOUS
<1>1. Channel' = Channel /\ Source' = Source /\ forDatastore' = forDatastore
  BY DEF LookUp, Channel, Source
<1>2. CASE Channel # "" /\ HasSource(Graph, forDatastore, Channel)
  <2>1. PICK f, t \in Ids(Source) \cup {Unknown} :
            /\ fromVersion' = f /\ toVersion' = t
            /\ lastStep' = Start(f)
            /\ verdict' = IF {f, t} \subseteq Ids(Source) THEN "" ELSE "error"
    <3>1. PICK ids \in {Ids(Source)} : \E f, t \in ids \cup {Unknown} :
              /\ fromVersion' = f /\ toVersion' = t
              /\ lastStep' = Start(f)
              /\ verdict' = IF {f, t} \subseteq ids THEN "" ELSE "error"
      BY <1>2 DEF LookUp
    <3>2. PICK f, t \in ids \cup {Unknown} :
              /\ fromVersion' = f /\ toVersion' = t
              /\ lastStep' = Start(f)
              /\ verdict' = IF {f, t} \subseteq ids THEN "" ELSE "error"
      BY <3>1
    <3>3. ids = Ids(Source)
      OBVIOUS
    <3>4. /\ f \in Ids(Source) \cup {Unknown} /\ t \in Ids(Source) \cup {Unknown}
          /\ verdict' = IF {f, t} \subseteq Ids(Source) THEN "" ELSE "error"
      BY <3>2, <3>3
    <3> QED BY <3>2, <3>4
  <2>2. lastStep'.version = f /\ lastStep'.hasMigration = FALSE
    BY <2>1 DEF Start
  <2>3. {f, t} \subseteq {"", Unknown} \cup UNION {Ids(Graph[i]) : i \in DOMAIN Graph}
    BY <1>2, SourceFacts
  <2>4. CASE {f, t} \subseteq Ids(Source)
    BY <1>1, <1>2, <2>1, <2>2, <2>3, <2>4 DEF TypeInv, TypeOK, Walking
  <2>5. CASE ~({f, t} \subseteq Ids(Source))
    BY <1>1, <2>1, <2>2, <2>3, <2>5 DEF TypeInv, TypeOK, Walking
  <2> QED BY <2>4, <2>5
<1>3. CASE ~(Channel # "" /\ HasSource(Graph, forDatastore, Channel))
  <2>1. verdict' = "error" /\ UNCHANGED <<fromVersion, toVersion, lastStep>>
    BY <1>3 DEF LookUp
  <2> QED BY <1>1, <2>1 DEF TypeInv, TypeOK, Walking
<1> QED BY <1>2, <1>3

(* The next version of the tool's walk.                                    *)
Following == NextVersion(Subgraph(Source, toVersion), lastStep.version)

(* A round of the loop ends the walk or takes a step in the subgraph.      *)
LEMMA RoundFacts ==
    ASSUME TypeInv, validateUpgrade
    PROVE  /\ fromVersion # "" /\ verdict = "" /\ Walking
           /\ UNCHANGED <<forDatastore, fromVersion, toVersion>>
           /\ Source' = Source /\ Channel' = Channel
           /\ Channel # "" /\ HasSource(Graph, forDatastore, Channel)
           /\ {fromVersion, toVersion, lastStep.version} \subseteq Ids(Source)
           /\ \/ /\ lastStep.version = toVersion
                 /\ verdict' \in {"same", "supported"} /\ UNCHANGED lastStep
              \/ /\ lastStep.version # toVersion
                 /\ ~HasNext(Subgraph(Source, toVersion), lastStep.version)
                 /\ verdict' = "unsupported" /\ UNCHANGED lastStep
              \/ /\ lastStep.version # toVersion
                 /\ HasNext(Subgraph(Source, toVersion), lastStep.version)
                 /\ lastStep'.version = Following
                 /\ lastStep'.hasMigration =
                       ~SameSchema(State(Source, Following), State(Source, lastStep.version))
                 /\ UNCHANGED verdict
<1>1. fromVersion # "" /\ verdict = "" /\ Walking
  BY DEF validateUpgrade, Round, Walking
<1>2. UNCHANGED <<forDatastore, fromVersion, toVersion>>
  BY DEF validateUpgrade, Round
<1>3. Source' = Source /\ Channel' = Channel
  BY <1>2 DEF Source, Channel
<1>4. /\ Channel # "" /\ HasSource(Graph, forDatastore, Channel)
      /\ {fromVersion, toVersion, lastStep.version} \subseteq Ids(Source)
  BY <1>1 DEF TypeInv, TypeOK, Walking
<1>5. \/ /\ lastStep.version = toVersion
         /\ verdict' \in {"same", "supported"} /\ UNCHANGED lastStep
      \/ /\ lastStep.version # toVersion
         /\ ~HasNext(Subgraph(Source, toVersion), lastStep.version)
         /\ verdict' = "unsupported" /\ UNCHANGED lastStep
      \/ /\ lastStep.version # toVersion
         /\ HasNext(Subgraph(Source, toVersion), lastStep.version)
         /\ lastStep'.version = Following
         /\ lastStep'.hasMigration =
               ~SameSchema(State(Source, Following), State(Source, lastStep.version))
         /\ UNCHANGED verdict
  <2> DEFINE new  == State(Source, Following)
             prev == State(Source, lastStep.version)
             migrates == new.migration # prev.migration \/ new.phase # prev.phase
  <2>1. Round(Following, migrates)
    BY DEF validateUpgrade, Following
  <2>2. migrates = ~SameSchema(new, prev)
    BY DEF SameSchema
  <2>3. HasNext(Subgraph(Source, toVersion), lastStep.version) <=> Following # ""
    BY DEF HasNext, Following
  <2> HIDE DEF new, prev, migrates
  <2>4. CASE lastStep.version = toVersion
    BY <2>1, <2>4 DEF Round
  <2>5. CASE lastStep.version # toVersion /\ Following = ""
    BY <2>1, <2>3, <2>5 DEF Round
  <2>6. CASE lastStep.version # toVersion /\ Following # ""
    <3>1. lastStep' = [version |-> Following, hasMigration |-> migrates] /\ UNCHANGED verdict
      BY <2>1, <2>6 DEF Round
    <3>2. lastStep'.version = Following /\ lastStep'.hasMigration = migrates
      BY <3>1
    <3> QED BY <2>2, <2>3, <2>6, <3>1, <3>2 DEF new, prev
  <2> QED BY <2>4, <2>5, <2>6
<1> QED BY <1>1, <1>2, <1>3, <1>4, <1>5

(* A round keeps the types: the next version is one of the source.         *)
LEMMA TypeRound == TypeInv /\ validateUpgrade => TypeInv'
<1> SUFFICES ASSUME TypeInv, validateUpgrade PROVE TypeInv'
  OBVIOUS
<1>1. /\ IsSource(Source) /\ NewMemorySourceOK(Source)
      /\ Ids(Source) \subseteq UNION {Ids(Graph[i]) : i \in DOMAIN Graph}
  BY RoundFacts, SourceFacts
<1>2. /\ UNCHANGED <<forDatastore, fromVersion, toVersion>>
      /\ Source' = Source /\ Channel' = Channel
      /\ Channel # "" /\ HasSource(Graph, forDatastore, Channel)
      /\ {fromVersion, toVersion, lastStep.version} \subseteq Ids(Source)
  BY RoundFacts
<1>3. lastStep'.version \in Ids(Source) /\ lastStep'.hasMigration \in BOOLEAN
  <2>1. CASE UNCHANGED lastStep
    BY <1>2, <2>1 DEF TypeInv, TypeOK
  <2>2. CASE /\ HasNext(Subgraph(Source, toVersion), lastStep.version)
             /\ lastStep'.version = Following
             /\ lastStep'.hasMigration =
                   ~SameSchema(State(Source, Following), State(Source, lastStep.version))
    <3>1. Following \in Ids(Source)
      BY <1>1, <1>2, <2>2, SubgraphStep DEF HasNext, Following
    <3> QED BY <2>2, <3>1
  <2> QED BY <2>1, <2>2, RoundFacts
<1>4. verdict' \in {"", "error", "same", "supported", "unsupported"}
  BY RoundFacts
<1> QED BY <1>1, <1>2, <1>3, <1>4 DEF TypeInv, TypeOK, Walking

(* The types always hold.                                                  *)
LEMMA TypeInvariant == Spec => []TypeInv
<1>1. TypeInv /\ [Next]_vars => TypeInv'
  <2> SUFFICES ASSUME TypeInv, UNCHANGED vars PROVE TypeInv'
    BY TypeLookUp, TypeRound DEF Next
  <2> QED BY DEF vars, TypeInv, TypeOK, Walking, Source, Channel
<1> QED BY <1>1, TypeInit, PTL DEF Spec

(* The tool walks through releases of the datastore's channel only, in any *)
(* graph: what it looks up and prints is always known there.               *)
THEOREM UpgradePathTypeOK == Spec => []TypeOK
<1>1. TypeInv => TypeOK
  BY DEF TypeInv
<1> QED BY <1>1, TypeInvariant, PTL

----------------------------------------------------------------------------
(* The verdict *)

(* The shape of the channels that the walk of the tool relies on.          *)
WellShaped ==
    \A i \in DOMAIN Graph :
        NamedReleases(Graph[i]) /\ UpdatesLeadForward(Graph[i]) /\ NoBypass(Graph[i])

Within(to, from) == to \in Reachable(Source, from)

(* The walk is on a path from the one version, and still on one to the     *)
(* other if there was one; it says what it has found.                      *)
VerdictInv ==
    /\ TypeInv
    /\ fromVersion = "" => verdict \in {"", "error"}
    /\ Walking => /\ Within(lastStep.version, fromVersion)
                  /\ Within(toVersion, fromVersion) => Within(toVersion, lastStep.version)
                  /\ verdict \in {"same", "supported"} => lastStep.version = toVersion
                  /\ verdict = "unsupported" => ~Within(toVersion, fromVersion)

(* The shape of the source.                                                *)
LEMMA SourceShaped ==
    ASSUME WellShaped, HasSource(Graph, forDatastore, Channel)
    PROVE  /\ IsSource(Source) /\ NewMemorySourceOK(Source)
           /\ NamedReleases(Source) /\ UpdatesLeadForward(Source) /\ NoBypass(Source)
BY SourceFacts DEF WellShaped

(* A version is within reach of itself, so the walk starts on a path.      *)
LEMMA VerdictLookUp ==
    ASSUME WellShaped, VerdictInv, LookUp PROVE VerdictInv'
<1>1. TypeInv'
  BY TypeLookUp DEF VerdictInv
<1>2. Source' = Source /\ Channel' = Channel /\ forDatastore' = forDatastore
  BY DEF LookUp, Channel, Source
<1>3. verdict' \in {"", "error"}
  BY DEF LookUp
<1>4. ASSUME Walking' PROVE lastStep'.version = fromVersion'
  <2>1. \E f : fromVersion' = f /\ lastStep' = Start(f)
    BY <1>4 DEF LookUp, Walking
  <2> QED BY <2>1 DEF Start
<1>5. ASSUME Walking' PROVE Within(fromVersion, fromVersion)'
  <2>1. fromVersion' \in Ids(Source) /\ HasSource(Graph, forDatastore, Channel)
    BY <1>1, <1>2, <1>5 DEF TypeInv, TypeOK, Walking
  <2>2. fromVersion' \in Reachable(Source, fromVersion')
    BY <2>1, SourceShaped, ReachableClosed
  <2> QED BY <1>2, <2>2 DEF Within
<1> QED BY <1>1, <1>3, <1>4, <1>5 DEF VerdictInv

(* A round keeps it: a step in the subgraph below the other version does   *)
(* not pass that version, so it keeps a path there; and where there is no  *)
(* step, there was no path.                                                *)
LEMMA VerdictRound ==
    ASSUME WellShaped, VerdictInv, validateUpgrade PROVE VerdictInv'
<1> DEFINE v == lastStep.version
<1>1. TypeInv /\ TypeInv'
  BY TypeRound DEF VerdictInv
<1>2. /\ fromVersion # "" /\ verdict = "" /\ Walking
      /\ UNCHANGED <<forDatastore, fromVersion, toVersion>>
      /\ Source' = Source
      /\ HasSource(Graph, forDatastore, Channel)
      /\ {fromVersion, toVersion, v} \subseteq Ids(Source)
  BY <1>1, RoundFacts
<1>3. /\ IsSource(Source) /\ NewMemorySourceOK(Source)
      /\ NamedReleases(Source) /\ UpdatesLeadForward(Source) /\ NoBypass(Source)
  BY <1>2, SourceShaped
<1>4. /\ v \in Reachable(Source, fromVersion)
      /\ toVersion \in Reachable(Source, fromVersion) => toVersion \in Reachable(Source, v)
  BY <1>2 DEF VerdictInv, Within
<1>5. CASE /\ v = toVersion
           /\ verdict' \in {"same", "supported"} /\ UNCHANGED lastStep
  BY <1>1, <1>2, <1>4, <1>5 DEF VerdictInv, Within
<1>6. CASE /\ v # toVersion /\ ~HasNext(Subgraph(Source, toVersion), v)
           /\ verdict' = "unsupported" /\ UNCHANGED lastStep
  <2>1. ASSUME toVersion \in Reachable(Source, v) PROVE FALSE
    <3>1. /\ Index(Source, toVersion) <= Index(Source, v)
          /\ \E u \in Elems(OutEdges(Source, v)) : Index(Source, toVersion) <= Index(Source, u)
      BY <1>2, <1>3, <1>6, <2>1, PathHasStep
    <3>2. HasNext(Subgraph(Source, toVersion), v)
      BY <1>2, <1>3, <3>1, NextExists
    <3> QED BY <1>6, <3>2
  <2> QED BY <1>1, <1>2, <1>4, <1>6, <2>1 DEF VerdictInv, Within
<1>7. CASE /\ HasNext(Subgraph(Source, toVersion), v)
           /\ lastStep'.version = Following /\ UNCHANGED verdict
  <2>1. /\ Following \in Elems(OutEdges(Source, v))
        /\ Index(Source, toVersion) <= Index(Source, Following)
    BY <1>2, <1>3, <1>7, SubgraphStep DEF HasNext, Following
  <2> HIDE DEF v
  <2>2. Following \in Reachable(Source, fromVersion)
    BY <1>2, <1>3, <1>4, <2>1, ReachableClosed
  <2>3. toVersion \in Reachable(Source, v) => toVersion \in Reachable(Source, Following)
    BY <1>3, <2>1, StepKeepsPaths
  <2> QED BY <1>1, <1>2, <1>4, <1>7, <2>2, <2>3 DEF VerdictInv, Within, v
<1> QED BY <1>1, <1>5, <1>6, <1>7, RoundFacts

(* The invariant always holds.                                             *)
LEMMA VerdictInvariant == ASSUME WellShaped PROVE Spec => []VerdictInv
<1>1. Init => VerdictInv
  BY TypeInit DEF VerdictInv, Init, Walking
<1>2. VerdictInv /\ [Next]_vars => VerdictInv'
  <2> SUFFICES ASSUME VerdictInv, UNCHANGED vars PROVE VerdictInv'
    BY VerdictLookUp, VerdictRound DEF Next
  <2>1. TypeInv'
    BY DEF VerdictInv, vars, TypeInv, TypeOK, Walking, Source, Channel
  <2> QED BY <2>1 DEF VerdictInv, vars, Walking, Within, Source, Channel
<1> QED BY <1>1, <1>2, PTL DEF Spec

(* The default channel of a datastore, as Paths finds it.                  *)
LEMMA PathsOfSource ==
    ASSUME HasSource(Graph, forDatastore, Channel), NEW from \in Ids(Source), NEW to
    PROVE  <<forDatastore, from, to>> \in Paths <=> Within(to, from)
<1> DEFINE At(d) == ChannelAt(Graph, d, DefaultChannelForDatastore(Graph, d))
           Stores == {Graph[j].datastore : j \in DOMAIN Graph}
<1>1. ASSUME NEW d, At(d) # 0
      PROVE  At(d) \in DOMAIN Graph /\ Graph[At(d)].datastore = d
  <2> DEFINE set == {i \in DOMAIN Graph :
                        Graph[i].name = DefaultChannelForDatastore(Graph, d) /\ Graph[i].datastore = d}
  <2>1. set \subseteq Nat /\ set # {}
    <3>1. IsGraph(Graph)
      BY UpgradePathAssumption
    <3>2. DOMAIN Graph \subseteq Nat
      BY <3>1 DEF IsGraph
    <3>3. set # {}
      BY <1>1 DEF ChannelAt, FirstChannel
    <3> QED BY <3>2, <3>3
  <2>2. At(d) \in set
    BY <2>1, FirstChannelIn DEF ChannelAt
  <2> QED BY <2>2
<1>2. At(forDatastore) # 0 /\ Source = Graph[At(forDatastore)]
  BY DEF HasSource, Source, SourceForChannel, Channel
<1>3. ASSUME Within(to, from) PROVE <<forDatastore, from, to>> \in Paths
  <2>1. forDatastore \in Stores
    BY <1>1, <1>2
  <2> DEFINE i == At(forDatastore)
  <2>2. i \in {At(d) : d \in Stores} \ {0}
    BY <1>2, <2>1
  <2>3. Graph[i].datastore = forDatastore /\ from \in Ids(Graph[i]) /\ to \in Reachable(Graph[i], from)
    BY <1>1, <1>2, <1>3 DEF Within
  <2> QED BY <2>2, <2>3 DEF Paths
<1>4. ASSUME <<forDatastore, from, to>> \in Paths PROVE Within(to, from)
  <2>1. PICK i \in {At(d) : d \in Stores} \ {0} :
            \E id \in Ids(Graph[i]) :
                <<forDatastore, from, to>> \in {Graph[i].datastore} \X {id} \X Reachable(Graph[i], id)
    BY <1>4 DEF Paths
  <2>2. Graph[i].datastore = forDatastore /\ to \in Reachable(Graph[i], from)
    BY <2>1
  <2>3. i = At(forDatastore)
    BY <1>1, <2>1, <2>2
  <2> QED BY <1>2, <2>2, <2>3 DEF Within
<1> QED BY <1>3, <1>4

(* The tool is right about every pair of versions of every graph of that   *)
(* shape: it says "supported" exactly if a path of updates leads there,    *)
(* although it only ever follows the last update listed.                   *)
THEOREM UpgradePathVerdictIsRight == ASSUME WellShaped PROVE Spec => []VerdictIsRight
<1>1. ASSUME VerdictInv PROVE VerdictIsRight
  <2>1. CASE verdict \in {"", "error"}
    BY <2>1 DEF VerdictIsRight
  <2>2. CASE verdict \notin {"", "error"}
    <3>1. Walking /\ HasSource(Graph, forDatastore, Channel) /\ fromVersion \in Ids(Source)
      BY <1>1, <2>2 DEF VerdictInv, TypeInv, TypeOK, Walking
    <3>2. <<forDatastore, fromVersion, toVersion>> \in Paths <=> Within(toVersion, fromVersion)
      BY <3>1, PathsOfSource
    <3>3. /\ verdict = "unsupported" => ~Within(toVersion, fromVersion)
          /\ verdict \in {"same", "supported"} => Within(toVersion, fromVersion)
      BY <1>1, <3>1 DEF VerdictInv
    <3> QED BY <3>2, <3>3 DEF VerdictIsRight
  <2> QED BY <2>1, <2>2
<1> QED BY <1>1, VerdictInvariant, PTL

----------------------------------------------------------------------------
(* The steps of the operator *)

(* Where updates ascend and no schema returns, the next version is a       *)
(* direct update exactly if it has the phase and migration of the version: *)
(* all that the loop of NextVersionWithoutMigrations passes on the way     *)
(* lies between the two.                                                   *)
LEMMA DirectIffSameSchema ==
    ASSUME NEW s, IsSource(s), NewMemorySourceOK(s), UpdatesLeadForward(s), UpdatesAscend(s),
           SchemaNeverReturns(s), NEW from,
           NEW sub, sub = s \/ \E head \in Ids(s) : sub = Subgraph(s, head),
           HasNext(sub, from)
    PROVE  LET next == NextVersion(sub, from)
           IN  next = NextVersionWithoutMigrations(sub, from)
                  <=> SameSchema(State(s, next), State(s, from))
<1> DEFINE out == OutEdges(s, from)
           live == Live(sub, from)
           next == NextVersion(sub, from)
           direct == NextVersionWithoutMigrations(sub, from)
           Direct(i) == SameSchema(State(s, out[i]), State(s, from))
           prefix == {i \in live : \A j \in live : j <= i => Direct(j)}
<1>1. /\ from \in Ids(s) /\ next \in Ids(s)
      /\ State(sub, from) = State(s, from)
      /\ OutEdges(sub, from) = out
      /\ next \in Elems(out)
  <2>1. CASE sub = s
    <3>1. next \in Elems(out)
      BY <2>1, NextVersionIsEdge DEF HasNext
    <3> QED BY <2>1, <3>1, EdgesInside
  <2>2. ASSUME NEW head \in Ids(s), sub = Subgraph(s, head)
        PROVE  /\ from \in Ids(s) /\ next \in Ids(s)
               /\ State(sub, from) = State(s, from)
               /\ OutEdges(sub, from) = out
               /\ next \in Elems(out)
    BY <2>2, SubgraphStep DEF HasNext
  <2> QED BY <2>1, <2>2
<1>2. from \in DOMAIN s.edges /\ out = s.edges[from] /\ out \in Seq(Str)
  BY <1>1, EdgesInside DEF IsSource
<1>3. live \subseteq DOMAIN out /\ live \subseteq Nat
  BY <1>1, <1>2 DEF Live
<1>4. \A i \in live : out[i] \in Ids(s) /\ State(sub, out[i]) = State(s, out[i])
  <2>1. \A i \in live : out[i] \in Ids(sub)
    BY <1>1 DEF Live
  <2>2. \A x \in Ids(sub) : x \in Ids(s) /\ State(sub, x) = State(s, x)
    BY SubgraphIds
  <2> QED BY <2>1, <2>2
<1>5. PICK i \in live : (\A j \in live : j <= i) /\ next = out[i]
  <2>1. live # {}
    BY DEF HasNext, NextVersion, LastOf
  <2>2. next = LastOf(sub, from, live)
    BY DEF NextVersion
  <2>3. OutEdges(sub, from) \in Seq(Str) /\ live \subseteq DOMAIN OutEdges(sub, from)
    BY <1>1, <1>2, <1>3
  <2> HIDE DEF live, next, out
  <2> QED BY <1>1, <2>1, <2>2, <2>3, LastOfIsLast
<1>6. direct = LastOf(sub, from, prefix)
  BY <1>1, <1>4 DEF NextVersionWithoutMigrations, SameSchema
<1> HIDE DEF live, next, direct, out
<1>7. prefix \subseteq DOMAIN OutEdges(sub, from) /\ prefix \subseteq live
  BY <1>1, <1>3
<1>8. OutEdges(sub, from) \in Seq(Str) /\ out = OutEdges(sub, from)
  BY <1>1, <1>2
<1>9. ASSUME next = direct PROVE SameSchema(State(s, next), State(s, from))
  <2>1. prefix # {}
    <3>1. next # ""
      BY DEF HasNext, next
    <3> HIDE DEF prefix
    <3> QED BY <1>1, <1>2, <1>6, <1>7, <1>9, <3>1, LastOfIsLast
  <2>2. PICK k \in prefix : direct = out[k]
    <3> HIDE DEF prefix
    <3> QED BY <1>8, <1>6, <1>7, <2>1, LastOfIsLast
  <2>3. Direct(k)
    BY <1>3, <2>2
  <2> QED BY <1>9, <2>2, <2>3
<1>10. ASSUME SameSchema(State(s, next), State(s, from)) PROVE next = direct
  <2>1. ASSUME NEW j \in live PROVE Direct(j)
    <3>1. out[j] \in Ids(s) /\ out[j] \in Elems(out)
      BY <1>3, <1>4 DEF Elems
    <3>2. Index(s, next) <= Index(s, out[j]) /\ Index(s, out[j]) <= Index(s, from)
      <4>1. Index(s, next) <= Index(s, out[j])
        BY <1>2, <1>3, <1>5 DEF UpdatesAscend
      <4>2. Index(s, out[j]) <= Index(s, from)
        BY <3>1, UpdateIsNewer DEF out
      <4> QED BY <4>1, <4>2
    <3>3. \A x \in Ids(s) : Index(s, x) \in DOMAIN s.nodes /\ State(s, x) = s.nodes[Index(s, x)]
      BY IndexIn DEF State
    <3> QED BY <1>1, <1>10, <3>1, <3>2, <3>3 DEF SchemaNeverReturns
  <2>2. i \in prefix
    BY <2>1
  <2>3. PICK k \in prefix : (\A j \in prefix : j <= k) /\ direct = out[k]
    <3> HIDE DEF prefix
    <3> QED BY <1>8, <1>6, <1>7, <2>2, LastOfIsLast
  <2>4. k = i
    BY <1>3, <1>5, <1>7, <2>2, <2>3
  <2> QED BY <1>5, <2>3, <2>4
<1> QED BY <1>9, <1>10 DEF next, direct

(* What the operator computes for a cluster on the last step of the path.  *)
Taken == ComputeTarget(Graph, PinOn(toVersion), StatusOn(lastStep.version), FALSE)

(* It takes the next version in the subgraph.                              *)
LEMMA TargetTakes ==
    ASSUME Channel # "", HasSource(Graph, forDatastore, Channel), NamedReleases(Source),
           {toVersion, lastStep.version} \subseteq Ids(Source), lastStep.version # toVersion,
           HasNext(Subgraph(Source, toVersion), lastStep.version)
    PROVE  /\ ~Taken.err
           /\ Taken.target.name = Following
           /\ Taken.state = State(Subgraph(Source, toVersion), Following)
<1> DEFINE status == StatusOn(lastStep.version)
           req == PinOn(toVersion)
           sub == Subgraph(Source, toVersion)
           attributes == IF Following # NextVersionWithoutMigrations(sub, lastStep.version)
                         THEN <<"migration">> ELSE status.attributes
           advance == Advance(Source, Channel, toVersion, status, FALSE)
<1>1. status.name = lastStep.version /\ status.channel = Channel
  BY DEF StatusOn, Version
<1>2. /\ req.image = "" /\ req.base = TRUE /\ req.version = toVersion
      /\ req.channel = "" /\ req.engine = forDatastore
  BY DEF PinOn
<1>3. toVersion # "" /\ lastStep.version # "" /\ Following # ""
  BY DEF NamedReleases, HasNext, Following
<1> HIDE DEF status, req
<1>4. status # NoVersion
  <2>1. NoVersion.name = ""
    BY DEF NoVersion
  <2> QED BY <1>1, <1>3, <2>1
<1>5. ChannelFor(Graph, req, status) = Channel
  BY <1>1, <1>2 DEF ChannelFor
<1>6. Taken = advance
  <2>1. Source = SourceForChannel(Graph, req.engine, Channel)
    BY <1>2 DEF Source
  <2>2. HasSource(Graph, req.engine, Channel)
    BY <1>2
  <2>3. status.name \in Ids(Source) /\ status.name # req.version
    BY <1>1, <1>2
  <2>4. Taken = ComputeTarget(Graph, req, status, FALSE)
    BY DEF Taken, status, req
  <2> QED BY <1>2, <1>4, <1>5, <2>1, <2>2, <2>3, <2>4, ZenonT(30) DEF ComputeTarget
<1>7. advance = Found(Version(Following, Channel, attributes), State(sub, Following))
  <2>1. NextVersion(Subgraph(Source, toVersion), status.name) = Following
    BY <1>1 DEF Following
  <2> QED BY <1>1, <1>3, <2>1 DEF Advance
<1> HIDE DEF advance, attributes, sub
<1> QED BY <1>6, <1>7 DEF Found, Version, sub

(* An update that the status offers as the next one is marked as a         *)
(* migration exactly if it has another phase or migration.                 *)
LEMMA OfferMarks ==
    ASSUME HasSource(Graph, forDatastore, Channel),
           IsSource(Source), NewMemorySourceOK(Source), UpdatesLeadForward(Source),
           UpdatesAscend(Source), SchemaNeverReturns(Source),
           NEW offer \in Elems(AvailableVersions(Graph, forDatastore, StatusOn(lastStep.version))),
           offer.channel = Channel, Offers(offer, "next")
    PROVE  Offers(offer, "migration")
              <=> ~SameSchema(State(Source, offer.name), State(Source, lastStep.version))
<1> DEFINE status == StatusOn(lastStep.version)
           direct == NextVersionWithoutMigrations(Source, lastStep.version)
<1>1. status.name = lastStep.version /\ status.channel = Channel
  BY DEF StatusOn, Version
<1>2. SourceForChannel(Graph, forDatastore, Channel) = Source
  BY DEF Source
<1>3. IsGraph(Graph)
  BY UpgradePathAssumption
<1> HIDE DEF status
<1>4. \/ HasDirect(Source, status.name) /\ ~Offers(offer, "migration")
         /\ offer.name = NextVersionWithoutMigrations(Source, status.name)
      \/ /\ HasNext(Source, status.name) /\ offer.name = NextVersion(Source, status.name)
         /\ offer.name # NextVersionWithoutMigrations(Source, status.name)
         /\ Offers(offer, "migration")
  <2>1. offer \in Elems(AvailableVersions(Graph, forDatastore, status))
    BY DEF status
  <2> QED BY <1>1, <1>2, <1>3, <2>1, OwnOffers
<1>5. CASE /\ HasDirect(Source, lastStep.version) /\ offer.name = direct
           /\ ~Offers(offer, "migration")
  BY <1>5, DirectIsSame
<1>6. CASE /\ HasNext(Source, lastStep.version) /\ offer.name # direct
           /\ offer.name = NextVersion(Source, lastStep.version) /\ Offers(offer, "migration")
  BY <1>6, DirectIffSameSchema
<1> QED BY <1>1, <1>4, <1>5, <1>6

(* The shape that the marks of the steps rely on.                          *)
OrderedUpdates ==
    \A i \in DOMAIN Graph :
        /\ NamedReleases(Graph[i]) /\ UpdatesLeadForward(Graph[i])
        /\ UpdatesAscend(Graph[i]) /\ SchemaNeverReturns(Graph[i])

(* On every graph of that shape, the operator takes each step that the     *)
(* tool prints, to a release of another phase or migration exactly if the  *)
(* tool says that the step has one.  Where the status offers the step as   *)
(* the next update it says the same, although the tool compares two        *)
(* releases and the operator two walks.                                    *)
THEOREM UpgradePathOperatorAgrees == ASSUME OrderedUpdates PROVE Spec => OperatorAgrees
<1> DEFINE Told(offer) == Offers(offer, "migration") <=> lastStep'.hasMigration
           Seen == Elems(AvailableVersions(Graph, forDatastore, StatusOn(lastStep.version)))
           Agrees ==
              lastStep.version # lastStep'.version /\ fromVersion # "" =>
                 /\ ~Taken.err
                 /\ Taken.target.name = lastStep'.version
                 /\ SameSchema(Taken.state, State(Source, lastStep.version))
                       <=> ~lastStep'.hasMigration
                 /\ \A offer \in Seen :
                       /\ offer.name = lastStep'.version /\ offer.channel = Channel
                       /\ Offers(offer, "next")
                       => Told(offer)
<1>1. ASSUME TypeInv, validateUpgrade, lastStep.version # lastStep'.version PROVE Agrees
  <2> DEFINE sub == Subgraph(Source, toVersion)
  <2>1. /\ Channel # "" /\ HasSource(Graph, forDatastore, Channel)
        /\ {toVersion, lastStep.version} \subseteq Ids(Source) /\ lastStep.version # toVersion
        /\ HasNext(sub, lastStep.version)
        /\ lastStep'.version = Following
        /\ lastStep'.hasMigration =
              ~SameSchema(State(Source, Following), State(Source, lastStep.version))
    BY <1>1, RoundFacts
  <2>2. /\ IsSource(Source) /\ NewMemorySourceOK(Source)
        /\ NamedReleases(Source) /\ UpdatesLeadForward(Source)
        /\ UpdatesAscend(Source) /\ SchemaNeverReturns(Source)
    BY <2>1, SourceFacts DEF OrderedUpdates
  <2>3. ~Taken.err /\ Taken.target.name = Following /\ Taken.state = State(sub, Following)
    BY <2>1, <2>2, TargetTakes
  <2>4. State(sub, Following) = State(Source, Following)
    BY <2>1, <2>2, SubgraphStep DEF HasNext, Following
  <2>5. SameSchema(Taken.state, State(Source, lastStep.version)) <=> ~lastStep'.hasMigration
    BY <2>1, <2>3, <2>4, Zenon
  <2>6. ASSUME NEW offer \in Seen, offer.name = lastStep'.version, offer.channel = Channel,
               Offers(offer, "next")
        PROVE  Told(offer)
    <3>1. Offers(offer, "migration")
             <=> ~SameSchema(State(Source, offer.name), State(Source, lastStep.version))
      BY <2>1, <2>2, <2>6, OfferMarks
    <3> QED BY <2>1, <2>6, <3>1, Zenon
  <2> HIDE DEF Told, Seen
  <2> QED BY <2>1, <2>3, <2>5, <2>6
<1>2. TypeInv /\ [Next]_vars => [Agrees]_vars
  <2>1. ASSUME LookUp PROVE Agrees
    BY <2>1 DEF LookUp
  <2>2. lastStep.version = lastStep'.version => Agrees
    OBVIOUS
  <2> HIDE DEF Agrees
  <2> QED BY <1>1, <2>1, <2>2 DEF Next
<1>3. Spec => [][Agrees]_vars
  <2> HIDE DEF Agrees
  <2> QED BY <1>2, TypeInvariant, PTL DEF Spec
<1> QED BY <1>3, PTL DEF OperatorAgrees, Taken, Offers
===============================================================================
