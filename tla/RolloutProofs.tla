---------------------------- MODULE RolloutProofs ----------------------------
(***************************************************************************)
(* The reconcile loop rolls the releases of a channel out one by one: the  *)
(* deployment moves along edges of the graph, no release is passed over,   *)
(* no migration of the deployed release is run again, and a status without *)
(* conditions tells the truth about the deployment.  For every update      *)
(* graph and any number of edits, faults and failures, of users who change *)
(* versions only (VersionsOnly).                                           *)
(*                                                                         *)
(* What makes this hard is that nothing the operator reads is current: the *)
(* cached cluster may be older than the cluster, the copy in hand older    *)
(* than the cached one, and the deployment and the jobs are read from      *)
(* caches of their own.  The invariant relates every copy of the status to *)
(* the deployment, to the copy of the deployment in the cache, and to the  *)
(* jobs, and the copies of the status to each other.                       *)
(***************************************************************************)
EXTENDS ControllerProofs

(* Most leaves are first-order; the ones that are not cite SMT.            *)
USE Zenon

----------------------------------------------------------------------------
(* Hashes *)

(* The one channel of the specs, and its source.                           *)
Chan == Channel(CHOOSE spec \in Specs : TRUE)
Src  == SourceForChannel(Graph, Engine, Chan)

Options == {spec.conf : spec \in Specs} \ {"bad"}

(* The specs of the users, and what applying a copy of one to another can  *)
(* make of them.                                                           *)
Wanted == {spec \in SpecType : /\ ~spec.skip /\ spec.image # "pinned"
                               /\ spec.conf \in Options \cup {"bad"}
                               /\ Channel(spec) = Chan}

(* The hash of a release of the channel, with options and a secret that    *)
(* the users may write.                                                    *)
Proper(h) ==
    /\ h \in HashType
    /\ h.conf \in Options
    /\ h.uri \in Secrets
    /\ HasSource(Graph, Engine, Chan)
    /\ h.version.name \in Ids(Src)
    /\ h.version = Version(h.version.name, Chan, <<"migration">>)
    /\ h.state = State(Src, h.version.name)

(* How far the release is from the head.                                   *)
Rank(h) == Index(Src, h.version.name)

(* The release of g is updated to that of h.                               *)
Edge(g, h) == h.version.name \in Elems(OutEdges(Src, g.version.name))

----------------------------------------------------------------------------
(* The invariant *)

(* What a copy of the status says about the rollout.  It is quiet when     *)
(* ComputeTarget may take the next step.                                   *)
Core(s) ==
    [version |-> s.version, target |-> s.target, current |-> s.current,
     phase |-> IF RolloutInProgress(s) THEN "rolling" ELSE "quiet"]

Quiet(k) == k.phase = "quiet"

(* The copies: the API's, the cache's, and the one in hand.                *)
Copies ==
    {Core(cluster.status), Core(cache.status)}
        \cup (IF pc = "idle" THEN {} ELSE {Core(obj.status)})

(* The deployment and the jobs, in the API and in the caches.              *)
World == [dep |-> dep, seenDep |-> seenDep, jobs |-> jobs, seenJobs |-> seenJobs]

Ran(js, h) == \E j \in js : j.hash = h /\ j.phase = "complete"

(* The caches show that the migration of h is done, and will go on showing *)
(* it: by the deployment that carries h, or by a job that is still there.  *)
Done(w, h) == w.seenDep.annotation = h \/ (Ran(w.jobs, h) /\ Ran(w.seenJobs, h))

(* A copy from before the first target was computed.                       *)
Blank(w, k) ==
    /\ k.target = NoHash /\ k.current = NoHash /\ k.version = NoVersion /\ Quiet(k)
    /\ w.dep.annotation = NoHash
    /\ w.jobs = {} /\ w.seenJobs = {}

(* The deployment runs the target of the copy, or the release before it.   *)
(* Until the target is migrated the cache knows of that one.               *)
DepFits(w, k) ==
    IF k.current = k.target
    THEN /\ \/ w.dep.annotation = NoHash
            \/ w.dep.annotation = k.target
            \/ Edge(w.dep.annotation, k.target)
         /\ Done(w, k.target)
    ELSE \/ w.dep.annotation = NoHash
         \/ w.dep.annotation = k.target
         \/ /\ w.dep.annotation = k.current
            /\ w.seenDep.annotation = k.current
            /\ Edge(k.current, k.target)

(* The target is deployed, and the cache shows it.                         *)
Settled(w, k) ==
    /\ k.current = k.target
    /\ w.dep.rolled
    /\ w.dep.annotation = k.target
    /\ w.seenDep.annotation = k.target

(* What a copy with a target tells is true, old as it may be.              *)
Tracks(w, k) ==
    /\ Proper(k.target)
    /\ k.version = k.target.version
    /\ Quiet(k) => Settled(w, k)
    /\ DepFits(w, k)
    /\ Ran(w.seenJobs, k.target) => Done(w, k.target)
    /\ \A j \in w.jobs \cup w.seenJobs : Rank(k.target) <= Rank(j.hash)

Told(w, k) == Blank(w, k) \/ Tracks(w, k)

(* Two copies are at most one step of the walk apart.                      *)
Near(k, l) ==
    \/ k.target = l.target
    \/ Quiet(k) /\ l.current = k.target
    \/ Quiet(l) /\ k.current = l.target

CopiesOK(w, ks) ==
    /\ \A k \in ks : Told(w, k)
    /\ \A k, l \in ks : Near(k, l)

(* A deployment is made from the hash that it carries.                     *)
IsDep(d) ==
    \/ d = NoDep
    \/ /\ d.exists
       /\ Proper(d.annotation)
       /\ d.conf = d.annotation.conf
       /\ d.state = d.annotation.state
       /\ d.secret = d.annotation.uri
       /\ d.ready => d.rolled

(* d is an earlier state of the deployment than e.                         *)
Older(d, e) ==
    d.annotation # NoHash =>
        /\ e.annotation # NoHash
        /\ Rank(e.annotation) <= Rank(d.annotation)
        /\ d.annotation = e.annotation /\ d.rolled => e.rolled

(* The copies of the deployment are in the order of its states, and what is*)
(* deployed was migrated.                                                  *)
DepOK(w, c) ==
    /\ IsDep(w.dep) /\ IsDep(w.seenDep) /\ IsDep(c.dep)
    /\ Older(w.seenDep, w.dep) /\ Older(c.dep, w.seenDep)
    /\ w.dep.annotation # NoHash => Done(w, w.dep.annotation)

(* Jobs are named after their hash.                                        *)
OneEach(js) ==
    /\ \A j \in js : Proper(j.hash)
    /\ \A j, k \in js : j.hash = k.hash => j = k

JobsOK(w, c) == OneEach(w.jobs) /\ OneEach(w.seenJobs) /\ OneEach(c.jobs)

(* What the operator reads are specs and secrets of the users.             *)
InputsInv ==
    /\ cluster.spec \in Wanted /\ cache.spec \in Wanted
    /\ pc # "idle" => obj.spec \in Wanted
    /\ {secret, seenSecret, ctx.secret} \subseteq Secrets \cup {""}

(* A copy with the current resource version has the current status.  The   *)
(* one that waitForMigrations prepares for selfPauseCluster differs.       *)
FreshInv ==
    /\ cacheFresh => cache.status = cluster.status
    /\ objFresh => cacheFresh
    /\ objFresh /\ pc # "selfpause" => obj.status = cluster.status

(* What a reconcile knows at handler p, with the copy k and the context c, *)
(* among the copies ks.                                                    *)
Running == {"run", "job", "extras"}
Deploys == {"deploy", "apply", "report", "clear", "rollout", "cleanup", "pods"}

At(w, ks, p, k, c) ==
    /\ p \in {"migrations", "wait"} \cup Running \cup Deploys =>
          Proper(k.target) /\ c.secret \in Secrets
    /\ p \in Running => /\ k.current # k.target
                        /\ w.dep.annotation # k.target
                        /\ \A j \in c.jobs : j.hash # k.target
    /\ p \in {"job", "extras"} => \A l \in ks : l.target = k.target
    /\ p = "wait" => /\ Ran(c.jobs, k.target) => Done(w, k.target)
                     /\ k.current = k.target =>
                           \A j \in c.jobs : j.hash = k.target => j.phase = "complete"
    /\ p \in Deploys => Done(w, k.target)
    /\ p \in Deploys \ {"deploy"} => k.current = k.target
    /\ p \in {"rollout", "cleanup", "pods"} => c.dep.annotation = k.target

WorkAt == pc # "idle" => At(World, Copies, pc, Core(obj.status), ctx)

RolloutInv ==
    /\ InputsInv
    /\ FreshInv
    /\ JobsOK(World, ctx)
    /\ DepOK(World, ctx)
    /\ CopiesOK(World, Copies)
    /\ WorkAt

----------------------------------------------------------------------------
(* Facts about hashes *)

(* The specs of the users agree on the channel, and skip no migrations.    *)
LEMMA SpecWanted ==
    ASSUME VersionsOnly, NEW spec \in Specs
    PROVE  spec \in Wanted
<1>1. Channel(spec) = Chan
  BY DEF VersionsOnly, Chan
<1>2. ~spec.skip /\ spec.image # "pinned"
  BY DEF VersionsOnly
<1>3. spec \in SpecType /\ spec.conf \in Options \cup {"bad"}
  BY ConstantsAssumption DEF Options
<1> QED BY <1>1, <1>2, <1>3 DEF Wanted

(* Applying a copy keeps that.                                             *)
LEMMA AppliedWanted ==
    ASSUME NEW copy \in Wanted, NEW old \in Wanted, NEW spec \in Applied(copy, old)
    PROVE  spec \in Wanted
<1>1. copy \in SpecType /\ old \in SpecType
  BY DEF Wanted
<1>2. spec \in SpecType /\ ~spec.skip
  BY <1>1, AppliedTyped DEF Wanted
<1>3. CASE copy = old
  BY <1>3 DEF Applied
<1>4. CASE copy # old
  <2>1. /\ spec.conf \in {copy.conf, old.conf}
        /\ spec.image \in AppliedField(copy.image, old.image)
        /\ spec.channel \in AppliedField(copy.channel, old.channel)
    BY <1>4, SMT DEF Applied
  <2>2. spec.image # "pinned" /\ spec.conf \in Options \cup {"bad"}
    BY <2>1 DEF Wanted, AppliedField
  <2>3. Channel(spec) = Chan
    <3>1. Channel(copy) = Chan /\ Channel(old) = Chan
      BY DEF Wanted
    <3>2. spec.channel = copy.channel \/ spec.channel = old.channel
      BY <2>1 DEF AppliedField
    <3> QED BY <3>1, <3>2 DEF Channel
  <2> QED BY <1>2, <2>2, <2>3 DEF Wanted
<1> QED BY <1>3, <1>4

(* The source of the channel is a valid one, and its updates lead forward. *)
LEMMA SrcValid ==
    ASSUME VersionsOnly, HasSource(Graph, Engine, Chan)
    PROVE  /\ IsSource(Src) /\ NewMemorySourceOK(Src) /\ UpdatesLeadForward(Src)
           /\ \E i \in DOMAIN Graph : Src = Graph[i]
<1>1. IsSource(Src)
  BY SourceTyped, ConstantsAssumption DEF Src
<1>2. NewMemorySourceOK(Src)
  BY DEF Src, HasSource, SourceForChannel
<1>3. \E i \in DOMAIN Graph : Src = Graph[i]
  <2>1. IsGraph(Graph)
    BY ConstantsAssumption
  <2>2. \E i \in DOMAIN Graph :
            SourceForChannel(Graph, Engine, Chan) = Graph[i] /\ Graph[i].name = Chan
    BY <2>1, SourceIsChannel, HasSource(Graph, Engine, Chan), SMT
  <2> QED BY <2>2 DEF Src
<1>4. UpdatesLeadForward(Src)
  BY <1>3 DEF VersionsOnly
<1> QED BY <1>1, <1>2, <1>3, <1>4

(* A release has one hash.                                                 *)
LEMMA SameRelease ==
    ASSUME VersionsOnly, NEW g, NEW h, Proper(g), Proper(h), g.version.name = h.version.name
    PROVE  g = h
<1>1. g.conf = h.conf /\ g.uri = h.uri
  BY DEF Proper, Options, VersionsOnly
<1>2. g.version = h.version /\ g.state = h.state
  BY DEF Proper
<1>3. g \in HashType /\ h \in HashType
  BY DEF Proper
<1> QED BY <1>1, <1>2, <1>3, SMT DEF HashType

(* Ranks are positions in the list of releases; no release has the hash of *)
(* no config.                                                              *)
LEMMA RankTyped ==
    ASSUME VersionsOnly, NEW h, Proper(h)
    PROVE  Rank(h) \in Nat /\ h # NoHash
<1>1. Rank(h) \in Nat
  BY SrcValid, IndexTyped DEF Proper, Rank
<1>2. h.uri # "" /\ NoHash.uri = ""
  BY ConstantsAssumption DEF Proper, NoHash
<1> QED BY <1>1, <1>2

(* So two hashes of the same rank are one.                                 *)
LEMMA SameRank ==
    ASSUME VersionsOnly, NEW g, NEW h, Proper(g), Proper(h), Rank(g) = Rank(h)
    PROVE  g = h
<1>1. g.version.name = h.version.name
  BY IndexInjective DEF Proper, Rank
<1> QED BY <1>1, SameRelease

(* An update leads to a lower rank.                                        *)
LEMMA EdgeRank ==
    ASSUME VersionsOnly, NEW g, NEW h, Proper(h), Edge(g, h)
    PROVE  Rank(h) < Rank(g) /\ Rank(g) \in Nat /\ Rank(h) \in Nat
<1>1. IsSource(Src) /\ NewMemorySourceOK(Src) /\ UpdatesLeadForward(Src)
  BY SrcValid DEF Proper
<1> QED BY <1>1, UpdateIsNewer DEF Edge, Rank

(* The state of a hash has the name of its release.                        *)
LEMMA StateName ==
    ASSUME VersionsOnly, NEW h, Proper(h)
    PROVE  h.state.id = h.version.name
BY IndexIn DEF Proper, State

----------------------------------------------------------------------------
(* What validateConfig computes *)

(* The version of a release of the channel c.                              *)
Release(n, c) == Version(n, c, <<"migration">>)

(* Releases differ from the nil version.                                   *)
LEMMA ReleaseFields ==
    ASSUME NEW n, NEW c
    PROVE  /\ Release(n, c).name = n /\ Release(n, c).channel = c
           /\ Release(n, c).attributes = <<"migration">>
           /\ [Release(n, c) EXCEPT !.channel = c] = Release(n, c)
           /\ Release(n, c) # NoVersion
<1>1. /\ Release(n, c).name = n /\ Release(n, c).channel = c
      /\ Release(n, c).attributes = <<"migration">>
      /\ [Release(n, c) EXCEPT !.channel = c] = Release(n, c)
  BY SMT DEF Release, Version
<1>2. NoVersion.attributes = <<>> /\ <<"migration">> # <<>>
  BY DEF NoVersion
<1> QED BY <1>1, <1>2

(* In its own channel Advance stays on a release or takes an update of it, *)
(* and that only while no rollout is in progress.                          *)
LEMMA AdvanceRelease ==
    ASSUME NEW s, IsSource(s), NewMemorySourceOK(s), NEW c, NEW version, NEW n \in Ids(s),
           NEW rolling, ~Advance(s, c, version, Release(n, c), rolling).err
    PROVE  LET r == Advance(s, c, version, Release(n, c), rolling)
           IN  \/ r = Found(Release(n, c), State(s, n))
               \/ /\ ~rolling
                  /\ \E m \in Elems(OutEdges(s, n)) : r = Found(Release(m, c), State(s, m))
<1> DEFINE sub == IF version = "" THEN s ELSE Subgraph(s, version)
           next == NextVersion(sub, n)
           r == Advance(s, c, version, Release(n, c), rolling)
           attributes == IF next # NextVersionWithoutMigrations(sub, n)
                         THEN <<"migration">> ELSE Release(n, c).attributes
<1>1. attributes = <<"migration">>
  <2>1. Release(n, c).attributes = <<"migration">>
    BY ReleaseFields, SMT
  <2> HIDE DEF next, sub
  <2> QED BY <2>1
<1>2. \/ r = Found([Release(n, c) EXCEPT !.channel = c], State(s, n))
      \/ /\ ~rolling /\ next # "" /\ (version # "" => version \in Ids(s))
         /\ r = Found(Version(next, c, attributes), State(sub, next))
  <2>1. Release(n, c).name = n
    BY ReleaseFields
  <2> HIDE DEF next, attributes, sub
  <2> QED BY <2>1, FailedIsTarget DEF Advance, next, attributes, sub
<1>3. CASE r = Found([Release(n, c) EXCEPT !.channel = c], State(s, n))
  BY <1>3, ReleaseFields
<1>4. CASE /\ ~rolling /\ next # "" /\ (version # "" => version \in Ids(s))
           /\ r = Found(Version(next, c, attributes), State(sub, next))
  <2>1. CASE version = ""
    <3>1. sub = s
      BY <2>1
    <3>2. next \in Elems(OutEdges(s, n))
      BY <1>4, <3>1, NextVersionIsEdge
    <3> HIDE DEF next, sub, attributes, r
    <3> QED BY <1>1, <1>4, <3>1, <3>2 DEF Release, r
  <2>2. CASE version # ""
    <3>1. sub = Subgraph(s, version) /\ version \in Ids(s)
      BY <1>4, <2>2
    <3>2. next \in Elems(OutEdges(s, n)) /\ State(sub, next) = State(s, next)
      BY <1>4, <3>1, SubgraphStep
    <3> HIDE DEF next, sub, attributes, r
    <3> QED BY <1>1, <1>4, <3>2 DEF Release, r
  <2> QED BY <2>1, <2>2
<1> QED BY <1>2, <1>3, <1>4

(* A first install takes a release of the source.                          *)
LEMMA InstallRelease ==
    ASSUME NEW s, NEW c, NEW version, NEW rolling, ~Install(s, c, version, rolling).err
    PROVE  \E n \in Ids(s) : Install(s, c, version, rolling) = Found(Release(n, c), State(s, n))
<1> DEFINE id == IF version # "" THEN version ELSE LatestVersion(s, "")
<1>1. /\ Install(s, c, version, rolling) = Found(Release(id, c), State(s, id))
      /\ State(s, id).id # ""
  BY FailedIsTarget DEF Install, Release
<1>2. NoState.id = ""
  BY DEF NoState
<1>3. id \in Ids(s)
  <2> HIDE DEF id
  <2> QED BY <1>1, <1>2 DEF State
<1> HIDE DEF id
<1> QED BY <1>1, <1>3

(* The request that the spec of a cluster makes, and the versions that are *)
(* in no other channel than the one it asks for.                           *)
Request(o) == [image |-> o.spec.image, base |-> TRUE, version |-> o.spec.version,
               channel |-> o.spec.channel, engine |-> Engine]

Follows(current) == current.channel = "" \/ current.channel = Chan

(* A spec and a current version that follow the channel are handled there. *)
LEMMA RequestChannel ==
    ASSUME VersionsOnly, NEW o, o.spec \in Wanted, NEW current, Follows(current)
    PROVE  ChannelFor(Graph, Request(o), current) = Chan /\ Request(o).image # "pinned"
           /\ Request(o).engine = Engine /\ Request(o).version = o.spec.version
<1>1. /\ Request(o).channel = o.spec.channel /\ Request(o).engine = Engine
      /\ Request(o).image = o.spec.image /\ Request(o).version = o.spec.version
  BY DEF Request
<1>2. o.spec.image # "pinned"
  BY DEF Wanted
<1>3. Channel(o.spec) = Chan
  BY DEF Wanted
<1>4. ChannelFor(Graph, Request(o), current) = Chan
  BY <1>1, <1>3 DEF ChannelFor, Channel, Follows
<1> QED BY <1>1, <1>2, <1>4

(* ComputeTarget installs a release of the channel, stays on the one it is *)
(* on, or takes an update of it while no rollout is in progress.           *)
LEMMA ComputeRelease ==
    ASSUME VersionsOnly, NEW o, o.spec \in Wanted, NEW current, NEW rolling,
           Follows(current),
           ~ComputeTarget(Graph, Request(o), current, rolling).err
    PROVE  LET t == ComputeTarget(Graph, Request(o), current, rolling)
           IN  /\ HasSource(Graph, Engine, Chan)
               /\ current = NoVersion =>
                     \E n \in Ids(Src) : t = Found(Release(n, Chan), State(Src, n))
               /\ \A n \in Ids(Src) : current = Release(n, Chan) =>
                     \/ t = Found(Release(n, Chan), State(Src, n))
                     \/ /\ ~rolling
                        /\ \E m \in Elems(OutEdges(Src, n)) :
                              t = Found(Release(m, Chan), State(Src, m))
<1> DEFINE t == ComputeTarget(Graph, Request(o), current, rolling)
           i == Install(Src, Chan, o.spec.version, rolling)
           a == Advance(Src, Chan, o.spec.version, current, rolling)
<1>2. /\ ChannelFor(Graph, Request(o), current) = Chan /\ Request(o).image # "pinned"
      /\ Request(o).engine = Engine /\ Request(o).version = o.spec.version
  BY RequestChannel
<1>3. HasSource(Graph, Engine, Chan)
  BY <1>2, FailedIsTarget DEF ComputeTarget
<1>4. ASSUME current = NoVersion PROVE t = i
  BY <1>2, <1>4, FailedIsTarget DEF ComputeTarget, Src
<1>5. ASSUME NEW n \in Ids(Src), current = Release(n, Chan)
      PROVE  t \in {Found(current, State(Src, n)), a}
  <2>1. current.channel = Chan /\ current.name = n /\ current # NoVersion
    BY <1>5, ReleaseFields, SMT
  <2> QED BY <1>2, <1>5, <2>1, FailedIsTarget DEF ComputeTarget, Src
<1>6. ASSUME current = NoVersion
      PROVE  \E n \in Ids(Src) : t = Found(Release(n, Chan), State(Src, n))
  BY <1>4, <1>6, InstallRelease
<1>7. ASSUME NEW n \in Ids(Src), current = Release(n, Chan)
      PROVE  \/ t = Found(Release(n, Chan), State(Src, n))
             \/ /\ ~rolling
                /\ \E m \in Elems(OutEdges(Src, n)) : t = Found(Release(m, Chan), State(Src, m))
  <2>1. IsSource(Src) /\ NewMemorySourceOK(Src)
    BY <1>3, SrcValid
  <2>2. CASE t = Found(current, State(Src, n))
    BY <1>7, <2>2
  <2>3. CASE t = a
    <3>1. ~Advance(Src, Chan, o.spec.version, Release(n, Chan), rolling).err
      BY <1>7, <2>3
    <3> QED BY <1>7, <2>1, <2>3, <3>1, AdvanceRelease, SMT
  <2> QED BY <1>5, <1>7, <2>2, <2>3
<1> HIDE DEF t
<1> QED BY <1>3, <1>6, <1>7 DEF t

----------------------------------------------------------------------------
(* How the invariant moves *)

(* The fields of a copy.                                                   *)
LEMMA CoreFields ==
    ASSUME NEW s
    PROVE  /\ Core(s).version = s.version /\ Core(s).target = s.target
           /\ Core(s).current = s.current
           /\ Quiet(Core(s)) <=> ~RolloutInProgress(s)
BY DEF Core, Quiet

(* A copy whose target has not been deployed is not quiet.                 *)
LEMMA CoreRolling ==
    ASSUME NEW s, s.current # s.target
    PROVE  ~Quiet(Core(s))
BY CoreFields DEF RolloutInProgress

(* The copies are the same if the fields that matter are.                  *)
LEMMA CoreSame ==
    ASSUME NEW s, NEW r, r.version = s.version, r.target = s.target, r.current = s.current,
           RolloutInProgress(r) <=> RolloutInProgress(s)
    PROVE  Core(r) = Core(s)
BY DEF Core

(* Near is symmetric, and a copy is near to itself.                        *)
LEMMA NearSymmetric ==
    ASSUME NEW k, NEW l
    PROVE  Near(k, k) /\ (Near(k, l) <=> Near(l, k))
BY DEF Near

(* A deployment that carries a hash was made from it.                      *)
LEMMA DepProper ==
    ASSUME NEW d, IsDep(d), d.annotation # NoHash
    PROVE  /\ d.exists /\ Proper(d.annotation)
           /\ d.conf = d.annotation.conf /\ d.state = d.annotation.state
           /\ d.secret = d.annotation.uri
           /\ d.ready => d.rolled
<1>1. NoDep.annotation = NoHash
  BY DEF NoDep
<1> QED BY <1>1 DEF IsDep

(* The deployment in the cache is that of a copy's target only if the      *)
(* deployment itself is: it has not moved on from there.                   *)
LEMMA SeenTarget ==
    ASSUME VersionsOnly, NEW w, NEW c, DepOK(w, c), NEW k, Tracks(w, k),
           w.seenDep.annotation = k.target
    PROVE  w.dep.annotation = k.target
<1>1. Proper(k.target)
  BY DEF Tracks
<1>2. w.dep.annotation # NoHash /\ Rank(w.dep.annotation) <= Rank(k.target)
  BY <1>1, RankTyped DEF DepOK, Older
<1>3. ~Edge(w.dep.annotation, k.target)
  BY <1>1, <1>2, EdgeRank, SMT
<1> QED BY <1>2, <1>3 DEF Tracks, DepFits

(* Nor has the deployment in hand.                                         *)
LEMMA HeldTarget ==
    ASSUME VersionsOnly, NEW w, NEW c, DepOK(w, c), NEW k, Tracks(w, k),
           k.current = k.target, c.dep.annotation = k.target
    PROVE  /\ w.seenDep.annotation = k.target /\ w.dep.annotation = k.target
           /\ c.dep.rolled => w.dep.rolled
<1>1. Proper(k.target)
  BY DEF Tracks
<1>2. /\ w.seenDep.annotation # NoHash /\ Rank(w.seenDep.annotation) <= Rank(k.target)
      /\ w.dep.annotation # NoHash /\ Rank(w.dep.annotation) <= Rank(w.seenDep.annotation)
  BY <1>1, RankTyped DEF DepOK, Older
<1>3. Proper(w.seenDep.annotation) /\ Proper(w.dep.annotation)
  BY <1>2, DepProper DEF DepOK
<1>4. Rank(k.target) \in Nat /\ Rank(w.seenDep.annotation) \in Nat /\ Rank(w.dep.annotation) \in Nat
  BY <1>1, <1>3, RankTyped
<1>5. ~Edge(w.dep.annotation, k.target)
  BY <1>1, <1>2, <1>4, EdgeRank, SMT
<1>6. w.dep.annotation = k.target
  BY <1>2, <1>5 DEF Tracks, DepFits
<1>7. w.seenDep.annotation = k.target
  <2>1. Rank(w.seenDep.annotation) = Rank(k.target)
    BY <1>2, <1>4, <1>6, SMT
  <2> QED BY <1>1, <1>3, <2>1, SameRank
<1>8. c.dep.rolled => w.dep.rolled
  BY <1>1, <1>6, <1>7, RankTyped DEF DepOK, Older
<1> QED BY <1>6, <1>7, <1>8

(* What may happen to the deployment, the jobs and the caches of them      *)
(* without disturbing what the copies ks tell.                             *)
Moves(w, x, ks) ==
    /\ x.dep.annotation = w.dep.annotation
    /\ w.dep.rolled => x.dep.rolled
    /\ \/ x.seenDep.annotation = w.seenDep.annotation
       \/ x.seenDep.annotation = w.dep.annotation
    /\ \A k \in ks :
          /\ Done(w, k.target) => Done(x, k.target)
          /\ Ran(x.seenJobs, k.target) => Ran(w.seenJobs, k.target) \/ Done(x, k.target)
          /\ \A j \in x.jobs \cup x.seenJobs :
                \/ Proper(j.hash) /\ j.hash = k.target
                \/ \E i \in w.jobs \cup w.seenJobs : i.hash = j.hash

(* The copies go on to tell the truth.                                     *)
LEMMA CopiesMove ==
    ASSUME VersionsOnly, NEW w, NEW x, NEW ks, CopiesOK(w, ks), Moves(w, x, ks)
    PROVE  CopiesOK(x, ks)
<1> SUFFICES ASSUME NEW k \in ks PROVE Told(x, k)
  BY DEF CopiesOK
<1>1. /\ Done(w, k.target) => Done(x, k.target)
      /\ Ran(x.seenJobs, k.target) => Ran(w.seenJobs, k.target) \/ Done(x, k.target)
      /\ \A j \in x.jobs \cup x.seenJobs :
            \/ Proper(j.hash) /\ j.hash = k.target
            \/ \E i \in w.jobs \cup w.seenJobs : i.hash = j.hash
  BY DEF Moves
<1>2. Told(w, k)
  BY DEF CopiesOK
<1>3. CASE Blank(w, k)
  <2>1. ~Proper(k.target)
    BY <1>3, RankTyped DEF Blank
  <2>2. x.jobs = {} /\ x.seenJobs = {}
    BY <1>1, <1>3, <2>1 DEF Blank
  <2> QED BY <1>3, <2>2 DEF Blank, Told, Moves
<1>4. CASE Tracks(w, k)
  <2>1. Quiet(k) => Settled(x, k)
    BY <1>4 DEF Tracks, Settled, Moves
  <2>2. DepFits(x, k)
    BY <1>1, <1>4 DEF Tracks, DepFits, Moves
  <2>3. Ran(x.seenJobs, k.target) => Done(x, k.target)
    BY <1>1, <1>4 DEF Tracks
  <2>4. ASSUME NEW j \in x.jobs \cup x.seenJobs
        PROVE  Rank(k.target) <= Rank(j.hash)
    <3>1. CASE Proper(j.hash) /\ j.hash = k.target
      BY <3>1, RankTyped, SMT
    <3>2. CASE \E i \in w.jobs \cup w.seenJobs : i.hash = j.hash
      BY <1>4, <3>2 DEF Tracks
    <3> QED BY <1>1, <3>1, <3>2
  <2> QED BY <1>4, <2>1, <2>2, <2>3, <2>4 DEF Told, Tracks
<1> QED BY <1>2, <1>3, <1>4 DEF Told

(* So does the reconcile go on to know what it knows.                      *)
LEMMA AtMoves ==
    ASSUME NEW w, NEW x, NEW ks, NEW ls, ls \subseteq ks, Moves(w, x, ks), NEW k \in ks,
           NEW p, NEW c, At(w, ks, p, k, c)
    PROVE  At(x, ls, p, k, c)
<1>1. (Done(w, k.target) => Done(x, k.target)) /\ x.dep.annotation = w.dep.annotation
  BY DEF Moves
<1> QED BY <1>1 DEF At

(* Nothing that happens to the caches, or to the jobs that have not        *)
(* completed, is more than that.                                           *)
LEMMA DeliveryMoves ==
    ASSUME VersionsOnly, NEW w, NEW x, NEW c, NEW ks, DepOK(w, c), CopiesOK(w, ks),
           x.dep = w.dep, x.jobs = w.jobs,
           x.seenDep = w.seenDep \/ x.seenDep = w.dep,
           x.seenJobs = w.seenJobs \/ x.seenJobs = w.jobs
    PROVE  Moves(w, x, ks) /\ DepOK(x, c)
<1>1. ASSUME NEW h, Done(w, h), w.seenDep.annotation = h => w.dep.annotation = h
      PROVE  Done(x, h)
  BY <1>1, SMT DEF Done
<1>2. ASSUME NEW k \in ks, Done(w, k.target)
      PROVE  Done(x, k.target)
  <2>1. w.seenDep.annotation = k.target => w.dep.annotation = k.target
    BY SeenTarget DEF CopiesOK, Told, Blank
  <2> QED BY <1>1, <1>2, <2>1
<1>3. ASSUME NEW k \in ks, Ran(x.seenJobs, k.target)
      PROVE  Ran(w.seenJobs, k.target) \/ Done(x, k.target)
  BY <1>3 DEF Done
<1>4. Moves(w, x, ks)
  BY <1>2, <1>3 DEF Moves
<1>5. Older(x.seenDep, x.dep)
  <2>1. w.dep.annotation # NoHash => Proper(w.dep.annotation)
    BY DepProper DEF DepOK
  <2>2. Older(w.dep, w.dep)
    BY <2>1, RankTyped, SMT DEF Older
  <2> QED BY <2>2 DEF DepOK
<1>6. Older(c.dep, x.seenDep)
  <2>1. CASE x.seenDep = w.seenDep
    BY <2>1 DEF DepOK
  <2>2. CASE x.seenDep = w.dep /\ c.dep.annotation # NoHash
    <3> DEFINE a == c.dep.annotation
               b == w.seenDep.annotation
               d == w.dep.annotation
    <3>1. b # NoHash /\ d # NoHash /\ Rank(d) <= Rank(b) /\ Rank(b) <= Rank(a)
      BY <2>2 DEF DepOK, Older
    <3>2. Proper(a) /\ Proper(b) /\ Proper(d)
      BY <2>2, <3>1, DepProper DEF DepOK
    <3>3. Rank(a) \in Nat /\ Rank(b) \in Nat /\ Rank(d) \in Nat
      BY <3>2, RankTyped
    <3>4. a = d => b = d
      <4>1. a = d => Rank(b) = Rank(d)
        BY <3>1, <3>3, SMT
      <4> QED BY <3>2, <4>1, SameRank
    <3>5. a = d /\ c.dep.rolled => w.dep.rolled
      BY <2>2, <3>1, <3>4 DEF DepOK, Older
    <3> QED BY <2>2, <3>1, <3>3, <3>5, SMT DEF Older
  <2> QED BY <2>1, <2>2 DEF Older
<1>7. x.dep.annotation # NoHash => Done(x, x.dep.annotation)
  BY <1>1 DEF DepOK
<1> QED BY <1>4, <1>5, <1>6, <1>7 DEF DepOK

----------------------------------------------------------------------------
(* Steps of a reconcile *)

(* The copy in hand is one of the copies.                                  *)
LEMMA InHand ==
    ASSUME pc # "idle"
    PROVE  Core(obj.status) \in Copies
BY DEF Copies

(* With a fresh copy in hand there is only one.                            *)
LEMMA FreshCopies ==
    ASSUME FreshInv, objFresh, pc # "selfpause"
    PROVE  Copies \subseteq {Core(obj.status)}
<1>1. cluster.status = obj.status /\ cache.status = obj.status
  BY DEF FreshInv
<1> QED BY <1>1 DEF Copies

(* Nothing happens to the deployment and the jobs.                         *)
LEMMA NothingMoves ==
    ASSUME NEW w, NEW ks
    PROVE  Moves(w, w, ks)
BY DEF Moves

(* At the start of a reconcile the context says nothing.                   *)
LEMMA NoCtxOK ==
    ASSUME NEW w, NEW c
    PROVE  /\ JobsOK(w, c) => JobsOK(w, NoCtx)
           /\ DepOK(w, c) => DepOK(w, NoCtx)
<1>1. NoCtx.jobs = {} /\ NoCtx.dep = NoDep /\ NoDep.annotation = NoHash
  BY DEF NoCtx, NoDep
<1>2. OneEach({}) /\ IsDep(NoDep) /\ Older(NoDep, w.seenDep)
  BY <1>1 DEF OneEach, IsDep, Older
<1> QED BY <1>1, <1>2 DEF JobsOK, DepOK

(* The fields of the world.                                                *)
LEMMA WorldFields ==
    /\ World.dep = dep /\ World.seenDep = seenDep
    /\ World.jobs = jobs /\ World.seenJobs = seenJobs
BY DEF World

(* A step that leaves the cluster and its cached copy alone, that does to  *)
(* the deployment and the jobs no more than may be done, and that goes on  *)
(* with the copy in hand.                                                  *)
LEMMA StepRollout ==
    ASSUME VersionsOnly, RolloutInv, InputsInv', FreshInv', Copies' \subseteq Copies,
           Moves(World, World', Copies), JobsOK(World, ctx)', DepOK(World, ctx)',
           pc' # "idle" => At(World, Copies, pc', Core(obj.status)', ctx')
    PROVE  RolloutInv'
<1>1. CopiesOK(World', Copies)
  BY CopiesMove DEF RolloutInv
<1>2. CopiesOK(World, Copies)'
  BY <1>1 DEF CopiesOK
<1>3. WorkAt'
  <2> SUFFICES ASSUME pc' # "idle"
               PROVE  At(World', Copies', pc', Core(obj.status)', ctx')
    BY DEF WorkAt
  <2>1. Core(obj.status)' \in Copies
    BY DEF Copies
  <2> QED BY <2>1, AtMoves
<1> QED BY <1>2, <1>3 DEF RolloutInv

(* Going on with a copy that tells the same, or ending the reconcile.      *)
LEMMA GotoCopies ==
    ASSUME RolloutInv, pc # "idle", NEW next, NEW o, NEW fresh, NEW c, Goto(next, o, fresh, c),
           o.spec = obj.spec, Core(o.status) = Core(obj.status),
           fresh = FALSE \/ fresh = objFresh,
           \/ fresh = FALSE
           \/ next = "selfpause"
           \/ o.status = obj.status /\ pc # "selfpause",
           c.secret \in Secrets \cup {""},
           UNCHANGED <<cluster, cache, cacheFresh, secret, seenSecret>>
    PROVE  /\ InputsInv' /\ FreshInv' /\ Copies' \subseteq Copies
           /\ \/ pc' = "idle" /\ ctx' = NoCtx
              \/ pc' = next /\ ctx' = c /\ obj' = o
<1>1. CASE next \in Ends
  <2>1. pc' = "idle" /\ ctx' = NoCtx /\ objFresh' = FALSE
    BY <1>1 DEF Goto, Ends
  <2>2. NoCtx.secret = ""
    BY DEF NoCtx
  <2> QED BY <2>1, <2>2 DEF RolloutInv, InputsInv, FreshInv, Copies
<1>2. CASE next \notin Ends
  <2>1. pc' = next /\ ctx' = c /\ obj' = o /\ objFresh' = fresh
    BY <1>2 DEF Goto, Ends
  <2>2. InputsInv'
    BY <2>1 DEF RolloutInv, InputsInv
  <2>3. FreshInv'
    <3>1. cluster'.status = cluster.status /\ cache'.status = cache.status
      OBVIOUS
    <3>2. CASE fresh = FALSE
      BY <2>1, <3>1, <3>2 DEF RolloutInv, FreshInv
    <3>3. CASE fresh = objFresh /\ fresh # FALSE
      BY <2>1, <3>1, <3>3 DEF RolloutInv, FreshInv
    <3> QED BY <3>2, <3>3
  <2>4. Copies' \subseteq Copies
    BY <2>1 DEF Copies
  <2> QED BY <2>1, <2>2, <2>3, <2>4
<1> QED BY <1>1, <1>2

(* A step that only goes on.                                               *)
LEMMA GotoRollout ==
    ASSUME VersionsOnly, RolloutInv, pc # "idle",
           NEW next, NEW o, NEW fresh, NEW c, Goto(next, o, fresh, c),
           o.spec = obj.spec, Core(o.status) = Core(obj.status),
           fresh = FALSE \/ fresh = objFresh,
           \/ fresh = FALSE
           \/ next = "selfpause"
           \/ o.status = obj.status /\ pc # "selfpause",
           c.secret \in Secrets \cup {""}, JobsOK(World, c), DepOK(World, c),
           next \in Ends \/ At(World, Copies, next, Core(obj.status), c),
           UNCHANGED <<cluster, cache, cacheFresh, secret, seenSecret>>,
           UNCHANGED <<dep, seenDep, jobs, seenJobs>>
    PROVE  RolloutInv'
<1>1. /\ InputsInv' /\ FreshInv' /\ Copies' \subseteq Copies
      /\ \/ pc' = "idle" /\ ctx' = NoCtx
         \/ pc' = next /\ ctx' = c /\ obj' = o
  BY GotoCopies
<1>2. World' = World
  BY DEF World
<1>3. JobsOK(World, ctx)' /\ DepOK(World, ctx)'
  BY <1>1, <1>2, NoCtxOK DEF RolloutInv
<1>4. pc' # "idle" => At(World, Copies, pc', Core(obj.status)', ctx')
  <2> SUFFICES ASSUME pc' # "idle" PROVE At(World, Copies, pc', Core(obj.status)', ctx')
    OBVIOUS
  <2>1. pc' = next /\ ctx' = c /\ Core(obj.status)' = Core(obj.status)
    BY <1>1
  <2>2. next \notin Ends
    BY DEF Goto, Ends
  <2> QED BY <2>1, <2>2
<1>5. Moves(World, World', Copies)
  BY <1>2, NothingMoves
<1> QED BY <1>1, <1>3, <1>4, <1>5, StepRollout

(* What no handler touches, with the caches.                               *)
Watches == <<cache, seenSecret, seenJobs, seenDep>>

(* A step that goes on with what is in hand, or ends the reconcile.        *)
LEMMA StayRollout ==
    ASSUME VersionsOnly, RolloutInv, pc # "idle", NEW next, Continue(next),
           next \in Ends \/ (pc # "selfpause" /\ At(World, Copies, next, Core(obj.status), ctx)),
           UNCHANGED <<cluster, secret, jobs, dep, cacheFresh, Watches>>
    PROVE  RolloutInv'
<1>1. ctx.secret \in Secrets \cup {""} /\ JobsOK(World, ctx) /\ DepOK(World, ctx)
  BY DEF RolloutInv, InputsInv
<1>2. UNCHANGED <<cluster, cache, cacheFresh, secret, seenSecret>>
      /\ UNCHANGED <<dep, seenDep, jobs, seenJobs>>
  BY DEF Watches
<1>3. CASE next \in Ends
  <2>1. Goto(next, obj, FALSE, ctx)
    BY <1>3 DEF Continue, Goto, Ends
  <2> QED BY <1>1, <1>2, <1>3, <2>1, GotoRollout
<1>4. CASE pc # "selfpause" /\ At(World, Copies, next, Core(obj.status), ctx)
  <2>1. Goto(next, obj, objFresh, ctx)
    BY DEF Continue
  <2>2. next \in Ends \/ At(World, Copies, next, Core(obj.status), ctx)
    BY <1>4
  <2> QED BY <1>1, <1>2, <1>4, <2>1, <2>2, GotoRollout
<1> QED BY <1>3, <1>4

(* A failing call.                                                         *)
LEMMA CallFailsRollout ==
    ASSUME VersionsOnly, RolloutInv, pc # "idle", CallFails, UNCHANGED Watches
    PROVE  RolloutInv' /\ cluster' = cluster
BY StayRollout DEF CallFails, Ends, api, Watches

(* What PatchStatus writes tells the same as the status it is given.       *)
LEMMA CoreObserved ==
    ASSUME NEW status \in StatusType, NEW generation
    PROVE  Core([status EXCEPT !.observed = generation]) = Core(status)
<1> DEFINE new == [status EXCEPT !.observed = generation]
<1>1. /\ new.version = status.version /\ new.target = status.target
      /\ new.current = status.current
      /\ new.migrating = status.migrating /\ new.rolling = status.rolling
  BY DEF StatusType
<1> HIDE DEF new
<1> QED BY <1>1, CoreSame DEF new, RolloutInProgress

(* The copies after a write that tells what one of them did, or that tells *)
(* something new where all were the same.                                  *)
LEMMA CopiesJoin ==
    ASSUME NEW w, NEW ks, CopiesOK(w, ks), NEW k \in ks, NEW l,
           l = k \/ (ks \subseteq {k} /\ Told(w, l) /\ Near(k, l))
    PROVE  CopiesOK(w, ks \cup {l}) /\ \A m \in ks : Near(m, l)
BY NearSymmetric DEF CopiesOK

(* PatchStatus, for a status that tells the same as the one in hand, or    *)
(* something new that is true.                                             *)
LEMMA PatchRollout ==
    ASSUME VersionsOnly, TypeInv, RolloutInv, pc # "idle", UNCHANGED Watches,
           NEW status \in StatusType, NEW generation, NEW versioned, NEW next,
           PatchStatus(status, generation, versioned, next),
           (versioned => objFresh) =>
              /\ \/ Core(status) = Core(obj.status)
                 \/ /\ Copies \subseteq {Core(obj.status)}
                    /\ Told(World, Core(status))
                    /\ Near(Core(obj.status), Core(status))
              /\ \/ next \in Ends
                 \/ At(World, Copies \cup {Core(status)}, next, Core(status), ctx)
    PROVE  RolloutInv' /\ Near(Core(cluster.status), Core(cluster.status)')
<1> DEFINE new == [status EXCEPT !.observed = generation]
           fresh == objFresh /\ new = cluster.status
           o == [obj EXCEPT !.status = new]
           k == Core(obj.status)
           l == Core(status)
<1>0. Core(new) = l
  BY CoreObserved
<1>1. ASSUME /\ versioned => objFresh
             /\ cluster' = [cluster EXCEPT !.status = new]
             /\ cacheFresh' = (cacheFresh /\ new = cluster.status)
             /\ Goto(next, o, fresh, ctx)
             /\ UNCHANGED <<secret, adopted, jobs, pods, dep, left>>
      PROVE  RolloutInv' /\ Near(Core(cluster.status), Core(cluster.status)')
  <2>1. cluster'.status = new /\ cluster'.spec = cluster.spec
    BY <1>1 DEF TypeInv, TypeOK, ApiOK, ClusterType
  <2>2. o.status = new /\ o.spec = obj.spec
    BY DEF TypeInv, TypeOK, WorkOK, ClusterType
  <2>3. \/ /\ pc' = "idle" /\ ctx' = NoCtx /\ objFresh' = FALSE
        \/ /\ pc' = next /\ ctx' = ctx /\ objFresh' = fresh /\ next \notin Ends
           /\ obj'.status = new /\ obj'.spec = obj.spec
    BY <1>1, <2>2 DEF Goto, Ends
  <2>4. cache' = cache /\ seenSecret' = seenSecret /\ World' = World /\ secret' = secret
    BY <1>1 DEF Watches, World
  <2> HIDE DEF new, o
  <2>5. InputsInv'
    <3>1. NoCtx.secret = ""
      BY DEF NoCtx
    <3> QED BY <2>1, <2>3, <2>4, <3>1 DEF RolloutInv, InputsInv
  <2>6. FreshInv'
    BY <1>1, <2>1, <2>3, <2>4 DEF RolloutInv, FreshInv
  <2>7. CopiesOK(World, Copies \cup {l}) /\ \A m \in Copies : Near(m, l)
    <3>1. k \in Copies /\ CopiesOK(World, Copies)
      BY InHand DEF RolloutInv
    <3>2. l = k \/ (Copies \subseteq {k} /\ Told(World, l) /\ Near(k, l))
      BY <1>1
    <3> HIDE DEF k, l
    <3> QED BY <3>1, <3>2, CopiesJoin
  <2>8. Copies' \subseteq Copies \cup {l}
    <3>1. Core(cluster.status)' = l /\ Core(cache.status)' = Core(cache.status)
      BY <1>0, <2>1, <2>4
    <3>2. pc' # "idle" => Core(obj.status)' = l
      BY <1>0, <2>3
    <3> HIDE DEF l
    <3> QED BY <3>1, <3>2 DEF Copies
  <2>9. CopiesOK(World, Copies)'
    BY <2>4, <2>7, <2>8 DEF CopiesOK
  <2>10. JobsOK(World, ctx)' /\ DepOK(World, ctx)'
    BY <2>3, <2>4, NoCtxOK DEF RolloutInv
  <2>11. WorkAt'
    <3> SUFFICES ASSUME pc' # "idle"
                 PROVE  At(World', Copies', pc', Core(obj.status)', ctx')
      BY DEF WorkAt
    <3>1. pc' = next /\ ctx' = ctx /\ Core(obj.status)' = l /\ next \notin Ends
      BY <1>0, <2>3
    <3>2. At(World, Copies \cup {l}, next, l, ctx)
      BY <1>1, <3>1
    <3> HIDE DEF l
    <3>3. At(World, Copies', next, l, ctx)
      BY <2>8, <3>2, NothingMoves, AtMoves
    <3> QED BY <2>4, <3>1, <3>3
  <2>12. Near(Core(cluster.status), Core(cluster.status)')
    <3>1. Core(cluster.status) \in Copies /\ Core(cluster.status)' = l
      BY <1>0, <2>1 DEF Copies
    <3> QED BY <2>7, <3>1
  <2> QED BY <2>5, <2>6, <2>9, <2>10, <2>11, <2>12 DEF RolloutInv
<1>2. CASE Continue("requeue") /\ UNCHANGED <<api, cacheFresh, left>>
  <2>1. RolloutInv'
    BY <1>2, StayRollout DEF Ends, api, Watches
  <2> QED BY <1>2, <2>1, NearSymmetric DEF api
<1>3. CASE CallFails
  BY <1>3, CallFailsRollout, NearSymmetric
<1> QED BY <1>1, <1>2, <1>3 DEF PatchStatus

----------------------------------------------------------------------------
(* The handlers that leave the rollout alone *)

(* The status moves by at most a step.                                     *)
Walks == Near(Core(cluster.status), Core(cluster.status)')

(* The handlers that rely on nothing.                                      *)
Open == {"pause", "spec", "adopt", "missing", "collect", "changed", "config", "selfpause", "label"}

(* At says nothing of them.                                                *)
LEMMA AtOpen ==
    ASSUME NEW w, NEW ks, NEW p \in Open, NEW k, NEW c
    PROVE  At(w, ks, p, k, c)
BY DEF At, Open, Running, Deploys

(* A handler that writes only conditions that no rollout depends on.       *)
LEMMA FieldRollout ==
    ASSUME VersionsOnly, TypeInv, RolloutInv, pc # "idle", UNCHANGED Watches,
           NEW status \in StatusType,
           status.version = obj.status.version, status.target = obj.status.target,
           status.current = obj.status.current, status.migrating = obj.status.migrating,
           status.rolling = obj.status.rolling,
           NEW generation, NEW versioned, NEW next,
           PatchStatus(status, generation, versioned, next), next \in Ends \cup Open
    PROVE  RolloutInv' /\ Walks
<1>1. Core(status) = Core(obj.status)
  BY CoreSame DEF RolloutInProgress
<1>2. next \in Ends \/ At(World, Copies \cup {Core(status)}, next, Core(status), ctx)
  BY AtOpen
<1> QED BY <1>1, <1>2, PatchRollout DEF Walks

(* A handler that goes on without a call.                                  *)
LEMMA NoCallRollout ==
    ASSUME VersionsOnly, RolloutInv, pc # "idle", NEW next, Continue(next), NoCall,
           UNCHANGED Watches,
           next \in Ends \/ (pc # "selfpause" /\ At(World, Copies, next, Core(obj.status), ctx))
    PROVE  RolloutInv' /\ Walks
<1>1. RolloutInv'
  BY StayRollout DEF NoCall, api
<1>2. cluster' = cluster
  BY DEF NoCall, api
<1> QED BY <1>1, <1>2, NearSymmetric DEF Walks

(* A handler that makes a call that fails.                                 *)
LEMMA FailureRollout ==
    ASSUME VersionsOnly, RolloutInv, pc # "idle", CallFails, UNCHANGED Watches
    PROVE  RolloutInv' /\ Walks
BY CallFailsRollout, NearSymmetric DEF Walks

(* Reporting an invalid spec or config.                                    *)
LEMMA RejectRollout ==
    ASSUME VersionsOnly, TypeInv, RolloutInv, pc # "idle", UNCHANGED Watches,
           NEW failed \in FailureType, Reject(failed)
    PROVE  RolloutInv' /\ Walks
<1> DEFINE status == [obj.status EXCEPT !.validating = FALSE, !.failed = failed]
<1>1. CASE Continue("done") /\ NoCall
  BY <1>1, NoCallRollout DEF Ends
<1>2. CASE PatchStatus(status, obj.gen, TRUE, "done")
  <2>1. /\ status \in StatusType
        /\ status.version = obj.status.version /\ status.target = obj.status.target
        /\ status.current = obj.status.current /\ status.migrating = obj.status.migrating
        /\ status.rolling = obj.status.rolling
    BY ObjTyped DEF TypeInv, WorkInv, StatusType
  <2> HIDE DEF status
  <2> QED BY <1>2, <2>1, FieldRollout DEF Ends
<1> QED BY <1>1, <1>2 DEF Reject

(* pauseCluster.                                                           *)
LEMMA PauseRollout ==
    ASSUME VersionsOnly, TypeInv, RolloutInv, pauseCluster
    PROVE  RolloutInv' /\ Walks
<1> DEFINE next == IF obj.paused THEN "done" ELSE "spec"
           status == [obj.status EXCEPT !.paused = obj.paused]
<1>1. pc = "pause" /\ UNCHANGED Watches
  BY DEF pauseCluster, Watches, seen
<1>2. next \in Ends \cup Open
  BY DEF Ends, Open
<1>3. \/ Continue(next) /\ NoCall
      \/ PatchStatus(status, obj.gen, TRUE, next)
  BY DEF pauseCluster
<1>4. /\ status \in StatusType
      /\ status.version = obj.status.version /\ status.target = obj.status.target
      /\ status.current = obj.status.current /\ status.migrating = obj.status.migrating
      /\ status.rolling = obj.status.rolling
  BY ObjTyped DEF TypeInv, WorkInv, StatusType
<1> HIDE DEF next, status
<1>5. CASE Continue(next) /\ NoCall
  BY <1>1, <1>2, <1>5, AtOpen, NoCallRollout
<1>6. CASE PatchStatus(status, obj.gen, TRUE, next)
  BY <1>1, <1>2, <1>4, <1>6, FieldRollout
<1> QED BY <1>3, <1>5, <1>6

(* validateSpec.                                                           *)
LEMMA SpecRollout ==
    ASSUME VersionsOnly, TypeInv, RolloutInv, validateSpec
    PROVE  RolloutInv' /\ Walks
<1>1. pc = "spec" /\ UNCHANGED Watches
  BY DEF validateSpec, Watches, seen
<1>2. CASE Continue("adopt") /\ NoCall
  <2>1. At(World, Copies, "adopt", Core(obj.status), ctx)
    BY AtOpen DEF Open
  <2> QED BY <1>1, <1>2, <2>1, NoCallRollout
<1>3. CASE Reject(InvalidConfig("", {"spec"}))
  <2>1. InvalidConfig("", {"spec"}) \in FailureType
    BY DEF InvalidConfig, FailureType, Str
  <2> QED BY <1>1, <1>3, <2>1, RejectRollout
<1> QED BY <1>2, <1>3 DEF validateSpec

(* secretAdopter.                                                          *)
LEMMA AdopterRollout ==
    ASSUME VersionsOnly, TypeInv, RolloutInv, secretAdopter
    PROVE  RolloutInv' /\ Walks
<1>1. pc = "adopt" /\ UNCHANGED Watches
  BY DEF secretAdopter, Watches
<1>2. \A next \in {"collect", "missing"} : At(World, Copies, next, Core(obj.status), ctx)
  BY AtOpen DEF Open
<1>3. \/ \E next \in {"collect", "missing"} :
            Continue(next) /\ UNCHANGED <<cluster, secret, jobs, dep, cacheFresh>>
      \/ CallFails
  BY DEF secretAdopter, NoCall, api
<1>4. ASSUME NEW next \in {"collect", "missing"},
             Continue(next) /\ UNCHANGED <<cluster, secret, jobs, dep, cacheFresh>>
      PROVE  RolloutInv' /\ Walks
  <2>1. RolloutInv'
    BY <1>1, <1>2, <1>4, StayRollout
  <2> QED BY <1>4, <2>1, NearSymmetric DEF Walks
<1>5. CASE CallFails
  BY <1>1, <1>5, FailureRollout
<1> QED BY <1>3, <1>4, <1>5

(* reportMissingSecret.                                                    *)
LEMMA MissingRollout ==
    ASSUME VersionsOnly, TypeInv, RolloutInv, reportMissingSecret
    PROVE  RolloutInv' /\ Walks
<1> DEFINE status == [obj.status EXCEPT !.missing = TRUE]
<1>1. /\ pc = "missing" /\ UNCHANGED Watches
      /\ PatchStatus(status, 0, FALSE, "requeue")
  BY DEF reportMissingSecret, Watches, seen
<1>2. /\ status \in StatusType
      /\ status.version = obj.status.version /\ status.target = obj.status.target
      /\ status.current = obj.status.current /\ status.migrating = obj.status.migrating
      /\ status.rolling = obj.status.rolling
  BY ObjTyped DEF TypeInv, WorkInv, StatusType
<1> HIDE DEF status
<1> QED BY <1>1, <1>2, FieldRollout DEF Ends

(* collectSecrets reads the secret from the cache.                         *)
LEMMA CollectRollout ==
    ASSUME VersionsOnly, TypeInv, RolloutInv, collectSecrets
    PROVE  RolloutInv' /\ Walks
<1> DEFINE c == [ctx EXCEPT !.secret = seenSecret]
<1>1. pc = "collect" /\ Goto("changed", obj, objFresh, c)
  BY DEF collectSecrets
<1>2. /\ UNCHANGED <<cluster, cache, cacheFresh, secret, seenSecret>>
      /\ UNCHANGED <<dep, seenDep, jobs, seenJobs>>
  BY DEF collectSecrets, NoCall, api, seen
<1>3. c.secret = seenSecret /\ c.jobs = ctx.jobs /\ c.dep = ctx.dep
  BY DEF TypeInv, WorkInv, WorkOK, CtxType
<1> HIDE DEF c
<1>4. c.secret \in Secrets \cup {""} /\ JobsOK(World, c) /\ DepOK(World, c)
  BY <1>3 DEF RolloutInv, InputsInv, JobsOK, DepOK
<1>5. At(World, Copies, "changed", Core(obj.status), c)
  BY AtOpen DEF Open
<1>6. RolloutInv'
  BY <1>1, <1>2, <1>4, <1>5, GotoRollout
<1> QED BY <1>2, <1>6, NearSymmetric DEF Walks

(* checkConfigChanged.                                                     *)
LEMMA ChangedRollout ==
    ASSUME VersionsOnly, TypeInv, RolloutInv, checkConfigChanged
    PROVE  RolloutInv' /\ Walks
<1> DEFINE status == [obj.status EXCEPT !.secret = ctx.secret, !.missing = FALSE,
                                        !.validating = TRUE]
<1>1. pc = "changed" /\ UNCHANGED Watches
  BY DEF checkConfigChanged, Watches, seen
<1>2. /\ status \in StatusType
      /\ status.version = obj.status.version /\ status.target = obj.status.target
      /\ status.current = obj.status.current /\ status.migrating = obj.status.migrating
      /\ status.rolling = obj.status.rolling
  BY ObjTyped DEF TypeInv, WorkInv, StatusType
<1>3. \/ PatchStatus(status, obj.gen, FALSE, "config")
      \/ Continue("config") /\ NoCall
  BY DEF checkConfigChanged
<1> HIDE DEF status
<1>4. CASE PatchStatus(status, obj.gen, FALSE, "config")
  BY <1>1, <1>2, <1>4, FieldRollout DEF Open
<1>5. CASE Continue("config") /\ NoCall
  <2>1. At(World, Copies, "config", Core(obj.status), ctx)
    BY AtOpen DEF Open
  <2> QED BY <1>1, <1>5, <2>1, NoCallRollout
<1> QED BY <1>3, <1>4, <1>5

(* selfPauseCluster, reportApplyFailed and clearApplyFailed.               *)
LEMMA ConditionsRollout ==
    ASSUME VersionsOnly, TypeInv, RolloutInv,
           selfPauseCluster \/ reportApplyFailed \/ clearApplyFailed
    PROVE  RolloutInv' /\ Walks
<1> DEFINE paused == [obj.status EXCEPT !.paused = TRUE]
           failed == [obj.status EXCEPT !.error = "apply"]
           clear  == [obj.status EXCEPT !.error = "no"]
<1>1. pc # "idle" /\ UNCHANGED Watches
  BY DEF selfPauseCluster, reportApplyFailed, clearApplyFailed, Watches, seen
<1>2. \E status \in {paused, failed, clear}, next \in {"label", "requeue"} :
         PatchStatus(status, obj.gen, TRUE, next)
  BY DEF selfPauseCluster, reportApplyFailed, clearApplyFailed
<1>3. ASSUME NEW status \in {paused, failed, clear}
      PROVE  /\ status \in StatusType
             /\ status.version = obj.status.version /\ status.target = obj.status.target
             /\ status.current = obj.status.current /\ status.migrating = obj.status.migrating
             /\ status.rolling = obj.status.rolling
  BY ObjTyped DEF TypeInv, WorkInv, StatusType
<1> HIDE DEF paused, failed, clear
<1>4. {"label", "requeue"} \subseteq Ends \cup Open
  BY DEF Ends, Open
<1> QED BY <1>1, <1>2, <1>3, <1>4, FieldRollout

(* syncOwnedResource starts with the cached copy.                          *)
LEMMA StartRollout ==
    ASSUME VersionsOnly, TypeInv, RolloutInv, syncOwnedResource
    PROVE  RolloutInv' /\ Walks
<1>1. /\ cluster' = cluster /\ cache' = cache /\ cacheFresh' = cacheFresh /\ World' = World
      /\ pc' = "pause" /\ obj' = cache /\ objFresh' = cacheFresh /\ ctx' = NoCtx
      /\ secret' = secret /\ seenSecret' = seenSecret
  BY DEF syncOwnedResource, NoCall, api, seen, World
<1>2. InputsInv'
  <2>1. NoCtx.secret = ""
    BY DEF NoCtx
  <2> QED BY <1>1, <2>1 DEF RolloutInv, InputsInv
<1>3. FreshInv'
  BY <1>1 DEF RolloutInv, FreshInv
<1>4. Copies' \subseteq Copies
  BY <1>1 DEF Copies
<1>5. JobsOK(World, ctx)' /\ DepOK(World, ctx)'
  BY <1>1, NoCtxOK DEF RolloutInv
<1>6. At(World, Copies, pc', Core(obj.status)', ctx')
  BY <1>1, AtOpen DEF Open
<1>7. Moves(World, World', Copies)
  BY <1>1, NothingMoves
<1>8. RolloutInv'
  BY <1>2, <1>3, <1>4, <1>5, <1>6, <1>7, StepRollout
<1> QED BY <1>1, <1>8, NearSymmetric DEF Walks

----------------------------------------------------------------------------
(* validateConfig *)

(* A valid config is that of the target in hand or, in a quiet status, of  *)
(* an update of it.                                                        *)
LEMMA ComputedTarget ==
    ASSUME VersionsOnly, TypeInv, RolloutInv, pc = "config",
           ConfigErrors(obj, ctx.secret, TargetOf(obj)) = {}
    PROVE  LET h == MigrationConfig(obj, ctx.secret, TargetOf(obj))
               k == Core(obj.status)
           IN  /\ Proper(h) /\ h.version = TargetOf(obj).target /\ ctx.secret \in Secrets
               /\ Blank(World, k) \/ h = k.target \/ (Quiet(k) /\ Edge(k.target, h))
<1> DEFINE t == TargetOf(obj)
           h == MigrationConfig(obj, ctx.secret, t)
           k == Core(obj.status)
           rolling == RolloutInProgress(obj.status)
           current == obj.status.version
<1>1. obj.spec.conf # "bad" /\ ~t.err /\ ctx.secret # ""
  BY DEF ConfigErrors
<1>2. obj.spec \in Wanted /\ ctx.secret \in Secrets
  BY <1>1 DEF RolloutInv, InputsInv
<1>3. Blank(World, k) \/ Tracks(World, k)
  BY InHand DEF RolloutInv, CopiesOK, Told
<1>4. /\ k.version = current /\ k.target = obj.status.target
      /\ Quiet(k) <=> ~rolling
  BY CoreFields
<1> HIDE DEF k
<1>5. ASSUME Tracks(World, k)
      PROVE  /\ Proper(k.target) /\ k.target.version.name \in Ids(Src)
             /\ current = Release(k.target.version.name, Chan)
  BY <1>4, <1>5 DEF Tracks, Proper, Release
<1>6. ASSUME Blank(World, k)
      PROVE  current = NoVersion
  BY <1>4, <1>6 DEF Blank
<1>7. Follows(current)
  <2>1. NoVersion.channel = ""
    BY DEF NoVersion
  <2>2. CASE Tracks(World, k)
    <3>1. Release(k.target.version.name, Chan).channel = Chan
      BY ReleaseFields
    <3>2. current.channel = Chan
      BY <1>5, <2>2, <3>1
    <3> QED BY <3>2 DEF Follows
  <2>3. CASE Blank(World, k)
    BY <1>6, <2>1, <2>3 DEF Follows
  <2> QED BY <1>3, <2>2, <2>3
<1>8. t = ComputeTarget(Graph, Request(obj), current, rolling)
  BY DEF TargetOf, Request
<1> HIDE DEF t, rolling, current
<1>9. /\ HasSource(Graph, Engine, Chan)
      /\ current = NoVersion => \E n \in Ids(Src) : t = Found(Release(n, Chan), State(Src, n))
      /\ \A n \in Ids(Src) : current = Release(n, Chan) =>
            \/ t = Found(Release(n, Chan), State(Src, n))
            \/ /\ ~rolling
               /\ \E m \in Elems(OutEdges(Src, n)) : t = Found(Release(m, Chan), State(Src, m))
  <2>1. ~ComputeTarget(Graph, Request(obj), current, rolling).err
    BY <1>1, <1>8
  <2>2. LET c == ComputeTarget(Graph, Request(obj), current, rolling)
        IN  /\ HasSource(Graph, Engine, Chan)
            /\ current = NoVersion =>
                  \E n \in Ids(Src) : c = Found(Release(n, Chan), State(Src, n))
            /\ \A n \in Ids(Src) : current = Release(n, Chan) =>
                  \/ c = Found(Release(n, Chan), State(Src, n))
                  \/ /\ ~rolling
                     /\ \E m \in Elems(OutEdges(Src, n)) :
                           c = Found(Release(m, Chan), State(Src, m))
    BY <1>2, <1>7, <2>1, ComputeRelease, SMT
  <2> QED BY <1>8, <2>2
<1>10. \E n \in Ids(Src) :
          /\ t = Found(Release(n, Chan), State(Src, n))
          /\ \/ Blank(World, k)
             \/ Tracks(World, k) /\ n = k.target.version.name
             \/ ~rolling /\ n \in Elems(OutEdges(Src, k.target.version.name))
  <2>1. CASE Blank(World, k)
    BY <1>6, <1>9, <2>1
  <2>2. CASE Tracks(World, k)
    <3> DEFINE n == k.target.version.name
    <3>1. n \in Ids(Src) /\ current = Release(n, Chan)
      BY <1>5, <2>2
    <3>2. Elems(OutEdges(Src, n)) \subseteq Ids(Src)
      BY <1>9, SrcValid, EdgesInside
    <3> HIDE DEF n
    <3> QED BY <1>9, <2>2, <3>1, <3>2 DEF n
  <2> QED BY <1>3, <2>1, <2>2
<1>11. PICK n \in Ids(Src) :
          /\ t = Found(Release(n, Chan), State(Src, n))
          /\ \/ Blank(World, k)
             \/ Tracks(World, k) /\ n = k.target.version.name
             \/ ~rolling /\ n \in Elems(OutEdges(Src, k.target.version.name))
  BY <1>10
<1>12. t.target = Release(n, Chan) /\ t.state = State(Src, n)
  BY <1>11 DEF Found
<1>13. /\ h.conf = obj.spec.conf /\ h.uri = ctx.secret
       /\ h.version = t.target /\ h.state = t.state
  BY DEF MigrationConfig, VersionsOnly
<1>14. h \in HashType
  BY ConfigTyped DEF TypeInv, t
<1> HIDE DEF h
<1>15. Proper(h)
  <2>1. h.version.name = n
    BY <1>12, <1>13, ReleaseFields, SMT
  <2>2. h.conf \in Options
    BY <1>1, <1>2, <1>13 DEF Wanted
  <2> QED BY <1>2, <1>9, <1>12, <1>13, <1>14, <2>1, <2>2 DEF Proper, Release
<1>16. Blank(World, k) \/ h = k.target \/ (Quiet(k) /\ Edge(k.target, h))
  <2>1. h.version.name = n
    BY <1>12, <1>13, ReleaseFields, SMT
  <2>2. CASE Tracks(World, k) /\ n = k.target.version.name
    BY <1>5, <1>15, <2>1, <2>2, SameRelease
  <2>3. CASE ~rolling /\ n \in Elems(OutEdges(Src, k.target.version.name))
    BY <1>4, <2>1, <2>3 DEF Edge
  <2> QED BY <1>11, <2>2, <2>3
<1> QED BY <1>2, <1>13, <1>15, <1>16 DEF h, k, t

(* The first target is one that the deployment and the jobs agree with.    *)
LEMMA FirstTarget ==
    ASSUME VersionsOnly, NEW w, NEW k, Blank(w, k), NEW l, Proper(l.target),
           l.version = l.target.version, l.current = k.current, ~Quiet(l)
    PROVE  Told(w, l) /\ Near(k, l)
<1>1. l.current # l.target
  BY RankTyped DEF Blank
<1>2. DepFits(w, l)
  BY <1>1 DEF Blank, DepFits
<1>3. Tracks(w, l)
  BY <1>2 DEF Blank, Tracks, Ran
<1> QED BY <1>3 DEF Told, Near, Blank

(* So is the update of a target that has rolled out.                       *)
LEMMA NextTarget ==
    ASSUME VersionsOnly, NEW w, NEW c, JobsOK(w, c), NEW k, Tracks(w, k), Quiet(k),
           NEW l, Proper(l.target), Edge(k.target, l.target),
           l.version = l.target.version, l.current = k.current, ~Quiet(l)
    PROVE  Told(w, l) /\ Near(k, l)
<1>1. Settled(w, k) /\ Proper(k.target)
  BY DEF Tracks
<1>2. /\ Rank(l.target) < Rank(k.target)
      /\ Rank(l.target) \in Nat /\ Rank(k.target) \in Nat
  BY EdgeRank
<1>3. l.current = k.target /\ l.current # l.target
  BY <1>1, <1>2, SMT DEF Settled
<1>4. DepFits(w, l)
  BY <1>1, <1>3 DEF Settled, DepFits
<1>5. ASSUME NEW j \in w.jobs \cup w.seenJobs
      PROVE  Rank(l.target) < Rank(j.hash)
  <2>1. Rank(j.hash) \in Nat
    BY RankTyped DEF JobsOK, OneEach
  <2>2. Rank(k.target) <= Rank(j.hash)
    BY DEF Tracks
  <2> QED BY <1>2, <2>1, <2>2, SMT
<1>6. ~Ran(w.seenJobs, l.target)
  BY <1>2, <1>5, SMT DEF Ran
<1>7. \A j \in w.jobs \cup w.seenJobs : Rank(l.target) <= Rank(j.hash)
  <2> SUFFICES ASSUME NEW j \in w.jobs \cup w.seenJobs PROVE Rank(l.target) <= Rank(j.hash)
    OBVIOUS
  <2>1. Rank(j.hash) \in Nat
    BY RankTyped DEF JobsOK, OneEach
  <2> QED BY <1>2, <1>5, <2>1, SMT
<1>8. Tracks(w, l)
  BY <1>4, <1>6, <1>7 DEF Tracks
<1> QED BY <1>3, <1>8 DEF Told, Near

(* The target that validateConfig writes.                                  *)
LEMMA TargetRollout ==
    ASSUME VersionsOnly, TypeInv, RolloutInv, pc = "config", UNCHANGED Watches,
           NEW t, t = TargetOf(obj), ConfigErrors(obj, ctx.secret, t) = {},
           NEW computed,
           computed = [obj.status EXCEPT !.observed = obj.gen,
                                         !.target = MigrationConfig(obj, ctx.secret, t),
                                         !.version = t.target,
                                         !.validating = FALSE, !.failed = NoFailure],
           PatchStatus(computed, obj.gen, TRUE, "migrations")
    PROVE  RolloutInv' /\ Walks
<1> DEFINE h == MigrationConfig(obj, ctx.secret, t)
           k == Core(obj.status)
           l == Core(computed)
<1>1. /\ Proper(h) /\ h.version = t.target /\ ctx.secret \in Secrets
      /\ Blank(World, k) \/ h = k.target \/ (Quiet(k) /\ Edge(k.target, h))
  BY ComputedTarget
<1> HIDE DEF h
<1>2. /\ computed \in StatusType
      /\ computed.target = h /\ computed.version = h.version
      /\ computed.current = obj.status.current
      /\ computed.migrating = obj.status.migrating /\ computed.rolling = obj.status.rolling
  <2>1. h \in HashType /\ h.version \in VersionType
    BY <1>1 DEF Proper, HashType
  <2>2. NoFailure \in FailureType
    BY DEF NoFailure, FailureType, Str
  <2>3. obj.gen \in Nat /\ obj.status \in StatusType
    BY ObjTyped DEF TypeInv, WorkInv
  <2> QED BY <1>1, <2>1, <2>2, <2>3 DEF StatusType, h
<1>3. /\ l.target = h /\ l.version = l.target.version /\ l.current = k.current
      /\ k.version = obj.status.version /\ k.target = obj.status.target
  BY <1>2, CoreFields
<1>4. l.current # l.target => ~Quiet(l)
  BY <1>2, <1>3, CoreFields, CoreRolling, SMT
<1>5. Blank(World, k) \/ Tracks(World, k)
  BY InHand DEF RolloutInv, CopiesOK, Told
<1>6. h = k.target /\ Tracks(World, k) => l = k
  <2> SUFFICES ASSUME h = k.target, Tracks(World, k) PROVE l = k
    OBVIOUS
  <2>1. computed.version = obj.status.version /\ computed.target = obj.status.target
    BY <1>2, <1>3 DEF Tracks
  <2>2. RolloutInProgress(computed) <=> RolloutInProgress(obj.status)
    BY <1>2, <2>1 DEF RolloutInProgress
  <2> HIDE DEF k, l
  <2>3. Core(computed) = Core(obj.status)
    BY <1>2, <2>1, <2>2, CoreSame
  <2> QED BY <2>3 DEF k, l
<1>7. JobsOK(World, ctx)
  BY DEF RolloutInv
<1>8. objFresh => Copies \subseteq {k}
  BY FreshCopies DEF RolloutInv
<1> HIDE DEF k, l
<1>9. l = k \/ (Told(World, l) /\ Near(k, l))
  <2>1. CASE Blank(World, k)
    <3>1. ~Quiet(l)
      BY <1>1, <1>3, <1>4, <2>1, RankTyped DEF Blank
    <3> QED BY <1>1, <1>3, <2>1, <3>1, FirstTarget
  <2>2. CASE Tracks(World, k) /\ h = k.target
    BY <1>6, <2>2
  <2>3. CASE Tracks(World, k) /\ Quiet(k) /\ Edge(k.target, h)
    <3>1. k.current = k.target /\ h # k.target
      <4>1. Rank(h) < Rank(k.target) /\ Rank(h) \in Nat
        BY <1>1, <2>3, EdgeRank
      <4> QED BY <2>3, <4>1, SMT DEF Tracks, Settled
    <3>2. ~Quiet(l)
      BY <1>3, <1>4, <3>1
    <3> QED BY <1>1, <1>3, <1>7, <2>3, <3>2, NextTarget
  <2> QED BY <1>1, <1>5, <2>1, <2>2, <2>3
<1>10. At(World, Copies \cup {l}, "migrations", l, ctx)
  BY <1>1, <1>3 DEF At, Running, Deploys
<1> QED BY <1>2, <1>8, <1>9, <1>10, PatchRollout DEF k, l, Walks

(* validateConfig.                                                         *)
LEMMA ConfigRollout ==
    ASSUME VersionsOnly, TypeInv, RolloutInv, validateConfig
    PROVE  RolloutInv' /\ Walks
<1> DEFINE t == TargetOf(obj)
           errs == ConfigErrors(obj, ctx.secret, t)
           computed == [obj.status EXCEPT !.observed = obj.gen,
                                          !.target = MigrationConfig(obj, ctx.secret, t),
                                          !.version = t.target,
                                          !.validating = FALSE, !.failed = NoFailure]
<1>1. pc = "config" /\ UNCHANGED Watches
  BY DEF validateConfig, Watches, seen
<1>2. \/ errs # {} /\ Reject(InvalidConfig(ctx.secret, errs))
      \/ errs = {} /\ Equals(obj.status, computed) /\ Continue("migrations") /\ NoCall
      \/ errs = {} /\ PatchStatus(computed, obj.gen, TRUE, "migrations")
  BY DEF validateConfig
<1>3. CASE Reject(InvalidConfig(ctx.secret, errs))
  <2>1. InvalidConfig(ctx.secret, errs) \in FailureType
    BY ObjTyped DEF TypeInv, WorkInv, InvalidConfig, FailureType, ConfigErrors
  <2> QED BY <1>1, <1>3, <2>1, RejectRollout
<1>4. CASE errs = {} /\ Equals(obj.status, computed) /\ Continue("migrations") /\ NoCall
  <2>1. obj.status.target = MigrationConfig(obj, ctx.secret, t)
    BY <1>4, ObjTyped DEF Equals, TypeInv, WorkInv, StatusType
  <2>2. Proper(MigrationConfig(obj, ctx.secret, t)) /\ ctx.secret \in Secrets
    BY <1>1, <1>4, ComputedTarget
  <2>3. At(World, Copies, "migrations", Core(obj.status), ctx)
    BY <2>1, <2>2, CoreFields DEF At, Running, Deploys
  <2> QED BY <1>1, <1>4, <2>3, NoCallRollout
<1>5. CASE errs = {} /\ PatchStatus(computed, obj.gen, TRUE, "migrations")
  BY <1>1, <1>5, TargetRollout
<1> QED BY <1>2, <1>3, <1>4, <1>5

----------------------------------------------------------------------------
(* Migrations *)

(* With a target in hand the copy tells the truth about the deployment.    *)
LEMMA HandTracks ==
    ASSUME VersionsOnly, RolloutInv, pc # "idle", Proper(obj.status.target)
    PROVE  /\ Tracks(World, Core(obj.status)) /\ ~NoMigrations(obj)
           /\ obj.spec \in Wanted /\ ~obj.spec.skip
<1> DEFINE k == Core(obj.status)
<1>1. Told(World, k)
  BY InHand DEF RolloutInv, CopiesOK
<1>2. k.target = obj.status.target /\ k.version = obj.status.version
  BY CoreFields
<1> HIDE DEF k
<1>3. Tracks(World, k)
  BY <1>1, <1>2, RankTyped DEF Told, Blank
<1>4. obj.spec \in Wanted /\ ~obj.spec.skip /\ Engine # "memory"
  BY DEF RolloutInv, InputsInv, Wanted, VersionsOnly
<1>5. "migration" \in Elems(obj.status.version.attributes)
  <2>1. obj.status.version = Release(obj.status.target.version.name, Chan)
    BY <1>2, <1>3 DEF Tracks, Proper, Release
  <2>2. obj.status.version.attributes = <<"migration">>
    BY <2>1, ReleaseFields, SMT
  <2> QED BY <2>2, SMT DEF Elems
<1> QED BY <1>3, <1>4, <1>5 DEF NoMigrations, k

(* The caches do not show the migration of k's target: checkMigrations     *)
(* runs it, and it is neither deployed nor current.                        *)
LEMMA ToRun ==
    ASSUME VersionsOnly, NEW w, NEW c, DepOK(w, c), NEW k, Tracks(w, k),
           ~(w.seenDep.exists /\ w.seenDep.annotation = k.target),
           \A j \in w.seenJobs : j.hash # k.target
    PROVE  k.current # k.target /\ w.dep.annotation # k.target
<1>1. Proper(k.target) /\ k.target # NoHash
  BY RankTyped DEF Tracks
<1>2. w.seenDep.annotation # k.target
  BY <1>1, DepProper DEF DepOK
<1>3. ~Done(w, k.target)
  BY <1>2 DEF Done, Ran
<1> QED BY <1>1, <1>3 DEF Tracks, DepFits, DepOK

(* They show a job of it: if it is current, the job has completed.         *)
LEMMA ToWait ==
    ASSUME VersionsOnly, NEW w, NEW c, JobsOK(w, c), DepOK(w, c), NEW k, Tracks(w, k),
           ~(w.seenDep.exists /\ w.seenDep.annotation = k.target),
           k.current = k.target, NEW j \in w.seenJobs, j.hash = k.target
    PROVE  j.phase = "complete"
<1>1. Proper(k.target) /\ k.target # NoHash
  BY RankTyped DEF Tracks
<1>2. w.seenDep.annotation # k.target
  BY <1>1, DepProper DEF DepOK
<1>3. Ran(w.seenJobs, k.target)
  BY <1>2 DEF Tracks, DepFits, Done
<1> QED BY <1>3 DEF Ran, JobsOK, OneEach

(* checkMigrations.                                                        *)
LEMMA CheckRollout ==
    ASSUME VersionsOnly, TypeInv, RolloutInv, checkMigrations
    PROVE  RolloutInv' /\ Walks
<1> DEFINE c == [ctx EXCEPT !.dep = seenDep, !.jobs = seenJobs]
           k == Core(obj.status)
           next == AfterCheck(obj, seenDep, seenJobs)
           has == seenDep.exists /\ seenDep.annotation = k.target
<1>1. pc = "migrations" /\ UNCHANGED Watches
  BY DEF checkMigrations, Watches, seen
<1>2. k.target = obj.status.target
  BY CoreFields
<1>3. Proper(k.target) /\ ctx.secret \in Secrets
  BY <1>1 DEF RolloutInv, WorkAt, At
<1>4. Tracks(World, k) /\ ~NoMigrations(obj)
  BY <1>1, <1>2, <1>3, HandTracks
<1>5. /\ c.secret = ctx.secret /\ c.dep = World.seenDep /\ c.jobs = World.seenJobs
      /\ World.seenDep = seenDep /\ World.seenJobs = seenJobs
  BY WorldFields DEF TypeInv, WorkInv, WorkOK, CtxType
<1>6. \/ has /\ next = "deploy"
      \/ ~has /\ next = "wait"
      \/ ~has /\ (\A j \in seenJobs : j.hash # k.target) /\ next = "run"
  BY <1>2, <1>4 DEF AfterCheck
<1> HIDE DEF c, k, next
<1>7. JobsOK(World, c) /\ DepOK(World, c)
  <2>1. JobsOK(World, ctx) /\ DepOK(World, ctx)
    BY DEF RolloutInv
  <2>2. Older(World.seenDep, World.seenDep)
    <3>1. World.seenDep.annotation # NoHash => Proper(World.seenDep.annotation)
      BY <2>1, DepProper DEF DepOK
    <3> QED BY <3>1, RankTyped, SMT DEF Older
  <2> QED BY <1>5, <2>1, <2>2 DEF JobsOK, DepOK
<1>8. At(World, Copies, next, k, c)
  <2>1. CASE has /\ next = "deploy"
    <3>1. Done(World, k.target)
      BY <1>5, <2>1 DEF Done
    <3> QED BY <1>3, <1>5, <2>1, <3>1 DEF At, Running, Deploys
  <2>2. CASE ~has /\ next = "wait"
    <3>1. Ran(c.jobs, k.target) => Done(World, k.target)
      BY <1>4, <1>5 DEF Tracks
    <3>2. k.current = k.target => \A j \in c.jobs : j.hash = k.target => j.phase = "complete"
      BY <1>4, <1>5, <1>7, <2>2, ToWait
    <3> QED BY <1>3, <1>5, <2>2, <3>1, <3>2 DEF At, Running, Deploys
  <2>3. CASE ~has /\ (\A j \in seenJobs : j.hash # k.target) /\ next = "run"
    <3>1. k.current # k.target /\ World.dep.annotation # k.target
      BY <1>4, <1>5, <1>7, <2>3, ToRun
    <3> QED BY <1>3, <1>5, <2>3, <3>1 DEF At, Running, Deploys
  <2> QED BY <1>6, <2>1, <2>2, <2>3
<1>9. CASE Goto(next, obj, objFresh, c) /\ NoCall
  <2>1. /\ UNCHANGED <<cluster, cache, cacheFresh, secret, seenSecret>>
        /\ UNCHANGED <<dep, seenDep, jobs, seenJobs>>
    BY <1>1, <1>9 DEF NoCall, api, Watches
  <2>2. RolloutInv'
    BY <1>1, <1>3, <1>5, <1>7, <1>8, <1>9, <2>1, GotoRollout DEF k
  <2> QED BY <2>1, <2>2, NearSymmetric DEF Walks
<1>10. CASE CallFails
  BY <1>1, <1>10, FailureRollout
<1> QED BY <1>9, <1>10 DEF checkMigrations, c, next

(* runMigration finds a target that is not current, so a rollout is in     *)
(* progress before it says so and after.                                   *)
LEMMA RunRollout ==
    ASSUME VersionsOnly, TypeInv, RolloutInv, runMigration
    PROVE  RolloutInv' /\ Walks
<1> DEFINE k == Core(obj.status)
           status == [obj.status EXCEPT !.migrating = "true"]
<1>1. pc = "run" /\ UNCHANGED Watches /\ PatchStatus(status, obj.gen, TRUE, "job")
  BY DEF runMigration, Watches, seen
<1>2. /\ status \in StatusType
      /\ status.version = obj.status.version /\ status.target = obj.status.target
      /\ status.current = obj.status.current
  BY ObjTyped DEF TypeInv, WorkInv, StatusType
<1> HIDE DEF status
<1>3. At(World, Copies, "run", k, ctx)
  BY <1>1 DEF RolloutInv, WorkAt
<1>4. k.current = obj.status.current /\ k.target = obj.status.target
  BY CoreFields
<1>5. Core(status) = k
  <2>1. status.current # status.target /\ obj.status.current # obj.status.target
    BY <1>2, <1>3, <1>4 DEF At, Running
  <2> QED BY <1>2, <2>1, CoreSame DEF RolloutInProgress
<1>6. objFresh => Copies \subseteq {k}
  BY <1>1, FreshCopies DEF RolloutInv
<1> HIDE DEF k
<1>7. objFresh => At(World, Copies \cup {k}, "job", k, ctx)
  BY <1>3, <1>6 DEF At, Running, Deploys
<1> QED BY <1>1, <1>2, <1>5, <1>7, PatchRollout DEF k, Walks

(* A handler that changes the deployment or the jobs no more than may be   *)
(* done to them, and goes on.                                              *)
LEMMA CallRollout ==
    ASSUME VersionsOnly, RolloutInv, pc # "idle", pc # "selfpause", NEW next, NEW c,
           Goto(next, obj, objFresh, c), c.secret \in Secrets \cup {""},
           UNCHANGED <<cluster, cache, cacheFresh, secret, seenSecret>>,
           Moves(World, World', Copies), JobsOK(World', c), DepOK(World', c),
           next \in Ends \/ At(World, Copies, next, Core(obj.status), c)
    PROVE  RolloutInv' /\ Walks
<1>1. /\ InputsInv' /\ FreshInv' /\ Copies' \subseteq Copies
      /\ \/ pc' = "idle" /\ ctx' = NoCtx
         \/ pc' = next /\ ctx' = c /\ obj' = obj
  BY GotoCopies
<1>2. JobsOK(World, ctx)' /\ DepOK(World, ctx)'
  BY <1>1, NoCtxOK
<1>3. pc' # "idle" => At(World, Copies, pc', Core(obj.status)', ctx')
  BY <1>1 DEF Goto, Ends
<1>4. RolloutInv'
  BY <1>1, <1>2, <1>3, StepRollout
<1> QED BY <1>4, NearSymmetric DEF Walks

(* applyJob.                                                               *)
LEMMA ApplyJobRollout ==
    ASSUME VersionsOnly, TypeInv, RolloutInv, applyJob
    PROVE  RolloutInv' /\ Walks
<1> DEFINE k == Core(obj.status)
           t == obj.status.target
<1>1. pc = "job" /\ UNCHANGED Watches
  BY DEF applyJob, Watches, seen
<1>2. At(World, Copies, "job", k, ctx) /\ k.target = t
  BY <1>1, CoreFields DEF RolloutInv, WorkAt
<1> HIDE DEF k
<1>3. /\ Proper(t) /\ ctx.secret \in Secrets /\ \A l \in Copies : l.target = t
      /\ At(World, Copies, "extras", k, ctx)
  BY <1>2 DEF At, Running, Deploys
<1>4. JobsOK(World, ctx) /\ DepOK(World, ctx)
  BY DEF RolloutInv
<1>5. CASE CallFails
  BY <1>1, <1>5, FailureRollout
<1>6. CASE /\ IF \E j \in jobs : j.hash = t
              THEN jobs' = jobs
              ELSE jobs' = jobs \cup {MigrationJob(t)}
           /\ Continue("extras")
           /\ UNCHANGED <<cluster, secret, dep, cacheFresh>>
  <2>1. /\ World'.dep = World.dep /\ World'.seenDep = World.seenDep
        /\ World'.seenJobs = World.seenJobs /\ World.jobs = jobs /\ World'.jobs = jobs'
    BY <1>1, <1>6 DEF World, Watches
  <2>2. jobs \subseteq jobs' /\ \A j \in jobs' : j \in jobs \/ j.hash = t
    BY <1>6, SMT DEF MigrationJob
  <2>3. OneEach(jobs')
    <3>1. MigrationJob(t).hash = t
      BY DEF MigrationJob
    <3>2. OneEach(jobs)
      BY <1>4, <2>1 DEF JobsOK
    <3>3. CASE jobs' = jobs
      BY <3>2, <3>3
    <3>4. CASE (\A j \in jobs : j.hash # t) /\ jobs' = jobs \cup {MigrationJob(t)}
      BY <1>3, <3>1, <3>2, <3>4 DEF OneEach
    <3> QED BY <1>6, <3>3, <3>4
  <2>4. ASSUME NEW h, Done(World, h) PROVE Done(World', h)
    BY <2>1, <2>2, <2>4 DEF Done, Ran
  <2>5. Moves(World, World', Copies)
    BY <1>3, <2>1, <2>2, <2>4 DEF Moves
  <2>6. JobsOK(World', ctx) /\ DepOK(World', ctx)
    BY <1>4, <2>1, <2>3, <2>4 DEF JobsOK, DepOK
  <2>7. UNCHANGED <<cluster, cache, cacheFresh, secret, seenSecret>>
        /\ Goto("extras", obj, objFresh, ctx)
    BY <1>1, <1>6 DEF Watches, Continue
  <2> QED BY <1>1, <1>3, <2>5, <2>6, <2>7, CallRollout DEF k
<1> QED BY <1>5, <1>6 DEF applyJob

(* deleteExtraJobs deletes jobs of other hashes.  The migration of the     *)
(* deployment is among them, but the cache shows that deployment.          *)
LEMMA ExtrasRollout ==
    ASSUME VersionsOnly, TypeInv, RolloutInv, deleteExtraJobs
    PROVE  RolloutInv' /\ Walks
<1> DEFINE k == Core(obj.status)
           t == obj.status.target
<1>1. pc = "extras" /\ UNCHANGED Watches
  BY DEF deleteExtraJobs, Watches, seen
<1>2. At(World, Copies, "extras", k, ctx) /\ k.target = t
  BY <1>1, CoreFields DEF RolloutInv, WorkAt
<1>3. Proper(t)
  BY <1>2 DEF At, Running
<1>4. Tracks(World, k)
  BY <1>1, <1>3, HandTracks
<1>5. JobsOK(World, ctx) /\ DepOK(World, ctx)
  BY DEF RolloutInv
<1> HIDE DEF k
<1>6. /\ ctx.secret \in Secrets /\ \A l \in Copies : l.target = t
      /\ \A j \in ctx.jobs : j.hash # t
      /\ k.current # t /\ World.dep.annotation # t
  BY <1>2 DEF At, Running
<1>7. CASE Continue("requeue") /\ NoCall
  BY <1>1, <1>7, NoCallRollout DEF Ends
<1>8. CASE CallFails
  BY <1>1, <1>8, FailureRollout
<1>9. ASSUME NEW extra \in ctx.jobs,
             jobs' = {j \in jobs : j.hash # extra.hash},
             Goto("extras", obj, objFresh, [ctx EXCEPT !.jobs = ctx.jobs \ {extra}]),
             UNCHANGED <<cluster, secret, dep, cacheFresh>>
      PROVE  RolloutInv' /\ Walks
  <2> DEFINE c == [ctx EXCEPT !.jobs = ctx.jobs \ {extra}]
  <2>1. /\ World'.dep = World.dep /\ World'.seenDep = World.seenDep
        /\ World'.seenJobs = World.seenJobs /\ World.jobs = jobs /\ World'.jobs = jobs'
    BY <1>1, <1>9 DEF World, Watches
  <2>2. c.secret = ctx.secret /\ c.dep = ctx.dep /\ c.jobs \subseteq ctx.jobs
    BY DEF TypeInv, WorkInv, WorkOK, CtxType
  <2> HIDE DEF c
  <2>3. Done(World, t) => Done(World', t)
    BY <1>6, <1>9, <2>1 DEF Done, Ran
  <2>4. jobs' \subseteq jobs
    BY <1>9
  <2>5. Moves(World, World', Copies)
    BY <1>6, <2>1, <2>3, <2>4 DEF Moves
  <2>6. World.dep.annotation # NoHash => World.seenDep.annotation = World.dep.annotation
    BY <1>2, <1>4, <1>6 DEF Tracks, DepFits
  <2>7. JobsOK(World', c) /\ DepOK(World', c)
    BY <1>5, <2>1, <2>2, <2>4, <2>6 DEF JobsOK, OneEach, DepOK, Done
  <2>8. At(World, Copies, "extras", k, c)
    BY <1>2, <2>2 DEF At, Running, Deploys
  <2>9. UNCHANGED <<cluster, cache, cacheFresh, secret, seenSecret>>
        /\ Goto("extras", obj, objFresh, c)
    BY <1>1, <1>9 DEF Watches, c
  <2> QED BY <1>1, <1>6, <2>2, <2>5, <2>7, <2>8, <2>9, CallRollout DEF k
<1> QED BY <1>7, <1>8, <1>9 DEF deleteExtraJobs

(* waitForMigrations: a target that is current has no failed job, so a     *)
(* rollout is in progress with the failed condition and without.           *)
LEMMA WaitRollout ==
    ASSUME VersionsOnly, TypeInv, RolloutInv, waitForMigrations
    PROVE  RolloutInv' /\ Walks
<1> DEFINE k == Core(obj.status)
           o == [obj EXCEPT !.status.migrating = "false"]
<1>1. pc = "wait" /\ UNCHANGED Watches /\ NoCall
  BY DEF waitForMigrations, Watches, seen
<1>2. /\ At(World, Copies, "wait", k, ctx)
      /\ k.target = obj.status.target /\ k.current = obj.status.current
  BY <1>1, CoreFields DEF RolloutInv, WorkAt
<1>3. PICK job \in ctx.jobs :
         /\ job.hash = obj.status.target
         /\ \/ job.phase = "failed" /\ Goto("selfpause", o, objFresh, ctx)
            \/ job.phase = "complete" /\ Continue("deploy")
            \/ Continue("requeue")
  BY DEF waitForMigrations
<1>4. /\ o.spec = obj.spec
      /\ o.status.version = obj.status.version /\ o.status.target = obj.status.target
      /\ o.status.current = obj.status.current
  BY ObjTyped DEF TypeInv, WorkInv, WorkOK, ClusterType, StatusType
<1> HIDE DEF o
<1>5. CASE job.phase = "failed" /\ Goto("selfpause", o, objFresh, ctx)
  <2>1. obj.status.current # obj.status.target
    BY <1>2, <1>3, <1>5 DEF At
  <2>2. Core(o.status) = Core(obj.status)
    BY <1>4, <2>1, CoreSame DEF RolloutInProgress
  <2>3. At(World, Copies, "selfpause", Core(obj.status), ctx)
    BY AtOpen DEF Open
  <2>4. /\ ctx.secret \in Secrets \cup {""} /\ JobsOK(World, ctx) /\ DepOK(World, ctx)
    BY DEF RolloutInv, InputsInv
  <2>5. /\ UNCHANGED <<cluster, cache, cacheFresh, secret, seenSecret>>
        /\ UNCHANGED <<dep, seenDep, jobs, seenJobs>>
    BY <1>1 DEF NoCall, api, Watches
  <2>6. RolloutInv'
    BY <1>1, <1>4, <1>5, <2>2, <2>3, <2>4, <2>5, GotoRollout
  <2> QED BY <2>5, <2>6, NearSymmetric DEF Walks
<1>6. CASE job.phase = "complete" /\ Continue("deploy")
  <2>1. Done(World, k.target)
    BY <1>2, <1>3, <1>6 DEF At, Ran
  <2>2. At(World, Copies, "deploy", k, ctx)
    BY <1>2, <2>1 DEF At, Running, Deploys
  <2> QED BY <1>1, <1>6, <2>2, NoCallRollout
<1>7. CASE Continue("requeue")
  BY <1>1, <1>7, NoCallRollout DEF Ends
<1> QED BY <1>3, <1>5, <1>6, <1>7

(* Patch applies the label and the spec in hand, not the status.           *)
LEMMA LabelRollout ==
    ASSUME VersionsOnly, TypeInv, RolloutInv, Patch
    PROVE  RolloutInv' /\ Walks
<1>1. pc = "label" /\ UNCHANGED Watches
  BY DEF Patch, Watches, seen
<1>2. CASE CallFails
  BY <1>1, <1>2, FailureRollout
<1>3. ASSUME NEW spec \in Applied(obj.spec, cluster.spec),
             cluster' = [cluster EXCEPT !.paused = TRUE, !.spec = spec,
                                        !.gen = IF spec = cluster.spec THEN @ ELSE @ + 1],
             cacheFresh' = (cacheFresh /\ cluster' = cluster),
             Continue("done"),
             UNCHANGED <<secret, jobs, dep>>
      PROVE  RolloutInv' /\ Walks
  <2>0. spec \in Wanted
    BY <1>1, AppliedWanted DEF RolloutInv, InputsInv
  <2>1. cluster'.status = cluster.status /\ cluster'.spec = spec
    BY <1>3 DEF TypeInv, TypeOK, ApiOK, ClusterType
  <2>2. pc' = "idle" /\ objFresh' = FALSE /\ ctx' = NoCtx
    BY <1>3 DEF Continue, Goto
  <2>3. cacheFresh' => cacheFresh
    BY <1>3
  <2>4. World' = World /\ cache' = cache /\ seenSecret' = seenSecret /\ secret' = secret
    BY <1>1, <1>3 DEF World, Watches
  <2>5. InputsInv'
    <3>1. NoCtx.secret = ""
      BY DEF NoCtx
    <3> QED BY <2>0, <2>1, <2>2, <2>4, <3>1 DEF RolloutInv, InputsInv
  <2>6. FreshInv'
    BY <2>1, <2>2, <2>3, <2>4 DEF RolloutInv, FreshInv
  <2>7. Copies' \subseteq Copies
    BY <2>1, <2>2, <2>4 DEF Copies
  <2>8. JobsOK(World, ctx)' /\ DepOK(World, ctx)'
    BY <2>2, <2>4, NoCtxOK DEF RolloutInv
  <2>9. Moves(World, World', Copies)
    BY <2>4, NothingMoves
  <2>10. RolloutInv'
    BY <2>2, <2>5, <2>6, <2>7, <2>8, <2>9, StepRollout
  <2> QED BY <2>1, <2>10, NearSymmetric DEF Walks
<1> QED BY <1>2, <1>3 DEF Patch

----------------------------------------------------------------------------
(* The deployment *)

(* A copy goes on to track the deployment when its target becomes current, *)
(* once that is migrated, and when its phase changes.                      *)
LEMMA NewPhase ==
    ASSUME NEW w, NEW k, Tracks(w, k), Done(w, k.target), NEW l,
           l.version = k.version, l.target = k.target, l.current = k.target,
           Quiet(l) => Settled(w, l)
    PROVE  Told(w, l) /\ Near(k, l)
<1>1. DepFits(w, l)
  BY DEF Tracks, DepFits
<1>2. Tracks(w, l)
  BY <1>1 DEF Tracks
<1> QED BY <1>2 DEF Told, Near

(* ensureDeployment makes the target the current hash.                     *)
LEMMA EnsureRollout ==
    ASSUME VersionsOnly, TypeInv, RolloutInv, ensureDeployment
    PROVE  RolloutInv' /\ Walks
<1> DEFINE k == Core(obj.status)
           status == [obj.status EXCEPT !.migrating = "no", !.current = obj.status.target,
                                        !.rolling = TRUE]
           l == Core(status)
<1>1. pc = "deploy" /\ UNCHANGED Watches
  BY DEF ensureDeployment, Watches, seen
<1>2. /\ At(World, Copies, "deploy", k, ctx)
      /\ k.target = obj.status.target /\ k.current = obj.status.current
      /\ k.version = obj.status.version
  BY <1>1, CoreFields DEF RolloutInv, WorkAt
<1>3. Tracks(World, k)
  BY <1>1, <1>2, HandTracks DEF At, Deploys
<1>4. \/ PatchStatus(status, obj.gen, TRUE, "apply")
      \/ obj.status.current = obj.status.target /\ Continue("apply") /\ NoCall
  BY DEF ensureDeployment
<1>5. /\ status \in StatusType
      /\ status.version = obj.status.version /\ status.target = obj.status.target
      /\ status.current = obj.status.target /\ status.rolling
  BY ObjTyped DEF TypeInv, WorkInv, StatusType
<1>6. /\ l.version = k.version /\ l.target = k.target /\ l.current = k.target
      /\ ~Quiet(l)
  BY <1>2, <1>5, CoreFields DEF RolloutInProgress
<1>7. objFresh => Copies \subseteq {k}
  BY <1>1, FreshCopies DEF RolloutInv
<1> HIDE DEF k, l, status
<1>8. Proper(k.target) /\ ctx.secret \in Secrets /\ Done(World, k.target)
  BY <1>2 DEF At, Deploys
<1>9. CASE PatchStatus(status, obj.gen, TRUE, "apply")
  <2>1. Told(World, l) /\ Near(k, l)
    BY <1>3, <1>6, <1>8, NewPhase
  <2>2. At(World, Copies \cup {l}, "apply", l, ctx)
    BY <1>6, <1>8 DEF At, Running, Deploys
  <2> QED BY <1>1, <1>5, <1>7, <1>9, <2>1, <2>2, PatchRollout DEF k, l, Walks
<1>10. CASE obj.status.current = obj.status.target /\ Continue("apply") /\ NoCall
  <2>1. At(World, Copies, "apply", k, ctx)
    BY <1>2, <1>8, <1>10 DEF At, Running, Deploys
  <2> QED BY <1>1, <1>10, <2>1, NoCallRollout DEF k
<1> QED BY <1>4, <1>9, <1>10

(* waitForRollout reports a rollout as complete when the deployment in     *)
(* hand, and so the deployment itself, has rolled out.                     *)
LEMMA ProgressRollout ==
    ASSUME VersionsOnly, TypeInv, RolloutInv, waitForRollout
    PROVE  RolloutInv' /\ Walks
<1> DEFINE k == Core(obj.status)
           crash   == [obj.status EXCEPT !.error = "pod"]
           rolling == [obj.status EXCEPT !.rolling = TRUE]
           ready   == [obj.status EXCEPT !.rolling = FALSE, !.error = "no"]
<1>1. pc = "rollout" /\ UNCHANGED Watches
  BY DEF waitForRollout, Watches, seen
<1>2. /\ At(World, Copies, "rollout", k, ctx)
      /\ k.target = obj.status.target /\ k.current = obj.status.current
      /\ k.version = obj.status.version
  BY <1>1, CoreFields DEF RolloutInv, WorkAt
<1>3. Tracks(World, k)
  BY <1>1, <1>2, HandTracks DEF At, Deploys
<1>4. \/ PatchStatus(crash, obj.gen, TRUE, "requeue")
      \/ PatchStatus(rolling, obj.gen, TRUE, "requeue")
      \/ ctx.dep.ready /\ PatchStatus(ready, obj.gen, TRUE, "cleanup")
      \/ Continue("cleanup") /\ NoCall
  BY DEF waitForRollout
<1>5. /\ crash \in StatusType
      /\ crash.version = obj.status.version /\ crash.target = obj.status.target
      /\ crash.current = obj.status.current /\ crash.migrating = obj.status.migrating
      /\ crash.rolling = obj.status.rolling
  BY ObjTyped DEF TypeInv, WorkInv, StatusType
<1>6. ASSUME NEW status \in {rolling, ready}
      PROVE  /\ status \in StatusType
             /\ Core(status).version = k.version /\ Core(status).target = k.target
             /\ Core(status).current = k.current
  <2>1. /\ status \in StatusType
        /\ status.version = obj.status.version /\ status.target = obj.status.target
        /\ status.current = obj.status.current
    BY ObjTyped DEF TypeInv, WorkInv, StatusType
  <2> QED BY <1>2, <2>1, CoreFields
<1>7. ~Quiet(Core(rolling))
  <2>1. rolling.rolling
    BY ObjTyped DEF TypeInv, WorkInv, StatusType
  <2> QED BY <2>1, CoreFields DEF RolloutInProgress
<1>8. objFresh => Copies \subseteq {k}
  BY <1>1, FreshCopies DEF RolloutInv
<1> HIDE DEF k, crash, rolling, ready
<1>9. /\ Proper(k.target) /\ ctx.secret \in Secrets /\ Done(World, k.target)
      /\ k.current = k.target /\ ctx.dep.annotation = k.target
  BY <1>2 DEF At, Deploys
<1>10. CASE PatchStatus(crash, obj.gen, TRUE, "requeue")
  BY <1>1, <1>5, <1>10, FieldRollout DEF Ends
<1>11. CASE PatchStatus(rolling, obj.gen, TRUE, "requeue")
  <2>1. Told(World, Core(rolling)) /\ Near(k, Core(rolling))
    BY <1>3, <1>6, <1>7, <1>9, NewPhase
  <2> QED BY <1>1, <1>6, <1>8, <1>11, <2>1, PatchRollout DEF k, Walks, Ends
<1>12. CASE ctx.dep.ready /\ PatchStatus(ready, obj.gen, TRUE, "cleanup")
  <2>1. ctx.dep.rolled /\ DepOK(World, ctx)
    BY <1>9, <1>12, DepProper, RankTyped DEF RolloutInv, DepOK
  <2>2. Settled(World, Core(ready))
    BY <1>3, <1>6, <1>9, <2>1, HeldTarget DEF Settled
  <2>3. Told(World, Core(ready)) /\ Near(k, Core(ready))
    BY <1>3, <1>6, <1>9, <2>2, NewPhase
  <2>4. At(World, Copies \cup {Core(ready)}, "cleanup", Core(ready), ctx)
    BY <1>6, <1>9 DEF At, Running, Deploys
  <2> QED BY <1>1, <1>6, <1>8, <1>12, <2>3, <2>4, PatchRollout DEF k, Walks
<1>13. CASE Continue("cleanup") /\ NoCall
  <2>1. At(World, Copies, "cleanup", k, ctx)
    BY <1>9 DEF At, Running, Deploys
  <2> QED BY <1>1, <1>13, <2>1, NoCallRollout DEF k
<1> QED BY <1>4, <1>10, <1>11, <1>12, <1>13

(* cleanupJob deletes the job of the deployment that the cache shows.      *)
LEMMA CleanupRollout ==
    ASSUME VersionsOnly, TypeInv, RolloutInv, cleanupJob
    PROVE  RolloutInv' /\ Walks
<1> DEFINE k == Core(obj.status)
           t == obj.status.target
           c == [ctx EXCEPT !.jobs = seenJobs, !.pods = seenPods]
<1>1. pc = "cleanup" /\ UNCHANGED Watches
  BY DEF cleanupJob, Watches, seen
<1>2. At(World, Copies, "cleanup", k, ctx) /\ k.target = t
  BY <1>1, CoreFields DEF RolloutInv, WorkAt
<1>3. Tracks(World, k)
  BY <1>1, <1>2, HandTracks DEF At, Deploys
<1>4. JobsOK(World, ctx) /\ DepOK(World, ctx)
  BY DEF RolloutInv
<1>5. \/ \E next \in Ends : Continue(next) /\ NoCall
      \/ Goto("pods", obj, objFresh, c) /\ NoCall
      \/ /\ jobs' = {j \in jobs : j.hash # ctx.dep.annotation}
         /\ Goto("pods", obj, objFresh, c)
         /\ UNCHANGED <<cluster, secret, dep, cacheFresh>>
      \/ CallFails
  BY DEF cleanupJob, Ends
<1>6. c.secret = ctx.secret /\ c.dep = ctx.dep /\ c.jobs = seenJobs /\ World.seenJobs = seenJobs
  BY WorldFields DEF TypeInv, WorkInv, WorkOK, CtxType
<1> HIDE DEF k, c
<1>7. /\ Proper(t) /\ ctx.secret \in Secrets /\ Done(World, t)
      /\ k.current = k.target /\ ctx.dep.annotation = t
  BY <1>2 DEF At, Deploys
<1>8. World.seenDep.annotation = t /\ World.dep.annotation = t
  BY <1>2, <1>3, <1>4, <1>7, HeldTarget, SMT
<1>9. At(World, Copies, "pods", k, c)
  BY <1>2, <1>6, <1>7 DEF At, Running, Deploys
<1>10. ASSUME NEW next \in Ends, Continue(next), NoCall
       PROVE  RolloutInv' /\ Walks
  BY <1>1, <1>10, NoCallRollout
<1>11. CASE Goto("pods", obj, objFresh, c) /\ NoCall
  <2>1. UNCHANGED <<cluster, cache, cacheFresh, secret, seenSecret>> /\ World' = World
    BY <1>1, <1>11 DEF NoCall, api, Watches, World
  <2>2. JobsOK(World', c) /\ DepOK(World', c)
    BY <1>4, <1>6, <2>1 DEF JobsOK, DepOK
  <2>3. Moves(World, World', Copies)
    BY <2>1, NothingMoves
  <2> QED BY <1>1, <1>6, <1>7, <1>9, <1>11, <2>1, <2>2, <2>3, CallRollout DEF k
<1>12. CASE /\ jobs' = {j \in jobs : j.hash # ctx.dep.annotation}
            /\ Goto("pods", obj, objFresh, c)
            /\ UNCHANGED <<cluster, secret, dep, cacheFresh>>
  <2>1. /\ World'.dep = World.dep /\ World'.seenDep = World.seenDep
        /\ World'.seenJobs = World.seenJobs /\ World.jobs = jobs /\ World'.jobs = jobs'
    BY <1>1, <1>12 DEF World, Watches
  <2>2. jobs' \subseteq jobs /\ \A j \in jobs : j.hash # t => j \in jobs'
    BY <1>7, <1>12
  <2>3. ASSUME NEW h, Done(World, h) PROVE Done(World', h)
    <3>1. CASE h = t
      BY <1>8, <2>1, <3>1 DEF Done
    <3>2. CASE h # t
      BY <2>1, <2>2, <2>3, <3>2 DEF Done, Ran
    <3> QED BY <3>1, <3>2
  <2>4. Moves(World, World', Copies)
    BY <2>1, <2>2, <2>3 DEF Moves
  <2>5. JobsOK(World', c) /\ DepOK(World', c)
    BY <1>4, <1>6, <2>1, <2>2, <2>3 DEF JobsOK, OneEach, DepOK
  <2>6. UNCHANGED <<cluster, cache, cacheFresh, secret, seenSecret>>
    BY <1>1, <1>12 DEF Watches
  <2> QED BY <1>1, <1>6, <1>7, <1>9, <1>12, <2>4, <2>5, <2>6, CallRollout DEF k
<1>13. CASE CallFails
  BY <1>1, <1>13, FailureRollout
<1> QED BY <1>5, <1>10, <1>11, <1>12, <1>13

(* cleanupPods touches pods only.                                          *)
LEMMA PodsRollout ==
    ASSUME VersionsOnly, TypeInv, RolloutInv, cleanupPods
    PROVE  RolloutInv' /\ Walks
<1> DEFINE k == Core(obj.status)
<1>1. pc = "pods" /\ UNCHANGED Watches
  BY DEF cleanupPods, Watches, seen
<1>2. At(World, Copies, "pods", k, ctx)
  BY <1>1 DEF RolloutInv, WorkAt
<1>3. JobsOK(World, ctx) /\ DepOK(World, ctx) /\ ctx.secret \in Secrets \cup {""}
  BY DEF RolloutInv, InputsInv
<1>4. ASSUME NEW next \in Ends, Continue(next), NoCall
      PROVE  RolloutInv' /\ Walks
  BY <1>1, <1>4, NoCallRollout
<1>5. CASE CallFails
  BY <1>1, <1>5, FailureRollout
<1>6. ASSUME NEW pod, Goto("pods", obj, objFresh, [ctx EXCEPT !.pods = ctx.pods \ {pod}]),
             UNCHANGED <<cluster, secret, jobs, dep, cacheFresh>>
      PROVE  RolloutInv' /\ Walks
  <2> DEFINE c == [ctx EXCEPT !.pods = ctx.pods \ {pod}]
  <2>1. c.secret = ctx.secret /\ c.dep = ctx.dep /\ c.jobs = ctx.jobs
    BY DEF TypeInv, WorkInv, WorkOK, CtxType
  <2>2. UNCHANGED <<cluster, cache, cacheFresh, secret, seenSecret>> /\ World' = World
    BY <1>1, <1>6 DEF Watches, World
  <2> HIDE DEF c, k
  <2>3. JobsOK(World', c) /\ DepOK(World', c)
    BY <1>3, <2>1, <2>2 DEF JobsOK, DepOK
  <2>4. Moves(World, World', Copies)
    BY <2>2, NothingMoves
  <2>5. At(World, Copies, "pods", k, c)
    BY <1>2, <2>1 DEF At
  <2> QED BY <1>1, <1>3, <1>6, <2>1, <2>2, <2>3, <2>4, <2>5, CallRollout DEF c, k
<1>7. \/ \E next \in Ends : Continue(next) /\ NoCall
      \/ CallFails
      \/ \E pod \in ctx.pods :
            /\ Goto("pods", obj, objFresh, [ctx EXCEPT !.pods = ctx.pods \ {pod}])
            /\ UNCHANGED <<cluster, secret, jobs, dep, cacheFresh>>
  BY DEF cleanupPods, Ends
<1> QED BY <1>4, <1>5, <1>6, <1>7

(* A copy k whose target is current and migrated, but not deployed: every  *)
(* copy has that target, and none is quiet.                                *)
LEMMA ToDeploy ==
    ASSUME VersionsOnly, NEW w, NEW c, DepOK(w, c), NEW ks, CopiesOK(w, ks),
           NEW k \in ks, Tracks(w, k), k.current = k.target, w.dep.annotation # k.target,
           NEW l \in ks
    PROVE  l.target = k.target /\ ~Quiet(l) /\ Tracks(w, l)
<1>1. Proper(k.target) /\ k.target # NoHash /\ Done(w, k.target) /\ ~Quiet(k)
  BY RankTyped DEF Tracks, DepFits, Settled
<1>2. ~Blank(w, l)
  <2> SUFFICES ASSUME Blank(w, l) PROVE FALSE
    OBVIOUS
  <2>1. w.seenDep.annotation = k.target
    BY <1>1 DEF Blank, Done, Ran
  <2> QED BY <1>1, <2>1 DEF DepOK, Older, Blank
<1>3. Tracks(w, l)
  BY <1>2 DEF CopiesOK, Told
<1>4. Near(k, l)
  BY DEF CopiesOK
<1>5. l.target = k.target
  BY <1>1, <1>4 DEF Near
<1>6. ~Quiet(l)
  BY <1>3, <1>5 DEF Tracks, Settled
<1> QED BY <1>3, <1>5, <1>6

(* Then deploying it, by a new deployment d, is what all copies tell.      *)
LEMMA DeployTold ==
    ASSUME VersionsOnly, NEW w, NEW c, DepOK(w, c), NEW ks, CopiesOK(w, ks),
           NEW k \in ks, Tracks(w, k), k.current = k.target, w.dep.annotation # k.target,
           NEW x, x.seenDep = w.seenDep, x.jobs = w.jobs, x.seenJobs = w.seenJobs,
           x.dep.annotation = k.target, IsDep(x.dep)
    PROVE  /\ CopiesOK(x, ks) /\ DepOK(x, c)
           /\ w.dep.annotation = NoHash \/ Edge(w.dep.annotation, x.dep.annotation)
<1>1. Proper(k.target) /\ k.target # NoHash /\ Done(w, k.target)
  BY RankTyped DEF Tracks, DepFits
<1>2. \A h : Done(x, h) <=> Done(w, h)
  BY DEF Done
<1>3. w.dep.annotation = NoHash \/ Edge(w.dep.annotation, k.target)
  BY DEF Tracks, DepFits
<1>4. ASSUME NEW l \in ks PROVE Told(x, l)
  <2>1. l.target = k.target /\ ~Quiet(l) /\ Tracks(w, l)
    BY ToDeploy
  <2>2. DepFits(x, l)
    BY <1>1, <1>2, <2>1 DEF DepFits
  <2>3. Tracks(x, l)
    BY <1>2, <2>1, <2>2 DEF Tracks
  <2> QED BY <2>3 DEF Told
<1>5. CopiesOK(x, ks)
  BY <1>4 DEF CopiesOK
<1>6. Older(x.seenDep, x.dep)
  <2> SUFFICES ASSUME w.seenDep.annotation # NoHash
               PROVE  /\ Rank(k.target) <= Rank(w.seenDep.annotation)
                      /\ w.seenDep.annotation # k.target
    BY <1>1 DEF Older
  <2>1. w.dep.annotation # NoHash /\ Rank(w.dep.annotation) <= Rank(w.seenDep.annotation)
    BY DEF DepOK, Older
  <2>2. /\ Rank(k.target) < Rank(w.dep.annotation)
        /\ Rank(k.target) \in Nat /\ Rank(w.dep.annotation) \in Nat
    BY <1>1, <1>3, <2>1, EdgeRank
  <2>3. Rank(w.seenDep.annotation) \in Nat
    BY DepProper, RankTyped DEF DepOK
  <2>4. Rank(k.target) < Rank(w.seenDep.annotation)
    BY <2>1, <2>2, <2>3, SMT
  <2>5. Rank(k.target) <= Rank(w.seenDep.annotation)
    BY <2>2, <2>3, <2>4, SMT
  <2>6. w.seenDep.annotation # k.target
    BY <2>2, <2>4, SMT
  <2> QED BY <2>5, <2>6
<1>7. DepOK(x, c)
  BY <1>1, <1>2, <1>6 DEF DepOK
<1> QED BY <1>3, <1>5, <1>7

(* The deployment of the config in hand is made from the target.           *)
LEMMA DeploymentProper ==
    ASSUME VersionsOnly, Proper(obj.status.target), ~obj.spec.skip, ctx.secret \in Secrets
    PROVE  LET new == Deployment(obj, ctx.secret)
           IN  /\ IsDep(new) /\ new.annotation = obj.status.target
               /\ \A d : IsDep(d) =>
                     /\ d.annotation = new.annotation =>
                           d.exists /\ Template(d) = Template(new)
                     /\ d.exists /\ Template(d) = Template(new) =>
                           d.annotation = new.annotation
<1> DEFINE new == Deployment(obj, ctx.secret)
           t == obj.status.target
<1>1. /\ new.exists /\ new.annotation = t /\ new.conf = t.conf /\ new.state = t.state
      /\ new.secret = ctx.secret /\ ~new.ready
  BY DEF Deployment
<1>2. ctx.secret = t.uri /\ t # NoHash
  BY RankTyped DEF VersionsOnly, Proper
<1> HIDE DEF new
<1>3. IsDep(new)
  BY <1>1, <1>2 DEF IsDep
<1>4. ASSUME NEW d, IsDep(d), d.annotation = new.annotation
      PROVE  d.exists /\ Template(d) = Template(new)
  <2>1. d.exists /\ d.conf = t.conf /\ d.state = t.state /\ d.secret = t.uri
    BY <1>1, <1>2, <1>4, DepProper, SMT
  <2> QED BY <1>1, <1>2, <2>1 DEF Template
<1>5. ASSUME NEW d, IsDep(d), d.exists, Template(d) = Template(new)
      PROVE  d.annotation = new.annotation
  <2>0. NoDep.exists = FALSE
    BY DEF NoDep
  <2>1. d # NoDep
    BY <1>5, <2>0
  <2>2. Proper(d.annotation) /\ d.state = d.annotation.state
    BY <1>5, <2>1 DEF IsDep
  <2>3. d.state = t.state
    BY <1>1, <1>5 DEF Template
  <2>4. d.annotation.version.name = t.version.name
    BY <2>2, <2>3, StateName
  <2> QED BY <1>1, <2>2, <2>4, SameRelease
<1> QED BY <1>1, <1>3, <1>4, <1>5 DEF new

(* The deployment moves along an update, or not at all.                    *)
DeploysUpdate ==
    dep' = dep \/ (IsDep(dep') /\ (dep.annotation = NoHash \/ Edge(dep.annotation, dep'.annotation)))

(* applyDeployment applies the target in hand: the deployment that carries *)
(* it already, or the update of the one before.                            *)
LEMMA ApplyRollout ==
    ASSUME VersionsOnly, TypeInv, RolloutInv, applyDeployment
    PROVE  RolloutInv' /\ Walks /\ DeploysUpdate
<1> DEFINE k == Core(obj.status)
           t == obj.status.target
           new == Deployment(obj, ctx.secret)
           next == IF obj.status.error = "apply" THEN "clear" ELSE "requeue"
<1>1. pc = "apply" /\ UNCHANGED Watches
  BY DEF applyDeployment, Watches, seen
<1>2. At(World, Copies, "apply", k, ctx) /\ k.target = t
  BY <1>1, CoreFields DEF RolloutInv, WorkAt
<1>3. /\ Proper(t) /\ ctx.secret \in Secrets /\ Done(World, t) /\ k.current = k.target
  BY <1>2 DEF At, Deploys
<1>4. Tracks(World, k) /\ ~obj.spec.skip
  BY <1>1, <1>3, HandTracks
<1>5. /\ IsDep(new) /\ new.annotation = t
      /\ \A d : IsDep(d) =>
            /\ d.annotation = new.annotation => d.exists /\ Template(d) = Template(new)
            /\ d.exists /\ Template(d) = Template(new) => d.annotation = new.annotation
  BY <1>3, <1>4, DeploymentProper
<1>6. /\ JobsOK(World, ctx) /\ DepOK(World, ctx) /\ CopiesOK(World, Copies) /\ k \in Copies
      /\ World.dep = dep
  BY <1>1, InHand, WorldFields DEF RolloutInv
<1>7. \/ Matches(ctx.dep, new) /\ Continue("rollout") /\ NoCall
      \/ /\ dep' = IF dep.exists /\ Template(dep) = Template(new)
                   THEN [dep EXCEPT !.annotation = new.annotation]
                   ELSE new
         /\ Continue(next)
         /\ UNCHANGED <<cluster, secret, jobs, cacheFresh>>
      \/ Continue("report") /\ UNCHANGED <<api, cacheFresh>>
  BY DEF applyDeployment
<1>8. At(World, Copies, "report", k, ctx) /\ (next \in Ends \/ At(World, Copies, next, k, ctx))
  <2>1. next = "clear" \/ next \in Ends
    BY DEF Ends
  <2> HIDE DEF next, k
  <2> QED BY <1>2, <2>1 DEF At, Running, Deploys
<1> HIDE DEF k, new, next
<1>9. CASE Matches(ctx.dep, new) /\ Continue("rollout") /\ NoCall
  <2>1. ctx.dep.annotation = t
    BY <1>5, <1>9 DEF Matches
  <2>2. At(World, Copies, "rollout", k, ctx)
    BY <1>2, <2>1 DEF At, Running, Deploys
  <2>3. dep' = dep
    BY <1>9 DEF NoCall, api
  <2>4. RolloutInv' /\ Walks
    BY <1>1, <1>9, <2>2, NoCallRollout DEF k
  <2> QED BY <2>3, <2>4 DEF DeploysUpdate
<1>10. CASE Continue("report") /\ UNCHANGED <<api, cacheFresh>>
  <2>1. UNCHANGED <<cluster, secret, jobs, dep, cacheFresh>>
    BY <1>10 DEF api
  <2>2. RolloutInv'
    BY <1>1, <1>8, <1>10, <2>1, StayRollout DEF k
  <2> QED BY <2>1, <2>2, NearSymmetric DEF Walks, DeploysUpdate
<1>11. CASE /\ dep' = dep
            /\ Continue(next)
            /\ UNCHANGED <<cluster, secret, jobs, cacheFresh>>
  <2>1. RolloutInv'
    BY <1>1, <1>8, <1>11, StayRollout DEF k
  <2> QED BY <1>11, <2>1, NearSymmetric DEF Walks, DeploysUpdate
<1>12. CASE /\ dep' = new /\ dep.annotation # t
            /\ Continue(next)
            /\ UNCHANGED <<cluster, secret, jobs, cacheFresh>>
  <2>1. /\ World'.seenDep = World.seenDep /\ World'.jobs = World.jobs
        /\ World'.seenJobs = World.seenJobs /\ World'.dep = new
    BY <1>1, <1>12 DEF World, Watches
  <2>2. /\ CopiesOK(World', Copies) /\ DepOK(World', ctx)
        /\ dep.annotation = NoHash \/ Edge(dep.annotation, new.annotation)
    BY <1>2, <1>3, <1>4, <1>5, <1>6, <1>12, <2>1, DeployTold
  <2>3. /\ UNCHANGED <<cluster, cache, cacheFresh, secret, seenSecret>>
        /\ Goto(next, obj, objFresh, ctx)
        /\ ctx.secret \in Secrets \cup {""}
    BY <1>1, <1>3, <1>12 DEF Watches, Continue
  <2>4. /\ InputsInv' /\ FreshInv' /\ Copies' \subseteq Copies
        /\ \/ pc' = "idle" /\ ctx' = NoCtx
           \/ pc' = next /\ ctx' = ctx /\ obj' = obj
    BY <1>1, <2>3, GotoCopies
  <2>5. JobsOK(World', ctx)
    BY <1>6, <2>1 DEF JobsOK
  <2>6. JobsOK(World, ctx)' /\ DepOK(World, ctx)'
    BY <2>2, <2>4, <2>5, NoCtxOK
  <2>7. CopiesOK(World, Copies)'
    BY <2>2, <2>4 DEF CopiesOK
  <2>8. WorkAt'
    <3> SUFFICES ASSUME pc' # "idle"
                 PROVE  At(World', Copies', pc', Core(obj.status)', ctx')
      BY DEF WorkAt
    <3>1. pc' = "clear" /\ ctx' = ctx /\ Core(obj.status)' = k
      <4>1. next = "clear" \/ next = "requeue"
        BY DEF next
      <4>2. next # "requeue"
        BY <2>3 DEF Goto
      <4> QED BY <2>4, <4>1, <4>2 DEF k
    <3>2. Done(World', t)
      BY <1>3, <2>1, SMT DEF Done
    <3> QED BY <1>2, <1>3, <3>1, <3>2 DEF At, Running, Deploys
  <2>9. RolloutInv'
    BY <2>4, <2>6, <2>7, <2>8 DEF RolloutInv
  <2> QED BY <1>5, <1>12, <2>2, <2>9, NearSymmetric DEF Walks, DeploysUpdate
<1>13. \/ dep' = dep
       \/ dep' = new /\ dep.annotation # t
       \/ UNCHANGED <<api, cacheFresh>>
       \/ NoCall
  <2>1. IsDep(dep) /\ dep \in DepType
    BY <1>6 DEF DepOK, TypeInv, TypeOK, ApiOK
  <2>2. dep.exists /\ Template(dep) = Template(new) <=> dep.annotation = t
    BY <1>5, <2>1
  <2>3. dep.annotation = t => [dep EXCEPT !.annotation = new.annotation] = dep
    BY <1>5, <2>1 DEF DepType
  <2> QED BY <1>7, <2>2, <2>3
<1> QED BY <1>7, <1>9, <1>10, <1>11, <1>12, <1>13 DEF NoCall, api

----------------------------------------------------------------------------
(* The environment *)

(* What happens outside the operator, while the reconcile stays where it   *)
(* is.                                                                     *)
LEMMA OutsideRollout ==
    ASSUME VersionsOnly, RolloutInv, InputsInv', FreshInv', Copies' \subseteq Copies,
           Moves(World, World', Copies), JobsOK(World', ctx), DepOK(World', ctx),
           UNCHANGED <<pc, obj, ctx>>, cluster'.status = cluster.status
    PROVE  RolloutInv' /\ Walks
<1>1. JobsOK(World, ctx)' /\ DepOK(World, ctx)'
  BY Zenon
<1>2. pc' # "idle" => At(World, Copies, pc', Core(obj.status)', ctx')
  BY DEF RolloutInv, WorkAt
<1>3. RolloutInv'
  BY <1>1, <1>2, StepRollout
<1> QED BY <1>3, NearSymmetric DEF Walks

(* A job that completes or fails, or a failed one that is deleted.         *)
LEMMA JobsMove ==
    ASSUME NEW w, NEW x, NEW c, NEW ks, JobsOK(w, c), DepOK(w, c),
           x.dep = w.dep, x.seenDep = w.seenDep, x.seenJobs = w.seenJobs,
           \A j \in w.jobs : j.phase = "complete" => j \in x.jobs,
           \A j \in x.jobs : \E i \in w.jobs : i.hash = j.hash,
           OneEach(x.jobs)
    PROVE  Moves(w, x, ks) /\ JobsOK(x, c) /\ DepOK(x, c)
<1>1. ASSUME NEW h, Done(w, h) PROVE Done(x, h)
  BY <1>1 DEF Done, Ran
<1>2. Moves(w, x, ks)
  BY <1>1 DEF Moves
<1>3. JobsOK(x, c) /\ DepOK(x, c)
  BY <1>1 DEF JobsOK, DepOK
<1> QED BY <1>2, <1>3

(* A deployment that makes progress or loses a pod.                        *)
LEMMA DepMoves ==
    ASSUME NEW w, NEW x, NEW c, NEW ks, JobsOK(w, c), DepOK(w, c),
           x.seenDep = w.seenDep, x.jobs = w.jobs, x.seenJobs = w.seenJobs,
           x.dep.annotation = w.dep.annotation, w.dep.rolled => x.dep.rolled, IsDep(x.dep)
    PROVE  Moves(w, x, ks) /\ JobsOK(x, c) /\ DepOK(x, c)
<1>1. \A h : Done(x, h) <=> Done(w, h)
  BY DEF Done
<1>2. Moves(w, x, ks)
  BY <1>1 DEF Moves
<1>3. Older(x.seenDep, x.dep)
  BY DEF DepOK, Older
<1>4. JobsOK(x, c) /\ DepOK(x, c)
  BY <1>1, <1>3 DEF JobsOK, DepOK
<1> QED BY <1>2, <1>4

(* The deployment gets ready or not, and keeps what it was made from.      *)
LEMMA DepProgress ==
    ASSUME TypeInv, RolloutInv, RolloutCompletes \/ PodCrashes
    PROVE  /\ dep'.annotation = dep.annotation /\ (dep.rolled => dep'.rolled) /\ IsDep(dep')
           /\ dep'.state = dep.state
<1>1. /\ dep.exists /\ dep'.exists
      /\ dep'.annotation = dep.annotation /\ dep'.conf = dep.conf /\ dep'.state = dep.state
      /\ dep'.secret = dep.secret
      /\ dep.rolled => dep'.rolled
      /\ dep'.ready => dep'.rolled
  BY DEF RolloutCompletes, PodCrashes, TypeInv, TypeOK, ApiOK, DepType
<1>2. IsDep(dep) /\ NoDep.exists = FALSE
  BY WorldFields DEF RolloutInv, DepOK, NoDep
<1>3. IsDep(dep')
  BY <1>1, <1>2 DEF IsDep
<1> QED BY <1>1, <1>3

(* Watch deliveries.                                                       *)
LEMMA DeliverRollout ==
    ASSUME VersionsOnly, TypeInv, RolloutInv, Deliver
    PROVE  RolloutInv' /\ Walks
<1>1. /\ UNCHANGED <<pc, obj, objFresh, ctx>> /\ cluster' = cluster /\ secret' = secret
      /\ dep' = dep /\ jobs' = jobs
      /\ cache' = cache \/ cache' = cluster
      /\ seenSecret' = seenSecret \/ seenSecret' = secret \/ seenSecret' = ""
      /\ seenDep' = seenDep \/ seenDep' = dep
      /\ seenJobs' = seenJobs \/ seenJobs' = jobs
      /\ \/ cache' = cache /\ cacheFresh' = cacheFresh
         \/ ~cacheFresh /\ cache' = cluster /\ cacheFresh' = TRUE
  <2>1. CASE DeliverCluster
    BY <2>1 DEF DeliverCluster, api, seen
  <2>2. CASE syncExternalResource
    BY <2>2 DEF syncExternalResource, api, Watched
  <2>3. CASE DeliverJobs \/ DeliverPods \/ DeliverDeployment
    BY <2>3 DEF DeliverJobs, DeliverPods, DeliverDeployment, api, work
  <2> QED BY <2>1, <2>2, <2>3 DEF Deliver
<1>2. InputsInv'
  BY <1>1 DEF RolloutInv, InputsInv
<1>3. FreshInv'
  <2>1. CASE cache' = cache /\ cacheFresh' = cacheFresh
    BY <1>1, <2>1 DEF RolloutInv, FreshInv
  <2>2. CASE ~cacheFresh /\ cache' = cluster /\ cacheFresh' = TRUE
    BY <1>1, <2>2 DEF RolloutInv, FreshInv
  <2> QED BY <1>1, <2>1, <2>2
<1>4. Copies' \subseteq Copies
  BY <1>1 DEF Copies
<1>5. /\ World'.dep = World.dep /\ World'.jobs = World.jobs
      /\ World'.seenDep = World.seenDep \/ World'.seenDep = World.dep
      /\ World'.seenJobs = World.seenJobs \/ World'.seenJobs = World.jobs
  BY <1>1 DEF World
<1>6. JobsOK(World, ctx) /\ DepOK(World, ctx) /\ CopiesOK(World, Copies)
  BY DEF RolloutInv
<1>7. Moves(World, World', Copies) /\ DepOK(World', ctx)
  BY <1>5, <1>6, DeliveryMoves
<1>8. JobsOK(World', ctx)
  BY <1>5, <1>6 DEF JobsOK
<1> QED BY <1>1, <1>2, <1>3, <1>4, <1>7, <1>8, OutsideRollout

(* A restarted operator lists everything.                                  *)
LEMMA RestartRollout ==
    ASSUME VersionsOnly, TypeInv, RolloutInv, Restart
    PROVE  RolloutInv' /\ Walks
<1>1. /\ pc' = "idle" /\ ctx' = NoCtx /\ objFresh' = FALSE
      /\ cluster' = cluster /\ cache' = cluster /\ secret' = secret
      /\ seenSecret' = secret \/ seenSecret' = ""
      /\ World'.dep = World.dep /\ World'.jobs = World.jobs
      /\ World'.seenDep = World.dep /\ World'.seenJobs = World.jobs
  BY DEF Restart, Continue, Goto, Watched, api, World
<1>2. InputsInv'
  <2>1. NoCtx.secret = ""
    BY DEF NoCtx
  <2> QED BY <1>1, <2>1 DEF RolloutInv, InputsInv
<1>3. FreshInv'
  BY <1>1 DEF FreshInv
<1>4. Copies' \subseteq Copies
  BY <1>1 DEF Copies
<1>5. JobsOK(World, ctx) /\ DepOK(World, ctx) /\ CopiesOK(World, Copies)
  BY DEF RolloutInv
<1>6. Moves(World, World', Copies) /\ DepOK(World', ctx)
  BY <1>1, <1>5, DeliveryMoves
<1>7. JobsOK(World', ctx)
  BY <1>1, <1>5 DEF JobsOK
<1>8. JobsOK(World, ctx)' /\ DepOK(World, ctx)'
  BY <1>1, <1>6, <1>7, NoCtxOK
<1>9. RolloutInv'
  BY <1>1, <1>2, <1>3, <1>4, <1>6, <1>8, StepRollout
<1> QED BY <1>1, <1>9, NearSymmetric DEF Walks

(* The users' edits.                                                       *)
LEMMA EditRollout ==
    ASSUME VersionsOnly, TypeInv, RolloutInv, EditSpec \/ EditPauseLabel \/ EditSecret
    PROVE  RolloutInv' /\ Walks
<1>1. /\ UNCHANGED <<cache, seenSecret, pc, obj, ctx>> /\ World' = World
      /\ secret' \in Secrets \cup {""}
  <2>1. UNCHANGED <<cache, seenSecret, pc, obj, ctx, seenDep, seenJobs>>
    BY DEF EditSpec, EditPauseLabel, EditSecret, Edit
  <2>2. dep' = dep /\ jobs' = jobs /\ secret' \in Secrets \cup {""}
    BY DEF EditSpec, EditPauseLabel, EditSecret, RolloutInv, InputsInv
  <2> QED BY <2>1, <2>2 DEF World
<1>2. /\ cluster'.spec \in Wanted /\ cluster'.status = cluster.status
  BY SpecWanted DEF EditSpec, EditPauseLabel, EditSecret, RolloutInv, InputsInv,
         TypeInv, TypeOK, ApiOK, ClusterType
<1>3. \/ cacheFresh' = FALSE /\ objFresh' = FALSE
      \/ cacheFresh' = cacheFresh /\ objFresh' = objFresh
  BY DEF EditSpec, EditPauseLabel, EditSecret
<1>4. InputsInv'
  BY <1>1, <1>2 DEF RolloutInv, InputsInv
<1>5. FreshInv'
  <2>1. CASE cacheFresh' = FALSE /\ objFresh' = FALSE
    BY <2>1 DEF FreshInv
  <2>2. CASE cacheFresh' = cacheFresh /\ objFresh' = objFresh
    BY <1>1, <1>2, <2>2 DEF RolloutInv, FreshInv
  <2> QED BY <1>3, <2>1, <2>2
<1>6. Copies' \subseteq Copies
  BY <1>1, <1>2 DEF Copies
<1>7. JobsOK(World', ctx) /\ DepOK(World', ctx) /\ Moves(World, World', Copies)
  BY <1>1, NothingMoves DEF RolloutInv
<1> QED BY <1>1, <1>2, <1>4, <1>5, <1>6, <1>7, OutsideRollout

(* Jobs that end, or that the user deletes.                                *)
LEMMA JobsRollout ==
    ASSUME VersionsOnly, TypeInv, RolloutInv,
           DeleteFailedJob \/ MigrationCompletes \/ MigrationFails
    PROVE  RolloutInv' /\ Walks
<1>1. UNCHANGED <<cluster, cache, cacheFresh, secret, seenSecret, seenJobs, seenDep, dep,
                  pc, obj, objFresh, ctx>>
  BY DEF DeleteFailedJob, MigrationCompletes, MigrationFails, Edit, seen, work
<1>2. /\ World'.dep = World.dep /\ World'.seenDep = World.seenDep
      /\ World'.seenJobs = World.seenJobs /\ World.jobs = jobs /\ World'.jobs = jobs'
  BY <1>1 DEF World
<1>3. JobsOK(World, ctx) /\ DepOK(World, ctx) /\ OneEach(jobs)
  BY <1>2 DEF RolloutInv, JobsOK
<1>4. \E j \in jobs :
         /\ j.phase # "complete"
         /\ \/ jobs' = jobs \ {j}
            \/ \E k : k.hash = j.hash /\ jobs' = (jobs \ {j}) \cup {k}
  <2>1. CASE DeleteFailedJob
    BY <2>1 DEF DeleteFailedJob
  <2>2. CASE MigrationCompletes \/ MigrationFails
    <3>1. PICK j \in jobs, phase \in {"complete", "failed"} :
             /\ j.phase = "running"
             /\ jobs' = (jobs \ {j}) \cup {[j EXCEPT !.phase = phase]}
      BY <2>2 DEF MigrationCompletes, MigrationFails
    <3>2. [j EXCEPT !.phase = phase].hash = j.hash
      BY DEF TypeInv, TypeOK, ApiOK, JobType
    <3> QED BY <3>1, <3>2
  <2> QED BY <2>1, <2>2
<1>5. PICK j \in jobs :
         /\ j.phase # "complete"
         /\ \/ jobs' = jobs \ {j}
            \/ \E k : k.hash = j.hash /\ jobs' = (jobs \ {j}) \cup {k}
  BY <1>4
<1>6. /\ \A i \in jobs : i.phase = "complete" => i \in jobs'
      /\ \A i \in jobs' : \E k \in jobs : k.hash = i.hash
      /\ OneEach(jobs')
  <2>1. CASE jobs' = jobs \ {j}
    BY <1>3, <1>5, <2>1 DEF OneEach
  <2>2. ASSUME NEW k, k.hash = j.hash, jobs' = (jobs \ {j}) \cup {k}
        PROVE  /\ \A i \in jobs : i.phase = "complete" => i \in jobs'
               /\ \A i \in jobs' : \E m \in jobs : m.hash = i.hash
               /\ OneEach(jobs')
    BY <1>3, <1>5, <2>2 DEF OneEach
  <2> QED BY <1>5, <2>1, <2>2
<1>7. Moves(World, World', Copies) /\ JobsOK(World', ctx) /\ DepOK(World', ctx)
  BY <1>2, <1>3, <1>6, JobsMove
<1>8. InputsInv' /\ FreshInv' /\ Copies' \subseteq Copies
  BY <1>1 DEF RolloutInv, InputsInv, FreshInv, Copies
<1> QED BY <1>1, <1>7, <1>8, OutsideRollout

(* The deployment makes progress or loses a pod; a pod of a job goes.      *)
LEMMA RuntimeRollout ==
    ASSUME VersionsOnly, TypeInv, RolloutInv, RolloutCompletes \/ PodCrashes \/ PodCollected
    PROVE  RolloutInv' /\ Walks
<1>1. UNCHANGED <<cluster, cache, cacheFresh, secret, seenSecret, seenJobs, seenDep, jobs,
                  pc, obj, objFresh, ctx>>
  BY DEF RolloutCompletes, PodCrashes, PodCollected, seen, work
<1>2. /\ World'.seenDep = World.seenDep /\ World'.jobs = World.jobs
      /\ World'.seenJobs = World.seenJobs /\ World.dep = dep /\ World'.dep = dep'
  BY <1>1 DEF World
<1>3. JobsOK(World, ctx) /\ DepOK(World, ctx)
  BY DEF RolloutInv
<1>4. dep'.annotation = dep.annotation /\ (dep.rolled => dep'.rolled) /\ IsDep(dep')
  <2>1. CASE RolloutCompletes \/ PodCrashes
    BY <2>1, DepProgress
  <2>2. CASE PodCollected
    BY <1>2, <1>3, <2>2 DEF PodCollected, DepOK
  <2> QED BY <2>1, <2>2
<1>5. Moves(World, World', Copies) /\ JobsOK(World', ctx) /\ DepOK(World', ctx)
  BY <1>2, <1>3, <1>4, DepMoves
<1>6. InputsInv' /\ FreshInv' /\ Copies' \subseteq Copies
  BY <1>1 DEF RolloutInv, InputsInv, FreshInv, Copies
<1> QED BY <1>1, <1>5, <1>6, OutsideRollout

----------------------------------------------------------------------------
(* The theorems *)

(* At first there is no target, no deployment and no job.                  *)
LEMMA InitRollout == ASSUME VersionsOnly PROVE Init => RolloutInv
<1> SUFFICES ASSUME Init PROVE RolloutInv
  OBVIOUS
<1>1. cluster.spec \in Wanted /\ cluster.status = NoStatus
  <2>1. PICK spec \in Specs :
           cluster = [gen |-> 1, spec |-> spec, paused |-> FALSE, status |-> NoStatus]
    BY DEF Init
  <2> QED BY <2>1, SpecWanted
<1>2. /\ cache = cluster /\ pc = "idle" /\ objFresh = FALSE /\ ctx = NoCtx
      /\ seenSecret = "" /\ secret \in Secrets \cup {""}
      /\ World.dep = NoDep /\ World.seenDep = NoDep /\ World.jobs = {} /\ World.seenJobs = {}
  BY WorldFields DEF Init
<1>3. /\ NoStatus.target = NoHash /\ NoStatus.current = NoHash /\ NoStatus.version = NoVersion
      /\ ~RolloutInProgress(NoStatus)
      /\ NoCtx.secret = "" /\ NoCtx.jobs = {} /\ NoCtx.dep = NoDep
      /\ NoDep.annotation = NoHash
  BY DEF NoStatus, NoCtx, NoDep, RolloutInProgress
<1>4. InputsInv /\ FreshInv /\ WorkAt
  BY <1>1, <1>2, <1>3 DEF InputsInv, FreshInv, WorkAt
<1>5. OneEach({}) /\ IsDep(NoDep) /\ Older(NoDep, NoDep)
  BY <1>3 DEF OneEach, IsDep, Older
<1>6. JobsOK(World, ctx) /\ DepOK(World, ctx)
  BY <1>2, <1>3, <1>5 DEF JobsOK, DepOK
<1>7. Blank(World, Core(NoStatus))
  BY <1>2, <1>3, CoreFields DEF Blank
<1>8. CopiesOK(World, Copies)
  <2>1. Copies \subseteq {Core(NoStatus)}
    BY <1>1, <1>2 DEF Copies
  <2> QED BY <1>7, <2>1, NearSymmetric DEF CopiesOK, Told
<1> QED BY <1>4, <1>6, <1>8 DEF RolloutInv

(* Every step keeps the invariant and moves the status by at most a step.  *)
LEMMA NextRollout ==
    ASSUME VersionsOnly, TypeInv, RolloutInv, [Next]_vars
    PROVE  RolloutInv' /\ Walks
<1>1. CASE Reconcile
  BY <1>1, StartRollout, PauseRollout, SpecRollout, AdopterRollout, MissingRollout,
     CollectRollout, ChangedRollout, ConfigRollout, CheckRollout, RunRollout, ApplyJobRollout, ExtrasRollout,
     WaitRollout, ConditionsRollout, LabelRollout, EnsureRollout, ApplyRollout,
     ProgressRollout, CleanupRollout, PodsRollout
  DEF Reconcile
<1>2. CASE Environment
  BY <1>2, DeliverRollout, RestartRollout, EditRollout, JobsRollout, RuntimeRollout
  DEF Environment
<1>3. CASE UNCHANGED vars
  <2>1. UNCHANGED <<cluster, cache, cacheFresh, secret, seenSecret, pc, obj, objFresh, ctx>>
        /\ World' = World
    BY <1>3 DEF vars, api, seen, work, World
  <2>2. InputsInv' /\ FreshInv' /\ Copies' \subseteq Copies
    BY <2>1 DEF RolloutInv, InputsInv, FreshInv, Copies
  <2>3. Moves(World, World', Copies) /\ JobsOK(World', ctx) /\ DepOK(World', ctx)
    BY <2>1, NothingMoves DEF RolloutInv
  <2> QED BY <2>1, <2>2, <2>3, OutsideRollout
<1> QED BY <1>1, <1>2, <1>3 DEF Next

(* So the invariant always holds.                                          *)
LEMMA RolloutInvariant == ASSUME VersionsOnly PROVE Spec => [](TypeInv /\ RolloutInv)
<1>1. TypeInv /\ RolloutInv /\ [Next]_vars => RolloutInv'
  BY VersionsOnly, NextRollout
<1> QED BY <1>1, VersionsOnly, InitRollout, TypeInvariant, PTL DEF Spec

(* A status without conditions is quiet, and what it tells is true: so the *)
(* deployment carries the target and has rolled out.                       *)
THEOREM ControllerQuietMeansDeployed ==
    ASSUME VersionsOnly
    PROVE  Spec => []QuietMeansDeployed
<1>1. ASSUME RolloutInv PROVE QuietMeansDeployed
  <2> DEFINE s == cluster.status
             k == Core(s)
  <2> SUFFICES ASSUME NoConditions(s), s.current = s.target, s.target # NoHash
               PROVE  dep.rolled /\ dep.annotation = s.target
    BY DEF QuietMeansDeployed
  <2>1. s.migrating = "no" /\ s.rolling = FALSE
    BY DEF NoConditions, NoStatus
  <2>2. Quiet(k) /\ k.target = s.target
    BY <2>1, CoreFields DEF RolloutInProgress
  <2>3. Told(World, k)
    BY <1>1 DEF RolloutInv, CopiesOK, Copies
  <2> HIDE DEF k
  <2>4. Settled(World, k)
    BY <2>2, <2>3 DEF Told, Blank, Tracks
  <2> QED BY <2>2, <2>4, WorldFields DEF Settled
<1> QED BY <1>1, VersionsOnly, RolloutInvariant, PTL

(* A call that patches the status, or fails, touches nothing else.         *)
LEMMA PatchKeeps ==
    ASSUME NEW status, NEW generation, NEW versioned, NEW next,
           PatchStatus(status, generation, versioned, next)
    PROVE  UNCHANGED <<jobs, dep>>
BY DEF PatchStatus, CallFails, api

(* Nor does a rejection.                                                   *)
LEMMA RejectKeeps ==
    ASSUME NEW failed, Reject(failed)
    PROVE  UNCHANGED <<jobs, dep>>
BY PatchKeeps DEF Reject, NoCall, api

(* The handlers that do no more than that.                                 *)
LEMMA HandlersKeep ==
    ASSUME Reconcile, ~applyJob, ~deleteExtraJobs, ~cleanupJob, ~applyDeployment
    PROVE  UNCHANGED <<jobs, dep>>
<1>1. CASE \/ syncOwnedResource \/ collectSecrets \/ checkMigrations \/ waitForMigrations
           \/ Patch \/ cleanupPods
  BY <1>1
  DEF syncOwnedResource, collectSecrets, checkMigrations, waitForMigrations, Patch,
      cleanupPods, NoCall, CallFails, api
<1>2. CASE pauseCluster \/ validateSpec \/ checkConfigChanged \/ runMigration
  BY <1>2, PatchKeeps, RejectKeeps
  DEF pauseCluster, validateSpec, checkConfigChanged, runMigration, NoCall, api
<1>3. CASE secretAdopter \/ reportMissingSecret
  BY <1>3, PatchKeeps DEF secretAdopter, reportMissingSecret, NoCall, CallFails, api
<1>4. CASE validateConfig
  <2> DEFINE t == TargetOf(obj)
             errs == ConfigErrors(obj, ctx.secret, t)
             computed == [obj.status EXCEPT !.observed = obj.gen,
                                            !.target = MigrationConfig(obj, ctx.secret, t),
                                            !.version = t.target,
                                            !.validating = FALSE, !.failed = NoFailure]
  <2>1. \/ Reject(InvalidConfig(ctx.secret, errs))
        \/ NoCall
        \/ PatchStatus(computed, obj.gen, TRUE, "migrations")
    BY <1>4 DEF validateConfig
  <2> HIDE DEF errs, computed
  <2> QED BY <2>1, PatchKeeps, RejectKeeps DEF NoCall, api
<1>5. CASE selfPauseCluster \/ ensureDeployment \/ reportApplyFailed \/ clearApplyFailed
  BY <1>5, PatchKeeps
  DEF selfPauseCluster, ensureDeployment, reportApplyFailed, clearApplyFailed, NoCall, api
<1>6. CASE waitForRollout
  BY <1>6, PatchKeeps DEF waitForRollout, NoCall, api
<1> QED BY <1>1, <1>2, <1>3, <1>4, <1>5, <1>6 DEF Reconcile

(* The steps that change the deployment, and those that add jobs.          *)
LEMMA StepKeeps ==
    ASSUME TypeInv, [Next]_vars
    PROVE  /\ \/ dep' = dep
              \/ /\ cluster' = cluster
                 /\ applyDeployment \/ RolloutCompletes \/ PodCrashes
           /\ applyJob \/ \A j \in jobs' : \E k \in jobs : k.hash = j.hash
<1>1. CASE UNCHANGED vars
  BY <1>1 DEF vars, api
<1>2. CASE applyJob
  BY <1>2 DEF applyJob, CallFails, api
<1>3. CASE deleteExtraJobs
  BY <1>3 DEF deleteExtraJobs, NoCall, CallFails, api
<1>4. CASE cleanupJob
  BY <1>4 DEF cleanupJob, NoCall, CallFails, api
<1>5. CASE applyDeployment
  BY <1>5 DEF applyDeployment, NoCall, api
<1>6. CASE Reconcile /\ ~applyJob /\ ~deleteExtraJobs /\ ~cleanupJob /\ ~applyDeployment
  BY <1>6, HandlersKeep
<1>7. CASE Deliver \/ Restart \/ EditSpec \/ EditPauseLabel \/ EditSecret \/ PodCollected
  BY <1>7
  DEF Deliver, DeliverCluster, syncExternalResource, DeliverJobs, DeliverPods,
      DeliverDeployment, Restart, EditSpec, EditPauseLabel, EditSecret, PodCollected, api
<1>8. CASE DeleteFailedJob
  BY <1>8 DEF DeleteFailedJob
<1>9. CASE MigrationCompletes \/ MigrationFails
  <2>1. PICK j \in jobs, phase \in {"complete", "failed"} :
           dep' = dep /\ jobs' = (jobs \ {j}) \cup {[j EXCEPT !.phase = phase]}
    BY <1>9 DEF MigrationCompletes, MigrationFails
  <2>2. [j EXCEPT !.phase = phase].hash = j.hash
    BY DEF TypeInv, TypeOK, ApiOK, JobType
  <2> QED BY <2>1, <2>2
<1>10. CASE RolloutCompletes \/ PodCrashes
  BY <1>10 DEF RolloutCompletes, PodCrashes
<1> QED BY <1>1, <1>2, <1>3, <1>4, <1>5, <1>6, <1>7, <1>8, <1>9, <1>10 DEF Next, Environment

(* A job is created for the target in hand when neither the deployment nor *)
(* the jobs, as the caches show them, are of that hash.  The deployment    *)
(* does not carry it then.                                                 *)
THEOREM ControllerNoMigrationRerun ==
    ASSUME VersionsOnly
    PROVE  Spec => NoMigrationRerun
<1>1. ASSUME TypeInv, RolloutInv, [Next]_vars,
             NEW j \in jobs', \A k \in jobs : k.hash # j.hash
      PROVE  dep.annotation # j.hash
  <2>1. applyJob
    BY <1>1, StepKeeps
  <2>2. pc = "job" /\ j.hash = obj.status.target
    BY <1>1, <2>1, SMT DEF applyJob, MigrationJob, CallFails, api
  <2>3. At(World, Copies, "job", Core(obj.status), ctx)
    BY <1>1, <2>2 DEF RolloutInv, WorkAt
  <2>4. World.dep.annotation # Core(obj.status).target
    BY <2>3 DEF At, Running
  <2> QED BY <2>2, <2>4, CoreFields, WorldFields
<1>2. TypeInv /\ RolloutInv /\ [Next]_vars =>
          [\A j \in jobs' : (\A k \in jobs : k.hash # j.hash) => dep.annotation # j.hash]_vars
  BY <1>1
<1> QED BY <1>2, VersionsOnly, RolloutInvariant, PTL DEF Spec, NoMigrationRerun

(* The name of the release that a deployment runs is that of the hash it   *)
(* carries.                                                                *)
LEMMA DepName ==
    ASSUME VersionsOnly, NEW d, IsDep(d), d.state.id # ""
    PROVE  /\ d.annotation # NoHash /\ Proper(d.annotation)
           /\ d.state.id = d.annotation.version.name
<1>1. NoDep.state.id = ""
  BY DEF NoDep, NoState
<1>2. d # NoDep
  BY <1>1
<1>3. Proper(d.annotation) /\ d.state = d.annotation.state
  BY <1>2 DEF IsDep
<1> QED BY <1>3, StateName, RankTyped

(* An edge of the channel is an edge of the graph.                         *)
LEMMA EdgeInGraph ==
    ASSUME VersionsOnly, NEW g, NEW h, Proper(h), Edge(g, h)
    PROVE  \E i \in DOMAIN Graph : h.version.name \in Elems(OutEdges(Graph[i], g.version.name))
<1>1. \E i \in DOMAIN Graph : Src = Graph[i]
  BY SrcValid DEF Proper
<1> QED BY <1>1 DEF Edge

(* Only applyDeployment changes the release that is deployed, and its      *)
(* target is an update of that one.                                        *)
THEOREM ControllerStepwiseRollout ==
    ASSUME VersionsOnly
    PROVE  Spec => StepwiseRollout
<1>1. ASSUME TypeInv, RolloutInv, [Next]_vars,
             dep.state.id # "", dep'.state.id # "", dep'.state.id # dep.state.id
      PROVE  \E i \in DOMAIN Graph : dep'.state.id \in Elems(OutEdges(Graph[i], dep.state.id))
  <2>1. applyDeployment
    <3>1. RolloutCompletes \/ PodCrashes => dep'.state = dep.state
      BY <1>1, DepProgress
    <3> QED BY <1>1, <3>1, StepKeeps
  <2>2. DeploysUpdate
    BY <1>1, <2>1, ApplyRollout
  <2>3. IsDep(dep)
    BY <1>1, WorldFields DEF RolloutInv, DepOK
  <2>4. /\ dep.annotation # NoHash /\ Proper(dep.annotation)
        /\ dep.state.id = dep.annotation.version.name
    BY <1>1, <2>3, DepName
  <2>5. IsDep(dep') /\ Edge(dep.annotation, dep'.annotation)
    BY <1>1, <2>2, <2>4 DEF DeploysUpdate
  <2>6. Proper(dep'.annotation) /\ dep'.state.id = dep'.annotation.version.name
    BY <1>1, <2>5, DepName
  <2> QED BY <2>4, <2>5, <2>6, EdgeInGraph
<1>2. TypeInv /\ RolloutInv /\ [Next]_vars =>
          [dep.state.id # "" /\ dep'.state.id # "" /\ dep'.state.id # dep.state.id =>
             \E i \in DOMAIN Graph :
                 dep'.state.id \in Elems(OutEdges(Graph[i], dep.state.id))]_vars
  BY <1>1
<1> QED BY <1>2, VersionsOnly, RolloutInvariant, PTL DEF Spec, StepwiseRollout

(* In a graph without a way back an edge joins two named releases and is   *)
(* not taken the other way.                                                *)
LEMMA OneWay ==
    ASSUME NoWayBack, NEW i \in DOMAIN Graph, NEW from, NEW to \in Elems(OutEdges(Graph[i], from))
    PROVE  /\ from # "" /\ to # ""
           /\ \A j \in DOMAIN Graph : from \notin Elems(OutEdges(Graph[j], to))
<1>1. from \in DOMAIN Graph[i].edges /\ to \in Elems(Graph[i].edges[from])
  BY SMT DEF OutEdges, Elems
<1> QED BY <1>1 DEF NoWayBack

(* A copy k of the status and the one l that follows it, at most a step    *)
(* away.  If the release of l is an update of that of k, then k was quiet  *)
(* and its release has rolled out.                                         *)
LEMMA StepFrom ==
    ASSUME VersionsOnly, NoWayBack, NEW w, NEW c, DepOK(w, c), NEW k, NEW l, NEW x,
           Told(w, k), Told(x, l), Near(k, l), k = l \/ x.dep = w.dep,
           NEW i \in DOMAIN Graph,
           l.version.name \in Elems(OutEdges(Graph[i], k.version.name))
    PROVE  w.dep.rolled /\ w.dep.state.id = k.version.name
<1>1. /\ k.version.name # "" /\ l.version.name # ""
      /\ \A j \in DOMAIN Graph : k.version.name \notin Elems(OutEdges(Graph[j], l.version.name))
  BY OneWay
<1>2. NoVersion.name = ""
  BY DEF NoVersion
<1>3. Tracks(w, k) /\ Tracks(x, l)
  BY <1>1, <1>2 DEF Told, Blank
<1>4. /\ Proper(k.target) /\ Proper(l.target)
      /\ k.version = k.target.version /\ l.version = l.target.version
  BY <1>3 DEF Tracks
<1>5. k.target # l.target
  BY <1>1, <1>4
<1>6. ~(Quiet(l) /\ k.current = l.target)
  <2> SUFFICES ASSUME Quiet(l), k.current = l.target PROVE FALSE
    OBVIOUS
  <2>1. x.dep = w.dep /\ x.dep.annotation = l.target
    BY <1>3, <1>5 DEF Tracks, Settled
  <2>2. Edge(l.target, k.target)
    BY <1>3, <1>4, <1>5, <2>1, RankTyped DEF Tracks, DepFits
  <2> QED BY <1>1, <1>4, <2>2, EdgeInGraph
<1>7. Settled(w, k)
  BY <1>3, <1>5, <1>6 DEF Near, Tracks
<1>8. w.dep.state = k.target.state
  BY <1>4, <1>7, DepProper, RankTyped DEF Settled, DepOK
<1> QED BY <1>4, <1>7, <1>8, StateName DEF Settled

(* The status takes an update only from a release that has rolled out.     *)
THEOREM ControllerEveryStepDeployed ==
    ASSUME VersionsOnly, NoWayBack
    PROVE  Spec => EveryStepDeployed
<1>1. ASSUME TypeInv, RolloutInv, [Next]_vars, NEW i \in DOMAIN Graph,
             cluster'.status.version.name
                \in Elems(OutEdges(Graph[i], cluster.status.version.name))
      PROVE  dep.rolled /\ dep.state.id = cluster.status.version.name
  <2> DEFINE k == Core(cluster.status)
             l == Core(cluster.status)'
  <2>1. RolloutInv' /\ Near(k, l)
    BY <1>1, NextRollout DEF Walks
  <2>2. Told(World, k) /\ DepOK(World, ctx)
    BY <1>1 DEF RolloutInv, CopiesOK, Copies
  <2>3. Told(World', l)
    BY <2>1 DEF RolloutInv, CopiesOK, Copies
  <2>4. k = l \/ World'.dep = World.dep
    BY <1>1, StepKeeps DEF World
  <2>5. k.version = cluster.status.version /\ l.version = cluster'.status.version
    BY CoreFields
  <2> HIDE DEF k, l
  <2>6. World.dep.rolled /\ World.dep.state.id = k.version.name
    BY <1>1, <2>1, <2>2, <2>3, <2>4, <2>5, NoWayBack, StepFrom, SMT
  <2> QED BY <2>5, <2>6, WorldFields
<1>2. TypeInv /\ RolloutInv /\ [Next]_vars =>
          [\A i \in DOMAIN Graph :
             cluster'.status.version.name
                \in Elems(OutEdges(Graph[i], cluster.status.version.name))
                 => dep.rolled /\ dep.state.id = cluster.status.version.name]_vars
  BY <1>1
<1> QED BY <1>2, VersionsOnly, RolloutInvariant, PTL DEF Spec, EveryStepDeployed
=============================================================================
