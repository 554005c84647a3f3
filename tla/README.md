# A TLA+ model of the SpiceDB operator

The operator runs SpiceDB on Kubernetes. For each `SpiceDBCluster` object it
works out which release to run, migrates the datastore, and rolls a deployment.
This directory models that: which release comes next (`pkg/updates`), the
chain of handlers that gets there (`pkg/controller`) with the caches, users and
controllers it shares the cluster with, the process around it (configuration,
queue, workers), what clusters share (secrets, the cache of schemas), and the
tools that make and check the update graph.

## The system

| part | state | operations | module |
| --- | --- | --- | --- |
| update source (`updates/memory.go`) | ordered releases, edges | next, next without migrations, latest, subgraph, validation | `UpdateGraph` |
| update graph (`updates/file.go`) | channels | default channel, lookup, `ComputeTarget`, `AvailableVersions` | `UpdateGraph`, `UpdateWalk` |
| validation (`validate_spec.go`, `config_change.go`, `validate_config.go`) | status, conditions | accept, reject, observe a change, set the target | `Controller` |
| migrations (`check_migrations.go`, `run_migration.go`, `wait_for_migrations.go`, `cleanup_job.go`) | jobs, pods | decide, run, wait, clean up | `Controller` |
| deployment (`ensure_deployment.go`) | deployment, status | apply, report, wait for the rollout | `Controller` |
| pause (`pause.go`, `self_pause.go`) | label, condition | pause, resume, self-pause | `Controller` |
| cluster configuration (`config/config.go`) | none | validate, build jobs and deployments | `Controller`, in part |
| queue and workers (`controller.go`) | keys | add, get, `syncOwnedResource`, done | `Operator` |
| operator configuration (`controller.go`, `loadConfig`) | graph, image, hash, lock | reload, requeue every cluster | `Operator`, `UpdateWalk` |
| secrets (`secret_adoption.go`, `metadata/keys.go`) | labels, annotations, indexes | adopt, release, `syncExternalResource` | `SecretAdoption`, `Controller` |
| schemas for patches (`config/patchmeta.go`) | cache of schemas | look up, load once | `PatchMetaResolver` |
| graph generator (`tools/generate-update-graph`) | none | the shipped graph | `ShippedGraph` |
| path validator (`tools/validate-upgrade-path`) | path | walk from one version to another | `UpgradePath` |
| owned resources (`controller.go`) | service account, role, binding, service, disruption budget | apply | `Controller`, as calls that fail |

The handlers form a chain. One reconcile runs it for one cluster, and any
handler can end it: *done* (wait for an event) or *requeue*. What makes this
hard to get right:

- Everything is read from caches that lag behind the API server, each on its
  own, and decided from what was read several calls ago.
- Statuses are written by forced server-side apply. Most writes carry the
  resource version of the cached copy and conflict if it is old; two carry none
  and overwrite (`config_change.go:95`, `controller.go:684`).
- A reconcile makes many API calls. Any of them can fail, and the operator can
  stop between two of them.
- The status is the operator's only memory. "A rollout is in progress" is
  worked out from two conditions and two hashes that four handlers write.
- Only events of the cluster and of its adopted secrets queue it. Events of the
  deployment, of jobs and of pods reach the caches and nothing else, and nothing
  resyncs.
- Users edit the spec, the secret and the pause label, and delete jobs, at any
  time. Jobs complete, fail, and are deleted once they are no longer needed.
- Workers share the configuration, which is replaced while they run, the
  schemas, and, through their clusters, secrets.

What must hold: a deployment never runs on a datastore that lacks its
migration; releases are walked edge by edge and none is passed over; a pin is
never passed and no release is replaced by an older one; a status without
conditions is true; a migration is not run again; a failed one stops the
cluster; no reconcile sees half a configuration, or an older one than before;
and a cluster gets where its spec, its secrets and the configuration say.

## The modules

| module | models |
| --- | --- |
| `UpdateGraph` | `pkg/updates` as pure operators named after the methods |
| `UpdateWalk` | the status version of one cluster over many reconciles, edits and reloads |
| `Controller` | the handler chain of one cluster and its environment |
| `Operator` | the reload of the configuration, the work queue and the workers |
| `SecretAdoption` | the adoption of secrets by several clusters in several roles |
| `PatchMetadata`, `PatchMetaResolver` | what the cache of schemas promises, and the cache |
| `ShippedGraph` | the update graph that the generator writes |
| `UpgradePath` | the validator of upgrade paths |
| `MCUpdateWalk`, `MCController`, `MCOperator`, `MCSecretAdoption`, `MCUpgradePath` | the instances that TLC checks |
| `UpdateGraphProofs`, `UpdateWalkProofs`, `UpgradePathProofs`, `ControllerProofs`, `RolloutProofs`, `SecretAdoptionProofs`, `PatchMetaResolverProofs`, `OperatorProofs` | theorems and their proofs |

`UpdateWalk`, `Controller`, `ShippedGraph` and `UpgradePath` extend
`UpdateGraph`, so that the operator the small model explores widely is the one
the large model runs and the one the tool is compared with. Definitions that are
marked *Faulty* are not part of the model: each is a plausible mistake in the
definition it is named after, and makes a property fail.

**UpdateGraph.** A source is a record of an ordered sequence of nodes and a
function from an id to its edges. `ComputeTarget` follows the branches of
the method: pinned image, missing channel or source, first install, the version
asked for is running, version not in the channel, one step (`Advance`). A nil
version is `NoVersion`. The `tag` of a state stands for tag or digest. Channel
names are compared exactly.

**UpdateWalk.** `status` is `status.version`, `rollout` is `RolloutInProgress`,
`specChannel` and `specVersion` are the two fields of the spec. `Reconcile` takes
what `ComputeTarget` returns; a changed version changes the migration hash and so
starts a rollout. `FinishRollout` ends it. `EditSpec` changes channel, pin or
configuration; `loadConfig` replaces the graph.

**Controller.** The API objects (`cluster`, `secret`, `jobs`, `pods`, `dep`), the
caches (`cache`, `seen...`), and the reconcile in progress (`pc`, `obj`, `ctx`). An
action is one handler, or one API call of a handler that makes several:
`runMigration`, `applyJob` and `deleteExtraJobs` are the three parts of
`MigrationRunHandler.Handle`; `ensureDeployment`, `applyDeployment`,
`reportApplyFailed`, `clearApplyFailed` and `waitForRollout` those of
`DeploymentHandler.Handle`; `cleanupJob` and `cleanupPods` those of
`JobCleanupHandler.Handle`; `secretAdopter` looks the secret up and adopts it, and
`reportMissingSecret` is what its `ExistsFunc` reports when the secret is missing
or the look-up fails. `PatchStatus` writes the whole status, conflicts, or fails.
`Patch`, with which self-pause sets the label, applies the whole object in hand:
fields of the copy overwrite those of the cluster, and fields that the copy lacks
stay, or go if nobody else owns them (`Applied`). The rest is the environment. The caches are brought up to date by
`DeliverCluster` and `syncExternalResource`, which queue the cluster, and by
`DeliverJobs`, `DeliverPods` and `DeliverDeployment`, which do not; `Restart` reads
all of them again. Then there are users, the job and deployment controllers, and
the garbage collector.

Abstractions of `Controller`:

- Resource versions are two bits: whether the cache, and the copy in hand, are
  as new as the object. Every change of the object, a user's edit included,
  makes both old.
- A hash is the record that is hashed; equal hashes mean equal records.
- A secret is its datastore URI. Changes of the preshared key alone, and
  credentials that are marked as skipped, are not told apart.
- `spec.conf` stands for every option that enters the migration config, the
  value `"bad"` for options that `NewConfig` rejects.
- Messages, warnings and events are left out, and with them the patches that
  only refresh a message.
- A cluster's deployment has one name, so the loop that deletes others of its
  kind has nothing to do; `next` of `MigrationRunHandler` is never called.
- The service account, role, service, binding and disruption budget appear as
  calls that can fail: the first four in `checkMigrations`, before the caches are
  read, the last in `cleanupJob`. The handlers that build them are not modelled.
- Who owns a field of the spec is not kept, so `Applied` leaves it open whether a
  field that the copy lacks stays. Two valid specs can be merged into one that is
  not.

**Operator.** `readConfig`, `assignConfig`, `overrideImage` and `requeueClusters`
are the parts of `loadConfig` in its order: read and hash (an undecodable file
panics), the two assignments under `configLock`, the hash, then one list per
namespace, each of which may fail. The queue is that of client-go: `delayed`,
`queue`, `dirty`, `processing`. A worker takes a key (`Get`), copies the
configuration under the read lock (`syncOwnedResource`), and ends (`Finish`), with
a requeue or without. What the reconcile does in between is `Controller`. A
configuration carries the number of the load it is from, which is history.

**SecretAdoption.** A secret is its contents, the roles whose field manager holds
labels on it and the clusters it is annotated with. The informer sees labelled
secrets only, and its events arrive in order (`log`). For each role in turn
`adoptLabels`, `adoptOwner`, `releaseLabels` and `releaseOwner` are the API calls
of the library's adoption handler as `NewSecretAdoptionHandler` sets it up;
`collectSecrets` ends the reconcile with the contents that were found (`using`).

**PatchMetadata, PatchMetaResolver.** The promise: one fetch per group-version
in the life of the process, and its outcome, an error included, for everybody.
The resolver has the mutex, the map (`cached`), the entries with their
`sync.Once`, and each caller's place in `LookupPatchMeta`. The refinement maps a
group-version to the result of its finished entry, and a caller to the
group-version it is asking for.

**ShippedGraph, UpgradePath.** The five channels of the generator, with
releases, migrations, phases, tags, deprecations and edges. The version ranges of
`edgePatterns` are written as limits, and the edges were compared with the ones
in `config/update-graph.yaml`. `LookUp` and `validateUpgrade` are the lookups and
the loop of the tool.

The library that supplies the pause and adoption handlers, and client-go's queue
and informers, are not part of the repository. They are modelled from how they
are called.

## The runs

| run | instance | shows | distinct states |
| --- | --- | --- | --- |
| `walk` | every channel of four releases of the shipped shape with two placements of migrations, and two channels that share releases; two edits, one reload | `OffersHonoured`, `StepsAlongEdges`, `NeverPastPin`, `NeverDowngrades`, `FrozenWhileRolling`, `StaysOnPath`, `HeadReached`, `PinReached` | 26,762 |
| `controller` | three releases, one step with and one without a migration; one edit, one failing call or restart, one failing job or pod | `SchemaReady`, `FullyMigrated`, `QuietMeansDeployed`, `StepwiseRollout`, `EveryStepDeployed`, `NoMigrationRerun` | 902,313 |
| `settings` | two releases, five specs (invalid, rejected, changed, skipping migrations), two secrets, one edit | `SchemaReady`, `StepwiseRollout`, `EveryStepDeployed` | 621,241 |
| `controller_ends` | two releases, one edit, one failing job or pod | `HeadDeployed`, `FailedMigrationPauses` | 204,917 |
| `operator` | two workers, two namespaces, three files of which one does not decode, one change of the file, one failing list or restart | `CopiesAreWhole`, `ReconcilesInOrder`, `LatestConfigUsed`, no deadlock | 364,288 |
| `adoption` | a cluster with two roles and three secrets; two edits, one change of a secret, one failing call | `QuietMeansCurrent`, `NeverBackwards`, `CredentialsCurrent`, `OwnsWhatItNames` | 462,954 |
| `schemas` | three callers, two group-versions, one of which may never answer; restarts | `FetchedOnce`, `KeepsPromise`, `SlowBlocksNoOther` | 53,915 |
| `upgrade_paths` | the shipped graph, every datastore, every two versions and one that is unknown | `ChannelIsRegular`, `VerdictIsRight`, `OperatorAgrees`, `PhasesAreStops`, `Ends` | 36,875 |

Each passing run but `settings` and `controller_ends` also checks the module's `TypeOK`. Four more runs show
where the code and its documentation disagree; see below. Deadlock is checked in
`operator`, where clusters may always change. In the others it is not: once the
bounds are used up and nothing is left to do, the operator waits for events, and
so does the model.

**Bounds.** Four releases are enough for a step that jumps over a release and
for a migration before, on and after it. "The shipped shape" is: an update that
jumps over a release is also an update from it. All channels of the shipped graph
have it. One edit during a walk of three releases meets every handler in every
phase of a migration and a rollout, and one fault hits every call; a second one
of either is left out for the size of the state space. `controller_ends` has two
releases, as checking liveness takes longer, and its walk is one step with a
migration. Two workers are what it takes to reconcile one cluster twice at a
time, two namespaces to fail between lists. One change of the file is enough for
a worker to hold the configuration of before, and a restart for one with none.
Three callers are one that loads, one that waits and one that comes later.
`upgrade_paths` has no bound: the graph and the pairs are all there are.
`MaxAttributes` cuts off the growth that `attribute_set` shows.

`NoMigrationRerun` and `QuietMeansDeployed` are checked with edits of the version
only. A user who changes the configuration and takes the change back, while the
cache still shows the deployment of before, does make the migration run again
(harmless when migrations are idempotent), and can be left with the changed
deployment (`owned_events`).

**What some of the properties leave out.** `SchemaReady` says that the job to
the deployment's migration has completed. It does not say that it ran alone: a
user who changes the target while a job runs gets a second one beside it, and the
older job is deleted only once the newer one has been created.
`FailedMigrationPauses` is about the condition and the label, not about the spec
that `Patch` may put back with them. `OffersHonoured` compares what the status
offers with what `ComputeTarget` then does; as every version is marked, on the
side of the marks it says little, and `OperatorAgrees` makes up for it: an offer
of the next step is called a migration exactly if phase or migration change.
`PhasesAreStops` counts as a phase every release that names one, and every release
whose tag a newer one shares, as the generator's phases do not all name it.

**Fairness.**

- `Controller`: weak fairness of the reconcile (workers keep taking keys and
  every handler returns), of each kind's deliveries (a watch that breaks is
  started again by the informer), of running jobs and of rollouts. Nothing is
  assumed of users, faults, pod crashes or the garbage collector.
  `ReconcileIsFair` is `WF_vars(Reconcile)` written out: the action is enabled
  exactly when a handler is to run or the key is queued, and it always changes
  `pc` or `ctx`, which otherwise only the bounded restarts do.
- `UpdateWalk`: the same of `Reconcile` and `FinishRollout`. `ReconcileIsFair` is
  again weak fairness with the enabling condition written out, and so is `Runs`
  in `UpgradePath`: TLC then does not evaluate the whole action once more per
  state, with all of `ComputeTarget`.
- `Operator`: the loader, the delays of the queue and each worker go on. A file
  that does not decode makes the process panic and start again, for as long as it
  stays; `LatestConfigUsed` says nothing of it.
- `SecretAdoption`: each cluster's reconcile, and the informer.
- `PatchMetaResolver`: strong fairness of `Lock`, since a Go mutex starves nobody;
  weak fairness of every other step of a caller, but not of the fetch of a slow
  group-version.

## Where code and documentation disagree

- **Events of owned objects queue nothing** (`owned_events`, `SpecDeployed`). The
  comment on `syncExternalResource` says that a dependent resource queues its
  cluster by its labels. It goes by annotations, which only adopted secrets have.
  A change that is taken back while the deployment cache lags leaves the changed
  deployment in place, with a status that is content.
- **A secret of two roles loses its owner** (`shared_secret`,
  `CredentialsCurrent`). When one of the roles moves to another secret, its
  handler removes the owner annotation that the other still needs, and changes of
  the secret go unnoticed. `metadata/keys.go` says no handler treats another
  role's secret as stale.
- **Attributes pile up** (`attribute_set`, `AttributesAreASet`). `types.go` calls
  them a set. While a cluster's version is not in the channel asked for, each
  reconcile appends `notInDesiredChannel` to the copy from the status. The
  version is hashed, so each append is a new rollout.
- **A removed image can leave a cluster stuck** (`image_removed`,
  `HeadDeployed`). Removing a pinned image while it rolls out makes every later
  reconcile reject the config, so the rollout is never seen to end.

Also met while modelling, without a run of their own:

- Two clusters can share a secret in one role. One of them releasing it while the
  other adopts it can leave it without labels, and so outside the watch: with
  `Clusters = {c1, c2}`, `Roles <- OneRole` and `Credentials <- EitherSecret`,
  `CredentialsCurrent` fails.
- `loadConfig` stores the hash before it lists the clusters. Those that a failing
  list leaves out wait for another event (`missed` in `LatestConfigUsed`).
- A release of a secret that fails after its first call leaves the annotation
  behind (the condition on faults in `OwnsWhatItNames`).
- `NextVersion` takes the last edge inside the subgraph of the pin. In a channel
  with a fork this may lead to a release from which the pin cannot be reached. No
  shipped channel has one, and `StaysOnPath` holds of the shipped shape.
- The attributes of the version before are kept, its migration mark included, so
  a step without a migration runs a job. `EveryVersionMarked` proves that every
  version is marked, always. The path validator and `availableVersions` call such
  a step direct, and `check_migrations.go:52` would skip its migration; both are
  right about the graph (`OperatorAgrees`), and the job is run all the same.
- With `skipMigrations` the current hash becomes the target hash although nothing
  was migrated, where `types.go` says that the datastore is then fully migrated.
- In the spanner channel the release v1.51.1 has the tag v1.52.0, and v1.49.2 the
  tag v1.51.1.

## The proofs

Proved for every value of the constants, from the named assumptions on them
(`ConstantsAssumption`, `UpgradePathAssumption`, `AdoptionAssumption`,
`ResolverAssumption`, `OperatorAssumption`), which are little more than their
types. Where a theorem has a hypothesis beyond these, the table says so:

| module | theorem | states |
| --- | --- | --- |
| `UpdateWalkProofs` | `EveryVersionMarked` | every version in the status carries the migration attribute |
| | `WalkStepsAlongEdges` | `StepsAlongEdges` |
| | `WalkFrozenWhileRolling` | `FrozenWhileRolling` |
| | `WalkNeverPastPin` | `NeverPastPin` |
| | `WalkNeverDowngrades` | `NeverDowngrades`, if updates lead to newer releases |
| | `WalkStaysOnPath` | `StaysOnPath`, if also a release that an update jumps over has that update |
| | `WalkOffersHonoured` | `[]OffersHonoured`, if updates lead forward and are listed oldest first |
| | `WalkTypeOK` | `[]TypeOK`, if edges start at releases and no reload takes a release away |
| `UpgradePathProofs` | `UpgradePathTypeOK` | `[]TypeOK` |
| | `UpgradePathVerdictIsRight` | `[]VerdictIsRight`, on graphs that are `WellShaped` |
| | `UpgradePathOperatorAgrees` | `OperatorAgrees`, on graphs with `OrderedUpdates` |
| `ControllerProofs` | `ControllerTyped` | `[]TypeOK` |
| | `ControllerSchemaReady` | `[]SchemaReady` |
| | `ControllerFullyMigrated` | `[]FullyMigrated`, if no spec skips migrations and the datastore has them |
| `RolloutProofs` | `ControllerQuietMeansDeployed` | `[]QuietMeansDeployed`, if `VersionsOnly` |
| | `ControllerNoMigrationRerun` | `NoMigrationRerun`, if `VersionsOnly` |
| | `ControllerStepwiseRollout` | `StepwiseRollout`, if `VersionsOnly` |
| | `ControllerEveryStepDeployed` | `EveryStepDeployed`, if `VersionsOnly` and `NoWayBack` |
| `SecretAdoptionProofs` | `AdoptionTypeOK` | `[]TypeOK` |
| | `AdoptionNeverBackwards` | `NeverBackwards` |
| | `AdoptionCacheCurrent` | a secret with no event under way is in the cache as it is |
| | `AdoptionQuietMeansCurrent` | `[]QuietMeansCurrent`, if `SecretsApart` |
| `PatchMetaResolverProofs` | `TypeCorrect` | `[]TypeOK`, with the mutex held by the caller in its section |
| | `FetchedOnceHolds` | `[]FetchedOnce` |
| | `KeepsPromiseHolds` | the resolver implements `PatchMetadata` |
| `OperatorProofs` | `TypeCorrect` | `[]TypeOK` |
| | `CopiesAreWholeHolds` | `[]CopiesAreWhole` |
| | `ReconcilesInOrderHolds` | `[]ReconcilesInOrder` |

`UpdateGraphProofs` has the lemmas on the operators that several of the modules
share: a next version is the target of an edge, the nodes and edges of a subgraph
are those of the source, `ComputeTarget` returns a marked version and a state,
a step inside a subgraph loses none of the releases that can still be reached, and
what `AvailableVersions` offers. `UpdateWalkProofs` begins with those on what
`ComputeTarget` does to a version (it stays, installs, or takes a step).
`Reachable` is a recursive function; what is proved of it goes by the least
length for which it would fail (`Induction`, `Recursion`), as the library's
induction theorems cannot be instantiated.

Some results on walks need a shape of the graph that no code checks
(`UpdatesLeadForward`, `UpdatesAscend`, `NoBypass`, `SchemaNeverReturns` in
`UpdateGraph`). The hypotheses are not empty: `ChannelIsRegular` checks them of
each channel the operator ships with, and the assumption of `MCUpdateWalk` of
each graph of the `walk` run. What is proved is thus that a graph that someone
writes or generates by the same rules is as safe as the shipped one, and that
the rules are all it takes. `NeverPastPin`, `StepsAlongEdges` and
`FrozenWhileRolling` need none of them.

For the validator, `VerdictInv` says that the last step can be reached from where
the walk began, and that the destination can be reached from the last step if it
could be from the beginning: the tool follows one path only, and without
`NoBypass` that path can miss. For
`OperatorAgrees` each step of the tool is compared with two others. `TargetTakes`
is about the step that `ComputeTarget` takes for a cluster that runs the version
before, with the marked status that every cluster has, and is pinned to the
destination: it leads to the same release. `OfferMarks` is about the step as the
status offers it. The tool compares two releases, the operator two walks, one of
which stays in a phase and migration; they agree because a phase and migration
once left does not return (`DirectIffSameSchema`).

`SchemaReady` is not inductive: it speaks of the deployment only, and the
decision to write the deployment is made from a cache, several calls before.
`SchemaInv` adds that a completed job has its hash in `migrated` in the
API server, in the cache and in the reconcile's context; that any deployment
there was migrated; and that a reconcile that has reached the deployment
handlers without skipping migrations has its target migrated. The last conjunct
rests on `EveryVersionMarked`'s fact for the statuses of `cluster`, `cache` and
`obj` (`TypeInv`): the branch of `checkMigrations` that goes straight to the
deployment for the lack of the attribute is never taken.

`FullyMigrated` does not hold of every set of specs (see `skipMigrations` above).
`AlwaysMigrates` leaves those out. Then `CurrentInv` is inductive next to
`SchemaInv`: the current hash of `cluster`, `cache` and `obj` is empty or of a
migration that completed. Writes from stale copies can put an older hash back,
but only ever one that was in some copy, and only `ensureDeployment` brings in a
new one.

The four theorems of `RolloutProofs` are about the walk as a whole, for every
update graph and any number of edits, faults and failures. They rest on one
inductive invariant, `RolloutInv`. Everything the operator decides from may be
old: the cached cluster, the copy in hand, the deployment and the jobs, each on
its own; and a status written without a resource version can put an old one
back. So the invariant cannot speak of the cluster's status alone. It says:

- of each of the three copies of the status (`Told`), that it is from before the
  first target, or that what it tells of the rollout is still true, old as it may
  be (`Tracks`). If it shows no rollout in progress, its target is deployed, has
  rolled out, and the deployment cache knows. Otherwise the deployment carries the
  copy's target or the release before it, and if the copy claims that the target is
  migrated, the caches show that and will go on showing it (`Done`): by the
  deployment, or by a completed job that is still there;
- of every two copies (`Near`), that they have the same target or are one step of
  the walk apart. This is why a write from an old copy is harmless: it takes
  the status back by a step that nothing has built on;
- of deployment and jobs (`DepOK`, `JobsOK`), that each copy of the deployment is
  no further along the walk than a newer copy, and that jobs are named after their
  hashes;
- of the reconcile (`At`), what it knows at each handler: that a job is created only
  while the deployment does not carry its hash, that a deployment is applied only
  when its migration is done;
- of resource versions (`FreshInv`), that a copy that a conditional write would
  accept has the current status.

Each action is shown to keep it in a lemma of its own; `NextRollout` puts them
together. Releases are compared by their place in the channel (`Rank`), and a
release has one hash (`SameRelease`).

`VersionsOnly` is the hypothesis: the specs are of one channel and of a datastore
that has migrations, pin no image, skip no migrations and agree on the options
that enter the hash; there is one secret; updates lead to newer releases. Users
may still change the version at any time, write invalid specs and configs, pause
and resume, delete the secret and bring it back. What `Applied` makes of two such
specs need not be one of them, but it has the same channel and options, and this
is all the invariant asks of a spec (`Wanted`). It is needed: an option or a
secret that is changed and changed back while the deployment cache lags makes the
migration run again and can leave the changed deployment in place; a pinned image
has no version to step from; a change of the channel is not a step of either.
`NoWayBack` adds for `EveryStepDeployed` that no two releases update to each
other, in one channel or across channels; otherwise putting an old status
back looks like an update. The `controller` and `controller_ends` runs have their
instances satisfy both (`RolloutAssumption` in `MCController`). Beyond the
hypothesis `settings` checks `StepwiseRollout` and `EveryStepDeployed` with changed
options and secrets.

For the adoption of secrets, `NeverBackwards` follows from `InOrder`: what is in
use, in the cache, in the log and in the secret is in the order of the writes.
`AdoptionCacheCurrent` follows from `Tracked`: the last event of a secret, or the
cache if there is none, shows the secret as it is. `QuietMeansCurrent` is the
promise that matters, and rests on both the copies and the reconcile:

- `Watch` is about the copies of a secret, from the cache over the log to the
  secret. A cluster whose annotation the cache shows is on every later copy that
  is labelled; nothing follows the event of a removed label; a secret loses its
  label only after the cache has seen an annotation; and a secret that is labelled
  and annotated has no event under way, or one that queues the cluster.
- `Progress(c)` is about a reconcile. Each role that is done with has a secret
  whose next change, or an event under way, queues the cluster (`Ready`), or the
  cluster is queued already. It also says why the two calls of an adoption and
  the two of a release do no harm in between.
- `Settled(c)` is about an idle cluster that is not queued: each secret it names
  has an event under way that queues it, or is unchanged since it was used.

No handler decides from the secrets themselves, so the crux is `CachedAnnotation`:
a cached annotation may be old, but it means that the secret is still annotated
or that an event will tell the cluster. The hypothesis `SecretsApart` (one
cluster, each secret in the pool of one role, the legacy role not mixed with
others) is needed: `shared_secret` shows the violation for two roles, and two
clusters with one secret fail in the same way. Clusters that share no secret do
not meet in this module. The `adoption` run has its instance satisfy the
hypothesis (`ApartAssumption`).

For the resolver, `Inv` says that the map leads to every entry, so that there is
one per group-version (`MapInv`); what each caller knows of the entry in its hand
at each place (`CallInv`); and that one caller runs a load (`LoadInv`). Each step
of the resolver then maps to a step of `PatchMetadata` or to a stutter: `OnceDone`
is its `Fetch`, `Return` its `Answer`, `LookupPatchMeta` its `Ask`.

For the operator, `Inv` says that a key is in the queue once, exactly if it is
dirty and not being processed (`QueueInv`); that a key being processed is one
worker's (`WorkerInv`); that the configuration is whole whenever the lock is free
(`LockInv`); and that loads are numbered in order (`CopyInv`): what a cluster was
last reconciled with is no newer than the copy in its worker's hand, which is no
newer than the configuration.

TLC checked each of these invariants or the property it yields on the instances
above before it was proved. `RolloutInv` was also checked on a wider one: two
releases, the pins v1 and v2, the head, an invalid spec and an invalid config,
two edits, one fault and one failure (16,821,065 states).

Only model-checked:

- everything under fairness, which is beyond the prover: `HeadReached`,
  `PinReached`, `HeadDeployed`, `FailedMigrationPauses`, `LatestConfigUsed`,
  `CredentialsCurrent`, `OwnsWhatItNames`, `SlowBlocksNoOther`, `Ends`;
- `StepwiseRollout` and `EveryStepDeployed` for users who change options and
  secrets or skip migrations (`settings`);
- `ChannelIsRegular` and `PhasesAreStops`, which are facts about the shipped graph:
  TLC evaluates them on all of it, and there is nothing to generalise.

## Not modelled

- Environment variables, flags and the text of jobs and deployments
  (`config.go`): strings, of which only what enters the hashes matters here.
- The merging of patches (`patch.go`): JSON documents, merged by a library.
- `Clone`, `RemoveNodes` and `Difference` of the update graph: tests only.
- What the owned service accounts, roles, bindings, services and disruption
  budgets contain, and the deletion of extra ones.
- Deletion of a `SpiceDBCluster`: the garbage collector removes what it owns.
- The listings, flags and downloads of the two tools on update graphs.
- Start up, CRDs, generated code, the memory profile and build scripts.
- `Controller`, `Operator` and `SecretAdoption` are not composed into one module.
  They meet in `syncOwnedResource`: `ReconcilesInOrder` is what lets `Controller`
  have one reconcile at a time, and `SecretAdoption` reduces the rest of the
  chain to the secrets it was given. The product is out of TLC's reach.
