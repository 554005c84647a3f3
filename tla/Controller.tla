------------------------------ MODULE Controller ------------------------------
(***************************************************************************)
(* The reconciliation of one SpiceDBCluster: the handler chain of          *)
(* pkg/controller, the API objects it reads through caches and writes with *)
(* API calls, and the environment that changes them meanwhile: users,      *)
(* the job and deployment controllers, watch deliveries, failing calls and *)
(* restarts of the operator.                                               *)
(*                                                                         *)
(* The work queue never hands one key to two workers, so there is one      *)
(* reconcile at a time; pc is the handler it has reached.  A step is one   *)
(* API call, or a handler that makes none.  The caches of the kinds lag    *)
(* independently of each other, so reading a cache together with the call  *)
(* that follows loses no behaviour: the delivery in between can be taken   *)
(* to come after the call.                                                 *)
(*                                                                         *)
(* Abstractions.  Resource versions are two bits: cacheFresh tells that    *)
(* the cluster was not written since the cached copy was taken, objFresh   *)
(* the same of the copy in hand.  A hash is the record that is hashed.  A  *)
(* secret is its datastore URI, "" when there is none.  spec.conf stands   *)
(* for the options that enter MigrationConfig.  Condition messages,        *)
(* warnings, events, and the status fields that are functions of others    *)
(* (image, migration, phase, availableVersions) are left out.  The status  *)
(* patches that only refresh a message are therefore no-ops here.          *)
(***************************************************************************)
EXTENDS UpdateGraph

CONSTANTS
    Graph,          \* the update graph of the operator configuration
    Engine,         \* the datastore engine of the cluster
    Specs,          \* the specs the user may write, see SpecType
    Secrets,        \* the contents the user may give the secret
    MaxEdits,       \* bound: changes the users make to the cluster, the secret and the jobs
    MaxFaults,      \* bound: failing API calls and operator restarts
    MaxFailures     \* bound: failing migration jobs and crashing pods

SpecType == [valid : BOOLEAN, conf : Str, skip : BOOLEAN, image : Str,
             version : Str, channel : Str]

ASSUME ConstantsAssumption ==
    /\ IsGraph(Graph)
    /\ Engine \in Str
    /\ Specs \subseteq SpecType
    /\ Secrets \subseteq Str \ {""}
    /\ MaxEdits \in Nat
    /\ MaxFaults \in Nat
    /\ MaxFailures \in Nat

VARIABLES
    (* the API server *)
    cluster,        \* the SpiceDBCluster: [gen, spec, paused, status]
    secret,         \* the secret that the spec names
    adopted,        \* the secret carries the operator's labels
    jobs,           \* the migration jobs: [hash, phase]
    pods,           \* the hashes whose migration job left a pod
    dep,            \* the deployment; rolled tells that its rollout once completed
    (* the operator's caches *)
    cache,
    cacheFresh,
    seenSecret,
    secretFresh,    \* every event of the secret was delivered
    seenJobs,
    seenPods,
    seenDep,
    (* the reconcile in progress and the queue *)
    queued,
    pc,
    obj,            \* CtxCluster
    objFresh,
    ctx,            \* the other context boxes: [secret, jobs, pods, dep]
    (* what is left of the bounds, and history *)
    left,
    migrated        \* the hashes whose migration job has completed

api    == <<cluster, secret, adopted, jobs, pods, dep>>
seen   == <<seenSecret, secretFresh, seenJobs, seenPods, seenDep>>
work   == <<queued, pc, obj, objFresh, ctx>>
vars   == <<api, cache, cacheFresh, seen, work, left, migrated>>

NoHash == [conf |-> "", uri |-> "", version |-> NoVersion, state |-> NoState]
Skipped == [NoHash EXCEPT !.conf = "skipped"]
NoFailure == [secret |-> "", errs |-> {}]

NoStatus == [observed |-> 0, target |-> NoHash, current |-> NoHash, secret |-> "",
             version |-> NoVersion, validating |-> FALSE, failed |-> NoFailure,
             migrating |-> "no", missing |-> FALSE, rolling |-> FALSE,
             error |-> "no", paused |-> FALSE]
NoSpec == [valid |-> FALSE, conf |-> "", skip |-> FALSE, image |-> "",
           version |-> "", channel |-> ""]
NoCluster == [gen |-> 0, spec |-> NoSpec, paused |-> FALSE, status |-> NoStatus]
NoDep == [exists |-> FALSE, annotation |-> NoHash, conf |-> "", state |-> NoState,
          secret |-> "", rolled |-> FALSE, ready |-> FALSE, crash |-> FALSE]
NoCtx == [secret |-> "", jobs |-> {}, pods |-> {}, dep |-> NoDep]

Init ==
    /\ \E spec \in Specs :
          cluster = [gen |-> 1, spec |-> spec, paused |-> FALSE, status |-> NoStatus]
    /\ secret \in Secrets \cup {""}
    /\ adopted = FALSE
    /\ jobs = {}
    /\ pods = {}
    /\ dep = NoDep
    /\ cache = cluster
    /\ cacheFresh = TRUE
    /\ seenSecret = ""
    /\ secretFresh = TRUE
    /\ seenJobs = {}
    /\ seenPods = {}
    /\ seenDep = NoDep
    /\ queued = TRUE
    /\ pc = "idle"
    /\ obj = NoCluster
    /\ objFresh = FALSE
    /\ ctx = NoCtx
    /\ left = [edits |-> MaxEdits, faults |-> MaxFaults, failures |-> MaxFailures]
    /\ migrated = {}

----------------------------------------------------------------------------
(* Control flow of a reconcile *)

(* Goes on with the given handler, or ends the reconcile: "done" waits for *)
(* another event, "requeue" is any of Requeue, RequeueAfter, RequeueErr    *)
(* and RequeueAPIErr.                                                      *)
Goto(next, o, fresh, c) ==
    IF next \in {"done", "requeue"}
    THEN /\ pc' = "idle"
         /\ obj' = NoCluster
         /\ objFresh' = FALSE
         /\ ctx' = NoCtx
         /\ queued' = (queued \/ next = "requeue")
    ELSE /\ pc' = next
         /\ obj' = o
         /\ objFresh' = fresh
         /\ ctx' = c
         /\ UNCHANGED queued

Continue(next) == Goto(next, obj, objFresh, ctx)

(* An API call that fails; every handler requeues.                         *)
CallFails ==
    /\ left.faults > 0
    /\ left' = [left EXCEPT !.faults = @ - 1]
    /\ Continue("requeue")
    /\ UNCHANGED <<api, cacheFresh>>

(* PatchStatus: server-side apply of the whole status, with the resource   *)
(* version of the copy in hand if versioned; then a copy that is not fresh *)
(* conflicts.  A patch that changes nothing leaves the resource version.   *)
PatchStatus(status, generation, versioned, next) ==
    LET new == [status EXCEPT !.observed = generation]
    IN  \/ /\ versioned => objFresh
           /\ cluster' = [cluster EXCEPT !.status = new]
           /\ cacheFresh' = (cacheFresh /\ new = cluster.status)
           /\ Goto(next, [obj EXCEPT !.status = new],
                   objFresh /\ new = cluster.status, ctx)
           /\ UNCHANGED <<secret, adopted, jobs, pods, dep, left>>
        \/ /\ versioned /\ ~objFresh
           /\ Continue("requeue")
           /\ UNCHANGED <<api, cacheFresh, left>>
        \/ CallFails

NoCall == UNCHANGED <<api, cacheFresh, left>>

(* syncOwnedResource: the queue hands out the key, the cluster is read     *)
(* from the cache and handled.                                             *)
syncOwnedResource ==
    /\ pc = "idle"
    /\ queued
    /\ queued' = FALSE
    /\ pc' = "pause"
    /\ obj' = cache
    /\ objFresh' = cacheFresh
    /\ ctx' = NoCtx
    /\ NoCall
    /\ UNCHANGED <<cache, seen, migrated>>

----------------------------------------------------------------------------
(* The handlers *)

(* The library's pause handler: a paused cluster gets the Paused condition *)
(* and is left alone; one that is no longer paused loses it.               *)
pauseCluster ==
    /\ pc = "pause"
    /\ IF obj.paused = obj.status.paused
       THEN Continue(IF obj.paused THEN "done" ELSE "spec") /\ NoCall
       ELSE PatchStatus([obj.status EXCEPT !.paused = obj.paused], obj.gen, TRUE,
                        IF obj.paused THEN "done" ELSE "spec")
    /\ UNCHANGED <<cache, seen, migrated>>

(* NewInvalidConfigCondition: its message is the secret hash and the error *)
InvalidConfig(hash, errs) == [secret |-> hash, errs |-> errs]

(* Reports an invalid spec or config, unless the status says so already.   *)
Reject(failed) ==
    IF obj.status.failed = failed
    THEN Continue("done") /\ NoCall
    ELSE PatchStatus([obj.status EXCEPT !.validating = FALSE, !.failed = failed],
                     obj.gen, TRUE, "done")

validateSpec ==
    /\ pc = "spec"
    /\ IF obj.spec.valid
       THEN Continue("adopt") /\ NoCall
       ELSE Reject(InvalidConfig("", {"spec"}))
    /\ UNCHANGED <<cache, seen, migrated>>

(* The secret informer sees labelled secrets only: a secret it does not    *)
(* see is labelled if it is there, and reported as missing otherwise, also *)
(* if the call that looks for it fails.                                    *)
secretAdopter ==
    /\ pc = "adopt"
    /\ \/ /\ seenSecret # ""
          /\ Continue("collect")
          /\ NoCall
          /\ UNCHANGED secretFresh
       \/ /\ seenSecret = "" /\ secret # ""
          /\ adopted' = TRUE
          /\ secretFresh' = (secretFresh /\ adopted)
          /\ Continue("collect")
          /\ UNCHANGED <<cluster, secret, jobs, pods, dep, cacheFresh, left>>
       \/ /\ seenSecret = "" /\ secret # ""
          /\ CallFails
          /\ UNCHANGED secretFresh
       \/ /\ seenSecret = "" /\ secret = ""
          /\ Continue("missing")
          /\ NoCall
          /\ UNCHANGED secretFresh
       \/ /\ seenSecret = "" /\ left.faults > 0
          /\ left' = [left EXCEPT !.faults = @ - 1]
          /\ Continue("missing")
          /\ UNCHANGED <<api, cacheFresh, secretFresh>>
    /\ UNCHANGED <<cache, seenSecret, seenJobs, seenPods, seenDep, migrated>>

(* The object that reports it carries neither resource version nor         *)
(* generation.                                                             *)
reportMissingSecret ==
    /\ pc = "missing"
    /\ PatchStatus([obj.status EXCEPT !.missing = TRUE], 0, FALSE, "requeue")
    /\ UNCHANGED <<cache, seen, migrated>>

collectSecrets ==
    /\ pc = "collect"
    /\ Goto("changed", obj, objFresh, [ctx EXCEPT !.secret = seenSecret])
    /\ NoCall
    /\ UNCHANGED <<cache, seen, migrated>>

checkConfigChanged ==
    /\ pc = "changed"
    /\ IF \/ obj.gen # obj.status.observed
          \/ ctx.secret # obj.status.secret
          \/ obj.status.missing
       THEN PatchStatus([obj.status EXCEPT !.secret = ctx.secret, !.missing = FALSE,
                                           !.validating = TRUE],
                        obj.gen, FALSE, "config")
       ELSE Continue("config") /\ NoCall
    /\ UNCHANGED <<cache, seen, migrated>>

(* Faulty: only a migration counts as a rollout.                           *)
RolloutInProgress_Migrating(status) == status.migrating = "true"

(* Faulty: the Rolling condition is not looked at.                         *)
RolloutInProgress_Hashes(status) ==
    status.migrating = "true" \/ status.current # status.target

RolloutInProgress(status) ==
    \/ status.migrating = "true"
    \/ status.rolling
    \/ status.current # status.target

(* The update the config asks for, from the status in hand.                *)
TargetOf(o) ==
    ComputeTarget(Graph, [image |-> o.spec.image, base |-> TRUE, version |-> o.spec.version,
                          channel |-> o.spec.channel, engine |-> Engine],
                  o.status.version, RolloutInProgress(o.status))

(* NewConfig: the errors it collects, and the migration config it returns. *)
ConfigErrors(o, sec, target) ==
    {e \in {"config", "update", "secret"} :
        \/ e = "config" /\ o.spec.conf = "bad"
        \/ e = "update" /\ (target.err \/ target.state.tag = "")
        \/ e = "secret" /\ sec = ""}

MigrationConfig(o, sec, target) ==
    [conf |-> o.spec.conf, uri |-> IF Engine = "memory" THEN "" ELSE sec,
     version |-> target.target, state |-> target.state]

(* ClusterStatus.Equals: the current hash of the one is compared with the  *)
(* target hash of the other.                                               *)
Equals(s, other) ==
    /\ s = [other EXCEPT !.current = s.current]
    /\ s.current = other.target

validateConfig ==
    /\ pc = "config"
    /\ \E target \in {TargetOf(obj)} :
          LET errs     == ConfigErrors(obj, ctx.secret, target)
              computed == [obj.status EXCEPT !.observed = obj.gen,
                                             !.target = MigrationConfig(obj, ctx.secret, target),
                                             !.version = target.target,
                                             !.validating = FALSE, !.failed = NoFailure]
          IN  CASE errs # {} -> Reject(InvalidConfig(ctx.secret, errs))
                [] errs = {} /\ Equals(obj.status, computed) -> Continue("migrations") /\ NoCall
                [] OTHER -> PatchStatus(computed, obj.gen, TRUE, "migrations")
    /\ UNCHANGED <<cache, seen, migrated>>

(* Whether checkMigrations handles no migrations for the cluster.          *)
NoMigrations(o) ==
    \/ o.spec.skip
    \/ Engine = "memory"
    \/ o.status.version # NoVersion /\ "migration" \notin Elems(o.status.version.attributes)

(* Faulty: any deployment counts as up to date.                            *)
AfterCheck_AnyDeployment(o, d, js) ==
    IF NoMigrations(o) \/ d.exists THEN "deploy"
    ELSE IF \E j \in js : j.hash = o.status.target THEN "wait" ELSE "run"

(* Faulty: the deployment is not looked at.                                *)
AfterCheck_NoDeployment(o, d, js) ==
    IF NoMigrations(o) THEN "deploy"
    ELSE IF \E j \in js : j.hash = o.status.target THEN "wait" ELSE "run"

(* Faulty: the handler that runs a migration is looked up by another key.  *)
AfterCheck_WrongKey(o, d, js) ==
    IF NoMigrations(o) \/ (d.exists /\ d.annotation = o.status.target) THEN "deploy"
    ELSE IF \E j \in js : j.hash = o.status.target THEN "wait" ELSE "runMigration"

(* Where checkMigrations goes on, given the deployment and the jobs.       *)
AfterCheck(o, d, js) ==
    LET hasDeployment == d.exists /\ d.annotation = o.status.target
        hasJob        == \E j \in js : j.hash = o.status.target
    IN  IF NoMigrations(o) \/ hasDeployment THEN "deploy"
        ELSE IF hasJob THEN "wait" ELSE "run"

(* The calls that ensure the service account, the role, the service and    *)
(* the role binding may fail; then the deployment and the jobs are read    *)
(* from the caches and checkMigrations picks the next handler.             *)
checkMigrations ==
    /\ pc = "migrations"
    /\ \/ /\ Goto(AfterCheck(obj, seenDep, seenJobs), obj, objFresh,
                  [ctx EXCEPT !.dep = seenDep, !.jobs = seenJobs])
          /\ NoCall
       \/ CallFails
    /\ UNCHANGED <<cache, seen, migrated>>

(* runMigration: the status, the job, and then the jobs of other hashes    *)
(* one by one.  No job of the context has the hash (checkMigrations).      *)
runMigration ==
    /\ pc = "run"
    /\ PatchStatus([obj.status EXCEPT !.migrating = "true"], obj.gen, TRUE, "job")
    /\ UNCHANGED <<cache, seen, migrated>>

MigrationJob(hash) == [hash |-> hash, phase |-> "running"]

applyJob ==
    /\ pc = "job"
    /\ \/ /\ IF \E j \in jobs : j.hash = obj.status.target
             THEN UNCHANGED <<jobs, pods>>
             ELSE /\ jobs' = jobs \cup {MigrationJob(obj.status.target)}
                  /\ pods' = pods \cup {obj.status.target}
          /\ Continue("extras")
          /\ UNCHANGED <<cluster, secret, adopted, dep, cacheFresh, left>>
       \/ CallFails
    /\ UNCHANGED <<cache, seen, migrated>>

(* A job that is already gone fails the call, as NotFound.                 *)
deleteExtraJobs ==
    /\ pc = "extras"
    /\ \/ ctx.jobs = {} /\ Continue("requeue") /\ NoCall
       \/ \E extra \in ctx.jobs :
             IF \E j \in jobs : j.hash = extra.hash
             THEN /\ jobs' = {j \in jobs : j.hash # extra.hash}
                  /\ Goto("extras", obj, objFresh, [ctx EXCEPT !.jobs = @ \ {extra}])
                  /\ UNCHANGED <<cluster, secret, adopted, pods, dep, cacheFresh, left>>
             ELSE Continue("requeue") /\ NoCall
       \/ ctx.jobs # {} /\ CallFails
    /\ UNCHANGED <<cache, seen, migrated>>

(* Faulty: does not wait for a running job.                                *)
waitForMigrations_Running ==
    /\ pc = "wait"
    /\ Continue("deploy")
    /\ NoCall
    /\ UNCHANGED <<cache, seen, migrated>>

(* Faulty: a failed job is retried.                                        *)
waitForMigrations_Retries ==
    /\ pc = "wait"
    /\ \E job \in ctx.jobs :
          /\ job.hash = obj.status.target
          /\ Continue(IF job.phase = "complete" THEN "deploy" ELSE "requeue")
    /\ NoCall
    /\ UNCHANGED <<cache, seen, migrated>>

waitForMigrations ==
    /\ pc = "wait"
    /\ \E job \in ctx.jobs :
          /\ job.hash = obj.status.target
          /\ CASE job.phase = "failed" ->
                     Goto("selfpause", [obj EXCEPT !.status.migrating = "false"], objFresh, ctx)
               [] job.phase = "complete" -> Continue("deploy")
               [] OTHER -> Continue("requeue")
    /\ NoCall
    /\ UNCHANGED <<cache, seen, migrated>>

(* The library's self-pause: the Paused condition, then the label.         *)
selfPauseCluster ==
    /\ pc = "selfpause"
    /\ PatchStatus([obj.status EXCEPT !.paused = TRUE], obj.gen, TRUE, "label")
    /\ UNCHANGED <<cache, seen, migrated>>

(* What a spec can become when a copy is applied to it.  A field that the  *)
(* copy lacks stays, or goes if no one but the operator has applied it.    *)
(* Of two valid specs this need not make a valid one.                      *)
AppliedField(mine, theirs) == IF mine = "" THEN {mine, theirs} ELSE {mine}

Applied(copy, spec) ==
    IF copy = spec THEN {spec}
    ELSE [valid : BOOLEAN, conf : {copy.conf, spec.conf},
          skip : {copy.skip, copy.skip \/ spec.skip},
          image : AppliedField(copy.image, spec.image),
          version : AppliedField(copy.version, spec.version),
          channel : AppliedField(copy.channel, spec.channel)]

(* Patch applies the whole object in hand, its spec included, without a    *)
(* resource version.                                                       *)
Patch ==
    /\ pc = "label"
    /\ \/ /\ \E spec \in Applied(obj.spec, cluster.spec) :
                cluster' = [cluster EXCEPT !.paused = TRUE, !.spec = spec,
                                           !.gen = IF spec = cluster.spec THEN @ ELSE @ + 1]
          /\ cacheFresh' = (cacheFresh /\ cluster' = cluster)
          /\ Continue("done")
          /\ UNCHANGED <<secret, adopted, jobs, pods, dep, left>>
       \/ CallFails
    /\ UNCHANGED <<cache, seen, migrated>>

(* Deployment: the deployment of the config in hand.                       *)
Deployment(o, sec) ==
    [exists |-> TRUE,
     annotation |-> IF o.spec.skip THEN Skipped ELSE o.status.target,
     conf |-> o.status.target.conf, state |-> o.status.target.state,
     secret |-> sec, rolled |-> FALSE, ready |-> FALSE, crash |-> FALSE]

Template(d) == [conf |-> d.conf, state |-> d.state, secret |-> d.secret]

(* The two have the same config hash.                                      *)
Matches(d, new) ==
    d.exists /\ d.annotation = new.annotation /\ Template(d) = Template(new)

(* Faulty: the Rolling condition is not set with the current hash.         *)
ensureDeployment_NotRolling ==
    /\ pc = "deploy"
    /\ PatchStatus([obj.status EXCEPT !.migrating = "no", !.current = obj.status.target],
                   obj.gen, TRUE, "apply")
    /\ UNCHANGED <<cache, seen, migrated>>

ensureDeployment ==
    /\ pc = "deploy"
    /\ IF obj.status.migrating # "no" \/ obj.status.current # obj.status.target
       THEN PatchStatus([obj.status EXCEPT !.migrating = "no", !.current = obj.status.target,
                                           !.rolling = TRUE],
                        obj.gen, TRUE, "apply")
       ELSE Continue("apply") /\ NoCall
    /\ UNCHANGED <<cache, seen, migrated>>

(* A deployment whose pod template does not change is not rolled.          *)
applyDeployment ==
    /\ pc = "apply"
    /\ LET new == Deployment(obj, ctx.secret)
       IN  \/ Matches(ctx.dep, new) /\ Continue("rollout") /\ NoCall
           \/ /\ ~Matches(ctx.dep, new)
              /\ dep' = IF dep.exists /\ Template(dep) = Template(new)
                        THEN [dep EXCEPT !.annotation = new.annotation]
                        ELSE new
              /\ Continue(IF obj.status.error = "apply" THEN "clear" ELSE "requeue")
              /\ UNCHANGED <<cluster, secret, adopted, jobs, pods, cacheFresh, left>>
           \/ /\ ~Matches(ctx.dep, new)
              /\ left.faults > 0
              /\ left' = [left EXCEPT !.faults = @ - 1]
              /\ Continue("report")
              /\ UNCHANGED <<api, cacheFresh>>
    /\ UNCHANGED <<cache, seen, migrated>>

reportApplyFailed ==
    /\ pc = "report"
    /\ PatchStatus([obj.status EXCEPT !.error = "apply"], obj.gen, TRUE, "requeue")
    /\ UNCHANGED <<cache, seen, migrated>>

clearApplyFailed ==
    /\ pc = "clear"
    /\ PatchStatus([obj.status EXCEPT !.error = "no"], obj.gen, TRUE, "requeue")
    /\ UNCHANGED <<cache, seen, migrated>>

(* Faulty: the Rolling condition is never removed.                         *)
waitForRollout_StaysRolling ==
    /\ pc = "rollout"
    /\ IF ctx.dep.ready THEN Continue("cleanup") /\ NoCall
       ELSE PatchStatus([obj.status EXCEPT !.rolling = TRUE], obj.gen, TRUE, "requeue")
    /\ UNCHANGED <<cache, seen, migrated>>

(* The deployment in the cache is the wanted one: report its progress.     *)
waitForRollout ==
    /\ pc = "rollout"
    /\ CASE ctx.dep.crash ->
                PatchStatus([obj.status EXCEPT !.error = "pod"], obj.gen, TRUE, "requeue")
         [] ~ctx.dep.crash /\ ~ctx.dep.ready ->
                PatchStatus([obj.status EXCEPT !.rolling = TRUE], obj.gen, TRUE, "requeue")
         [] ~ctx.dep.crash /\ ctx.dep.ready /\ (obj.status.rolling \/ obj.status.error # "no") ->
                PatchStatus([obj.status EXCEPT !.rolling = FALSE, !.error = "no"],
                            obj.gen, TRUE, "cleanup")
         [] OTHER -> Continue("cleanup") /\ NoCall
    /\ UNCHANGED <<cache, seen, migrated>>

(* ensurePDB may fail.  Then cleanupJob lists the jobs and their pods and  *)
(* deletes the completed job of the deployment.                            *)
cleanupJob ==
    /\ pc = "cleanup"
    /\ LET done == {j \in seenJobs : j.hash = ctx.dep.annotation /\ j.phase = "complete"}
           listed == [ctx EXCEPT !.jobs = seenJobs, !.pods = seenPods]
       IN  \/ seenJobs = {} /\ seenPods = {} /\ Continue("done") /\ NoCall
           \/ /\ seenJobs # {} \/ seenPods # {}
              /\ done = {}
              /\ Goto("pods", obj, objFresh, listed)
              /\ NoCall
           \/ /\ done # {}
              /\ \A j \in jobs : j.hash # ctx.dep.annotation
              /\ Continue("requeue")
              /\ NoCall
           \/ /\ done # {}
              /\ \E j \in jobs : j.hash = ctx.dep.annotation
              /\ jobs' = {j \in jobs : j.hash # ctx.dep.annotation}
              /\ Goto("pods", obj, objFresh, listed)
              /\ UNCHANGED <<cluster, secret, adopted, pods, dep, cacheFresh, left>>
           \/ CallFails
    /\ UNCHANGED <<cache, seen, migrated>>

(* A pod whose job was listed waits for the job to go; the others are      *)
(* deleted, in the order of the list.                                      *)
cleanupPods ==
    /\ pc = "pods"
    /\ \/ ctx.pods = {} /\ Continue("done") /\ NoCall
       \/ \E pod \in ctx.pods :
             IF (\E j \in ctx.jobs : j.hash = pod) \/ pod \notin pods
             THEN Continue("requeue") /\ NoCall
             ELSE /\ pods' = pods \ {pod}
                  /\ Goto("pods", obj, objFresh, [ctx EXCEPT !.pods = @ \ {pod}])
                  /\ UNCHANGED <<cluster, secret, adopted, jobs, dep, cacheFresh, left>>
       \/ ctx.pods # {} /\ CallFails
    /\ UNCHANGED <<cache, seen, migrated>>

Reconcile ==
    \/ syncOwnedResource \/ pauseCluster \/ validateSpec \/ secretAdopter
    \/ reportMissingSecret \/ collectSecrets \/ checkConfigChanged \/ validateConfig
    \/ checkMigrations \/ runMigration \/ applyJob \/ deleteExtraJobs \/ waitForMigrations
    \/ selfPauseCluster \/ Patch \/ ensureDeployment \/ applyDeployment
    \/ reportApplyFailed \/ clearApplyFailed \/ waitForRollout \/ cleanupJob \/ cleanupPods

----------------------------------------------------------------------------
(* The environment *)

(* A watch delivery of the cluster enqueues it.                            *)
DeliverCluster ==
    /\ ~cacheFresh
    /\ cache' = cluster
    /\ cacheFresh' = TRUE
    /\ queued' = TRUE
    /\ UNCHANGED <<api, seen, pc, obj, objFresh, ctx, left, migrated>>

Watched == IF adopted THEN secret ELSE ""

(* syncExternalResource enqueues the owners that an object's annotations   *)
(* name.  Only the adopted secret has such an annotation: what the cluster *)
(* owns carries a label, and its events reach the caches and nothing else. *)
syncExternalResource ==
    /\ ~secretFresh
    /\ seenSecret' = Watched
    /\ secretFresh' = TRUE
    /\ queued' = TRUE
    /\ UNCHANGED <<api, cache, cacheFresh, seenJobs, seenPods, seenDep,
                   pc, obj, objFresh, ctx, left, migrated>>

DeliverJobs ==
    /\ seenJobs # jobs
    /\ seenJobs' = jobs
    /\ UNCHANGED <<api, cache, cacheFresh, seenSecret, secretFresh, seenPods, seenDep, work,
                   left, migrated>>

DeliverPods ==
    /\ seenPods # pods
    /\ seenPods' = pods
    /\ UNCHANGED <<api, cache, cacheFresh, seenSecret, secretFresh, seenJobs, seenDep, work,
                   left, migrated>>

DeliverDeployment ==
    /\ seenDep # dep
    /\ seenDep' = dep
    /\ UNCHANGED <<api, cache, cacheFresh, seenSecret, secretFresh, seenJobs, seenPods, work,
                   left, migrated>>

(* A restarted operator lists everything and enqueues every cluster.       *)
Restart ==
    /\ left.faults > 0
    /\ left' = [left EXCEPT !.faults = @ - 1]
    /\ Continue("requeue")
    /\ cache' = cluster
    /\ cacheFresh' = TRUE
    /\ seenSecret' = Watched
    /\ secretFresh' = TRUE
    /\ seenJobs' = jobs
    /\ seenPods' = pods
    /\ seenDep' = dep
    /\ UNCHANGED <<api, migrated>>

Edit ==
    /\ left.edits > 0
    /\ left' = [left EXCEPT !.edits = @ - 1]
    /\ UNCHANGED <<cache, seenSecret, seenJobs, seenPods, seenDep, queued, pc, obj, ctx,
                   migrated>>

(* Every write of the cluster, that of a user included, makes the copies   *)
(* of the resource version old.                                            *)
EditSpec ==
    /\ Edit
    /\ \E spec \in Specs \ {cluster.spec} :
          cluster' = [cluster EXCEPT !.spec = spec, !.gen = @ + 1]
    /\ cacheFresh' = FALSE
    /\ objFresh' = FALSE
    /\ UNCHANGED <<secret, adopted, secretFresh, jobs, pods, dep>>

EditPauseLabel ==
    /\ Edit
    /\ cluster' = [cluster EXCEPT !.paused = ~@]
    /\ cacheFresh' = FALSE
    /\ objFresh' = FALSE
    /\ UNCHANGED <<secret, adopted, secretFresh, jobs, pods, dep>>

EditSecret ==
    /\ Edit
    /\ secret' \in (Secrets \cup {""}) \ {secret}
    /\ adopted' = (adopted /\ secret' # "")
    /\ secretFresh' = (secretFresh /\ ~adopted)
    /\ UNCHANGED <<cluster, cacheFresh, objFresh, jobs, pods, dep>>

DeleteFailedJob ==
    /\ Edit
    /\ \E j \in jobs : j.phase = "failed" /\ jobs' = jobs \ {j}
    /\ UNCHANGED <<cluster, cacheFresh, objFresh, secret, adopted, secretFresh, pods, dep>>

MigrationCompletes ==
    /\ \E j \in jobs :
          /\ j.phase = "running"
          /\ jobs' = (jobs \ {j}) \cup {[j EXCEPT !.phase = "complete"]}
          /\ migrated' = migrated \cup {j.hash}
    /\ UNCHANGED <<cluster, secret, adopted, pods, dep, cache, cacheFresh, seen, work, left>>

MigrationFails ==
    /\ left.failures > 0
    /\ left' = [left EXCEPT !.failures = @ - 1]
    /\ \E j \in jobs :
          /\ j.phase = "running"
          /\ jobs' = (jobs \ {j}) \cup {[j EXCEPT !.phase = "failed"]}
    /\ UNCHANGED <<cluster, secret, adopted, pods, dep, cache, cacheFresh, seen, work, migrated>>

(* The garbage collector takes a pod whose job is gone.                    *)
PodCollected ==
    /\ \E pod \in pods :
          /\ \A j \in jobs : j.hash # pod
          /\ pods' = pods \ {pod}
    /\ UNCHANGED <<cluster, secret, adopted, jobs, dep, cache, cacheFresh, seen, work,
                   left, migrated>>

RolloutCompletes ==
    /\ dep.exists /\ ~dep.ready
    /\ dep' = [dep EXCEPT !.rolled = TRUE, !.ready = TRUE, !.crash = FALSE]
    /\ UNCHANGED <<cluster, secret, adopted, jobs, pods, cache, cacheFresh, seen, work,
                   left, migrated>>

(* A pod terminates, during the rollout or later, and is restarted.        *)
PodCrashes ==
    /\ left.failures > 0
    /\ left' = [left EXCEPT !.failures = @ - 1]
    /\ dep.exists /\ ~dep.crash
    /\ dep' = [dep EXCEPT !.ready = FALSE, !.crash = TRUE]
    /\ UNCHANGED <<cluster, secret, adopted, jobs, pods, cache, cacheFresh, seen, work, migrated>>

Deliver ==
    DeliverCluster \/ syncExternalResource \/ DeliverJobs \/ DeliverPods \/ DeliverDeployment

Environment ==
    \/ Deliver \/ Restart \/ EditSpec \/ EditPauseLabel \/ EditSecret \/ DeleteFailedJob
    \/ MigrationCompletes \/ MigrationFails \/ PodCollected \/ RolloutCompletes \/ PodCrashes

Next == Reconcile \/ Environment

Spec == Init /\ [][Next]_vars

(* A key in the queue is taken and a reconcile under way goes on.  This is *)
(* WF_vars(Reconcile) written out: the action is enabled while a handler   *)
(* is to run or the key is queued; each of its steps changes pc or ctx,    *)
(* and apart from the restarts, which are bounded, no other step does.     *)
ReconcileIsFair ==
    \/ []<>(pc = "idle" /\ ~queued)
    \/ []<><<TRUE>>_<<pc, ctx>>

(* The workers keep taking keys, informers deliver, jobs end and rollouts  *)
(* complete.                                                               *)
FairSpec ==
    /\ Spec
    /\ ReconcileIsFair
    /\ WF_vars(DeliverCluster)
    /\ WF_vars(syncExternalResource)
    /\ WF_vars(DeliverJobs)
    /\ WF_vars(DeliverPods)
    /\ WF_vars(DeliverDeployment)
    /\ WF_vars(MigrationCompletes)
    /\ WF_vars(RolloutCompletes)
----------------------------------------------------------------------------
(* Types *)

HashType == [conf : Str, uri : Str, version : VersionType, state : StateType]
FailureType == [secret : Str, errs : SUBSET {"spec", "config", "update", "secret"}]
StatusType == [observed : Nat, target : HashType, current : HashType, secret : Str,
               version : VersionType, validating : BOOLEAN, failed : FailureType,
               migrating : {"no", "true", "false"}, missing : BOOLEAN, rolling : BOOLEAN,
               error : {"no", "pod", "apply"}, paused : BOOLEAN]
ClusterType == [gen : Nat, spec : SpecType, paused : BOOLEAN, status : StatusType]
JobType == [hash : HashType, phase : {"running", "complete", "failed"}]
DepType == [exists : BOOLEAN, annotation : HashType, conf : Str, state : StateType,
            secret : Str, rolled : BOOLEAN, ready : BOOLEAN, crash : BOOLEAN]
CtxType == [secret : Str, jobs : SUBSET JobType, pods : SUBSET HashType, dep : DepType]

LeftType == [edits : Nat, faults : Nat, failures : Nat]

Handlers == {"idle", "pause", "spec", "adopt", "missing", "collect", "changed", "config",
             "migrations", "run", "job", "extras", "wait", "selfpause", "label",
             "deploy", "apply", "report", "clear", "rollout", "cleanup", "pods"}

ApiOK ==
    /\ cluster \in ClusterType
    /\ secret \in Str
    /\ adopted \in BOOLEAN
    /\ jobs \in SUBSET JobType
    /\ pods \in SUBSET HashType
    /\ dep \in DepType

SeenOK ==
    /\ cache \in ClusterType
    /\ cacheFresh \in BOOLEAN
    /\ seenSecret \in Str
    /\ secretFresh \in BOOLEAN
    /\ seenJobs \in SUBSET JobType
    /\ seenPods \in SUBSET HashType
    /\ seenDep \in DepType

WorkOK ==
    /\ queued \in BOOLEAN
    /\ pc \in Handlers
    /\ obj \in ClusterType
    /\ objFresh \in BOOLEAN
    /\ ctx \in CtxType

TypeOK ==
    /\ ApiOK
    /\ SeenOK
    /\ WorkOK
    /\ left \in LeftType
    /\ migrated \in SUBSET HashType

----------------------------------------------------------------------------
(* Properties *)

(* The channel of a spec: the one it names, or the default one.            *)
Channel(spec) ==
    IF spec.channel # "" THEN spec.channel ELSE DefaultChannelForDatastore(Graph, Engine)

(* The users change the version they ask for, make the spec invalid, pause *)
(* the cluster, delete the secret and bring it back; they change no option *)
(* that enters the migration config.  In each channel updates lead to      *)
(* newer releases.                                                         *)
VersionsOnly ==
    /\ Engine # "memory"
    /\ \A a, b \in Secrets : a = b
    /\ \A spec \in Specs : ~spec.skip /\ spec.image # "pinned"
    /\ \A a, b \in Specs : /\ a.conf # "bad" /\ b.conf # "bad" => a.conf = b.conf
                           /\ Channel(a) = Channel(b)
    /\ \A i \in DOMAIN Graph : UpdatesLeadForward(Graph[i])

(* Releases have names, and no channel takes an update of any channel back.*)
NoWayBack ==
    \A i, j \in DOMAIN Graph : \A from \in DOMAIN Graph[i].edges :
        \A to \in Elems(Graph[i].edges[from]) :
            from # "" /\ to # "" /\ from \notin Elems(OutEdges(Graph[j], to))

NoConditions(s) ==
    s = [NoStatus EXCEPT !.observed = s.observed, !.target = s.target, !.current = s.current,
                         !.secret = s.secret, !.version = s.version]

(* The deployment's schema is there: unless migrations are skipped or the  *)
(* datastore is in memory, a migration job to the deployment's migration   *)
(* has completed on the datastore that the deployment uses                 *)
(* (checkMigrations, waitForMigrations, ensureDeployment).                 *)
SchemaReady ==
    dep.exists /\ dep.annotation # Skipped /\ Engine # "memory" =>
        \E h \in migrated : /\ h.uri = dep.annotation.uri
                             /\ h.state.migration = dep.state.migration

(* types.go: "If this is equal to TargetMigrationHash (and there are no    *)
(* conditions) then the datastore is fully migrated."                      *)
FullyMigrated ==
    LET s == cluster.status
    IN  NoConditions(s) /\ s.current = s.target /\ s.target # NoHash => s.target \in migrated

(* The deployment moves to another version only along an edge of the       *)
(* graph, across stale caches, lost status writes, failing calls and       *)
(* restarts (ComputeTarget, validateConfig, applyDeployment).              *)
StepwiseRollout ==
    [][dep.state.id # "" /\ dep'.state.id # "" /\ dep'.state.id # dep.state.id =>
          \E i \in DOMAIN Graph :
              dep'.state.id \in Elems(OutEdges(Graph[i], dep.state.id))]_vars

(* No version of the walk is passed over: the status takes an edge of the  *)
(* graph only when the version it leaves is deployed and has rolled out    *)
(* (RolloutInProgress, ComputeTarget, waitForRollout).                     *)
EveryStepDeployed ==
    [][\A i \in DOMAIN Graph :
          cluster'.status.version.name \in Elems(OutEdges(Graph[i], cluster.status.version.name))
              => dep.rolled /\ dep.state.id = cluster.status.version.name]_vars

(* The migration of the deployed hash is not run again: a job is created   *)
(* only for a hash that the deployment does not carry, although the caches *)
(* of jobs and deployments lag and completed jobs are deleted              *)
(* (checkMigrations, cleanupJob).  The users change the version here, and  *)
(* nothing else of the config: one who changes the config and takes it     *)
(* back while the cache still shows the deployment of before does cause    *)
(* the migration to run again.                                             *)
NoMigrationRerun ==
    [][\A j \in jobs' : (\A k \in jobs : k.hash # j.hash) => dep.annotation # j.hash]_vars

(* A status without conditions tells the truth about the deployment: when *)
(* the spec is observed, nothing is reported and the target hash is the    *)
(* current one, the deployment carries that hash and has rolled out        *)
(* (ensureDeployment sets and clears the conditions).                      *)
QuietMeansDeployed ==
    LET s == cluster.status
    IN  NoConditions(s) /\ s.current = s.target /\ s.target # NoHash
            => dep.rolled /\ dep.annotation = s.target

(* The cluster follows its channel, and its spec and secret are in order.  *)
FollowsHead ==
    /\ cluster.spec.valid /\ cluster.spec.conf # "bad"
    /\ cluster.spec.image = "" /\ cluster.spec.version = ""
    /\ ~cluster.paused /\ secret # ""

ChannelHead ==
    SourceForChannel(Graph, Engine, Channel(cluster.spec)).nodes[1].id

(* README.md: "If you do not specify a `version` that you want to run, the *)
(* operator will always keep you up to date with the newest version in the *)
(* channel."  Eventually every cluster that asks for it runs the head of   *)
(* its channel for good (ComputeTarget, RolloutInProgress, waitForRollout).*)
HeadDeployed == <>[](FollowsHead => dep.ready /\ dep.state.id = ChannelHead)

(* Eventually the head of the channel runs with the options of the spec    *)
(* and the contents of the secret, for good: no edit is lost between the   *)
(* stale caches and the events that queue the cluster (applyDeployment,    *)
(* waitForRollout, syncExternalResource).                                  *)
SpecDeployed ==
    <>[](FollowsHead => /\ dep.ready
                        /\ dep.state.id = ChannelHead
                        /\ dep.conf = cluster.spec.conf
                        /\ dep.secret = secret)

(* The job of the target has failed, and a reconcile can get to it.        *)
FailedMigration ==
    /\ cluster.spec.valid /\ cluster.spec.conf # "bad" /\ ~cluster.spec.skip
    /\ secret # ""
    /\ \E j \in jobs : j.phase = "failed" /\ j.hash = cluster.status.target

(* A failed migration pauses the cluster, so that it can be diagnosed and  *)
(* is not run over and over (waitForMigrations, selfPauseCluster).         *)
FailedMigrationPauses == FailedMigration ~> (cluster.paused \/ ~FailedMigration)
=============================================================================
